---------------------------- MODULE TurnsProofs ----------------------------
(***************************************************************************)
(* Proofs about Turns, for every number of voices, cards and frames: types,*)
(* the turn gate, the connection lock, what an acknowledged cancel leaves  *)
(* behind, and where the cards are.                                        *)
(***************************************************************************)
EXTENDS Turns, SequenceTheorems, FiniteSetTheorems, TLAPS

Owners == Slots \cup {"loop"}

-----------------------------------------------------------------------------
(* Taking an element out of a sequence.                                    *)

LEMMA RemoveAtFacts ==
    ASSUME NEW S, NEW s \in Seq(S), NEW i \in DOMAIN s
    PROVE  /\ RemoveAt(s, i) \in Seq(S)
           /\ Len(RemoveAt(s, i)) = Len(s) - 1
           /\ \A j \in 1..(Len(s) - 1) :
                 RemoveAt(s, i)[j] = IF j < i THEN s[j] ELSE s[j + 1]
  <1>1. i \in 1..Len(s) /\ Len(s) \in Nat
    OBVIOUS
  <1> DEFINE a == SubSeq(s, 1, i - 1)
             b == SubSeq(s, i + 1, Len(s))
  <1>2. /\ a \in Seq(S) /\ Len(a) = i - 1
        /\ \A j \in 1..(i - 1) : a[j] = s[j]
    BY <1>1, SubSeqProperties
  <1>3. /\ b \in Seq(S) /\ Len(b) = Len(s) - i
        /\ \A j \in 1..(Len(s) - i) : b[j] = s[i + j]
    BY <1>1, SubSeqProperties
  <1>4. RemoveAt(s, i) = a \o b
    BY DEF RemoveAt
  <1> HIDE DEF a, b
  <1>5. /\ a \o b \in Seq(S) /\ Len(a \o b) = Len(a) + Len(b)
        /\ \A j \in 1..(Len(a) + Len(b)) :
               (a \o b)[j] = IF j <= Len(a) THEN a[j] ELSE b[j - Len(a)]
    BY <1>2, <1>3, ConcatProperties
  <1>6. ASSUME NEW j \in 1..(Len(s) - 1)
        PROVE  (a \o b)[j] = IF j < i THEN s[j] ELSE s[j + 1]
    <2>1. j \in 1..(Len(a) + Len(b)) /\ j \in Int
      BY <1>1, <1>2, <1>3
    <2>2. CASE j < i
      BY <1>1, <1>2, <1>5, <2>1, <2>2
    <2>3. CASE ~(j < i)
      <3>1. (a \o b)[j] = b[j - Len(a)] /\ j - Len(a) = j - i + 1
        BY <1>1, <1>2, <1>5, <2>1, <2>3
      <3>2. j - i + 1 \in 1..(Len(s) - i) /\ i + (j - i + 1) = j + 1
        BY <1>1, <2>1, <2>3
      <3>3. b[j - i + 1] = s[j + 1]
        BY <1>3, <3>2
      <3> QED BY <1>1, <2>1, <2>3, <3>1, <3>3
    <2> QED BY <2>2, <2>3
  <1>7. Len(a \o b) = Len(s) - 1
    BY <1>1, <1>2, <1>3, <1>5
  <1> QED BY <1>4, <1>5, <1>6, <1>7

\* A queue without duplicates loses the element, and nothing else, in order;
\* its head stays unless it was the head that left.
LEMMA Removed ==
    ASSUME NEW S, NEW s \in Seq(S), IsInjective(s), NEW i \in DOMAIN s
    PROVE  /\ RemoveAt(s, i) \in Seq(S) /\ IsInjective(RemoveAt(s, i))
           /\ ToSet(RemoveAt(s, i)) = ToSet(s) \ {s[i]}
           /\ Head(s) # s[i] => /\ RemoveAt(s, i) # <<>>
                                /\ Head(RemoveAt(s, i)) = Head(s)
  <1> DEFINE t == RemoveAt(s, i)
  <1>1. i \in 1..Len(s) /\ Len(s) \in Nat /\ DOMAIN s = 1..Len(s)
    OBVIOUS
  <1>2. /\ t \in Seq(S) /\ Len(t) = Len(s) - 1
        /\ \A j \in 1..(Len(s) - 1) : t[j] = IF j < i THEN s[j] ELSE s[j + 1]
    BY RemoveAtFacts
  <1>3. DOMAIN t = 1..(Len(s) - 1)
    BY <1>2
  <1> HIDE DEF t
  <1>4. \A j, k \in 1..Len(s) : s[j] = s[k] => j = k
    BY <1>1 DEF IsInjective
  <1>5. IsInjective(t)
    <2> SUFFICES ASSUME NEW j \in 1..(Len(s) - 1), NEW k \in 1..(Len(s) - 1),
                        t[j] = t[k]
                 PROVE  j = k
      BY <1>3 DEF IsInjective
    <2> DEFINE f(m) == IF m < i THEN m ELSE m + 1
    <2>1. f(j) \in 1..Len(s) /\ f(k) \in 1..Len(s)
      BY <1>1
    <2>2. t[j] = s[f(j)] /\ t[k] = s[f(k)]
      BY <1>2
    <2>3. f(j) = f(k)
      <3> HIDE DEF f
      <3> QED BY <1>4, <2>1, <2>2
    <2> QED BY <1>1, <2>3
  <1>6. ToSet(t) = ToSet(s) \ {s[i]}
    <2>1. ASSUME NEW x \in ToSet(t)
          PROVE  x \in ToSet(s) \ {s[i]}
      <3>1. PICK j \in 1..(Len(s) - 1) : x = t[j]
        BY <1>3 DEF ToSet
      <3>2. PICK k \in 1..Len(s) : x = s[k] /\ k # i
        BY <1>1, <1>2, <3>1
      <3> QED BY <1>1, <1>4, <3>2 DEF ToSet
    <2>2. ASSUME NEW x \in ToSet(s), x # s[i]
          PROVE  x \in ToSet(t)
      <3>1. PICK k \in 1..Len(s) : x = s[k] /\ k # i
        BY <1>1, <2>2 DEF ToSet
      <3>2. CASE k < i
        BY <1>1, <1>2, <1>3, <3>1, <3>2 DEF ToSet
      <3>3. CASE k > i
        <4>1. k - 1 \in 1..(Len(s) - 1) /\ t[k - 1] = s[k]
          BY <1>1, <1>2, <3>3
        <4> QED BY <1>3, <3>1, <4>1 DEF ToSet
      <3> QED BY <1>1, <3>1, <3>2, <3>3
    <2> QED BY <2>1, <2>2
  <1>7. ASSUME Head(s) # s[i]
        PROVE  t # <<>> /\ Head(t) = Head(s)
    <2>1. i # 1 /\ Len(s) > 1
      BY <1>1, <1>7
    <2>2. Len(t) >= 1 /\ t[1] = s[1]
      BY <1>1, <1>2, <2>1
    <2> QED BY <1>1, <1>2, <2>1, <2>2
  <1> QED BY <1>2, <1>5, <1>6, <1>7 DEF t

\* A newcomer waits behind the others.
LEMMA Appended ==
    ASSUME NEW S, NEW s \in Seq(S), IsInjective(s), NEW x \in S, x \notin ToSet(s)
    PROVE  /\ Append(s, x) \in Seq(S) /\ IsInjective(Append(s, x))
           /\ ToSet(Append(s, x)) = ToSet(s) \cup {x}
           /\ s # <<>> => Head(Append(s, x)) = Head(s)
           /\ Append(s, x) # <<>>
  <1> DEFINE t == Append(s, x)
  <1>1. Len(s) \in Nat /\ DOMAIN s = 1..Len(s)
    OBVIOUS
  <1>2. /\ t \in Seq(S) /\ DOMAIN t = 1..(Len(s) + 1) /\ Len(t) = Len(s) + 1
        /\ \A j \in 1..Len(s) : t[j] = s[j]
        /\ t[Len(s) + 1] = x
    BY <1>1, AppendProperties
  <1> HIDE DEF t
  <1>3. \A j \in 1..Len(s) : s[j] # x
    BY <1>1 DEF ToSet
  <1>4. IsInjective(t)
    <2> SUFFICES ASSUME NEW j \in 1..(Len(s) + 1), NEW k \in 1..(Len(s) + 1),
                        t[j] = t[k]
                 PROVE  j = k
      BY <1>2 DEF IsInjective
    <2> QED BY <1>1, <1>2, <1>3 DEF IsInjective
  <1>5. ToSet(t) = ToSet(s) \cup {x}
    <2>1. \A j \in 1..(Len(s) + 1) : j \in 1..Len(s) \/ j = Len(s) + 1
      BY <1>1
    <2> QED BY <1>1, <1>2, <2>1 DEF ToSet
  <1>6. t # <<>> /\ (s # <<>> => Head(t) = Head(s))
    BY <1>1, <1>2
  <1> QED BY <1>2, <1>4, <1>5, <1>6 DEF t

-----------------------------------------------------------------------------
(* Types.                                                                  *)

LEMMA TypeInit == Init => TypeOK
  <1> SUFFICES ASSUME Init
               PROVE  TypeOK
    OBVIOUS
  <1>1. <<>> \in Seq(Frames) /\ <<>> \in Seq(Cards)
        /\ <<>> \in Seq(Slots \cup {"loop"})
    OBVIOUS
  <1>2. Idle \in Coroutine
    BY <1>1 DEF Idle, Coroutine
  <1>3. loop \in Loop
    BY DEF Init, Loop
  <1>4. open \in BOOLEAN /\ processing \in BOOLEAN /\ surface \in BOOLEAN
        /\ busy \in BOOLEAN
    BY Zenon DEF Init
  <1> QED BY <1>1, <1>2, <1>3, <1>4, ConstantsAssumption DEF Init, TypeOK

LEMMA WriteTyped ==
    ASSUME written \in Seq(Cards), dropped \subseteq Cards, NEW c \in Cards, Write(c)
    PROVE  written' \in Seq(Cards) /\ dropped' \subseteq Cards
  BY DEF Write

\* Rest and the cards a turn's end sends.
LEMMA TurnEndTyped ==
    ASSUME deferred \in Seq(Cards), written \in Seq(Cards), dropped \subseteq Cards,
           TurnEnd
    PROVE  /\ busy' \in BOOLEAN /\ deferred' \in Seq(Cards)
           /\ written' \in Seq(Cards) /\ dropped' \subseteq Cards
           /\ Rest \in Seq(Cards)
  <1>1. deferred' \in Seq(Cards) /\ busy' \in BOOLEAN
    <2>1. deferred' \in Seq(Cards)
      BY DEF TurnEnd
    <2>2. busy' \in BOOLEAN
      BY Zenon DEF TurnEnd
    <2> QED BY <2>1, <2>2
  <1>2. CASE deferred = <<>>
    BY <1>1, <1>2 DEF TurnEnd, Rest
  <1>3. CASE deferred # <<>>
    <2>1. Head(deferred) \in Cards /\ Tail(deferred) \in Seq(Cards)
      BY <1>3
    <2>2. Rest \in Seq(Cards)
      BY <1>3, <2>1 DEF Rest
    <2>3. written' \in Seq(Cards) /\ dropped' \subseteq Cards
      BY <1>3, <2>1, WriteTyped DEF TurnEnd
    <2> QED BY <1>1, <2>2, <2>3
  <1> QED BY <1>2, <1>3

LEMMA ReleaseTyped ==
    ASSUME lock \in Seq(Owners), NEW who, Release(who)
    PROVE  lock' \in Seq(Owners)
  BY RemoveAtFacts DEF Release

\* The record of a coroutine after each kind of step.
LEMMA CoroutineTyped ==
    ASSUME NEW r \in Coroutine, NEW h \in Seq(Cards)
    PROVE  /\ Idle \in Coroutine
           /\ \A p \in {"done", "new", "wait", "body", "drain", "timeout"} :
                 /\ [r EXCEPT !.pc = p] \in Coroutine
                 /\ [Idle EXCEPT !.pc = p] \in Coroutine
                 /\ [Idle EXCEPT !.pc = p, !.hand = h] \in Coroutine
           /\ [r EXCEPT !.hand = h, !.cancel = FALSE] \in Coroutine
           /\ \A b \in BOOLEAN : [r EXCEPT !.cancel = b] \in Coroutine
  <1>1. <<>> \in Seq(Cards)
    OBVIOUS
  <1>2. Idle \in Coroutine
    BY <1>1 DEF Idle, Coroutine
  <1>3. \A b \in BOOLEAN : [r EXCEPT !.cancel = b] \in Coroutine
    BY DEF Coroutine
  <1>4. [r EXCEPT !.hand = h, !.cancel = FALSE] \in Coroutine
    BY DEF Coroutine
  <1>5. ASSUME NEW p \in {"done", "new", "wait", "body", "drain", "timeout"}
        PROVE  /\ [r EXCEPT !.pc = p] \in Coroutine
               /\ [Idle EXCEPT !.pc = p] \in Coroutine
               /\ [Idle EXCEPT !.pc = p, !.hand = h] \in Coroutine
    BY <1>2 DEF Coroutine
  <1> QED BY <1>2, <1>3, <1>4, <1>5

LEMMA SlotStepTyped ==
    ASSUME TypeOK, NEW s \in Slots, SlotStep(s)
    PROVE  TypeOK'
  <1>1. /\ lock \in Seq(Owners) /\ task \in [Slots -> Coroutine]
        /\ surface \in BOOLEAN /\ busy \in BOOLEAN /\ deferred \in Seq(Cards)
        /\ written \in Seq(Cards) /\ dropped \subseteq Cards
    BY DEF TypeOK, Owners
  <1>2. task[s] \in Coroutine /\ task[s].hand \in Seq(Cards) /\ <<>> \in Seq(Cards)
    BY <1>1 DEF Coroutine
  <1>3. \A r \in Coroutine : [task EXCEPT ![s] = r] \in [Slots -> Coroutine]
    BY <1>1
  <1>4. /\ lock' \in Seq(Owners) /\ task' \in [Slots -> Coroutine]
        /\ surface' \in BOOLEAN /\ busy' \in BOOLEAN /\ deferred' \in Seq(Cards)
        /\ written' \in Seq(Cards) /\ dropped' \subseteq Cards
    <2>1. CASE Queue(s)
      <3>1. task' = [task EXCEPT ![s] = [task[s] EXCEPT !.pc = "wait"]]
        BY <1>1, <2>1 DEF Queue, Goto
      <3>2. task' \in [Slots -> Coroutine]
        BY <1>2, <1>3, <3>1, CoroutineTyped
      <3>3. lock' \in Seq(Owners)
        BY <1>1, <2>1 DEF Queue, Owners
      <3> QED BY <1>1, <2>1, <3>2, <3>3 DEF Queue, gate
    <2>2. CASE Begin(s)
      <3>1. task' = [task EXCEPT ![s] = [task[s] EXCEPT !.pc = "body"]]
        BY <1>1, <2>2 DEF Begin, Goto
      <3>2. task' \in [Slots -> Coroutine]
        BY <1>2, <1>3, <3>1, CoroutineTyped
      <3>3. busy' \in BOOLEAN
        BY <1>1, <2>2, Zenon DEF Begin, TurnStart
      <3> QED BY <1>1, <2>2, <3>2, <3>3 DEF Begin
    <2>3. CASE GiveUp(s)
      <3>1. task' \in [Slots -> Coroutine]
        BY <1>2, <1>3, <2>3, CoroutineTyped DEF GiveUp
      <3>2. lock' \in Seq(Owners)
        BY <1>1, <2>3, ReleaseTyped DEF GiveUp
      <3> QED BY <1>1, <2>3, <3>1, <3>2 DEF GiveUp, gate
    <2>4. CASE Swallow(s)
      <3>1. task' = [task EXCEPT ![s] = [task[s] EXCEPT !.cancel = FALSE]]
        BY <1>1, <2>4 DEF Swallow
      <3>2. task' \in [Slots -> Coroutine]
        BY <1>2, <1>3, <3>1, CoroutineTyped
      <3> QED BY <1>1, <2>4, <3>2 DEF Swallow, gate
    <2>5. CASE End(s)
      <3>1. /\ busy' \in BOOLEAN /\ deferred' \in Seq(Cards)
            /\ written' \in Seq(Cards) /\ dropped' \subseteq Cards
        BY <1>1, <2>5, TurnEndTyped DEF End
      <3>2. lock' \in Seq(Owners)
        BY <1>1, <2>5, ReleaseTyped DEF End
      <3>3. task' \in [Slots -> Coroutine]
        <4>1. CASE s = "text" /\ deferred # <<>>
          <5>1. Rest \in Seq(Cards)
            BY <1>1, <4>1 DEF Rest
          <5>2. [Idle EXCEPT !.pc = "drain", !.hand = Rest] \in Coroutine
            BY <1>2, <5>1, CoroutineTyped
          <5>3. task' = [task EXCEPT ![s] = [Idle EXCEPT !.pc = "drain", !.hand = Rest]]
            BY <2>5, <4>1 DEF End
          <5> QED BY <1>3, <5>2, <5>3
        <4>2. CASE ~(s = "text" /\ deferred # <<>>)
          BY <1>2, <1>3, <2>5, <4>2, CoroutineTyped DEF End
        <4> QED BY <4>1, <4>2
      <3> QED BY <1>1, <2>5, <3>1, <3>2, <3>3 DEF End
    <2>6. CASE Drain(s)
      <3>1. CASE task[s].hand = <<>>
        <4>1. task' \in [Slots -> Coroutine]
          BY <1>2, <1>3, <2>6, <3>1, CoroutineTyped DEF Drain
        <4>2. lock' \in Seq(Owners)
          BY <1>1, <2>6, <3>1, ReleaseTyped DEF Drain
        <4> QED BY <1>1, <2>6, <3>1, <4>1, <4>2 DEF Drain, gate
      <3>2. CASE task[s].hand # <<>>
        <4>1. Head(task[s].hand) \in Cards /\ Tail(task[s].hand) \in Seq(Cards)
          BY <1>2, <3>2
        <4>2. written' \in Seq(Cards) /\ dropped' \subseteq Cards
          BY <1>1, <2>6, <3>2, <4>1, WriteTyped DEF Drain
        <4>3. task' = [task EXCEPT ![s] = [task[s] EXCEPT !.hand = Tail(task[s].hand),
                                                          !.cancel = FALSE]]
          BY <1>1, <2>6, <3>2 DEF Drain
        <4>4. task' \in [Slots -> Coroutine]
          BY <1>2, <1>3, <4>1, <4>3, CoroutineTyped
        <4> QED BY <1>1, <2>6, <3>2, <4>2, <4>4 DEF Drain, gate
      <3> QED BY <3>1, <3>2
    <2> QED BY <2>1, <2>2, <2>3, <2>4, <2>5, <2>6 DEF SlotStep
  <1> QED BY <1>4 DEF TypeOK, SlotStep, Owners

LEMMA VoiceStepTyped ==
    ASSUME TypeOK, NEW v \in Voices, VoiceStep(v)
    PROVE  TypeOK'
  <1>1. /\ voice \in [Voices -> Coroutine] /\ processing \in BOOLEAN
        /\ surface \in BOOLEAN /\ busy \in BOOLEAN /\ deferred \in Seq(Cards)
        /\ written \in Seq(Cards) /\ dropped \subseteq Cards
    BY DEF TypeOK
  <1>2. voice[v] \in Coroutine /\ voice[v].hand \in Seq(Cards)
    BY <1>1 DEF Coroutine
  <1>3. \A r \in Coroutine : [voice EXCEPT ![v] = r] \in [Voices -> Coroutine]
    BY <1>1
  <1>4. /\ voice' \in [Voices -> Coroutine] /\ processing' \in BOOLEAN
        /\ surface' \in BOOLEAN /\ busy' \in BOOLEAN /\ deferred' \in Seq(Cards)
        /\ written' \in Seq(Cards) /\ dropped' \subseteq Cards
    <2>1. CASE VoiceBegin(v)
      <3>1. voice' = [voice EXCEPT ![v] = [voice[v] EXCEPT !.pc = "body"]]
        BY <1>1, <2>1 DEF VoiceBegin
      <3>2. voice' \in [Voices -> Coroutine]
        BY <1>2, <1>3, <3>1, CoroutineTyped
      <3>3. busy' \in BOOLEAN /\ processing' \in BOOLEAN
        BY <1>1, <2>1, Zenon DEF VoiceBegin, TurnStart
      <3> QED BY <1>1, <2>1, <3>2, <3>3 DEF VoiceBegin
    <2>2. CASE VoiceGiveUp(v)
      <3>1. voice' \in [Voices -> Coroutine]
        BY <1>2, <1>3, <2>2, CoroutineTyped DEF VoiceGiveUp
      <3> QED BY <1>1, <2>2, <3>1 DEF VoiceGiveUp, gate
    <2>3. CASE VoiceSwallow(v)
      <3>1. voice' = [voice EXCEPT ![v] = [voice[v] EXCEPT !.cancel = FALSE]]
        BY <1>1, <2>3 DEF VoiceSwallow
      <3>2. voice' \in [Voices -> Coroutine]
        BY <1>2, <1>3, <3>1, CoroutineTyped
      <3> QED BY <1>1, <2>3, <3>2 DEF VoiceSwallow, gate
    <2>4. CASE VoiceEnd(v)
      <3>1. /\ busy' \in BOOLEAN /\ deferred' \in Seq(Cards)
            /\ written' \in Seq(Cards) /\ dropped' \subseteq Cards
            /\ Rest \in Seq(Cards)
        BY <1>1, <2>4, TurnEndTyped DEF VoiceEnd
      <3>2. PICK p \in {"timeout", "drain"} :
                voice' = [voice EXCEPT ![v] = [Idle EXCEPT !.pc = p, !.hand = Rest]]
        BY <2>4 DEF VoiceEnd
      <3>3. [Idle EXCEPT !.pc = p, !.hand = Rest] \in Coroutine
        BY <1>2, <3>1, CoroutineTyped
      <3>4. voice' \in [Voices -> Coroutine]
        BY <1>3, <3>2, <3>3
      <3>5. processing' \in BOOLEAN
        BY <2>4, Zenon DEF VoiceEnd
      <3> QED BY <1>1, <2>4, <3>1, <3>4, <3>5 DEF VoiceEnd
    <2>5. CASE VoiceDrain(v)
      <3>1. CASE voice[v].hand = <<>>
        <4>1. voice' \in [Voices -> Coroutine]
          BY <1>2, <1>3, <2>5, <3>1, CoroutineTyped DEF VoiceDrain
        <4> QED BY <1>1, <2>5, <3>1, <4>1 DEF VoiceDrain, gate
      <3>2. CASE voice[v].hand # <<>>
        <4>1. Head(voice[v].hand) \in Cards /\ Tail(voice[v].hand) \in Seq(Cards)
          BY <1>2, <3>2
        <4>2. written' \in Seq(Cards) /\ dropped' \subseteq Cards
          BY <1>1, <2>5, <3>2, <4>1, WriteTyped DEF VoiceDrain
        <4>3. voice' = [voice EXCEPT ![v] = [voice[v] EXCEPT
                            !.hand = Tail(voice[v].hand), !.cancel = FALSE]]
          BY <1>1, <2>5, <3>2 DEF VoiceDrain
        <4>4. voice' \in [Voices -> Coroutine]
          BY <1>2, <1>3, <4>1, <4>3, CoroutineTyped
        <4> QED BY <1>1, <2>5, <3>2, <4>2, <4>4 DEF VoiceDrain, gate
      <3> QED BY <3>1, <3>2
    <2>6. CASE VoiceReturn(v)
      <3>1. voice' \in [Voices -> Coroutine]
        BY <1>2, <1>3, <2>6, CoroutineTyped DEF VoiceReturn
      <3>2. processing' \in BOOLEAN
        BY <1>1, <2>6, Zenon DEF VoiceReturn
      <3> QED BY <1>1, <2>6, <3>1, <3>2 DEF VoiceReturn, gate
    <2> QED BY <2>1, <2>2, <2>3, <2>4, <2>5, <2>6 DEF VoiceStep
  <1> QED BY <1>4 DEF TypeOK, VoiceStep

LEMMA GoOnTyped ==
    ASSUME NEW p \in {"read", "stop", "dictate", "cutVoice", "leave", "leaveVoice",
                      "gone"},
           GoOn(p)
    PROVE  loop' \in Loop
  BY DEF GoOn, Loop

\* A frame is taken from the inbox.
LEMMA ReadsTyped ==
    ASSUME TypeOK, NEW f, Reads(f)
    PROVE  inbox' \in Seq(Frames)
  BY DEF TypeOK, Reads

LEMMA SpawnTyped ==
    ASSUME voice \in [Voices -> Coroutine], Spawn
    PROVE  voice' \in [Voices -> Coroutine] /\ current' \in Voices
  <1>1. PICK v \in Voices : /\ voice' = [voice EXCEPT ![v] = [Idle EXCEPT !.pc = "new"]]
                            /\ current' = v
    BY DEF Spawn
  <1>2. voice[v] \in Coroutine /\ <<>> \in Seq(Cards)
    OBVIOUS
  <1>3. [Idle EXCEPT !.pc = "new"] \in Coroutine
    BY <1>2, CoroutineTyped
  <1> QED BY <1>1, <1>3

LEMMA CreateTyped ==
    ASSUME task \in [Slots -> Coroutine], NEW s, Create(s)
    PROVE  task' \in [Slots -> Coroutine]
  <1>1. task["text"] \in Coroutine /\ <<>> \in Seq(Cards)
    BY DEF Slots, Queueing
  <1>2. [Idle EXCEPT !.pc = "new"] \in Coroutine
    BY <1>1, CoroutineTyped
  <1> QED BY <1>2 DEF Create

LEMMA TaskCancelTyped ==
    ASSUME task \in [Slots -> Coroutine], NEW s \in Slots, NEW b \in BOOLEAN
    PROVE  [task EXCEPT ![s].cancel = b] \in [Slots -> Coroutine]
  BY DEF Coroutine

LEMMA VoiceCancelTyped ==
    ASSUME voice \in [Voices -> Coroutine], NEW v, NEW b \in BOOLEAN
    PROVE  [voice EXCEPT ![v].cancel = b] \in [Voices -> Coroutine]
  BY DEF Coroutine

LEMMA CutFromTyped ==
    ASSUME TypeOK, NEW S \in SUBSET Slots, CutFrom(S)
    PROVE  /\ loop' \in Loop /\ task' \in [Slots -> Coroutine]
           /\ voice' \in [Voices -> Coroutine]
  <1>1. task \in [Slots -> Coroutine] /\ voice \in [Voices -> Coroutine]
    BY DEF TypeOK
  <1>2. CASE \E s \in S : Live(s)
    <2>1. PICK s \in S : /\ loop' = [pc |-> "cut", slot |-> s, left |-> S \ {s}]
                         /\ task' = [task EXCEPT ![s].cancel = TRUE]
                         /\ UNCHANGED voice
      BY <1>2 DEF CutFrom
    <2>2. loop' \in Loop
      BY <2>1 DEF Loop
    <2> QED BY <1>1, <2>1, <2>2, TaskCancelTyped
  <1>3. CASE ~\E s \in S : Live(s)
    <2>1. loop' \in Loop /\ UNCHANGED task
      BY <1>3, GoOnTyped DEF CutFrom
    <2>2. voice' = voice \/ voice' = [voice EXCEPT ![current].cancel = TRUE]
      BY <1>3 DEF CutFrom
    <2>3. voice' \in [Voices -> Coroutine]
      <3>1. [voice EXCEPT ![current].cancel = TRUE] \in [Voices -> Coroutine]
        BY <1>1, VoiceCancelTyped
      <3> QED BY <1>1, <2>2, <3>1
    <2> QED BY <1>1, <2>1, <2>3
  <1> QED BY <1>2, <1>3

LEMMA ToSetTyped ==
    ASSUME NEW s \in Seq(Cards)
    PROVE  ToSet(s) \subseteq Cards
  BY DEF ToSet

LEMMA LoopStepTyped ==
    ASSUME TypeOK, LoopStep
    PROVE  TypeOK'
  <1>1. /\ loop \in Loop /\ inbox \in Seq(Frames) /\ lock \in Seq(Owners)
        /\ task \in [Slots -> Coroutine] /\ voice \in [Voices -> Coroutine]
        /\ current \in Voices \cup {None} /\ processing \in BOOLEAN
        /\ surface \in BOOLEAN /\ busy \in BOOLEAN /\ deferred \in Seq(Cards)
        /\ written \in Seq(Cards) /\ dropped \subseteq Cards /\ doomed \subseteq Cards
    BY DEF TypeOK, Owners
  <1>2. ToSet(deferred) \subseteq Cards
    BY <1>1, ToSetTyped
  <1>3. inbox' \in Seq(Frames)
    <2>1. \A f : Reads(f) => inbox' \in Seq(Frames)
      BY ReadsTyped
    <2> QED
      BY <1>1, <2>1 DEF LoopStep, Audio, Spawned, Joined, Stop, StartProcessing,
         Dictate, Dictated, Cancel, CutNext, Discard, Leave, Unregister, Gone
  <1>4. loop' \in Loop
    <2>1. CASE Cancel \/ CutNext
      <3>1. loop.left \subseteq Slots
        BY <1>1 DEF Loop
      <3> QED BY <2>1, <3>1, CutFromTyped DEF Cancel, CutNext
    <2>2. ASSUME NEW s \in Slots, Spawned(s)
          PROVE  loop' \in Loop
      BY <1>1, <2>2 DEF Spawned, Loop
    <2> QED
      BY <1>1, <2>1, <2>2, GoOnTyped
      DEF LoopStep, Audio, Joined, Stop, StartProcessing, Dictate, Dictated,
          Discard, Leave, Unregister, Gone
  <1>5. lock' \in Seq(Owners)
    <2>1. CASE Stop
      BY <1>1, <2>1 DEF Stop, Owners
    <2>2. CASE StartProcessing \/ Dictated
      BY <1>1, <2>2, ReleaseTyped DEF StartProcessing, Dictated
    <2> QED
      BY <1>1, <2>1, <2>2
      DEF LoopStep, Audio, Spawned, Joined, Dictate, Cancel, CutNext, Discard,
          Leave, Unregister, Gone
  <1>6. task' \in [Slots -> Coroutine]
    <2>1. CASE Cancel \/ CutNext
      <3>1. loop.left \subseteq Slots
        BY <1>1 DEF Loop
      <3> QED BY <2>1, <3>1, CutFromTyped DEF Cancel, CutNext
    <2>2. ASSUME NEW s \in Slots, Spawned(s)
          PROVE  task' \in [Slots -> Coroutine]
      <3>1. (s \notin Queueing) \in BOOLEAN
        OBVIOUS
      <3> QED BY <1>1, <2>2, <3>1, CreateTyped, TaskCancelTyped, Zenon DEF Spawned
    <2>3. CASE Joined
      BY <1>1, <2>3, CreateTyped DEF Joined
    <2>4. CASE Leave
      <3>1. \A s \in Slots : Live(s) \in BOOLEAN
        BY DEF Live
      <3>2. \A s \in Slots : [task[s] EXCEPT !.cancel = Live(s)] \in Coroutine
        <4>1. \A s \in Slots : \A b \in BOOLEAN : [task[s] EXCEPT !.cancel = b] \in Coroutine
          BY <1>1 DEF Coroutine
        <4> QED BY <3>1, <4>1, Zenon
      <3> QED BY <2>4, <3>2 DEF Leave
    <2> QED
      BY <1>1, <2>1, <2>2, <2>3, <2>4
      DEF LoopStep, Audio, Stop, StartProcessing, Dictate, Dictated, Discard,
          Unregister, Gone
  <1>7. voice' \in [Voices -> Coroutine] /\ current' \in Voices \cup {None}
    <2>1. CASE Cancel \/ CutNext
      <3>1. loop.left \subseteq Slots
        BY <1>1 DEF Loop
      <3> QED BY <1>1, <2>1, <3>1, CutFromTyped DEF Cancel, CutNext
    <2>2. CASE Audio \/ StartProcessing
      BY <1>1, <2>2, SpawnTyped DEF Audio, StartProcessing
    <2>3. CASE Unregister
      BY <1>1, <2>3, VoiceCancelTyped DEF Unregister
    <2> QED
      BY <1>1, <2>1, <2>2, <2>3
      DEF LoopStep, Spawned, Joined, Stop, Dictate, Dictated, Discard, Leave, Gone
  <1>8. processing' \in BOOLEAN /\ surface' \in BOOLEAN /\ busy' \in BOOLEAN
    BY <1>1, Zenon
    DEF LoopStep, Audio, Spawned, Joined, Stop, StartProcessing, Dictate, Dictated,
        Cancel, CutNext, Discard, Leave, Unregister, Gone, gate
  <1>9. /\ deferred' \in Seq(Cards) /\ written' \in Seq(Cards)
        /\ dropped' \subseteq Cards /\ doomed' \subseteq Cards
    <2>1. <<>> \in Seq(Cards)
      OBVIOUS
    <2>2. CASE UNCHANGED <<deferred, written, dropped>>
      BY <1>1, <1>2, <2>2
      DEF LoopStep, Audio, Spawned, Joined, Stop, StartProcessing, Dictate,
          Dictated, Cancel, CutNext, Discard, Leave, Unregister, Gone
    <2>3. CASE Discard \/ Unregister
      BY <1>1, <1>2, <2>1, <2>3 DEF Discard, Unregister
    <2> QED
      BY <2>2, <2>3
      DEF LoopStep, Audio, Spawned, Joined, Stop, StartProcessing, Dictate,
          Dictated, Cancel, CutNext, Leave, Gone, gate
  <1> QED
    BY <1>3, <1>4, <1>5, <1>6, <1>7, <1>8, <1>9 DEF TypeOK, LoopStep, Owners

LEMMA TypeNext == TypeOK /\ [Next]_vars => TypeOK'
  <1> SUFFICES ASSUME TypeOK, [Next]_vars
               PROVE  TypeOK'
    OBVIOUS
  <1>1. ASSUME NEW c \in Cards, Fire(c)
        PROVE  TypeOK'
    <2>1. /\ deferred \in Seq(Cards) /\ written \in Seq(Cards)
          /\ dropped \subseteq Cards /\ fired \subseteq Cards
      BY DEF TypeOK
    <2>2. /\ deferred' \in Seq(Cards) /\ written' \in Seq(Cards)
          /\ dropped' \subseteq Cards /\ fired' \subseteq Cards
      <3>1. CASE busy
        BY <1>1, <2>1, <3>1 DEF Fire
      <3>2. CASE ~busy
        BY <1>1, <2>1, <3>2, WriteTyped DEF Fire
      <3> QED BY <3>1, <3>2
    <2>3. busy' \in BOOLEAN
      BY <1>1, Zenon DEF Fire, TypeOK
    <2> QED BY <1>1, <2>2, <2>3 DEF Fire, TypeOK
  <1>2. ASSUME NEW f \in Frames, Send(f)
        PROVE  TypeOK'
    <2>1. inbox' \in Seq(Frames) /\ sent' \in 0..MaxFrames
      BY <1>2, ConstantsAssumption DEF Send, TypeOK
    <2> QED BY <1>2, <2>1 DEF Send, TypeOK, gate, cards
  <1>3. CASE Drop
    <2>1. open' \in BOOLEAN
      BY <1>3, Zenon DEF Drop
    <2> QED BY <1>3, <2>1 DEF Drop, TypeOK, gate, cards
  <1>4. CASE UNCHANGED vars
    BY <1>4 DEF vars, TypeOK, gate, cards
  <1> QED
    BY <1>1, <1>2, <1>3, <1>4, SlotStepTyped, VoiceStepTyped, LoopStepTyped
    DEF Next

\* Every variable keeps its type: nothing but cards is ever deferred, drained
\* or written, and nothing but handlers and the loop waits for conn_lock.
THEOREM TypeCorrect == Spec => []TypeOK
  BY TypeInit, TypeNext, PTL DEF Spec

-----------------------------------------------------------------------------
(* The turn gate.                                                          *)

\* How a step can move a coroutine out of its turn: only with the finally
\* that opens the gate.
LEMMA GateNext ==
    ASSUME TypeOK, GateOpens, [Next]_vars
    PROVE  GateOpens'
  <1>1. task \in [Slots -> Coroutine] /\ voice \in [Voices -> Coroutine]
        /\ "text" \in Slots
    BY DEF TypeOK, Slots, Queueing
  <1>2. ASSUME ~busy', deferred' = <<>>
        PROVE  GateOpens'
    BY <1>2 DEF GateOpens
  <1>3. ASSUME NEW c \in Cards, Fire(c)
        PROVE  GateOpens'
    BY <1>3 DEF Fire, GateOpens, InTurn
  <1>4. ASSUME NEW s \in Slots, SlotStep(s)
        PROVE  GateOpens'
    <2>1. CASE Begin(s)
      BY <1>1, <1>4, <2>1 DEF SlotStep, Begin, Goto, TurnStart, GateOpens, InTurn, Coroutine
    <2>2. CASE End(s)
      <3>1. CASE s = "text"
        BY <1>2, <2>2, <3>1 DEF End, TurnEnd
      <3>2. CASE s # "text"
        BY <1>1, <1>4, <2>2, <3>2 DEF SlotStep, End, GateOpens, InTurn
      <3> QED BY <3>1, <3>2
    <2>3. CASE Queue(s) \/ GiveUp(s) \/ Swallow(s) \/ Drain(s)
      <3>1. UNCHANGED <<busy, deferred, voice>>
        BY <1>4, <2>3 DEF SlotStep, Queue, GiveUp, Swallow, Drain, gate
      <3>2. task["text"].pc = "body" => task'["text"].pc = "body"
        BY <1>1, <2>3 DEF Queue, GiveUp, Swallow, Drain, Goto, Coroutine
      <3> QED BY <3>1, <3>2 DEF GateOpens, InTurn
    <2> QED BY <1>4, <2>1, <2>2, <2>3 DEF SlotStep
  <1>5. ASSUME NEW v \in Voices, VoiceStep(v)
        PROVE  GateOpens'
    <2>1. CASE VoiceBegin(v)
      <3>1. voice'[v].pc = "body" /\ deferred' = deferred /\ (busy => busy')
        BY <1>1, <2>1 DEF VoiceBegin, TurnStart, Coroutine
      <3> QED BY <3>1 DEF GateOpens, InTurn
    <2>2. CASE VoiceEnd(v)
      BY <1>2, <2>2 DEF VoiceEnd, TurnEnd
    <2>3. CASE VoiceGiveUp(v) \/ VoiceSwallow(v) \/ VoiceDrain(v) \/ VoiceReturn(v)
      <3>1. UNCHANGED <<busy, deferred, task>>
        BY <1>5, <2>3 DEF VoiceStep, VoiceGiveUp, VoiceSwallow, VoiceDrain,
           VoiceReturn, gate
      <3>2. \A u \in Voices : voice[u].pc = "body" => voice'[u].pc = "body"
        BY <1>1, <2>3 DEF VoiceGiveUp, VoiceSwallow, VoiceDrain, VoiceReturn, Coroutine
      <3> QED BY <3>1, <3>2 DEF GateOpens, InTurn
    <2> QED BY <1>5, <2>1, <2>2, <2>3 DEF VoiceStep
  <1>6. CASE LoopStep
    <2>1. CASE Unregister
      BY <1>2, <2>1 DEF Unregister
    <2>2. CASE ~Unregister
      <3>1. busy' = busy /\ (deferred' = deferred \/ deferred' = <<>>)
        BY <1>6, <2>2 DEF LoopStep, Audio, Spawned, Joined, Stop, StartProcessing,
           Dictate, Dictated, Cancel, CutNext, Discard, Leave, Gone, gate
      <3>2. task["text"].pc = "body" => task'["text"].pc = "body"
        <4>1. CASE task' = task
          BY <4>1
        <4>2. ASSUME NEW s \in Slots, Spawned(s)
              PROVE  task["text"].pc = "body" => task'["text"].pc = "body"
          <5>1. \A b : [task EXCEPT ![s].cancel = b]["text"].pc = task["text"].pc
            BY <1>1 DEF Coroutine
          <5>2. CASE Live(s)
            BY <4>2, <5>1, <5>2, Zenon DEF Spawned
          <5>3. CASE ~Live(s)
            BY <1>1, <4>2, <5>3 DEF Spawned, Create, Live
          <5> QED BY <5>2, <5>3
        <4>3. CASE Joined
          BY <1>1, <4>3 DEF Joined, Create, Live, Coroutine
        <4>4. CASE Cancel \/ CutNext
          BY <1>1, <4>4 DEF Cancel, CutNext, CutFrom, Coroutine
        <4>5. CASE Leave
          BY <1>1, <4>5 DEF Leave, Coroutine
        <4> QED
          BY <1>6, <2>2, <4>1, <4>2, <4>3, <4>4, <4>5
          DEF LoopStep, Audio, Stop, StartProcessing, Dictate, Dictated, Discard, Gone
      <3>3. \A u \in Voices : voice[u].pc = "body" => voice'[u].pc = "body"
        BY <1>1, <1>6, <2>2 DEF LoopStep, Audio, Spawned, Joined, Stop,
           StartProcessing, Dictate, Dictated, Cancel, CutNext, Discard, Leave,
           Gone, Spawn, CutFrom, Speaking, Coroutine
      <3> QED BY <3>1, <3>2, <3>3 DEF GateOpens, InTurn
    <2> QED BY <2>1, <2>2
  <1>7. CASE Drop \/ UNCHANGED vars \/ \E f \in Frames : Send(f)
    BY <1>7 DEF Drop, Send, vars, gate, GateOpens, InTurn
  <1> QED BY <1>3, <1>4, <1>5, <1>6, <1>7 DEF Next

\* No interleaving of turns, cancellations, swallowed cancellations, timeouts
\* and disconnects leaves the gate shut, or a card behind it, once no turn is
\* under way that will open it.
THEOREM GateIsOpen == Spec => []GateOpens
  <1>1. Init => GateOpens
    BY DEF Init, GateOpens
  <1>2. TypeOK /\ GateOpens /\ [Next]_vars => GateOpens'
    BY GateNext
  <1> QED BY <1>1, <1>2, TypeCorrect, PTL DEF Spec

-----------------------------------------------------------------------------
(* The connection lock.                                                    *)

LockTyped == lock \in Seq(Owners) /\ task \in [Slots -> Coroutine]

\* A coroutine outside the queue that joins it changes nobody's turn.
LEMMA LockJoin ==
    ASSUME LockTyped, IsInjective(lock), NEW w \in Owners, w \notin ToSet(lock),
           lock' = Append(lock, w)
    PROVE  /\ IsInjective(lock') /\ ToSet(lock') = ToSet(lock) \cup {w}
           /\ \A x \in Owners : Holds(x) => Holds(x)'
  <1>1. lock \in Seq(Owners)
    BY DEF LockTyped
  <1>2. /\ IsInjective(lock') /\ ToSet(lock') = ToSet(lock) \cup {w}
        /\ lock # <<>> => Head(lock') = Head(lock)
        /\ lock' # <<>>
    BY <1>1, Appended
  <1> QED BY <1>2 DEF Holds

\* A release takes its owner out of the queue, and the lock from nobody else.
LEMMA LockRelease ==
    ASSUME LockTyped, IsInjective(lock), NEW w, Release(w)
    PROVE  /\ IsInjective(lock') /\ ToSet(lock') = ToSet(lock) \ {w}
           /\ \A x \in Owners : x # w /\ Holds(x) => Holds(x)'
  <1>1. lock \in Seq(Owners)
    BY DEF LockTyped
  <1>2. CASE w \notin ToSet(lock) /\ UNCHANGED lock
    BY <1>2 DEF Holds
  <1>3. ASSUME NEW i \in DOMAIN lock, lock[i] = w, lock' = RemoveAt(lock, i)
        PROVE  /\ IsInjective(lock') /\ ToSet(lock') = ToSet(lock) \ {w}
               /\ \A x \in Owners : x # w /\ Holds(x) => Holds(x)'
    <2>1. /\ IsInjective(lock') /\ ToSet(lock') = ToSet(lock) \ {w}
          /\ Head(lock) # w => lock' # <<>> /\ Head(lock') = Head(lock)
      BY <1>1, <1>3, Removed
    <2> QED BY <2>1 DEF Holds
  <1> QED BY <1>2, <1>3 DEF Release

LEMMA LockSlot ==
    ASSUME TypeOK, LockIsHeld, NEW s \in Slots, SlotStep(s)
    PROVE  LockIsHeld'
  <1>1. /\ LockTyped /\ task \in [Slots -> Coroutine] /\ IsInjective(lock)
        /\ s \in Owners /\ "loop" \in Owners /\ s # "loop"
        /\ \A u \in Slots : u \in Owners /\ u # "loop"
    BY DEF TypeOK, LockTyped, Owners, LockIsHeld, Slots, Queueing
  <1>2. /\ \A u \in Slots : u # s => task'[u] = task[u]
        /\ loop' = loop
    BY <1>1 DEF SlotStep, Queue, Begin, GiveUp, Swallow, End, Drain, Goto
  <1>3. CASE Queue(s)
    <2>1. /\ task[s].pc = "new" /\ task'[s].pc = "wait"
          /\ lock' = Append(lock, s) /\ s \notin ToSet(lock)
      BY <1>1, <1>3 DEF Queue, Goto, Coroutine, LockIsHeld
    <2>2. /\ IsInjective(lock') /\ ToSet(lock') = ToSet(lock) \cup {s}
          /\ \A x \in Owners : Holds(x) => Holds(x)'
      BY <1>1, <2>1, LockJoin
    <2> QED BY <1>1, <1>2, <2>1, <2>2 DEF LockIsHeld
  <1>4. ASSUME UNCHANGED lock, task'[s].pc \in {"body", "drain"},
               task[s].pc \in {"body", "drain"} \/ (task[s].pc = "wait" /\ Holds(s))
        PROVE  LockIsHeld'
    BY <1>1, <1>2, <1>4 DEF LockIsHeld, Holds
  <1>5. ASSUME Release(s), task'[s].pc = "done",
               task[s].pc \in {"body", "drain", "wait", "new"}
        PROVE  LockIsHeld'
    <2>1. /\ IsInjective(lock') /\ ToSet(lock') = ToSet(lock) \ {s}
          /\ \A x \in Owners : x # s /\ Holds(x) => Holds(x)'
      BY <1>1, <1>5, LockRelease
    <2> QED BY <1>1, <1>2, <1>5, <2>1 DEF LockIsHeld
  <1>6. CASE Begin(s)
    BY <1>1, <1>4, <1>6 DEF Begin, Goto, Coroutine
  <1>7. CASE Swallow(s)
    <2>1. /\ task[s].pc = "body" /\ UNCHANGED lock
          /\ task' = [task EXCEPT ![s].cancel = FALSE]
      BY <1>7 DEF Swallow
    <2>2. task'[s].pc = task[s].pc
      BY <1>1, <2>1 DEF Coroutine
    <2> QED BY <1>4, <2>1, <2>2
  <1>8. CASE GiveUp(s)
    BY <1>1, <1>5, <1>8 DEF GiveUp, Idle
  <1>9. CASE End(s)
    <2>1. task[s].pc = "body"
      BY <1>9 DEF End
    <2>2. CASE s = "text" /\ deferred # <<>>
      <3>1. UNCHANGED lock /\ task'[s].pc = "drain"
        BY <1>1, <1>9, <2>2 DEF End, Idle
      <3> QED BY <1>4, <2>1, <3>1
    <2>3. CASE ~(s = "text" /\ deferred # <<>>)
      <3>1. Release(s) /\ task'[s].pc = "done"
        BY <1>1, <1>9, <2>3 DEF End, Idle
      <3> QED BY <1>5, <2>1, <3>1
    <2> QED BY <2>2, <2>3
  <1>10. CASE Drain(s)
    <2>1. CASE task[s].hand = <<>>
      BY <1>1, <1>5, <1>10, <2>1 DEF Drain, Idle
    <2>2. CASE task[s].hand # <<>>
      <3>1. /\ task[s].pc = "drain" /\ UNCHANGED lock
            /\ task' = [task EXCEPT ![s].hand = Tail(@), ![s].cancel = FALSE]
        BY <1>10, <2>2 DEF Drain
      <3>2. task'[s].pc = task[s].pc
        BY <1>1, <3>1 DEF Coroutine
      <3> QED BY <1>4, <3>1, <3>2
    <2> QED BY <2>1, <2>2
  <1> QED
    BY <1>3, <1>6, <1>7, <1>8, <1>9, <1>10 DEF SlotStep

LEMMA LockLoop ==
    ASSUME TypeOK, LockIsHeld, LoopStep
    PROVE  LockIsHeld'
  <1>1. /\ LockTyped /\ task \in [Slots -> Coroutine] /\ IsInjective(lock)
        /\ "loop" \in Owners
        /\ \A u \in Slots : u \in Owners /\ u # "loop"
    BY DEF TypeOK, LockTyped, Owners, LockIsHeld, Slots, Queueing
  <1>2. ASSUME \A u \in Slots : \/ task'[u].pc = task[u].pc
                                \/ /\ task[u].pc = "done"
                                   /\ task'[u].pc = "new",
               UNCHANGED lock,
               loop'.pc \in {"stop", "dictate"} <=> loop.pc \in {"stop", "dictate"}
        PROVE  LockIsHeld'
    BY <1>2 DEF LockIsHeld, Holds
  <1>3. CASE Audio \/ Discard \/ Unregister \/ Gone \/ Dictate
    BY <1>2, <1>3 DEF Audio, Discard, Unregister, Gone, Dictate, Reads, GoOn
  <1>4. ASSUME NEW s \in Slots, Spawned(s)
        PROVE  LockIsHeld'
    <2>1. \A b : \A u \in Slots :
              [task EXCEPT ![s].cancel = b][u].pc = task[u].pc
      BY <1>1 DEF Coroutine
    <2>2. CASE Live(s)
      <3>1. \A u \in Slots : task'[u].pc = task[u].pc
        <4>1. \E b : task' = [task EXCEPT ![s].cancel = b]
          BY <1>4, <2>2 DEF Spawned
        <4> QED BY <2>1, <4>1
      <3>2. /\ loop.pc = "read" /\ loop'.pc = "join" /\ UNCHANGED lock
        BY <1>4, <2>2 DEF Spawned, Reads
      <3> QED BY <1>2, <3>1, <3>2
    <2>3. CASE ~Live(s)
      BY <1>1, <1>2, <1>4, <2>3 DEF Spawned, Create, Live, Idle
    <2> QED BY <2>2, <2>3
  <1>5. CASE Joined
    BY <1>1, <1>2, <1>5 DEF Joined, Create, Live, GoOn, Idle
  <1>6. CASE Cancel \/ CutNext
    <2>1. \A u \in Slots : task'[u].pc = task[u].pc
      <3>1. task' = task \/ \E s : task' = [task EXCEPT ![s].cancel = TRUE]
        BY <1>6 DEF Cancel, CutNext, CutFrom
      <3>2. ASSUME NEW s, task' = [task EXCEPT ![s].cancel = TRUE], NEW u \in Slots
            PROVE  task'[u].pc = task[u].pc
        BY <1>1, <3>2 DEF Coroutine
      <3> QED BY <3>1, <3>2
    <2>2. /\ loop.pc \in {"read", "cut"} /\ loop'.pc \in {"cut", "cutVoice"}
          /\ UNCHANGED lock
      BY <1>6 DEF Cancel, CutNext, CutFrom, Reads, GoOn
    <2> QED BY <1>2, <2>1, <2>2
  <1>7. CASE Leave
    <2>1. \A u \in Slots : task'[u].pc = task[u].pc
      BY <1>1, <1>7 DEF Leave, Coroutine
    <2> QED BY <1>2, <1>7, <2>1 DEF Leave, GoOn
  <1>8. CASE Stop
    <2>1. /\ loop.pc = "read" /\ loop'.pc = "stop" /\ UNCHANGED task
          /\ lock' = Append(lock, "loop") /\ "loop" \notin ToSet(lock)
      BY <1>8 DEF Stop, Reads, GoOn, LockIsHeld
    <2>2. /\ IsInjective(lock') /\ ToSet(lock') = ToSet(lock) \cup {"loop"}
          /\ \A x \in Owners : Holds(x) => Holds(x)'
      BY <1>1, <2>1, LockJoin
    <2> QED BY <1>1, <2>1, <2>2 DEF LockIsHeld
  <1>9. CASE StartProcessing \/ Dictated
    <2>1. /\ loop'.pc = "read" /\ UNCHANGED task /\ Release("loop")
      BY <1>9 DEF StartProcessing, Dictated, GoOn
    <2>2. /\ IsInjective(lock') /\ ToSet(lock') = ToSet(lock) \ {"loop"}
          /\ \A x \in Owners : x # "loop" /\ Holds(x) => Holds(x)'
      BY <1>1, <2>1, LockRelease
    <2> QED BY <1>1, <2>1, <2>2 DEF LockIsHeld
  <1> QED
    BY <1>3, <1>4, <1>5, <1>6, <1>7, <1>8, <1>9 DEF LoopStep

\* conn_lock excludes: at every moment at most one handler runs or drains, it
\* is at the head of the queue, and whoever gave up or ended has left it.
THEOREM LockExcludes == Spec => []LockIsHeld
  <1>1. Init => LockIsHeld
    BY DEF Init, LockIsHeld, Idle, ToSet, IsInjective
  <1>2. TypeOK /\ LockIsHeld /\ [Next]_vars => LockIsHeld'
    <2> SUFFICES ASSUME TypeOK, LockIsHeld, [Next]_vars
                 PROVE  LockIsHeld'
      OBVIOUS
    <2>1. CASE UNCHANGED <<lock, task, loop>>
      BY <2>1 DEF LockIsHeld, Holds
    <2>2. ASSUME NEW v \in Voices, VoiceStep(v)
          PROVE  LockIsHeld'
      BY <2>1, <2>2 DEF VoiceStep
    <2>3. CASE Drop \/ UNCHANGED vars \/ (\E f \in Frames : Send(f))
               \/ \E c \in Cards : Fire(c)
      BY <2>1, <2>3 DEF Drop, Send, Fire, vars
    <2> QED BY <2>2, <2>3, LockSlot, LockLoop DEF Next
  <1> QED BY <1>1, <1>2, TypeCorrect, PTL DEF Spec

-----------------------------------------------------------------------------
(* A cancel is acknowledged, and a connection gone, with nothing left.     *)

\* The loop works the slots off: those it has passed are done and stay so,
\* since only the loop creates tasks.
CutOff ==
    /\ loop.pc = "cut" =>
          \A s \in Slots \ (loop.left \cup {loop.slot}) : task[s].pc = "done"
    /\ loop.pc \in {"cutVoice", "leaveVoice", "gone"} =>
          \A s \in Slots : task[s].pc = "done"
    /\ loop.pc = "gone" => VoiceCut

LEMMA CutOffSlot ==
    ASSUME TypeOK, CutOff, NEW s \in Slots, SlotStep(s)
    PROVE  CutOff' /\ QuietAck
  <1>1. task \in [Slots -> Coroutine]
    BY DEF TypeOK
  <1>2. loop' = loop /\ voice' = voice /\ current' = current
    BY DEF SlotStep
  <1>3. task[s].pc # "done"
    BY DEF SlotStep, Queue, Begin, GiveUp, Swallow, End, Drain
  <1>4. \A u \in Slots : u # s => task'[u] = task[u]
    BY <1>1 DEF SlotStep, Queue, Begin, GiveUp, Swallow, End, Drain, Goto
  <1>5. loop.pc # "gone"
    BY <1>3 DEF CutOff
  <1> QED BY <1>2, <1>3, <1>4, <1>5 DEF CutOff, QuietAck

\* The process task that has ended does not come back by itself.
LEMMA CutOffVoice ==
    ASSUME TypeOK, CutOff, NEW v \in Voices, VoiceStep(v)
    PROVE  CutOff' /\ QuietAck
  <1>1. voice \in [Voices -> Coroutine]
    BY DEF TypeOK
  <1>2. /\ loop' = loop /\ task' = task /\ current' = current
    BY DEF VoiceStep
  <1>3. voice[v].pc # "done"
    BY DEF VoiceStep, VoiceBegin, VoiceGiveUp, VoiceSwallow, VoiceEnd, VoiceDrain,
       VoiceReturn
  <1>4. \A u \in Voices : u # v => voice'[u] = voice[u]
    BY <1>1 DEF VoiceStep, VoiceBegin, VoiceGiveUp, VoiceSwallow, VoiceEnd,
       VoiceDrain, VoiceReturn
  <1>5. VoiceCut => VoiceCut'
    BY <1>2, <1>3, <1>4 DEF VoiceCut, Speaking
  <1> QED BY <1>2, <1>5 DEF CutOff, QuietAck

LEMMA CutFromCuts ==
    ASSUME TypeOK, NEW S \in SUBSET Slots, CutFrom(S),
           \A s \in Slots : s \in S \/ task[s].pc = "done"
    PROVE  CutOff'
  <1>1. task \in [Slots -> Coroutine]
    BY DEF TypeOK
  <1>2. ASSUME NEW s \in S, loop' = [pc |-> "cut", slot |-> s, left |-> S \ {s}],
               task' = [task EXCEPT ![s].cancel = TRUE]
        PROVE  CutOff'
    <2>1. \A u \in Slots : task'[u].pc = task[u].pc
      BY <1>1, <1>2 DEF Coroutine
    <2> QED BY <1>2, <2>1 DEF CutOff
  <1>3. CASE ~\E s \in S : Live(s)
    <2>1. loop'.pc = "cutVoice" /\ task' = task
      BY <1>3 DEF CutFrom, GoOn
    <2> QED BY <1>3, <2>1 DEF CutOff, Live
  <1> QED BY <1>2, <1>3 DEF CutFrom

LEMMA CutOffLoop ==
    ASSUME TypeOK, CutOff, LoopStep
    PROVE  CutOff' /\ QuietAck
  <1>1. task \in [Slots -> Coroutine] /\ loop \in Loop
    BY DEF TypeOK
  <1>2. CASE Cancel \/ CutNext
    <2>1. ASSUME Cancel
          PROVE  CutOff'
      <3>1. Slots \in SUBSET Slots
        OBVIOUS
      <3>2. CutFrom(Slots)
        BY <2>1 DEF Cancel
      <3> QED BY <3>1, <3>2, CutFromCuts
    <2>2. ASSUME CutNext
          PROVE  CutOff'
      <3>1. loop.left \in SUBSET Slots
        BY <1>1 DEF Loop
      <3>2. \A s \in Slots : s \in loop.left \/ task[s].pc = "done"
        BY <2>2 DEF CutNext, Live, CutOff
      <3>3. CutFrom(loop.left)
        BY <2>2 DEF CutNext
      <3> QED BY <3>1, <3>2, <3>3, CutFromCuts
    <2>3. loop'.pc \in {"cut", "cutVoice"}
      BY <1>2 DEF Cancel, CutNext, CutFrom, GoOn
    <2> QED BY <1>2, <2>1, <2>2, <2>3 DEF QuietAck
  <1>3. CASE Discard
    <2>1. /\ loop.pc = "cutVoice" /\ loop'.pc = "read" /\ VoiceCut
          /\ UNCHANGED <<task, voice, current>>
      BY <1>3 DEF Discard, GoOn
    <2>2. VoiceCut' /\ \A s \in Slots : task'[s].pc = "done"
      BY <2>1 DEF VoiceCut, Speaking, CutOff
    <2> QED BY <2>1, <2>2 DEF QuietAck, CutOff
  <1>4. CASE Unregister
    BY <1>4 DEF Unregister, GoOn, Live, CutOff, QuietAck
  <1>5. CASE Gone
    <2>1. /\ loop.pc = "leaveVoice" /\ loop'.pc = "gone" /\ VoiceCut
          /\ UNCHANGED <<task, voice, current>>
      BY <1>5 DEF Gone, GoOn
    <2>2. VoiceCut' /\ \A s \in Slots : task'[s].pc = "done"
      BY <2>1 DEF VoiceCut, Speaking, CutOff
    <2> QED BY <2>1, <2>2 DEF QuietAck, CutOff
  <1>6. ASSUME loop.pc # "cutVoice",
               loop'.pc \notin {"cut", "cutVoice", "leaveVoice", "gone"}
        PROVE  CutOff' /\ QuietAck
    BY <1>6 DEF CutOff, QuietAck
  <1>7. CASE Stop \/ StartProcessing \/ Dictate \/ Dictated \/ Joined \/ Leave
    BY <1>6, <1>7 DEF Stop, StartProcessing, Dictate, Dictated, Joined, Leave,
       Reads, GoOn
  <1>8. CASE Audio \/ \E s \in Slots : Spawned(s)
    <2>1. loop.pc = "read" /\ loop'.pc \in {"read", "join"}
      BY <1>8 DEF Audio, Spawned, Reads
    <2> QED BY <1>6, <2>1
  <1> QED BY <1>2, <1>3, <1>4, <1>5, <1>7, <1>8 DEF LoopStep

\* When the cancel_ack is sent and when the disconnect chain is done, no
\* handler task runs or waits and the process task the pipeline knows has
\* ended, however many sends swallowed their cancellation.
THEOREM AcksAreQuiet == Spec => AckedIsQuiet
  <1>1. Init => CutOff
    BY DEF Init, CutOff, Idle
  <1>2. TypeOK /\ CutOff /\ [Next]_vars => CutOff' /\ [QuietAck]_vars
    <2> SUFFICES ASSUME TypeOK, CutOff, [Next]_vars
                 PROVE  CutOff' /\ [QuietAck]_vars
      OBVIOUS
    <2>1. CASE LoopStep
      BY <2>1, CutOffLoop
    <2>2. CASE UNCHANGED vars
      BY <2>2 DEF vars, CutOff, VoiceCut, Speaking
    <2>3. CASE Drop \/ (\E f \in Frames : Send(f)) \/ \E c \in Cards : Fire(c)
      <3>1. UNCHANGED <<loop, task, voice, current>>
        BY <2>3 DEF Drop, Send, Fire
      <3> QED BY <3>1 DEF CutOff, QuietAck, VoiceCut, Speaking
    <2> QED BY <2>1, <2>2, <2>3, CutOffSlot, CutOffVoice DEF Next
  <1> QED BY <1>1, <1>2, TypeCorrect, PTL DEF Spec, AckedIsQuiet

-----------------------------------------------------------------------------
(* Every card in one place.                                                *)

\* Only a draining coroutine has cards in hand: no other end, restart or
\* cancellation of a task throws any away.
Hands ==
    /\ \A s \in Slots : task[s].pc # "drain" => task[s].hand = <<>>
    /\ \A v \in Voices : voice[v].pc # "drain" => voice[v].hand = <<>>

Out == ToSet(written) \cup dropped
Held(x) == ToSet(HandOf(x))

\* OnePlace without the counting: nothing is twice in one place,
Once ==
    /\ IsInjective(written) /\ IsInjective(deferred)
    /\ \A x \in Coroutines : IsInjective(HandOf(x))
    /\ ToSet(written) \cap dropped = {}

\* nothing is in two places,
Apart ==
    /\ Out \cap ToSet(deferred) = {}
    /\ \A x \in Coroutines : Held(x) \cap (Out \cup ToSet(deferred)) = {}
    /\ \A x, y \in Coroutines : x # y => Held(x) \cap Held(y) = {}

\* and what fired is in some place.
AllFired ==
    \A c : c \in fired <=> \/ c \in Out \/ c \in ToSet(deferred)
                           \/ \E x \in Coroutines : c \in Held(x)

Placed == Once /\ Apart /\ AllFired

LEMMA EmptySet == ToSet(<<>>) = {} /\ IsInjective(<<>>)
  BY DEF ToSet, IsInjective

\* Taking the first card of a sequence without duplicates.
LEMMA HeadTail ==
    ASSUME NEW S, NEW s \in Seq(S), IsInjective(s), s # <<>>
    PROVE  /\ Head(s) \in S /\ Tail(s) \in Seq(S) /\ IsInjective(Tail(s))
           /\ Head(s) \in ToSet(s) /\ ToSet(Tail(s)) = ToSet(s) \ {Head(s)}
  <1>1. /\ Len(s) \in Nat \ {0} /\ DOMAIN s = 1..Len(s) /\ Head(s) = s[1]
        /\ \A i \in 1..Len(s) : s[i] \in S
    OBVIOUS
  <1>2. /\ Tail(s) \in Seq(S) /\ DOMAIN Tail(s) = 1..(Len(s) - 1)
        /\ \A i \in 1..(Len(s) - 1) : Tail(s)[i] = s[i + 1]
    <2>1. Tail(s) \in Seq(S) /\ Len(Tail(s)) = Len(s) - 1
      OBVIOUS
    <2>2. DOMAIN Tail(s) = 1..(Len(s) - 1)
      BY <2>1
    <2>3. \A i \in 1..(Len(s) - 1) : Tail(s)[i] = s[i + 1]
      BY <1>1
    <2> QED BY <2>1, <2>2, <2>3
  <1> DEFINE t == Tail(s)
  <1> HIDE DEF t
  <1>3. \A j, k \in 1..Len(s) : s[j] = s[k] => j = k
    BY <1>1 DEF IsInjective
  <1>4. IsInjective(t)
    <2> SUFFICES ASSUME NEW j \in 1..(Len(s) - 1), NEW k \in 1..(Len(s) - 1),
                        t[j] = t[k]
                 PROVE  j = k
      BY <1>2 DEF IsInjective, t
    <2>1. /\ j + 1 \in 1..Len(s) /\ k + 1 \in 1..Len(s)
          /\ s[j + 1] = s[k + 1]
      BY <1>1, <1>2 DEF t
    <2> QED BY <1>1, <1>3, <2>1
  <1>5. ToSet(t) \subseteq ToSet(s) \ {Head(s)}
    <2> SUFFICES ASSUME NEW j \in 1..(Len(s) - 1)
                 PROVE  t[j] \in ToSet(s) \ {Head(s)}
      BY <1>2 DEF ToSet, t
    <2>1. j + 1 \in 1..Len(s) /\ j + 1 # 1 /\ t[j] = s[j + 1] /\ 1 \in 1..Len(s)
      BY <1>1, <1>2 DEF t
    <2> QED BY <1>1, <1>3, <2>1 DEF ToSet
  <1>6. ToSet(s) \ {Head(s)} \subseteq ToSet(t)
    <2> SUFFICES ASSUME NEW k \in 1..Len(s), s[k] # Head(s)
                 PROVE  s[k] \in ToSet(t)
      BY <1>1 DEF ToSet
    <2>1. k - 1 \in 1..(Len(s) - 1) /\ t[k - 1] = s[k]
      BY <1>1, <1>2 DEF t
    <2> QED BY <1>2, <2>1 DEF ToSet, t
  <1>7. Head(s) \in ToSet(s)
    BY <1>1 DEF ToSet
  <1> QED BY <1>1, <1>2, <1>4, <1>5, <1>6, <1>7 DEF t

\* A card sent is out, once, if it was not out before.
LEMMA WriteOnce ==
    ASSUME written \in Seq(Cards), IsInjective(written),
           ToSet(written) \cap dropped = {},
           NEW c \in Cards, c \notin Out, Write(c)
    PROVE  /\ IsInjective(written') /\ ToSet(written') \cap dropped' = {}
           /\ Out' = Out \cup {c}
  <1>1. CASE open
    <2>1. written' = Append(written, c) /\ dropped' = dropped /\ c \notin ToSet(written)
      BY <1>1 DEF Write, Out
    <2>2. IsInjective(written') /\ ToSet(written') = ToSet(written) \cup {c}
      BY <2>1, Appended
    <2> QED BY <2>1, <2>2 DEF Out
  <1>2. CASE ~open
    BY <1>2 DEF Write, Out
  <1> QED BY <1>1, <1>2

\* The five ways in which cards move.
LEMMA NoneMove ==
    ASSUME Placed, UNCHANGED <<written, dropped, deferred, fired>>,
           \A x \in Coroutines : HandOf(x)' = HandOf(x)
    PROVE  Placed'
  <1>1. /\ Out' = Out /\ ToSet(deferred') = ToSet(deferred)
        /\ \A x \in Coroutines : Held(x)' = Held(x)
    BY DEF Out, Held
  <1>2. Once'
    BY DEF Placed, Once
  <1>3. Apart'
    BY <1>1 DEF Placed, Apart
  <1>4. AllFired'
    BY <1>1 DEF Placed, AllFired
  <1> QED BY <1>2, <1>3, <1>4 DEF Placed

LEMMA CardFires ==
    ASSUME TypeOK, Placed, NEW c \in Cards, Fire(c)
    PROVE  Placed'
  <1>1. /\ c \notin Out /\ c \notin ToSet(deferred)
        /\ \A x \in Coroutines : c \notin Held(x)
        /\ fired' = fired \cup {c}
    BY DEF Fire, Placed, AllFired
  <1>2. \A x \in Coroutines : HandOf(x)' = HandOf(x) /\ Held(x)' = Held(x)
    BY DEF Fire, HandOf, Held
  <1>3. CASE busy
    <2>1. deferred' = Append(deferred, c) /\ UNCHANGED <<written, dropped>>
      BY <1>3 DEF Fire
    <2>2. /\ IsInjective(deferred')
          /\ ToSet(deferred') = ToSet(deferred) \cup {c}
      BY <1>1, <2>1, Appended DEF TypeOK, Placed, Once
    <2>3. Out' = Out
      BY <2>1 DEF Out
    <2>4. Once'
      BY <1>2, <2>1, <2>2 DEF Placed, Once
    <2>5. Apart'
      BY <1>1, <1>2, <2>2, <2>3 DEF Placed, Apart
    <2>6. AllFired'
      BY <1>1, <1>2, <2>2, <2>3 DEF Placed, AllFired
    <2> QED BY <2>4, <2>5, <2>6 DEF Placed
  <1>4. CASE ~busy
    <2>1. Write(c) /\ UNCHANGED deferred
      BY <1>4 DEF Fire
    <2>2. /\ IsInjective(written') /\ ToSet(written') \cap dropped' = {}
          /\ Out' = Out \cup {c}
      BY <1>1, <2>1, WriteOnce DEF TypeOK, Placed, Once
    <2>3. Once'
      BY <1>2, <2>1, <2>2 DEF Placed, Once
    <2>4. Apart'
      BY <1>1, <1>2, <2>1, <2>2 DEF Placed, Apart
    <2>5. AllFired'
      BY <1>1, <1>2, <2>1, <2>2 DEF Placed, AllFired
    <2> QED BY <2>3, <2>4, <2>5 DEF Placed
  <1> QED BY <1>3, <1>4

\* The end of a turn: the first card is sent, the others go in the hand of the
\* coroutine that drains, which held none.
LEMMA CardsTaken ==
    ASSUME TypeOK, Placed, TurnEnd, fired' = fired,
           NEW x \in Coroutines, HandOf(x) = <<>>, HandOf(x)' = Rest,
           \A y \in Coroutines : y # x => HandOf(y)' = HandOf(y)
    PROVE  Placed'
  <1>1. CASE deferred = <<>>
    <2>1. /\ UNCHANGED <<written, dropped, deferred>> /\ HandOf(x)' = HandOf(x)
      BY <1>1 DEF TurnEnd, Rest
    <2> QED BY <2>1, NoneMove
  <1>2. CASE deferred # <<>>
    <2>1. /\ deferred \in Seq(Cards) /\ IsInjective(deferred)
          /\ deferred' = <<>> /\ HandOf(x)' = Tail(deferred)
          /\ Write(Head(deferred))
      BY <1>2 DEF TypeOK, Placed, Once, TurnEnd, Rest
    <2>2. PICK c \in Cards :
              /\ c = Head(deferred) /\ Write(c) /\ c \in ToSet(deferred)
              /\ IsInjective(HandOf(x)') /\ Held(x)' = ToSet(deferred) \ {c}
      BY <1>2, <2>1, HeadTail DEF Held
    <2>3. c \notin Out
      BY <2>2 DEF Placed, Apart
    <2>4. /\ IsInjective(written') /\ ToSet(written') \cap dropped' = {}
          /\ Out' = Out \cup {c}
      BY <2>2, <2>3, WriteOnce DEF TypeOK, Placed, Once
    <2>5. /\ ToSet(deferred') = {} /\ IsInjective(deferred') /\ Held(x) = {}
      BY <2>1, EmptySet DEF Held
    <2>6. \A y \in Coroutines : y # x => Held(y)' = Held(y)
      BY DEF Held
    <2>7. Once'
      BY <2>2, <2>4, <2>5 DEF Placed, Once
    <2>8. Apart'
      BY <2>2, <2>4, <2>5, <2>6 DEF Placed, Apart
    <2>9. AllFired'
      BY <2>2, <2>4, <2>5, <2>6 DEF Placed, AllFired
    <2> QED BY <2>7, <2>8, <2>9 DEF Placed
  <1> QED BY <1>1, <1>2

\* One more card of a hand is sent.
LEMMA CardDrained ==
    ASSUME TypeOK, Placed, UNCHANGED <<deferred, fired>>,
           NEW x \in Coroutines, HandOf(x) \in Seq(Cards), HandOf(x) # <<>>,
           Write(Head(HandOf(x))), HandOf(x)' = Tail(HandOf(x)),
           \A y \in Coroutines : y # x => HandOf(y)' = HandOf(y)
    PROVE  Placed'
  <1>1. IsInjective(HandOf(x))
    BY DEF Placed, Once
  <1>2. PICK c \in Cards :
            /\ c = Head(HandOf(x)) /\ Write(c) /\ c \in Held(x)
            /\ IsInjective(HandOf(x)') /\ Held(x)' = Held(x) \ {c}
    BY <1>1, HeadTail DEF Held
  <1>3. c \notin Out
    BY <1>2 DEF Placed, Apart
  <1>4. /\ IsInjective(written') /\ ToSet(written') \cap dropped' = {}
        /\ Out' = Out \cup {c}
    BY <1>2, <1>3, WriteOnce DEF TypeOK, Placed, Once
  <1>5. \A y \in Coroutines : y # x => Held(y)' = Held(y)
    BY DEF Held
  <1>6. ToSet(deferred') = ToSet(deferred)
    OBVIOUS
  <1>7. Once'
    BY <1>2, <1>4 DEF Placed, Once
  <1>8. Apart'
    BY <1>2, <1>4, <1>5, <1>6 DEF Placed, Apart
  <1>9. AllFired'
    BY <1>2, <1>4, <1>5, <1>6 DEF Placed, AllFired
  <1> QED BY <1>7, <1>8, <1>9 DEF Placed

\* The cards behind the gate are given up.
LEMMA CardsDropped ==
    ASSUME Placed, deferred' = <<>>, dropped' = dropped \cup ToSet(deferred),
           UNCHANGED <<written, fired>>,
           \A x \in Coroutines : HandOf(x)' = HandOf(x)
    PROVE  Placed'
  <1>1. /\ Out' = Out \cup ToSet(deferred)
        /\ ToSet(deferred') = {} /\ IsInjective(deferred')
        /\ \A x \in Coroutines : Held(x)' = Held(x)
    BY EmptySet DEF Out, Held
  <1>2. Once'
    BY <1>1 DEF Placed, Once, Apart, Out
  <1>3. Apart'
    BY <1>1 DEF Placed, Apart
  <1>4. AllFired'
    BY <1>1 DEF Placed, AllFired
  <1> QED BY <1>2, <1>3, <1>4 DEF Placed

\* The hands of the slots' tasks and of the process tasks.
LEMMA SlotHand ==
    ASSUME UNCHANGED voice
    PROVE  \A s \in Slots : (\A u \in Slots \ {s} : task'[u].hand = task[u].hand) =>
               \A y \in Coroutines : y # s => HandOf(y)' = HandOf(y)
  BY DEF HandOf, Coroutines

LEMMA VoiceHand ==
    ASSUME UNCHANGED task
    PROVE  \A v \in Voices : (\A u \in Voices \ {v} : voice'[u].hand = voice[u].hand) =>
               \A y \in Coroutines : y # v => HandOf(y)' = HandOf(y)
  BY DEF HandOf, Coroutines

LEMMA SlotPlaced ==
    ASSUME TypeOK, Hands, Placed, NEW s \in Slots, SlotStep(s)
    PROVE  Hands' /\ Placed'
  <1>1. /\ task \in [Slots -> Coroutine] /\ s \in Coroutines
        /\ UNCHANGED <<voice, fired>>
        /\ HandOf(s) = task[s].hand /\ HandOf(s)' = task'[s].hand
        /\ task[s].hand \in Seq(Cards)
    BY DEF TypeOK, SlotStep, HandOf, Coroutines, Coroutine
  <1>2. \A u \in Slots \ {s} : task'[u] = task[u]
    BY <1>1 DEF SlotStep, Queue, Begin, GiveUp, Swallow, End, Drain, Goto
  <1>3. \A y \in Coroutines : y # s => HandOf(y)' = HandOf(y)
    BY <1>1, <1>2, SlotHand
  <1>4. ASSUME task'[s].pc # "drain" => task'[s].hand = <<>>
        PROVE  Hands'
    BY <1>1, <1>2, <1>4 DEF Hands
  <1>5. ASSUME UNCHANGED <<written, dropped, deferred>>, task'[s].hand = task[s].hand,
               task'[s].pc # "drain" => task'[s].hand = <<>>
        PROVE  Hands' /\ Placed'
    BY <1>1, <1>3, <1>4, <1>5, NoneMove
  <1>6. Idle.pc = "done" /\ Idle.hand = <<>>
    BY DEF Idle
  <1>7. CASE Queue(s) \/ Begin(s)
    BY <1>1, <1>5, <1>7 DEF Queue, Begin, Goto, gate, Hands, Coroutine
  <1>8. CASE GiveUp(s)
    BY <1>1, <1>5, <1>6, <1>8 DEF GiveUp, gate, Hands
  <1>9. CASE Swallow(s)
    BY <1>1, <1>5, <1>9 DEF Swallow, gate, Hands, Coroutine
  <1>10. CASE End(s)
    <2>1. task[s].hand = <<>>
      BY <1>10 DEF End, Hands
    <2>2. CASE s # "text"
      BY <1>1, <1>5, <1>6, <1>10, <2>1, <2>2 DEF End
    <2>3. CASE s = "text"
      <3>1. TurnEnd
        BY <1>10, <2>3 DEF End
      <3>2. task'[s].hand = Rest /\ (task'[s].pc # "drain" => task'[s].hand = <<>>)
        <4>1. CASE deferred = <<>>
          <5>1. task' = [task EXCEPT ![s] = Idle] /\ Rest = <<>>
            BY <1>10, <4>1 DEF End, Rest
          <5> QED BY <1>1, <1>6, <5>1
        <4>2. CASE deferred # <<>>
          <5>1. PICK r : r = Rest
            OBVIOUS
          <5>2. task' = [task EXCEPT ![s] = [Idle EXCEPT !.pc = "drain", !.hand = r]]
            BY <1>10, <2>3, <4>2, <5>1 DEF End
          <5> QED BY <1>1, <5>1, <5>2 DEF Idle
        <4> QED BY <4>1, <4>2
      <3> QED BY <1>1, <1>3, <1>4, <2>1, <3>1, <3>2, CardsTaken
    <2> QED BY <2>2, <2>3
  <1>11. CASE Drain(s)
    <2>1. CASE task[s].hand = <<>>
      BY <1>1, <1>5, <1>6, <1>11, <2>1 DEF Drain, gate
    <2>2. CASE task[s].hand # <<>>
      <3>1. /\ task[s].pc = "drain" /\ Write(Head(task[s].hand)) /\ UNCHANGED deferred
            /\ task' = [task EXCEPT ![s].hand = Tail(@), ![s].cancel = FALSE]
        BY <1>11, <2>2 DEF Drain, gate
      <3>2. task'[s].hand = Tail(task[s].hand) /\ task'[s].pc = "drain"
        BY <1>1, <3>1 DEF Coroutine
      <3> QED BY <1>1, <1>3, <1>4, <2>2, <3>1, <3>2, CardDrained
    <2> QED BY <2>1, <2>2
  <1> QED BY <1>7, <1>8, <1>9, <1>10, <1>11 DEF SlotStep

LEMMA VoicePlaced ==
    ASSUME TypeOK, Hands, Placed, NEW v \in Voices, VoiceStep(v)
    PROVE  Hands' /\ Placed'
  <1>1. /\ voice \in [Voices -> Coroutine] /\ v \in Coroutines
        /\ UNCHANGED <<task, fired>>
        /\ HandOf(v) = voice[v].hand /\ HandOf(v)' = voice'[v].hand
        /\ voice[v].hand \in Seq(Cards)
    BY ConstantsAssumption DEF TypeOK, VoiceStep, HandOf, Coroutines, Coroutine
  <1>2. \A u \in Voices \ {v} : voice'[u] = voice[u]
    BY <1>1 DEF VoiceStep, VoiceBegin, VoiceGiveUp, VoiceSwallow, VoiceEnd, VoiceDrain,
       VoiceReturn
  <1>3. \A y \in Coroutines : y # v => HandOf(y)' = HandOf(y)
    BY <1>1, <1>2, VoiceHand
  <1>4. ASSUME voice'[v].pc # "drain" => voice'[v].hand = <<>>
        PROVE  Hands'
    BY <1>1, <1>2, <1>4 DEF Hands
  <1>5. ASSUME UNCHANGED <<written, dropped, deferred>>,
               voice'[v].hand = voice[v].hand,
               voice'[v].pc # "drain" => voice'[v].hand = <<>>
        PROVE  Hands' /\ Placed'
    BY <1>1, <1>3, <1>4, <1>5, NoneMove
  <1>6. Idle.pc = "done" /\ Idle.hand = <<>>
    BY DEF Idle
  <1>7. CASE VoiceBegin(v)
    BY <1>1, <1>5, <1>7 DEF VoiceBegin, Hands, Coroutine
  <1>8. CASE VoiceGiveUp(v) \/ VoiceReturn(v)
    BY <1>1, <1>5, <1>6, <1>8 DEF VoiceGiveUp, VoiceReturn, gate, Hands
  <1>9. CASE VoiceSwallow(v)
    BY <1>1, <1>5, <1>9 DEF VoiceSwallow, gate, Hands, Coroutine
  <1>10. CASE VoiceEnd(v)
    <2>1. voice[v].hand = <<>> /\ TurnEnd
      BY <1>10 DEF VoiceEnd, Hands
    <2>2. PICK r, p : /\ r = Rest
                      /\ p = IF deferred = <<>> THEN "timeout" ELSE "drain"
      OBVIOUS
    <2>3. voice' = [voice EXCEPT ![v] = [Idle EXCEPT !.pc = p, !.hand = r]]
      BY <1>10, <2>2 DEF VoiceEnd
    <2>4. voice'[v].hand = r /\ voice'[v].pc = p
      BY <1>1, <2>3 DEF Idle
    <2>5. voice'[v].pc # "drain" => voice'[v].hand = <<>>
      BY <2>2, <2>4 DEF Rest
    <2> QED BY <1>1, <1>3, <1>4, <2>1, <2>2, <2>4, <2>5, CardsTaken
  <1>11. CASE VoiceDrain(v)
    <2>1. CASE voice[v].hand = <<>>
      <3>1. /\ voice' = [voice EXCEPT ![v] = [Idle EXCEPT !.pc = "timeout"]]
            /\ UNCHANGED <<written, dropped, deferred>>
        BY <1>11, <2>1 DEF VoiceDrain, gate
      <3>2. voice'[v].hand = <<>>
        BY <1>1, <3>1 DEF Idle
      <3> QED BY <1>5, <2>1, <3>1, <3>2
    <2>2. CASE voice[v].hand # <<>>
      <3>1. /\ voice[v].pc = "drain" /\ Write(Head(voice[v].hand)) /\ UNCHANGED deferred
            /\ voice' = [voice EXCEPT ![v].hand = Tail(@), ![v].cancel = FALSE]
        BY <1>11, <2>2 DEF VoiceDrain, gate
      <3>2. voice'[v].hand = Tail(voice[v].hand) /\ voice'[v].pc = "drain"
        BY <1>1, <3>1 DEF Coroutine
      <3> QED BY <1>1, <1>3, <1>4, <2>2, <3>1, <3>2, CardDrained
    <2> QED BY <2>1, <2>2
  <1> QED BY <1>7, <1>8, <1>9, <1>10, <1>11 DEF VoiceStep

\* The loop starts tasks in place of ended ones, whose hands are empty, and
\* cancels others, which leaves their hands alone.
LEMMA LoopHands ==
    ASSUME TypeOK, Hands, LoopStep
    PROVE  /\ \A s \in Slots : /\ task'[s].hand = task[s].hand
                               /\ task'[s].pc = "drain" <=> task[s].pc = "drain"
           /\ \A v \in Voices : /\ voice'[v].hand = voice[v].hand
                                /\ voice'[v].pc = "drain" <=> voice[v].pc = "drain"
  <1> DEFINE SlotKeep == \A s \in Slots : /\ task'[s].hand = task[s].hand
                                          /\ task'[s].pc = "drain" <=> task[s].pc = "drain"
             VoiceKeep == \A v \in Voices :
                 /\ voice'[v].hand = voice[v].hand
                 /\ voice'[v].pc = "drain" <=> voice[v].pc = "drain"
  <1>1. task \in [Slots -> Coroutine] /\ voice \in [Voices -> Coroutine]
    BY DEF TypeOK
  <1>2. /\ task' = task => SlotKeep
        /\ voice' = voice => VoiceKeep
    OBVIOUS
  <1>3. \A u, b : task' = [task EXCEPT ![u].cancel = b] => SlotKeep
    BY <1>1 DEF Coroutine
  <1>4. \A u, b : voice' = [voice EXCEPT ![u].cancel = b] => VoiceKeep
    BY <1>1 DEF Coroutine
  <1>5. ASSUME NEW s \in Slots, ~Live(s), Create(s)
        PROVE  SlotKeep
    BY <1>1, <1>5 DEF Live, Create, Hands, Idle
  <1>6. Spawn => VoiceKeep
    BY <1>1 DEF Spawn, Speaking, Hands, Idle
  <1>7. ASSUME NEW S, CutFrom(S)
        PROVE  SlotKeep /\ VoiceKeep
    <2> HIDE DEF SlotKeep, VoiceKeep
    <2> QED BY <1>2, <1>3, <1>4, <1>7 DEF CutFrom
  <1>8. CASE Leave
    BY <1>1, <1>8 DEF Leave, Coroutine
  <1> HIDE DEF SlotKeep, VoiceKeep
  <1>9. SlotKeep /\ VoiceKeep
    <2>1. CASE Audio \/ StartProcessing
      BY <1>2, <1>6, <2>1 DEF Audio, StartProcessing
    <2>2. ASSUME NEW s \in Slots, Spawned(s)
          PROVE  SlotKeep /\ VoiceKeep
      <3>1. voice' = voice /\ \/ \E b : task' = [task EXCEPT ![s].cancel = b]
                              \/ ~Live(s) /\ Create(s)
        BY <2>2 DEF Spawned
      <3> QED BY <1>2, <1>3, <1>5, <3>1
    <2>3. CASE Joined
      <3>1. voice' = voice /\ Create(loop.slot) /\ ~Live(loop.slot)
        BY <2>3 DEF Joined
      <3>2. CASE loop.slot \in Slots
        BY <1>2, <1>5, <3>1, <3>2
      <3>3. CASE loop.slot \notin Slots
        <4>1. \A s \in Slots : task'[s] = task[s]
          BY <1>1, <3>1, <3>3 DEF Create
        <4> QED BY <1>2, <3>1, <4>1 DEF SlotKeep
      <3> QED BY <3>2, <3>3
    <2>4. CASE Cancel \/ CutNext
      BY <1>7, <2>4 DEF Cancel, CutNext
    <2>5. CASE Unregister
      BY <1>2, <1>4, <2>5 DEF Unregister
    <2>6. CASE Leave
      BY <1>2, <1>8, <2>6 DEF Leave, SlotKeep
    <2>7. CASE Stop \/ Dictate \/ Dictated \/ Discard \/ Gone
      BY <1>2, <2>7 DEF Stop, Dictate, Dictated, Discard, Gone
    <2> QED BY <2>1, <2>2, <2>3, <2>4, <2>5, <2>6, <2>7 DEF LoopStep
  <1> QED BY <1>9 DEF SlotKeep, VoiceKeep

LEMMA LoopPlaced ==
    ASSUME TypeOK, Hands, Placed, LoopStep
    PROVE  Hands' /\ Placed'
  <1>1. Hands'
    BY LoopHands DEF Hands
  <1>2. \A x \in Coroutines : HandOf(x)' = HandOf(x)
    BY LoopHands DEF HandOf, Coroutines
  <1>3. fired' = fired
    BY DEF LoopStep
  <1>4. ASSUME Discard \/ Unregister
        PROVE  Placed'
    <2>1. /\ deferred' = <<>> /\ dropped' = dropped \cup ToSet(deferred)
          /\ UNCHANGED written
      BY <1>4 DEF Discard, Unregister
    <2> QED BY <1>2, <1>3, <2>1, CardsDropped
  <1>5. ASSUME ~(Discard \/ Unregister)
        PROVE  Placed'
    <2>1. UNCHANGED <<written, dropped, deferred>>
      BY <1>5 DEF LoopStep, Audio, Spawned, Joined, Stop, StartProcessing, Dictate,
        Dictated, Cancel, CutNext, Leave, Gone, gate
    <2> QED BY <1>2, <1>3, <2>1, NoneMove
  <1>6. Placed'
    BY <1>4, <1>5
  <1> QED BY <1>1, <1>6

LEMMA PlacedNext ==
    ASSUME TypeOK, Hands, Placed, [Next]_vars
    PROVE  Hands' /\ Placed'
  <1>1. ASSUME UNCHANGED <<task, voice, written, dropped, deferred, fired>>
        PROVE  Hands' /\ Placed'
    <2>1. \A x \in Coroutines : HandOf(x)' = HandOf(x)
      BY <1>1 DEF HandOf
    <2>2. Hands'
      BY <1>1 DEF Hands
    <2> QED BY <1>1, <2>1, <2>2, NoneMove
  <1>2. ASSUME NEW c \in Cards, Fire(c)
        PROVE  Hands' /\ Placed'
    <2>1. Hands'
      BY <1>2 DEF Fire, Hands
    <2> QED BY <1>2, <2>1, CardFires
  <1>3. CASE Drop \/ UNCHANGED vars \/ \E f \in Frames : Send(f)
    BY <1>1, <1>3 DEF Drop, Send, vars, gate, cards
  <1> QED BY <1>2, <1>3, SlotPlaced, VoicePlaced, LoopPlaced DEF Next

\* Counting the places of a card.
LEMMA CountOnce ==
    ASSUME NEW s, IsInjective(s), NEW c
    PROVE  Cardinality({i \in DOMAIN s : s[i] = c}) = IF c \in ToSet(s) THEN 1 ELSE 0
  <1> DEFINE I == {i \in DOMAIN s : s[i] = c}
  <1>1. CASE c \in ToSet(s)
    <2>1. PICK i \in DOMAIN s : s[i] = c
      BY <1>1 DEF ToSet
    <2>2. I = {i}
      BY <2>1 DEF IsInjective
    <2> QED BY <1>1, <2>2, FS_Singleton
  <1>2. CASE c \notin ToSet(s)
    <2>1. I = {}
      BY <1>2 DEF ToSet
    <2> QED BY <1>2, <2>1, FS_EmptySet
  <1> QED BY <1>1, <1>2

LEMMA PlacedIsOne == Placed => OnePlace
  <1> SUFFICES ASSUME Placed, NEW c \in Cards
               PROVE  Cardinality({i \in DOMAIN written : written[i] = c})
                      + Cardinality({i \in DOMAIN deferred : deferred[i] = c})
                      + Cardinality({x \in Coroutines : c \in ToSet(HandOf(x))})
                      + (IF c \in dropped THEN 1 ELSE 0)
                        = IF c \in fired THEN 1 ELSE 0
    BY DEF OnePlace
  <1> DEFINE P == {x \in Coroutines : c \in ToSet(HandOf(x))}
  <1>1. Cardinality({i \in DOMAIN written : written[i] = c})
            = IF c \in ToSet(written) THEN 1 ELSE 0
    BY CountOnce DEF Placed, Once
  <1>2. Cardinality({i \in DOMAIN deferred : deferred[i] = c})
            = IF c \in ToSet(deferred) THEN 1 ELSE 0
    BY CountOnce DEF Placed, Once
  <1>3. ASSUME NEW x \in Coroutines, c \in Held(x)
        PROVE  Cardinality(P) = 1
    <2>1. P = {x}
      BY <1>3 DEF Placed, Apart, Held
    <2> QED BY <2>1, FS_Singleton
  <1>4. ASSUME \A x \in Coroutines : c \notin Held(x)
        PROVE  Cardinality(P) = 0
    <2>1. P = {}
      BY <1>4 DEF Held
    <2> QED BY <2>1, FS_EmptySet
  <1>5. /\ c \in ToSet(written) => c \notin dropped
        /\ c \in ToSet(deferred) => c \notin ToSet(written) /\ c \notin dropped
        /\ \A x \in Coroutines : c \in Held(x) =>
               c \notin ToSet(written) /\ c \notin dropped /\ c \notin ToSet(deferred)
    BY DEF Placed, Once, Apart, Out
  <1>6. c \in fired <=> \/ c \in ToSet(written) \/ c \in dropped
                        \/ c \in ToSet(deferred)
                        \/ \E x \in Coroutines : c \in Held(x)
    BY DEF Placed, AllFired, Out
  <1> HIDE DEF P
  <1>7. CASE \E x \in Coroutines : c \in Held(x)
    BY <1>1, <1>2, <1>3, <1>5, <1>6, <1>7 DEF P
  <1>8. CASE \A x \in Coroutines : c \notin Held(x)
    BY <1>1, <1>2, <1>4, <1>5, <1>6, <1>8 DEF P
  <1> QED BY <1>7, <1>8

\* A card that fired is in one place: written once, given up, behind the gate
\* or in the hand of one coroutine that drains it, through any interleaving of
\* turns, drains, cancellations and disconnects.
THEOREM CardsInOnePlace == Spec => []OnePlace
  <1>1. Init => Hands /\ Placed
    <2>1. Idle.pc = "done" /\ Idle.hand = <<>>
      BY DEF Idle
    <2> SUFFICES ASSUME Init
                 PROVE  Hands /\ Placed
      OBVIOUS
    <2>2. \A x \in Coroutines : HandOf(x) = <<>>
      BY <2>1 DEF Init, HandOf, Coroutines
    <2>3. Out = {} /\ \A x \in Coroutines : Held(x) = {}
      BY <2>2, EmptySet DEF Init, Out, Held
    <2>4. Once
      BY <2>2, EmptySet DEF Init, Once
    <2>5. Apart
      BY <2>3 DEF Apart
    <2>6. AllFired
      BY <2>3, EmptySet DEF Init, AllFired
    <2>7. Hands
      BY <2>1 DEF Init, Hands
    <2> QED BY <2>4, <2>5, <2>6, <2>7 DEF Placed
  <1>2. TypeOK /\ Hands /\ Placed /\ [Next]_vars => Hands' /\ Placed'
    BY PlacedNext
  <1> QED BY <1>1, <1>2, PlacedIsOne, TypeCorrect, PTL DEF Spec
=============================================================================

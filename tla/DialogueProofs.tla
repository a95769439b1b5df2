--------------------------- MODULE DialogueProofs ---------------------------
(***************************************************************************)
(* Proofs about the parts of a dialogue: the router, the fallback, the     *)
(* typed and the spoken turn, and the backends.  For each an inductive     *)
(* invariant is proved of its own actions; the theorems, at the end, are   *)
(* about the composition, and state its properties.                        *)
(***************************************************************************)
EXTENDS MCDialogue, FiniteSetTheorems, SequenceTheorems, WellFoundedInduction, TLAPS

-----------------------------------------------------------------------------
(* The router: the lock of _ensure_instance lets one instance of an entry be   *)
(* constructed.                                                            *)

\* What a turn holds, as far as the proof needs it.
RouterTyped ==
    /\ instances \subseteq R!Ids /\ made \in [R!Ids -> Int]
    /\ closing \in [pc : {"no", "closing", "closed"}, todo : SUBSET R!Ids]
    /\ rturn \in [Turns ->
         [pc : {"idle", "lock", "make", "stream"}, spec : Fleet \cup {None}]]
    /\ \A t \in Turns : rturn[t].pc # "idle" => rturn[t].spec \in Fleet

\* The turn that constructs is the one that has the lock.
Locked == /\ lock \in Turns \cup {None}
          /\ \A t \in Turns : rturn[t].pc = "make" <=> lock = t

\* The entry that is being constructed.
Making(i) == lock # None /\ rturn[lock].spec.id = i

\* An entry is constructed once: it is there, or someone is at it, not both.
Once == closing.pc = "no" => \A i \in R!Ids :
    /\ made[i] = IF i \in instances \/ Making(i) THEN 1 ELSE 0
    /\ ~(i \in instances /\ Making(i))

RouterInv == RouterTyped /\ Locked /\ Once

-----------------------------------------------------------------------------

LEMMA RouterInit == ASSUME None \notin Turns, R!Init PROVE RouterInv
  BY DEF R!Init, RouterInv, RouterTyped, Locked, Once, Making, R!Idle, R!Ids

LEMMA RouterNext ==
    ASSUME None \notin Turns, RouterInv, [R!Next]_R!vars
    PROVE  RouterInv'
  <1> USE DEF RouterInv
  <1>1. ASSUME NEW t \in Turns, R!Ask(t) PROVE RouterInv'
    <2>1. /\ rturn[t].pc = "idle" /\ lock # t
          /\ UNCHANGED <<instances, made, lock, closing>>
      BY <1>1 DEF R!Ask, Locked
    <2>2. /\ rturn' \in [Turns -> [pc : {"idle", "lock", "make", "stream"},
                                  spec : Fleet \cup {None}]]
          /\ rturn'[t].pc # "make" /\ (rturn'[t].pc # "idle" => rturn'[t].spec \in Fleet)
          /\ \A s \in Turns \ {t} : rturn'[s] = rturn[s]
      BY <1>1 DEF R!Ask, RouterTyped, R!Choose, R!Candidates
    <2>3. RouterTyped'
      BY <2>1, <2>2 DEF RouterTyped
    <2>4. Locked'
      BY <2>1, <2>2 DEF Locked
    <2>5. Once'
      BY <2>1, <2>2 DEF Once, Making, Locked, RouterTyped
    <2> QED BY <2>3, <2>4, <2>5
  <1>2. ASSUME NEW t \in Turns, R!Lock(t) PROVE RouterInv'
    <2>1. /\ rturn[t].pc = "lock" /\ lock = None /\ rturn[t].spec \in Fleet
          /\ rturn[t].spec.id \in R!Ids /\ UNCHANGED <<instances, closing>>
      BY <1>2 DEF R!Lock, RouterTyped, R!Ids
    <2>2. CASE rturn[t].spec.id \in instances
      <3>1. rturn' = [rturn EXCEPT ![t].pc = "stream"] /\ UNCHANGED <<lock, made>>
        BY <1>2, <2>2 DEF R!Lock
      <3>2. RouterTyped' /\ Locked'
        BY <2>1, <3>1 DEF RouterTyped, Locked
      <3>3. Once'
        BY <2>1, <3>1 DEF Once, Making
      <3> QED BY <3>2, <3>3
    <2>3. CASE rturn[t].spec.id \notin instances
      <3>1. /\ made' = [made EXCEPT ![rturn[t].spec.id] = @ + 1]
            /\ lock' = t /\ rturn' = [rturn EXCEPT ![t].pc = "make"]
        BY <1>2, <2>3 DEF R!Lock
      <3>2. RouterTyped'
        BY <2>1, <3>1 DEF RouterTyped
      <3>3. Locked'
        BY <2>1, <3>1 DEF RouterTyped, Locked
      <3>4. \A i \in R!Ids : Making(i)' <=> i = rturn[t].spec.id
        BY <2>1, <3>1 DEF Making, RouterTyped
      <3>5. \A i \in R!Ids : ~Making(i)
        BY <2>1 DEF Making
      <3>6. Once'
        BY <2>1, <2>3, <3>1, <3>4, <3>5 DEF Once, RouterTyped
      <3> QED BY <3>2, <3>3, <3>6
    <2> QED BY <2>2, <2>3
  <1>3. ASSUME NEW t \in Turns, R!Made(t) PROVE RouterInv'
    <2>1. /\ rturn[t].pc = "make" /\ lock = t /\ rturn[t].spec \in Fleet
          /\ rturn[t].spec.id \in R!Ids /\ UNCHANGED <<made, closing>> /\ lock' = None
          /\ instances' = instances \cup {rturn[t].spec.id}
          /\ rturn' = [rturn EXCEPT ![t].pc = "stream"]
      BY <1>3 DEF R!Made, RouterTyped, Locked, R!Ids
    <2>2. RouterTyped' /\ Locked'
      BY <2>1 DEF RouterTyped, Locked
    <2>3. \A i \in R!Ids : ~Making(i)' /\ (Making(i) <=> i = rturn[t].spec.id)
      BY <2>1 DEF Making
    <2>4. Once'
      BY <2>1, <2>3 DEF Once
    <2> QED BY <2>2, <2>4
  <1>4. ASSUME NEW t \in Turns, R!Fail(t) PROVE RouterInv'
    <2>1. /\ rturn' = [rturn EXCEPT ![t] = R!Idle] /\ UNCHANGED <<instances, closing>>
          /\ rturn[t].spec \in Fleet /\ rturn[t].spec.id \in R!Ids
      BY <1>4 DEF R!Fail, RouterTyped, R!Ids
    <2>2. CASE rturn[t].pc = "make"
      <3>1. /\ lock = t /\ lock' = None
            /\ made' = [made EXCEPT ![rturn[t].spec.id] = @ - 1]
        BY <1>4, <2>2 DEF R!Fail, Locked
      <3>2. RouterTyped' /\ Locked'
        BY <2>1, <3>1 DEF RouterTyped, Locked, R!Idle
      <3>3. \A i \in R!Ids : ~Making(i)' /\ (Making(i) <=> i = rturn[t].spec.id)
        BY <3>1 DEF Making
      <3>4. Once'
        BY <2>1, <3>1, <3>3 DEF Once, RouterTyped
      <3> QED BY <3>2, <3>4
    <2>3. CASE rturn[t].pc = "lock"
      <3>1. lock # t /\ UNCHANGED <<lock, made>>
        BY <1>4, <2>3 DEF R!Fail, Locked
      <3>2. RouterTyped' /\ Locked'
        BY <2>1, <3>1 DEF RouterTyped, Locked, R!Idle
      <3>3. Once'
        BY <2>1, <3>1 DEF Once, Making, Locked, RouterTyped
      <3> QED BY <3>2, <3>3
    <2> QED BY <1>4, <2>2, <2>3 DEF R!Fail
  <1>5. ASSUME NEW t \in Turns, R!End(t) PROVE RouterInv'
    <2>1. /\ rturn[t].pc = "stream" /\ rturn' = [rturn EXCEPT ![t] = R!Idle] /\ lock # t
          /\ UNCHANGED <<instances, made, lock, closing>>
      BY <1>5 DEF R!End, Locked
    <2>2. RouterTyped' /\ Locked'
      BY <2>1 DEF RouterTyped, Locked, R!Idle
    <2>3. Once'
      BY <2>1 DEF Once, Making, Locked, RouterTyped
    <2> QED BY <2>2, <2>3
  <1>6. ASSUME NEW m \in Modes, R!SetVoiceMode(m) PROVE RouterInv'
    BY <1>6 DEF R!SetVoiceMode, RouterTyped, Locked, Once, Making
  <1>7. CASE R!Shutdown
    BY <1>7 DEF R!Shutdown, RouterTyped, Locked, Once, Making
  <1>8. CASE R!Closed
    <2>1. closing.pc = "closing" /\ UNCHANGED <<lock, rturn>>
      BY <1>8 DEF R!Closed
    <2>2. RouterTyped' /\ Locked' /\ closing'.pc # "no"
      <3>1. CASE \E i \in closing.todo :
                   /\ made' = [made EXCEPT ![i] = @ - 1]
                   /\ closing' = [closing EXCEPT !.todo = @ \ {i}] /\ UNCHANGED instances
        BY <2>1, <3>1 DEF RouterTyped, Locked
      <3>2. CASE /\ closing.todo = {} /\ closing' = [closing EXCEPT !.pc = "closed"]
                 /\ instances' = {} /\ UNCHANGED made
        BY <2>1, <3>2 DEF RouterTyped, Locked
      <3> QED BY <1>8, <3>1, <3>2 DEF R!Closed
    <2> QED BY <2>2 DEF Once
  <1>9. CASE UNCHANGED R!vars
    BY <1>9 DEF R!vars, RouterTyped, Locked, Once, Making
  <1> QED BY <1>1, <1>2, <1>3, <1>4, <1>5, <1>6, <1>7, <1>8, <1>9 DEF R!Next

\* The same definition, seen through the instance.
LEMMA SameCardinality == ASSUME NEW S PROVE R!Cardinality(S) = Cardinality(S)
  BY DEF R!Cardinality, Cardinality, R!IsFiniteSet, IsFiniteSet

\* At most one turn constructs an entry, so that counting those who do gives one
\* or none.
LEMMA RouterOne == ASSUME None \notin Turns, RouterInv PROVE R!OneInstance
  <1> USE DEF RouterInv
  <1> SUFFICES ASSUME closing.pc = "no", NEW i \in R!Ids
               PROVE  /\ made[i] = (IF i \in instances THEN 1 ELSE 0)
                         + Cardinality({t \in Turns : rturn[t].pc = "make" /\ rturn[t].spec.id = i})
                      /\ made[i] <= 1
    BY SameCardinality DEF R!OneInstance
  <1> DEFINE at == {t \in Turns : rturn[t].pc = "make" /\ rturn[t].spec.id = i}
  <1>1. CASE Making(i)
    <2>1. at = {lock}
      BY <1>1 DEF Making, Locked
    <2>2. Cardinality(at) = 1
      BY <2>1, FS_Singleton
    <2> QED BY <1>1, <2>2 DEF Once
  <1>2. CASE ~Making(i)
    <2>1. at = {}
      BY <1>2 DEF Making, Locked
    <2>2. Cardinality(at) = 0
      BY <2>1, FS_EmptySet
    <2> QED BY <1>2, <2>2 DEF Once
  <1> QED BY <1>1, <1>2

-----------------------------------------------------------------------------
(* The fallback of the speech: an engine that is made has one owner.       *)

FallbackTyped ==
    /\ fheld \in Makes \cup {None}
    /\ fmade \in [Makes -> {"none", "making", "broken", "up", "down"}]
    /\ user \in [Users -> [pc : {"idle", "init", "use"}, of : Makes \cup {None}]]
    /\ warm \in [pc : {"idle", "init", "drop"}, of : Makes \cup {None}]
    /\ close \in {"open", "warm", "held", "closed"}

\* One task initialises an engine and holds it, and the prewarm has one of its own.
Owners ==
    /\ \A u, v \in Users : user[u].pc = "init" /\ user[v].pc = "init" => u = v
    /\ fheld # None => fmade[fheld] # "none"
    /\ \A u \in Users : user[u].pc = "init" =>
         /\ user[u].of = fheld /\ fheld # None /\ fmade[fheld] = "making"
    /\ warm.pc # "idle" =>
         /\ warm.of \in Makes /\ warm.of # fheld
         /\ fmade[warm.of] = IF warm.pc = "init" THEN "making" ELSE "up"

\* An engine that is being made is made by somebody.
Makers == \A i \in Makes : fmade[i] = "making" =>
    \/ \E u \in Users : user[u].pc = "init" /\ user[u].of = i
    \/ warm.pc = "init" /\ warm.of = i

\* The shutdown ends the tasks, then the prewarm, then what is held.
Closing ==
    /\ close # "open" => \A u \in Users : user[u].pc = "idle"
    /\ close \in {"held", "closed"} => warm.pc = "idle"
    /\ close = "closed" => fheld = None

FallbackInv == FallbackTyped /\ Owners /\ Makers /\ Closing /\ F!NoneLeft

LEMMA FallbackInit == ASSUME None \notin Makes, F!Init PROVE FallbackInv
  BY DEF F!Init, F!Idle, FallbackInv, FallbackTyped, Owners, Makers, Closing, F!NoneLeft

LEMMA FallbackNext ==
    ASSUME None \notin Makes, FallbackInv, [F!Next]_(F!vars)
    PROVE  FallbackInv'
  <1> USE DEF FallbackInv
  <1>1. ASSUME NEW i \in Makes, F!Warm(i) PROVE FallbackInv'
    BY <1>1 DEF F!Warm, FallbackTyped, Owners, Makers, Closing, F!NoneLeft
  <1>2. ASSUME NEW i \in Makes, NEW u \in Users, F!Need(u, i) PROVE FallbackInv'
    <2>1. CASE fheld # None
      BY <1>2, <2>1 DEF F!Need, FallbackTyped, Owners, Makers, Closing, F!NoneLeft
    <2>2. CASE fheld = None
      BY <1>2, <2>2 DEF F!Need, FallbackTyped, Owners, Makers, Closing, F!NoneLeft
    <2> QED
      BY <2>1, <2>2
  <1>3. ASSUME NEW u \in Users, F!Inited(u) PROVE FallbackInv'
    <2>1. /\ user[u].pc = "init" /\ user[u].of = fheld /\ fheld \in Makes
          /\ fmade[fheld] = "making" /\ close = "open" /\ (fheld # warm.of \/ warm.pc = "idle")
          /\ UNCHANGED <<fheld, warm, close>>
      BY <1>3 DEF F!Inited, FallbackTyped, Owners, Closing
    <2>2. PICK st \in {"up", "broken"} : fmade' = [fmade EXCEPT ![fheld] = st]
      BY <1>3, <2>1 DEF F!Inited
    <2>3. PICK to \in [pc : {"idle", "use"}, of : Makes \cup {None}] :
            user' = [user EXCEPT ![u] = to]
      BY <1>3, <2>1 DEF F!Inited, F!Idle
    <2>4. FallbackTyped'
      BY <2>1, <2>2, <2>3 DEF FallbackTyped
    <2>5. \A v \in Users : user[v].pc = "init" => user[v].of = fheld
      BY DEF Owners
    <2>6. Owners'
      <3>1. \A v \in Users : user'[v].pc # "init"
        BY <2>1, <2>3 DEF FallbackTyped, Owners
      <3> QED
        BY <2>1, <2>2, <3>1 DEF FallbackTyped, Owners
    <2>7. Makers'
      BY <2>1, <2>2, <2>3, <2>5 DEF FallbackTyped, Makers
    <2>8. Closing' /\ F!NoneLeft'
      BY <2>1, <2>2, <2>3 DEF FallbackTyped, Closing, F!NoneLeft
    <2> QED
      BY <2>4, <2>6, <2>7, <2>8
  <1>4. ASSUME NEW u \in Users, F!Used(u) PROVE FallbackInv'
    BY <1>4 DEF F!Used, F!Idle, FallbackTyped, Owners, Makers, Closing, F!NoneLeft
  <1>5. CASE F!Warmed
    BY <1>5 DEF F!Warmed, F!Idle, FallbackTyped, Owners, Makers, Closing, F!NoneLeft
  <1>6. CASE F!WarmDropped
    BY <1>6 DEF F!WarmDropped, F!Idle, FallbackTyped, Owners, Makers, Closing, F!NoneLeft
  <1>7. CASE F!WarmFailed
    BY <1>7 DEF F!WarmFailed, F!Idle, FallbackTyped, Owners, Makers, Closing, F!NoneLeft
  <1>8. CASE F!Close
    BY <1>8 DEF F!Close, FallbackTyped, Owners, Makers, Closing, F!NoneLeft
  <1>9. CASE F!CloseWarm
    BY <1>9 DEF F!CloseWarm, F!Idle, FallbackTyped, Owners, Makers, Closing, F!NoneLeft
  <1>10. CASE F!CloseHeld
    BY <1>10 DEF F!CloseHeld, FallbackTyped, Owners, Makers, Closing, F!NoneLeft
  <1>11. CASE UNCHANGED F!vars
    BY <1>11 DEF F!vars, FallbackTyped, Owners, Makers, Closing, F!NoneLeft
  <1> QED
    BY <1>1, <1>2, <1>3, <1>4, <1>5, <1>6, <1>7, <1>8, <1>9, <1>10, <1>11 DEF F!Next

-----------------------------------------------------------------------------
(* The typed turn.  A device is told by frames, and what matters of those it was *)
(* sent is which they are, that some are sent once, and that no word comes late. *)

Sent(s) == {s[i] : i \in DOMAIN s}
Singular == {"llm_done", "tts_start", "tts_end"}
Orderly(s) ==
    /\ s \in Seq(T!Frames)
    /\ \A i, j \in DOMAIN s : s[i] \in Singular /\ s[i] = s[j] => i = j
    /\ \A i, j \in DOMAIN s : i < j /\ s[i] = "llm_done" => s[j] # "llm"

\* The records of the turns, as far as the proof needs them.
TextTyped ==
    /\ tsaid \in [Conns -> Seq(T!Frames)] /\ open \in [Conns -> BOOLEAN]
    /\ tturn \in [Conns -> [path : {"local", "gateway", "vision", "background"} \cup {None},
                            pc : {"idle", "over"} \cup T!Steps, useful : BOOLEAN,
                            tools : BOOLEAN, tracked : BOOLEAN, cancelled : BOOLEAN]]

Before == {"stream", "wrap", "done"}
Speaking == {"synth", "chunks"}
After == {"media", "tts", "receipt"} \cup Speaking

\* What a device has been told at each step of its turn; a socket that closed takes
\* no frame and never opens again.
Frames(s, t, o) ==
    /\ Orderly(s)
    /\ t.pc \in Before => "llm_done" \notin Sent(s)
    /\ t.pc \in Before \cup {"media", "tts"} => Sent(s) \cap {"tts_start", "tts_end"} = {}
    /\ t.pc \in Speaking => "tts_start" \in Sent(s) /\ "tts_end" \notin Sent(s)
    /\ t.pc = "ack" => /\ "llm_done" \in Sent(s)
                       /\ Sent(s) \cap {"tts_start", "tts_end"} = {}
    /\ o /\ t.pc \in After => "llm_done" \in Sent(s)
    /\ o /\ (t.pc = "receipt" \/ (t.pc = "over" /\ ~t.cancelled)) =>
         ("tts_start" \in Sent(s) <=> "tts_end" \in Sent(s))
    /\ o /\ t.pc = "over" /\ ~t.cancelled => Sent(s) \cap {"error", "llm_done"} # {}

\* What is known of the tools: the local path keeps them, and once the reply is
\* wrapped there are words about them.
Worded(s, t) ==
    /\ t.path = "local" /\ t.tools => t.tracked
    /\ t.path \in {"local", "gateway"} /\ t.tools /\ ~t.useful =>
         /\ t.pc \notin {"done"} \cup After
         /\ t.pc = "over" => "llm_done" \notin Sent(s) \/ "error" \in Sent(s)
    /\ t.pc = "ack" => t.path = "background"

TextInv ==
    /\ TextTyped
    /\ \A c \in Conns : Frames(tsaid[c], tturn[c], open[c]) /\ Worded(tsaid[c], tturn[c])

LEMMA SaySends ==
    ASSUME NEW s, Orderly(s), NEW f \in T!Frames,
           f \in Singular => f \notin Sent(s), f = "llm" => "llm_done" \notin Sent(s)
    PROVE  Orderly(s \o <<f>>) /\ Sent(s \o <<f>>) = Sent(s) \cup {f}
  <1> DEFINE u == s \o <<f>>
  <1>1. s \in Seq(T!Frames) /\ Len(s) \in Nat /\ DOMAIN s = 1..Len(s)
    BY DEF Orderly
  <1>2. /\ u \in Seq(T!Frames) /\ DOMAIN u = 1..(Len(s) + 1)
        /\ \A i \in 1..Len(s) : u[i] = s[i]
        /\ u[Len(s) + 1] = f
    BY <1>1
  <1> HIDE DEF u
  <1>3. Sent(u) = Sent(s) \cup {f}
    <2>1. \A i \in DOMAIN u : u[i] \in Sent(s) \cup {f}
      BY <1>1, <1>2 DEF Sent
    <2>2. \A i \in DOMAIN s : s[i] \in Sent(u)
      BY <1>1, <1>2 DEF Sent
    <2>3. f \in Sent(u)
      BY <1>1, <1>2 DEF Sent
    <2> QED BY <2>1, <2>2, <2>3 DEF Sent
  <1>4. ASSUME NEW i \in DOMAIN u, NEW j \in DOMAIN u, u[i] \in Singular, u[i] = u[j]
        PROVE  i = j
    <2>1. \A k \in 1..Len(s) : u[k] \in Sent(s)
      BY <1>1, <1>2 DEF Sent
    <2>2. CASE i \in 1..Len(s) /\ j \in 1..Len(s)
      BY <1>1, <1>2, <1>4, <2>2 DEF Orderly
    <2>3. CASE i \notin 1..Len(s) \/ j \notin 1..Len(s)
      BY <1>1, <1>2, <1>4, <2>1, <2>3
    <2> QED BY <2>2, <2>3
  <1>5. ASSUME NEW i \in DOMAIN u, NEW j \in DOMAIN u, i < j, u[i] = "llm_done"
        PROVE  u[j] # "llm"
    <2>1. i \in 1..Len(s) /\ u[i] = s[i] /\ "llm_done" \in Sent(s)
      BY <1>1, <1>2, <1>5 DEF Sent
    <2>2. CASE j \in 1..Len(s)
      BY <1>1, <1>2, <1>5, <2>1, <2>2 DEF Orderly
    <2>3. CASE j = Len(s) + 1
      BY <1>2, <2>1, <2>3
    <2> QED BY <1>2, <2>2, <2>3
  <1> QED BY <1>2, <1>3, <1>4, <1>5 DEF Orderly, u

LEMMA SayNothing == Orderly(<<>>) /\ Sent(<<>>) = {}
  BY DEF Orderly, Sent

\* Two frames are one after the other.
LEMMA SayTwice ==
    ASSUME NEW s, Orderly(s), NEW f \in T!Frames, NEW g \in T!Frames
    PROVE  s \o <<f, g>> = (s \o <<f>>) \o <<g>>
  <1>1. s \in Seq(T!Frames) /\ <<f>> \in Seq(T!Frames) /\ <<g>> \in Seq(T!Frames)
    BY DEF Orderly
  <1>2. (s \o <<f>>) \o <<g>> = s \o (<<f>> \o <<g>>)
    BY <1>1, ConcatAssociative
  <1>3. <<f>> \o <<g>> = <<f, g>>
    <2>1. <<f>> \o <<g>> = Append(<<f>>, g)
      BY <1>1, AppendIsConcat
    <2>2. Append(<<f>>, g) = <<f, g>>
      <3> DEFINE a == Append(<<f>>, g)
                 b == <<f, g>>
      <3>1. a \in Seq(T!Frames) /\ Len(a) = 2 /\ a[1] = f /\ a[2] = g
        BY <1>1
      <3>2. b \in Seq(T!Frames) /\ Len(b) = 2 /\ b[1] = f /\ b[2] = g
        OBVIOUS
      <3> HIDE DEF a, b
      <3>3. \A i \in 1..Len(a) : a[i] = b[i]
        BY <3>1, <3>2
      <3>4. a = b
        BY <3>1, <3>2, <3>3, SeqEqual
      <3> QED BY <3>4 DEF a, b
    <2> QED BY <2>1, <2>2
  <1> QED BY <1>2, <1>3

\* A step of one turn leaves what others know, and so does a socket that closes.
LEMMA TextOthers ==
    ASSUME TextInv, NEW c \in Conns, tsaid' \in [Conns -> Seq(T!Frames)],
           TextTyped',
           \A d \in Conns \ {c} : /\ tsaid'[d] = tsaid[d] /\ tturn'[d] = tturn[d]
                                  /\ open'[d] => open[d],
           Frames(tsaid'[c], tturn'[c], open'[c]), Worded(tsaid'[c], tturn'[c])
    PROVE  TextInv'
  <1>1. ASSUME NEW d \in Conns \ {c}
        PROVE  Frames(tsaid'[d], tturn'[d], open'[d]) /\ Worded(tsaid'[d], tturn'[d])
    <2>1. Frames(tsaid[d], tturn[d], open[d]) /\ Worded(tsaid[d], tturn[d])
      BY DEF TextInv
    <2> QED BY <2>1 DEF Frames
  <1> QED BY <1>1 DEF TextInv

\* What Say does.
Adds(c, fs) ==
    /\ tsaid' \in [Conns -> Seq(T!Frames)]
    /\ tsaid'[c] = IF open[c] THEN tsaid[c] \o fs ELSE tsaid[c]
    /\ \A d \in Conns \ {c} : tsaid'[d] = tsaid[d]

LEMMA SayAdds ==
    ASSUME TextTyped, NEW c \in Conns, NEW fs \in Seq(T!Frames), T!Say(c, fs)
    PROVE  Adds(c, fs)
  <1>1. tsaid[c] \in Seq(T!Frames) /\ tsaid[c] \o fs \in Seq(T!Frames)
    BY ConcatProperties DEF TextTyped
  <1> QED BY <1>1 DEF T!Say, TextTyped, Adds

\* A turn that goes to another step, with what it knows as it is.
Goes(c, pc) ==
    /\ tturn' \in [Conns -> [path : {"local", "gateway", "vision", "background"} \cup {None},
                             pc : {"idle", "over"} \cup T!Steps, useful : BOOLEAN,
                             tools : BOOLEAN, tracked : BOOLEAN, cancelled : BOOLEAN]]
    /\ tturn'[c].pc = pc /\ tturn'[c].path = tturn[c].path
    /\ tturn'[c].useful = tturn[c].useful /\ tturn'[c].tools = tturn[c].tools
    /\ tturn'[c].tracked = tturn[c].tracked /\ tturn'[c].cancelled = tturn[c].cancelled
    /\ \A d \in Conns \ {c} : tturn'[d] = tturn[d]

LEMMA GotoGoes ==
    ASSUME TextTyped, NEW c \in Conns, NEW pc \in {"idle", "over"} \cup T!Steps,
           T!Goto(c, pc)
    PROVE  Goes(c, pc)
  BY DEF TextTyped, T!Goto, Goes

\* A step of a turn: what it tells is one frame at most, and fits.
LEMMA TextGoes ==
    ASSUME TextInv, NEW c \in Conns, open' = open,
           NEW pc \in {"idle", "over"} \cup T!Steps, Goes(c, pc),
           tsaid' \in [Conns -> Seq(T!Frames)],
           \A d \in Conns \ {c} : tsaid'[d] = tsaid[d],
           Frames(tsaid'[c], tturn'[c], open[c]), Worded(tsaid'[c], tturn'[c])
    PROVE  TextInv'
  <1>1. TextTyped'
    BY DEF TextTyped, TextInv, Goes
  <1> QED BY <1>1, TextOthers DEF Goes

\* What a turn has told after one more frame.
LEMMA OneFrame ==
    ASSUME TextTyped, NEW c \in Conns, Orderly(tsaid[c]), NEW f \in T!Frames,
           T!Say(c, <<f>>), f \in Singular => f \notin Sent(tsaid[c]),
           f = "llm" => "llm_done" \notin Sent(tsaid[c])
    PROVE  /\ tsaid' \in [Conns -> Seq(T!Frames)]
           /\ \A d \in Conns \ {c} : tsaid'[d] = tsaid[d]
           /\ Orderly(tsaid'[c])
           /\ Sent(tsaid'[c]) = Sent(tsaid[c]) \cup (IF open[c] THEN {f} ELSE {})
  <1>1. <<f>> \in Seq(T!Frames)
    OBVIOUS
  <1>2. Adds(c, <<f>>)
    BY <1>1, SayAdds
  <1>3. /\ Orderly(tsaid[c] \o <<f>>)
        /\ Sent(tsaid[c] \o <<f>>) = Sent(tsaid[c]) \cup {f}
    BY SaySends
  <1> QED BY <1>2, <1>3 DEF Adds, TextTyped

LEMMA TextToken ==
    ASSUME TextInv, NEW c \in Conns, T!Token(c)
    PROVE  TextInv'
  <1>1. TextTyped /\ Frames(tsaid[c], tturn[c], open[c]) /\ Worded(tsaid[c], tturn[c])
    BY DEF TextInv
  <1>2. tturn[c].pc = "stream" /\ open' = open /\ T!Say(c, <<"llm">>)
    BY DEF T!Token, T!At, T!Rest
  <1>3. /\ Orderly(tsaid[c]) /\ "llm_done" \notin Sent(tsaid[c])
        /\ Sent(tsaid[c]) \cap {"tts_start", "tts_end"} = {}
    BY <1>1, <1>2 DEF Frames, Before
  <1>4. /\ tsaid' \in [Conns -> Seq(T!Frames)]
        /\ \A d \in Conns \ {c} : tsaid'[d] = tsaid[d]
        /\ Orderly(tsaid'[c]) /\ "llm_done" \notin Sent(tsaid'[c])
        /\ Sent(tsaid'[c]) \cap {"tts_start", "tts_end"} = {}
    <2>1. "llm" \in T!Frames /\ "llm" \notin Singular
      BY DEF T!Frames, Singular
    <2> QED BY <1>1, <1>2, <1>3, <2>1, OneFrame
  <1>5. PICK useful \in BOOLEAN : tturn' = [tturn EXCEPT ![c].useful = useful]
    BY DEF T!Token
  <1>6. /\ TextTyped' /\ \A d \in Conns \ {c} : tturn'[d] = tturn[d]
        /\ tturn'[c].pc = "stream" /\ tturn'[c].path = tturn[c].path
        /\ tturn'[c].tools = tturn[c].tools /\ tturn'[c].tracked = tturn[c].tracked
    BY <1>1, <1>2, <1>4, <1>5 DEF TextTyped
  <1>7. Frames(tsaid'[c], tturn'[c], open'[c]) /\ Worded(tsaid'[c], tturn'[c])
    BY <1>1, <1>4, <1>6 DEF Frames, Worded, Before, After, Speaking
  <1> QED BY <1>2, <1>4, <1>6, <1>7, TextOthers

LEMMA TextTool ==
    ASSUME TextInv, NEW c \in Conns, T!Tool(c)
    PROVE  TextInv'
  <1>1. TextTyped /\ Frames(tsaid[c], tturn[c], open[c]) /\ Worded(tsaid[c], tturn[c])
    BY DEF TextInv
  <1>2. /\ tturn[c].pc = "stream" /\ UNCHANGED <<open, tsaid>>
        /\ tturn' = [tturn EXCEPT ![c].tools = TRUE, ![c].tracked = T!Is(c, "local")]
    BY DEF T!Tool, T!At, T!Rest
  <1>3. /\ TextTyped' /\ \A d \in Conns \ {c} : tturn'[d] = tturn[d]
        /\ tturn'[c].pc = "stream" /\ tturn'[c].path = tturn[c].path
        /\ tturn'[c].path = "local" => tturn'[c].tracked
    BY <1>1, <1>2, ZenonT(60) DEF TextTyped, T!Is
  <1>4. Frames(tsaid'[c], tturn'[c], open'[c]) /\ Worded(tsaid'[c], tturn'[c])
    BY <1>1, <1>2, <1>3 DEF Frames, Worded, Before, After, Speaking
  <1> QED BY <1>1, <1>2, <1>3, <1>4, TextOthers DEF TextTyped

LEMMA TextStreamEnd ==
    ASSUME TextInv, NEW c \in Conns, T!StreamEnd(c)
    PROVE  TextInv'
  <1>1. TextTyped /\ Frames(tsaid[c], tturn[c], open[c]) /\ Worded(tsaid[c], tturn[c])
    BY DEF TextInv
  <1>2. /\ tturn[c].pc = "stream" /\ UNCHANGED <<open, tsaid>> /\ T!Goto(c, "wrap")
    BY DEF T!StreamEnd, T!At, T!Rest
  <1>3. Goes(c, "wrap")
    BY <1>1, <1>2, GotoGoes DEF T!Steps
  <1>4. Frames(tsaid'[c], tturn'[c], open[c]) /\ Worded(tsaid'[c], tturn'[c])
    BY <1>1, <1>2, <1>3 DEF Goes, Frames, Worded, Before, After, Speaking
  <1> QED BY <1>1, <1>2, <1>3, <1>4, TextGoes DEF TextTyped, T!Steps

LEMMA TextStreamFail ==
    ASSUME TextInv, NEW c \in Conns, T!StreamFail(c)
    PROVE  TextInv'
  <1>1. TextTyped /\ Frames(tsaid[c], tturn[c], open[c]) /\ Worded(tsaid[c], tturn[c])
    BY DEF TextInv
  <1>2. /\ tturn[c].pc = "stream" /\ UNCHANGED open /\ T!Goto(c, "over")
        /\ T!Say(c, IF T!Is(c, "gateway") THEN <<"error", "llm_done">> ELSE <<"error">>)
    BY DEF T!StreamFail, T!At, T!Rest
  <1>3. Goes(c, "over")
    BY <1>1, <1>2, GotoGoes
  <1>4. /\ Orderly(tsaid[c]) /\ "llm_done" \notin Sent(tsaid[c])
        /\ Sent(tsaid[c]) \cap {"tts_start", "tts_end"} = {}
    BY <1>1, <1>2 DEF Frames, Before
  <1>5. /\ tsaid' \in [Conns -> Seq(T!Frames)]
        /\ \A d \in Conns \ {c} : tsaid'[d] = tsaid[d]
        /\ Orderly(tsaid'[c]) /\ Sent(tsaid'[c]) \cap {"tts_start", "tts_end"} = {}
        /\ open[c] => "error" \in Sent(tsaid'[c])
        /\ ~open[c] => "llm_done" \notin Sent(tsaid'[c])
    <2>1. "error" \in T!Frames /\ "llm_done" \in T!Frames /\ "error" \notin Singular
      BY DEF T!Frames, Singular
    <2>2. CASE ~T!Is(c, "gateway")
      BY <1>1, <1>2, <1>4, <2>1, <2>2, OneFrame
    <2>3. CASE T!Is(c, "gateway")
      <3> DEFINE s == tsaid[c] \o <<"error">>
      <3>1. T!Say(c, <<"error", "llm_done">>)
        BY <1>2, <2>3
      <3>2. <<"error", "llm_done">> \in Seq(T!Frames)
        BY <2>1
      <3>3. Adds(c, <<"error", "llm_done">>)
        BY <1>1, <3>1, <3>2, SayAdds
      <3>4. Orderly(s) /\ Sent(s) = Sent(tsaid[c]) \cup {"error"}
        BY <1>4, <2>1, SaySends
      <3>5. tsaid[c] \o <<"error", "llm_done">> = s \o <<"llm_done">>
        BY <1>4, <2>1, SayTwice
      <3> HIDE DEF s
      <3>6. /\ Orderly(s \o <<"llm_done">>)
            /\ Sent(s \o <<"llm_done">>) = Sent(s) \cup {"llm_done"}
        BY <1>4, <2>1, <3>4, SaySends
      <3> QED BY <1>4, <3>3, <3>4, <3>5, <3>6 DEF Adds
    <2> QED BY <2>2, <2>3
  <1>6. Frames(tsaid'[c], tturn'[c], open[c])
    BY <1>1, <1>3, <1>5 DEF Goes, Frames, Before, After, Speaking, TextTyped
  <1>7. Worded(tsaid'[c], tturn'[c])
    BY <1>1, <1>3, <1>5 DEF Goes, Worded, Before, After, Speaking, TextTyped
  <1> QED BY <1>2, <1>3, <1>5, <1>6, <1>7, TextGoes

LEMMA TextWrap ==
    ASSUME TextInv, NEW c \in Conns, T!Wrap(c)
    PROVE  TextInv'
  <1>1. TextTyped /\ Frames(tsaid[c], tturn[c], open[c]) /\ Worded(tsaid[c], tturn[c])
    BY DEF TextInv
  <1>2. /\ tturn[c].pc = "wrap" /\ UNCHANGED open
        /\ Orderly(tsaid[c]) /\ "llm_done" \notin Sent(tsaid[c])
        /\ Sent(tsaid[c]) \cap {"tts_start", "tts_end"} = {}
    BY <1>1 DEF T!Wrap, T!At, T!Rest, Frames, Before
  <1>3. CASE ~tturn[c].useful /\ (tturn[c].tracked \/ T!Is(c, "gateway"))
    <2>1. /\ T!Say(c, <<"llm">>)
          /\ tturn' = [tturn EXCEPT ![c].pc = "done", ![c].useful = TRUE]
      BY <1>3 DEF T!Wrap
    <2>2. "llm" \in T!Frames /\ "llm" \notin Singular /\ "done" \in T!Steps
      BY DEF T!Frames, Singular, T!Steps
    <2>3. /\ tsaid' \in [Conns -> Seq(T!Frames)]
          /\ \A d \in Conns \ {c} : tsaid'[d] = tsaid[d]
          /\ Orderly(tsaid'[c]) /\ "llm_done" \notin Sent(tsaid'[c])
          /\ Sent(tsaid'[c]) \cap {"tts_start", "tts_end"} = {}
      BY <1>1, <1>2, <2>1, <2>2, OneFrame
    <2>4. /\ TextTyped' /\ \A d \in Conns \ {c} : tturn'[d] = tturn[d]
          /\ tturn'[c].pc = "done" /\ tturn'[c].path = tturn[c].path
          /\ tturn'[c].tools = tturn[c].tools /\ tturn'[c].tracked = tturn[c].tracked
          /\ tturn'[c].useful
      BY <1>1, <1>2, <2>1, <2>2, <2>3, ZenonT(60) DEF TextTyped
    <2>5. Frames(tsaid'[c], tturn'[c], open'[c]) /\ Worded(tsaid'[c], tturn'[c])
      BY <1>1, <2>3, <2>4 DEF Frames, Worded, Before, After, Speaking
    <2> QED BY <1>2, <2>3, <2>4, <2>5, TextOthers
  <1>4. CASE ~(~tturn[c].useful /\ (tturn[c].tracked \/ T!Is(c, "gateway")))
    <2>1. T!Goto(c, "done") /\ UNCHANGED tsaid
      BY <1>4 DEF T!Wrap
    <2>2. Goes(c, "done")
      BY <1>1, <2>1, GotoGoes DEF T!Steps
    <2>3. Frames(tsaid'[c], tturn'[c], open[c])
      BY <1>1, <1>2, <2>1, <2>2 DEF Goes, Frames, Before, After, Speaking
    <2>4. Worded(tsaid'[c], tturn'[c])
      BY <1>1, <1>4, <2>1, <2>2 DEF Goes, Worded, T!Is, TextTyped, After, Speaking
    <2> QED BY <1>1, <1>2, <2>1, <2>2, <2>3, <2>4, TextGoes DEF TextTyped, T!Steps
  <1> QED BY <1>3, <1>4

LEMMA TextDone ==
    ASSUME TextInv, NEW c \in Conns, T!Done(c)
    PROVE  TextInv'
  <1> DEFINE pc == IF T!Is(c, "vision") THEN "over" ELSE "media"
  <1>1. TextTyped /\ Frames(tsaid[c], tturn[c], open[c]) /\ Worded(tsaid[c], tturn[c])
    BY DEF TextInv
  <1>2. /\ tturn[c].pc = "done" /\ UNCHANGED open /\ T!Goto(c, pc)
        /\ T!Say(c, IF T!Is(c, "gateway") THEN <<"llm_done", "receipt">> ELSE <<"llm_done">>)
        /\ Orderly(tsaid[c]) /\ "llm_done" \notin Sent(tsaid[c])
        /\ Sent(tsaid[c]) \cap {"tts_start", "tts_end"} = {}
    BY <1>1 DEF T!Done, T!At, T!Rest, Frames, Before
  <1>3. pc \in {"idle", "over"} \cup T!Steps /\ Goes(c, pc)
    BY <1>1, <1>2, GotoGoes DEF T!Steps
  <1>4. /\ tsaid' \in [Conns -> Seq(T!Frames)]
        /\ \A d \in Conns \ {c} : tsaid'[d] = tsaid[d]
        /\ Orderly(tsaid'[c]) /\ Sent(tsaid'[c]) \cap {"tts_start", "tts_end"} = {}
        /\ open[c] => "llm_done" \in Sent(tsaid'[c])
    <2>1. "receipt" \in T!Frames /\ "llm_done" \in T!Frames /\ "receipt" \notin Singular
      BY DEF T!Frames, Singular
    <2>2. CASE ~T!Is(c, "gateway")
      BY <1>1, <1>2, <2>1, <2>2, OneFrame
    <2>3. CASE T!Is(c, "gateway")
      <3> DEFINE s == tsaid[c] \o <<"llm_done">>
      <3>1. T!Say(c, <<"llm_done", "receipt">>)
        BY <1>2, <2>3
      <3>2. <<"llm_done", "receipt">> \in Seq(T!Frames)
        BY <2>1
      <3>3. Adds(c, <<"llm_done", "receipt">>)
        BY <1>1, <3>1, <3>2, SayAdds
      <3>4. Orderly(s) /\ Sent(s) = Sent(tsaid[c]) \cup {"llm_done"}
        BY <1>2, <2>1, SaySends
      <3>5. tsaid[c] \o <<"llm_done", "receipt">> = s \o <<"receipt">>
        BY <1>2, <2>1, SayTwice
      <3> HIDE DEF s
      <3>6. /\ Orderly(s \o <<"receipt">>)
            /\ Sent(s \o <<"receipt">>) = Sent(s) \cup {"receipt"}
        BY <2>1, <3>4, SaySends
      <3> QED BY <1>2, <3>3, <3>4, <3>5, <3>6 DEF Adds
    <2> QED BY <2>2, <2>3
  <1>5. Frames(tsaid'[c], tturn'[c], open[c])
    BY <1>1, <1>3, <1>4 DEF Goes, Frames, Before, After, Speaking, TextTyped
  <1>6. Worded(tsaid'[c], tturn'[c])
    BY <1>1, <1>2, <1>3 DEF Goes, Worded, Before, After, Speaking, TextTyped
  <1> QED BY <1>2, <1>3, <1>4, <1>5, <1>6, TextGoes

\* The steps after the reply: what was told stays told.
LEMMA TextLater ==
    ASSUME TextInv, NEW c \in Conns, tturn[c].pc \in After, UNCHANGED open,
           NEW pc \in {"over"} \cup After, Goes(c, pc),
           tsaid' \in [Conns -> Seq(T!Frames)],
           \A d \in Conns \ {c} : tsaid'[d] = tsaid[d],
           Orderly(tsaid'[c]), Sent(tsaid[c]) \subseteq Sent(tsaid'[c]),
           pc \in {"media", "tts"} => Sent(tsaid'[c]) \cap {"tts_start", "tts_end"} = {},
           pc \in Speaking => /\ "tts_start" \in Sent(tsaid'[c])
                              /\ "tts_end" \notin Sent(tsaid'[c]),
           open[c] /\ pc \in {"receipt", "over"} =>
             ("tts_start" \in Sent(tsaid'[c]) <=> "tts_end" \in Sent(tsaid'[c]))
    PROVE  TextInv'
  <1>1. TextTyped /\ Frames(tsaid[c], tturn[c], open[c]) /\ Worded(tsaid[c], tturn[c])
    BY DEF TextInv
  <1>2. Frames(tsaid'[c], tturn'[c], open[c])
    BY <1>1 DEF Goes, Frames, Before, After, Speaking
  <1>3. Worded(tsaid'[c], tturn'[c])
    BY <1>1 DEF Goes, Worded, After, Speaking
  <1>4. pc \in {"idle", "over"} \cup T!Steps
    BY DEF After, Speaking, T!Steps
  <1> QED BY <1>2, <1>3, <1>4, TextGoes

LEMMA TextMedia ==
    ASSUME TextInv, NEW c \in Conns, T!Media(c)
    PROVE  TextInv'
  <1> DEFINE pc == IF T!Is(c, "gateway") THEN "over" ELSE "tts"
  <1>1. /\ TextTyped /\ tturn[c].pc = "media" /\ UNCHANGED open /\ T!Goto(c, pc)
        /\ Orderly(tsaid[c]) /\ Sent(tsaid[c]) \cap {"tts_start", "tts_end"} = {}
    BY DEF T!Media, T!At, T!Rest, Frames, TextInv
  <1>2. pc \in {"over"} \cup After /\ Goes(c, pc)
    BY <1>1, GotoGoes DEF T!Steps, After
  <1>3. T!Say(c, <<"media">>) \/ UNCHANGED tsaid
    BY DEF T!Media
  <1>4. /\ tsaid' \in [Conns -> Seq(T!Frames)]
        /\ \A d \in Conns \ {c} : tsaid'[d] = tsaid[d]
        /\ Orderly(tsaid'[c]) /\ Sent(tsaid[c]) \subseteq Sent(tsaid'[c])
        /\ Sent(tsaid'[c]) \cap {"tts_start", "tts_end"} = {}
    <2>1. "media" \in T!Frames /\ "media" \notin Singular
      BY DEF T!Frames, Singular
    <2>2. CASE UNCHANGED tsaid
      BY <1>1, <2>2 DEF TextTyped
    <2>3. CASE T!Say(c, <<"media">>)
      BY <1>1, <2>1, <2>3, OneFrame
    <2> QED BY <1>3, <2>2, <2>3
  <1> HIDE DEF pc
  <1> QED BY <1>1, <1>2, <1>4, TextLater DEF After, Speaking, pc

LEMMA TextTts ==
    ASSUME TextInv, NEW c \in Conns, T!Tts(c)
    PROVE  TextInv'
  <1>1. /\ TextTyped /\ tturn[c].pc = "tts" /\ UNCHANGED open
        /\ Orderly(tsaid[c]) /\ Sent(tsaid[c]) \cap {"tts_start", "tts_end"} = {}
        /\ tturn[c].pc \in After
    BY DEF T!Tts, T!At, T!Rest, Frames, TextInv, After
  <1>2. CASE T!Goto(c, "receipt") /\ UNCHANGED tsaid
    <2>1. Goes(c, "receipt")
      BY <1>1, <1>2, GotoGoes DEF T!Steps
    <2> QED BY <1>1, <1>2, <2>1, TextLater DEF TextTyped, After, Speaking
  <1>3. CASE open[c] /\ T!Say(c, <<"tts_start">>) /\ T!Goto(c, "synth")
    <2>1. Goes(c, "synth")
      BY <1>1, <1>3, GotoGoes DEF T!Steps
    <2>2. "tts_start" \in T!Frames
      BY DEF T!Frames
    <2>3. /\ tsaid' \in [Conns -> Seq(T!Frames)]
          /\ \A d \in Conns \ {c} : tsaid'[d] = tsaid[d]
          /\ Orderly(tsaid'[c]) /\ Sent(tsaid'[c]) = Sent(tsaid[c]) \cup {"tts_start"}
      BY <1>1, <1>3, <2>2, OneFrame
    <2> QED BY <1>1, <2>1, <2>3, TextLater DEF After, Speaking
  <1> QED BY <1>2, <1>3 DEF T!Tts

LEMMA TextSpeech ==
    ASSUME TextInv, NEW c \in Conns, T!Synth(c) \/ T!Chunks(c)
    PROVE  TextInv'
  <1>1. /\ TextTyped /\ tturn[c].pc \in Speaking /\ UNCHANGED open
        /\ Orderly(tsaid[c]) /\ "tts_start" \in Sent(tsaid[c])
        /\ "tts_end" \notin Sent(tsaid[c])
        /\ tturn[c].pc \in After
    BY DEF T!Synth, T!Chunks, T!At, T!Rest, Frames, TextInv, After, Speaking
  <1>2. CASE T!Goto(c, "chunks") /\ T!Say(c, <<"audio">>)
    <2>1. Goes(c, "chunks")
      BY <1>1, <1>2, GotoGoes DEF T!Steps
    <2>2. "audio" \in T!Frames /\ "audio" \notin Singular
      BY DEF T!Frames, Singular
    <2>3. /\ tsaid' \in [Conns -> Seq(T!Frames)]
          /\ \A d \in Conns \ {c} : tsaid'[d] = tsaid[d]
          /\ Orderly(tsaid'[c])
          /\ Sent(tsaid'[c]) = Sent(tsaid[c]) \cup (IF open[c] THEN {"audio"} ELSE {})
      BY <1>1, <1>2, <2>2, OneFrame
    <2> QED BY <1>1, <2>1, <2>3, TextLater DEF After, Speaking
  <1>3. CASE T!Goto(c, "receipt") /\ T!Say(c, <<"tts_end">>)
    <2>1. Goes(c, "receipt")
      BY <1>1, <1>3, GotoGoes DEF T!Steps
    <2>2. "tts_end" \in T!Frames
      BY DEF T!Frames
    <2>3. /\ tsaid' \in [Conns -> Seq(T!Frames)]
          /\ \A d \in Conns \ {c} : tsaid'[d] = tsaid[d]
          /\ Orderly(tsaid'[c])
          /\ Sent(tsaid'[c]) = Sent(tsaid[c]) \cup (IF open[c] THEN {"tts_end"} ELSE {})
      BY <1>1, <1>3, <2>2, OneFrame
    <2> QED BY <1>1, <2>1, <2>3, TextLater DEF After, Speaking
  <1> QED BY <1>2, <1>3 DEF T!Synth, T!Chunks

LEMMA TextReceipt ==
    ASSUME TextInv, NEW c \in Conns, T!Receipt(c)
    PROVE  TextInv'
  <1>1. /\ TextTyped /\ tturn[c].pc = "receipt" /\ UNCHANGED open
        /\ Orderly(tsaid[c])
        /\ open[c] => ("tts_start" \in Sent(tsaid[c]) <=> "tts_end" \in Sent(tsaid[c]))
        /\ tturn[c].pc \in After
    BY DEF T!Receipt, T!At, T!Rest, Frames, TextInv, After
  <1>2. T!Goto(c, "over") /\ (T!Say(c, <<"receipt">>) \/ UNCHANGED tsaid)
    BY DEF T!Receipt
  <1>3. Goes(c, "over")
    BY <1>1, <1>2, GotoGoes
  <1>4. /\ tsaid' \in [Conns -> Seq(T!Frames)]
        /\ \A d \in Conns \ {c} : tsaid'[d] = tsaid[d]
        /\ Orderly(tsaid'[c]) /\ Sent(tsaid[c]) \subseteq Sent(tsaid'[c])
        /\ open[c] => ("tts_start" \in Sent(tsaid'[c]) <=> "tts_end" \in Sent(tsaid'[c]))
    <2>1. "receipt" \in T!Frames /\ "receipt" \notin Singular
      BY DEF T!Frames, Singular
    <2>2. CASE UNCHANGED tsaid
      BY <1>1, <2>2 DEF TextTyped
    <2>3. CASE T!Say(c, <<"receipt">>)
      BY <1>1, <2>1, <2>3, OneFrame
    <2> QED BY <1>2, <2>2, <2>3
  <1> QED BY <1>1, <1>3, <1>4, TextLater DEF After, Speaking

LEMMA TextCancel ==
    ASSUME TextInv, NEW c \in Conns, T!Cancel(c)
    PROVE  TextInv'
  <1>1. TextTyped /\ Frames(tsaid[c], tturn[c], open[c]) /\ Worded(tsaid[c], tturn[c])
    BY DEF TextInv
  <1> DEFINE pc == IF tturn[c].pc \in {"wrap", "media", "receipt", "ack"}
                   THEN tturn[c].pc ELSE "over"
  <1>2. /\ tturn[c].pc \in T!Steps /\ UNCHANGED <<open, tsaid>>
        /\ tturn' = [tturn EXCEPT ![c].cancelled = TRUE, ![c].pc = pc]
    BY DEF T!Cancel, T!Rest
  <1>3. /\ TextTyped' /\ \A d \in Conns \ {c} : tturn'[d] = tturn[d]
        /\ tturn'[c].pc = pc /\ tturn'[c].cancelled
        /\ tturn'[c].path = tturn[c].path /\ tturn'[c].tools = tturn[c].tools
        /\ tturn'[c].tracked = tturn[c].tracked /\ tturn'[c].useful = tturn[c].useful
    BY <1>1, <1>2 DEF TextTyped
  <1>4. Frames(tsaid'[c], tturn'[c], open'[c])
    BY <1>1, <1>2, <1>3 DEF Frames, Before, After, Speaking
  <1>5. Worded(tsaid'[c], tturn'[c])
    BY <1>1, <1>2, <1>3 DEF Frames, Worded, Before, After, Speaking, T!Steps
  <1> QED BY <1>1, <1>2, <1>3, <1>4, <1>5, TextOthers DEF TextTyped

LEMMA TextBegin ==
    ASSUME TextInv, NEW c \in Conns, NEW path \in {"local", "gateway", "vision", "background"},
           T!Begin(c, path)
    PROVE  TextInv'
  <1>1. TextTyped /\ open' = open
    BY DEF TextInv, T!Begin
  <1>2. Orderly(<<>>) /\ Sent(<<>>) = {}
    BY SayNothing
  <1>3. Orderly(<<"error">>) /\ Sent(<<"error">>) = {"error"}
    BY DEF Orderly, Sent, T!Frames
  <1>4. /\ Orderly(<<"llm", "llm_done">>)
        /\ Sent(<<"llm", "llm_done">>) = {"llm", "llm_done"}
    <2> DEFINE s == <<"llm", "llm_done">>
    <2>1. /\ s \in Seq(T!Frames) /\ DOMAIN s = {1, 2}
          /\ s[1] = "llm" /\ s[2] = "llm_done"
      BY DEF T!Frames
    <2> HIDE DEF s
    <2>2. Sent(s) = {"llm", "llm_done"}
      BY <2>1 DEF Sent
    <2>3. Orderly(s)
      BY <2>1 DEF Orderly
    <2> QED BY <2>2, <2>3 DEF s
  <1>5. CASE /\ tturn' = [tturn EXCEPT ![c] = [T!Idle EXCEPT !.path = path,
                           !.pc = IF path = "background" THEN "ack" ELSE "stream"]]
             /\ tsaid' = [tsaid EXCEPT ![c] = IF path = "background"
                                              THEN <<"llm", "llm_done">> ELSE <<>>]
    <2>1. /\ \A d \in Conns \ {c} : tturn'[d] = tturn[d] /\ tsaid'[d] = tsaid[d]
          /\ tsaid' \in [Conns -> Seq(T!Frames)]
          /\ tturn'[c].path = path /\ tturn'[c].tools = FALSE
          /\ tturn'[c].pc = IF path = "background" THEN "ack" ELSE "stream"
          /\ tsaid'[c] = IF path = "background" THEN <<"llm", "llm_done">> ELSE <<>>
          /\ TextTyped'
      BY <1>1, <1>2, <1>4, <1>5 DEF TextTyped, T!Idle, T!Steps, Orderly
    <2>2. Frames(tsaid'[c], tturn'[c], open'[c])
      BY <1>2, <1>4, <2>1 DEF Frames, Before, After, Speaking
    <2>3. Worded(tsaid'[c], tturn'[c])
      BY <1>2, <1>4, <2>1 DEF Worded, After, Speaking
    <2> QED BY <1>1, <2>1, <2>2, <2>3, TextOthers
  <1>6. CASE /\ tturn' = [tturn EXCEPT ![c] = [T!Idle EXCEPT !.path = path, !.pc = "over"]]
             /\ tsaid' = [tsaid EXCEPT ![c] = <<"error">>]
    <2>1. /\ \A d \in Conns \ {c} : tturn'[d] = tturn[d] /\ tsaid'[d] = tsaid[d]
          /\ tsaid' \in [Conns -> Seq(T!Frames)]
          /\ tturn'[c].path = path /\ tturn'[c].tools = FALSE
          /\ tturn'[c].pc = "over" /\ tsaid'[c] = <<"error">>
          /\ TextTyped'
      BY <1>1, <1>3, <1>6 DEF TextTyped, T!Idle, T!Steps, Orderly
    <2>2. Frames(tsaid'[c], tturn'[c], open'[c])
      <3>1. /\ Orderly(tsaid'[c]) /\ "error" \in Sent(tsaid'[c])
            /\ "tts_start" \notin Sent(tsaid'[c]) /\ "tts_end" \notin Sent(tsaid'[c])
        BY <1>3, <2>1
      <3>2. "error" \in Sent(tsaid'[c]) \cap {"error", "llm_done"}
        BY <3>1
      <3> QED BY <2>1, <3>1, <3>2 DEF Frames, Before, After, Speaking
    <2>3. Worded(tsaid'[c], tturn'[c])
      BY <1>3, <2>1 DEF Worded, After, Speaking
    <2> QED BY <1>1, <2>1, <2>2, <2>3, TextOthers
  <1> QED BY <1>5, <1>6 DEF T!Begin

LEMMA TextSpawn ==
    ASSUME TextInv, NEW c \in Conns, NEW a \in Agents, T!Spawn(c, a)
    PROVE  TextInv'
  <1>1. TextTyped /\ Frames(tsaid[c], tturn[c], open[c]) /\ Worded(tsaid[c], tturn[c])
    BY DEF TextInv
  <1>2. tturn[c].pc = "ack" /\ UNCHANGED <<open, tsaid>> /\ T!Goto(c, "over")
    BY DEF T!Spawn, T!At
  <1>3. Goes(c, "over")
    BY <1>1, <1>2, GotoGoes
  <1>4. Frames(tsaid'[c], tturn'[c], open[c]) /\ Worded(tsaid'[c], tturn'[c])
    BY <1>1, <1>2, <1>3 DEF Goes, Frames, Worded, Before, After, Speaking
  <1> QED BY <1>1, <1>2, <1>3, <1>4, TextGoes DEF TextTyped

\* A socket that closes: nothing is asked any more of what its device was told.
LEMMA TextCloses ==
    ASSUME TextInv, UNCHANGED <<tturn, tsaid>>, open' \in [Conns -> BOOLEAN],
           \A c \in Conns : open'[c] => open[c]
    PROVE  TextInv'
  <1>1. TextTyped'
    BY DEF TextInv, TextTyped
  <1>2. ASSUME NEW c \in Conns
        PROVE  Frames(tsaid'[c], tturn'[c], open'[c]) /\ Worded(tsaid'[c], tturn'[c])
    <2>1. Frames(tsaid[c], tturn[c], open[c]) /\ Worded(tsaid[c], tturn[c])
      BY DEF TextInv
    <2>2. Frames(tsaid[c], tturn[c], open'[c])
      BY <2>1 DEF Frames
    <2> QED BY <2>1, <2>2
  <1> QED BY <1>1, <1>2 DEF TextInv

LEMMA TextInit == ASSUME T!Init PROVE TextInv
  <1>1. TextTyped
    BY DEF T!Init, TextTyped, T!Idle
  <1>2. ASSUME NEW c \in Conns
        PROVE  Frames(tsaid[c], tturn[c], open[c]) /\ Worded(tsaid[c], tturn[c])
    <2>1. tsaid[c] = <<>> /\ tturn[c] = T!Idle
      BY DEF T!Init
    <2> QED BY <2>1, SayNothing DEF Frames, Worded, T!Idle, Before, After, Speaking
  <1> QED BY <1>1, <1>2 DEF TextInv

LEMMA TextNext ==
    ASSUME TextInv, [T!Next]_(T!vars)
    PROVE  TextInv'
  <1>1. ASSUME NEW c \in Conns, T!TurnStep(c)
        PROVE  TextInv'
    <2>1. ASSUME NEW path \in {"local", "gateway", "vision", "background"}, T!Begin(c, path)
          PROVE  TextInv'
      BY <2>1, TextBegin
    <2>2. ASSUME NEW a \in Agents, T!Spawn(c, a)
          PROVE  TextInv'
      BY <2>2, TextSpawn
    <2> QED BY <1>1, <2>1, <2>2, TextToken, TextTool, TextStreamEnd, TextStreamFail,
         TextWrap, TextDone, TextMedia, TextTts, TextSpeech, TextReceipt, TextCancel
       DEF T!TurnStep
  <1>2. ASSUME NEW c \in Conns, T!Register(c) \/ T!Drop(c) \/ T!Leave(c) \/ T!Keepalive(c)
        PROVE  TextInv'
    <2>1. UNCHANGED <<tturn, tsaid>>
      BY <1>2 DEF T!Register, T!Drop, T!Leave, T!Keepalive
    <2>2. /\ open' \in [Conns -> BOOLEAN] /\ \A d \in Conns : open'[d] => open[d]
      <3>1. open \in [Conns -> BOOLEAN]
        BY DEF TextInv, TextTyped
      <3>2. CASE T!Register(c)
        BY <3>1, <3>2 DEF T!Register
      <3>3. CASE T!Drop(c) \/ T!Leave(c)
        BY <3>1, <3>3 DEF T!Drop, T!Leave
      <3>4. CASE T!Keepalive(c)
        <4>1. open[c] /\ (open' = open \/ \E b \in BOOLEAN : open' = [open EXCEPT ![c] = b])
          <5>1. (fails[c] + 1 < MaxFails) \in BOOLEAN
            OBVIOUS
          <5> QED BY <3>4, <5>1 DEF T!Keepalive
        <4> QED BY <3>1, <4>1
      <3> QED BY <1>2, <3>2, <3>3, <3>4
    <2> QED BY <2>1, <2>2, TextCloses
  <1>3. ASSUME NEW a \in Agents, T!AgentTool(a) \/ T!AgentEnd(a) \/ T!Deliver(a)
        PROVE  TextInv'
    <2>1. UNCHANGED <<tturn, tsaid, open>>
      BY <1>3 DEF T!AgentTool, T!AgentEnd, T!Deliver
    <2> QED BY <2>1, TextCloses DEF TextInv, TextTyped
  <1>4. CASE UNCHANGED T!vars
    BY <1>4, TextCloses DEF T!vars, TextInv, TextTyped
  <1> QED BY <1>1, <1>2, <1>3, <1>4 DEF T!Next

LEMMA TextCardinality == ASSUME NEW S PROVE T!Cardinality(S) = Cardinality(S)
  BY DEF T!Cardinality, Cardinality

\* How often a frame was sent, without counting.
LEMMA TextTimes ==
    ASSUME NEW s, Orderly(s), NEW f \in Singular
    PROVE  T!Times(f, s) = IF f \in Sent(s) THEN 1 ELSE 0
  <1> DEFINE I == {i \in DOMAIN s : s[i] = f}
  <1>1. T!Times(f, s) = Cardinality(I)
    BY TextCardinality DEF T!Times
  <1>2. CASE f \in Sent(s)
    <2>1. PICK i \in DOMAIN s : s[i] = f
      BY <1>2 DEF Sent
    <2>2. I = {i}
      BY <2>1 DEF Orderly
    <2> QED BY <1>1, <1>2, <2>2, FS_Singleton
  <1>3. CASE f \notin Sent(s)
    <2>1. I = {}
      BY <1>3 DEF Sent
    <2> QED BY <1>1, <1>3, <2>1, FS_EmptySet
  <1> QED BY <1>2, <1>3

LEMMA TextTold == ASSUME TextInv PROVE T!TurnIsTold /\ T!ToolsAreTold
  <1>1. ASSUME NEW c \in Conns
        PROVE  /\ T!Times("llm_done", tsaid[c]) <= 1
               /\ ~T!After("llm_done", "llm", tsaid[c])
               /\ T!At(c, "over") /\ open[c] /\ ~tturn[c].cancelled =>
                    /\ T!ToSet(tsaid[c]) \cap {"error", "llm_done"} # {}
                    /\ T!Times("tts_start", tsaid[c]) = T!Times("tts_end", tsaid[c])
               /\ T!At(c, "over") /\ "llm_done" \in T!ToSet(tsaid[c])
                    /\ "error" \notin T!ToSet(tsaid[c]) /\ tturn[c].tools
                    /\ tturn[c].path \in {"local", "gateway"} => tturn[c].useful
    <2>1. Frames(tsaid[c], tturn[c], open[c]) /\ Worded(tsaid[c], tturn[c])
      BY DEF TextInv
    <2>2. Orderly(tsaid[c])
      BY <2>1 DEF Frames
    <2>3. T!ToSet(tsaid[c]) = Sent(tsaid[c])
      BY DEF T!ToSet, Sent
    <2>4. \A f \in Singular : T!Times(f, tsaid[c]) = IF f \in Sent(tsaid[c]) THEN 1 ELSE 0
      BY <2>2, TextTimes
    <2>5. T!Times("llm_done", tsaid[c]) <= 1
      BY <2>4 DEF Singular
    <2>6. ~T!After("llm_done", "llm", tsaid[c])
      BY <2>2 DEF T!After, Orderly
    <2>7. ASSUME T!At(c, "over"), open[c], ~tturn[c].cancelled
          PROVE  /\ T!ToSet(tsaid[c]) \cap {"error", "llm_done"} # {}
                 /\ T!Times("tts_start", tsaid[c]) = T!Times("tts_end", tsaid[c])
      BY <2>1, <2>3, <2>4, <2>7 DEF Frames, T!At, Singular
    <2>8. ASSUME T!At(c, "over"), "llm_done" \in T!ToSet(tsaid[c]),
                 "error" \notin T!ToSet(tsaid[c]), tturn[c].tools,
                 tturn[c].path \in {"local", "gateway"}
          PROVE  tturn[c].useful
      BY <2>1, <2>3, <2>8 DEF Worded, T!At
    <2> QED BY <2>5, <2>6, <2>7, <2>8
  <1> QED BY <1>1 DEF T!TurnIsTold, T!ToolsAreTold

-----------------------------------------------------------------------------
(* The spoken turn.  What was shown is, in this order, what was spoken, the    *)
(* pieces that wait for their synthesis and the buffer; at the last word       *)
(* nothing waits any more.                                                     *)

\* A text is cut into what was spoken, the pieces to be spoken and the rest.
Parted(todo, said, text, rest) ==
    \E e \in [1..(Len(todo) + 1) -> 0..Len(text)] :
        /\ said = SubSeq(text, 1, e[1])
        /\ \A k \in 1..Len(todo) : e[k] <= e[k + 1] /\ todo[k] = SubSeq(text, e[k] + 1, e[k + 1])
        /\ rest = SubSeq(text, e[Len(todo) + 1] + 1, Len(text))

Messages == {"stt_empty", "stt_fallback_active", "pipeline_failed", "reverted", "llm_done",
             "cancelled"}
Early == {"new", "stt", "fallback", "heard"}
Busy == {"tts_start", "synth", "audio"}
Late == {"llm_done", "media"}

\* The records of a turn.
UttTyped ==
    /\ utask \in [pc : {"over"} \cup U!Sends \cup U!Waits, raised : BOOLEAN, timed : BOOLEAN,
                  got : Nat, buf : Seq(U!Tokens), code : BOOLEAN,
                  todo : Seq(Seq(U!Tokens)), then : {"stream", "rest"}]
    /\ usaid \in [shown : Seq(U!Tokens), spoken : Seq(U!Tokens), starts : {0, 1},
                  ends : {0, 1}, loose : {FALSE}, told : SUBSET Messages]
    /\ cancel \in BOOLEAN
    /\ flags \in [processing : BOOLEAN, cancelled : BOOLEAN, started : BOOLEAN]
    /\ utask.pc = "show" => utask.buf # <<>>
    /\ utask.pc \in {"synth", "audio"} => utask.todo # <<>>

\* What a turn has of its cancel and its timeout.
UttCut ==
    /\ flags.cancelled => cancel
    /\ cancel => "cancelled" \in usaid.told
    /\ utask.raised => utask.timed \/ "cancelled" \in usaid.told

\* The speech of a turn: begun at most once, and ended at the end only.
UttSpeech ==
    /\ utask.pc = "new" => usaid.starts = 0 /\ usaid.ends = 0
    /\ utask.pc \in (Early \ {"new"}) \cup {"stream", "show"} \cup Busy \cup Late =>
         (flags.started <=> usaid.starts = 1) /\ usaid.ends = 0
    /\ utask.pc \in {"synth", "audio"} => usaid.starts = 1
    /\ utask.pc = "error" => usaid.ends = 0
    /\ utask.pc = "tts_end" => usaid.starts = 1 /\ usaid.ends = 1
    /\ "llm_done" \in usaid.told => utask.pc \in Late \cup {"tts_end", "over"}
    /\ U!SpeechCloses

\* The text of a turn that nobody cancelled.
UttText == "cancelled" \notin usaid.told =>
    /\ utask.pc \in Early =>
         usaid.shown = <<>> /\ usaid.spoken = <<>> /\ utask.buf = <<>> /\ utask.todo = <<>>
    /\ utask.pc \in {"stream", "show"} =>
         utask.todo = <<>> /\ Parted(<<>>, usaid.spoken, usaid.shown, utask.buf)
    /\ utask.pc = "tts_start" => Parted(utask.todo, usaid.spoken, usaid.shown, utask.buf)
    /\ utask.pc \in {"synth", "audio"} =>
         Parted(Tail(utask.todo), usaid.spoken, usaid.shown, utask.buf)
    /\ utask.pc \in Busy /\ utask.then = "rest" => utask.buf = <<>>
    /\ utask.pc \in Late => usaid.spoken = usaid.shown

UttInv == UttTyped /\ UttCut /\ UttSpeech /\ UttText


-----------------------------------------------------------------------------

\* A part of a text.
LEMMA PartOf ==
    ASSUME NEW S, NEW text \in Seq(S), NEW a \in 0..Len(text), NEW b \in 0..Len(text), a <= b
    PROVE  /\ SubSeq(text, a + 1, b) \in Seq(S)
           /\ Len(SubSeq(text, a + 1, b)) = b - a
           /\ \A i \in 1..(b - a) : SubSeq(text, a + 1, b)[i] = text[a + i]
  <1>1. \A i \in (a + 1)..b : text[i] \in S
    OBVIOUS
  <1>2. /\ SubSeq(text, a + 1, b) \in Seq(S)
        /\ Len(SubSeq(text, a + 1, b)) = IF a + 1 <= b THEN b - (a + 1) + 1 ELSE 0
        /\ \A i \in 1 .. b - (a + 1) + 1 : SubSeq(text, a + 1, b)[i] = text[(a + 1) + i - 1]
    <2>1. a + 1 \in Int /\ b \in Int
      OBVIOUS
    <2> QED BY <1>1, <2>1, SubSeqProperties
  <1> QED BY <1>2

\* No piece waits.
LEMMA PartedWhole ==
    ASSUME NEW text, NEW said, NEW rest
    PROVE  Parted(<<>>, said, text, rest) <=>
             \E a \in 0..Len(text) :
               said = SubSeq(text, 1, a) /\ rest = SubSeq(text, a + 1, Len(text))
  <1>1. ASSUME Parted(<<>>, said, text, rest)
        PROVE  \E a \in 0..Len(text) :
               said = SubSeq(text, 1, a) /\ rest = SubSeq(text, a + 1, Len(text))
    <2>1. PICK e \in [1..(0 + 1) -> 0..Len(text)] :
            said = SubSeq(text, 1, e[1]) /\ rest = SubSeq(text, e[0 + 1] + 1, Len(text))
      BY <1>1 DEF Parted
    <2>2. e[1] \in 0..Len(text) /\ 0 + 1 = 1
      BY <2>1
    <2> QED BY <2>1, <2>2
  <1>2. ASSUME NEW a \in 0..Len(text),
               said = SubSeq(text, 1, a), rest = SubSeq(text, a + 1, Len(text))
        PROVE  Parted(<<>>, said, text, rest)
    <2> DEFINE e == [k \in 1..(Len(<<>>) + 1) |-> a]
    <2>1. e \in [1..(Len(<<>>) + 1) -> 0..Len(text)] /\ e[1] = a /\ e[Len(<<>>) + 1] = a
      OBVIOUS
    <2>2. 1..Len(<<>>) = {}
      OBVIOUS
    <2> HIDE DEF e
    <2> QED BY <1>2, <2>1, <2>2 DEF Parted
  <1> QED BY <1>1, <1>2

LEMMA PartedNone == Parted(<<>>, <<>>, <<>>, <<>>)
  <1>1. 0 \in 0..Len(<<>>) /\ Len(<<>>) = 0
    OBVIOUS
  <1>2. SubSeq(<<>>, 1, 0) = <<>> /\ SubSeq(<<>>, 0 + 1, 0) = <<>>
    BY SubSeqEmpty
  <1>3. \E a \in 0..Len(<<>>) :
          <<>> = SubSeq(<<>>, 1, a) /\ <<>> = SubSeq(<<>>, a + 1, Len(<<>>))
    <2>1. <<>> = SubSeq(<<>>, 1, 0) /\ <<>> = SubSeq(<<>>, 0 + 1, Len(<<>>))
      BY <1>1, <1>2
    <2> QED BY <1>1, <2>1, Zenon
  <1> QED BY <1>3, PartedWhole, Zenon

\* One token more.
LEMMA PartedAppend ==
    ASSUME NEW S, NEW text \in Seq(S), NEW said, NEW rest, NEW x \in S,
           Parted(<<>>, said, text, rest)
    PROVE  Parted(<<>>, said, Append(text, x), Append(rest, x))
  <1> DEFINE more == Append(text, x)
             n == Len(text)
  <1>1. PICK a \in 0..n : said = SubSeq(text, 1, a) /\ rest = SubSeq(text, a + 1, n)
    BY PartedWhole
  <1>2. n \in Nat /\ 0 \in 0..n /\ n \in 0..n /\ 0 <= a /\ a <= n /\ 0 + 1 = 1
    OBVIOUS
  <1>3. /\ more \in Seq(S) /\ Len(more) = n + 1
        /\ \A i \in 1..n : more[i] = text[i]
        /\ more[n + 1] = x
    OBVIOUS
  <1> HIDE DEF more
  <1>4. said = SubSeq(more, 1, a)
    <2> DEFINE s == SubSeq(more, 0 + 1, a)
    <2>1. /\ SubSeq(text, 0 + 1, a) \in Seq(S) /\ Len(SubSeq(text, 0 + 1, a)) = a - 0
          /\ \A i \in 1..(a - 0) : SubSeq(text, 0 + 1, a)[i] = text[0 + i]
      BY <1>2, PartOf
    <2>2. /\ said \in Seq(S) /\ Len(said) = a /\ \A i \in 1..a : said[i] = text[i]
      BY <1>1, <1>2, <2>1
    <2>3. 0 \in 0..Len(more) /\ a \in 0..Len(more)
      BY <1>2, <1>3
    <2>4. /\ s \in Seq(S) /\ Len(s) = a - 0
          /\ \A i \in 1..(a - 0) : s[i] = more[0 + i]
      BY <1>2, <1>3, <2>3, PartOf
    <2> HIDE DEF s
    <2>5. \A i \in 1..Len(said) : said[i] = s[i]
      BY <1>2, <1>3, <2>2, <2>4
    <2>6. said = s
      BY <2>2, <2>4, <2>5, SeqEqual
    <2> QED BY <1>2, <2>6 DEF s
  <1>5. Append(rest, x) = SubSeq(more, a + 1, n + 1)
    <2> DEFINE s == SubSeq(more, a + 1, n + 1)
               r == Append(rest, x)
    <2>1. /\ rest \in Seq(S) /\ Len(rest) = n - a
          /\ \A i \in 1..(n - a) : rest[i] = text[a + i]
      BY <1>1, <1>2, PartOf
    <2>2. a \in 0..Len(more) /\ n + 1 \in 0..Len(more) /\ a <= n + 1
      BY <1>2, <1>3
    <2>3. /\ s \in Seq(S) /\ Len(s) = n + 1 - a
          /\ \A i \in 1..(n + 1 - a) : s[i] = more[a + i]
      BY <1>3, <2>2, PartOf
    <2> HIDE DEF s
    <2>4. /\ r \in Seq(S) /\ Len(r) = n + 1 - a
          /\ \A i \in 1..(n - a) : r[i] = rest[i]
          /\ r[n + 1 - a] = x
      BY <1>2, <2>1
    <2> HIDE DEF r, n
    <2>5. ASSUME NEW i \in 1..Len(r) PROVE r[i] = s[i]
      <3>1. CASE i = n + 1 - a
        <4>1. a + i = n + 1 /\ s[i] = more[a + i]
          BY <1>2, <2>3, <2>4, <3>1
        <4> QED BY <1>3, <2>4, <3>1, <4>1
      <3>2. CASE i # n + 1 - a
        <4>1. i \in 1..(n - a) /\ a + i \in 1..n /\ i \in 1..(n + 1 - a)
          BY <1>2, <2>4, <3>2
        <4> QED BY <1>3, <2>1, <2>3, <2>4, <4>1
      <3> QED BY <3>1, <3>2
    <2>6. r = s
      BY <2>3, <2>4, <2>5, SeqEqual
    <2> QED BY <2>6 DEF s, r
  <1>6. a \in 0..Len(more)
    BY <1>2, <1>3
  <1>7. Parted(<<>>, said, more, Append(rest, x))
    <2>1. Append(rest, x) = SubSeq(more, a + 1, Len(more))
      BY <1>3, <1>5
    <2>2. \E b \in 0..Len(more) :
            said = SubSeq(more, 1, b) /\ Append(rest, x) = SubSeq(more, b + 1, Len(more))
      BY <1>4, <1>6, <2>1, Zenon
    <2> QED BY <2>2, PartedWhole, Zenon
  <1> QED BY <1>7 DEF more

\* What is left is cut.
LEMMA PartedCut ==
    ASSUME NEW S, NEW text \in Seq(S), NEW said, NEW buf, NEW todo \in Seq(Seq(S)), NEW rest,
           Parted(<<>>, said, text, buf), Parted(todo, <<>>, buf, rest)
    PROVE  Parted(todo, said, text, rest)
  <1>1. PICK a \in 0..Len(text) :
          said = SubSeq(text, 1, a) /\ buf = SubSeq(text, a + 1, Len(text))
    BY PartedWhole
  <1> DEFINE n == Len(todo)
  <1>2. /\ a \in 0..Len(text) /\ said = SubSeq(text, 1, a) /\ n \in Nat
        /\ buf = SubSeq(text, a + 1, Len(text)) /\ Len(text) \in Nat
    BY <1>1
  <1>3. /\ buf \in Seq(S) /\ Len(buf) = Len(text) - a
        /\ \A i \in 1..(Len(text) - a) : buf[i] = text[a + i]
    BY <1>2, PartOf
  <1>4. PICK e \in [1..(n + 1) -> 0..Len(buf)] :
          /\ <<>> = SubSeq(buf, 1, e[1])
          /\ \A k \in 1..n : e[k] <= e[k + 1] /\ todo[k] = SubSeq(buf, e[k] + 1, e[k + 1])
          /\ rest = SubSeq(buf, e[n + 1] + 1, Len(buf))
    BY DEF Parted
  <1> HIDE DEF n
  <1>5. ASSUME NEW b \in 0..Len(buf), NEW c \in 0..Len(buf), b <= c
        PROVE  SubSeq(buf, b + 1, c) = SubSeq(text, (a + b) + 1, a + c)
    <2> DEFINE s == SubSeq(buf, b + 1, c)
               t == SubSeq(text, (a + b) + 1, a + c)
    <2>1. /\ s \in Seq(S) /\ Len(s) = c - b
          /\ \A i \in 1..(c - b) : s[i] = buf[b + i]
      BY <1>3, <1>5, PartOf
    <2>2. /\ a + b \in 0..Len(text) /\ a + c \in 0..Len(text) /\ a + b <= a + c
          /\ (a + c) - (a + b) = c - b
      BY <1>2, <1>3, <1>5
    <2>3. /\ t \in Seq(S) /\ Len(t) = (a + c) - (a + b)
          /\ \A i \in 1..((a + c) - (a + b)) : t[i] = text[(a + b) + i]
      BY <2>2, PartOf
    <2> HIDE DEF s, t
    <2>4. \A i \in 1..Len(s) : s[i] = t[i]
      <3> SUFFICES ASSUME NEW i \in 1..Len(s) PROVE s[i] = t[i]
        OBVIOUS
      <3>1. i \in 1..(c - b) /\ b \in 0..(Len(text) - a) /\ c \in 0..(Len(text) - a)
        BY <1>3, <1>5, <2>1
      <3>2. /\ i \in 1..(c - b) /\ b + i \in 1..(Len(text) - a) /\ a + (b + i) = (a + b) + i
            /\ (a + c) - (a + b) = c - b
        BY <1>2, <3>1
      <3> QED BY <1>3, <2>1, <2>3, <3>2
    <2>5. s = t
      BY <2>1, <2>2, <2>3, <2>4, SeqEqual
    <2> QED BY <2>5 DEF s, t
  <1>6. e[1] = 0
    <2>1. 1 \in 1..(n + 1) /\ e[1] \in 0..Len(buf)
      BY <1>2, <1>4
    <2>2. 0 \in 0..Len(buf) /\ 0 <= e[1]
      BY <1>3, <2>1
    <2>3. Len(SubSeq(buf, 0 + 1, e[1])) = e[1] - 0
      BY <1>3, <2>1, <2>2, PartOf
    <2> QED BY <1>4, <2>1, <2>3
  <1> DEFINE f == [k \in 1..(n + 1) |-> a + e[k]]
  <1>7. /\ f \in [1..(n + 1) -> 0..Len(text)] /\ f[1] = a
        /\ \A k \in 1..(n + 1) : f[k] = a + e[k]
    BY <1>2, <1>3, <1>6
  <1> HIDE DEF f
  <1>8. ASSUME NEW k \in 1..n
        PROVE  f[k] <= f[k + 1] /\ todo[k] = SubSeq(text, f[k] + 1, f[k + 1])
    <2>1. /\ k \in 1..(n + 1) /\ k + 1 \in 1..(n + 1) /\ e[k] \in 0..Len(buf)
          /\ e[k + 1] \in 0..Len(buf) /\ e[k] <= e[k + 1]
      BY <1>2, <1>4
    <2>2. SubSeq(buf, e[k] + 1, e[k + 1]) = SubSeq(text, (a + e[k]) + 1, a + e[k + 1])
      BY <1>5, <2>1
    <2>3. /\ f[k] = a + e[k] /\ f[k + 1] = a + e[k + 1]
          /\ todo[k] = SubSeq(buf, e[k] + 1, e[k + 1])
      BY <1>4, <1>7, <2>1
    <2>4. f[k] <= f[k + 1]
      BY <1>2, <1>3, <2>1, <2>3
    <2> QED BY <2>2, <2>3, <2>4
  <1>9. rest = SubSeq(text, f[n + 1] + 1, Len(text))
    <2>1. /\ n + 1 \in 1..(n + 1) /\ e[n + 1] \in 0..Len(buf) /\ e[n + 1] <= Len(buf)
          /\ Len(buf) \in 0..Len(buf) /\ a + Len(buf) = Len(text)
      BY <1>2, <1>3, <1>4
    <2>2. SubSeq(buf, e[n + 1] + 1, Len(buf)) = SubSeq(text, (a + e[n + 1]) + 1, a + Len(buf))
      BY <1>5, <2>1
    <2> QED BY <1>4, <1>7, <2>1, <2>2
  <1> QED BY <1>2, <1>7, <1>8, <1>9 DEF Parted, n

\* A piece is spoken.
LEMMA PartedHead ==
    ASSUME NEW S, NEW text \in Seq(S), NEW todo \in Seq(Seq(S)), todo # <<>>, NEW said, NEW rest,
           Parted(todo, said, text, rest)
    PROVE  Parted(Tail(todo), said \o Head(todo), text, rest)
  <1> DEFINE n == Len(todo)
  <1>1. /\ n \in Nat /\ n > 0 /\ Len(Tail(todo)) = n - 1 /\ Head(todo) = todo[1]
        /\ \A k \in 1..(n - 1) : Tail(todo)[k] = todo[k + 1]
    OBVIOUS
  <1>2. PICK e \in [1..(n + 1) -> 0..Len(text)] :
          /\ said = SubSeq(text, 1, e[1])
          /\ \A k \in 1..n : e[k] <= e[k + 1] /\ todo[k] = SubSeq(text, e[k] + 1, e[k + 1])
          /\ rest = SubSeq(text, e[n + 1] + 1, Len(text))
    BY DEF Parted
  <1> HIDE DEF n
  <1>3. said \o Head(todo) = SubSeq(text, 1, e[2])
    <2>0. 1 \in 1..n /\ 1 \in 1..(n + 1) /\ 2 \in 1..(n + 1) /\ 1 + 1 = 2
      BY <1>1
    <2>1. /\ e[1] \in 0..Len(text) /\ e[2] \in 0..Len(text) /\ e[1] <= e[2]
          /\ todo[1] = SubSeq(text, e[1] + 1, e[2])
      BY <1>2, <2>0
    <2>2. /\ 1 \in 1..Len(text) + 1 /\ e[1] \in (1 - 1)..Len(text)
          /\ e[2] \in e[1]..Len(text)
      BY <2>1
    <2>3. SubSeq(text, 1, e[1]) \o SubSeq(text, e[1] + 1, e[2]) = SubSeq(text, 1, e[2])
      BY <2>2, ConcatAdjacentSubSeq
    <2> QED BY <1>1, <1>2, <2>1, <2>3
  <1> DEFINE f == [k \in 1..((n - 1) + 1) |-> e[k + 1]]
  <1>4. /\ f \in [1..((n - 1) + 1) -> 0..Len(text)] /\ f[1] = e[2]
        /\ \A k \in 1..n : f[k] = e[k + 1]
    BY <1>1, <1>2
  <1> HIDE DEF f
  <1>5. ASSUME NEW k \in 1..(n - 1)
        PROVE  f[k] <= f[k + 1] /\ Tail(todo)[k] = SubSeq(text, f[k] + 1, f[k + 1])
    <2>1. k + 1 \in 1..n /\ k \in 1..n
      BY <1>1
    <2> QED BY <1>1, <1>2, <1>4, <2>1
  <1>6. rest = SubSeq(text, f[(n - 1) + 1] + 1, Len(text))
    <2>1. (n - 1) + 1 = n /\ n \in 1..n
      BY <1>1
    <2>2. f[n] = e[n + 1]
      BY <1>4, <2>1
    <2> QED BY <1>2, <2>1, <2>2
  <1> QED BY <1>1, <1>3, <1>4, <1>5, <1>6 DEF Parted

\* Nothing is left.
LEMMA PartedEnd ==
    ASSUME NEW S, NEW text \in Seq(S), NEW said, Parted(<<>>, said, text, <<>>)
    PROVE  said = text
  <1>1. PICK a \in 0..Len(text) :
          said = SubSeq(text, 1, a) /\ <<>> = SubSeq(text, a + 1, Len(text))
    BY PartedWhole
  <1>2. Len(text) \in 0..Len(text) /\ a <= Len(text) /\ Len(text) \in Nat
    OBVIOUS
  <1>3. Len(SubSeq(text, a + 1, Len(text))) = Len(text) - a
    BY <1>2, PartOf
  <1>4. Len(text) - a = 0
    BY <1>1, <1>3
  <1>5. a = Len(text)
    BY <1>2, <1>4
  <1> QED BY <1>1, <1>5, SubSeqFull

\* The buffer, or all of it, or nothing of it, waits.
LEMMA PartedBuffer ==
    ASSUME NEW S, NEW buf \in Seq(S)
    PROVE  /\ Parted(<<>>, <<>>, buf, buf)
           /\ Parted(<<buf>>, <<>>, buf, <<>>)
  <1>1. /\ Len(buf) \in Nat /\ 0 \in 0..Len(buf) /\ Len(buf) \in 0..Len(buf) /\ 0 <= Len(buf)
        /\ 0 + 1 = 1
    OBVIOUS
  <1>2. /\ SubSeq(buf, 1, 0) = <<>> /\ SubSeq(buf, Len(buf) + 1, Len(buf)) = <<>>
        /\ SubSeq(buf, 1, Len(buf)) = buf
    BY <1>1, SubSeqEmpty, SubSeqFull
  <1>3. Parted(<<>>, <<>>, buf, buf)
    <2>1. <<>> = SubSeq(buf, 1, 0) /\ buf = SubSeq(buf, 0 + 1, Len(buf))
      BY <1>1, <1>2
    <2>2. \E a \in 0..Len(buf) : <<>> = SubSeq(buf, 1, a) /\ buf = SubSeq(buf, a + 1, Len(buf))
      BY <1>1, <2>1, Zenon
    <2> QED BY <2>2, PartedWhole, Zenon
  <1>4. Parted(<<buf>>, <<>>, buf, <<>>)
    <2> DEFINE e == [k \in 1..2 |-> IF k = 1 THEN 0 ELSE Len(buf)]
               todo == <<buf>>
    <2>1. Len(todo) = 1 /\ todo[1] = buf
      OBVIOUS
    <2>2. /\ e \in [1..(Len(todo) + 1) -> 0..Len(buf)] /\ e[1] = 0 /\ e[2] = Len(buf)
      BY <1>1, <2>1
    <2> HIDE DEF e, todo
    <2>3. ASSUME NEW k \in 1..Len(todo)
          PROVE  e[k] <= e[k + 1] /\ todo[k] = SubSeq(buf, e[k] + 1, e[k + 1])
      <3>1. k = 1 /\ k + 1 = 2
        BY <2>1
      <3> QED BY <1>1, <1>2, <2>1, <2>2, <3>1
    <2>4. <<>> = SubSeq(buf, 1, e[1])
      BY <1>2, <2>2
    <2>5. <<>> = SubSeq(buf, e[Len(todo) + 1] + 1, Len(buf))
      <3>1. Len(todo) + 1 = 2
        BY <2>1
      <3> QED BY <1>2, <2>2, <3>1
    <2>6. Parted(todo, <<>>, buf, <<>>)
      BY <2>2, <2>3, <2>4, <2>5 DEF Parted
    <2> QED BY <2>6 DEF todo
  <1> QED BY <1>3, <1>4

\* A piece, and the last token is kept.
LEMMA PartedFront ==
    ASSUME NEW S, NEW buf \in Seq(S), Len(buf) > 1
    PROVE  Parted(<<U!Front(buf)>>, <<>>, buf, <<buf[Len(buf)]>>)
  <1> DEFINE n == Len(buf)
             todo == <<U!Front(buf)>>
             rest == <<buf[n]>>
             e == [k \in 1..2 |-> IF k = 1 THEN 0 ELSE n - 1]
  <1>1. /\ n \in Nat /\ n - 1 \in 0..n /\ n \in 0..n /\ 0 \in 0..n /\ 0 <= n - 1 /\ n - 1 <= n
        /\ 0 + 1 = 1 /\ n - (n - 1) = 1 /\ (n - 1) + 1 = n /\ n \in 1..n
    OBVIOUS
  <1>2. Len(todo) = 1 /\ todo[1] = U!Front(buf)
    OBVIOUS
  <1>3. U!Front(buf) = SubSeq(buf, 1, n - 1)
    BY DEF U!Front
  <1>4. rest = SubSeq(buf, (n - 1) + 1, n)
    <2> DEFINE s == SubSeq(buf, (n - 1) + 1, n)
    <2>1. s \in Seq(S) /\ Len(s) = n - (n - 1) /\ \A i \in 1..(n - (n - 1)) : s[i] = buf[(n - 1) + i]
      BY <1>1, PartOf
    <2>2. s \in Seq(S) /\ Len(s) = 1 /\ s[1] = buf[n]
      BY <1>1, <2>1
    <2>3. rest \in Seq(S) /\ Len(rest) = 1 /\ rest[1] = buf[n]
      BY <1>1
    <2> HIDE DEF s, rest
    <2>4. \A i \in 1..Len(s) : rest[i] = s[i]
      BY <2>2, <2>3
    <2>5. rest = s
      BY <2>2, <2>3, <2>4, SeqEqual
    <2> QED BY <2>5 DEF s
  <1>5. e \in [1..(Len(todo) + 1) -> 0..n] /\ e[1] = 0 /\ e[2] = n - 1
    BY <1>1, <1>2
  <1>6. SubSeq(buf, 1, 0) = <<>>
    BY SubSeqEmpty
  <1> HIDE DEF e, todo, rest
  <1>7. ASSUME NEW k \in 1..Len(todo)
        PROVE  e[k] <= e[k + 1] /\ todo[k] = SubSeq(buf, e[k] + 1, e[k + 1])
    <2>1. k = 1 /\ k + 1 = 2
      BY <1>2
    <2>2. SubSeq(buf, e[1] + 1, e[2]) = SubSeq(buf, 1, n - 1)
      BY <1>1, <1>5
    <2> QED BY <1>1, <1>2, <1>3, <1>5, <2>1, <2>2
  <1>8. Len(todo) + 1 = 2
    BY <1>2
  <1>9. <<>> = SubSeq(buf, 1, e[1]) /\ rest = SubSeq(buf, e[Len(todo) + 1] + 1, n)
    BY <1>4, <1>5, <1>6, <1>8
  <1>10. Parted(todo, <<>>, buf, rest)
    BY <1>5, <1>7, <1>9 DEF Parted
  <1> QED BY <1>10 DEF todo, rest

\* The sentences of the buffer.
LEMMA PartedSentences ==
    ASSUME NEW S, NEW buf \in Seq(S), NEW cut \in U!Sentences(buf)
    PROVE  cut \in Seq(Seq(S)) /\ Parted(cut, <<>>, buf, <<>>)
  <1> DEFINE n == Len(buf)
  <1>1. n \in Nat /\ n \in 0..n
    OBVIOUS
  <1>2. PICK d \in U!Marks(n) :
          cut = [k \in 1..(Len(d) - 1) |-> SubSeq(buf, d[k] + 1, d[k + 1])]
    BY DEF U!Sentences
  <1>3. PICK m \in 2..(n + 1) :
          /\ d \in [1..m -> 0..n] /\ d[1] = 0 /\ d[m] = n
          /\ \A k \in 2..m : d[k - 1] < d[k]
    BY DEF U!Marks
  <1>4. m \in Nat /\ m >= 2 /\ m - 1 \in Nat /\ (m - 1) + 1 = m /\ 1 \in 1..m /\ m \in 1..m
    BY <1>1
  <1>5. Len(d) = m
    <2>1. d \in Seq(0..n)
      BY <1>3, <1>4
    <2> QED BY <1>3, <1>4, <2>1, LenProperties
  <1>6. ASSUME NEW k \in 1..(m - 1)
        PROVE  /\ k \in 1..m /\ k + 1 \in 1..m /\ d[k] \in 0..n /\ d[k + 1] \in 0..n
               /\ d[k] <= d[k + 1]
    <2>1. k \in 1..m /\ k + 1 \in 2..m /\ k + 1 \in 1..m /\ (k + 1) - 1 = k
      BY <1>4
    <2>2. d[k] \in 0..n /\ d[k + 1] \in 0..n /\ d[(k + 1) - 1] < d[k + 1]
      BY <1>3, <2>1
    <2> QED BY <1>1, <2>1, <2>2
  <1>7. /\ cut = [k \in 1..(m - 1) |-> SubSeq(buf, d[k] + 1, d[k + 1])]
        /\ \A k \in 1..(m - 1) : cut[k] = SubSeq(buf, d[k] + 1, d[k + 1])
    BY <1>2, <1>5
  <1>8. cut \in [1..(m - 1) -> Seq(S)]
    <2>1. \A k \in 1..(m - 1) : SubSeq(buf, d[k] + 1, d[k + 1]) \in Seq(S)
      BY <1>6, PartOf
    <2> QED BY <1>7, <2>1
  <1>9. cut \in Seq(Seq(S)) /\ Len(cut) = m - 1
    <2>1. cut \in Seq(Seq(S))
      BY <1>4, <1>8
    <2> QED BY <1>4, <1>8, <2>1, LenProperties
  <1>10. SubSeq(buf, 1, 0) = <<>> /\ SubSeq(buf, n + 1, n) = <<>>
    BY <1>1, SubSeqEmpty
  <1> HIDE DEF n
  <1>11. d \in [1..(Len(cut) + 1) -> 0..n]
    BY <1>3, <1>4, <1>9
  <1>12. \A k \in 1..Len(cut) : d[k] <= d[k + 1] /\ cut[k] = SubSeq(buf, d[k] + 1, d[k + 1])
    BY <1>6, <1>7, <1>9
  <1>13. <<>> = SubSeq(buf, 1, d[1]) /\ <<>> = SubSeq(buf, d[Len(cut) + 1] + 1, n)
    BY <1>3, <1>4, <1>9, <1>10
  <1> QED BY <1>9, <1>11, <1>12, <1>13 DEF Parted, n

\* However the buffer is flushed, what waits and what is kept make it up.
LEMMA PartedFlush ==
    ASSUME NEW S, NEW buf \in Seq(S), buf # <<>>, NEW code, NEW f \in U!Flush(buf, code)
    PROVE  /\ f.todo \in Seq(Seq(S)) /\ f.buf \in Seq(S)
           /\ Parted(f.todo, <<>>, buf, f.buf)
  <1>1. /\ Parted(<<>>, <<>>, buf, buf) /\ Parted(<<buf>>, <<>>, buf, <<>>)
    BY PartedBuffer
  <1>2. CASE f = [todo |-> <<>>, buf |-> buf]
    BY <1>1, <1>2
  <1>3. CASE f = [todo |-> <<buf>>, buf |-> <<>>]
    BY <1>1, <1>3
  <1>4. CASE Len(buf) > 1 /\ f = [todo |-> <<U!Front(buf)>>, buf |-> <<buf[Len(buf)]>>]
    <2>1. Parted(<<U!Front(buf)>>, <<>>, buf, <<buf[Len(buf)]>>)
      BY <1>4, PartedFront
    <2>2. U!Front(buf) \in Seq(S) /\ buf[Len(buf)] \in S
      BY <1>4 DEF U!Front
    <2> QED BY <1>4, <2>1, <2>2
  <1>5. CASE \E cut \in U!Sentences(buf) : f = [todo |-> cut, buf |-> <<>>]
    <2>1. PICK cut \in U!Sentences(buf) : f = [todo |-> cut, buf |-> <<>>]
      BY <1>5
    <2>2. cut \in Seq(Seq(S)) /\ Parted(cut, <<>>, buf, <<>>)
      BY PartedSentences
    <2> QED BY <2>1, <2>2
  <1> QED BY <1>2, <1>3, <1>4, <1>5 DEF U!Flush

-----------------------------------------------------------------------------

LEMMA BlankTask ==
    ASSUME NEW P, NEW A, NEW B, NEW p \in P, NEW a \in A, NEW b \in B
    PROVE  [pc |-> p, raised |-> FALSE, timed |-> FALSE, got |-> 0, buf |-> a, code |-> FALSE,
            todo |-> b, then |-> "stream"]
             \in [pc : P, raised : BOOLEAN, timed : BOOLEAN, got : Nat, buf : A,
                  code : BOOLEAN, todo : B, then : {"stream", "rest"}]
  OBVIOUS

LEMMA UttSpawn == ASSUME UttInv, U!Spawn PROVE UttInv'
  <1> USE DEF UttInv, U!Spawn, U!At
  <1>0. /\ <<>> \in Seq(U!Tokens) /\ <<>> \in Seq(Seq(U!Tokens))
        /\ UNCHANGED <<cancel, flags>> /\ ~cancel
        /\ utask' = [U!NoTask EXCEPT !.pc = "new"] /\ usaid' = U!Unsaid
    OBVIOUS
  <1>1. UttTyped'
    <2>1. utask' = [pc |-> "new", raised |-> FALSE, timed |-> FALSE, got |-> 0, buf |-> <<>>,
                    code |-> FALSE, todo |-> <<>>, then |-> "stream"]
      BY <1>0 DEF U!NoTask
    <2>2. usaid' \in [shown : Seq(U!Tokens), spoken : Seq(U!Tokens), starts : {0, 1},
                      ends : {0, 1}, loose : {FALSE}, told : SUBSET Messages]
      BY <1>0 DEF U!Unsaid
    <2>3. utask' \in [pc : {"over"} \cup U!Sends \cup U!Waits, raised : BOOLEAN,
                      timed : BOOLEAN, got : Nat, buf : Seq(U!Tokens), code : BOOLEAN,
                      todo : Seq(Seq(U!Tokens)), then : {"stream", "rest"}]
      <3> DEFINE A == Seq(U!Tokens)
                 B == Seq(Seq(U!Tokens))
                 P == {"over"} \cup U!Sends \cup U!Waits
      <3>1. <<>> \in A /\ <<>> \in B /\ "new" \in P
        BY <1>0 DEF U!Waits
      <3> HIDE DEF A, B, P
      <3>2. utask' \in [pc : P, raised : BOOLEAN, timed : BOOLEAN, got : Nat, buf : A,
                        code : BOOLEAN, todo : B, then : {"stream", "rest"}]
        <4>1. \A p \in P, a \in A, b \in B :
                [pc |-> p, raised |-> FALSE, timed |-> FALSE, got |-> 0, buf |-> a,
                 code |-> FALSE, todo |-> b, then |-> "stream"]
                  \in [pc : P, raised : BOOLEAN, timed : BOOLEAN, got : Nat, buf : A,
                       code : BOOLEAN, todo : B, then : {"stream", "rest"}]
          BY BlankTask
        <4>2. [pc |-> "new", raised |-> FALSE, timed |-> FALSE, got |-> 0, buf |-> <<>>,
               code |-> FALSE, todo |-> <<>>, then |-> "stream"]
                \in [pc : P, raised : BOOLEAN, timed : BOOLEAN, got : Nat, buf : A,
                     code : BOOLEAN, todo : B, then : {"stream", "rest"}]
          BY <3>1, <4>1, Zenon
        <4> QED BY <2>1, <4>2, Zenon
      <3> QED BY <3>2 DEF A, B, P
    <2> QED BY <1>0, <2>1, <2>2, <2>3 DEF UttTyped
  <1>2. UttCut'
    BY <1>0 DEF UttTyped, UttCut, U!NoTask, U!Unsaid
  <1>3. UttSpeech'
    BY <1>0 DEF UttSpeech, U!SpeechCloses, U!Complete, Early, Busy, Late, U!NoTask, U!Unsaid, U!At
  <1>4. UttText'
    BY <1>0 DEF UttText, Early, Busy, Late, U!NoTask, U!Unsaid
  <1> QED BY <1>1, <1>2, <1>3, <1>4

\* The turn goes on before its stream, or fails; the device is told of it.
LEMMA UttMoves ==
    ASSUME UttInv, utask.pc \in {"stt", "fallback"}, NEW pc \in {"heard", "error", "fallback"},
           NEW more \in SUBSET (Messages \ {"llm_done", "cancelled"}),
           utask' = [utask EXCEPT !.pc = pc],
           usaid' = [usaid EXCEPT !.told = @ \cup more], UNCHANGED <<cancel, flags>>
    PROVE  UttInv'
  <1> USE DEF UttInv
  <1>1. UttTyped'
    BY DEF UttTyped, U!Sends, U!Waits
  <1>2. UttCut'
    BY DEF UttTyped, UttCut
  <1>3. UttSpeech'
    BY DEF UttTyped, UttSpeech, U!SpeechCloses, U!Complete, Early, Busy, Late, U!At
  <1>4. UttText'
    BY DEF UttTyped, UttText, Early, Busy, Late
  <1> QED BY <1>1, <1>2, <1>3, <1>4

LEMMA UttTold ==
    ASSUME UttTyped
    PROVE  usaid = [usaid EXCEPT !.told = @ \cup {}]
  BY DEF UttTyped

LEMMA UttTranscribe == ASSUME UttInv, U!Transcribe PROVE UttInv'
  <1>1. utask.pc = "stt" /\ UNCHANGED <<cancel, flags>>
    BY DEF U!Transcribe, U!At
  <1>2. PICK pc \in {"heard", "error", "fallback"},
             more \in SUBSET (Messages \ {"llm_done", "cancelled"}) :
          utask' = [utask EXCEPT !.pc = pc] /\ usaid' = [usaid EXCEPT !.told = @ \cup more]
    <2>1. CASE U!Goto("heard") /\ UNCHANGED usaid
      BY <2>1, UttTold DEF U!Goto, UttInv
    <2>2. CASE U!Goto("error") /\ usaid' = [usaid EXCEPT !.told = @ \cup {"stt_empty"}]
      BY <2>2 DEF U!Goto, Messages
    <2>3. ASSUME NEW word \in {"stt_fallback_active", "pipeline_failed"},
                 NEW pc \in {"fallback", "error"},
                 usaid' = [usaid EXCEPT !.told = @ \cup {word}], U!Goto(pc)
          PROVE  \E to \in {"heard", "error", "fallback"},
                    more \in SUBSET (Messages \ {"llm_done", "cancelled"}) :
                    /\ utask' = [utask EXCEPT !.pc = to]
                    /\ usaid' = [usaid EXCEPT !.told = @ \cup more]
      BY <2>3 DEF U!Goto, Messages
    <2> QED BY <2>1, <2>2, <2>3 DEF U!Transcribe
  <1> QED BY <1>1, <1>2, UttMoves

LEMMA UttFallback == ASSUME UttInv, U!Fallback PROVE UttInv'
  <1>1. utask.pc = "fallback" /\ UNCHANGED <<cancel, flags>>
    BY DEF U!Fallback, U!At
  <1>2. PICK pc \in {"heard", "error", "fallback"},
             more \in SUBSET (Messages \ {"llm_done", "cancelled"}) :
          utask' = [utask EXCEPT !.pc = pc] /\ usaid' = [usaid EXCEPT !.told = @ \cup more]
    BY DEF U!Fallback, U!Goto, Messages
  <1> QED BY <1>1, <1>2, UttMoves

LEMMA UttBegin == ASSUME UttInv, U!Begin PROVE UttInv'
  <1> USE DEF UttInv, U!Begin, U!At, U!Goto, U!SentTo, U!Free
  <1>1. UttTyped'
    BY DEF UttTyped, U!NoTask, U!Unsaid, U!Sends, U!Waits, Messages
  <1>2. UttCut'
    BY DEF UttTyped, UttCut, U!NoTask, U!Unsaid
  <1>3. UttSpeech'
    BY DEF UttTyped, UttCut, UttSpeech, U!SpeechCloses, U!Complete, Early, Busy, Late, U!NoTask,
           U!Unsaid, U!Waits
  <1>4. UttText'
    BY PartedNone DEF UttTyped, UttCut, UttText, Early, Busy, Late, U!NoTask, U!Unsaid, U!Waits
  <1> QED BY <1>1, <1>2, <1>3, <1>4

LEMMA UttHeard == ASSUME UttInv, U!Heard PROVE UttInv'
  <1> USE DEF UttInv, U!Heard, U!At, U!Goto, U!SentTo, U!Free
  <1>1. UttTyped'
    BY DEF UttTyped, U!NoTask, U!Unsaid, U!Sends, U!Waits, Messages
  <1>2. UttCut'
    BY DEF UttTyped, UttCut, U!NoTask, U!Unsaid
  <1>3. UttSpeech'
    BY DEF UttTyped, UttCut, UttSpeech, U!SpeechCloses, U!Complete, Early, Busy, Late, U!NoTask,
           U!Unsaid, U!Waits
  <1>4. UttText'
    BY PartedNone DEF UttTyped, UttCut, UttText, Early, Busy, Late, U!NoTask, U!Unsaid, U!Waits
  <1> QED BY <1>1, <1>2, <1>3, <1>4

LEMMA UttStreamFail == ASSUME UttInv, U!StreamFail PROVE UttInv'
  <1> USE DEF UttInv, U!StreamFail, U!At, U!Goto, U!SentTo, U!Free
  <1>1. UttTyped'
    BY DEF UttTyped, U!NoTask, U!Unsaid, U!Sends, U!Waits, Messages
  <1>2. UttCut'
    BY DEF UttTyped, UttCut, U!NoTask, U!Unsaid
  <1>3. UttSpeech'
    BY DEF UttTyped, UttCut, UttSpeech, U!SpeechCloses, U!Complete, Early, Busy, Late, U!NoTask,
           U!Unsaid, U!Waits
  <1>4. UttText'
    BY PartedNone DEF UttTyped, UttCut, UttText, Early, Busy, Late, U!NoTask, U!Unsaid, U!Waits
  <1> QED BY <1>1, <1>2, <1>3, <1>4

LEMMA UttLlmDone == ASSUME UttInv, U!LlmDone PROVE UttInv'
  <1> USE DEF UttInv, U!LlmDone, U!At, U!Goto, U!SentTo, U!Free
  <1>1. UttTyped'
    BY DEF UttTyped, U!NoTask, U!Unsaid, U!Sends, U!Waits, Messages
  <1>2. UttCut'
    BY DEF UttTyped, UttCut, U!NoTask, U!Unsaid
  <1>3. UttSpeech'
    BY DEF UttTyped, UttCut, UttSpeech, U!SpeechCloses, U!Complete, Early, Busy, Late, U!NoTask,
           U!Unsaid, U!Waits
  <1>4. UttText'
    BY PartedNone DEF UttTyped, UttCut, UttText, Early, Busy, Late, U!NoTask, U!Unsaid, U!Waits
  <1> QED BY <1>1, <1>2, <1>3, <1>4

LEMMA UttEnded == ASSUME UttInv, U!Ended PROVE UttInv'
  <1> USE DEF UttInv, U!Ended, U!At, U!Goto, U!SentTo, U!Free
  <1>1. UttTyped'
    BY DEF UttTyped, U!NoTask, U!Unsaid, U!Sends, U!Waits, Messages
  <1>2. UttCut'
    BY DEF UttTyped, UttCut, U!NoTask, U!Unsaid
  <1>3. UttSpeech'
    BY DEF UttTyped, UttCut, UttSpeech, U!SpeechCloses, U!Complete, Early, Busy, Late, U!NoTask,
           U!Unsaid, U!Waits
  <1>4. UttText'
    BY PartedNone DEF UttTyped, UttCut, UttText, Early, Busy, Late, U!NoTask, U!Unsaid, U!Waits
  <1> QED BY <1>1, <1>2, <1>3, <1>4

LEMMA UttRaise == ASSUME UttInv, U!Raise PROVE UttInv'
  <1> USE DEF UttInv, U!Raise, U!At, U!Goto, U!SentTo, U!Free
  <1>1. UttTyped'
    BY DEF UttTyped, U!NoTask, U!Unsaid, U!Sends, U!Waits, Messages
  <1>2. UttCut'
    BY DEF UttTyped, UttCut, U!NoTask, U!Unsaid
  <1>3. UttSpeech'
    BY DEF UttTyped, UttCut, UttSpeech, U!SpeechCloses, U!Complete, Early, Busy, Late, U!NoTask,
           U!Unsaid, U!Waits
  <1>4. UttText'
    BY PartedNone DEF UttTyped, UttCut, UttText, Early, Busy, Late, U!NoTask, U!Unsaid, U!Waits
  <1> QED BY <1>1, <1>2, <1>3, <1>4

LEMMA UttTimeout == ASSUME UttInv, U!Timeout PROVE UttInv'
  <1> USE DEF UttInv, U!Timeout, U!At, U!Goto, U!SentTo, U!Free
  <1>1. UttTyped'
    BY ZenonT(60) DEF UttTyped, U!NoTask, U!Unsaid, U!Sends, U!Waits, Messages
  <1>2. UttCut'
    BY DEF UttTyped, UttCut, U!NoTask, U!Unsaid
  <1>3. UttSpeech'
    BY DEF UttTyped, UttCut, UttSpeech, U!SpeechCloses, U!Complete, Early, Busy, Late, U!NoTask,
           U!Unsaid, U!Waits
  <1>4. UttText'
    BY PartedNone DEF UttTyped, UttCut, UttText, Early, Busy, Late, U!NoTask, U!Unsaid, U!Waits
  <1> QED BY <1>1, <1>2, <1>3, <1>4

LEMMA UttCancel == ASSUME UttInv, U!Cancel PROVE UttInv'
  <1> USE DEF UttInv, U!Cancel, U!At, U!Goto, U!SentTo, U!Free
  <1>1. UttTyped'
    BY DEF UttTyped, U!NoTask, U!Unsaid, U!Sends, U!Waits, Messages
  <1>2. UttCut'
    BY DEF UttTyped, UttCut, U!NoTask, U!Unsaid
  <1>3. UttSpeech'
    BY DEF UttTyped, UttCut, UttSpeech, U!SpeechCloses, U!Complete, Early, Busy, Late, U!NoTask,
           U!Unsaid, U!Waits
  <1>4. UttText'
    BY PartedNone DEF UttTyped, UttCut, UttText, Early, Busy, Late, U!NoTask, U!Unsaid, U!Waits
  <1> QED BY <1>1, <1>2, <1>3, <1>4

LEMMA UttCancelled == ASSUME UttInv, U!Cancelled PROVE UttInv'
  <1> USE DEF UttInv, U!Cancelled, U!At, U!Goto, U!SentTo, U!Free
  <1>1. UttTyped'
    BY DEF UttTyped, U!NoTask, U!Unsaid, U!Sends, U!Waits, Messages
  <1>2. UttCut'
    BY DEF UttTyped, UttCut, U!NoTask, U!Unsaid
  <1>3. UttSpeech'
    BY DEF UttTyped, UttCut, UttSpeech, U!SpeechCloses, U!Complete, Early, Busy, Late, U!NoTask,
           U!Unsaid, U!Waits
  <1>4. UttText'
    BY PartedNone DEF UttTyped, UttCut, UttText, Early, Busy, Late, U!NoTask, U!Unsaid, U!Waits
  <1> QED BY <1>1, <1>2, <1>3, <1>4

LEMMA UttMedia == ASSUME UttInv, U!Media PROVE UttInv'
  <1> USE DEF UttInv, U!At, U!Free
  <1>0. utask.pc = "media" /\ UNCHANGED cancel /\ usaid.ends = 0
        /\ (flags.started <=> usaid.starts = 1)
    BY DEF U!Media, UttSpeech, Late
  <1>1. CASE /\ flags.started /\ ~flags.cancelled /\ utask' = [utask EXCEPT !.pc = "tts_end"]
             /\ usaid' = [usaid EXCEPT !.ends = @ + 1]
             /\ flags' = [flags EXCEPT !.started = FALSE]
    <2>1. usaid' = [usaid EXCEPT !.ends = 1]
      BY <1>0, <1>1
    <2>2. UttTyped'
      BY <1>0, <1>1, <2>1 DEF UttTyped, U!Sends
    <2>3. UttCut'
      BY <1>0, <1>1, <2>1 DEF UttTyped, UttCut
    <2>4. UttSpeech'
      BY <1>0, <1>1, <2>1 DEF UttTyped, UttSpeech, U!SpeechCloses, U!Complete, Early, Busy, Late
    <2>5. UttText'
      BY <1>0, <1>1, <2>1 DEF UttTyped, UttText, Early, Busy, Late
    <2> QED BY <2>2, <2>3, <2>4, <2>5
  <1>2. CASE /\ ~(flags.started /\ ~flags.cancelled) /\ utask' = [utask EXCEPT !.pc = "over"]
             /\ usaid' = usaid /\ flags' = [flags EXCEPT !.processing = FALSE]
    <2>1. UttTyped'
      BY <1>0, <1>2 DEF UttTyped
    <2>2. UttCut'
      BY <1>0, <1>2 DEF UttTyped, UttCut
    <2>3. UttSpeech'
      BY <1>0, <1>2 DEF UttTyped, UttCut, UttSpeech, U!SpeechCloses, U!Complete, Early, Busy, Late
    <2>4. UttText'
      BY <1>0, <1>2 DEF UttTyped, UttText, Early, Busy, Late
    <2> QED BY <2>1, <2>2, <2>3, <2>4
  <1> QED BY <1>1, <1>2 DEF U!Media, U!Goto

LEMMA UttSynthesise == ASSUME UttInv, U!Synthesise PROVE UttInv'
  <1> USE DEF UttInv
  <1>0. utask.pc = "synth" /\ UNCHANGED <<cancel, flags>>
    BY DEF U!Synthesise, U!At
  <1>1. ASSUME NEW more \in SUBSET {"reverted"}, utask' = [utask EXCEPT !.pc = "audio"],
               usaid' = [usaid EXCEPT !.told = @ \cup more]
        PROVE  UttInv'
    <2>1. UttTyped'
      BY <1>0, <1>1 DEF UttTyped, U!Sends, Messages
    <2>2. UttCut'
      BY <1>0, <1>1 DEF UttTyped, UttCut
    <2>3. UttSpeech'
      BY <1>0, <1>1 DEF UttTyped, UttSpeech, U!SpeechCloses, U!Complete, Early, Busy, Late, U!At
    <2>4. UttText'
      BY <1>0, <1>1 DEF UttTyped, UttText, Early, Busy, Late
    <2> QED BY <2>1, <2>2, <2>3, <2>4
  <1>2. CASE utask' = [utask EXCEPT !.pc = "tts_start", !.todo = Tail(@)] /\ usaid' = usaid
    <2>0. Tail(utask.todo) \in Seq(Seq(U!Tokens))
      BY <1>0 DEF UttTyped
    <2>1. UttTyped'
      BY <1>0, <1>2, <2>0 DEF UttTyped, U!Sends
    <2>2. UttCut'
      BY <1>0, <1>2 DEF UttTyped, UttCut
    <2>3. UttSpeech'
      BY <1>0, <1>2 DEF UttTyped, UttSpeech, U!SpeechCloses, U!Complete, Early, Busy, Late, U!At
    <2>4. UttText'
      BY <1>0, <1>2 DEF UttTyped, UttText, Early, Busy, Late
    <2> QED BY <2>1, <2>2, <2>3, <2>4
  <1>3. usaid = [usaid EXCEPT !.told = @ \cup {}]
    BY UttTold
  <1>4. \/ utask' = [utask EXCEPT !.pc = "audio"] /\ usaid' = usaid
        \/ utask' = [utask EXCEPT !.pc = "audio"]
           /\ usaid' = [usaid EXCEPT !.told = @ \cup {"reverted"}]
        \/ utask' = [utask EXCEPT !.pc = "tts_start", !.todo = Tail(@)] /\ usaid' = usaid
    BY DEF U!Synthesise, U!Goto
  <1>5. CASE utask' = [utask EXCEPT !.pc = "audio"] /\ usaid' = usaid
    <2>1. usaid' = [usaid EXCEPT !.told = @ \cup {}]
      BY <1>3, <1>5
    <2>2. {} \in SUBSET {"reverted"}
      OBVIOUS
    <2> QED BY <1>1, <1>5, <2>1, <2>2, Zenon
  <1>6. CASE utask' = [utask EXCEPT !.pc = "audio"]
             /\ usaid' = [usaid EXCEPT !.told = @ \cup {"reverted"}]
    BY <1>1, <1>6
  <1> QED BY <1>2, <1>4, <1>5, <1>6

LEMMA UttAudio == ASSUME UttInv, U!Audio PROVE UttInv'
  <1> USE DEF UttInv
  <1>0. /\ utask.pc = "audio" /\ UNCHANGED <<cancel, flags>>
        /\ utask' = [utask EXCEPT !.pc = "tts_start", !.raised = FALSE, !.todo = Tail(@)]
    BY DEF U!Audio, U!At
  <1>1. usaid' = usaid
    <2>1. usaid.starts = 1 /\ usaid.ends = 0 /\ usaid.loose = FALSE
      BY <1>0 DEF UttTyped, UttSpeech, Busy
    <2>2. usaid' = [usaid EXCEPT !.loose =
                      @ \/ (~flags.cancelled /\ usaid.starts = usaid.ends)]
      BY DEF U!Audio
    <2>3. (usaid.loose \/ (~flags.cancelled /\ usaid.starts = usaid.ends)) = FALSE
      BY <2>1
    <2>4. usaid' = [usaid EXCEPT !.loose = FALSE]
      BY <2>2, <2>3
    <2> QED BY <2>1, <2>4 DEF UttTyped
  <1>2. Tail(utask.todo) \in Seq(Seq(U!Tokens))
    BY <1>0 DEF UttTyped
  <1>3. UttTyped'
    BY <1>0, <1>1, <1>2 DEF UttTyped, U!Sends
  <1>4. UttCut'
    BY <1>0, <1>1 DEF UttTyped, UttCut
  <1>5. UttSpeech'
    BY <1>0, <1>1 DEF UttTyped, UttSpeech, U!SpeechCloses, U!Complete, Early, Busy, Late, U!At
  <1>6. UttText'
    BY <1>0, <1>1 DEF UttTyped, UttText, Early, Busy, Late
  <1> QED BY <1>3, <1>4, <1>5, <1>6

\* What a step that leaves speech alone has to keep.
LEMMA UttQuiet ==
    ASSUME UttInv, UttTyped', UNCHANGED <<cancel, flags>>,
           usaid'.starts = usaid.starts, usaid'.ends = usaid.ends, usaid'.told = usaid.told,
           utask'.raised => utask.raised, utask'.timed = utask.timed,
           utask.pc \in {"stream", "show"} \cup Busy,
           utask'.pc \in {"stream", "show", "tts_start"}
    PROVE  UttCut' /\ UttSpeech'
  <1>1. UttCut'
    BY DEF UttInv, UttCut
  <1>2. UttSpeech'
    <2>1. "llm_done" \notin usaid.told /\ usaid.ends = 0 /\ (flags.started <=> usaid.starts = 1)
          /\ usaid.starts \in {0, 1} /\ usaid'.loose = FALSE
      BY DEF UttInv, UttSpeech, UttTyped, Busy, Late
    <2> QED BY <2>1 DEF UttSpeech, U!SpeechCloses, U!Complete, Early, Busy, Late, U!At
  <1> QED BY <1>1, <1>2

LEMMA UttToken == ASSUME UttInv, U!Token PROVE UttInv'
  <1>0. /\ utask.pc = "stream" /\ ~utask.raised /\ utask.got < MaxTokens
        /\ UNCHANGED cancel /\ UttTyped /\ UttCut /\ UttSpeech /\ UttText
    BY DEF U!Token, U!At, U!Free, UttInv
  <1>1. CASE flags.cancelled
    <2>1. /\ utask' = [utask EXCEPT !.pc = "over"] /\ usaid' = usaid
          /\ flags' = [flags EXCEPT !.processing = FALSE] /\ "cancelled" \in usaid.told
      BY <1>0, <1>1 DEF U!Token, U!Goto, UttCut
    <2>2. UttTyped'
      BY <1>0, <2>1 DEF UttTyped
    <2>3. UttCut' /\ UttSpeech' /\ UttText'
      BY <1>0, <2>1 DEF UttTyped, UttCut, UttSpeech, UttText, U!SpeechCloses, U!Complete, Early,
                        Busy, Late, U!At
    <2> QED BY <2>2, <2>3 DEF UttInv
  <1>2. CASE ~flags.cancelled
    <2>1. PICK how \in Ends :
            /\ utask' = [utask EXCEPT !.pc = "show", !.got = @ + 1,
                           !.buf = Append(@, [n |-> utask.got + 1, kind |-> how]),
                           !.code = @ # (how = "fence")]
            /\ usaid' = [usaid EXCEPT !.shown =
                           Append(@, [n |-> utask.got + 1, kind |-> how])]
            /\ flags' = flags
      BY <1>2 DEF U!Token
    <2> DEFINE token == [n |-> utask.got + 1, kind |-> how]
               buf == Append(utask.buf, token)
               text == Append(usaid.shown, token)
    <2>2. token \in U!Tokens
      <3>1. utask.got + 1 \in 0..MaxTokens
        <4>1. MaxTokens \in Nat /\ utask.got \in Nat
          BY <1>0, UtteranceAssumption DEF U!BoundsAssumption, UttTyped
        <4> QED BY <1>0, <4>1
      <3> QED BY <3>1 DEF U!Tokens
    <2>3. utask.buf \in Seq(U!Tokens) /\ usaid.shown \in Seq(U!Tokens)
      BY <1>0 DEF UttTyped
    <2> HIDE DEF token
    <2>4. buf \in Seq(U!Tokens) /\ text \in Seq(U!Tokens) /\ buf # <<>>
      BY <2>2, <2>3
    <2>5. Parted(<<>>, usaid.spoken, usaid.shown, utask.buf)
          => Parted(<<>>, usaid.spoken, text, buf)
      BY <2>2, <2>3, PartedAppend
    <2>6. /\ utask' = [utask EXCEPT !.pc = "show", !.got = @ + 1, !.buf = buf,
                         !.code = @ # (how = "fence")]
          /\ usaid' = [usaid EXCEPT !.shown = text]
      BY <2>1 DEF token
    <2> HIDE DEF buf, text
    <2>7. (utask.code # (how = "fence")) \in BOOLEAN
      OBVIOUS
    <2>8. UttTyped'
      <3>1. utask.got + 1 \in Nat /\ utask' = [utask EXCEPT !.pc = "show",
              !.got = utask.got + 1, !.buf = buf, !.code = (utask.code # (how = "fence"))]
        BY <1>0, <2>6 DEF UttTyped
      <3>2. utask' \in [pc : {"over"} \cup U!Sends \cup U!Waits, raised : BOOLEAN,
                        timed : BOOLEAN, got : Nat, buf : Seq(U!Tokens), code : BOOLEAN,
                        todo : Seq(Seq(U!Tokens)), then : {"stream", "rest"}]
        BY <1>0, <2>4, <2>7, <3>1 DEF UttTyped, U!Sends
      <3>3. usaid' \in [shown : Seq(U!Tokens), spoken : Seq(U!Tokens), starts : {0, 1},
                        ends : {0, 1}, loose : {FALSE}, told : SUBSET Messages]
        BY <1>0, <2>4, <2>6 DEF UttTyped
      <3>4. utask'.pc = "show" /\ utask'.buf = buf
        BY <1>0, <3>1 DEF UttTyped
      <3> QED BY <1>0, <2>1, <2>4, <3>2, <3>3, <3>4 DEF UttTyped
    <2>9. /\ utask'.pc = "show" /\ utask'.raised = utask.raised /\ utask'.timed = utask.timed
          /\ utask'.buf = buf /\ utask'.todo = utask.todo /\ usaid'.shown = text
          /\ usaid'.spoken = usaid.spoken /\ usaid'.told = usaid.told
          /\ usaid'.starts = usaid.starts /\ usaid'.ends = usaid.ends
      BY <1>0, <2>6 DEF UttTyped
    <2>10. UttCut' /\ UttSpeech'
      BY <1>0, <2>1, <2>8, <2>9, UttQuiet DEF UttInv
    <2>11. UttText'
      BY <1>0, <2>4, <2>5, <2>9 DEF UttText, Early, Busy, Late
    <2> QED BY <2>8, <2>10, <2>11 DEF UttInv
  <1> QED BY <1>1, <1>2

LEMMA UttShow == ASSUME UttInv, U!Show PROVE UttInv'
  <1>0. /\ utask.pc = "show" /\ UNCHANGED <<cancel, flags, usaid>>
        /\ UttTyped /\ UttCut /\ UttSpeech /\ UttText
    BY DEF U!Show, U!At, UttInv
  <1>1. PICK f \in U!Flush(utask.buf, utask.code) :
          utask' = [utask EXCEPT !.raised = FALSE, !.buf = f.buf, !.todo = f.todo,
                      !.then = "stream", !.pc = IF f.todo = <<>> THEN "stream" ELSE "tts_start"]
    BY DEF U!Show
  <1>2. utask.buf \in Seq(U!Tokens) /\ usaid.shown \in Seq(U!Tokens)
    BY <1>0 DEF UttTyped
  <1>3. CASE utask.buf # <<>>
    <2>1. /\ f.todo \in Seq(Seq(U!Tokens)) /\ f.buf \in Seq(U!Tokens)
          /\ Parted(f.todo, <<>>, utask.buf, f.buf)
      BY <1>2, <1>3, PartedFlush
    <2>2. Parted(<<>>, usaid.spoken, usaid.shown, utask.buf)
          => Parted(f.todo, usaid.spoken, usaid.shown, f.buf)
      BY <1>2, <2>1, PartedCut
    <2>3. UttTyped'
      BY <1>0, <1>1, <2>1 DEF UttTyped, U!Sends, U!Waits
    <2>4. /\ utask'.pc = (IF f.todo = <<>> THEN "stream" ELSE "tts_start")
          /\ utask'.raised = FALSE /\ utask'.timed = utask.timed /\ utask'.then = "stream"
          /\ utask'.buf = f.buf /\ utask'.todo = f.todo
      BY <1>0, <1>1 DEF UttTyped
    <2>5. UttCut' /\ UttSpeech'
      BY <1>0, <2>3, <2>4, UttQuiet DEF UttInv
    <2>6. UttText'
      BY <1>0, <2>2, <2>4 DEF UttText, Early, Busy, Late
    <2> QED BY <2>3, <2>5, <2>6 DEF UttInv
  <1> QED BY <1>0, <1>3 DEF UttTyped

LEMMA UttStreamEnd == ASSUME UttInv, U!StreamEnd PROVE UttInv'
  <1>0. /\ utask.pc = "stream" /\ UNCHANGED <<cancel, flags>>
        /\ UttTyped /\ UttCut /\ UttSpeech /\ UttText
    BY DEF U!StreamEnd, U!At, UttInv
  <1>1. /\ utask.buf \in Seq(U!Tokens) /\ usaid.shown \in Seq(U!Tokens)
        /\ usaid.spoken \in Seq(U!Tokens)
    BY <1>0 DEF UttTyped
  <1>2. CASE /\ utask' = [utask EXCEPT !.pc = "tts_start", !.then = "rest",
                            !.todo = IF utask.buf = <<>> THEN <<>> ELSE <<utask.buf>>,
                            !.buf = <<>>]
             /\ usaid' = usaid
    <2> DEFINE todo == IF utask.buf = <<>> THEN <<>> ELSE <<utask.buf>>
    <2>1. todo \in Seq(Seq(U!Tokens)) /\ <<>> \in Seq(U!Tokens)
      BY <1>1
    <2>2. Parted(<<>>, usaid.spoken, usaid.shown, utask.buf)
          => Parted(todo, usaid.spoken, usaid.shown, <<>>)
      <3>1. CASE utask.buf = <<>>
        BY <3>1
      <3>2. CASE utask.buf # <<>>
        <4>1. Parted(<<utask.buf>>, <<>>, utask.buf, <<>>) /\ todo = <<utask.buf>>
          BY <1>1, <3>2, PartedBuffer
        <4> QED BY <1>1, <2>1, <4>1, PartedCut
      <3> QED BY <3>1, <3>2
    <2> HIDE DEF todo
    <2>3. /\ utask' = [utask EXCEPT !.pc = "tts_start", !.then = "rest", !.todo = todo,
                         !.buf = <<>>]
          /\ usaid' = usaid
      BY <1>2 DEF todo
    <2>4. UttTyped'
      BY <1>0, <2>1, <2>3 DEF UttTyped, U!Sends
    <2>5. /\ utask'.pc = "tts_start" /\ utask'.raised = utask.raised
          /\ utask'.timed = utask.timed /\ utask'.buf = <<>> /\ utask'.todo = todo
      BY <1>0, <2>3 DEF UttTyped
    <2>6. UttCut' /\ UttSpeech'
      BY <1>0, <2>3, <2>4, <2>5, UttQuiet DEF UttInv
    <2>7. UttText'
      BY <1>0, <2>2, <2>3, <2>5 DEF UttText, Early, Busy, Late
    <2> QED BY <2>4, <2>6, <2>7 DEF UttInv
  <1>3. CASE /\ utask.buf = <<>> /\ usaid.shown = <<>>
             /\ utask' = [utask EXCEPT !.pc = "tts_start", !.then = "rest",
                            !.todo = <<<<U!Apology>>>>]
             /\ usaid' = [usaid EXCEPT !.shown = Append(@, U!Apology)]
    <2> DEFINE text == <<U!Apology>>
               todo == <<text>>
    <2>1. U!Apology \in U!Tokens
      <3>1. 0 \in 0..MaxTokens
        BY UtteranceAssumption DEF U!BoundsAssumption
      <3> QED BY <3>1 DEF U!Apology, U!Tokens
    <2>2. text \in Seq(U!Tokens) /\ todo \in Seq(Seq(U!Tokens)) /\ Append(<<>>, U!Apology) = text
      BY <2>1
    <2>3. Parted(todo, <<>>, text, <<>>)
      BY <2>2, PartedBuffer
    <2>4. Parted(<<>>, usaid.spoken, usaid.shown, utask.buf) => usaid.spoken = <<>>
      BY <1>1, <1>3, PartedEnd
    <2>5. /\ utask' = [utask EXCEPT !.pc = "tts_start", !.then = "rest", !.todo = todo]
          /\ usaid' = [usaid EXCEPT !.shown = text]
      BY <1>3, <2>2
    <2> HIDE DEF todo, text
    <2>6. UttTyped'
      BY <1>0, <2>2, <2>5 DEF UttTyped, U!Sends
    <2>7. /\ utask'.pc = "tts_start" /\ utask'.raised = utask.raised
          /\ utask'.timed = utask.timed /\ utask'.buf = utask.buf /\ utask'.todo = todo
          /\ usaid'.shown = text /\ usaid'.spoken = usaid.spoken /\ usaid'.told = usaid.told
          /\ usaid'.starts = usaid.starts /\ usaid'.ends = usaid.ends
      BY <1>0, <2>5 DEF UttTyped
    <2>8. UttCut' /\ UttSpeech'
      BY <1>0, <2>6, <2>7, UttQuiet DEF UttInv
    <2>9. UttText'
      BY <1>0, <1>3, <2>3, <2>4, <2>7 DEF UttText, Early, Busy, Late
    <2> QED BY <2>6, <2>8, <2>9 DEF UttInv
  <1> QED BY <1>2, <1>3 DEF U!StreamEnd

LEMMA UttSpoken == ASSUME UttInv, U!Spoken PROVE UttInv'
  <1>0. /\ utask.pc = "tts_start" /\ utask.todo = <<>> /\ UNCHANGED <<cancel, flags>>
        /\ UttTyped /\ UttCut /\ UttSpeech /\ UttText
    BY DEF U!Spoken, U!At, UttInv
  <1>1. CASE /\ utask.then = "stream"
             /\ utask' = [utask EXCEPT !.pc = "stream", !.raised = FALSE] /\ usaid' = usaid
    <2>1. UttTyped'
      BY <1>0, <1>1 DEF UttTyped, U!Waits
    <2>2. /\ utask'.pc = "stream" /\ utask'.raised = FALSE /\ utask'.timed = utask.timed
          /\ utask'.buf = utask.buf /\ utask'.todo = utask.todo
      BY <1>0, <1>1 DEF UttTyped
    <2>3. UttCut' /\ UttSpeech'
      BY <1>0, <1>1, <2>1, <2>2, UttQuiet DEF UttInv, Busy
    <2>4. UttText'
      BY <1>0, <1>1, <2>2 DEF UttText, Early, Busy, Late
    <2> QED BY <2>1, <2>3, <2>4 DEF UttInv
  <1>2. CASE /\ utask.then # "stream"
             /\ utask' = [utask EXCEPT !.pc = "llm_done", !.raised = FALSE]
             /\ usaid' = [usaid EXCEPT !.told = @ \cup {"llm_done"}]
    <2>1. UttTyped'
      BY <1>0, <1>2 DEF UttTyped, U!Sends, Messages
    <2>2. UttCut'
      BY <1>0, <1>2 DEF UttTyped, UttCut
    <2>3. UttSpeech'
      BY <1>0, <1>2 DEF UttTyped, UttSpeech, U!SpeechCloses, U!Complete, Early, Busy, Late, U!At
    <2>4. UttText'
      <3>1. /\ utask'.pc = "llm_done" /\ usaid'.spoken = usaid.spoken
            /\ usaid'.shown = usaid.shown /\ usaid'.told = usaid.told \cup {"llm_done"}
            /\ utask.then = "rest" /\ usaid.shown \in Seq(U!Tokens)
        BY <1>0, <1>2 DEF UttTyped
      <3>2. "cancelled" \notin usaid.told =>
              Parted(<<>>, usaid.spoken, usaid.shown, <<>>)
        BY <1>0, <3>1 DEF UttText, Busy
      <3>3. "cancelled" \notin usaid.told => usaid.spoken = usaid.shown
        BY <3>1, <3>2, PartedEnd
      <3> QED BY <3>1, <3>3 DEF UttText, Early, Busy, Late
    <2> QED BY <2>1, <2>2, <2>3, <2>4 DEF UttInv
  <1> QED BY <1>1, <1>2 DEF U!Spoken, U!SentTo

LEMMA UttStart == ASSUME UttInv, U!Start PROVE UttInv'
  <1>0. /\ utask.pc = "tts_start" /\ utask.todo # <<>> /\ UNCHANGED cancel
        /\ UttTyped /\ UttCut /\ UttSpeech /\ UttText
    BY DEF U!Start, U!At, UttInv
  <1> DEFINE skip == [utask EXCEPT !.todo = Tail(@), !.raised = FALSE]
             spoken == usaid.spoken \o Head(utask.todo)
  <1>1. /\ utask.todo \in Seq(Seq(U!Tokens)) /\ usaid.spoken \in Seq(U!Tokens)
        /\ usaid.shown \in Seq(U!Tokens)
    BY <1>0 DEF UttTyped
  <1>2. Tail(utask.todo) \in Seq(Seq(U!Tokens)) /\ spoken \in Seq(U!Tokens)
    <2>1. Head(utask.todo) \in Seq(U!Tokens) /\ Tail(utask.todo) \in Seq(Seq(U!Tokens))
      BY <1>0, <1>1, HeadTailProperties
    <2> QED BY <1>1, <2>1, ConcatProperties
  <1>3. Parted(utask.todo, usaid.spoken, usaid.shown, utask.buf)
        => Parted(Tail(utask.todo), spoken, usaid.shown, utask.buf)
    BY <1>0, <1>1, PartedHead
  <1>4. CASE flags.cancelled
    <2>1. utask' = skip /\ UNCHANGED <<flags, usaid>> /\ "cancelled" \in usaid.told
      BY <1>0, <1>4 DEF U!Start, UttCut
    <2>2. UttTyped'
      BY <1>0, <1>2, <2>1 DEF UttTyped
    <2>3. utask'.pc = "tts_start" /\ utask'.raised = FALSE /\ utask'.timed = utask.timed
      BY <1>0, <2>1 DEF UttTyped
    <2>4. UttCut' /\ UttSpeech'
      BY <1>0, <2>1, <2>2, <2>3, UttQuiet DEF UttInv, Busy
    <2> QED BY <2>1, <2>2, <2>4 DEF UttInv, UttText
  <1>5. CASE ~flags.cancelled
    <2>1. /\ flags' = [flags EXCEPT !.started = TRUE]
          /\ usaid' = [usaid EXCEPT !.starts = IF flags.started THEN @ ELSE @ + 1,
                         !.spoken = spoken]
          /\ \/ utask' = [utask EXCEPT !.pc = "synth",
                            !.raised = IF flags.started THEN @ ELSE FALSE]
             \/ utask' = skip
      BY <1>5 DEF U!Start
    <2> HIDE DEF spoken
    <2>2. usaid' = [usaid EXCEPT !.starts = 1, !.spoken = spoken]
      <3>1. (IF flags.started THEN usaid.starts ELSE usaid.starts + 1) = 1
        BY <1>0 DEF UttSpeech, UttTyped, Busy
      <3> QED BY <2>1, <3>1
    <2>3. /\ usaid'.starts = 1 /\ usaid'.ends = usaid.ends /\ usaid'.told = usaid.told
          /\ usaid'.shown = usaid.shown /\ usaid'.spoken = spoken /\ usaid'.loose = FALSE
          /\ usaid' \in [shown : Seq(U!Tokens), spoken : Seq(U!Tokens), starts : {0, 1},
                         ends : {0, 1}, loose : {FALSE}, told : SUBSET Messages]
      BY <1>0, <1>2, <2>2 DEF UttTyped
    <2>4. /\ flags' \in [processing : BOOLEAN, cancelled : BOOLEAN, started : BOOLEAN]
          /\ flags'.started /\ flags'.cancelled = flags.cancelled
      BY <1>0, <2>1 DEF UttTyped
    <2>5. /\ utask'.pc \in {"synth", "tts_start"}
          /\ utask'.raised => utask.raised
          /\ utask'.timed = utask.timed /\ utask'.buf = utask.buf /\ utask'.then = utask.then
          /\ utask'.pc = "synth" => utask'.todo = utask.todo
          /\ utask'.pc = "tts_start" => utask'.todo = Tail(utask.todo)
          /\ UttTyped'
      <3>1. CASE utask' = [utask EXCEPT !.pc = "synth",
                             !.raised = IF flags.started THEN @ ELSE FALSE]
        BY <1>0, <2>3, <2>4, <3>1 DEF UttTyped, U!Waits
      <3>2. CASE utask' = skip
        BY <1>0, <1>2, <2>3, <2>4, <3>2 DEF UttTyped
      <3> QED BY <2>1, <3>1, <3>2
    <2>6. UttCut'
      BY <1>0, <2>3, <2>4, <2>5 DEF UttCut
    <2>7. UttSpeech'
      <3>1. "llm_done" \notin usaid.told /\ usaid.ends = 0
        BY <1>0 DEF UttSpeech, Busy, Late
      <3> QED BY <2>3, <2>4, <2>5, <3>1
            DEF UttSpeech, U!SpeechCloses, U!Complete, Early, Busy, Late, U!At
    <2>8. UttText'
      BY <1>0, <1>3, <2>3, <2>5 DEF UttText, Early, Busy, Late
    <2> QED BY <2>5, <2>6, <2>7, <2>8 DEF UttInv
  <1> QED BY <1>4, <1>5

LEMMA UttInit == ASSUME U!Init PROVE UttInv
  <1>1. /\ utask.pc = "over" /\ utask.raised = FALSE /\ utask.timed = FALSE
        /\ usaid = U!Unsaid /\ flags.cancelled = FALSE /\ flags.started = FALSE /\ ~cancel
    BY DEF U!Init, U!NoTask
  <1>2. UttTyped
    <2>1. <<>> \in Seq(U!Tokens) /\ <<>> \in Seq(Seq(U!Tokens))
      OBVIOUS
    <2>2. usaid \in [shown : Seq(U!Tokens), spoken : Seq(U!Tokens), starts : {0, 1},
                     ends : {0, 1}, loose : {FALSE}, told : SUBSET Messages]
      BY <1>1, <2>1 DEF U!Unsaid
    <2>3. utask \in [pc : {"over"} \cup U!Sends \cup U!Waits, raised : BOOLEAN,
                     timed : BOOLEAN, got : Nat, buf : Seq(U!Tokens), code : BOOLEAN,
                     todo : Seq(Seq(U!Tokens)), then : {"stream", "rest"}]
      BY <2>1, BlankTask DEF U!Init, U!NoTask
    <2> QED BY <1>1, <2>2, <2>3 DEF UttTyped, U!Init
  <1>3. UttCut /\ UttSpeech /\ UttText
    BY <1>1 DEF UttCut, UttSpeech, UttText, U!SpeechCloses, U!Complete, U!Unsaid, Early, Busy,
                Late, U!At
  <1> QED BY <1>2, <1>3 DEF UttInv

LEMMA UttNext == ASSUME UttInv, [U!Next]_(U!vars) PROVE UttInv'
  <1>1. CASE UNCHANGED U!vars
    <2>1. UNCHANGED <<utask, cancel, flags, usaid>>
      BY <1>1 DEF U!vars
    <2>2. UttTyped'
      <3>1. utask' = utask /\ usaid' = usaid /\ cancel' = cancel /\ flags' = flags
        BY <2>1
      <3>2. UttTyped
        BY DEF UttInv
      <3>3. (utask \in [pc : {"over"} \cup U!Sends \cup U!Waits, raised : BOOLEAN,
                       timed : BOOLEAN, got : Nat, buf : Seq(U!Tokens), code : BOOLEAN,
                       todo : Seq(Seq(U!Tokens)), then : {"stream", "rest"}])'
        BY <3>1, <3>2 DEF UttTyped
      <3>4. (usaid \in [shown : Seq(U!Tokens), spoken : Seq(U!Tokens), starts : {0, 1},
                       ends : {0, 1}, loose : {FALSE}, told : SUBSET Messages])'
        BY <3>1, <3>2 DEF UttTyped
      <3>5. /\ cancel' \in BOOLEAN
            /\ flags' \in [processing : BOOLEAN, cancelled : BOOLEAN, started : BOOLEAN]
        BY <3>1, <3>2 DEF UttTyped
      <3>6. utask.pc = "show" => utask.buf # <<>>
        BY <3>2 DEF UttTyped
      <3>7. (utask.pc = "show" => utask.buf # <<>>)'
        BY <3>1, <3>6
      <3>8. (utask.pc \in {"synth", "audio"} => utask.todo # <<>>)'
        BY <3>1, <3>2 DEF UttTyped
      <3> QED BY <3>3, <3>4, <3>5, <3>7, <3>8 DEF UttTyped
    <2>3. UttCut' /\ UttSpeech'
      BY <2>1 DEF UttInv, UttCut, UttSpeech, U!SpeechCloses, U!Complete, U!At
    <2>4. UttText'
      BY <2>1 DEF UttInv, UttText
    <2> QED BY <2>2, <2>3, <2>4 DEF UttInv
  <1> QED BY <1>1, UttSpawn, UttBegin, UttTranscribe, UttFallback, UttHeard, UttToken, UttShow,
        UttStreamEnd, UttStreamFail, UttSpoken, UttStart, UttSynthesise, UttAudio, UttLlmDone,
        UttMedia, UttEnded, UttRaise, UttTimeout, UttCancel, UttCancelled DEF U!Next

-----------------------------------------------------------------------------
(* The backends: what is held back of a reply is said, and what is shown at work *)
(* is ended.                                                               *)

LlmTexts == Seq(L!Tokens \cup {L!Sorry})
LlmTurns ==
    [pc : {"idle", "named", "wait", "stream", "over", "told"}, retried : BOOLEAN,
     user : Turns \cup {None}, keys : SUBSET (Turns \cup {None}),
     got : Seq(L!Tokens), buf : Seq(L!Tokens), pass : BOOLEAN, said : LlmTexts,
     slots : SUBSET Slots, flushed : SUBSET Slots, heard : SUBSET Names,
     fired : SUBSET Names, pending : Seq(L!Tools), shown : Seq(L!Tools),
     cleared : Seq(L!Tools), of : {"main", "picker"},
     end : {None, "raised", "refused", "aborted", "done", "cut"},
     receipt : Turns \cup {None}]
LlmFields ==
    [key : Turns \cup {None}, idem : Turns \cup {None},
     usage : Turns \cup {None}, lock : Turns \cup {None}]
LlmTyped == kind \in Kinds /\ lturn \in [Turns -> LlmTurns] /\ llm \in LlmFields

\* The text said is the reply got from its k-th word on, but for the apologies.
Fillers(got, k) == \A j \in 1..k : got[j].filler
Apology == {<<>>, <<L!Sorry>>}
FromOn(got, k) == SubSeq(got, k + 1, Len(got))
SaidSoFar(said, got) ==
    \E k \in 0..Len(got), front \in Apology :
      Fillers(got, k) /\ said = front \o FromOn(got, k)
SaidOut(said, got) ==
    \E k \in 0..Len(got), front, back \in Apology :
      Fillers(got, k) /\ said = front \o FromOn(got, k) \o back

\* What is held back is all that was got, or nothing.
Holds(k, tr) == tr.of = "picker" \/ (k = "gateway" /\ ~tr.pass)
LlmWords(k, tr) ==
    /\ tr.pc \in {"idle", "named"} => tr.got = <<>> /\ tr.said = <<>> /\ tr.buf = <<>>
    /\ tr.pc \notin {"over", "told"} => tr.end = None
    /\ tr.of = "picker" => k = "dual"
    /\ tr.pc \notin {"over", "told"} =>
         IF Holds(k, tr) THEN tr.said = <<>> /\ tr.buf = tr.got
         ELSE tr.buf = <<>> /\ SaidSoFar(tr.said, tr.got)
    /\ tr.end \in {"done", "cut"} => SaidOut(tr.said, tr.got)

\* What has been shown is what was flushed and noticed, each once; it is ended or
\* pending.
Shown(tr) ==
    /\ tr.flushed \subseteq tr.slots /\ tr.fired \subseteq tr.heard
    /\ tr.shown = tr.cleared \o tr.pending
    /\ L!ToSet(tr.shown) = tr.flushed \cup tr.fired
    /\ Len(tr.shown) = Cardinality(tr.flushed \cup tr.fired)
Spins(k, tr) ==
    /\ Shown(tr)
    /\ k # "gateway" => tr.slots = {} /\ tr.heard = {}
    /\ tr.end \in {"done", "cut"} =>
         tr.pending = <<>> /\ tr.flushed = tr.slots /\ tr.fired = tr.heard

LlmInv == LlmTyped /\ \A t \in Turns : LlmWords(kind, lturn[t]) /\ Spins(kind, lturn[t])

-----------------------------------------------------------------------------
(* What is said.                                                           *)

\* A piece of a text, by its length and its elements.
LEMMA TakeFrom ==
    ASSUME NEW S, NEW s \in Seq(S), NEW i \in Nat, NEW n \in Nat, i + n <= Len(s)
    PROVE  /\ SubSeq(s, i + 1, i + n) \in Seq(S) /\ Len(SubSeq(s, i + 1, i + n)) = n
           /\ \A j \in 1..n : SubSeq(s, i + 1, i + n)[j] = s[i + j]
  <1> DEFINE from == i + 1
             to == i + n
  <1>1. \A j \in from..to : s[j] \in S
    OBVIOUS
  <1>2. /\ from \in Int /\ to \in Int /\ to - from + 1 = n
        /\ (IF from <= to THEN to - from + 1 ELSE 0) = n
        /\ \A j \in 1..n : from + j - 1 = i + j
    OBVIOUS
  <1> HIDE DEF from, to
  <1>3. /\ SubSeq(s, from, to) \in Seq(S)
        /\ Len(SubSeq(s, from, to)) = IF from <= to THEN to - from + 1 ELSE 0
        /\ \A j \in 1..(to - from + 1) : SubSeq(s, from, to)[j] = s[from + j - 1]
    BY <1>1, <1>2, SubSeqProperties
  <1>4. /\ SubSeq(s, from, to) \in Seq(S) /\ Len(SubSeq(s, from, to)) = n
        /\ \A j \in 1..n : SubSeq(s, from, to)[j] = s[i + j]
    BY <1>2, <1>3
  <1> QED BY <1>4 DEF from, to

\* A set of numbers has a least one.
LEMMA LeastOf ==
    ASSUME NEW S \in SUBSET Nat, S # {}
    PROVE  \E n \in S : \A m \in S : n <= m
  <1> DEFINE Less == OpToRel(<, Nat)
  <1>1. IsWellFoundedOn(Less, Nat)
    BY NatLessThanWellFounded
  <1>2. \A m, n \in Nat : <<m, n>> \in Less <=> m < n
    BY DEF OpToRel
  <1> HIDE DEF Less
  <1>3. PICK x \in S : \A y \in S : ~ (<<y, x>> \in Less)
    BY <1>1, WFMin
  <1>4. \A y \in S : ~ (y < x)
    BY <1>2, <1>3
  <1>5. \A y \in S : x <= y
    BY <1>4
  <1> QED BY <1>5

LEMMA FromOnIs ==
    ASSUME NEW got \in Seq(L!Tokens), NEW k \in 0..Len(got)
    PROVE  /\ FromOn(got, k) \in Seq(L!Tokens) /\ Len(FromOn(got, k)) = Len(got) - k
           /\ \A j \in 1..(Len(got) - k) : FromOn(got, k)[j] = got[k + j]
  <1>1. k \in Nat /\ Len(got) - k \in Nat /\ k + (Len(got) - k) = Len(got)
    OBVIOUS
  <1> DEFINE n == Len(got) - k
  <1>2. k \in Nat /\ n \in Nat /\ k + n <= Len(got) /\ FromOn(got, k) = SubSeq(got, k + 1, k + n)
    BY <1>1 DEF FromOn
  <1> HIDE DEF n
  <1>3. /\ SubSeq(got, k + 1, k + n) \in Seq(L!Tokens) /\ Len(SubSeq(got, k + 1, k + n)) = n
        /\ \A j \in 1..n : SubSeq(got, k + 1, k + n)[j] = got[k + j]
    BY <1>2, TakeFrom
  <1>4. /\ FromOn(got, k) \in Seq(L!Tokens) /\ Len(FromOn(got, k)) = n
        /\ \A j \in 1..n : FromOn(got, k)[j] = got[k + j]
    BY <1>2, <1>3
  <1> QED BY <1>4 DEF n

LEMMA TextIn ==
    /\ \A s \in Seq(L!Tokens) : s \in LlmTexts
    /\ \A s \in LlmTexts : <<>> \o s = s /\ s \o <<>> = s
    /\ \A s \in LlmTexts : Append(s, L!Sorry) = s \o <<L!Sorry>> /\ Append(s, L!Sorry) \in LlmTexts
    /\ <<>> \in LlmTexts /\ <<L!Sorry>> \in LlmTexts
  BY DEF LlmTexts

LEMMA SaidHeld ==
    ASSUME NEW got \in Seq(L!Tokens)
    PROVE  SaidSoFar(got, got)
  <1>1. 0 \in 0..Len(got) /\ Len(got) - 0 = Len(got)
    OBVIOUS
  <1>2. FromOn(got, 0) = got
    <2> DEFINE u == FromOn(got, 0)
    <2>1. /\ u \in Seq(L!Tokens) /\ Len(u) = Len(got) - 0
          /\ \A j \in 1..(Len(got) - 0) : u[j] = got[0 + j]
      BY <1>1, FromOnIs
    <2> HIDE DEF u
    <2>2. Len(u) = Len(got) /\ \A j \in 1..Len(u) : u[j] = got[j]
      BY <2>1
    <2>3. u = got
      BY <2>1, <2>2, SeqEqual
    <2> QED BY <2>3 DEF u
  <1>3. <<>> \o got = got
    BY TextIn
  <1>4. Fillers(got, 0) /\ <<>> \in Apology
    BY DEF Fillers, Apology
  <1> QED BY <1>1, <1>2, <1>3, <1>4 DEF SaidSoFar

LEMMA SaidNext ==
    ASSUME NEW got \in Seq(L!Tokens), NEW w \in L!Tokens, NEW said, SaidSoFar(said, got)
    PROVE  SaidSoFar(Append(said, w), Append(got, w))
  <1>1. PICK k \in 0..Len(got), front \in Apology :
          Fillers(got, k) /\ said = front \o FromOn(got, k)
    BY DEF SaidSoFar
  <1> DEFINE more == Append(got, w)
             rest == FromOn(got, k)
             next == FromOn(more, k)
  <1>2. /\ more \in Seq(L!Tokens) /\ Len(more) = Len(got) + 1 /\ k \in 0..Len(more)
        /\ \A j \in 1..Len(got) : more[j] = got[j]
        /\ more[Len(got) + 1] = w /\ k \in Nat /\ Len(got) \in Nat
    OBVIOUS
  <1>3. rest \in Seq(L!Tokens) /\ Len(rest) = Len(got) - k
        /\ \A j \in 1..(Len(got) - k) : rest[j] = got[k + j]
    BY FromOnIs
  <1> HIDE DEF more
  <1>4. next \in Seq(L!Tokens) /\ Len(next) = Len(got) + 1 - k
        /\ \A j \in 1..(Len(got) + 1 - k) : next[j] = more[k + j]
    <2>1. next \in Seq(L!Tokens) /\ Len(next) = Len(more) - k
          /\ \A j \in 1..(Len(more) - k) : next[j] = more[k + j]
      BY <1>2, FromOnIs
    <2>2. Len(more) - k = Len(got) + 1 - k
      BY <1>2
    <2> QED BY <2>1, <2>2
  <1> HIDE DEF rest, next
  <1>5. next = Append(rest, w)
    <2> DEFINE a == Append(rest, w)
    <2>1. /\ a \in Seq(L!Tokens) /\ Len(a) = Len(got) - k + 1
          /\ \A j \in 1..(Len(got) - k) : a[j] = rest[j]
          /\ a[Len(got) - k + 1] = w
      BY <1>3
    <2> HIDE DEF a
    <2>2. ASSUME NEW j \in 1..Len(next) PROVE next[j] = a[j]
      <3>1. CASE j \in 1..(Len(got) - k)
        <4>1. k + j \in 1..Len(got)
          BY <1>2, <3>1
        <4> QED BY <1>2, <1>3, <1>4, <2>1, <3>1, <4>1
      <3>2. CASE j = Len(got) - k + 1
        <4>1. k + j = Len(got) + 1 /\ j \in 1..(Len(got) + 1 - k)
          BY <1>2, <3>2
        <4>2. next[j] = more[Len(got) + 1]
          <5>1. next[j] = more[k + j]
            BY <1>4, <4>1
          <5> QED BY <4>1, <5>1
        <4>3. more[Len(got) + 1] = w
          BY <1>2
        <4>4. a[Len(got) - k + 1] = w
          BY <2>1
        <4>5. a[j] = w
          BY <3>2, <4>4, Zenon
        <4> QED BY <4>2, <4>3, <4>5, Zenon
      <3> QED BY <1>2, <1>4, <3>1, <3>2
    <2>3. Len(a) = Len(next)
      BY <1>2, <1>4, <2>1
    <2>4. next = a
      BY <1>4, <2>1, <2>2, <2>3, SeqEqual
    <2> QED BY <2>4 DEF a
  <1>6. Append(front \o rest, w) = front \o Append(rest, w)
    <2>1. front \in LlmTexts /\ rest \in LlmTexts /\ w \in L!Tokens \cup {L!Sorry}
      BY <1>3, TextIn DEF Apology
    <2>2. front \o rest \in LlmTexts /\ <<w>> \in LlmTexts
      BY <2>1, ConcatProperties DEF LlmTexts
    <2>3. Append(front \o rest, w) = (front \o rest) \o <<w>>
      BY <2>1, <2>2, AppendIsConcat DEF LlmTexts
    <2>4. Append(rest, w) = rest \o <<w>>
      BY <2>1, AppendIsConcat DEF LlmTexts
    <2>5. (front \o rest) \o <<w>> = front \o (rest \o <<w>>)
      BY <2>1, <2>2, ConcatAssociative DEF LlmTexts
    <2> QED BY <2>3, <2>4, <2>5
  <1>7. Fillers(more, k)
    <2>1. ASSUME NEW j \in 1..k PROVE more[j] = got[j] /\ got[j].filler
      <3>1. j \in 1..Len(got)
        OBVIOUS
      <3> QED BY <1>1, <1>2, <3>1 DEF Fillers
    <2> QED BY <2>1 DEF Fillers
  <1>8. Append(said, w) = front \o next
    BY <1>1, <1>5, <1>6 DEF rest
  <1> QED BY <1>2, <1>7, <1>8 DEF SaidSoFar, more, next

\* What is cleaned is all but fillers in front, or an apology for nothing but fillers.
LEMMA Cleaned ==
    ASSUME NEW buf \in Seq(L!Tokens)
    PROVE  SaidSoFar(L!Sanitize(buf), buf) /\ L!Sanitize(buf) \in LlmTexts
  <1> DEFINE word == {i \in DOMAIN buf : ~buf[i].filler}
             first == CHOOSE i \in word : \A j \in word : i <= j
  <1>1. DOMAIN buf = 1..Len(buf) /\ Len(buf) \in Nat
    OBVIOUS
  <1>2. L!Sanitize(buf) = IF word = {} THEN <<L!Sorry>> ELSE SubSeq(buf, first, Len(buf))
    BY DEF L!Sanitize
  <1>3. CASE word = {}
    <2>1. Fillers(buf, Len(buf))
      BY <1>1, <1>3 DEF Fillers
    <2> DEFINE none == FromOn(buf, Len(buf))
    <2>2. none \in Seq(L!Tokens) /\ Len(none) = 0
      <3>1. Len(buf) \in 0..Len(buf) /\ Len(buf) - Len(buf) = 0
        BY <1>1
      <3> QED BY <3>1, FromOnIs
    <2> HIDE DEF none
    <2>3. none = <<>>
      BY <2>2
    <2>4. <<L!Sorry>> = <<L!Sorry>> \o none /\ <<L!Sorry>> \in Apology
      BY <2>3, TextIn DEF Apology
    <2>5. Len(buf) \in 0..Len(buf)
      BY <1>1
    <2> QED BY <1>2, <1>3, <2>1, <2>4, <2>5, TextIn DEF SaidSoFar, none
  <1>4. CASE word # {}
    <2>1. \E i \in word : \A j \in word : i <= j
      <3>1. word \in SUBSET Nat
        BY <1>1
      <3> HIDE DEF word
      <3> QED BY <1>4, <3>1, LeastOf
    <2>2. first \in word /\ \A j \in word : first <= j
      <3> HIDE DEF word
      <3> QED BY <2>1
    <2>3. first \in 1..Len(buf) /\ \A j \in 1..Len(buf) : ~buf[j].filler => first <= j
      BY <1>1, <2>2
    <2> HIDE DEF word, first
    <2>4. first - 1 \in 0..Len(buf) /\ first - 1 + 1 = first
      BY <1>1, <2>3
    <2>5. Fillers(buf, first - 1)
      BY <1>1, <2>3 DEF Fillers
    <2>6. L!Sanitize(buf) = FromOn(buf, first - 1)
      BY <1>2, <1>4, <2>4 DEF FromOn
    <2>7. FromOn(buf, first - 1) \in LlmTexts
      BY <2>4, FromOnIs, TextIn
    <2>8. <<>> \o FromOn(buf, first - 1) = FromOn(buf, first - 1) /\ <<>> \in Apology
      BY <2>7, TextIn DEF Apology
    <2> QED BY <2>4, <2>5, <2>6, <2>7, <2>8 DEF SaidSoFar
  <1> QED BY <1>3, <1>4

\* At the end there may be one more apology.
LEMMA SaidEnds ==
    ASSUME NEW said \in LlmTexts, NEW got \in Seq(L!Tokens), SaidSoFar(said, got)
    PROVE  SaidOut(said, got) /\ SaidOut(Append(said, L!Sorry), got)
  <1>1. PICK k \in 0..Len(got), front \in Apology :
          Fillers(got, k) /\ said = front \o FromOn(got, k)
    BY DEF SaidSoFar
  <1>2. said = said \o <<>> /\ Append(said, L!Sorry) = said \o <<L!Sorry>>
    BY TextIn
  <1>3. <<>> \in Apology /\ <<L!Sorry>> \in Apology
    BY DEF Apology
  <1>4. said = front \o FromOn(got, k) \o <<>>
    BY <1>1, <1>2
  <1>5. Append(said, L!Sorry) = front \o FromOn(got, k) \o <<L!Sorry>>
    BY <1>1, <1>2
  <1> QED BY <1>1, <1>3, <1>4, <1>5 DEF SaidOut

-----------------------------------------------------------------------------
(* What is shown.                                                          *)

LEMMA LlmSameSets ==
    /\ \A S : L!Cardinality(S) = Cardinality(S)
    /\ \A S : L!IsFiniteSet(S) <=> IsFiniteSet(S)
  BY DEF L!Cardinality, Cardinality, L!IsFiniteSet, IsFiniteSet

LEMMA ListOf ==
    ASSUME NEW S, IsFiniteSet(S)
    PROVE  /\ L!SetToSeq(S) \in Seq(S) /\ Len(L!SetToSeq(S)) = Cardinality(S)
           /\ L!ToSet(L!SetToSeq(S)) = S
  <1> DEFINE n == Cardinality(S)
             s == L!SetToSeq(S)
  <1>1. n \in Nat /\ ExistsBijection(1..n, S)
    BY FS_CardinalityType
  <1>2. s = CHOOSE f \in [1..n -> S] : IsInjective(f)
    BY LlmSameSets DEF L!SetToSeq, L!IsInjective, IsInjective
  <1> HIDE DEF n, s
  <1>3. \E f \in [1..n -> S] : IsInjective(f)
    BY <1>1 DEF ExistsBijection, Bijection, Injection
  <1>4. s \in [1..n -> S] /\ IsInjective(s)
    BY <1>2, <1>3
  <1>5. s \in Injection(1..n, S)
    BY <1>4 DEF Injection
  <1>6. Cardinality(1..n) = n
    BY <1>1, FS_Interval
  <1>7. s \in Surjection(1..n, S)
    BY <1>5, <1>6, FS_Injection DEF n
  <1>8. s \in Seq(S) /\ Len(s) = n
    <2>1. \A m \in Nat : s \in [1..m -> S] => s \in Seq(S) /\ Len(s) = m
      OBVIOUS
    <2> QED BY <1>1, <1>4, <2>1
  <1>9. L!ToSet(s) = S
    BY <1>4, <1>7 DEF L!ToSet, Surjection
  <1> QED BY <1>8, <1>9 DEF n, s

LEMMA ToolsJoin ==
    ASSUME NEW s \in Seq(L!Tools), NEW t \in Seq(L!Tools)
    PROVE  L!ToSet(s \o t) = L!ToSet(s) \cup L!ToSet(t)
  <1>1. /\ L!ToSet(s) = {s[k] : k \in 1..Len(s)} /\ L!ToSet(t) = {t[k] : k \in 1..Len(t)}
        /\ L!ToSet(s \o t) = {(s \o t)[k] : k \in 1..(Len(s) + Len(t))}
    BY DEF L!ToSet
  <1>2. \A k \in 1..(Len(s) + Len(t)) :
          (s \o t)[k] = IF k <= Len(s) THEN s[k] ELSE t[k - Len(s)]
    BY ConcatProperties
  <1>3. ASSUME NEW k \in 1..(Len(s) + Len(t))
        PROVE  (s \o t)[k] \in L!ToSet(s) \cup L!ToSet(t)
    <2>1. CASE k <= Len(s)
      <3>1. k \in 1..Len(s)
        BY <2>1
      <3> QED BY <1>1, <1>2, <2>1, <3>1
    <2>2. CASE k > Len(s)
      <3>1. k - Len(s) \in 1..Len(t) /\ ~(k <= Len(s))
        BY <2>2
      <3> QED BY <1>1, <1>2, <3>1
    <2> QED BY <2>1, <2>2
  <1>4. ASSUME NEW k \in 1..Len(s) PROVE s[k] \in L!ToSet(s \o t)
    <2>1. k \in 1..(Len(s) + Len(t)) /\ (s \o t)[k] = s[k]
      BY <1>2
    <2> QED BY <1>1, <2>1
  <1>5. ASSUME NEW k \in 1..Len(t) PROVE t[k] \in L!ToSet(s \o t)
    <2>1. Len(s) + k \in 1..(Len(s) + Len(t)) /\ ~(Len(s) + k <= Len(s)) /\ (Len(s) + k) - Len(s) = k
      OBVIOUS
    <2>2. (s \o t)[Len(s) + k] = t[k]
      BY <1>2, <2>1
    <2> QED BY <1>1, <2>1, <2>2
  <1> HIDE DEF L!ToSet
  <1> QED BY <1>1, <1>3, <1>4, <1>5
LEMMA EndApart == None \notin {"done", "cut"}
  BY LlmAssumption

\* The tools of this instance are finitely many, and no delta's index is a name.
LEMMA ToolSets ==
    ASSUME NEW S \in SUBSET L!Tools
    PROVE  IsFiniteSet(S) /\ Slots \cap Names = {} /\ L!Tools = Slots \cup Names
  <1>1. IsFiniteSet(Slots) /\ IsFiniteSet(Names) /\ Slots \cap Names = {}
    BY LlmAssumption, LlmSameSets DEF L!ToolsAssumption
  <1>2. L!Tools = Slots \cup Names
    BY DEF L!Tools
  <1>3. IsFiniteSet(L!Tools)
    BY <1>1, <1>2, FS_Union
  <1> QED BY <1>1, <1>2, <1>3, FS_Subset

\* What of a turn the text depends on.
Same(a, b) ==
    /\ a.pc = b.pc /\ a.got = b.got /\ a.said = b.said /\ a.buf = b.buf
    /\ a.end = b.end /\ a.of = b.of /\ a.pass = b.pass

\* Tools that have not been shown.
Unseen(S, tr) == S \cap (tr.flushed \cup tr.fired) = {}

\* What is shown in addition is shown once, if it was not shown before.
LEMMA EmitIs ==
    ASSUME NEW tr \in LlmTurns, Shown(tr), NEW S \in SUBSET L!Tools,
           Unseen(S, tr), NEW e, e = L!Emit(tr, L!SetToSeq(S))
    PROVE  /\ e \in LlmTurns /\ Same(e, tr) /\ e.slots = tr.slots /\ e.heard = tr.heard
           /\ e.flushed = tr.flushed /\ e.fired = tr.fired
           /\ e.shown = e.cleared \o e.pending
           /\ L!ToSet(e.shown) = tr.flushed \cup tr.fired \cup S
           /\ Len(e.shown) = Cardinality(tr.flushed \cup tr.fired \cup S)
  <1> DEFINE new == L!SetToSeq(S)
             all == tr.flushed \cup tr.fired
  <1>1. IsFiniteSet(S)
    BY ToolSets
  <1>2. new \in Seq(S) /\ Len(new) = Cardinality(S) /\ L!ToSet(new) = S
    BY <1>1, ListOf
  <1>3. new \in Seq(L!Tools)
    BY <1>2
  <1>4. /\ tr.shown \in Seq(L!Tools) /\ tr.pending \in Seq(L!Tools)
        /\ tr.cleared \in Seq(L!Tools) /\ all \subseteq L!Tools
    BY DEF LlmTurns, L!Tools
  <1>5. e = [tr EXCEPT !.shown = @ \o new, !.pending = @ \o new]
    BY DEF L!Emit
  <1> HIDE DEF new
  <1>6. tr.shown \o new \in Seq(L!Tools) /\ tr.pending \o new \in Seq(L!Tools)
    BY <1>3, <1>4, ConcatProperties
  <1>7. /\ e \in LlmTurns /\ Same(e, tr) /\ e.slots = tr.slots /\ e.heard = tr.heard
        /\ e.flushed = tr.flushed /\ e.fired = tr.fired /\ e.cleared = tr.cleared
        /\ e.shown = tr.shown \o new /\ e.pending = tr.pending \o new
    BY <1>5, <1>6, ZenonT(60) DEF LlmTurns, Same
  <1>8. e.shown = e.cleared \o e.pending
    <2>1. (tr.cleared \o tr.pending) \o new = tr.cleared \o (tr.pending \o new)
      <3>1. \A a, b, c \in Seq(L!Tools) : (a \o b) \o c = a \o (b \o c)
        BY ConcatAssociative
      <3> QED BY <1>3, <1>4, <3>1, Zenon
    <2>2. tr.shown = tr.cleared \o tr.pending
      BY DEF Shown
    <2> QED BY <1>7, <2>1, <2>2
  <1>9. L!ToSet(e.shown) = all \cup S
    <2>1. L!ToSet(tr.shown \o new) = L!ToSet(tr.shown) \cup L!ToSet(new)
      BY <1>3, <1>4, ToolsJoin
    <2>2. L!ToSet(tr.shown) = all
      BY DEF Shown
    <2> QED BY <1>2, <1>7, <2>1, <2>2
  <1>10. Len(e.shown) = Cardinality(all \cup S)
    <2>1. IsFiniteSet(all)
      BY <1>4, ToolSets
    <2>2. all \cap S = {}
      BY DEF Unseen
    <2> HIDE DEF all
    <2>3. Cardinality(all \cap S) = 0
      BY <2>2, FS_EmptySet
    <2>4. Cardinality(all \cup S) = Cardinality(all) + Cardinality(S) - Cardinality(all \cap S)
      BY <1>1, <2>1, FS_Union
    <2>5. Cardinality(all) \in Nat /\ Cardinality(S) \in Nat
      BY <1>1, <2>1, FS_CardinalityType
    <2>6. Cardinality(all \cup S) = Cardinality(all) + Cardinality(S)
      BY <2>3, <2>4, <2>5
    <2>7. Len(tr.shown \o new) = Len(tr.shown) + Len(new)
      BY <1>3, <1>4, ConcatProperties
    <2>8. Len(tr.shown) = Cardinality(all)
      BY DEF Shown, all
    <2> QED BY <1>2, <1>7, <2>6, <2>7, <2>8
  <1> QED BY <1>7, <1>8, <1>9, <1>10

LEMMA FlushShows ==
    ASSUME NEW tr \in LlmTurns, Shown(tr), NEW e, e = L!Flush(tr)
    PROVE  /\ e \in LlmTurns /\ Same(e, tr) /\ Shown(e) /\ e.slots = tr.slots
           /\ e.heard = tr.heard /\ e.flushed = tr.slots /\ e.fired = tr.fired
  <1>0. PICK S : S = tr.slots \ tr.flushed
    OBVIOUS
  <1>1. /\ tr.slots \subseteq Slots /\ tr.fired \subseteq Names
        /\ tr.flushed \subseteq tr.slots /\ tr.fired \subseteq tr.heard
    BY DEF LlmTurns, Shown
  <1>2. Slots \cap Names = {} /\ L!Tools = Slots \cup Names
    BY ToolSets
  <1>3. S \in SUBSET L!Tools /\ Unseen(S, tr)
    BY <1>0, <1>1, <1>2 DEF Unseen
  <1>4. e = [L!Emit(tr, L!SetToSeq(S)) EXCEPT !.flushed = @ \cup tr.slots]
    BY <1>0 DEF L!Flush
  <1>5. tr.flushed \cup tr.fired \cup S = tr.slots \cup tr.fired /\ tr.flushed \cup tr.slots = tr.slots
    BY <1>0, <1>1
  <1>6. PICK d : d = L!Emit(tr, L!SetToSeq(S))
    OBVIOUS
  <1>7. /\ d \in LlmTurns /\ Same(d, tr) /\ d.slots = tr.slots /\ d.heard = tr.heard
        /\ d.flushed = tr.flushed /\ d.fired = tr.fired
        /\ d.shown = d.cleared \o d.pending
        /\ L!ToSet(d.shown) = tr.flushed \cup tr.fired \cup S
        /\ Len(d.shown) = Cardinality(tr.flushed \cup tr.fired \cup S)
    BY <1>3, <1>6, EmitIs, ZenonT(60)
  <1>8. e = [d EXCEPT !.flushed = tr.slots]
    BY <1>4, <1>5, <1>6, <1>7
  <1>9. /\ e \in LlmTurns /\ Same(e, d) /\ e.slots = d.slots /\ e.heard = d.heard
        /\ e.flushed = tr.slots /\ e.fired = d.fired /\ e.shown = d.shown
        /\ e.cleared = d.cleared /\ e.pending = d.pending
    BY <1>1, <1>7, <1>8 DEF LlmTurns, Same
  <1>10. Same(e, tr)
    BY <1>7, <1>9 DEF Same
  <1>11. Shown(e)
    BY <1>1, <1>5, <1>7, <1>9 DEF Shown
  <1> QED BY <1>7, <1>9, <1>10, <1>11

LEMMA ScanShows ==
    ASSUME NEW tr \in LlmTurns, Shown(tr), NEW e, e = L!Scan(tr)
    PROVE  /\ e \in LlmTurns /\ Same(e, tr) /\ Shown(e) /\ e.slots = tr.slots
           /\ e.heard = tr.heard /\ e.flushed = tr.flushed /\ e.fired = tr.heard
  <1>0. PICK S : S = tr.heard \ tr.fired
    OBVIOUS
  <1>1. /\ tr.slots \subseteq Slots /\ tr.heard \subseteq Names
        /\ tr.flushed \subseteq tr.slots /\ tr.fired \subseteq tr.heard
    BY DEF LlmTurns, Shown
  <1>2. Slots \cap Names = {} /\ L!Tools = Slots \cup Names
    BY ToolSets
  <1>3. S \in SUBSET L!Tools /\ Unseen(S, tr)
    BY <1>0, <1>1, <1>2 DEF Unseen
  <1>4. e = [L!Emit(tr, L!SetToSeq(S)) EXCEPT !.fired = @ \cup tr.heard]
    BY <1>0 DEF L!Scan
  <1>5. tr.flushed \cup tr.fired \cup S = tr.flushed \cup tr.heard /\ tr.fired \cup tr.heard = tr.heard
    BY <1>0, <1>1
  <1>6. PICK d : d = L!Emit(tr, L!SetToSeq(S))
    OBVIOUS
  <1>7. /\ d \in LlmTurns /\ Same(d, tr) /\ d.slots = tr.slots /\ d.heard = tr.heard
        /\ d.flushed = tr.flushed /\ d.fired = tr.fired
        /\ d.shown = d.cleared \o d.pending
        /\ L!ToSet(d.shown) = tr.flushed \cup tr.fired \cup S
        /\ Len(d.shown) = Cardinality(tr.flushed \cup tr.fired \cup S)
    BY <1>3, <1>6, EmitIs, ZenonT(60)
  <1>8. e = [d EXCEPT !.fired = tr.heard]
    BY <1>4, <1>5, <1>6, <1>7
  <1>9. /\ e \in LlmTurns /\ Same(e, d) /\ e.slots = d.slots /\ e.heard = d.heard
        /\ e.flushed = d.flushed /\ e.fired = tr.heard /\ e.shown = d.shown
        /\ e.cleared = d.cleared /\ e.pending = d.pending
    BY <1>1, <1>7, <1>8 DEF LlmTurns, Same
  <1>10. Same(e, tr)
    BY <1>7, <1>9 DEF Same
  <1>11. Shown(e)
    BY <1>1, <1>5, <1>7, <1>9 DEF Shown
  <1> QED BY <1>7, <1>9, <1>10, <1>11

LEMMA ResultsShow ==
    ASSUME NEW tr \in LlmTurns, Shown(tr), NEW e, e = L!Results(tr)
    PROVE  /\ e \in LlmTurns /\ Same(e, tr) /\ Shown(e) /\ e.slots = tr.slots
           /\ e.heard = tr.heard /\ e.flushed = tr.flushed /\ e.fired = tr.fired
           /\ e.pending = <<>>
  <1>1. tr.pending \in Seq(L!Tools) /\ tr.cleared \in Seq(L!Tools)
    BY DEF LlmTurns
  <1>2. tr.cleared \o tr.pending \in Seq(L!Tools) /\ <<>> \in Seq(L!Tools)
    BY <1>1, ConcatProperties
  <1>3. e = [tr EXCEPT !.cleared = @ \o tr.pending, !.pending = <<>>]
    BY DEF L!Results
  <1>4. /\ e \in LlmTurns /\ Same(e, tr) /\ e.slots = tr.slots /\ e.heard = tr.heard
        /\ e.flushed = tr.flushed /\ e.fired = tr.fired /\ e.shown = tr.shown
        /\ e.cleared = tr.cleared \o tr.pending /\ e.pending = <<>>
    <2>1. PICK c \in Seq(L!Tools) : c = tr.cleared \o tr.pending
      BY <1>2
    <2>2. PICK n \in Seq(L!Tools) : n = <<>>
      BY <1>2
    <2>3. e = [tr EXCEPT !.cleared = c, !.pending = n]
      BY <1>3, <2>1, <2>2
    <2>4. /\ e \in LlmTurns /\ Same(e, tr) /\ e.slots = tr.slots /\ e.heard = tr.heard
          /\ e.flushed = tr.flushed /\ e.fired = tr.fired /\ e.shown = tr.shown
          /\ e.cleared = c /\ e.pending = n
      BY <2>3, ZenonT(60) DEF LlmTurns, Same
    <2> QED BY <2>1, <2>2, <2>4
  <1>5. (tr.cleared \o tr.pending) \o <<>> = tr.cleared \o tr.pending
    BY <1>2
  <1>6. Shown(e)
    <2>1. e.shown = e.cleared \o e.pending
      BY <1>4, <1>5 DEF Shown
    <2> QED BY <1>4, <2>1 DEF Shown
  <1> QED BY <1>4, <1>6

LEMMA EndingShows ==
    ASSUME NEW tr \in LlmTurns, Shown(tr), NEW e, e = L!Ending(tr)
    PROVE  /\ e \in LlmTurns /\ Same(e, tr) /\ Shown(e) /\ e.slots = tr.slots
           /\ e.heard = tr.heard /\ e.flushed = tr.slots /\ e.fired = tr.heard
           /\ e.pending = <<>>
  <1>1. PICK a : a = L!Scan(tr)
    OBVIOUS
  <1>2. PICK b : b = L!Flush(a)
    OBVIOUS
  <1>3. /\ a \in LlmTurns /\ Same(a, tr) /\ Shown(a) /\ a.slots = tr.slots
        /\ a.heard = tr.heard /\ a.fired = tr.heard
    BY <1>1, ScanShows
  <1>4. /\ b \in LlmTurns /\ Same(b, a) /\ Shown(b) /\ b.slots = tr.slots
        /\ b.heard = tr.heard /\ b.flushed = tr.slots /\ b.fired = tr.heard
    BY <1>2, <1>3, FlushShows
  <1>5. e = L!Results(b)
    BY <1>1, <1>2 DEF L!Ending
  <1>6. /\ e \in LlmTurns /\ Same(e, b) /\ Shown(e) /\ e.slots = tr.slots
        /\ e.heard = tr.heard /\ e.flushed = tr.slots /\ e.fired = tr.heard
        /\ e.pending = <<>>
    BY <1>4, <1>5, ResultsShow
  <1>7. Same(e, tr)
    BY <1>3, <1>4, <1>6 DEF Same
  <1> QED BY <1>6, <1>7

-----------------------------------------------------------------------------
(* The steps of a turn.                                                    *)

LEMMA LlmPut ==
    ASSUME LlmInv, NEW t \in Turns, NEW x \in LlmTurns, L!Set(t, x), kind' = kind,
           llm' \in LlmFields, LlmWords(kind, x), Spins(kind, x)
    PROVE  LlmInv'
  <1>1. PICK f : f = lturn'
    OBVIOUS
  <1>2. PICK k : k = kind
    OBVIOUS
  <1>3. lturn \in [Turns -> LlmTurns] /\ lturn' = [lturn EXCEPT ![t] = x]
    BY DEF LlmInv, LlmTyped, L!Set
  <1>4. f \in [Turns -> LlmTurns] /\ \A u \in Turns : f[u] = IF u = t THEN x ELSE lturn[u]
    BY <1>1, <1>3
  <1>5. \A u \in Turns : LlmWords(k, lturn[u]) /\ Spins(k, lturn[u])
    BY <1>2 DEF LlmInv
  <1>6. ASSUME NEW u \in Turns PROVE LlmWords(k, f[u]) /\ Spins(k, f[u])
    BY <1>2, <1>4, <1>5
  <1>7. LlmTyped'
    BY <1>1, <1>4 DEF LlmInv, LlmTyped
  <1>8. \A u \in Turns : LlmWords(kind', lturn'[u]) /\ Spins(kind', lturn'[u])
    BY <1>1, <1>2, <1>6
  <1> QED BY <1>7, <1>8 DEF LlmInv

LEMMA LlmAt ==
    ASSUME LlmInv, NEW t \in Turns
    PROVE  /\ lturn[t] \in LlmTurns /\ LlmWords(kind, lturn[t]) /\ Spins(kind, lturn[t])
           /\ llm \in LlmFields /\ kind \in Kinds
  BY DEF LlmInv, LlmTyped

\* What is shown stays as it is.
SameShown(a, b) ==
    /\ a.slots = b.slots /\ a.heard = b.heard /\ a.flushed = b.flushed
    /\ a.fired = b.fired /\ a.shown = b.shown /\ a.cleared = b.cleared
    /\ a.pending = b.pending

LEMMA SpinsStay ==
    ASSUME NEW k, NEW a, NEW b, Spins(k, b), SameShown(a, b),
           a.end = b.end \/ a.end \notin {"done", "cut"}
    PROVE  Spins(k, a)
  BY DEF Spins, Shown, SameShown

LEMMA LlmName == ASSUME LlmInv, NEW t \in Turns, L!Name(t) PROVE LlmInv'
  <1>1. PICK tr : tr = lturn[t]
    OBVIOUS
  <1>2. PICK x : x = [tr EXCEPT !.pc = "named"]
    OBVIOUS
  <1>3. /\ tr \in LlmTurns /\ LlmWords(kind, tr) /\ Spins(kind, tr) /\ tr.pc = "idle"
        /\ L!Set(t, x) /\ kind' = kind /\ llm' \in LlmFields
    BY <1>1, <1>2, LlmAt DEF L!Name, LlmFields
  <1>4. /\ x \in LlmTurns /\ SameShown(x, tr) /\ LlmWords(kind, x)
        /\ x.end = tr.end \/ x.end \notin {"done", "cut"}
    BY <1>2, <1>3 DEF LlmTurns, SameShown, LlmWords, Holds
  <1> QED BY <1>3, <1>4, LlmPut, SpinsStay

LEMMA LlmHealthy == ASSUME LlmInv, NEW t \in Turns, L!Healthy(t) PROVE LlmInv'
  <1>1. PICK tr : tr = lturn[t]
    OBVIOUS
  <1>2. PICK x : x = [tr EXCEPT !.pc = "wait", !.user = llm.key]
    OBVIOUS
  <1>3. /\ tr \in LlmTurns /\ LlmWords(kind, tr) /\ Spins(kind, tr) /\ tr.pc = "named"
        /\ L!Set(t, x) /\ kind' = kind /\ llm' \in LlmFields
        /\ llm.key \in Turns \cup {None}
    BY <1>1, <1>2, LlmAt DEF L!Healthy, LlmFields
  <1>4. /\ x \in LlmTurns /\ SameShown(x, tr) /\ LlmWords(kind, x)
        /\ x.end = tr.end \/ x.end \notin {"done", "cut"}
    BY <1>2, <1>3 DEF LlmTurns, SameShown, LlmWords, Holds
  <1> QED BY <1>3, <1>4, LlmPut, SpinsStay

LEMMA LlmUnhealthy == ASSUME LlmInv, NEW t \in Turns, L!Unhealthy(t) PROVE LlmInv'
  <1>1. PICK tr : tr = lturn[t]
    OBVIOUS
  <1>2. PICK x : x = [tr EXCEPT !.pc = "over", !.end = "raised"]
    OBVIOUS
  <1>3. /\ tr \in LlmTurns /\ LlmWords(kind, tr) /\ Spins(kind, tr) /\ tr.pc = "named"
        /\ L!Set(t, x) /\ kind' = kind /\ llm' \in LlmFields
    BY <1>1, <1>2, LlmAt DEF L!Unhealthy, LlmFields
  <1>4. /\ x \in LlmTurns /\ SameShown(x, tr) /\ LlmWords(kind, x)
        /\ x.end = tr.end \/ x.end \notin {"done", "cut"}
    BY <1>2, <1>3 DEF LlmTurns, SameShown, LlmWords, Holds
  <1> QED BY <1>3, <1>4, LlmPut, SpinsStay

LEMMA LlmOpened == ASSUME LlmInv, NEW t \in Turns, L!Opened(t) PROVE LlmInv'
  <1>1. PICK tr : tr = lturn[t]
    OBVIOUS
  <1>2. PICK x : x = [tr EXCEPT !.pc = "stream"]
    OBVIOUS
  <1>3. /\ tr \in LlmTurns /\ LlmWords(kind, tr) /\ Spins(kind, tr) /\ tr.pc = "wait"
        /\ L!Set(t, x) /\ kind' = kind /\ llm' \in LlmFields
    BY <1>1, <1>2, LlmAt DEF L!Opened, LlmFields
  <1>4. /\ x \in LlmTurns /\ SameShown(x, tr) /\ LlmWords(kind, x)
        /\ x.end = tr.end \/ x.end \notin {"done", "cut"}
    BY <1>2, <1>3 DEF LlmTurns, SameShown, LlmWords, Holds
  <1> QED BY <1>3, <1>4, LlmPut, SpinsStay

LEMMA LlmAgain == ASSUME LlmInv, NEW t \in Turns, L!Again(t) PROVE LlmInv'
  <1>1. PICK tr : tr = lturn[t]
    OBVIOUS
  <1>2. PICK x : x = [tr EXCEPT !.retried = TRUE, !.keys = @ \cup {llm.idem}]
    OBVIOUS
  <1>3. /\ tr \in LlmTurns /\ LlmWords(kind, tr) /\ Spins(kind, tr) /\ tr.pc = "wait"
        /\ L!Set(t, x) /\ kind' = kind /\ llm' \in LlmFields
        /\ llm.idem \in Turns \cup {None}
    BY <1>1, <1>2, LlmAt DEF L!Again, LlmFields
  <1>4. /\ x \in LlmTurns /\ SameShown(x, tr) /\ LlmWords(kind, x)
        /\ x.end = tr.end \/ x.end \notin {"done", "cut"}
    BY <1>2, <1>3 DEF LlmTurns, SameShown, LlmWords, Holds
  <1> QED BY <1>3, <1>4, LlmPut, SpinsStay

LEMMA LlmReceipt == ASSUME LlmInv, NEW t \in Turns, L!Receipt(t) PROVE LlmInv'
  <1>1. PICK tr : tr = lturn[t]
    OBVIOUS
  <1>2. PICK x : x = [tr EXCEPT !.pc = "told", !.receipt = llm.usage]
    OBVIOUS
  <1>3. /\ tr \in LlmTurns /\ LlmWords(kind, tr) /\ Spins(kind, tr) /\ tr.pc = "over"
        /\ L!Set(t, x) /\ kind' = kind /\ llm' \in LlmFields
        /\ llm.usage \in Turns \cup {None}
    BY <1>1, <1>2, LlmAt DEF L!Receipt, LlmFields
  <1>4. /\ x \in LlmTurns /\ SameShown(x, tr) /\ LlmWords(kind, x)
        /\ x.end = tr.end \/ x.end \notin {"done", "cut"}
    BY <1>2, <1>3 DEF LlmTurns, SameShown, LlmWords, Holds
  <1> QED BY <1>3, <1>4, LlmPut, SpinsStay

LEMMA LlmUsage == ASSUME LlmInv, NEW t \in Turns, L!Usage(t) PROVE LlmInv'
  <1>1. lturn' = lturn /\ kind' = kind /\ llm' \in LlmFields
    BY LlmAt DEF L!Usage, LlmFields
  <1>2. \A u \in Turns : LlmWords(kind', lturn'[u]) /\ Spins(kind', lturn'[u])
    BY <1>1 DEF LlmInv
  <1> QED BY <1>1, <1>2 DEF LlmInv, LlmTyped

LEMMA LlmBegin == ASSUME LlmInv, NEW t \in Turns, L!Begin(t) PROVE LlmInv'
  <1>1. PICK tr : tr = lturn[t]
    OBVIOUS
  <1>2. PICK of \in {"picker", "main"} :
          /\ of = "picker" => kind = "dual"
          /\ L!Set(t, [tr EXCEPT !.pc = "wait", !.of = of,
                                 !.keys = IF kind = "cloud" THEN {t} ELSE {}])
    BY <1>1 DEF L!Begin
  <1>3. PICK x : x = [tr EXCEPT !.pc = "wait", !.of = of,
                                !.keys = IF kind = "cloud" THEN {t} ELSE {}]
    OBVIOUS
  <1>4. /\ tr \in LlmTurns /\ LlmWords(kind, tr) /\ Spins(kind, tr) /\ tr.pc = "idle"
        /\ L!Set(t, x) /\ kind' = kind
    BY <1>1, <1>2, <1>3, LlmAt DEF L!Begin
  <1>5. llm' \in LlmFields
    BY LlmAt DEF L!Begin, LlmFields
  <1>6. tr.got = <<>> /\ tr.said = <<>> /\ tr.buf = <<>>
    BY <1>4 DEF LlmWords
  <1>7. /\ x \in LlmTurns /\ SameShown(x, tr) /\ x.end = tr.end /\ x.of = of
        /\ x.got = <<>> /\ x.said = <<>> /\ x.buf = <<>> /\ x.pc = "wait"
    BY <1>3, <1>4, <1>6, ZenonT(60) DEF LlmTurns, SameShown
  <1>8. LlmWords(kind, x)
    <2>1. SaidSoFar(<<>>, <<>>)
      <3>1. <<>> \in Seq(L!Tokens)
        OBVIOUS
      <3> QED BY <3>1, SaidHeld
    <2>2. tr.end = None
      BY <1>4 DEF LlmWords
    <2> QED BY <1>2, <1>7, <2>1, <2>2, EndApart DEF LlmWords
  <1> QED BY <1>4, <1>5, <1>7, <1>8, LlmPut, SpinsStay

\* The reply ends with an apology: nothing is promised of it.
LEMMA LlmApologise ==
    ASSUME LlmInv, NEW t \in Turns, NEW end \in {"refused", "aborted"},
           lturn[t].pc \in {"wait", "stream"}, L!Apologise(t, end)
    PROVE  LlmInv'
  <1>1. PICK tr : tr = lturn[t]
    OBVIOUS
  <1>2. PICK x : x = [tr EXCEPT !.pc = "over", !.end = end, !.said = Append(@, L!Sorry)]
    OBVIOUS
  <1>3. /\ tr \in LlmTurns /\ LlmWords(kind, tr) /\ Spins(kind, tr)
        /\ tr.pc \in {"wait", "stream"}
        /\ L!Set(t, x) /\ kind' = kind /\ llm' \in LlmFields
    BY <1>1, <1>2, LlmAt DEF L!Apologise, LlmFields
  <1>4. Append(tr.said, L!Sorry) \in LlmTexts
    BY <1>3, TextIn DEF LlmTurns
  <1>5. x = [tr EXCEPT !.pc = "over", !.end = end, !.said = Append(tr.said, L!Sorry)]
    BY <1>2
  <1>6. PICK said \in LlmTexts : said = Append(tr.said, L!Sorry)
    BY <1>4
  <1>7. x = [tr EXCEPT !.pc = "over", !.end = end, !.said = said]
    BY <1>5, <1>6
  <1>8. /\ x \in LlmTurns /\ SameShown(x, tr) /\ x.end \notin {"done", "cut"}
        /\ LlmWords(kind, x)
    BY <1>3, <1>7 DEF LlmTurns, SameShown, LlmWords
  <1> QED BY <1>3, <1>8, LlmPut, SpinsStay

LEMMA LlmFails ==
    ASSUME LlmInv, NEW t \in Turns, L!Refused(t) \/ L!Abort(t) PROVE LlmInv'
  BY LlmApologise DEF L!Refused, L!Abort

LEMMA LlmToolDelta == ASSUME LlmInv, NEW t \in Turns, L!ToolDelta(t) PROVE LlmInv'
  <1>1. PICK tr : tr = lturn[t]
    OBVIOUS
  <1>2. /\ tr \in LlmTurns /\ LlmWords(kind, tr) /\ Spins(kind, tr) /\ tr.pc = "stream"
        /\ kind = "gateway" /\ kind' = kind /\ llm' \in LlmFields
    BY <1>1, LlmAt DEF L!ToolDelta
  <1>3. PICK slot \in Slots, finish \in BOOLEAN :
          LET grown == [tr EXCEPT !.slots = @ \cup {slot}] IN
          L!Set(t, IF finish THEN L!Flush(grown) ELSE grown)
    BY <1>1 DEF L!ToolDelta
  <1>4. PICK grown : grown = [tr EXCEPT !.slots = @ \cup {slot}]
    OBVIOUS
  <1>5. /\ grown \in LlmTurns /\ Same(grown, tr) /\ grown.heard = tr.heard
        /\ grown.slots = tr.slots \cup {slot} /\ grown.flushed = tr.flushed
        /\ grown.fired = tr.fired /\ grown.shown = tr.shown
        /\ grown.cleared = tr.cleared /\ grown.pending = tr.pending
    BY <1>2, <1>4 DEF LlmTurns, Same
  <1>6. Shown(grown)
    BY <1>2, <1>5 DEF Spins, Shown
  <1>7. PICK x : x = IF finish THEN L!Flush(grown) ELSE grown
    OBVIOUS
  <1>8. x \in LlmTurns /\ Same(x, grown) /\ Shown(x)
    <2>1. CASE finish
      BY <1>5, <1>6, <1>7, <2>1, FlushShows
    <2>2. CASE ~finish
      BY <1>5, <1>6, <1>7, <2>2 DEF Same
    <2> QED BY <2>1, <2>2
  <1>9. tr.end \notin {"done", "cut"}
    BY <1>2, EndApart DEF LlmWords
  <1>10. x.end = tr.end /\ Same(x, tr)
    BY <1>5, <1>8 DEF Same
  <1>11. LlmWords(kind, x)
    BY <1>2, <1>10 DEF LlmWords, Holds, Same
  <1>12. Spins(kind, x)
    BY <1>2, <1>8, <1>9, <1>10 DEF Spins
  <1>13. L!Set(t, x)
    BY <1>3, <1>4, <1>7
  <1> QED BY <1>2, <1>8, <1>11, <1>12, <1>13, LlmPut

\* A token is held back with the others, or said after them.
TokenSays(k, tr, said, buf, pass, token) ==
    IF tr.pass \/ k # "gateway"
    THEN /\ said = IF tr.of = "picker" THEN tr.said ELSE Append(tr.said, token)
         /\ buf = (IF tr.of = "picker" THEN Append(tr.buf, token) ELSE tr.buf)
         /\ pass = tr.pass
    ELSE \/ /\ said = tr.said \o L!Sanitize(Append(tr.buf, token))
            /\ buf = <<>> /\ pass = TRUE
         \/ said = tr.said /\ buf = Append(tr.buf, token) /\ pass = tr.pass

LEMMA SaysWhat ==
    ASSUME NEW g \in LlmTurns, NEW s, NEW b
    PROVE  /\ [g EXCEPT !.said = s, !.buf = b]
                  = [g EXCEPT !.said = s, !.buf = b, !.pass = g.pass]
           /\ [g EXCEPT !.buf = b]
                  = [g EXCEPT !.said = g.said, !.buf = b, !.pass = g.pass]
  BY DEF LlmTurns

LEMMA TokenWords ==
    ASSUME NEW k, NEW tr \in LlmTurns, LlmWords(k, tr), tr.pc = "stream",
           NEW token \in L!Tokens, NEW x, x.pc = "stream", x.end = tr.end, x.of = tr.of,
           x.got = Append(tr.got, token), TokenSays(k, tr, x.said, x.buf, x.pass, token)
    PROVE  LlmWords(k, x) /\ x.said \in LlmTexts /\ x.buf \in Seq(L!Tokens)
           /\ x.pass \in BOOLEAN
  <1>1. /\ tr.got \in Seq(L!Tokens) /\ tr.buf \in Seq(L!Tokens) /\ tr.said \in LlmTexts
        /\ tr.pass \in BOOLEAN /\ tr.of \in {"main", "picker"} /\ tr.end = None
    BY DEF LlmTurns, LlmWords
  <1>2. x.got \in Seq(L!Tokens) /\ Append(tr.buf, token) \in Seq(L!Tokens)
    BY <1>1
  <1>3. Append(tr.said, token) \in LlmTexts
    BY <1>1 DEF LlmTexts
  <1>4. CASE Holds(k, tr) /\ Holds(k, x)
    <2>1. tr.said = <<>> /\ tr.buf = tr.got
      BY <1>4 DEF LlmWords
    <2>2. tr.of = "picker" => k = "dual"
      BY DEF LlmWords
    <2>3. x.said = tr.said /\ x.buf = Append(tr.buf, token) /\ x.pass = tr.pass
      BY <1>1, <1>4, <2>2 DEF TokenSays, Holds
    <2> QED BY <1>1, <1>2, <1>4, <2>1, <2>2, <2>3, EndApart DEF LlmWords
  <1>5. CASE Holds(k, tr) /\ ~Holds(k, x)
    <2>1. tr.said = <<>> /\ tr.buf = tr.got
      BY <1>5 DEF LlmWords
    <2>2. /\ x.said = tr.said \o L!Sanitize(Append(tr.buf, token))
          /\ x.buf = <<>> /\ x.pass = TRUE
      BY <1>1, <1>5 DEF TokenSays, Holds
    <2>3. x.said = <<>> \o L!Sanitize(x.got)
      BY <2>1, <2>2
    <2>4. SaidSoFar(L!Sanitize(x.got), x.got) /\ L!Sanitize(x.got) \in LlmTexts
      BY <1>2, Cleaned
    <2>5. x.said = L!Sanitize(x.got)
      BY <2>3, <2>4, TextIn
    <2>6. tr.of = "picker" => k = "dual"
      BY DEF LlmWords
    <2>7. SaidSoFar(x.said, x.got) /\ x.said \in LlmTexts
      BY <2>4, <2>5
    <2>8. x.buf = <<>> /\ x.buf \in Seq(L!Tokens) /\ x.pass \in BOOLEAN
      <3>1. <<>> \in Seq(L!Tokens)
        OBVIOUS
      <3> QED BY <2>2, <3>1
    <2> QED BY <1>1, <1>5, <2>6, <2>7, <2>8, EndApart DEF LlmWords
  <1>6. CASE ~Holds(k, tr)
    <2>1. tr.buf = <<>> /\ SaidSoFar(tr.said, tr.got)
      BY <1>6 DEF LlmWords
    <2>2. x.said = Append(tr.said, token) /\ x.buf = tr.buf /\ x.pass = tr.pass
      BY <1>1, <1>6 DEF TokenSays, Holds
    <2>3. SaidSoFar(x.said, x.got)
      BY <1>1, <2>1, <2>2, SaidNext
    <2>4. ~Holds(k, x) /\ tr.of # "picker"
      BY <1>6, <2>2 DEF Holds
    <2> QED BY <1>1, <1>3, <2>1, <2>2, <2>3, <2>4, EndApart DEF LlmWords
  <1> QED BY <1>4, <1>5, <1>6

LEMMA LlmToken == ASSUME LlmInv, NEW t \in Turns, L!Token(t) PROVE LlmInv'
  <1>1. PICK tr : tr = lturn[t]
    OBVIOUS
  <1>2. /\ tr \in LlmTurns /\ LlmWords(kind, tr) /\ Spins(kind, tr) /\ tr.pc = "stream"
        /\ kind' = kind /\ llm' \in LlmFields /\ Len(tr.got) < MaxTokens
    BY <1>1, LlmAt DEF L!Token
  <1>3. PICK filler \in BOOLEAN, heard \in SUBSET Names, sentence \in BOOLEAN :
          /\ kind # "gateway" => heard = {} /\ ~sentence
          /\ LET token == [n |-> Len(tr.got) + 1, filler |-> filler, of |-> tr.of]
                 given == [L!Results(tr) EXCEPT
                             !.got = Append(@, token), !.heard = @ \cup heard]
             IN  L!Take(t, IF sentence THEN L!Scan(given) ELSE given, token)
    BY <1>1 DEF L!Token
  <1>4. PICK token : token = [n |-> Len(tr.got) + 1, filler |-> filler, of |-> tr.of]
    OBVIOUS
  <1>5. PICK past : past = L!Results(tr)
    OBVIOUS
  <1>6. PICK given : given = [past EXCEPT !.got = Append(@, token), !.heard = @ \cup heard]
    OBVIOUS
  <1>7. PICK g : g = IF sentence THEN L!Scan(given) ELSE given
    OBVIOUS
  <1>8. L!Take(t, g, token)
    BY <1>3, <1>4, <1>5, <1>6, <1>7
  <1>9. token \in L!Tokens
    <2>1. Len(tr.got) + 1 \in 1..MaxTokens /\ tr.of \in {"main", "picker"}
      BY <1>2, LlmAssumption DEF LlmTurns, L!MaxTokensAssumption
    <2> QED BY <1>4, <2>1 DEF L!Tokens
  <1>10. /\ past \in LlmTurns /\ Same(past, tr) /\ Shown(past)
         /\ past.slots = tr.slots /\ past.heard = tr.heard
    BY <1>2, <1>5, ResultsShow DEF Spins
  <1>11. PICK got \in Seq(L!Tokens) : got = Append(tr.got, token)
    <2>1. tr.got \in Seq(L!Tokens)
      BY <1>2 DEF LlmTurns
    <2>2. Append(tr.got, token) \in Seq(L!Tokens)
      BY <1>9, <2>1, AppendProperties
    <2> QED BY <2>2
  <1>12. given = [past EXCEPT !.got = got, !.heard = @ \cup heard]
    BY <1>6, <1>10, <1>11 DEF Same
  <1>13. /\ given \in LlmTurns /\ given.got = got /\ given.heard = past.heard \cup heard
         /\ given.slots = past.slots /\ given.flushed = past.flushed
         /\ given.fired = past.fired /\ given.shown = past.shown
         /\ given.cleared = past.cleared /\ given.pending = past.pending
         /\ given.pc = past.pc /\ given.said = past.said /\ given.buf = past.buf
         /\ given.end = past.end /\ given.of = past.of /\ given.pass = past.pass
    BY <1>10, <1>12 DEF LlmTurns
  <1>14. Shown(given)
    BY <1>10, <1>13 DEF Shown
  <1>15. /\ g \in LlmTurns /\ Same(g, given) /\ Shown(g)
         /\ g.slots = given.slots /\ g.heard = given.heard
    <2>1. CASE sentence
      BY <1>7, <1>13, <1>14, <2>1, ScanShows
    <2>2. CASE ~sentence
      BY <1>7, <1>13, <1>14, <2>2 DEF Same
    <2> QED BY <2>1, <2>2
  <1>16. /\ g.pc = "stream" /\ g.got = got /\ g.said = tr.said /\ g.buf = tr.buf
         /\ g.end = tr.end /\ g.of = tr.of /\ g.pass = tr.pass
    BY <1>2, <1>10, <1>13, <1>15 DEF Same
  <1>17. \E s, b, p : /\ L!Set(t, [g EXCEPT !.said = s, !.buf = b, !.pass = p])
                      /\ TokenSays(kind, g, s, b, p, token)
    <2> DEFINE both == Append(g.buf, token)
               more == Append(g.said, token)
               clean == g.said \o L!Sanitize(both)
    <2>1. CASE g.pass \/ kind # "gateway"
      <3> DEFINE s == IF g.of = "picker" THEN g.said ELSE more
                 b == IF g.of = "picker" THEN both ELSE g.buf
      <3>1. L!Set(t, [g EXCEPT !.said = s, !.buf = b])
        BY <1>8, <2>1 DEF L!Take
      <3>2. TokenSays(kind, g, s, b, g.pass, token)
        BY <2>1 DEF TokenSays
      <3> HIDE DEF s, b
      <3>3. L!Set(t, [g EXCEPT !.said = s, !.buf = b, !.pass = g.pass])
        BY <1>15, <3>1, SaysWhat
      <3> QED BY <3>2, <3>3
    <2>2. CASE ~(g.pass \/ kind # "gateway") /\ L!Set(t, L!Release(g, token))
      <3>1. L!Set(t, [g EXCEPT !.said = clean, !.buf = <<>>, !.pass = TRUE])
        BY <2>2 DEF L!Release
      <3>2. TokenSays(kind, g, clean, <<>>, TRUE, token)
        BY <2>2 DEF TokenSays
      <3> HIDE DEF clean
      <3> QED BY <3>1, <3>2
    <2>3. CASE ~(g.pass \/ kind # "gateway") /\ L!Set(t, [g EXCEPT !.buf = both])
      <3>1. TokenSays(kind, g, g.said, both, g.pass, token)
        BY <2>3 DEF TokenSays
      <3> HIDE DEF both
      <3>2. L!Set(t, [g EXCEPT !.said = g.said, !.buf = both, !.pass = g.pass])
        BY <1>15, <2>3, SaysWhat
      <3> QED BY <3>1, <3>2
    <2> QED BY <1>8, <2>1, <2>2, <2>3 DEF L!Take
  <1>18. PICK s, b, p : /\ L!Set(t, [g EXCEPT !.said = s, !.buf = b, !.pass = p])
                        /\ TokenSays(kind, g, s, b, p, token)
    BY <1>17
  <1>19. PICK x : x = [g EXCEPT !.said = s, !.buf = b, !.pass = p]
    OBVIOUS
  <1>20. /\ x.pc = "stream" /\ x.got = Append(tr.got, token) /\ x.end = tr.end
         /\ x.of = tr.of /\ SameShown(x, g)
         /\ x.said = s /\ x.buf = b /\ x.pass = p
    BY <1>11, <1>15, <1>16, <1>19 DEF LlmTurns, SameShown
  <1>21. LlmWords(kind, x) /\ s \in LlmTexts /\ b \in Seq(L!Tokens) /\ p \in BOOLEAN
    <2>1. TokenSays(kind, tr, s, b, p, token)
      BY <1>16, <1>18 DEF TokenSays
    <2>2. TokenSays(kind, tr, x.said, x.buf, x.pass, token)
      BY <1>20, <2>1
    <2>3. LlmWords(kind, x) /\ x.said \in LlmTexts /\ x.buf \in Seq(L!Tokens)
          /\ x.pass \in BOOLEAN
      BY <1>2, <1>9, <1>20, <2>2, TokenWords
    <2> QED BY <1>20, <2>3
  <1>22. x \in LlmTurns
    BY <1>15, <1>19, <1>21 DEF LlmTurns
  <1>23. Spins(kind, g)
    <2>1. kind # "gateway" => g.slots = {} /\ g.heard = {}
      BY <1>2, <1>3, <1>10, <1>13, <1>15 DEF Spins
    <2>2. g.end \notin {"done", "cut"}
      BY <1>2, <1>16, EndApart DEF LlmWords
    <2> QED BY <1>15, <2>1, <2>2 DEF Spins
  <1>24. Spins(kind, x)
    BY <1>16, <1>20, <1>23, SpinsStay
  <1>25. L!Set(t, x)
    BY <1>18, <1>19
  <1> QED BY <1>2, <1>21, <1>22, <1>24, <1>25, LlmPut

\* A backend that shows no tools has none to end.
LEMMA NothingPending ==
    ASSUME NEW tr \in LlmTurns, Shown(tr), tr.slots = {}, tr.heard = {}
    PROVE  tr.flushed = {} /\ tr.fired = {} /\ tr.pending = <<>>
  <1>1. tr.flushed = {} /\ tr.fired = {}
    BY DEF Shown
  <1>2. tr.pending \in Seq(L!Tools) /\ tr.cleared \in Seq(L!Tools)
    BY DEF LlmTurns
  <1>3. Len(tr.shown) = 0
    <2>1. Cardinality({}) = 0 /\ tr.flushed \cup tr.fired = {}
      BY <1>1, FS_EmptySet
    <2> QED BY <2>1 DEF Shown
  <1>4. Len(tr.shown) = Len(tr.cleared) + Len(tr.pending)
    BY <1>2, ConcatProperties, ZenonT(60) DEF Shown
  <1>5. Len(tr.pending) = 0
    <2>1. PICK m, n \in Nat : m = Len(tr.cleared) /\ n = Len(tr.pending)
      BY <1>2, LenProperties
    <2>2. m + n = 0
      BY <1>3, <1>4, <2>1, Zenon
    <2>3. n = 0
      BY <2>2
    <2> QED BY <2>1, <2>3
  <1> QED BY <1>1, <1>2, <1>5

LEMMA LlmEnd == ASSUME LlmInv, NEW t \in Turns, L!End(t) PROVE LlmInv'
  <1>1. PICK tr : tr = lturn[t]
    OBVIOUS
  <1>2. /\ tr \in LlmTurns /\ LlmWords(kind, tr) /\ Spins(kind, tr) /\ tr.pc = "stream"
        /\ kind' = kind /\ llm' \in LlmFields /\ kind # "dual"
    BY <1>1, LlmAt DEF L!End, LlmFields
  <1>3. PICK end \in {"done", "cut"} :
          LET whole == IF kind = "gateway" THEN L!Ending(tr) ELSE tr
              said == whole.said \o (IF whole.buf = <<>> THEN <<>> ELSE L!Sanitize(whole.buf))
          IN  L!Set(t, [whole EXCEPT !.pc = "over", !.end = end, !.buf = <<>>,
                          !.said = IF end = "cut" THEN Append(said, L!Sorry) ELSE said])
    BY <1>1 DEF L!End
  <1>4. PICK all : all = IF kind = "gateway" THEN L!Ending(tr) ELSE tr
    OBVIOUS
  <1>5. PICK said : said = all.said \o (IF all.buf = <<>> THEN <<>> ELSE L!Sanitize(all.buf))
    OBVIOUS
  <1>6. PICK out : out = IF end = "cut" THEN Append(said, L!Sorry) ELSE said
    OBVIOUS
  <1>7. PICK x : x = [all EXCEPT !.pc = "over", !.end = end, !.buf = <<>>, !.said = out]
    OBVIOUS
  <1>8. L!Set(t, x)
    BY <1>3, <1>4, <1>5, <1>6, <1>7
  <1>9. /\ all \in LlmTurns /\ Same(all, tr) /\ Shown(all) /\ all.pending = <<>>
        /\ all.flushed = all.slots /\ all.fired = all.heard
        /\ kind # "gateway" => all.slots = {} /\ all.heard = {}
    <2>1. CASE kind = "gateway"
      BY <1>2, <1>4, <2>1, EndingShows DEF Spins
    <2>2. CASE kind # "gateway"
      <3>1. all = tr /\ Shown(tr) /\ tr.slots = {} /\ tr.heard = {}
        BY <1>2, <1>4, <2>2 DEF Spins
      <3>2. tr.flushed = {} /\ tr.fired = {} /\ tr.pending = <<>>
        BY <1>2, <3>1, NothingPending
      <3> QED BY <1>2, <2>2, <3>1, <3>2 DEF Same
    <2> QED BY <2>1, <2>2
  <1>10. /\ tr.got \in Seq(L!Tokens) /\ tr.buf \in Seq(L!Tokens) /\ tr.said \in LlmTexts
         /\ <<>> \in Seq(L!Tokens) /\ tr.of \in {"main", "picker"}
    BY <1>2 DEF LlmTurns
  <1>11. SaidSoFar(said, tr.got) /\ said \in LlmTexts
    <2>1. all.said = tr.said /\ all.buf = tr.buf
      BY <1>9 DEF Same
    <2>2. CASE Holds(kind, tr)
      <3>1. tr.said = <<>> /\ tr.buf = tr.got
        BY <1>2, <2>2 DEF LlmWords
      <3>2. CASE tr.buf = <<>>
        <4>1. said = <<>> \o <<>>
          BY <1>5, <2>1, <3>1, <3>2
        <4>2. said = <<>>
          BY <4>1, TextIn
        <4>3. SaidSoFar(<<>>, <<>>)
          BY <1>10, SaidHeld
        <4> QED BY <3>1, <3>2, <4>2, <4>3, TextIn
      <3>3. CASE tr.buf # <<>>
        <4>1. said = <<>> \o L!Sanitize(tr.got)
          BY <1>5, <2>1, <3>1, <3>3
        <4>2. SaidSoFar(L!Sanitize(tr.got), tr.got) /\ L!Sanitize(tr.got) \in LlmTexts
          BY <1>10, Cleaned
        <4>3. said = L!Sanitize(tr.got)
          BY <4>1, <4>2, TextIn
        <4> QED BY <4>2, <4>3
      <3> QED BY <3>2, <3>3
    <2>3. CASE ~Holds(kind, tr)
      <3>1. tr.buf = <<>> /\ SaidSoFar(tr.said, tr.got)
        BY <1>2, <2>3 DEF LlmWords
      <3>2. said = tr.said \o <<>>
        BY <1>5, <2>1, <3>1
      <3>3. said = tr.said
        BY <1>10, <3>2, TextIn
      <3> QED BY <1>10, <3>1, <3>3
    <2> QED BY <2>2, <2>3
  <1>12. SaidOut(out, tr.got) /\ out \in LlmTexts
    BY <1>6, <1>10, <1>11, SaidEnds, TextIn
  <1>13. /\ x \in LlmTurns /\ x.pc = "over" /\ x.end = end /\ x.said = out
         /\ x.got = all.got /\ x.of = all.of /\ SameShown(x, all)
    BY <1>7, <1>9, <1>10, <1>12 DEF LlmTurns, SameShown
  <1>14. x.got = tr.got /\ x.of = tr.of
    BY <1>9, <1>13 DEF Same
  <1>15. LlmWords(kind, x)
    BY <1>2, <1>12, <1>13, <1>14 DEF LlmWords
  <1>16. Spins(kind, x)
    BY <1>9, <1>13 DEF Spins, Shown, SameShown
  <1> QED BY <1>2, <1>8, <1>13, <1>15, <1>16, LlmPut

LEMMA LlmPicked == ASSUME LlmInv, NEW t \in Turns, L!Picked(t) PROVE LlmInv'
  <1>1. PICK tr : tr = lturn[t]
    OBVIOUS
  <1>2. /\ tr \in LlmTurns /\ LlmWords(kind, tr) /\ Spins(kind, tr) /\ tr.pc = "stream"
        /\ kind' = kind /\ llm' \in LlmFields /\ kind = "dual"
    BY <1>1, LlmAt DEF L!Picked
  <1>3. /\ tr.got \in Seq(L!Tokens) /\ tr.buf \in Seq(L!Tokens) /\ tr.said \in LlmTexts
        /\ <<>> \in Seq(L!Tokens) /\ tr.of \in {"main", "picker"} /\ tr.end = None
    BY <1>2 DEF LlmTurns, LlmWords
  <1>4. CASE L!Set(t, [tr EXCEPT !.pc = "over", !.end = "done", !.said = @ \o tr.buf])
    <2>1. PICK said : said = tr.said \o tr.buf
      OBVIOUS
    <2>2. SaidSoFar(said, tr.got) /\ said \in LlmTexts
      <3>1. CASE tr.of = "picker"
        <4>1. tr.said = <<>> /\ tr.buf = tr.got
          BY <1>2, <3>1 DEF LlmWords, Holds
        <4>2. said = tr.got
          BY <1>3, <2>1, <4>1, TextIn
        <4> QED BY <1>3, <4>2, SaidHeld, TextIn
      <3>2. CASE tr.of # "picker"
        <4>1. tr.buf = <<>> /\ SaidSoFar(tr.said, tr.got)
          BY <1>2, <3>2 DEF LlmWords, Holds
        <4>2. said = tr.said
          BY <1>3, <2>1, <4>1, TextIn
        <4> QED BY <1>3, <4>1, <4>2
      <3> QED BY <3>1, <3>2
    <2>3. SaidOut(said, tr.got)
      BY <1>3, <2>2, SaidEnds
    <2>4. PICK x : x = [tr EXCEPT !.pc = "over", !.end = "done", !.said = said]
      OBVIOUS
    <2>5. /\ x \in LlmTurns /\ x.pc = "over" /\ x.end = "done" /\ x.said = said
          /\ x.got = tr.got /\ x.of = tr.of /\ SameShown(x, tr)
      BY <1>2, <2>2, <2>4 DEF LlmTurns, SameShown
    <2>6. LlmWords(kind, x)
      BY <1>2, <2>3, <2>5 DEF LlmWords
    <2>7. Spins(kind, x)
      <3>1. Shown(tr) /\ tr.slots = {} /\ tr.heard = {}
        BY <1>2 DEF Spins
      <3>2. tr.flushed = {} /\ tr.fired = {} /\ tr.pending = <<>>
        BY <1>2, <3>1, NothingPending
      <3> QED BY <2>5, <3>1, <3>2 DEF Spins, Shown, SameShown
    <2>8. L!Set(t, x)
      BY <1>4, <2>1, <2>4
    <2> QED BY <1>2, <2>5, <2>6, <2>7, <2>8, LlmPut
  <1>5. CASE L!Set(t, [tr EXCEPT !.pc = "wait", !.of = "main", !.buf = <<>>, !.got = <<>>])
             /\ tr.of = "picker"
    <2>1. PICK x : x = [tr EXCEPT !.pc = "wait", !.of = "main", !.buf = <<>>, !.got = <<>>]
      OBVIOUS
    <2>2. /\ x \in LlmTurns /\ x.pc = "wait" /\ x.end = tr.end /\ x.said = tr.said
          /\ x.got = <<>> /\ x.of = "main" /\ x.buf = <<>> /\ SameShown(x, tr)
      BY <1>2, <1>3, <2>1, ZenonT(60) DEF LlmTurns, SameShown
    <2>3. tr.said = <<>>
      BY <1>2, <1>5 DEF LlmWords, Holds
    <2>4. SaidSoFar(<<>>, <<>>)
      BY <1>3, SaidHeld
    <2>5. LlmWords(kind, x)
      BY <1>2, <1>3, <2>2, <2>3, <2>4, EndApart DEF LlmWords, Holds
    <2> QED BY <1>2, <1>5, <2>1, <2>2, <2>5, LlmPut, SpinsStay
  <1> QED BY <1>1, <1>4, <1>5 DEF L!Picked

LEMMA LlmInit == ASSUME L!Init PROVE LlmInv
  <1>1. PICK tr : tr = L!Fresh
    OBVIOUS
  <1>2. PICK k : k = kind
    OBVIOUS
  <1>3. /\ <<>> \in Seq(L!Tokens) /\ <<>> \in Seq(L!Tools) /\ <<>> \in LlmTexts
        /\ L!ToSet(<<>>) = {} /\ Cardinality({}) = 0 /\ <<>> = <<>> \o <<>>
    BY FS_EmptySet, TextIn DEF L!ToSet
  <1>4. tr \in LlmTurns
    BY <1>1, <1>3 DEF L!Fresh, LlmTurns
  <1>5. LlmWords(k, tr)
    <2>1. SaidSoFar(<<>>, <<>>)
      BY <1>3, SaidHeld
    <2> QED BY <1>1, <2>1, EndApart DEF L!Fresh, LlmWords
  <1>6. Spins(k, tr)
    BY <1>1, <1>3, EndApart DEF L!Fresh, Spins, Shown
  <1>7. \A u \in Turns : lturn[u] = tr
    BY <1>1 DEF L!Init
  <1>8. LlmTyped
    BY <1>1, <1>4 DEF L!Init, LlmTyped, LlmFields
  <1> QED BY <1>2, <1>5, <1>6, <1>7, <1>8 DEF LlmInv

LEMMA LlmNext == ASSUME LlmInv, [L!Next]_(L!vars) PROVE LlmInv'
  <1>1. CASE UNCHANGED L!vars
    <2>1. lturn' = lturn /\ kind' = kind /\ llm' = llm
      BY <1>1 DEF L!vars
    <2>2. \A u \in Turns : LlmWords(kind', lturn'[u]) /\ Spins(kind', lturn'[u])
      BY <2>1 DEF LlmInv
    <2> QED BY <2>1, <2>2 DEF LlmInv, LlmTyped
  <1>2. CASE L!Next
    <2>1. PICK t \in Turns : L!TurnStep(t)
      BY <1>2 DEF L!Next
    <2> QED BY <2>1, LlmName, LlmHealthy, LlmUnhealthy, LlmBegin, LlmOpened, LlmFails,
               LlmAgain, LlmToolDelta, LlmToken, LlmUsage, LlmEnd, LlmPicked, LlmReceipt
            DEF L!TurnStep
  <1> QED BY <1>1, <1>2

LEMMA LlmHolds == ASSUME LlmInv PROVE L!SaidWhole /\ L!SpinnersStop
  <1> SUFFICES ASSUME NEW t \in Turns, lturn[t].end \in {"done", "cut"}
               PROVE  /\ LET got == lturn[t].got IN
                         \E k \in 0..Len(got), front, back \in {<<>>, <<L!Sorry>>} :
                           /\ \A j \in 1..k : got[j].filler
                           /\ lturn[t].said = front \o SubSeq(got, k + 1, Len(got)) \o back
                      /\ lturn[t].shown = lturn[t].cleared
                      /\ L!ToSet(lturn[t].shown) = lturn[t].slots \cup lturn[t].heard
                      /\ Len(lturn[t].shown) = L!Cardinality(L!ToSet(lturn[t].shown))
    BY DEF L!SaidWhole, L!SpinnersStop, L!Ended
  <1>1. PICK tr : tr = lturn[t]
    OBVIOUS
  <1>2. tr \in LlmTurns /\ LlmWords(kind, tr) /\ Spins(kind, tr) /\ tr.end \in {"done", "cut"}
    BY <1>1, LlmAt
  <1>3. SaidOut(tr.said, tr.got)
    BY <1>2 DEF LlmWords
  <1>4. /\ tr.pending = <<>> /\ tr.flushed = tr.slots /\ tr.fired = tr.heard /\ Shown(tr)
    BY <1>2 DEF Spins
  <1>5. tr.shown = tr.cleared
    <2>1. tr.cleared \in Seq(L!Tools)
      BY <1>2 DEF LlmTurns
    <2>2. tr.shown = tr.cleared \o <<>>
      BY <1>4 DEF Shown
    <2> QED BY <2>1, <2>2
  <1>6. /\ L!ToSet(tr.shown) = tr.slots \cup tr.heard
        /\ Len(tr.shown) = L!Cardinality(L!ToSet(tr.shown))
    BY <1>4, LlmSameSets DEF Shown
  <1> QED BY <1>1, <1>3, <1>5, <1>6 DEF SaidOut, Apology, Fillers, FromOn

-----------------------------------------------------------------------------
(* The composition: a step of a part is one of its own next-state relation, and  *)
(* a behaviour never leaves its part.                                            *)

\* However many turns ask for a model that is not there yet, and whichever of them
\* fail, one instance of it is constructed (_ensure_instance).
THEOREM DialogueFleet == Spec => []OneInstance
  <1> DEFINE Inv == part = "router" => RouterInv
  <1>1. Init => Inv
    BY RouterInit, RouterAssumption DEF Init
  <1>2. Inv /\ [Next]_vars => Inv'
    <2> SUFFICES ASSUME Inv, [Next]_vars, part' = "router" PROVE RouterInv'
      OBVIOUS
    <2>1. part = "router" /\ [R!Next]_(R!vars)
      BY DEF Next, Only, vars, rvars, R!vars
    <2> QED BY <2>1, RouterNext, RouterAssumption
  <1>3. Inv => OneInstance
    BY RouterOne, RouterAssumption DEF OneInstance
  <1> QED BY <1>1, <1>2, <1>3, PTL DEF Spec

\* A fallback engine that is up is the one that is held, or one a prewarm is about to
\* drop, and none is once the pipeline is closed (FallbackSttCache).
THEOREM DialogueFallback == Spec => []NoneLeft
  <1> DEFINE Inv == part = "fallback" => FallbackInv
  <1>1. Init => Inv
    BY FallbackInit, FallbackAssumption DEF Init
  <1>2. Inv /\ [Next]_vars => Inv'
    <2> SUFFICES ASSUME Inv, [Next]_vars, part' = "fallback" PROVE FallbackInv'
      OBVIOUS
    <2>1. part = "fallback" /\ [F!Next]_(F!vars)
      BY DEF Next, Only, vars, fvars, F!vars
    <2> QED BY <2>1, FallbackNext, FallbackAssumption
  <1>3. Inv => NoneLeft
    BY DEF NoneLeft, FallbackInv
  <1> QED BY <1>1, <1>2, <1>3, PTL DEF Spec

\* Whatever fails in a typed turn, its device is told how it ended.
THEOREM DialogueTold == Spec => []TurnIsTold
  <1> DEFINE Inv == part = "text turn" => TextInv
  <1>1. Init => Inv
    BY TextInit DEF Init
  <1>2. Inv /\ [Next]_vars => Inv'
    <2> SUFFICES ASSUME Inv, [Next]_vars, part' = "text turn" PROVE TextInv'
      OBVIOUS
    <2>1. part = "text turn" /\ [T!Next]_(T!vars)
      BY DEF Next, Only, vars, tvars, T!vars
    <2> QED BY <2>1, TextNext
  <1>3. Inv => TurnIsTold
    BY TextTold DEF TurnIsTold
  <1> QED BY <1>1, <1>2, <1>3, PTL DEF Spec

\* What is spoken is what was shown, once and in order, and speech that was begun is
\* ended, wherever a sentence ends and whenever the turn is cancelled.
THEOREM DialogueSpoken == Spec => []SpokenIsShown
  <1> DEFINE Inv == part = "utterance" => UttInv
  <1>1. Init => Inv
    BY UttInit DEF Init
  <1>2. Inv /\ [Next]_vars => Inv'
    <2> SUFFICES ASSUME Inv, [Next]_vars, part' = "utterance" PROVE UttInv'
      OBVIOUS
    <2>1. part = "utterance" /\ [U!Next]_(U!vars)
      BY DEF Next, Only, vars, uvars, U!vars
    <2> QED BY <2>1, UttNext
  <1>3. Inv => SpokenIsShown
    BY DEF SpokenIsShown, UttInv, UttSpeech, UttText, U!SpokenIsShown, U!Complete, U!At, Late
  <1> QED BY <1>1, <1>2, <1>3, PTL DEF Spec

\* Whatever is held back of a reply and wherever its stream is cut, a reply that ends
\* on its own is said from its first word that is no filler, in order and each once,
\* and what a device was shown at work is ended once (generate_stream of the
\* backends, sanitize_tinkerclaw_reply, _flush_tool_calls, _emit_synthetic_results).
THEOREM DialogueReply == Spec => []ReplyIsWhole
  <1> DEFINE Inv == part = "llm" => LlmInv
  <1>1. Init => Inv
    BY LlmInit DEF Init
  <1>2. Inv /\ [Next]_vars => Inv'
    <2> SUFFICES ASSUME Inv, [Next]_vars, part' = "llm" PROVE LlmInv'
      OBVIOUS
    <2>1. part = "llm" /\ [L!Next]_(L!vars)
      BY DEF Next, Only, vars, lvars, L!vars
    <2> QED BY <2>1, LlmNext
  <1>3. Inv => ReplyIsWhole
    BY LlmHolds DEF ReplyIsWhole
  <1> QED BY <1>1, <1>2, <1>3, PTL DEF Spec
=============================================================================

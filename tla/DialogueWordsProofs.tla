------------------------ MODULE DialogueWordsProofs ------------------------
(***************************************************************************)
(* Proofs about the words of a dialogue: what the markup filter keeps back *)
(* of a reply, what a dictation is made of, and what the model is shown of *)
(* a conversation.                                                         *)
(* As in DialogueProofs, an inductive invariant is proved of each part,    *)
(* and the theorems, at the end, are about the composition.                *)
(***************************************************************************)
EXTENDS MCDialogue, FiniteSetTheorems, SequenceTheorems, WellFoundedInduction, TLAPS

-----------------------------------------------------------------------------
(* Sequences and numbers, as in DialogueProofs.                            *)

\* A piece of a text, by its length and its elements.
LEMMA TakeFrom ==
    ASSUME NEW S, NEW s \in Seq(S), NEW i \in Nat, NEW n \in Nat, i + n <= Len(s)
    PROVE  /\ SubSeq(s, i + 1, i + n) \in Seq(S) /\ Len(SubSeq(s, i + 1, i + n)) = n
           /\ \A j \in 1..n : SubSeq(s, i + 1, i + n)[j] = s[i + j]
  <1> DEFINE from == i + 1
             to == i + n
  <1>1. \A j \in from..to : s[j] \in S
    OBVIOUS
  <1>2. /\ from \in Int /\ to \in Int /\ to - from + 1 = n
        /\ (IF from <= to THEN to - from + 1 ELSE 0) = n
        /\ \A j \in 1..n : from + j - 1 = i + j
    OBVIOUS
  <1> HIDE DEF from, to
  <1>3. /\ SubSeq(s, from, to) \in Seq(S)
        /\ Len(SubSeq(s, from, to)) = IF from <= to THEN to - from + 1 ELSE 0
        /\ \A j \in 1..(to - from + 1) : SubSeq(s, from, to)[j] = s[from + j - 1]
    BY <1>1, <1>2, SubSeqProperties
  <1>4. /\ SubSeq(s, from, to) \in Seq(S) /\ Len(SubSeq(s, from, to)) = n
        /\ \A j \in 1..n : SubSeq(s, from, to)[j] = s[i + j]
    BY <1>2, <1>3
  <1> QED BY <1>4 DEF from, to

\* A set of numbers has a least one.
LEMMA LeastOf ==
    ASSUME NEW S \in SUBSET Nat, S # {}
    PROVE  \E n \in S : \A m \in S : n <= m
  <1> DEFINE Less == OpToRel(<, Nat)
  <1>1. IsWellFoundedOn(Less, Nat)
    BY NatLessThanWellFounded
  <1>2. \A m, n \in Nat : <<m, n>> \in Less <=> m < n
    BY DEF OpToRel
  <1> HIDE DEF Less
  <1>3. PICK x \in S : \A y \in S : ~ (<<y, x>> \in Less)
    BY <1>1, WFMin
  <1>4. \A y \in S : ~ (y < x)
    BY <1>2, <1>3
  <1>5. \A y \in S : x <= y
    BY <1>4
  <1> QED BY <1>5

-----------------------------------------------------------------------------
(* Markup: no beginning of an opener is let out of what the engine holds.  *)

\* As much of op as text has room for is there at i.
Begins(op, i, text) ==
    \A j \in 1..Len(op) : i + j <= Len(text) => text[i + j] = op[j]

MarkupInv ==
    /\ reply \in Seq(Pieces) /\ held \in Seq(Pieces) /\ pending \in Seq(Pieces)
    /\ shown \in Seq(Pieces) /\ done \in BOOLEAN
    /\ shown \o pending \o held = reply
    /\ done => held = <<>> /\ pending = <<>>
    /\ ~done => \A op \in M!Openers : \A i \in 0..(Len(reply) - 1) :
         Begins(op, i, reply) => Len(shown) + Len(pending) <= i

\* What Min and Max of the module choose.
LEMMA LeastIs ==
    ASSUME NEW S \in SUBSET Nat, S # {}
    PROVE  M!Min(S) \in S /\ \A m \in S : M!Min(S) <= m
  BY LeastOf DEF M!Min

LEMMA LargestIs ==
    ASSUME NEW n \in Nat, NEW S \in SUBSET (0..n), S # {}
    PROVE  M!Max(S) \in S
  <1> DEFINE Down == {n - k : k \in S}
  <1>1. Down \in SUBSET Nat /\ Down # {}
    <2>1. \A k \in S : k \in 0..n /\ n - k \in Nat
      OBVIOUS
    <2> QED BY <2>1
  <1>2. PICK d \in Down : \A m \in Down : d <= m
    BY <1>1, LeastOf
  <1>3. PICK x \in S : d = n - x
    BY <1>2
  <1>4. ASSUME NEW y \in S PROVE x >= y
    <2>1. n - y \in Down /\ x \in Nat /\ y \in Nat
      OBVIOUS
    <2>2. n - x <= n - y
      BY <1>2, <1>3, <2>1
    <2> QED BY <2>1, <2>2
  <1> QED BY <1>4 DEF M!Max

LEMMA SameSeq ==
    ASSUME NEW A, NEW B, NEW s \in Seq(A), NEW t \in Seq(B), Len(s) = Len(t),
           \A j \in 1..Len(s) : s[j] = t[j]
    PROVE  s = t
  <1>1. s = [j \in 1..Len(s) |-> s[j]] /\ t = [j \in 1..Len(t) |-> t[j]]
    OBVIOUS
  <1> QED BY <1>1

LEMMA Rejoined ==
    \A s, t, u \in Seq(Pieces) : (s \o t) \o u = s \o (t \o u)
  BY ConcatAssociative

\* The second part of two.
LEMMA SecondOf ==
    ASSUME NEW S, NEW s \in Seq(S), NEW t \in Seq(S), NEW n \in 1..Len(t)
    PROVE  (s \o t)[Len(s) + n] = t[n]
  <1>1. /\ Len(s) \in Nat /\ Len(t) \in Nat /\ Len(s) + n \in 1..(Len(s) + Len(t))
        /\ ~(Len(s) + n <= Len(s)) /\ (Len(s) + n) - Len(s) = n
    OBVIOUS
  <1> DEFINE k == Len(s) + n
  <1>2. (s \o t)[k] = IF k <= Len(s) THEN s[k] ELSE t[k - Len(s)]
    BY <1>1, ConcatProperties
  <1> QED BY <1>1, <1>2

LEMMA ThreeLong ==
    ASSUME NEW S, NEW a \in S, NEW b \in S, NEW c \in S
    PROVE  <<a, b, c>> \in Seq(S) /\ Len(<<a, b, c>>) = 3
  <1> DEFINE w == <<a, b, c>>
  <1>1. w \in [1..3 -> S] /\ Len(w) = 3
    OBVIOUS
  <1> HIDE DEF w
  <1>2. \A n \in Nat : w \in [1..n -> S] => w \in Seq(S)
    OBVIOUS
  <1>3. w \in Seq(S)
    BY <1>1, <1>2, 3 \in Nat
  <1> QED BY <1>1, <1>3 DEF w

Letters == {"<", "[", "tool", "tool_call", ">", "]"}

LEMMA OpenersAre == \A op \in M!Openers : op \in Seq(Letters) /\ Len(op) = 3
  <1>1. \A op \in M!Openers :
          \/ op = <<"<", "tool", ">">> \/ op = <<"[", "tool", ">">>
          \/ op = <<"<", "tool", "]">> \/ op = <<"[", "tool", "]">>
          \/ op = <<"<", "tool_call", ">">>
    BY Zenon DEF M!Openers
  <1>2. /\ "<" \in Letters /\ "[" \in Letters /\ ">" \in Letters /\ "]" \in Letters
        /\ "tool" \in Letters /\ "tool_call" \in Letters
    BY DEF Letters
  <1>3. \A a, b, c \in Letters : <<a, b, c>> \in Seq(Letters) /\ Len(<<a, b, c>>) = 3
    BY ThreeLong
  <1>4. ASSUME NEW op \in M!Openers
        PROVE  \E a, b, c \in Letters : op = <<a, b, c>>
    BY <1>1, <1>2, SMTT(30)
  <1> QED
    <2> TAKE op \in M!Openers
    <2>1. PICK a \in Letters, b \in Letters, c \in Letters : op = <<a, b, c>>
      BY <1>4
    <2> QED BY <1>3, <2>1

LEMMA SuffixAt ==
    ASSUME NEW s \in Seq(Letters), NEW t \in Seq(Pieces), Len(s) <= Len(t),
           \A j \in 1..Len(s) : s[j] = t[Len(t) - Len(s) + j]
    PROVE  M!IsSuffix(s, t)
  <1> DEFINE rs == M!Reverse(s)
             rt == M!Reverse(t)
  <1>1. /\ rs \in Seq(Letters) /\ Len(rs) = Len(s) /\ \A j \in 1..Len(s) : rs[j] = s[Len(s) - j + 1]
    BY DEF M!Reverse
  <1>2. /\ rt \in Seq(Pieces) /\ Len(rt) = Len(t) /\ \A j \in 1..Len(t) : rt[j] = t[Len(t) - j + 1]
    BY DEF M!Reverse
  <1> HIDE DEF rs, rt
  <1>3. ASSUME NEW j \in 1..Len(s) PROVE rs[j] = rt[j]
    <2>1. rs[j] = s[Len(s) - j + 1] /\ Len(s) - j + 1 \in 1..Len(s)
      BY <1>1
    <2>2. s[Len(s) - j + 1] = t[Len(t) - Len(s) + (Len(s) - j + 1)]
      BY <2>1
    <2>3. Len(t) - Len(s) + (Len(s) - j + 1) = Len(t) - j + 1 /\ j \in 1..Len(t)
      OBVIOUS
    <2> QED BY <1>2, <2>1, <2>2, <2>3
  <1>4. SubSeq(rs, 1, Len(rs)) = SubSeq(rt, 1, Len(rs))
    BY <1>1, <1>2, <1>3
  <1> QED BY <1>1, <1>2, <1>4 DEF M!IsSuffix, M!IsPrefix, rs, rt

\* The engine lets nothing out from where an opener may begin.
LEMMA SplitStops ==
    ASSUME NEW text \in Seq(Pieces)
    PROVE  /\ M!Split(text) \in 0..Len(text)
           /\ \A op \in M!Openers : \A i \in 0..(Len(text) - 1) :
                Begins(op, i, text) => M!Split(text) <= i
  <1> DEFINE ops == M!Openers \cup M!NameOpeners
             whole == {Len(text)} \cup UNION {M!At(op, text) : op \in ops}
             part1 == {Len(text)} \cup
                 UNION {{Len(text) - k : k \in {k \in 1..(Len(op) - 1) :
                           k <= Len(text) /\ M!IsSuffix(SubSeq(op, 1, k), text)}}
                        : op \in M!Openers}
  <1>1. whole \in SUBSET Nat /\ part1 \in SUBSET Nat /\ Len(text) \in whole /\ Len(text) \in part1
    BY DEF M!At
  <1>2. /\ M!Before(ops, text) = M!Min(whole) /\ M!TailPartial(text) = M!Min(part1)
    BY DEF M!Before, M!TailPartial
  <1>3. \A op \in ops : M!At(op, text) \subseteq whole
    OBVIOUS
  <1>4. ASSUME NEW op \in M!Openers, NEW k \in 1..(Len(op) - 1), k <= Len(text),
               M!IsSuffix(SubSeq(op, 1, k), text)
        PROVE  Len(text) - k \in part1
    BY <1>4
  <1> HIDE DEF whole, part1
  <1>5. M!Min(whole) \in Nat /\ \A m \in whole : M!Min(whole) <= m
    BY <1>1, LeastIs
  <1>6. M!Min(part1) \in Nat /\ \A m \in part1 : M!Min(part1) <= m
    BY <1>1, LeastIs
  <1> DEFINE a == M!Min(whole)
             b == M!Min(part1)
             c == M!Min({a, b})
  <1>7. M!Split(text) = c
    BY <1>2 DEF M!Split
  <1> HIDE DEF a, b
  <1>8. a \in Nat /\ b \in Nat /\ (\A m \in whole : a <= m) /\ (\A m \in part1 : b <= m)
    BY <1>5, <1>6 DEF a, b
  <1>9. c \in Nat /\ c <= a /\ c <= b
    <2>1. {a, b} \in SUBSET Nat /\ {a, b} # {}
      BY <1>8
    <2> QED BY <2>1, LeastIs
  <1> HIDE DEF c
  <1>10. c \in 0..Len(text)
    BY <1>1, <1>8, <1>9
  <1>11. ASSUME NEW op \in M!Openers, NEW i \in 0..(Len(text) - 1), Begins(op, i, text)
         PROVE  c <= i
    <2>1. op \in Seq(Letters) /\ Len(op) = 3
      BY OpenersAre
    <2>2. CASE i + 3 <= Len(text)
      <3>1. SubSeq(text, i + 1, i + 3) = op
        <4> DEFINE s == SubSeq(text, i + 1, i + 3)
        <4>1. s \in Seq(Pieces) /\ Len(s) = 3 /\ \A j \in 1..3 : s[j] = text[i + j]
          BY <2>2, TakeFrom
        <4>2. \A j \in 1..3 : text[i + j] = op[j]
          BY <1>11, <2>1, <2>2 DEF Begins
        <4> HIDE DEF s
        <4>3. Len(s) = Len(op) /\ \A j \in 1..Len(s) : s[j] = op[j]
          BY <2>1, <4>1, <4>2
        <4>4. s = op
          BY <2>1, <4>1, <4>3, SameSeq
        <4> QED BY <4>4 DEF s
      <3>2. i \in M!At(op, text)
        BY <2>1, <2>2, <3>1 DEF M!At
      <3>3. i \in whole
        BY <1>3, <3>2
      <3> QED BY <1>8, <1>9, <3>3
    <2>3. CASE i + 3 > Len(text)
      <3> DEFINE k == Len(text) - i
      <3>1. k \in 1..2 /\ k <= Len(text) /\ Len(text) - k = i
        BY <2>3
      <3> HIDE DEF k
      <3>2. M!IsSuffix(SubSeq(op, 1, k), text)
        <4>1. /\ SubSeq(op, 1, k) \in Seq(Letters) /\ Len(SubSeq(op, 1, k)) = k
              /\ \A j \in 1..k : SubSeq(op, 1, k)[j] = op[j]
          <5>1. 0 + k <= Len(op) /\ k \in Nat
            BY <2>1, <3>1
          <5>2. /\ SubSeq(op, 0 + 1, 0 + k) \in Seq(Letters)
                /\ Len(SubSeq(op, 0 + 1, 0 + k)) = k
                /\ \A j \in 1..k : SubSeq(op, 0 + 1, 0 + k)[j] = op[0 + j]
            <6>1. 0 \in Nat /\ op \in Seq(Letters)
              BY <2>1
            <6> QED BY <5>1, <6>1, TakeFrom
          <5>3. 0 + 1 = 1 /\ 0 + k = k /\ \A j \in 1..k : 0 + j = j
            BY <3>1
          <5> QED BY <5>2, <5>3
        <4>2. \A j \in 1..k : op[j] = text[Len(text) - k + j]
          <5>1. \A j \in 1..k : j \in 1..Len(op) /\ i + j <= Len(text)
            BY <2>1, <3>1
          <5> QED BY <1>11, <3>1, <5>1 DEF Begins
        <4> QED BY <3>1, <4>1, <4>2, SuffixAt
      <3>3. i \in part1
        <4>1. k \in 1..(Len(op) - 1)
          BY <2>1, <3>1
        <4>2. Len(text) - k \in part1
          BY <1>4, <3>1, <3>2, <4>1
        <4> QED BY <3>1, <4>2
      <3> QED BY <1>8, <1>9, <3>3
    <2> QED BY <2>2, <2>3
  <1> QED BY <1>7, <1>10, <1>11

LEMMA HoldWithin == ASSUME NEW text \in Seq(Pieces) PROVE M!HoldAt(text) \in 0..Len(text)
  <1> DEFINE found == UNION {M!At(op, text) : op \in M!PartialMarkers}
  <1>1. ASSUME NEW i \in found PROVE i \in 0..Len(text)
    <2>1. PICK op \in M!PartialMarkers : i \in M!At(op, text)
      OBVIOUS
    <2>2. Len(op) = 2
      BY <2>1 DEF M!PartialMarkers
    <2> QED BY <2>1, <2>2 DEF M!At
  <1>2. M!HoldAt(text) = IF found = {} THEN Len(text) ELSE M!Max(found)
    BY DEF M!HoldAt
  <1> HIDE DEF found
  <1>3. CASE found = {}
    BY <1>2, <1>3
  <1>4. CASE found # {}
    <2>1. found \in SUBSET (0..Len(text)) /\ Len(text) \in Nat
      BY <1>1
    <2>2. M!Max(found) \in found
      BY <1>4, <2>1, LargestIs
    <2> QED BY <1>1, <1>2, <1>4, <2>2
  <1> QED BY <1>3, <1>4

LEMMA CutInTwo ==
    ASSUME NEW s \in Seq(Pieces), NEW n \in 0..Len(s)
    PROVE  /\ SubSeq(s, 1, n) \in Seq(Pieces) /\ SubSeq(s, n + 1, Len(s)) \in Seq(Pieces)
           /\ Len(SubSeq(s, 1, n)) = n
           /\ SubSeq(s, 1, n) \o SubSeq(s, n + 1, Len(s)) = s
  <1> DEFINE a == SubSeq(s, 1, n)
             b == SubSeq(s, n + 1, Len(s))
  <1>1. a \in Seq(Pieces) /\ Len(a) = n /\ \A j \in 1..n : a[j] = s[j]
    OBVIOUS
  <1>2. b \in Seq(Pieces) /\ Len(b) = Len(s) - n /\ \A j \in 1..(Len(s) - n) : b[j] = s[n + j]
    OBVIOUS
  <1> HIDE DEF a, b
  <1>3. a \o b \in Seq(Pieces) /\ Len(a \o b) = Len(s)
    BY <1>1, <1>2
  <1>4. ASSUME NEW j \in 1..Len(s) PROVE (a \o b)[j] = s[j]
    <2>1. (a \o b)[j] = IF j <= n THEN a[j] ELSE b[j - n]
      BY <1>1, <1>2, ConcatProperties
    <2>2. CASE j <= n
      BY <1>1, <2>1, <2>2
    <2>3. CASE j > n
      <3>1. j - n \in 1..(Len(s) - n) /\ n + (j - n) = j
        BY <2>3
      <3> QED BY <1>2, <2>1, <2>3, <3>1
    <2>4. j <= n \/ j > n
      OBVIOUS
    <2> QED BY <2>2, <2>3, <2>4
  <1>5. a \o b = s
    BY <1>3, <1>4, SeqEqual
  <1> QED BY <1>1, <1>2, <1>5 DEF a, b

\* One token through both filters.
LEMMA MarkupFeed ==
    ASSUME MarkupInv, ~done, NEW token \in Seq(Pieces), M!Feed(token)
    PROVE  MarkupInv'
  <1>0. /\ reply \in Seq(Pieces) /\ held \in Seq(Pieces) /\ pending \in Seq(Pieces)
        /\ shown \in Seq(Pieces) /\ shown \o pending \in Seq(Pieces)
        /\ (shown \o pending) \o held = reply
        /\ Len(shown \o pending) = Len(shown) + Len(pending)
        /\ Len(reply) = Len(shown) + Len(pending) + Len(held)
        /\ Len(shown) \in Nat /\ Len(pending) \in Nat /\ Len(held) \in Nat
        /\ Len(token) \in Nat
    BY DEF MarkupInv
  <1> DEFINE seen == held \o token
             cut == M!Split(seen)
             a == SubSeq(seen, 1, cut)
             b == SubSeq(seen, cut + 1, Len(seen))
             text == pending \o a
             at == M!HoldAt(text)
             c == SubSeq(text, 1, at)
             d == SubSeq(text, at + 1, Len(text))
  <1>1. /\ reply' = reply \o token /\ held' = b /\ pending' = d /\ shown' = shown \o c
        /\ done' = done
    BY DEF M!Feed
  <1>2. seen \in Seq(Pieces) /\ Len(seen) = Len(held) + Len(token)
    BY <1>0
  <1> HIDE DEF seen
  <1>3. /\ cut \in 0..Len(seen)
        /\ \A op \in M!Openers : \A i \in 0..(Len(seen) - 1) : Begins(op, i, seen) => cut <= i
    BY <1>2, SplitStops
  <1> HIDE DEF cut
  <1>4. a \in Seq(Pieces) /\ b \in Seq(Pieces) /\ Len(a) = cut /\ a \o b = seen
    BY <1>2, <1>3, CutInTwo
  <1> HIDE DEF a, b
  <1>5. text \in Seq(Pieces) /\ Len(text) = Len(pending) + cut
    BY <1>0, <1>4, ConcatProperties
  <1> HIDE DEF text
  <1>6. at \in 0..Len(text)
    BY <1>5, HoldWithin
  <1> HIDE DEF at
  <1>7. c \in Seq(Pieces) /\ d \in Seq(Pieces) /\ Len(c) = at /\ c \o d = text
    BY <1>5, <1>6, CutInTwo
  <1> HIDE DEF c, d
  <1>8. (shown \o c) \o d \o b = reply \o token
    <2>1. (shown \o c) \o d = shown \o (c \o d)
      <3>1. shown \in Seq(Pieces) /\ c \in Seq(Pieces) /\ d \in Seq(Pieces)
        BY <1>0, <1>7
      <3> QED BY <3>1, Rejoined, Zenon
    <2>2. shown \o text = (shown \o pending) \o a
      <3>1. shown \in Seq(Pieces) /\ pending \in Seq(Pieces) /\ a \in Seq(Pieces)
        BY <1>0, <1>4
      <3> QED BY <3>1, Rejoined, Zenon DEF text
    <2>3. ((shown \o pending) \o a) \o b = (shown \o pending) \o (a \o b)
      <3>1. shown \o pending \in Seq(Pieces) /\ a \in Seq(Pieces) /\ b \in Seq(Pieces)
        BY <1>0, <1>4
      <3> QED BY <3>1, Rejoined, Zenon
    <2>4. (shown \o pending) \o (held \o token) = ((shown \o pending) \o held) \o token
      <3> DEFINE out == shown \o pending
      <3>1. out \in Seq(Pieces) /\ held \in Seq(Pieces) /\ token \in Seq(Pieces)
        BY <1>0
      <3> HIDE DEF out
      <3>2. out \o (held \o token) = (out \o held) \o token
        BY <3>1, Rejoined, Zenon
      <3> QED BY <3>2 DEF out
    <2> QED BY <1>0, <1>4, <1>7, <2>1, <2>2, <2>3, <2>4 DEF seen
  <1>9. /\ shown \o c \in Seq(Pieces) /\ reply \o token \in Seq(Pieces)
        /\ Len(shown \o c) = Len(shown) + at /\ Len(c) + Len(d) = Len(text)
        /\ Len(reply \o token) = Len(reply) + Len(token)
    BY <1>0, <1>7, ConcatProperties
  <1> DEFINE e == Len(shown) + Len(pending)
             whole == reply \o token
  <1>10. e \in Nat /\ Len(shown \o c) + Len(d) = e + cut /\ Len(reply) = e + Len(held)
    <2>1. Len(shown \o c) = Len(shown) + at /\ Len(c) + Len(d) = Len(pending) + cut /\ Len(c) = at
      BY <1>5, <1>7, <1>9
    <2>2. Len(d) \in Nat /\ at \in Nat /\ cut \in Nat /\ Len(reply) = Len(shown) + Len(pending) + Len(held)
      BY <1>0, <1>3, <1>6, <1>7
    <2>3. Len(shown) \in Nat /\ Len(pending) \in Nat
      BY <1>0
    <2> HIDE DEF c, d
    <2> QED BY <2>1, <2>2, <2>3
  <1>11. ASSUME NEW op \in M!Openers, NEW i \in 0..(Len(whole) - 1), Begins(op, i, whole)
         PROVE  e + cut <= i
    <2>1. op \in Seq(Letters) /\ Len(op) = 3
      BY OpenersAre
    <2>2. CASE i >= e
      <3>1. i - e \in 0..(Len(seen) - 1)
        BY <1>2, <1>9, <1>10, <2>2
      <3>2. \A n \in 1..Len(seen) : seen[n] = whole[e + n]
        <4>1. whole = (shown \o pending) \o seen
          <5>1. held \in Seq(Pieces) /\ shown \o pending \in Seq(Pieces)
            BY <1>0
          <5>2. (shown \o pending) \o (held \o token) = ((shown \o pending) \o held) \o token
            BY <5>1, Rejoined, Zenon
          <5>3. ((shown \o pending) \o held) \o token = reply \o token
            BY <1>0
          <5> QED BY <5>2, <5>3 DEF seen
        <4>2. Len(shown \o pending) = e
          BY <1>0
        <4> HIDE DEF whole, e
        <4>3. ASSUME NEW n \in 1..Len(seen) PROVE seen[n] = whole[e + n]
          <5>1. PICK head \in Seq(Pieces) : head = shown \o pending
            BY <1>0
          <5>2. (head \o seen)[Len(head) + n] = seen[n]
            BY <1>2, <4>3, <5>1, SecondOf
          <5> QED BY <4>1, <4>2, <5>1, <5>2
        <4> QED BY <4>3
      <3>3. Begins(op, i - e, seen)
        <4>1. ASSUME NEW j \in 1..Len(op), (i - e) + j <= Len(seen)
              PROVE  seen[(i - e) + j] = op[j]
          <5>1. (i - e) + j \in 1..Len(seen) /\ e + ((i - e) + j) = i + j
            BY <1>10, <2>1, <2>2, <4>1
          <5>2. i + j <= Len(whole)
            BY <1>2, <1>9, <1>10, <4>1
          <5>3. whole[i + j] = op[j]
            BY <1>11, <5>2 DEF Begins
          <5> QED BY <3>2, <5>1, <5>3
        <4> QED BY <4>1 DEF Begins
      <3>4. cut <= i - e
        BY <1>3, <3>1, <3>3
      <3> QED BY <1>3, <1>10, <3>4
    <2>3. CASE i < e
      <3>1. i \in 0..(Len(reply) - 1)
        BY <1>10, <2>3
      <3>2. Begins(op, i, reply)
        <4>1. \A j \in 1..Len(op) : i + j <= Len(reply) => i + j \in 1..Len(reply)
          BY <2>1, <3>1
        <4>2. \A n \in 1..Len(reply) : whole[n] = reply[n] /\ n <= Len(whole)
          BY <1>0, <1>9, ConcatProperties
        <4> HIDE DEF whole, e
        <4> QED BY <1>11, <4>1, <4>2 DEF Begins
      <3>3. e <= i
        BY <3>1, <3>2 DEF MarkupInv
      <3> QED BY <1>10, <2>3, <3>3
    <2> QED BY <1>10, <2>2, <2>3
  <1>12. /\ reply' \in Seq(Pieces) /\ held' \in Seq(Pieces) /\ pending' \in Seq(Pieces)
         /\ shown' \in Seq(Pieces) /\ done' = FALSE
    BY <1>1, <1>4, <1>7, <1>9
  <1>13. shown' \o pending' \o held' = reply'
    BY <1>1, <1>8
  <1>14. Len(shown') + Len(pending') = e + cut /\ reply' = whole
    BY <1>1, <1>10
  <1> HIDE DEF e, whole
  <1>15. \A op \in M!Openers : \A i \in 0..(Len(reply') - 1) :
           Begins(op, i, reply') => Len(shown') + Len(pending') <= i
    BY <1>11, <1>14
  <1> QED BY <1>12, <1>13, <1>15 DEF Begins, MarkupInv

LEMMA MarkupNext == ASSUME MarkupInv, [M!Next]_(M!vars) PROVE MarkupInv'
  <1>1. CASE M!Token
    <2>1. PICK n \in 1..2 : \E token \in [1..n -> Pieces] : ~done /\ M!Feed(token)
      BY <1>1 DEF M!Token
    <2>2. PICK token \in [1..n -> Pieces] : ~done /\ M!Feed(token)
      BY <2>1
    <2>3. token \in Seq(Pieces)
      OBVIOUS
    <2> QED BY <2>2, <2>3, MarkupFeed
  <1>2. CASE M!End
    <2>1. /\ done' = TRUE /\ held' = <<>> /\ pending' = <<>> /\ reply' = reply
          /\ shown' = shown \o pending \o held
      BY <1>2 DEF M!End
    <2>2. shown' = reply
      BY <2>1 DEF MarkupInv
    <2>3. reply \o <<>> \o <<>> = reply
      BY DEF MarkupInv
    <2> QED BY <2>1, <2>2, <2>3 DEF MarkupInv
  <1>3. CASE UNCHANGED M!vars
    BY <1>3 DEF M!vars, MarkupInv, Begins
  <1> QED BY <1>1, <1>2, <1>3 DEF M!Next

LEMMA MarkupInit == ASSUME M!Init PROVE MarkupInv
  <1>1. /\ reply = <<>> /\ held = <<>> /\ pending = <<>> /\ shown = <<>> /\ done = FALSE
        /\ <<>> \in Seq(Pieces) /\ Len(<<>>) = 0 /\ 0..(0 - 1) = {}
    BY DEF M!Init
  <1>2. <<>> \o <<>> \o <<>> = <<>>
    OBVIOUS
  <1> QED BY <1>1, <1>2 DEF MarkupInv

LEMMA MarkupHolds == ASSUME MarkupInv PROVE M!NothingLost /\ M!NoMarkupShown
  <1> USE DEF MarkupInv
  <1>1. M!NothingLost
    <2>1. done => shown = reply
      <3> SUFFICES ASSUME done PROVE shown = reply
        OBVIOUS
      <3> QED BY ConcatEmptySeq
    <2> QED BY <2>1 DEF M!NothingLost
  <1>2. ASSUME ~done PROVE Len(shown) <= M!Before(M!Openers, reply)
    <2> DEFINE whole == {Len(reply)} \cup UNION {M!At(op, reply) : op \in M!Openers}
    <2>1. ASSUME NEW i \in whole PROVE i \in Nat /\ Len(shown) <= i
      <3>1. CASE i = Len(reply)
        <4>1. Len(reply) = Len(shown) + Len(pending) + Len(held)
          OBVIOUS
        <4> QED BY <3>1, <4>1
      <3>2. CASE i # Len(reply)
        <4>1. PICK op \in M!Openers : i \in M!At(op, reply)
          BY <3>2
        <4>2. op \in Seq(Letters) /\ Len(op) = 3
          BY OpenersAre
        <4>3. i \in 0..(Len(reply) - 3) /\ SubSeq(reply, i + 1, i + 3) = op
          BY <4>1, <4>2 DEF M!At
        <4>4. \A j \in 1..3 : SubSeq(reply, i + 1, i + 3)[j] = reply[i + j]
          BY <4>3
        <4>5. Begins(op, i, reply)
          BY <4>2, <4>3, <4>4 DEF Begins
        <4>6. Len(shown) + Len(pending) <= i
          BY <1>2, <4>3, <4>5
        <4> QED BY <4>3, <4>6
      <3> QED BY <3>1, <3>2
    <2>2. M!Before(M!Openers, reply) = M!Min(whole)
      BY DEF M!Before
    <2>3. whole \in SUBSET Nat /\ whole # {}
      BY <2>1
    <2> HIDE DEF whole
    <2>4. M!Min(whole) \in whole
      BY <2>3, LeastIs
    <2> QED BY <2>1, <2>2, <2>4
  <1> QED BY <1>1, <1>2 DEF M!NoMarkupShown

-----------------------------------------------------------------------------
(* Dictation: the words of a dictation are in its segments, at the transcriber *)
(* or in its buffer, until they are told or lost.                          *)

\* s is in order, and of turn i alone; all of s comes before all of t.
Ascends(s, i) ==
    /\ \A k \in 1..Len(s) : s[k].of = i
    /\ \A j, k \in 1..Len(s) : j < k => s[j].n < s[k].n
Under(s, t) == \A j \in 1..Len(s), k \in 1..Len(t) : s[j].n < t[k].n

\* The words at the transcriber, and all that are not told or lost yet.
AtStt == IF loop.pc \in {"segment", "last"} THEN loop.words ELSE <<>>
Unsaid == D!ToSet(pipe.segs) \cup D!ToSet(AtStt) \cup D!ToSet(pipe.buf)

\* After the text, until the note.
Ending == {"abandon", "give", "begin", "note"}

ToldEvents ==
    [type : {"stt", "dictation_summary", "failed", "cancelled", "start", "note_created"},
     of : D!Ids \cup {0}, turn : D!Ids \cup {0}, words : Seq(D!Words)]
ConnType == [mode : {"ask", "dictate"}, turn : D!Ids \cup {0}, down : BOOLEAN]
PipeType ==
    [dictating : BOOLEAN, buf : Seq(D!Words), segs : Seq(D!Words), turn : D!Ids \cup {0},
     post : D!Ids \cup {None}, postTurn : D!Ids \cup {0}]
LoopType ==
    [pc : {"read", "dead"} \cup D!LoopAwaits, words : Seq(D!Words), prev : D!Ids \cup {None}]
TaskType ==
    [pc : {"none", "new", "llm", "over", "done", "done2", "error", "error2"}, cancel : BOOLEAN]
DictTyped ==
    /\ dconn \in ConnType /\ pipe \in PipeType /\ loop \in LoopType
    /\ post \in [D!Ids -> TaskType] /\ fed \in [D!Ids -> 0..MaxWords]
    /\ lost \subseteq D!Words /\ told \in Seq(ToldEvents)

DictTurns ==
    /\ pipe.turn <= dconn.turn
    /\ dconn.mode = "dictate" => pipe.turn = dconn.turn /\ dconn.turn # 0
    /\ pipe.dictating \/ loop.pc \in {"segment", "last"} \cup Ending => dconn.mode = "dictate"
    /\ \A i \in D!Ids : i > dconn.turn => fed[i] = 0

\* The events, and whether the text of a turn is one of them.
Events == D!ToSet(told)
IsTold(i) == \E e \in Events : e.type = "stt" /\ e.of = i

DictOrder ==
    /\ Ascends(pipe.segs, pipe.turn) /\ Ascends(AtStt, pipe.turn)
    /\ Ascends(pipe.buf, pipe.turn)
    /\ Under(pipe.segs, AtStt) /\ Under(pipe.segs, pipe.buf)
    /\ loop.pc \in {"segment", "last"} => pipe.buf = <<>>
    /\ loop.pc \in Ending => Ascends(loop.words, pipe.turn)

\* A word that was fed is told, lost, or still unsaid.
DictWords ==
    /\ \A w \in Unsaid : w.of = pipe.turn /\ w.n <= fed[w.of] /\ w \notin lost
    /\ \A w \in lost : w.n <= fed[w.of]
    /\ \A w \in D!Words : w.of = pipe.turn /\ w.n <= fed[w.of]
         => w \in lost \cup Unsaid \/ IsTold(pipe.turn)

\* An event that was told, and the turn whose text it was once.
Said(e) ==
    /\ e.type \in {"stt", "note_created"} => Ascends(e.words, e.of)
    /\ e.type = "stt" =>
         /\ D!ToSet(e.words) = D!Kept(e.of) /\ e.of <= pipe.turn
         /\ e.of = pipe.turn => ~pipe.dictating /\ Unsaid = {}
    /\ e.type \in {"dictation_summary", "failed"} => e.turn = e.of
    /\ e.type = "start" => e.of <= pipe.turn
DictSaid == \A e \in Events : Said(e)

\* Unless someone else shuts the pipeline down, the task it knows is the only one
\* that runs, or the one that the loop waits for.
Alive(i) == post[i].pc \notin {"none", "over"}
InTime(s) == \A j, k \in DOMAIN s :
    j < k /\ s[j].type = "start" /\ s[k].type \in {"dictation_summary", "failed"}
        => s[k].of >= s[j].of
DictTasks == ~dconn.down =>
    /\ \A i \in D!Ids : Alive(i) =>
         /\ loop.pc \notin {"give", "begin"}
         /\ i = IF loop.pc \in {"abandon", "ack"} THEN loop.prev ELSE pipe.post
    /\ \A i \in D!Ids, e \in Events : Alive(i) /\ e.type = "start" => e.of <= i
    /\ InTime(told)

DictInv == DictTyped /\ DictTurns /\ DictOrder /\ DictWords /\ DictSaid /\ DictTasks

-----------------------------------------------------------------------------
(* Types.                                                                  *)

LEMMA IdsAre ==
           /\ MaxStarts \in Nat /\ MaxWords \in Nat /\ BufferCap \in Nat
           /\ D!Ids \subseteq Nat \ {0} /\ 0 \notin D!Ids
           /\ \A n \in D!Ids \cup {0} : n \in Nat /\ (n # 0 => n \in D!Ids)
           /\ \A n \in D!Ids \cup {0} : n < MaxStarts => n + 1 \in D!Ids
  BY DictationAssumption DEF D!BoundsAssumption, D!Ids

\* Where a dictation's turn is the connection's.
LEMMA TurnIs ==
    ASSUME DictTyped, DictTurns
    PROVE  /\ dconn.turn \in D!Ids \cup {0} /\ pipe.turn \in D!Ids \cup {0}
           /\ dconn.mode = "dictate" => pipe.turn = dconn.turn /\ dconn.turn \in D!Ids
           /\ pipe.dictating => dconn.mode = "dictate"
           /\ loop.pc \in {"segment", "last"} \cup Ending => dconn.mode = "dictate"
  BY DEF DictTyped, ConnType, PipeType, DictTurns

LEMMA EventIs ==
    ASSUME NEW type \in {"stt", "dictation_summary", "failed", "cancelled", "start",
                         "note_created"},
           NEW of \in D!Ids \cup {0}, NEW turn \in D!Ids \cup {0}, NEW words \in Seq(D!Words)
    PROVE  /\ D!Event(type, of, turn, words) \in ToldEvents
           /\ D!Event(type, of, turn, words).type = type
           /\ D!Event(type, of, turn, words).of = of
           /\ D!Event(type, of, turn, words).turn = turn
           /\ D!Event(type, of, turn, words).words = words
  BY DEF D!Event, ToldEvents

LEMMA TwoTold ==
    ASSUME NEW a \in ToldEvents, NEW b \in ToldEvents, NEW s \in Seq(ToldEvents)
    PROVE  s \o <<a, b>> = Append(Append(s, a), b)
  <1> DEFINE u == s \o <<a, b>>
             v == Append(Append(s, a), b)
  <1>1. <<a, b>> \in Seq(ToldEvents) /\ Len(<<a, b>>) = 2
    <2> DEFINE w == <<a, b>>
    <2>1. w \in [1..2 -> ToldEvents] /\ Len(w) = 2
      OBVIOUS
    <2> HIDE DEF w
    <2>2. \A n \in Nat : w \in [1..n -> ToldEvents] => w \in Seq(ToldEvents)
      OBVIOUS
    <2>3. w \in Seq(ToldEvents)
      BY <2>1, <2>2, 2 \in Nat
    <2> QED BY <2>1, <2>3 DEF w
  <1>2. u \in Seq(ToldEvents) /\ v \in Seq(ToldEvents) /\ Len(u) = Len(s) + 2 /\ Len(v) = Len(s) + 2
    BY <1>1
  <1>3. ASSUME NEW k \in 1..(Len(s) + 2) PROVE u[k] = v[k]
    <2>1. u[k] = IF k <= Len(s) THEN s[k] ELSE <<a, b>>[k - Len(s)]
      BY <1>1, ConcatProperties
    <2>2. CASE k <= Len(s)
      <3>1. Append(s, a)[k] = s[k] /\ v[k] = Append(s, a)[k]
        BY <2>2
      <3> QED BY <2>1, <2>2, <3>1
    <2>3. CASE k = Len(s) + 1
      <3>1. v[k] = a /\ k - Len(s) = 1 /\ ~(k <= Len(s))
        BY <2>3
      <3>2. <<a, b>>[1] = a
        OBVIOUS
      <3> QED BY <2>1, <3>1, <3>2
    <2>4. CASE k = Len(s) + 2
      <3>1. v[k] = b /\ k - Len(s) = 2 /\ ~(k <= Len(s))
        BY <2>4
      <3>2. <<a, b>>[2] = b
        OBVIOUS
      <3> QED BY <2>1, <3>1, <3>2
    <2> QED BY <2>2, <2>3, <2>4
  <1> HIDE DEF u, v
  <1>4. u = v
    BY <1>2, <1>3, SeqEqual
  <1> QED BY <1>4 DEF u, v

\* The fields of the records, and what becomes of the records.
LEMMA PipeIs ==
    ASSUME NEW p \in PipeType
    PROVE  /\ p.dictating \in BOOLEAN /\ p.buf \in Seq(D!Words) /\ p.segs \in Seq(D!Words)
           /\ p.turn \in D!Ids \cup {0} /\ p.post \in D!Ids \cup {None}
           /\ p.postTurn \in D!Ids \cup {0}
  BY DEF PipeType

LEMMA PipeSet ==
    ASSUME NEW p \in PipeType, NEW b \in BOOLEAN, NEW s \in Seq(D!Words),
           NEW n \in D!Ids \cup {0}, NEW i \in D!Ids \cup {None}
    PROVE  /\ [p EXCEPT !.dictating = b] \in PipeType /\ [p EXCEPT !.buf = s] \in PipeType
           /\ [p EXCEPT !.segs = s] \in PipeType /\ [p EXCEPT !.turn = n] \in PipeType
           /\ [p EXCEPT !.post = i] \in PipeType /\ [p EXCEPT !.postTurn = n] \in PipeType
           /\ [p EXCEPT !.post = i, !.buf = s] \in PipeType
           /\ [p EXCEPT !.post = i, !.postTurn = n] \in PipeType
           /\ [p EXCEPT !.segs = s, !.buf = s, !.dictating = b] \in PipeType
           /\ [p EXCEPT !.dictating = b, !.buf = s, !.segs = s, !.turn = n] \in PipeType
  BY DEF PipeType

LEMMA LoopIs ==
    ASSUME NEW l \in LoopType
    PROVE  l.words \in Seq(D!Words) /\ l.prev \in D!Ids \cup {None}
  BY DEF LoopType

LEMMA LoopSet ==
    ASSUME NEW l \in LoopType, NEW pc \in {"read", "dead"} \cup D!LoopAwaits,
           NEW s \in Seq(D!Words), NEW i \in D!Ids \cup {None}
    PROVE  /\ [l EXCEPT !.pc = pc] \in LoopType /\ [l EXCEPT !.pc = pc, !.words = s] \in LoopType
           /\ [l EXCEPT !.pc = pc, !.prev = i] \in LoopType
           /\ [pc |-> pc, words |-> s, prev |-> i] \in LoopType
  BY DEF LoopType

LEMMA LoopPcs ==
    \A pc \in {"read", "dead", "segment", "last", "abandon", "give", "begin", "note", "ack"} :
      pc \in {"read", "dead"} \cup D!LoopAwaits
  BY DEF D!LoopAwaits

LEMMA PostSet ==
    ASSUME NEW p \in [D!Ids -> TaskType], NEW i,
           NEW pc \in {"none", "new", "llm", "over", "done", "done2", "error", "error2"}
    PROVE  /\ [p EXCEPT ![i].cancel = TRUE] \in [D!Ids -> TaskType]
           /\ [p EXCEPT ![i].pc = pc] \in [D!Ids -> TaskType]
           /\ [p EXCEPT ![i] = [pc |-> pc, cancel |-> FALSE]] \in [D!Ids -> TaskType]
  <1>1. \A t \in TaskType : [t EXCEPT !.cancel = TRUE] \in TaskType /\ [t EXCEPT !.pc = pc] \in TaskType
    BY DEF TaskType
  <1>2. [pc |-> pc, cancel |-> FALSE] \in TaskType
    BY DEF TaskType
  <1> QED BY <1>1, <1>2

LEMMA TextTypes ==
    ASSUME DictTyped, DictTurns, NEW segs \in Seq(D!Words), D!Text(segs)
    PROVE  /\ pipe' \in PipeType /\ loop' \in LoopType /\ post' \in [D!Ids -> TaskType]
           /\ told' \in Seq(ToldEvents)
  <1> DEFINE text == D!Event("stt", dconn.turn, dconn.turn, segs)
             short == D!Event("dictation_summary", dconn.turn, dconn.turn, <<>>)
             reset == [pipe EXCEPT !.segs = <<>>, !.buf = <<>>, !.dictating = FALSE]
  <1>0. <<>> \in Seq(D!Words) /\ pipe \in PipeType /\ told \in Seq(ToldEvents)
        /\ post \in [D!Ids -> TaskType]
    BY DEF DictTyped
  <1>1. text \in ToldEvents /\ short \in ToldEvents
    <2>1. dconn.turn \in D!Ids \cup {0}
      BY TurnIs
    <2> QED BY <1>0, <2>1, EventIs
  <1>2. reset \in PipeType /\ [reset EXCEPT !.post = None] \in PipeType /\ pipe.post \in D!Ids \cup {None}
    <2>1. reset \in PipeType
      BY <1>0, PipeSet, ZenonT(60)
    <2> HIDE DEF reset
    <2>2. [reset EXCEPT !.post = None] \in PipeType
      BY <2>1 DEF PipeType
    <2> QED BY <1>0, <2>1, <2>2, PipeIs
  <1>3. /\ told \o <<text, short>> = Append(Append(told, text), short)
        /\ Append(told, text) \in Seq(ToldEvents)
        /\ Append(Append(told, text), short) \in Seq(ToldEvents)
    <2> HIDE DEF text, short
    <2>1. told \o <<text, short>> = Append(Append(told, text), short)
      BY <1>0, <1>1, TwoTold
    <2> QED BY <1>0, <1>1, <2>1
  <1>4. /\ [pc |-> "read", words |-> <<>>, prev |-> None] \in LoopType
        /\ [pc |-> "begin", words |-> segs, prev |-> None] \in LoopType
        /\ [pc |-> "abandon", words |-> segs, prev |-> pipe.post] \in LoopType
    BY <1>0, <1>2 DEF LoopType, D!LoopAwaits
  <1>5. [post EXCEPT ![pipe.post].cancel = TRUE] \in [D!Ids -> TaskType]
    BY <1>0, PostSet
  <1>6. \/ /\ told' = IF segs = <<>> THEN told ELSE told \o <<text, short>>
           /\ loop' = [pc |-> "read", words |-> <<>>, prev |-> None]
           /\ pipe' = reset /\ UNCHANGED post
        \/ /\ told' = Append(told, text)
           /\ loop' = [pc |-> "begin", words |-> segs, prev |-> None]
           /\ pipe' = reset /\ UNCHANGED post
        \/ /\ told' = Append(told, text)
           /\ loop' = [pc |-> "abandon", words |-> segs, prev |-> pipe.post]
           /\ post' = [post EXCEPT ![pipe.post].cancel = TRUE]
           /\ pipe' = [reset EXCEPT !.post = None]
    BY DEF D!Text, D!Tell
  <1> HIDE DEF text, short, reset
  <1> QED BY <1>0, <1>2, <1>3, <1>4, <1>5, <1>6

LEMMA DictTypes ==
    ASSUME DictTyped, DictTurns, D!Next
    PROVE  DictTyped'
  <1>0. /\ dconn \in ConnType /\ pipe \in PipeType /\ loop \in LoopType
        /\ post \in [D!Ids -> TaskType] /\ fed \in [D!Ids -> 0..MaxWords]
        /\ lost \subseteq D!Words /\ told \in Seq(ToldEvents) /\ <<>> \in Seq(D!Words)
    BY DEF DictTyped
  <1>p. /\ pipe.buf \in Seq(D!Words) /\ pipe.segs \in Seq(D!Words)
        /\ pipe.turn \in D!Ids \cup {0} /\ pipe.post \in D!Ids \cup {None}
        /\ pipe.postTurn \in D!Ids \cup {0}
        /\ loop.words \in Seq(D!Words) /\ loop.prev \in D!Ids \cup {None}
        /\ dconn.turn \in D!Ids \cup {0}
    BY <1>0, PipeIs, LoopIs, TurnIs
  <1>s. \A s \in Seq(D!Words) : D!ToSet(s) \subseteq D!Words
    BY DEF D!ToSet
  <1>1. ASSUME NEW m \in {"ask", "dictate"}, D!Start(m) PROVE DictTyped'
    <2>1. dconn' = [dconn EXCEPT !.mode = m, !.turn = dconn.turn + 1]
          /\ dconn.turn + 1 \in D!Ids \cup {0}
      BY <1>1, <1>p, IdsAre DEF D!Start
    <2>2. dconn' \in ConnType
      BY <1>0, <2>1, ZenonT(60) DEF ConnType
    <2>3. pipe' \in PipeType
      <3>1. pipe' = IF m = "dictate"
                    THEN [pipe EXCEPT !.dictating = TRUE, !.buf = <<>>, !.segs = <<>>,
                                      !.turn = dconn.turn + 1]
                    ELSE [pipe EXCEPT !.dictating = FALSE]
        BY <1>1 DEF D!Start
      <3> QED BY <1>0, <2>1, <3>1, PipeSet, ZenonT(60)
    <2>4. lost' \subseteq D!Words
      <3>1. pipe.buf \o pipe.segs \in Seq(D!Words)
        BY <1>p
      <3> QED BY <1>0, <1>1, <1>s, <3>1 DEF D!Start
    <2> QED BY <1>0, <1>1, <2>2, <2>3, <2>4 DEF D!Start, DictTyped
  <1>2. CASE D!Feed
    <2> DEFINE word == [of |-> dconn.turn, n |-> fed[dconn.turn] + 1]
    <2>1. dconn.turn \in D!Ids
      BY <1>2, TurnIs DEF D!Feed
    <2>2. fed[dconn.turn] + 1 \in 1..MaxWords
      <3>1. fed[dconn.turn] \in 0..MaxWords /\ fed[dconn.turn] < MaxWords /\ MaxWords \in Nat
        BY <1>0, <1>2, <2>1, IdsAre DEF D!Feed
      <3> QED BY <3>1
    <2>3. word \in D!Words
      BY <2>1, <2>2 DEF D!Words
    <2>4. /\ UNCHANGED <<dconn, loop, post, told>>
          /\ fed' = [fed EXCEPT ![dconn.turn] = fed[dconn.turn] + 1]
          /\ \/ lost' = lost \cup D!ToSet(<<word>>) /\ UNCHANGED pipe
             \/ pipe' = [pipe EXCEPT !.buf = Append(pipe.buf, word)] /\ UNCHANGED lost
      BY <1>2 DEF D!Feed, D!Lose
    <2> HIDE DEF word
    <2>5. D!ToSet(<<word>>) \subseteq D!Words /\ Append(pipe.buf, word) \in Seq(D!Words)
      <3>1. Append(<<>>, word) = <<word>> /\ Append(<<>>, word) \in Seq(D!Words)
        BY <1>0, <2>3
      <3>2. <<word>> \in Seq(D!Words)
        BY <3>1
      <3>3. D!ToSet(<<word>>) \subseteq D!Words
        BY <1>s, <3>2
      <3>4. pipe.buf \in Seq(D!Words)
        BY <1>p
      <3>5. Append(pipe.buf, word) \in Seq(D!Words)
        BY <2>3, <3>4
      <3> QED BY <3>3, <3>5
    <2>6. pipe' \in PipeType /\ lost' \subseteq D!Words
      BY <1>0, <2>4, <2>5, PipeSet, ZenonT(60)
    <2>7. fed' \in [D!Ids -> 0..MaxWords]
      BY <1>0, <2>1, <2>2, <2>4
    <2> QED BY <1>0, <2>4, <2>6, <2>7 DEF DictTyped
  <1>t. ASSUME D!Take("segment", "read"), UNCHANGED <<dconn, post, told, fed>>
        PROVE  DictTyped'
    <2>1. \/ /\ loop' = [loop EXCEPT !.pc = "segment", !.words = pipe.buf]
             /\ pipe' = [pipe EXCEPT !.buf = <<>>] /\ UNCHANGED lost
          \/ /\ loop' = [loop EXCEPT !.pc = "read"]
             /\ pipe' = [pipe EXCEPT !.buf = <<>>] /\ lost' = lost \cup D!ToSet(pipe.buf)
      BY <1>t DEF D!Take, D!Await, D!Lose
    <2>2. /\ [loop EXCEPT !.pc = "segment", !.words = pipe.buf] \in LoopType
          /\ [loop EXCEPT !.pc = "read"] \in LoopType
      BY <1>0, <1>p, LoopPcs, LoopSet, ZenonT(60)
    <2>3. [pipe EXCEPT !.buf = <<>>] \in PipeType /\ D!ToSet(pipe.buf) \subseteq D!Words
      BY <1>0, <1>p, <1>s, PipeSet, ZenonT(60)
    <2> QED BY <1>0, <1>t, <2>1, <2>2, <2>3 DEF DictTyped
  <1>3. CASE D!Segment
    BY <1>3, <1>t DEF D!Segment
  <1>4. CASE D!SegmentDone
    <2>1. /\ loop' = [loop EXCEPT !.pc = "read", !.words = <<>>]
          /\ \/ pipe' = [pipe EXCEPT !.segs = pipe.segs \o loop.words] /\ UNCHANGED lost
             \/ UNCHANGED pipe /\ lost' = lost \cup D!ToSet(loop.words)
          /\ UNCHANGED <<dconn, post, told, fed>>
      BY <1>4 DEF D!SegmentDone, D!Lose
    <2>2. loop' \in LoopType
      BY <1>0, <2>1, LoopPcs, LoopSet, ZenonT(60)
    <2>3. pipe.segs \o loop.words \in Seq(D!Words)
      BY <1>p
    <2>4. pipe' \in PipeType /\ lost' \subseteq D!Words
      BY <1>0, <1>p, <1>s, <2>1, <2>3, PipeSet, ZenonT(60)
    <2> QED BY <1>0, <2>1, <2>2, <2>4 DEF DictTyped
  <1>5. CASE D!Stop
    <2>1. D!Text(pipe.segs) /\ lost' = lost \cup D!ToSet(pipe.buf) /\ UNCHANGED <<dconn, fed>>
      BY <1>5 DEF D!Stop, D!Lose
    <2>2. lost' \subseteq D!Words
      BY <1>0, <1>p, <1>s, <2>1
    <2> QED BY <1>0, <1>p, <2>1, <2>2, TextTypes DEF DictTyped
  <1>6. CASE D!StopLast
    <2>1. /\ loop' = [loop EXCEPT !.pc = "last", !.words = pipe.buf]
          /\ pipe' = [pipe EXCEPT !.buf = <<>>] /\ UNCHANGED <<dconn, post, told, fed, lost>>
      BY <1>6 DEF D!StopLast
    <2>2. loop' \in LoopType /\ pipe' \in PipeType
      BY <1>0, <1>p, <2>1, LoopPcs, LoopSet, PipeSet, ZenonT(60)
    <2> QED BY <1>0, <2>1, <2>2 DEF DictTyped
  <1>7. CASE D!LastDone
    <2>1. UNCHANGED <<dconn, fed>>
          /\ \/ D!Text(pipe.segs \o loop.words) /\ UNCHANGED lost
             \/ D!Text(pipe.segs) /\ lost' = lost \cup D!ToSet(loop.words)
             \/ /\ loop' = [loop EXCEPT !.pc = "dead"] /\ lost' = lost \cup D!ToSet(loop.words)
                /\ UNCHANGED <<pipe, post, told>>
      BY <1>7 DEF D!LastDone, D!Lose, D!Await
    <2>2. lost' \subseteq D!Words
      BY <1>0, <1>p, <1>s, <2>1
    <2>3. ASSUME NEW segs \in Seq(D!Words), D!Text(segs) PROVE DictTyped'
      BY <1>0, <2>1, <2>2, <2>3, TextTypes DEF DictTyped
    <2>4. CASE loop' = [loop EXCEPT !.pc = "dead"] /\ UNCHANGED <<pipe, post, told>>
      <3>1. loop' \in LoopType
        BY <1>0, <1>p, <2>4, LoopPcs, LoopSet, ZenonT(60)
      <3> QED BY <1>0, <2>1, <2>2, <2>4, <3>1 DEF DictTyped
    <2>5. pipe.segs \o loop.words \in Seq(D!Words)
      BY <1>p
    <2> QED BY <1>p, <2>1, <2>3, <2>4, <2>5
  <1>e. ASSUME NEW pc \in {"give", "begin", "note"}, loop' = [loop EXCEPT !.pc = pc],
               NEW e \in ToldEvents, told' = Append(told, e), UNCHANGED <<dconn, fed, lost>>,
               pipe' \in PipeType, post' \in [D!Ids -> TaskType]
        PROVE  DictTyped'
    <2>1. loop' \in LoopType
      BY <1>0, <1>p, <1>e, LoopPcs, LoopSet, ZenonT(60)
    <2> QED BY <1>0, <1>e, <2>1 DEF DictTyped
  <1>8. CASE D!Abandon
    <2>1. D!Event("cancelled", pipe.postTurn, pipe.postTurn, <<>>) \in ToldEvents
      BY <1>0, <1>p, EventIs
    <2> QED BY <1>0, <1>8, <1>e, <2>1 DEF D!Abandon, D!Await, D!Tell
  <1>9. CASE D!Give
    <2>1. D!Event("cancelled", pipe.postTurn, dconn.turn, <<>>) \in ToldEvents
      BY <1>0, <1>p, EventIs
    <2> QED BY <1>0, <1>9, <1>e, <2>1 DEF D!Give, D!Await, D!Tell
  <1>10. CASE D!Begin
    <2>1. D!Event("start", pipe.turn, dconn.turn, <<>>) \in ToldEvents
      BY <1>0, <1>p, EventIs
    <2>2. pipe.turn \in D!Ids
      BY <1>10, TurnIs DEF D!Begin, Ending
    <2>3. /\ loop' = [loop EXCEPT !.pc = "note"]
          /\ told' = Append(told, D!Event("start", pipe.turn, dconn.turn, <<>>))
          /\ post' = [post EXCEPT ![pipe.turn].pc = "new"]
          /\ pipe' = [pipe EXCEPT !.post = pipe.turn, !.postTurn = pipe.turn]
          /\ UNCHANGED <<dconn, fed, lost>>
      BY <1>10 DEF D!Begin, D!Await, D!Tell
    <2>4. pipe' \in PipeType /\ post' \in [D!Ids -> TaskType]
      BY <1>0, <2>2, <2>3, PipeSet, PostSet, ZenonT(60)
    <2> QED BY <1>e, <2>1, <2>3, <2>4
  <1>11. CASE D!Note
    <2>1. D!Event("note_created", pipe.turn, dconn.turn, loop.words) \in ToldEvents
      BY <1>p, EventIs
    <2>2. /\ loop' = [pc |-> "read", words |-> <<>>, prev |-> None]
          /\ \/ told' = Append(told, D!Event("note_created", pipe.turn, dconn.turn, loop.words))
             \/ UNCHANGED told
          /\ UNCHANGED <<dconn, pipe, post, fed, lost>>
      BY <1>11 DEF D!Note, D!Tell
    <2>3. loop' \in LoopType
      <3>1. [pc |-> "read", words |-> <<>>, prev |-> None] \in LoopType
        BY <1>0 DEF LoopType
      <3> QED BY <2>2, <3>1
    <2>4. told' \in Seq(ToldEvents)
      <3>1. CASE told' = told
        BY <1>0, <3>1
      <3>2. CASE told' = Append(told, D!Event("note_created", pipe.turn, dconn.turn, loop.words))
        <4>1. \A s \in Seq(ToldEvents), e \in ToldEvents : Append(s, e) \in Seq(ToldEvents)
          OBVIOUS
        <4> QED BY <1>0, <2>1, <3>2, <4>1, Zenon
      <3> QED BY <2>2, <3>1, <3>2
    <2>5. /\ dconn' \in ConnType /\ pipe' \in PipeType /\ post' \in [D!Ids -> TaskType]
          /\ fed' \in [D!Ids -> 0..MaxWords] /\ lost' \subseteq D!Words
      <3>1. dconn' = dconn /\ pipe' = pipe /\ post' = post /\ fed' = fed /\ lost' = lost
        BY <2>2
      <3> QED BY <1>0, <3>1
    <2> QED BY <2>3, <2>4, <2>5 DEF DictTyped
  <1>12. CASE D!Cancel
    <2>1. /\ pipe' = [pipe EXCEPT !.post = None, !.buf = <<>>]
          /\ lost' = lost \cup D!ToSet(pipe.buf) /\ UNCHANGED <<dconn, told, fed>>
          /\ \/ /\ loop' = [loop EXCEPT !.pc = "ack", !.prev = pipe.post]
                /\ post' = [post EXCEPT ![pipe.post].cancel = TRUE]
             \/ UNCHANGED <<loop, post>>
      BY <1>12 DEF D!Cancel, D!Lose
    <2>2. pipe' \in PipeType /\ lost' \subseteq D!Words
      BY <1>0, <1>p, <1>s, <2>1, PipeSet, ZenonT(60)
    <2>3. loop' \in LoopType /\ post' \in [D!Ids -> TaskType]
      <3>1. [loop EXCEPT !.pc = "ack", !.prev = pipe.post] \in LoopType
        BY <1>0, <1>p, LoopPcs, LoopSet, ZenonT(60)
      <3>2. [post EXCEPT ![pipe.post].cancel = TRUE] \in [D!Ids -> TaskType]
        BY <1>0, PostSet
      <3> QED BY <1>0, <2>1, <3>1, <3>2
    <2> QED BY <1>0, <2>1, <2>2, <2>3 DEF DictTyped
  <1>13. CASE D!Ack
    <2>1. loop' = [loop EXCEPT !.pc = "read", !.prev = None] /\ UNCHANGED <<dconn, pipe, post, told, fed, lost>>
      BY <1>13 DEF D!Ack
    <2>2. loop' \in LoopType
      BY <1>0, <2>1, LoopPcs, LoopSet, ZenonT(60)
    <2> QED BY <1>0, <2>1, <2>2 DEF DictTyped
  <1>14. CASE D!Shutdown
    <2>1. /\ dconn' = [dconn EXCEPT !.down = TRUE]
          /\ pipe' = [pipe EXCEPT !.post = None, !.buf = <<>>]
          /\ lost' = lost \cup D!ToSet(pipe.buf) /\ UNCHANGED <<loop, told, fed>>
          /\ post' = post \/ post' = [post EXCEPT ![pipe.post].cancel = TRUE]
      BY <1>14 DEF D!Shutdown, D!Lose
    <2>2. dconn' \in ConnType
      BY <1>0, <2>1, ZenonT(60) DEF ConnType
    <2>3. pipe' \in PipeType /\ lost' \subseteq D!Words
      BY <1>0, <1>p, <1>s, <2>1, PipeSet, ZenonT(60)
    <2>4. post' \in [D!Ids -> TaskType]
      <3>1. [post EXCEPT ![pipe.post].cancel = TRUE] \in [D!Ids -> TaskType]
        BY <1>0, PostSet
      <3> QED BY <1>0, <2>1, <3>1
    <2> QED BY <1>0, <2>1, <2>2, <2>3, <2>4 DEF DictTyped
  <1>15. ASSUME NEW i \in D!Ids, D!Post(i) PROVE DictTyped'
    <2>1. /\ UNCHANGED <<dconn, pipe, loop, fed, lost>>
          /\ \E pc \in {"llm", "done", "error", "over", "done2", "error2"} :
               post' = [post EXCEPT ![i] = [pc |-> pc, cancel |-> FALSE]]
          /\ \/ UNCHANGED told
             \/ \E type \in {"dictation_summary", "failed"} :
                  told' = Append(told, D!Event(type, i, i, <<>>))
      <3>1. CASE D!PostBegin(i) \/ D!PostReply(i) \/ D!PostCancelled(i)
        BY <3>1 DEF D!PostBegin, D!PostReply, D!PostCancelled, D!PostGoto
      <3>2. CASE D!PostTell(i)
        BY <3>2 DEF D!PostTell, D!Tell, D!PostGoto
      <3> QED BY <1>15, <3>1, <3>2 DEF D!Post
    <2>2. post' \in [D!Ids -> TaskType]
      <3>1. PICK pc \in {"llm", "done", "error", "over", "done2", "error2"} :
              post' = [post EXCEPT ![i] = [pc |-> pc, cancel |-> FALSE]]
        BY <2>1
      <3>2. pc \in {"none", "new", "llm", "over", "done", "done2", "error", "error2"}
        OBVIOUS
      <3> QED BY <1>0, <3>1, <3>2, PostSet
    <2>3. told' \in Seq(ToldEvents)
      <3>1. ASSUME NEW type \in {"dictation_summary", "failed"}
            PROVE  D!Event(type, i, i, <<>>) \in ToldEvents
        <4>1. type \in {"stt", "dictation_summary", "failed", "cancelled", "start",
                         "note_created"} /\ i \in D!Ids \cup {0}
          OBVIOUS
        <4> QED BY <1>0, <4>1, EventIs
      <3>2. CASE UNCHANGED told
        BY <1>0, <3>2
      <3>3. ASSUME NEW type \in {"dictation_summary", "failed"},
                   told' = Append(told, D!Event(type, i, i, <<>>))
            PROVE  told' \in Seq(ToldEvents)
        BY <1>0, <3>1, <3>3
      <3> QED BY <2>1, <3>2, <3>3
    <2> QED BY <1>0, <2>1, <2>2, <2>3 DEF DictTyped
  <1> QED BY <1>1, <1>2, <1>3, <1>4, <1>5, <1>6, <1>7, <1>8, <1>9, <1>10, <1>11, <1>12,
        <1>13, <1>14, <1>15 DEF D!Next, D!Loop

-----------------------------------------------------------------------------
(* What the actions do, field by field.                                    *)

SamePipe == /\ pipe'.dictating = pipe.dictating /\ pipe'.buf = pipe.buf
            /\ pipe'.segs = pipe.segs /\ pipe'.turn = pipe.turn

LEMMA SetOfTwo ==
    ASSUME NEW s \in Seq(D!Words), NEW t \in Seq(D!Words)
    PROVE  D!ToSet(s \o t) = D!ToSet(s) \cup D!ToSet(t)
  <1>1. /\ D!ToSet(s) = {s[k] : k \in 1..Len(s)} /\ D!ToSet(t) = {t[k] : k \in 1..Len(t)}
        /\ D!ToSet(s \o t) = {(s \o t)[k] : k \in 1..(Len(s) + Len(t))}
    BY DEF D!ToSet
  <1>2. \A k \in 1..(Len(s) + Len(t)) :
          (s \o t)[k] = IF k <= Len(s) THEN s[k] ELSE t[k - Len(s)]
    BY ConcatProperties
  <1>3. ASSUME NEW k \in 1..(Len(s) + Len(t))
        PROVE  (s \o t)[k] \in D!ToSet(s) \cup D!ToSet(t)
    <2>1. CASE k <= Len(s)
      <3>1. k \in 1..Len(s)
        BY <2>1
      <3> QED BY <1>1, <1>2, <2>1, <3>1
    <2>2. CASE k > Len(s)
      <3>1. k - Len(s) \in 1..Len(t) /\ ~(k <= Len(s))
        BY <2>2
      <3> QED BY <1>1, <1>2, <3>1
    <2> QED BY <2>1, <2>2
  <1>4. ASSUME NEW k \in 1..Len(s) PROVE s[k] \in D!ToSet(s \o t)
    <2>1. k \in 1..(Len(s) + Len(t)) /\ (s \o t)[k] = s[k]
      BY <1>2
    <2> QED BY <1>1, <2>1
  <1>5. ASSUME NEW k \in 1..Len(t) PROVE t[k] \in D!ToSet(s \o t)
    <2>1. Len(s) + k \in 1..(Len(s) + Len(t)) /\ ~(Len(s) + k <= Len(s)) /\ (Len(s) + k) - Len(s) = k
      OBVIOUS
    <2>2. (s \o t)[Len(s) + k] = t[k]
      BY <1>2, <2>1
    <2> QED BY <1>1, <2>1, <2>2
  <1> HIDE DEF D!ToSet
  <1> QED BY <1>1, <1>3, <1>4, <1>5

LEMMA StartDoes ==
    ASSUME DictTyped, NEW m \in {"ask", "dictate"}, D!Start(m)
    PROVE  /\ loop.pc = "read" /\ UNCHANGED <<loop, post, told, fed>>
           /\ dconn'.mode = m /\ dconn'.turn = dconn.turn + 1 /\ dconn'.down = dconn.down
           /\ dconn.turn + 1 \in D!Ids /\ pipe'.post = pipe.post
           /\ \/ /\ m = "dictate" /\ pipe'.dictating = TRUE /\ pipe'.turn = dconn.turn + 1
                 /\ pipe'.buf = <<>> /\ pipe'.segs = <<>>
                 /\ lost' = lost \cup D!ToSet(pipe.buf) \cup D!ToSet(pipe.segs)
              \/ /\ m = "ask" /\ pipe'.dictating = FALSE /\ pipe'.turn = pipe.turn
                 /\ pipe'.buf = pipe.buf /\ pipe'.segs = pipe.segs /\ lost' = lost
  <1>1. dconn \in ConnType /\ pipe \in PipeType
    BY DEF DictTyped
  <1>2. /\ dconn' = [dconn EXCEPT !.mode = m, !.turn = dconn.turn + 1]
        /\ dconn.turn < MaxStarts /\ loop.pc = "read" /\ UNCHANGED <<loop, post, told, fed>>
        /\ pipe' = IF m = "dictate"
                   THEN [pipe EXCEPT !.dictating = TRUE, !.buf = <<>>, !.segs = <<>>,
                                     !.turn = dconn.turn + 1]
                   ELSE [pipe EXCEPT !.dictating = FALSE]
        /\ lost' = IF m = "dictate" THEN lost \cup D!ToSet(pipe.buf \o pipe.segs) ELSE lost
    BY DEF D!Start
  <1>3. /\ dconn'.mode = m /\ dconn'.turn = dconn.turn + 1 /\ dconn'.down = dconn.down
        /\ dconn.turn \in D!Ids \cup {0}
    BY <1>1, <1>2 DEF ConnType
  <1>4. dconn.turn + 1 \in D!Ids
    BY <1>2, <1>3, IdsAre
  <1>5. D!ToSet(pipe.buf \o pipe.segs) = D!ToSet(pipe.buf) \cup D!ToSet(pipe.segs)
    BY <1>1, PipeIs, SetOfTwo
  <1>6. CASE m = "dictate"
    <2>1. /\ pipe'.dictating = TRUE /\ pipe'.turn = dconn.turn + 1 /\ pipe'.post = pipe.post
          /\ pipe'.buf = <<>> /\ pipe'.segs = <<>>
      BY <1>1, <1>2, <1>6 DEF PipeType
    <2> QED BY <1>2, <1>3, <1>4, <1>5, <1>6, <2>1
  <1>7. CASE m = "ask"
    <2>1. /\ pipe'.dictating = FALSE /\ pipe'.turn = pipe.turn /\ pipe'.post = pipe.post
          /\ pipe'.buf = pipe.buf /\ pipe'.segs = pipe.segs
      BY <1>1, <1>2, <1>7 DEF PipeType
    <2> QED BY <1>2, <1>3, <1>4, <1>7, <2>1
  <1> QED BY <1>6, <1>7

LEMMA FeedDoes ==
    ASSUME DictTyped, DictTurns, D!Feed
    PROVE  \E w \in D!Words :
           /\ w.of = pipe.turn /\ w.n = fed[pipe.turn] + 1 /\ pipe.turn = dconn.turn
           /\ pipe.turn \in D!Ids /\ fed' = [fed EXCEPT ![pipe.turn] = w.n]
           /\ loop.pc = "read" /\ pipe.dictating /\ UNCHANGED <<dconn, loop, post, told>>
           /\ pipe'.dictating = pipe.dictating /\ pipe'.segs = pipe.segs
           /\ pipe'.turn = pipe.turn /\ pipe'.post = pipe.post
           /\ \/ lost' = lost \cup {w} /\ pipe'.buf = pipe.buf
              \/ lost' = lost /\ pipe'.buf = Append(pipe.buf, w)
  <1> DEFINE w == [of |-> dconn.turn, n |-> fed[dconn.turn] + 1]
  <1>1. pipe \in PipeType /\ fed \in [D!Ids -> 0..MaxWords]
    BY DEF DictTyped
  <1>2. dconn.turn \in D!Ids /\ pipe.turn = dconn.turn
    BY TurnIs DEF D!Feed
  <1>3. fed[dconn.turn] + 1 \in 1..MaxWords
    <2>1. fed[dconn.turn] \in 0..MaxWords /\ fed[dconn.turn] < MaxWords /\ MaxWords \in Nat
      BY <1>1, <1>2, IdsAre DEF D!Feed
    <2> QED BY <2>1
  <1>4. w \in D!Words /\ w.of = pipe.turn /\ w.n = fed[pipe.turn] + 1
    BY <1>2, <1>3 DEF D!Words
  <1>5. /\ UNCHANGED <<dconn, loop, post, told>> /\ loop.pc = "read" /\ pipe.dictating
        /\ fed' = [fed EXCEPT ![dconn.turn] = fed[dconn.turn] + 1]
        /\ \/ lost' = lost \cup D!ToSet(<<w>>) /\ UNCHANGED pipe
           \/ pipe' = [pipe EXCEPT !.buf = Append(pipe.buf, w)] /\ UNCHANGED lost
    BY DEF D!Feed, D!Lose
  <1> HIDE DEF w
  <1>6. D!ToSet(<<w>>) = {w}
    BY DEF D!ToSet
  <1>7. CASE lost' = lost \cup D!ToSet(<<w>>) /\ UNCHANGED pipe
    BY <1>2, <1>4, <1>5, <1>6, <1>7
  <1>8. CASE pipe' = [pipe EXCEPT !.buf = Append(pipe.buf, w)] /\ UNCHANGED lost
    <2>1. /\ pipe'.dictating = pipe.dictating /\ pipe'.segs = pipe.segs
          /\ pipe'.turn = pipe.turn /\ pipe'.post = pipe.post
          /\ pipe'.buf = Append(pipe.buf, w)
      BY <1>1, <1>8 DEF PipeType
    <2> QED BY <1>2, <1>4, <1>5, <1>8, <2>1
  <1> QED BY <1>5, <1>7, <1>8

\* What is in the buffer goes to the transcriber, or is too short and lost.
LEMMA SegmentDoes ==
    ASSUME DictTyped, D!Segment \/ D!StopLast
    PROVE  /\ loop.pc = "read" /\ dconn.mode = "dictate"
           /\ UNCHANGED <<dconn, post, told, fed>> /\ loop'.prev = loop.prev
           /\ pipe'.dictating = pipe.dictating /\ pipe'.segs = pipe.segs
           /\ pipe'.turn = pipe.turn /\ pipe'.post = pipe.post /\ pipe'.buf = <<>>
           /\ \/ loop'.pc \in {"segment", "last"} /\ loop'.words = pipe.buf /\ lost' = lost
              \/ loop'.pc = "read" /\ lost' = lost \cup D!ToSet(pipe.buf)
  <1>1. pipe \in PipeType /\ loop \in LoopType
    BY DEF DictTyped
  <1>2. /\ loop.pc = "read" /\ dconn.mode = "dictate" /\ UNCHANGED <<dconn, post, told, fed>>
        /\ pipe' = [pipe EXCEPT !.buf = <<>>]
        /\ \/ loop' = [loop EXCEPT !.pc = "segment", !.words = pipe.buf] /\ lost' = lost
           \/ loop' = [loop EXCEPT !.pc = "last", !.words = pipe.buf] /\ lost' = lost
           \/ loop' = [loop EXCEPT !.pc = "read"] /\ lost' = lost \cup D!ToSet(pipe.buf)
    BY DEF D!Segment, D!Take, D!StopLast, D!Await, D!Lose
  <1>3. /\ pipe'.dictating = pipe.dictating /\ pipe'.segs = pipe.segs
        /\ pipe'.turn = pipe.turn /\ pipe'.post = pipe.post /\ pipe'.buf = <<>>
    BY <1>1, <1>2 DEF PipeType
  <1>4. /\ loop'.prev = loop.prev
        /\ \/ loop'.pc \in {"segment", "last"} /\ loop'.words = pipe.buf /\ lost' = lost
           \/ loop'.pc = "read" /\ lost' = lost \cup D!ToSet(pipe.buf)
    BY <1>1, <1>2 DEF LoopType
  <1> QED BY <1>2, <1>3, <1>4

LEMMA SegmentDoneDoes ==
    ASSUME DictTyped, D!SegmentDone
    PROVE  /\ loop.pc = "segment" /\ loop'.pc = "read" /\ loop'.prev = loop.prev
           /\ UNCHANGED <<dconn, post, told, fed>>
           /\ pipe'.dictating = pipe.dictating /\ pipe'.buf = pipe.buf
           /\ pipe'.turn = pipe.turn /\ pipe'.post = pipe.post
           /\ \/ pipe'.segs = pipe.segs \o loop.words /\ lost' = lost
              \/ pipe'.segs = pipe.segs /\ lost' = lost \cup D!ToSet(loop.words)
  <1>1. pipe \in PipeType /\ loop \in LoopType
    BY DEF DictTyped
  <1>2. /\ loop.pc = "segment" /\ loop' = [loop EXCEPT !.pc = "read", !.words = <<>>]
        /\ UNCHANGED <<dconn, post, told, fed>>
        /\ \/ pipe' = [pipe EXCEPT !.segs = pipe.segs \o loop.words] /\ UNCHANGED lost
           \/ UNCHANGED pipe /\ lost' = lost \cup D!ToSet(loop.words)
    BY DEF D!SegmentDone, D!Lose
  <1>3. loop'.pc = "read" /\ loop'.prev = loop.prev
    BY <1>1, <1>2 DEF LoopType
  <1>4. CASE pipe' = [pipe EXCEPT !.segs = pipe.segs \o loop.words] /\ UNCHANGED lost
    <2>1. /\ pipe'.dictating = pipe.dictating /\ pipe'.buf = pipe.buf
          /\ pipe'.turn = pipe.turn /\ pipe'.post = pipe.post
          /\ pipe'.segs = pipe.segs \o loop.words
      BY <1>1, <1>4 DEF PipeType
    <2> QED BY <1>2, <1>3, <1>4, <2>1
  <1>5. CASE UNCHANGED pipe /\ lost' = lost \cup D!ToSet(loop.words)
    BY <1>2, <1>3, <1>5
  <1> QED BY <1>2, <1>4, <1>5

Heard(segs) == D!Event("stt", dconn.turn, dconn.turn, segs)
Short == D!Event("dictation_summary", dconn.turn, dconn.turn, <<>>)

LEMMA HeardIs ==
    ASSUME DictTyped, DictTurns, NEW segs \in Seq(D!Words)
    PROVE  /\ Heard(segs) \in ToldEvents /\ Heard(segs).type = "stt"
           /\ Heard(segs).of = dconn.turn /\ Heard(segs).words = segs
           /\ Short \in ToldEvents /\ Short.type = "dictation_summary"
           /\ Short.of = dconn.turn /\ Short.turn = dconn.turn
  <1>1. dconn.turn \in D!Ids \cup {0} /\ <<>> \in Seq(D!Words)
    BY TurnIs
  <1>2. /\ D!Event("stt", dconn.turn, dconn.turn, segs) \in ToldEvents
        /\ D!Event("dictation_summary", dconn.turn, dconn.turn, <<>>) \in ToldEvents
    BY <1>1, EventIs
  <1>3. /\ D!Event("stt", dconn.turn, dconn.turn, segs).type = "stt"
        /\ D!Event("stt", dconn.turn, dconn.turn, segs).of = dconn.turn
        /\ D!Event("stt", dconn.turn, dconn.turn, segs).words = segs
        /\ D!Event("dictation_summary", dconn.turn, dconn.turn, <<>>).type = "dictation_summary"
        /\ D!Event("dictation_summary", dconn.turn, dconn.turn, <<>>).of = dconn.turn
        /\ D!Event("dictation_summary", dconn.turn, dconn.turn, <<>>).turn = dconn.turn
    BY DEF D!Event
  <1> QED BY <1>2, <1>3 DEF Heard, Short

LEMMA TextDoes ==
    ASSUME DictTyped, DictTurns, NEW segs \in Seq(D!Words), D!Text(segs)
    PROVE  /\ pipe'.dictating = FALSE /\ pipe'.buf = <<>> /\ pipe'.segs = <<>>
           /\ pipe'.turn = pipe.turn
           /\ \/ /\ loop'.pc = "read" /\ UNCHANGED post /\ pipe'.post = pipe.post
                 /\ \/ segs = <<>> /\ told' = told
                    \/ segs # <<>> /\ told' = Append(Append(told, Heard(segs)), Short)
              \/ /\ segs # <<>> /\ ~D!Running(pipe.post) /\ told' = Append(told, Heard(segs))
                 /\ loop'.pc = "begin" /\ loop'.words = segs /\ UNCHANGED post
                 /\ pipe'.post = pipe.post
              \/ /\ segs # <<>> /\ told' = Append(told, Heard(segs))
                 /\ loop'.pc = "abandon" /\ loop'.words = segs /\ loop'.prev = pipe.post
                 /\ post' = [post EXCEPT ![pipe.post].cancel = TRUE]
                 /\ pipe'.post = None
  <1> DEFINE reset == [pipe EXCEPT !.segs = <<>>, !.buf = <<>>, !.dictating = FALSE]
  <1>1. pipe \in PipeType /\ told \in Seq(ToldEvents)
    BY DEF DictTyped
  <1>2. /\ reset.dictating = FALSE /\ reset.buf = <<>> /\ reset.segs = <<>>
        /\ reset.turn = pipe.turn /\ reset.post = pipe.post
    BY <1>1 DEF PipeType
  <1>3. LET other == [reset EXCEPT !.post = None] IN
        /\ other.dictating = FALSE /\ other.buf = <<>> /\ other.segs = <<>>
        /\ other.turn = pipe.turn /\ other.post = None
    BY <1>1 DEF PipeType
  <1>4. told \o <<Heard(segs), Short>> = Append(Append(told, Heard(segs)), Short)
    BY <1>1, HeardIs, TwoTold
  <1>5. \/ /\ told' = IF segs = <<>> THEN told ELSE told \o <<Heard(segs), Short>>
           /\ loop' = [pc |-> "read", words |-> <<>>, prev |-> None]
           /\ pipe' = reset /\ UNCHANGED post
        \/ /\ told' = Append(told, Heard(segs)) /\ segs # <<>> /\ ~D!Running(pipe.post)
           /\ loop' = [pc |-> "begin", words |-> segs, prev |-> None]
           /\ pipe' = reset /\ UNCHANGED post
        \/ /\ told' = Append(told, Heard(segs)) /\ segs # <<>>
           /\ loop' = [pc |-> "abandon", words |-> segs, prev |-> pipe.post]
           /\ post' = [post EXCEPT ![pipe.post].cancel = TRUE]
           /\ pipe' = [reset EXCEPT !.post = None]
    BY DEF D!Text, D!Tell, Heard, Short
  <1>6. CASE /\ told' = IF segs = <<>> THEN told ELSE told \o <<Heard(segs), Short>>
             /\ loop' = [pc |-> "read", words |-> <<>>, prev |-> None]
             /\ pipe' = reset /\ UNCHANGED post
    <2>1. loop'.pc = "read"
      BY <1>6
    <2> HIDE DEF reset
    <2>2. \/ segs = <<>> /\ told' = told
          \/ segs # <<>> /\ told' = Append(Append(told, Heard(segs)), Short)
      BY <1>4, <1>6
    <2> QED BY <1>2, <1>6, <2>1, <2>2
  <1>7. CASE /\ told' = Append(told, Heard(segs)) /\ segs # <<>> /\ ~D!Running(pipe.post)
             /\ loop' = [pc |-> "begin", words |-> segs, prev |-> None]
             /\ pipe' = reset /\ UNCHANGED post
    <2>1. loop'.pc = "begin" /\ loop'.words = segs
      BY <1>7
    <2> HIDE DEF reset
    <2> QED BY <1>2, <1>7, <2>1
  <1>8. CASE /\ told' = Append(told, Heard(segs)) /\ segs # <<>>
             /\ loop' = [pc |-> "abandon", words |-> segs, prev |-> pipe.post]
             /\ post' = [post EXCEPT ![pipe.post].cancel = TRUE]
             /\ pipe' = [reset EXCEPT !.post = None]
    <2>1. loop'.pc = "abandon" /\ loop'.words = segs /\ loop'.prev = pipe.post
      BY <1>8
    <2> HIDE DEF reset
    <2> QED BY <1>3, <1>8, <2>1
  <1> HIDE DEF reset
  <1> QED BY <1>5, <1>6, <1>7, <1>8

\* Between a text and the next word: the loop tells, and waits for a task.
LEMMA LoopDoes ==
    ASSUME DictTyped, DictTurns,
           D!Abandon \/ D!Give \/ D!Begin \/ D!Note \/ D!Ack
    PROVE  /\ SamePipe /\ UNCHANGED <<dconn, fed, lost>>
           /\ \/ /\ loop.pc = "abandon" /\ loop'.pc = "give" /\ ~D!Running(loop.prev)
                 /\ loop'.words = loop.words /\ UNCHANGED post /\ pipe'.post = pipe.post
                 /\ \E e \in ToldEvents : e.type = "cancelled" /\ told' = Append(told, e)
              \/ /\ loop.pc = "give" /\ loop'.pc = "begin" /\ UNCHANGED post
                 /\ loop'.words = loop.words /\ pipe'.post = pipe.post
                 /\ \E e \in ToldEvents : e.type = "cancelled" /\ told' = Append(told, e)
              \/ /\ loop.pc = "begin" /\ loop'.pc = "note" /\ loop'.words = loop.words
                 /\ pipe.turn \in D!Ids /\ pipe'.post = pipe.turn
                 /\ post' = [post EXCEPT ![pipe.turn].pc = "new"]
                 /\ \E e \in ToldEvents :
                      e.type = "start" /\ e.of = pipe.turn /\ told' = Append(told, e)
              \/ /\ loop.pc = "note" /\ loop'.pc = "read" /\ UNCHANGED post
                 /\ pipe'.post = pipe.post
                 /\ \/ told' = told
                    \/ \E e \in ToldEvents :
                         /\ e.type = "note_created" /\ e.of = pipe.turn
                         /\ e.words = loop.words /\ told' = Append(told, e)
              \/ /\ loop.pc = "ack" /\ loop'.pc = "read" /\ ~D!Running(loop.prev)
                 /\ pipe'.post = pipe.post /\ UNCHANGED <<post, told>>
  <1>1. /\ pipe \in PipeType /\ loop \in LoopType /\ <<>> \in Seq(D!Words)
        /\ dconn.turn \in D!Ids \cup {0}
    BY TurnIs DEF DictTyped
  <1>2. /\ pipe.turn \in D!Ids \cup {0} /\ pipe.postTurn \in D!Ids \cup {0}
        /\ loop.words \in Seq(D!Words)
    BY <1>1, PipeIs, LoopIs
  <1>4. \A pc : /\ [loop EXCEPT !.pc = pc].pc = pc /\ [loop EXCEPT !.pc = pc].words = loop.words
    BY <1>1 DEF LoopType
  <1>5. CASE D!Abandon
    <2>1. /\ loop.pc = "abandon" /\ ~D!Running(loop.prev) /\ loop' = [loop EXCEPT !.pc = "give"]
          /\ told' = Append(told, D!Event("cancelled", pipe.postTurn, pipe.postTurn, <<>>))
          /\ UNCHANGED <<dconn, pipe, post, fed, lost>>
      BY <1>5 DEF D!Abandon, D!Await, D!Tell
    <2>2. D!Event("cancelled", pipe.postTurn, pipe.postTurn, <<>>) \in ToldEvents
      BY <1>1, <1>2, EventIs
    <2>5. D!Event("cancelled", pipe.postTurn, pipe.postTurn, <<>>).type = "cancelled"
      BY DEF D!Event
    <2>3. loop'.pc = "give" /\ loop'.words = loop.words
      BY <1>4, <2>1
    <2>4. \E e \in ToldEvents : e.type = "cancelled" /\ told' = Append(told, e)
      BY <2>1, <2>2, <2>5
    <2> QED BY <2>1, <2>3, <2>4 DEF SamePipe
  <1>6. CASE D!Give
    <2>1. /\ loop.pc = "give" /\ loop' = [loop EXCEPT !.pc = "begin"]
          /\ told' = Append(told, D!Event("cancelled", pipe.postTurn, dconn.turn, <<>>))
          /\ UNCHANGED <<dconn, pipe, post, fed, lost>>
      BY <1>6 DEF D!Give, D!Await, D!Tell
    <2>2. D!Event("cancelled", pipe.postTurn, dconn.turn, <<>>) \in ToldEvents
      BY <1>1, <1>2, EventIs
    <2>5. D!Event("cancelled", pipe.postTurn, dconn.turn, <<>>).type = "cancelled"
      BY DEF D!Event
    <2>3. loop'.pc = "begin" /\ loop'.words = loop.words
      BY <1>4, <2>1
    <2>4. \E e \in ToldEvents : e.type = "cancelled" /\ told' = Append(told, e)
      BY <2>1, <2>2, <2>5
    <2> QED BY <2>1, <2>3, <2>4 DEF SamePipe
  <1>7. CASE D!Begin
    <2>1. /\ loop.pc = "begin" /\ loop' = [loop EXCEPT !.pc = "note"]
          /\ told' = Append(told, D!Event("start", pipe.turn, dconn.turn, <<>>))
          /\ post' = [post EXCEPT ![pipe.turn].pc = "new"]
          /\ pipe' = [pipe EXCEPT !.post = pipe.turn, !.postTurn = pipe.turn]
          /\ UNCHANGED <<dconn, fed, lost>>
      BY <1>7 DEF D!Begin, D!Await, D!Tell
    <2>2. pipe.turn \in D!Ids
      BY <2>1, TurnIs DEF Ending
    <2>3. SamePipe /\ pipe'.post = pipe.turn
      BY <1>1, <2>1 DEF SamePipe, PipeType
    <2>4. D!Event("start", pipe.turn, dconn.turn, <<>>) \in ToldEvents
      BY <1>1, <1>2, EventIs
    <2>7. /\ D!Event("start", pipe.turn, dconn.turn, <<>>).type = "start"
          /\ D!Event("start", pipe.turn, dconn.turn, <<>>).of = pipe.turn
      BY DEF D!Event
    <2>5. loop'.pc = "note" /\ loop'.words = loop.words
      BY <1>4, <2>1
    <2>6. \E e \in ToldEvents : e.type = "start" /\ e.of = pipe.turn /\ told' = Append(told, e)
      BY <2>1, <2>4, <2>7
    <2> QED BY <2>1, <2>2, <2>3, <2>5, <2>6
  <1>8. CASE D!Note
    <2>1. /\ loop.pc = "note" /\ loop' = [pc |-> "read", words |-> <<>>, prev |-> None]
          /\ \/ told' = Append(told, D!Event("note_created", pipe.turn, dconn.turn, loop.words))
             \/ UNCHANGED told
          /\ UNCHANGED <<dconn, pipe, post, fed, lost>>
      BY <1>8 DEF D!Note, D!Tell
    <2>2. D!Event("note_created", pipe.turn, dconn.turn, loop.words) \in ToldEvents
      BY <1>1, <1>2, EventIs
    <2>5. LET e == D!Event("note_created", pipe.turn, dconn.turn, loop.words) IN
          e.type = "note_created" /\ e.of = pipe.turn /\ e.words = loop.words
      BY DEF D!Event
    <2>3. loop'.pc = "read"
      BY <2>1
    <2>4. \/ told' = told
          \/ \E e \in ToldEvents :
               /\ e.type = "note_created" /\ e.of = pipe.turn
               /\ e.words = loop.words /\ told' = Append(told, e)
      BY <2>1, <2>2, <2>5
    <2> QED BY <2>1, <2>3, <2>4 DEF SamePipe
  <1>9. CASE D!Ack
    <2>1. /\ loop.pc = "ack" /\ ~D!Running(loop.prev)
          /\ loop' = [loop EXCEPT !.pc = "read", !.prev = None]
          /\ UNCHANGED <<dconn, pipe, post, told, fed, lost>>
      BY <1>9 DEF D!Ack
    <2>2. loop'.pc = "read"
      BY <1>1, <2>1 DEF LoopType
    <2> QED BY <2>1, <2>2 DEF SamePipe
  <1> QED BY <1>5, <1>6, <1>7, <1>8, <1>9

\* A cancel, and a shutdown.
LEMMA CancelDoes ==
    ASSUME DictTyped, D!Cancel \/ D!Shutdown
    PROVE  /\ UNCHANGED <<told, fed>> /\ dconn'.mode = dconn.mode /\ dconn'.turn = dconn.turn
           /\ pipe'.dictating = pipe.dictating /\ pipe'.segs = pipe.segs
           /\ pipe'.turn = pipe.turn /\ pipe'.buf = <<>> /\ pipe'.post = None
           /\ lost' = lost \cup D!ToSet(pipe.buf) /\ loop'.words = loop.words
           /\ post' = post \/ post' = [post EXCEPT ![pipe.post].cancel = TRUE]
           /\ \/ loop' = loop /\ dconn'.down
              \/ /\ loop.pc = "read" /\ loop'.pc = "read" /\ dconn'.down = dconn.down
                 /\ ~D!Running(pipe.post)
              \/ /\ loop.pc = "read" /\ loop'.pc = "ack" /\ loop'.prev = pipe.post
                 /\ dconn'.down = dconn.down
  <1>1. pipe \in PipeType /\ loop \in LoopType /\ dconn \in ConnType
    BY DEF DictTyped
  <1>2. /\ pipe' = [pipe EXCEPT !.post = None, !.buf = <<>>] /\ UNCHANGED <<told, fed>>
        /\ lost' = lost \cup D!ToSet(pipe.buf)
        /\ post' = post \/ post' = [post EXCEPT ![pipe.post].cancel = TRUE]
        /\ \/ loop' = loop /\ dconn' = [dconn EXCEPT !.down = TRUE]
           \/ loop.pc = "read" /\ loop' = loop /\ dconn' = dconn /\ ~D!Running(pipe.post)
           \/ /\ loop.pc = "read" /\ loop' = [loop EXCEPT !.pc = "ack", !.prev = pipe.post]
              /\ dconn' = dconn
    BY DEF D!Cancel, D!Shutdown, D!Lose
  <1>3. /\ pipe'.dictating = pipe.dictating /\ pipe'.segs = pipe.segs
        /\ pipe'.turn = pipe.turn /\ pipe'.buf = <<>> /\ pipe'.post = None
    BY <1>1, <1>2 DEF PipeType
  <1>4. /\ [dconn EXCEPT !.down = TRUE].mode = dconn.mode /\ [dconn EXCEPT !.down = TRUE].down
        /\ [dconn EXCEPT !.down = TRUE].turn = dconn.turn
    BY <1>1 DEF ConnType
  <1>5. LET l == [loop EXCEPT !.pc = "ack", !.prev = pipe.post] IN
        l.pc = "ack" /\ l.prev = pipe.post /\ l.words = loop.words
    BY <1>1 DEF LoopType
  <1> QED BY <1>2, <1>3, <1>4, <1>5

\* The task: it is alive before, and what it tells is of its own turn.
LEMMA PostDoes ==
    ASSUME DictTyped, NEW i \in D!Ids, D!Post(i)
    PROVE  /\ UNCHANGED <<dconn, pipe, loop, fed, lost>> /\ Alive(i)
           /\ \E pc : post' = [post EXCEPT ![i] = [pc |-> pc, cancel |-> FALSE]]
           /\ \/ UNCHANGED told
              \/ \E e \in ToldEvents :
                   /\ e.type \in {"dictation_summary", "failed"} /\ e.of = i /\ e.turn = i
                   /\ told' = Append(told, e)
  <1>1. CASE D!PostBegin(i) \/ D!PostReply(i) \/ D!PostCancelled(i)
    BY <1>1 DEF D!PostBegin, D!PostReply, D!PostCancelled, D!PostGoto, Alive
  <1>2. CASE D!PostTell(i)
    <2>1. /\ UNCHANGED <<dconn, pipe, loop, fed, lost>> /\ Alive(i)
          /\ \E pc : post' = [post EXCEPT ![i] = [pc |-> pc, cancel |-> FALSE]]
          /\ \E type \in {"dictation_summary", "failed"} :
               told' = Append(told, D!Event(type, i, i, <<>>))
      BY <1>2 DEF D!PostTell, D!PostGoto, D!Tell, Alive
    <2>2. ASSUME NEW type \in {"dictation_summary", "failed"}
          PROVE  LET e == D!Event(type, i, i, <<>>) IN
                 e \in ToldEvents /\ e.type = type /\ e.of = i /\ e.turn = i
      <3>1. /\ type \in {"stt", "dictation_summary", "failed", "cancelled", "start",
                         "note_created"}
            /\ i \in D!Ids \cup {0} /\ <<>> \in Seq(D!Words)
        OBVIOUS
      <3>2. D!Event(type, i, i, <<>>) \in ToldEvents
        BY <3>1, EventIs
      <3>3. LET e == D!Event(type, i, i, <<>>) IN e.type = type /\ e.of = i /\ e.turn = i
        BY DEF D!Event
      <3> QED BY <3>2, <3>3
    <2> QED BY <2>1, <2>2
  <1> QED BY <1>1, <1>2 DEF D!Post

-----------------------------------------------------------------------------
(* Order.                                                                  *)

LEMMA NoneAscends ==
    \A i, s : Ascends(<<>>, i) /\ Under(<<>>, s) /\ Under(s, <<>>)
  BY DEF Ascends, Under

LEMMA SetOfNone == D!ToSet(<<>>) = {}
  BY DEF D!ToSet

LEMMA SetOf ==
    ASSUME NEW s \in Seq(D!Words)
    PROVE  /\ D!ToSet(s) \subseteq D!Words /\ (s # <<>> <=> D!ToSet(s) # {})
           /\ \A k \in 1..Len(s) : s[k] \in D!ToSet(s) /\ s[k] \in D!Words
           /\ \A w \in D!ToSet(s) : \E k \in 1..Len(s) : w = s[k]
  <1>1. \A k \in 1..Len(s) : s[k] \in D!ToSet(s) /\ s[k] \in D!Words
    BY DEF D!ToSet
  <1>2. \A w \in D!ToSet(s) : \E k \in 1..Len(s) : w = s[k]
    BY DEF D!ToSet
  <1>3. s # <<>> => 1 \in 1..Len(s)
    OBVIOUS
  <1>4. s = <<>> => D!ToSet(s) = {}
    BY SetOfNone
  <1> QED BY <1>1, <1>2, <1>3, <1>4

LEMMA WordIs ==
    /\ \A w \in D!Words : w.of \in D!Ids /\ w.n \in Nat \ {0}
    /\ \A v, w \in D!Words : v.of = w.of /\ v.n = w.n => v = w
  BY IdsAre DEF D!Words

LEMMA OfOne ==
    ASSUME NEW s \in Seq(D!Words), NEW i, Ascends(s, i)
    PROVE  \A w \in D!ToSet(s) : w.of = i
  BY SetOf DEF Ascends

LEMMA Apart ==
    ASSUME NEW s \in Seq(D!Words), NEW t \in Seq(D!Words), Under(s, t)
    PROVE  D!ToSet(s) \cap D!ToSet(t) = {}
  <1>1. ASSUME NEW w \in D!ToSet(s), w \in D!ToSet(t) PROVE FALSE
    <2>1. PICK j \in 1..Len(s) : w = s[j]
      BY SetOf
    <2>2. PICK k \in 1..Len(t) : w = t[k]
      BY <1>1, SetOf
    <2>3. w.n < w.n /\ w \in D!Words
      BY <2>1, <2>2, SetOf DEF Under
    <2>4. w.n \in Nat
      BY <2>3, WordIs
    <2> QED BY <2>3, <2>4
  <1> QED BY <1>1

LEMMA OrderOfTwo ==
    ASSUME NEW s \in Seq(D!Words), NEW t \in Seq(D!Words), NEW i,
           Ascends(s, i), Ascends(t, i), Under(s, t)
    PROVE  Ascends(s \o t, i)
  <1> DEFINE u == s \o t
  <1>1. /\ \A k \in 1..Len(s) : u[k] = s[k]
        /\ \A k \in (Len(s) + 1)..(Len(s) + Len(t)) : k - Len(s) \in 1..Len(t) /\ u[k] = t[k - Len(s)]
        /\ Len(u) = Len(s) + Len(t) /\ Len(s) \in Nat /\ Len(t) \in Nat
    <2>1. \A k \in 1..(Len(s) + Len(t)) : u[k] = IF k <= Len(s) THEN s[k] ELSE t[k - Len(s)]
      BY ConcatProperties
    <2>2. Len(u) = Len(s) + Len(t) /\ Len(s) \in Nat /\ Len(t) \in Nat
      OBVIOUS
    <2> HIDE DEF u
    <2> QED BY <2>1, <2>2
  <1> HIDE DEF u
  <1>2. \A k \in 1..Len(u) : u[k].of = i
    BY <1>1 DEF Ascends
  <1>3. ASSUME NEW j \in 1..Len(u), NEW k \in 1..Len(u), j < k PROVE u[j].n < u[k].n
    <2>1. CASE k <= Len(s)
      BY <1>1, <1>3, <2>1 DEF Ascends
    <2>2. CASE j <= Len(s) /\ k > Len(s)
      <3>1. j \in 1..Len(s) /\ k \in (Len(s) + 1)..(Len(s) + Len(t))
        BY <1>1, <2>2
      <3>2. u[j] = s[j] /\ u[k] = t[k - Len(s)] /\ k - Len(s) \in 1..Len(t)
        BY <1>1, <3>1
      <3> QED BY <3>1, <3>2 DEF Under
    <2>3. CASE j > Len(s)
      <3>1. /\ j \in (Len(s) + 1)..(Len(s) + Len(t)) /\ k \in (Len(s) + 1)..(Len(s) + Len(t))
            /\ j - Len(s) < k - Len(s)
        BY <1>1, <1>3, <2>3
      <3>2. /\ u[j] = t[j - Len(s)] /\ u[k] = t[k - Len(s)]
            /\ j - Len(s) \in 1..Len(t) /\ k - Len(s) \in 1..Len(t)
        BY <1>1, <3>1
      <3> QED BY <3>1, <3>2 DEF Ascends
    <2> QED BY <1>1, <2>1, <2>2, <2>3
  <1>4. Ascends(u, i)
    BY <1>2, <1>3 DEF Ascends
  <1> QED BY <1>4 DEF u

\* Under, as a fact about the words.
LEMMA UnderIs ==
    ASSUME NEW s \in Seq(D!Words), NEW t \in Seq(D!Words)
    PROVE  Under(s, t) <=> \A v \in D!ToSet(s), w \in D!ToSet(t) : v.n < w.n
  <1>1. /\ \A j \in 1..Len(s) : s[j] \in D!ToSet(s)
        /\ \A k \in 1..Len(t) : t[k] \in D!ToSet(t)
    BY SetOf
  <1>2. /\ \A v \in D!ToSet(s) : \E j \in 1..Len(s) : v = s[j]
        /\ \A w \in D!ToSet(t) : \E k \in 1..Len(t) : w = t[k]
    BY SetOf
  <1>3. ASSUME \A v \in D!ToSet(s), w \in D!ToSet(t) : v.n < w.n
        PROVE  Under(s, t)
    BY <1>1, <1>3 DEF Under
  <1>4. ASSUME Under(s, t), NEW v \in D!ToSet(s), NEW w \in D!ToSet(t)
        PROVE  v.n < w.n
    <2>1. PICK j \in 1..Len(s) : v = s[j]
      BY <1>2
    <2>2. PICK k \in 1..Len(t) : w = t[k]
      BY <1>2
    <2> QED BY <1>4, <2>1, <2>2 DEF Under
  <1> QED BY <1>3, <1>4

LEMMA OrderOfNext ==
    ASSUME NEW s \in Seq(D!Words), NEW w \in D!Words, Ascends(s, w.of),
           \A v \in D!ToSet(s) : v.n < w.n
    PROVE  /\ Ascends(Append(s, w), w.of)
           /\ D!ToSet(Append(s, w)) = D!ToSet(s) \cup {w}
  <1>1. Append(s, w) = s \o <<w>> /\ <<w>> \in Seq(D!Words) /\ Len(<<w>>) = 1 /\ <<w>>[1] = w
    OBVIOUS
  <1>2. D!ToSet(<<w>>) = {w}
    BY DEF D!ToSet
  <1>3. Ascends(<<w>>, w.of)
    BY <1>1 DEF Ascends
  <1>4. Under(s, <<w>>)
    BY <1>1, <1>2, UnderIs
  <1>5. Ascends(s \o <<w>>, w.of)
    BY <1>1, <1>3, <1>4, OrderOfTwo
  <1>6. D!ToSet(s \o <<w>>) = D!ToSet(s) \cup {w}
    BY <1>1, <1>2, SetOfTwo
  <1> QED BY <1>1, <1>5, <1>6

\* One more event.
LEMMA SetOfTold ==
    ASSUME NEW s \in Seq(ToldEvents), NEW e \in ToldEvents
    PROVE  D!ToSet(Append(s, e)) = D!ToSet(s) \cup {e}
  <1>1. /\ D!ToSet(s) = {s[k] : k \in 1..Len(s)}
        /\ D!ToSet(Append(s, e)) = {Append(s, e)[k] : k \in 1..(Len(s) + 1)}
    BY DEF D!ToSet
  <1>2. /\ \A k \in 1..Len(s) : Append(s, e)[k] = s[k]
        /\ Append(s, e)[Len(s) + 1] = e /\ Len(s) \in Nat
    OBVIOUS
  <1> HIDE DEF D!ToSet
  <1> QED BY <1>1, <1>2

LEMMA TellOne ==
    ASSUME DictTyped, NEW e \in ToldEvents, told' = Append(told, e)
    PROVE  Events' = Events \cup {e}
  BY SetOfTold DEF DictTyped, Events

LEMMA TellNone == ASSUME told' = told PROVE Events' = Events
  BY DEF Events

LEMMA TellTwo ==
    ASSUME DictTyped, NEW e \in ToldEvents, NEW f \in ToldEvents,
           told' = Append(Append(told, e), f)
    PROVE  Events' = Events \cup {e, f}
  <1>1. told \in Seq(ToldEvents) /\ Append(told, e) \in Seq(ToldEvents)
    BY DEF DictTyped
  <1>2. /\ D!ToSet(Append(told, e)) = D!ToSet(told) \cup {e}
        /\ D!ToSet(Append(Append(told, e), f)) = D!ToSet(Append(told, e)) \cup {f}
    BY <1>1, SetOfTold
  <1>3. Events' = D!ToSet(told') /\ Events = D!ToSet(told)
    BY DEF Events
  <1> QED BY <1>2, <1>3

LEMMA EventsAre == ASSUME DictTyped PROVE Events \subseteq ToldEvents
  BY DEF DictTyped, Events, D!ToSet

LEMMA InTimeNext ==
    ASSUME NEW s \in Seq(ToldEvents), NEW e \in ToldEvents, InTime(s),
           e.type \in {"dictation_summary", "failed"} =>
             \A f \in D!ToSet(s) : f.type = "start" => e.of >= f.of
    PROVE  InTime(Append(s, e))
  <1> DEFINE t == Append(s, e)
  <1>1. /\ \A k \in 1..Len(s) : t[k] = s[k] /\ s[k] \in D!ToSet(s)
        /\ t[Len(s) + 1] = e /\ Len(s) \in Nat
        /\ DOMAIN t = 1..(Len(s) + 1) /\ DOMAIN s = 1..Len(s)
    BY DEF D!ToSet
  <1> HIDE DEF t
  <1>2. ASSUME NEW j \in DOMAIN t, NEW k \in DOMAIN t, j < k, t[j].type = "start",
               t[k].type \in {"dictation_summary", "failed"}
        PROVE  t[k].of >= t[j].of
    <2>1. j \in 1..Len(s)
      BY <1>1, <1>2
    <2>2. CASE k \in 1..Len(s)
      BY <1>1, <1>2, <2>1, <2>2 DEF InTime
    <2>3. CASE k = Len(s) + 1
      BY <1>1, <1>2, <2>1, <2>3
    <2> QED BY <1>1, <2>2, <2>3
  <1> QED BY <1>2 DEF InTime, t

LEMMA EndDoes ==
    ASSUME DictTyped, DictTurns, D!Stop \/ D!LastDone
    PROVE  /\ UNCHANGED <<dconn, fed>> /\ dconn.mode = "dictate" /\ loop.pc \in {"read", "last"}
           /\ \/ \E segs \in Seq(D!Words) :
                   /\ D!Text(segs)
                   /\ \/ /\ loop.pc = "read" /\ segs = pipe.segs
                         /\ lost' = lost \cup D!ToSet(pipe.buf)
                      \/ loop.pc = "last" /\ segs = pipe.segs \o loop.words /\ lost' = lost
                      \/ /\ loop.pc = "last" /\ segs = pipe.segs
                         /\ lost' = lost \cup D!ToSet(loop.words)
              \/ /\ loop.pc = "last" /\ loop'.pc = "dead" /\ UNCHANGED <<pipe, post, told>>
                 /\ lost' = lost \cup D!ToSet(loop.words)
  <1>1. pipe.segs \in Seq(D!Words) /\ loop.words \in Seq(D!Words) /\ loop \in LoopType
    BY PipeIs, LoopIs DEF DictTyped
  <1>2. CASE D!Stop
    <2>1. /\ UNCHANGED <<dconn, fed>> /\ dconn.mode = "dictate" /\ loop.pc = "read"
          /\ D!Text(pipe.segs) /\ lost' = lost \cup D!ToSet(pipe.buf)
      BY <1>2 DEF D!Stop, D!Lose
    <2> QED BY <1>1, <2>1
  <1>3. CASE D!LastDone
    <2>1. /\ UNCHANGED <<dconn, fed>> /\ loop.pc = "last"
          /\ \/ D!Text(pipe.segs \o loop.words) /\ lost' = lost
             \/ D!Text(pipe.segs) /\ lost' = lost \cup D!ToSet(loop.words)
             \/ /\ loop' = [loop EXCEPT !.pc = "dead"] /\ UNCHANGED <<pipe, post, told>>
                /\ lost' = lost \cup D!ToSet(loop.words)
      BY <1>3 DEF D!LastDone, D!Lose, D!Await
    <2>2. dconn.mode = "dictate"
      BY <2>1, TurnIs
    <2>3. pipe.segs \o loop.words \in Seq(D!Words)
      BY <1>1
    <2>4. [loop EXCEPT !.pc = "dead"].pc = "dead"
      BY <1>1 DEF LoopType
    <2> QED BY <1>1, <2>1, <2>2, <2>3, <2>4
  <1> QED BY <1>2, <1>3

-----------------------------------------------------------------------------
(* The turns.                                                              *)

LEMMA DictTurnsNext ==
    ASSUME DictTyped, DictTurns, D!Next
    PROVE  DictTurns' /\ pipe.turn <= pipe'.turn
  <1>0. /\ dconn.turn \in D!Ids \cup {0} /\ pipe.turn \in D!Ids \cup {0}
        /\ dconn.turn \in Nat /\ pipe.turn \in Nat /\ pipe.turn <= dconn.turn
        /\ \A i \in D!Ids : i \in Nat
    BY TurnIs, IdsAre DEF DictTurns
  <1>1. ASSUME NEW m \in {"ask", "dictate"}, D!Start(m)
        PROVE  DictTurns' /\ pipe.turn <= pipe'.turn
    <2>1. /\ loop'.pc = "read" /\ fed' = fed /\ dconn'.mode = m /\ dconn'.turn = dconn.turn + 1
          /\ \/ m = "dictate" /\ pipe'.dictating = TRUE /\ pipe'.turn = dconn.turn + 1
             \/ m = "ask" /\ pipe'.dictating = FALSE /\ pipe'.turn = pipe.turn
      BY <1>1, StartDoes
    <2> QED BY <1>0, <2>1 DEF DictTurns, Ending
  <1>2. CASE D!Feed
    <2>1. PICK w \in D!Words :
            /\ fed' = [fed EXCEPT ![pipe.turn] = w.n] /\ pipe.turn = dconn.turn
            /\ pipe.turn \in D!Ids /\ UNCHANGED <<dconn, loop>>
            /\ pipe'.dictating = pipe.dictating /\ pipe'.turn = pipe.turn
      BY <1>2, FeedDoes
    <2>2. \A i \in D!Ids : i > dconn.turn => fed'[i] = fed[i]
      BY <1>0, <2>1 DEF DictTyped
    <2> QED BY <1>0, <2>1, <2>2 DEF DictTurns
  <1>3. CASE D!Segment \/ D!StopLast
    <2>1. /\ dconn.mode = "dictate" /\ UNCHANGED <<dconn, fed>>
          /\ pipe'.dictating = pipe.dictating /\ pipe'.turn = pipe.turn
      BY <1>3, SegmentDoes
    <2> QED BY <1>0, <2>1 DEF DictTurns
  <1>4. CASE D!SegmentDone
    <2>1. /\ loop'.pc = "read" /\ UNCHANGED <<dconn, fed>>
          /\ pipe'.dictating = pipe.dictating /\ pipe'.turn = pipe.turn
      BY <1>4, SegmentDoneDoes
    <2> QED BY <1>0, <2>1 DEF DictTurns, Ending
  <1>5. CASE D!Stop \/ D!LastDone
    <2>1. UNCHANGED <<dconn, fed>> /\ dconn.mode = "dictate"
      BY <1>5, EndDoes
    <2>2. pipe'.turn = pipe.turn
      <3>1. CASE UNCHANGED pipe
        BY <3>1
      <3>2. ASSUME NEW segs \in Seq(D!Words), D!Text(segs) PROVE pipe'.turn = pipe.turn
        BY <3>2, TextDoes
      <3> QED BY <1>5, <3>1, <3>2, EndDoes
    <2> QED BY <1>0, <2>1, <2>2 DEF DictTurns
  <1>6. CASE D!Abandon \/ D!Give \/ D!Begin \/ D!Note \/ D!Ack
    <2>1. /\ pipe'.dictating = pipe.dictating /\ pipe'.turn = pipe.turn
          /\ UNCHANGED <<dconn, fed>>
      BY <1>6, LoopDoes DEF SamePipe
    <2>2. loop'.pc = "read" \/ loop.pc \in Ending
      BY <1>6, LoopDoes DEF Ending
    <2>3. loop'.pc \in {"segment", "last"} \cup Ending => loop.pc \in {"segment", "last"} \cup Ending
      BY <2>2 DEF Ending
    <2> QED BY <1>0, <2>1, <2>3 DEF DictTurns
  <1>7. CASE D!Cancel \/ D!Shutdown
    <2>1. /\ fed' = fed /\ dconn'.mode = dconn.mode /\ dconn'.turn = dconn.turn
          /\ pipe'.dictating = pipe.dictating /\ pipe'.turn = pipe.turn
          /\ loop'.pc = loop.pc \/ loop'.pc = "ack"
      BY <1>7, CancelDoes
    <2>2. loop'.pc \in {"segment", "last"} \cup Ending => loop.pc \in {"segment", "last"} \cup Ending
      BY <2>1 DEF Ending
    <2> QED BY <1>0, <2>1, <2>2 DEF DictTurns
  <1>8. ASSUME NEW i \in D!Ids, D!Post(i) PROVE DictTurns' /\ pipe.turn <= pipe'.turn
    <2>1. UNCHANGED <<dconn, pipe, loop, fed>>
      BY <1>8, PostDoes
    <2> QED BY <1>0, <2>1 DEF DictTurns
  <1> QED BY <1>1, <1>2, <1>3, <1>4, <1>5, <1>6, <1>7, <1>8 DEF D!Next, D!Loop

-----------------------------------------------------------------------------
(* The words.                                                              *)

LEMMA WordsIn ==
    ASSUME DictTyped
    PROVE  /\ pipe.segs \in Seq(D!Words) /\ pipe.buf \in Seq(D!Words) /\ AtStt \in Seq(D!Words)
           /\ loop.words \in Seq(D!Words)
           /\ Unsaid = D!ToSet(pipe.segs) \cup D!ToSet(AtStt) \cup D!ToSet(pipe.buf)
           /\ Unsaid \subseteq D!Words
  <1>1. /\ pipe.segs \in Seq(D!Words) /\ pipe.buf \in Seq(D!Words)
        /\ loop.words \in Seq(D!Words) /\ <<>> \in Seq(D!Words)
    BY PipeIs, LoopIs DEF DictTyped
  <1>2. AtStt \in Seq(D!Words)
    BY <1>1 DEF AtStt
  <1> QED BY <1>1, <1>2, SetOf DEF Unsaid

\* Nothing of what is buffered moves.
LEMMA OrderStays ==
    ASSUME DictOrder,
           pipe'.buf = pipe.buf, pipe'.segs = pipe.segs, pipe'.turn = pipe.turn,
           loop.pc \notin {"segment", "last"}, loop'.pc \notin {"segment", "last"},
           loop'.pc \in Ending => loop.pc \in Ending /\ loop'.words = loop.words
    PROVE  DictOrder' /\ Unsaid' = Unsaid
  <1>1. AtStt = <<>> /\ AtStt' = <<>>
    BY DEF AtStt
  <1>2. Unsaid' = Unsaid
    BY <1>1 DEF Unsaid
  <1> QED BY <1>1, <1>2 DEF DictOrder

LEMMA WordsStay ==
    ASSUME DictTyped, DictWords, pipe'.turn = pipe.turn, fed' = fed, lost \subseteq lost',
           Unsaid' \subseteq Unsaid, lost' \subseteq lost \cup (Unsaid \ Unsaid'),
           IsTold(pipe.turn)' \/ Unsaid \subseteq lost' \cup Unsaid',
           Events \subseteq Events'
    PROVE  DictWords'
  <1>1. \A w \in Unsaid' : w.of = pipe'.turn /\ w.n <= fed'[w.of] /\ w \notin lost'
    BY DEF DictWords
  <1>2. \A w \in lost' : w.n <= fed'[w.of]
    BY DEF DictWords
  <1>3. IsTold(pipe.turn) => IsTold(pipe.turn)'
    BY DEF IsTold
  <1>4. \A w \in D!Words : w.of = pipe'.turn /\ w.n <= fed'[w.of]
          => w \in lost' \cup Unsaid' \/ IsTold(pipe.turn)'
    BY <1>3 DEF DictWords
  <1> QED BY <1>1, <1>2, <1>4 DEF DictWords

\* What was said of an event stays true when words are lost that were unsaid.
LEMMA KeptStays ==
    ASSUME DictTyped, DictWords, NEW e \in ToldEvents, Said(e), e.type = "stt",
           fed' = fed, lost \subseteq lost', lost' \subseteq lost \cup Unsaid
    PROVE  D!Kept(e.of)' = D!Kept(e.of)
  <1>1. ASSUME NEW w \in lost', w \notin lost PROVE w.of # e.of
    <2>1. w \in Unsaid /\ w.of = pipe.turn
      BY <1>1 DEF DictWords
    <2>2. e.of = pipe.turn => Unsaid = {}
      BY DEF Said
    <2> QED BY <2>1, <2>2
  <1> QED BY <1>1 DEF D!Kept

LEMMA SaidStays ==
    ASSUME DictTyped, DictWords, NEW e \in ToldEvents, Said(e),
           pipe'.turn = pipe.turn, pipe'.dictating => pipe.dictating, fed' = fed,
           Unsaid' \subseteq Unsaid, lost \subseteq lost', lost' \subseteq lost \cup Unsaid
    PROVE  Said(e)'
  <1>1. e.type = "stt" => D!Kept(e.of)' = D!Kept(e.of)
    BY KeptStays
  <1> QED BY <1>1 DEF Said

LEMMA SaidAll ==
    ASSUME DictTyped, DictSaid, \A e \in ToldEvents : Said(e) => Said(e)',
           \A e \in Events' \ Events : Said(e)'
    PROVE  DictSaid'
  <1>1. \A e \in Events' : Said(e)'
    BY EventsAre DEF DictSaid
  <1> QED BY <1>1 DEF DictSaid

DictText == DictOrder /\ DictWords /\ DictSaid

LEMMA StartText ==
    ASSUME DictTyped, DictTurns, DictText, NEW m \in {"ask", "dictate"}, D!Start(m)
    PROVE  DictText'
  <1>0. /\ loop.pc = "read" /\ UNCHANGED <<loop, post, told, fed>>
        /\ dconn.turn + 1 \in D!Ids /\ Events' = Events
        /\ \/ /\ m = "dictate" /\ pipe'.dictating = TRUE /\ pipe'.turn = dconn.turn + 1
              /\ pipe'.buf = <<>> /\ pipe'.segs = <<>>
              /\ lost' = lost \cup D!ToSet(pipe.buf) \cup D!ToSet(pipe.segs)
           \/ /\ m = "ask" /\ pipe'.dictating = FALSE /\ pipe'.turn = pipe.turn
              /\ pipe'.buf = pipe.buf /\ pipe'.segs = pipe.segs /\ lost' = lost
    BY StartDoes, TellNone
  <1>1. CASE m = "ask"
    <2>1. DictOrder' /\ Unsaid' = Unsaid
      BY <1>0, <1>1, OrderStays DEF DictText, Ending
    <2>2. DictWords'
      BY <1>0, <1>1, <2>1, WordsStay DEF DictText
    <2>3. \A e \in ToldEvents : Said(e) => Said(e)'
      BY <1>0, <1>1, <2>1, SaidStays DEF DictText
    <2>4. DictSaid'
      BY <1>0, <2>3, SaidAll DEF DictText
    <2> QED BY <2>1, <2>2, <2>4 DEF DictText
  <1>2. CASE m = "dictate"
    <2>1. AtStt = <<>> /\ AtStt' = <<>>
      BY <1>0 DEF AtStt
    <2>2. Unsaid' = {}
      BY <1>0, <1>2, <2>1, SetOfNone DEF Unsaid
    <2>3. Unsaid = D!ToSet(pipe.segs) \cup D!ToSet(pipe.buf)
      BY <2>1, WordsIn, SetOfNone
    <2>4. DictOrder'
      BY <1>0, <1>2, <2>1, NoneAscends DEF DictOrder, Ending
    <2>5. lost' = lost \cup Unsaid
      BY <1>0, <1>2, <2>3
    <2>6. dconn.turn \in Nat /\ dconn.turn + 1 > dconn.turn /\ pipe.turn < dconn.turn + 1
          /\ pipe.turn \in Nat
      <3>1. dconn.turn \in Nat /\ pipe.turn \in Nat /\ pipe.turn <= dconn.turn
        BY TurnIs, IdsAre DEF DictTurns
      <3> QED BY <3>1
    <2>7. fed'[dconn.turn + 1] = 0
      BY <1>0, <2>6 DEF DictTurns
    <2>8. DictWords'
      <3>1. \A w \in lost' : w.n <= fed'[w.of]
        BY <1>0, <2>5 DEF DictText, DictWords
      <3>2. \A w \in D!Words : w.of = dconn.turn + 1 => ~(w.n <= fed'[w.of])
        BY <2>7, WordIs
      <3> QED BY <1>0, <1>2, <2>2, <3>1, <3>2 DEF DictWords
    <2>9. ASSUME NEW e \in ToldEvents, Said(e) PROVE Said(e)'
      <3>1. e.type = "stt" => D!Kept(e.of)' = D!Kept(e.of)
        BY <1>0, <2>5, <2>9, KeptStays DEF DictText
      <3>2. e.type \in {"stt", "start"} => e.of <= pipe'.turn /\ e.of # pipe'.turn
        <4>1. e.of \in Nat
          BY IdsAre DEF ToldEvents
        <4> QED BY <1>0, <1>2, <2>6, <2>9, <4>1 DEF Said
      <3> QED BY <2>9, <3>1, <3>2 DEF Said
    <2>10. DictSaid'
      BY <1>0, <2>9, SaidAll DEF DictText
    <2> QED BY <2>4, <2>8, <2>10 DEF DictText
  <1> QED BY <1>1, <1>2

LEMMA FeedText == ASSUME DictTyped, DictTurns, DictText, D!Feed PROVE DictText'
  <1>0. PICK w \in D!Words :
          /\ w.of = pipe.turn /\ w.n = fed[pipe.turn] + 1 /\ pipe.turn \in D!Ids
          /\ fed' = [fed EXCEPT ![pipe.turn] = w.n]
          /\ loop.pc = "read" /\ pipe.dictating /\ UNCHANGED <<dconn, loop, post, told>>
          /\ pipe'.dictating = pipe.dictating /\ pipe'.segs = pipe.segs
          /\ pipe'.turn = pipe.turn
          /\ \/ lost' = lost \cup {w} /\ pipe'.buf = pipe.buf
             \/ lost' = lost /\ pipe'.buf = Append(pipe.buf, w)
    BY FeedDoes
  <1>1. Events' = Events /\ AtStt = <<>> /\ AtStt' = <<>>
    BY <1>0, TellNone DEF AtStt
  <1>2. /\ fed[pipe.turn] \in Nat /\ w.n \in Nat /\ w.n = fed[pipe.turn] + 1 /\ fed'[w.of] = w.n
        /\ \A i \in D!Ids : i # w.of => fed'[i] = fed[i]
        /\ \A v \in D!Words : v.of \in D!Ids /\ v.n \in Nat
    BY <1>0, WordIs DEF DictTyped
  <1>3. /\ pipe.segs \in Seq(D!Words) /\ pipe.buf \in Seq(D!Words) /\ Unsaid \subseteq D!Words
        /\ Unsaid = D!ToSet(pipe.segs) \cup D!ToSet(pipe.buf) /\ lost \subseteq D!Words
    BY <1>1, WordsIn, SetOfNone DEF DictTyped
  <1>4. \A v \in Unsaid : v.of = w.of /\ v.n < w.n
    BY <1>0, <1>2, <1>3 DEF DictText, DictWords
  <1>5. w \notin lost /\ w \notin Unsaid
    <2>1. w \in lost => w.n <= fed[pipe.turn]
      BY <1>0 DEF DictText, DictWords
    <2> QED BY <1>2, <1>4, <2>1
  <1>6. /\ Ascends(pipe'.buf, pipe.turn) /\ Under(pipe.segs, pipe'.buf)
        /\ \/ lost' = lost \cup {w} /\ Unsaid' = Unsaid
           \/ lost' = lost /\ Unsaid' = Unsaid \cup {w}
    <2>1. CASE lost' = lost \cup {w} /\ pipe'.buf = pipe.buf
      <3>1. Unsaid' = Unsaid
        BY <1>0, <1>1, <2>1 DEF Unsaid
      <3> QED BY <2>1, <3>1 DEF DictText, DictOrder
    <2>2. CASE lost' = lost /\ pipe'.buf = Append(pipe.buf, w)
      <3>1. Ascends(pipe.buf, w.of) /\ \A v \in D!ToSet(pipe.buf) : v.n < w.n
        BY <1>0, <1>3, <1>4 DEF DictText, DictOrder
      <3>2. /\ Ascends(Append(pipe.buf, w), w.of)
            /\ D!ToSet(Append(pipe.buf, w)) = D!ToSet(pipe.buf) \cup {w}
        BY <1>3, <3>1, OrderOfNext
      <3>3. Append(pipe.buf, w) \in Seq(D!Words)
        BY <1>3
      <3>4. \A v \in D!ToSet(pipe.segs), u \in D!ToSet(Append(pipe.buf, w)) : v.n < u.n
        <4>1. \A v \in D!ToSet(pipe.segs), u \in D!ToSet(pipe.buf) : v.n < u.n
          BY <1>3, UnderIs DEF DictText, DictOrder
        <4> QED BY <1>3, <1>4, <3>2, <4>1
      <3>5. Under(pipe.segs, Append(pipe.buf, w))
        BY <1>3, <3>3, <3>4, UnderIs
      <3>6. Unsaid' = D!ToSet(pipe.segs) \cup D!ToSet(Append(pipe.buf, w))
        BY <1>0, <1>1, <2>2, SetOfNone DEF Unsaid
      <3> QED BY <1>0, <1>3, <2>2, <3>2, <3>5, <3>6
    <2> QED BY <1>0, <2>1, <2>2
  <1>7. DictOrder'
    BY <1>0, <1>1, <1>6, NoneAscends DEF DictText, DictOrder, Ending
  <1>8. DictWords'
    <2>1. \A v \in Unsaid' : v.of = pipe'.turn /\ v.n <= fed'[v.of] /\ v \notin lost'
      <3>1. \A v \in Unsaid : v.of = pipe.turn /\ v \notin lost
        BY DEF DictText, DictWords
      <3> QED BY <1>0, <1>2, <1>3, <1>4, <1>5, <1>6, <3>1
    <2>2. \A v \in lost' : v.n <= fed'[v.of]
      <3>1. ASSUME NEW v \in lost PROVE v.n <= fed'[v.of]
        <4>1. v \in D!Words /\ v.n <= fed[v.of]
          BY <1>3 DEF DictText, DictWords
        <4>2. CASE v.of = w.of
          BY <1>0, <1>2, <4>1, <4>2
        <4>3. CASE v.of # w.of
          BY <1>2, <4>1, <4>3
        <4> QED BY <4>2, <4>3
      <3> QED BY <1>2, <1>6, <3>1
    <2>3. ASSUME NEW v \in D!Words, v.of = pipe'.turn, v.n <= fed'[v.of]
          PROVE  v \in lost' \cup Unsaid' \/ IsTold(pipe.turn)'
      <3>1. CASE v.n = w.n
        <4>1. v = w
          BY <1>0, <2>3, <3>1, WordIs
        <4> QED BY <1>6, <4>1
      <3>2. CASE v.n # w.n
        <4>1. v.n <= fed[v.of] /\ v.of = pipe.turn
          BY <1>0, <1>2, <2>3, <3>2
        <4>2. v \in lost \cup Unsaid \/ IsTold(pipe.turn)
          BY <4>1 DEF DictText, DictWords
        <4>3. IsTold(pipe.turn) => IsTold(pipe.turn)'
          BY <1>0, <1>1 DEF IsTold
        <4> QED BY <1>6, <4>2, <4>3
      <3> QED BY <3>1, <3>2
    <2> QED BY <2>1, <2>2, <2>3 DEF DictWords
  <1>9. ASSUME NEW e \in ToldEvents, Said(e) PROVE Said(e)'
    <2>1. e.type = "stt" => e.of # w.of
      BY <1>0, <1>9 DEF Said
    <2>2. e.type = "stt" => D!Kept(e.of)' = D!Kept(e.of)
      <3>1. ASSUME e.type = "stt" PROVE D!Kept(e.of)' = D!Kept(e.of)
        <4>1. \A v \in D!Words : v.of = e.of => fed'[v.of] = fed[v.of] /\ (v \in lost' <=> v \in lost)
          BY <1>2, <1>6, <2>1, <3>1
        <4>2. D!Kept(e.of) = {v \in D!Words : v.of = e.of /\ v.n <= fed[v.of] /\ v \notin lost}
          BY DEF D!Kept
        <4>3. D!Kept(e.of)' = {v \in D!Words : v.of = e.of /\ v.n <= fed'[v.of] /\ v \notin lost'}
          BY DEF D!Kept
        <4> QED BY <4>1, <4>2, <4>3
      <3> QED BY <3>1
    <2> QED BY <1>0, <1>9, <2>1, <2>2 DEF Said
  <1>10. DictSaid'
    BY <1>1, <1>9, SaidAll DEF DictText
  <1> QED BY <1>7, <1>8, <1>10 DEF DictText

\* What goes to the transcriber, and what is lost of it.
LEMMA SegmentText ==
    ASSUME DictTyped, DictTurns, DictText, D!Segment \/ D!StopLast
    PROVE  DictText'
  <1>0. /\ loop.pc = "read" /\ UNCHANGED <<dconn, post, told, fed>>
        /\ pipe'.dictating = pipe.dictating /\ pipe'.segs = pipe.segs
        /\ pipe'.turn = pipe.turn /\ pipe'.buf = <<>>
        /\ \/ loop'.pc \in {"segment", "last"} /\ loop'.words = pipe.buf /\ lost' = lost
           \/ loop'.pc = "read" /\ lost' = lost \cup D!ToSet(pipe.buf)
    BY SegmentDoes
  <1>1. Events' = Events /\ AtStt = <<>>
    BY <1>0, TellNone DEF AtStt
  <1>2. /\ Unsaid = D!ToSet(pipe.segs) \cup D!ToSet(pipe.buf)
        /\ D!ToSet(pipe.segs) \cap D!ToSet(pipe.buf) = {}
    BY <1>1, WordsIn, SetOfNone, Apart DEF DictText, DictOrder
  <1>3. /\ DictOrder'
        /\ \/ Unsaid' = Unsaid /\ lost' = lost
           \/ Unsaid' = D!ToSet(pipe.segs) /\ lost' = lost \cup D!ToSet(pipe.buf)
    <2>1. CASE loop'.pc \in {"segment", "last"} /\ loop'.words = pipe.buf /\ lost' = lost
      <3>1. AtStt' = pipe.buf
        BY <2>1 DEF AtStt
      <3>2. DictOrder'
        BY <1>0, <2>1, <3>1, NoneAscends DEF DictText, DictOrder, Ending
      <3>3. Unsaid' = Unsaid
        BY <1>0, <1>2, <3>1, SetOfNone DEF Unsaid
      <3> QED BY <2>1, <3>2, <3>3
    <2>2. CASE loop'.pc = "read" /\ lost' = lost \cup D!ToSet(pipe.buf)
      <3>1. AtStt' = <<>>
        BY <2>2 DEF AtStt
      <3>2. DictOrder'
        BY <1>0, <2>2, <3>1, NoneAscends DEF DictText, DictOrder, Ending
      <3>3. Unsaid' = D!ToSet(pipe.segs)
        BY <1>0, <3>1, SetOfNone DEF Unsaid
      <3> QED BY <2>2, <3>2, <3>3
    <2> QED BY <1>0, <2>1, <2>2
  <1>4. /\ Unsaid' \subseteq Unsaid /\ lost \subseteq lost'
        /\ lost' \subseteq lost \cup (Unsaid \ Unsaid') /\ Unsaid \subseteq lost' \cup Unsaid'
    BY <1>2, <1>3
  <1>5. DictWords'
    BY <1>0, <1>1, <1>4, WordsStay DEF DictText
  <1>6. \A e \in ToldEvents : Said(e) => Said(e)'
    BY <1>0, <1>4, SaidStays DEF DictText
  <1>7. DictSaid'
    BY <1>1, <1>6, SaidAll DEF DictText
  <1> QED BY <1>3, <1>5, <1>7 DEF DictText

LEMMA SegmentDoneText ==
    ASSUME DictTyped, DictTurns, DictText, D!SegmentDone
    PROVE  DictText'
  <1>0. /\ loop.pc = "segment" /\ loop'.pc = "read" /\ UNCHANGED <<dconn, post, told, fed>>
        /\ pipe'.dictating = pipe.dictating /\ pipe'.buf = pipe.buf
        /\ pipe'.turn = pipe.turn
        /\ \/ pipe'.segs = pipe.segs \o loop.words /\ lost' = lost
           \/ pipe'.segs = pipe.segs /\ lost' = lost \cup D!ToSet(loop.words)
    BY SegmentDoneDoes
  <1>1. Events' = Events /\ AtStt = loop.words /\ AtStt' = <<>> /\ pipe.buf = <<>>
    BY <1>0, TellNone DEF AtStt, DictText, DictOrder
  <1>2. /\ pipe.segs \in Seq(D!Words) /\ loop.words \in Seq(D!Words)
        /\ Unsaid = D!ToSet(pipe.segs) \cup D!ToSet(loop.words)
        /\ D!ToSet(pipe.segs) \cap D!ToSet(loop.words) = {}
    BY <1>1, WordsIn, SetOfNone, Apart DEF DictText, DictOrder
  <1>3. /\ Ascends(pipe'.segs, pipe.turn)
        /\ \/ Unsaid' = Unsaid /\ lost' = lost
           \/ Unsaid' = D!ToSet(pipe.segs) /\ lost' = lost \cup D!ToSet(loop.words)
    <2>1. CASE pipe'.segs = pipe.segs \o loop.words /\ lost' = lost
      <3>1. Ascends(pipe.segs \o loop.words, pipe.turn)
        BY <1>1, <1>2, OrderOfTwo DEF DictText, DictOrder
      <3>2. D!ToSet(pipe.segs \o loop.words) = Unsaid
        BY <1>2, SetOfTwo
      <3>3. Unsaid' = D!ToSet(pipe.segs \o loop.words)
        BY <1>0, <1>1, <2>1, SetOfNone DEF Unsaid
      <3> QED BY <2>1, <3>1, <3>2, <3>3
    <2>2. CASE pipe'.segs = pipe.segs /\ lost' = lost \cup D!ToSet(loop.words)
      <3>1. Unsaid' = D!ToSet(pipe.segs)
        BY <1>0, <1>1, <2>2, SetOfNone DEF Unsaid
      <3> QED BY <2>2, <3>1 DEF DictText, DictOrder
    <2> QED BY <1>0, <2>1, <2>2
  <1>4. DictOrder'
    BY <1>0, <1>1, <1>3, NoneAscends DEF DictOrder, Ending
  <1>5. /\ Unsaid' \subseteq Unsaid /\ lost \subseteq lost'
        /\ lost' \subseteq lost \cup (Unsaid \ Unsaid') /\ Unsaid \subseteq lost' \cup Unsaid'
    BY <1>2, <1>3
  <1>6. DictWords'
    BY <1>0, <1>1, <1>5, WordsStay DEF DictText
  <1>7. \A e \in ToldEvents : Said(e) => Said(e)'
    BY <1>0, <1>5, SaidStays DEF DictText
  <1>8. DictSaid'
    BY <1>1, <1>7, SaidAll DEF DictText
  <1> QED BY <1>4, <1>6, <1>8 DEF DictText

LEMMA EndText ==
    ASSUME DictTyped, DictTurns, DictText, D!Stop \/ D!LastDone
    PROVE  DictText'
  <1>0. /\ UNCHANGED <<dconn, fed>> /\ dconn.mode = "dictate" /\ loop.pc \in {"read", "last"}
        /\ pipe.turn = dconn.turn
    BY EndDoes, TurnIs
  <1>1. /\ pipe.segs \in Seq(D!Words) /\ pipe.buf \in Seq(D!Words)
        /\ loop.words \in Seq(D!Words) /\ AtStt \in Seq(D!Words)
        /\ Unsaid = D!ToSet(pipe.segs) \cup D!ToSet(AtStt) \cup D!ToSet(pipe.buf)
        /\ Unsaid \subseteq D!Words
    BY WordsIn
  <1>3. /\ loop.pc = "read" => AtStt = <<>>
        /\ loop.pc = "last" => AtStt = loop.words /\ pipe.buf = <<>>
    BY DEF AtStt, DictText, DictOrder
  <1>4. /\ D!ToSet(pipe.segs) \cap D!ToSet(AtStt) = {}
        /\ D!ToSet(pipe.segs) \cap D!ToSet(pipe.buf) = {}
    BY <1>1, Apart DEF DictText, DictOrder
  <1>5. ASSUME NEW segs \in Seq(D!Words), D!Text(segs),
               \/ /\ loop.pc = "read" /\ segs = pipe.segs
                  /\ lost' = lost \cup D!ToSet(pipe.buf)
               \/ loop.pc = "last" /\ segs = pipe.segs \o loop.words /\ lost' = lost
               \/ /\ loop.pc = "last" /\ segs = pipe.segs
                  /\ lost' = lost \cup D!ToSet(loop.words)
        PROVE  DictText'
    <2>2. PICK h \in ToldEvents, g \in ToldEvents : h = Heard(segs) /\ g = Short
      BY HeardIs
    <2>0. /\ h.type = "stt" /\ h.of = pipe.turn /\ h.words = segs
          /\ g.type = "dictation_summary" /\ g.of = g.turn
      BY <1>0, <2>2, HeardIs
    <2>1. /\ pipe'.dictating = FALSE /\ pipe'.buf = <<>> /\ pipe'.segs = <<>>
          /\ pipe'.turn = pipe.turn /\ loop'.pc \in {"read", "begin", "abandon"}
          /\ loop'.pc \in {"begin", "abandon"} => loop'.words = segs
          /\ \/ segs = <<>> /\ told' = told
             \/ segs # <<>> /\ told' = Append(Append(told, h), g)
             \/ segs # <<>> /\ told' = Append(told, h)
      BY <1>5, <2>2, TextDoes
    <2>3. \/ segs = <<>> /\ Events' = Events
          \/ segs # <<>> /\ Events' = Events \cup {h, g}
          \/ segs # <<>> /\ Events' = Events \cup {h}
      BY <2>1, TellNone, TellOne, TellTwo
    <2>4. /\ Ascends(segs, pipe.turn) /\ D!ToSet(segs) \cup (lost' \ lost) \subseteq Unsaid
          /\ lost \subseteq lost' /\ Unsaid \subseteq lost' \cup D!ToSet(segs)
          /\ D!ToSet(segs) \cap lost' = {}
      <3>0. Unsaid \cap lost = {}
        BY DEF DictText, DictWords
      <3>1. CASE loop.pc = "read" /\ segs = pipe.segs /\ lost' = lost \cup D!ToSet(pipe.buf)
        BY <1>1, <1>3, <1>4, <3>0, <3>1, SetOfNone DEF DictText, DictOrder
      <3>2. CASE loop.pc = "last" /\ segs = pipe.segs \o loop.words /\ lost' = lost
        <4>1. Ascends(segs, pipe.turn)
          BY <1>1, <1>3, <3>2, OrderOfTwo DEF DictText, DictOrder
        <4>2. D!ToSet(segs) = Unsaid
          BY <1>1, <1>3, <3>2, SetOfNone, SetOfTwo
        <4> QED BY <3>0, <3>2, <4>1, <4>2
      <3>3. CASE loop.pc = "last" /\ segs = pipe.segs /\ lost' = lost \cup D!ToSet(loop.words)
        BY <1>1, <1>3, <1>4, <3>0, <3>3, SetOfNone DEF DictText, DictOrder
      <3> QED BY <1>5, <3>1, <3>2, <3>3
    <2>5. AtStt' = <<>> /\ Unsaid' = {}
      <3>1. AtStt' = <<>>
        BY <2>1 DEF AtStt
      <3> QED BY <2>1, <3>1, SetOfNone DEF Unsaid
    <2>6. DictOrder'
      BY <2>1, <2>4, <2>5, NoneAscends DEF DictOrder, Ending
    <2>7. Events \subseteq Events' /\ (IsTold(pipe.turn)' \/ Unsaid \subseteq lost')
      <3>1. CASE segs = <<>>
        BY <2>3, <2>4, <3>1, SetOfNone
      <3>2. CASE segs # <<>>
        <4>1. h \in Events' /\ Events \subseteq Events'
          BY <2>3, <3>2
        <4>2. IsTold(pipe.turn)'
          BY <2>0, <2>1, <4>1 DEF IsTold
        <4> QED BY <4>1, <4>2
      <3> QED BY <3>1, <3>2
    <2>8. /\ Unsaid' \subseteq Unsaid /\ lost' \subseteq lost \cup (Unsaid \ Unsaid')
          /\ IsTold(pipe.turn)' \/ Unsaid \subseteq lost' \cup Unsaid'
      BY <2>4, <2>5, <2>7
    <2>9. DictWords'
      BY <1>0, <2>1, <2>4, <2>7, <2>8, WordsStay DEF DictText
    <2>10. \A e \in ToldEvents : Said(e) => Said(e)'
      <3>1. (pipe'.dictating => pipe.dictating) /\ lost' \subseteq lost \cup Unsaid
        BY <2>1, <2>4
      <3> QED BY <1>0, <2>1, <2>4, <2>8, <3>1, SaidStays DEF DictText
    <2>11. Said(g)'
      BY <2>0 DEF Said
    <2>12. ASSUME segs # <<>> PROVE Said(h)'
      <3>1. ~IsTold(pipe.turn)
        <4>1. Unsaid # {}
          BY <2>4, <2>12, SetOf
        <4> QED BY <4>1 DEF IsTold, DictText, DictSaid, Said
      <3>2. D!ToSet(segs) = {w \in D!Words : w.of = pipe.turn /\ w.n <= fed[w.of]} \ lost'
        <4>1. ASSUME NEW w \in D!ToSet(segs)
              PROVE  w \in D!Words /\ w.of = pipe.turn /\ w.n <= fed[w.of] /\ w \notin lost'
          BY <1>1, <2>4 DEF DictText, DictWords
        <4>2. ASSUME NEW w \in D!Words, w.of = pipe.turn, w.n <= fed[w.of], w \notin lost'
              PROVE  w \in D!ToSet(segs)
          BY <2>4, <3>1, <4>2 DEF DictText, DictWords
        <4> QED BY <4>1, <4>2
      <3>3. D!ToSet(segs) = D!Kept(pipe.turn)'
        <4>1. D!Kept(pipe.turn)' = {w \in D!Words : w.of = pipe.turn /\ w.n <= fed[w.of]} \ lost'
          <5>1. D!Kept(pipe.turn)' = {w \in D!Words : w.of = pipe'.turn /\ w.n <= fed'[pipe'.turn]} \ lost'
            BY DEF D!Kept
          <5> QED BY <1>0, <2>1, <5>1
        <4> QED BY <3>2, <4>1
      <3>4. pipe.turn \in Nat
        BY TurnIs, IdsAre
      <3>5. D!Kept(h.of)' = D!Kept(pipe.turn)'
        BY <2>0, <2>1 DEF D!Kept
      <3> QED BY <2>0, <2>1, <2>4, <2>5, <3>3, <3>4, <3>5 DEF Said
    <2>13. DictSaid'
      <3>1. \A e \in Events' \ Events : Said(e)'
        BY <2>3, <2>11, <2>12
      <3> QED BY <2>10, <3>1, SaidAll DEF DictText
    <2> QED BY <2>6, <2>9, <2>13 DEF DictText
  <1>6. ASSUME loop.pc = "last", loop'.pc = "dead", UNCHANGED <<pipe, post, told>>,
               lost' = lost \cup D!ToSet(loop.words)
        PROVE  DictText'
    <2>1. AtStt' = <<>> /\ Events' = Events
      BY <1>6, TellNone DEF AtStt
    <2>2. Unsaid' = D!ToSet(pipe.segs)
      BY <1>3, <1>6, <2>1, SetOfNone DEF Unsaid
    <2>3. /\ Unsaid' \subseteq Unsaid /\ lost \subseteq lost'
          /\ lost' \subseteq lost \cup (Unsaid \ Unsaid') /\ Unsaid \subseteq lost' \cup Unsaid'
      BY <1>1, <1>3, <1>4, <1>6, <2>2, SetOfNone
    <2>4. DictOrder'
      BY <1>6, <2>1, NoneAscends DEF DictText, DictOrder, Ending
    <2>5. DictWords'
      BY <1>0, <1>6, <2>1, <2>3, WordsStay DEF DictText
    <2>6. \A e \in ToldEvents : Said(e) => Said(e)'
      BY <1>0, <1>6, <2>3, SaidStays DEF DictText
    <2>7. DictSaid'
      BY <2>1, <2>6, SaidAll DEF DictText
    <2> QED BY <2>4, <2>5, <2>7 DEF DictText
  <1> QED BY <1>5, <1>6, EndDoes

LEMMA LoopText ==
    ASSUME DictTyped, DictTurns, DictText, D!Abandon \/ D!Give \/ D!Begin \/ D!Note \/ D!Ack
    PROVE  DictText'
  <1>1. /\ SamePipe /\ UNCHANGED <<dconn, fed, lost>>
        /\ loop.pc \in {"abandon", "give", "begin", "note", "ack"}
        /\ \/ loop'.pc = "read"
           \/ loop'.pc \in Ending /\ loop.pc \in Ending /\ loop'.words = loop.words
    BY LoopDoes DEF Ending
  <1>2. DictOrder' /\ Unsaid' = Unsaid
    <2>1. loop.pc \notin {"segment", "last"} /\ loop'.pc \notin {"segment", "last"}
      BY <1>1 DEF Ending
    <2>2. loop'.pc \in Ending => loop.pc \in Ending /\ loop'.words = loop.words
      BY <1>1 DEF Ending
    <2> QED BY <1>1, <2>1, <2>2, OrderStays DEF DictText, SamePipe
  <1>3. \A e \in ToldEvents : Said(e) => Said(e)'
    BY <1>1, <1>2, SaidStays DEF DictText, SamePipe
  <1>4. \/ Events' = Events
        \/ \E e \in ToldEvents :
             /\ Events' = Events \cup {e}
             /\ \/ e.type = "cancelled"
                \/ e.type = "start" /\ e.of = pipe.turn
                \/ e.type = "note_created" /\ Ascends(e.words, e.of)
    <2>1. \/ told' = told
          \/ \E e \in ToldEvents :
               /\ told' = Append(told, e)
               /\ \/ e.type = "cancelled"
                  \/ e.type = "start" /\ e.of = pipe.turn
                  \/ /\ e.type = "note_created" /\ e.of = pipe.turn
                     /\ e.words = loop.words /\ loop.pc = "note"
      BY LoopDoes
    <2>2. loop.pc = "note" => Ascends(loop.words, pipe.turn)
      BY DEF DictText, DictOrder, Ending
    <2> QED BY <2>1, <2>2, TellNone, TellOne
  <1>5. Events \subseteq Events' /\ \A e \in Events' \ Events : Said(e)'
    <2>1. pipe.turn \in Nat /\ pipe'.turn = pipe.turn
      BY <1>1, TurnIs, IdsAre DEF SamePipe
    <2>2. ASSUME NEW e \in ToldEvents,
                 \/ e.type = "cancelled"
                 \/ e.type = "start" /\ e.of = pipe.turn
                 \/ e.type = "note_created" /\ Ascends(e.words, e.of)
          PROVE  Said(e)'
      BY <2>1, <2>2 DEF Said
    <2> QED BY <1>4, <2>2
  <1>6. DictWords'
    BY <1>1, <1>2, <1>5, WordsStay DEF DictText, SamePipe, DictWords
  <1>7. DictSaid'
    BY <1>3, <1>5, SaidAll DEF DictText
  <1> QED BY <1>2, <1>6, <1>7 DEF DictText

LEMMA CancelText ==
    ASSUME DictTyped, DictTurns, DictText, D!Cancel \/ D!Shutdown
    PROVE  DictText'
  <1>1. /\ UNCHANGED <<told, fed>> /\ pipe'.dictating = pipe.dictating
        /\ pipe'.segs = pipe.segs /\ pipe'.turn = pipe.turn /\ pipe'.buf = <<>>
        /\ lost' = lost \cup D!ToSet(pipe.buf) /\ loop'.words = loop.words
        /\ \/ loop'.pc = loop.pc
           \/ loop.pc = "read" /\ loop'.pc = "ack"
    BY CancelDoes
  <1>2. AtStt' = AtStt /\ Events' = Events
    BY <1>1, TellNone DEF AtStt
  <1>3. DictOrder'
    BY <1>1, <1>2, NoneAscends DEF DictText, DictOrder, Ending
  <1>4. /\ Unsaid = D!ToSet(pipe.segs) \cup D!ToSet(AtStt) \cup D!ToSet(pipe.buf)
        /\ D!ToSet(pipe.segs) \cap D!ToSet(pipe.buf) = {}
        /\ AtStt = <<>> \/ pipe.buf = <<>>
    <2>1. AtStt = <<>> \/ pipe.buf = <<>>
      BY DEF AtStt, DictText, DictOrder
    <2> QED BY <2>1, WordsIn, Apart DEF DictText, DictOrder
  <1>5. Unsaid' = D!ToSet(pipe.segs) \cup D!ToSet(AtStt)
    BY <1>1, <1>2, SetOfNone DEF Unsaid
  <1>6. /\ Unsaid' \subseteq Unsaid /\ lost \subseteq lost'
        /\ lost' \subseteq lost \cup (Unsaid \ Unsaid') /\ Unsaid \subseteq lost' \cup Unsaid'
    BY <1>1, <1>4, <1>5, SetOfNone
  <1>7. DictWords'
    BY <1>1, <1>2, <1>6, WordsStay DEF DictText
  <1>8. \A e \in ToldEvents : Said(e) => Said(e)'
    BY <1>1, <1>6, SaidStays DEF DictText
  <1>9. DictSaid'
    BY <1>2, <1>8, SaidAll DEF DictText
  <1> QED BY <1>3, <1>7, <1>9 DEF DictText

LEMMA PostText ==
    ASSUME DictTyped, DictTurns, DictText, NEW i \in D!Ids, D!Post(i)
    PROVE  DictText'
  <1>1. UNCHANGED <<dconn, pipe, loop, fed, lost>>
    BY PostDoes
  <1>2. \/ Events' = Events
        \/ \E e \in ToldEvents :
             /\ e.type \in {"dictation_summary", "failed"} /\ e.turn = e.of
             /\ Events' = Events \cup {e}
    BY PostDoes, TellNone, TellOne
  <1>3. DictOrder' /\ Unsaid' = Unsaid
    BY <1>1 DEF DictText, DictOrder, AtStt, Unsaid
  <1>4. Events \subseteq Events' /\ \A e \in Events' \ Events : Said(e)'
    <2>1. ASSUME NEW e \in ToldEvents, e.type \in {"dictation_summary", "failed"}, e.turn = e.of
          PROVE  Said(e)'
      BY <2>1 DEF Said
    <2> QED BY <1>2, <2>1
  <1>5. DictWords'
    BY <1>1, <1>3, <1>4, WordsStay DEF DictText, DictWords
  <1>6. \A e \in ToldEvents : Said(e) => Said(e)'
    BY <1>1, <1>3, SaidStays DEF DictText
  <1>7. DictSaid'
    BY <1>4, <1>6, SaidAll DEF DictText
  <1> QED BY <1>3, <1>5, <1>7 DEF DictText

-----------------------------------------------------------------------------
(* The tasks.                                                              *)

\* No task runs where the one that was waited for, or the one that is known, does not.
LEMMA NoneAlive ==
    ASSUME DictTyped, DictTasks, ~dconn.down,
           \/ loop.pc \in {"abandon", "ack"} /\ ~D!Running(loop.prev)
           \/ loop.pc \notin {"abandon", "ack"} /\ ~D!Running(pipe.post)
           \/ loop.pc \in {"give", "begin"}
    PROVE  \A i \in D!Ids : ~Alive(i)
  <1>1. \A i \in D!Ids : Alive(i) => D!Running(i)
    BY DictationAssumption DEF Alive, D!Running
  <1> QED BY <1>1 DEF DictTasks

\* To cancel a task leaves it as alive as it was.
LEMMA CancelAlive ==
    ASSUME DictTyped, NEW n, post' = post \/ post' = [post EXCEPT ![n].cancel = TRUE]
    PROVE  \A i \in D!Ids : Alive(i)' <=> Alive(i)
  <1>1. \A i \in D!Ids : post'[i].pc = post[i].pc
    <2>1. \A i \in D!Ids : post[i] \in TaskType
      BY DEF DictTyped
    <2>2. \A t \in TaskType : [t EXCEPT !.cancel = TRUE].pc = t.pc
      BY DEF TaskType
    <2>3. ASSUME NEW i \in D!Ids PROVE post'[i] = post[i] \/ post'[i] = [post[i] EXCEPT !.cancel = TRUE]
      BY DEF DictTyped
    <2> QED BY <2>1, <2>2, <2>3
  <1> QED BY <1>1 DEF Alive

\* Nothing starts, and nothing of a task is told.
LEMMA TasksStay ==
    ASSUME DictTyped, DictTasks, dconn'.down = dconn.down, told' = told,
           \A i \in D!Ids : Alive(i)' => Alive(i),
           \/ loop'.pc = loop.pc /\ loop'.prev = loop.prev /\ pipe'.post = pipe.post
           \/ /\ loop.pc \notin {"abandon", "ack", "give", "begin"}
              /\ loop'.pc \notin {"abandon", "ack", "give", "begin"} /\ pipe'.post = pipe.post
           \/ \A i \in D!Ids : ~Alive(i)
           \/ /\ loop.pc \notin {"abandon", "ack", "give", "begin"}
              /\ loop'.pc = "ack" /\ loop'.prev = pipe.post
    PROVE  DictTasks'
  <1> SUFFICES ASSUME ~dconn'.down
               PROVE  /\ \A i \in D!Ids : Alive(i)' =>
                           /\ loop'.pc \notin {"give", "begin"}
                           /\ i = IF loop'.pc \in {"abandon", "ack"} THEN loop'.prev ELSE pipe'.post
                      /\ \A i \in D!Ids, e \in Events' :
                           Alive(i)' /\ e.type = "start" => e.of <= i
                      /\ InTime(told')
    BY DEF DictTasks, InTime
  <1>1. Events' = Events /\ InTime(told')
    BY TellNone DEF DictTasks
  <1>2. ASSUME NEW i \in D!Ids, Alive(i)' 
        PROVE  /\ loop'.pc \notin {"give", "begin"}
               /\ i = IF loop'.pc \in {"abandon", "ack"} THEN loop'.prev ELSE pipe'.post
    <2>1. /\ Alive(i) /\ loop.pc \notin {"give", "begin"}
          /\ i = IF loop.pc \in {"abandon", "ack"} THEN loop.prev ELSE pipe.post
      BY <1>2 DEF DictTasks
    <2> QED BY <2>1
  <1> QED BY <1>1, <1>2 DEF DictTasks

LEMMA TextTasks ==
    ASSUME DictTyped, DictTurns, DictSaid, DictTasks, loop.pc \in {"read", "last"},
           NEW segs \in Seq(D!Words), D!Text(segs), UNCHANGED dconn, dconn.mode = "dictate"
    PROVE  DictTasks'
  <1> SUFFICES ASSUME ~dconn'.down
               PROVE  /\ \A i \in D!Ids : Alive(i)' =>
                           /\ loop'.pc \notin {"give", "begin"}
                           /\ i = IF loop'.pc \in {"abandon", "ack"} THEN loop'.prev ELSE pipe'.post
                      /\ \A i \in D!Ids, e \in Events' :
                           Alive(i)' /\ e.type = "start" => e.of <= i
                      /\ InTime(told')
    BY DEF DictTasks, InTime
  <1>0. ~dconn.down /\ pipe.turn = dconn.turn /\ pipe.turn \in Nat
    BY TurnIs, IdsAre
  <1>1. PICK h \in ToldEvents, g \in ToldEvents : h = Heard(segs) /\ g = Short
    BY HeardIs
  <1>2. /\ h.type = "stt" /\ h.words = segs
        /\ g.type = "dictation_summary" /\ g.of = pipe.turn
    BY <1>0, <1>1, HeardIs
  <1>3. /\ \/ loop'.pc = "read" /\ post' = post /\ pipe'.post = pipe.post
           \/ loop'.pc = "begin" /\ ~D!Running(pipe.post) /\ post' = post
           \/ /\ loop'.pc = "abandon" /\ loop'.prev = pipe.post
              /\ post' = [post EXCEPT ![pipe.post].cancel = TRUE]
        /\ \/ told' = told \/ told' = Append(Append(told, h), g) \/ told' = Append(told, h)
    BY <1>1, TextDoes
  <1>4. \A i \in D!Ids : Alive(i)' <=> Alive(i)
    BY <1>3, CancelAlive
  <1>5. ASSUME NEW i \in D!Ids, Alive(i)'
        PROVE  /\ loop'.pc \notin {"give", "begin"}
               /\ i = IF loop'.pc \in {"abandon", "ack"} THEN loop'.prev ELSE pipe'.post
    <2>1. Alive(i) /\ i = pipe.post
      BY <1>0, <1>4, <1>5 DEF DictTasks
    <2>2. D!Running(pipe.post)
      BY <2>1, DictationAssumption DEF Alive, D!Running
    <2> QED BY <1>3, <2>1, <2>2
  <1>6. \A e \in Events' : e \in Events \/ e.type # "start"
    BY <1>2, <1>3, TellNone, TellOne, TellTwo, ZenonT(60)
  <1>7. \A i \in D!Ids, e \in Events' : Alive(i)' /\ e.type = "start" => e.of <= i
    BY <1>0, <1>4, <1>6 DEF DictTasks
  <1>8. InTime(told')
    <2>1. told \in Seq(ToldEvents) /\ InTime(told)
      BY <1>0 DEF DictTyped, DictTasks
    <2>2. InTime(Append(told, h)) /\ Append(told, h) \in Seq(ToldEvents)
      BY <1>2, <2>1, InTimeNext
    <2>3. \A f \in D!ToSet(Append(told, h)) : f.type = "start" => g.of >= f.of
      <3>1. \A f \in D!ToSet(Append(told, h)) : f \in Events \/ f = h
        BY <2>1, SetOfTold DEF Events
      <3>2. ASSUME NEW f \in Events, f.type = "start" PROVE g.of >= f.of
        <4>1. f.of <= pipe.turn /\ f.of \in Nat
          BY <3>2, EventsAre, IdsAre DEF DictSaid, Said, ToldEvents
        <4> QED BY <1>0, <1>2, <4>1
      <3> QED BY <1>2, <3>1, <3>2
    <2>4. InTime(Append(Append(told, h), g))
      BY <2>2, <2>3, InTimeNext
    <2> QED BY <1>3, <2>1, <2>2, <2>4
  <1> QED BY <1>5, <1>7, <1>8

\* An event that is no news of a summary.
LEMMA TasksTell ==
    ASSUME DictTyped, InTime(told), NEW e \in ToldEvents, told' = Append(told, e),
           e.type \notin {"dictation_summary", "failed"}
    PROVE  InTime(told')
  BY InTimeNext DEF DictTyped

LEMMA LoopTasks ==
    ASSUME DictTyped, DictTurns, DictSaid, DictTasks,
           D!Abandon \/ D!Give \/ D!Begin \/ D!Note \/ D!Ack
    PROVE  DictTasks'
  <1> SUFFICES ASSUME ~dconn'.down
               PROVE  /\ \A i \in D!Ids : Alive(i)' =>
                           /\ loop'.pc \notin {"give", "begin"}
                           /\ i = IF loop'.pc \in {"abandon", "ack"} THEN loop'.prev ELSE pipe'.post
                      /\ \A i \in D!Ids, e \in Events' :
                           Alive(i)' /\ e.type = "start" => e.of <= i
                      /\ InTime(told')
    BY DEF DictTasks, InTime
  <1>0. ~dconn.down /\ InTime(told)
    BY LoopDoes DEF DictTasks
  <1>1. InTime(told')
    <2>1. \/ told' = told
          \/ \E e \in ToldEvents :
               e.type \in {"cancelled", "start", "note_created"} /\ told' = Append(told, e)
      BY LoopDoes
    <2> QED BY <1>0, <2>1, TasksTell
  <1>2. CASE loop.pc \in {"abandon", "give", "ack"}
    <2>1. /\ UNCHANGED post
          /\ loop.pc \in {"abandon", "ack"} => ~D!Running(loop.prev)
      BY <1>2, LoopDoes
    <2>2. \A i \in D!Ids : ~Alive(i)
      BY <1>0, <1>2, <2>1, NoneAlive
    <2>3. \A i \in D!Ids : ~Alive(i)'
      BY <2>1, <2>2 DEF Alive
    <2> QED BY <1>1, <2>3
  <1>3. CASE loop.pc = "begin"
    <2>1. /\ loop'.pc = "note" /\ pipe.turn \in D!Ids /\ pipe'.post = pipe.turn
          /\ post' = [post EXCEPT ![pipe.turn].pc = "new"]
          /\ \E e \in ToldEvents : e.type = "start" /\ e.of = pipe.turn /\ told' = Append(told, e)
      BY <1>3, LoopDoes
    <2>2. \A i \in D!Ids : ~Alive(i)
      BY <1>0, <1>3, NoneAlive
    <2>3. \A i \in D!Ids : Alive(i)' => i = pipe.turn
      BY <2>1, <2>2 DEF Alive, DictTyped
    <2>4. \A e \in Events' : e.type = "start" => e.of <= pipe.turn
      <3>1. PICK e \in ToldEvents : e.of = pipe.turn /\ Events' = Events \cup {e}
        BY <2>1, TellOne
      <3>2. pipe.turn \in Nat
        BY <2>1, IdsAre
      <3> QED BY <3>1, <3>2 DEF DictSaid, Said
    <2> QED BY <1>1, <2>1, <2>3, <2>4
  <1>4. CASE loop.pc = "note"
    <2>1. /\ loop'.pc = "read" /\ UNCHANGED post /\ pipe'.post = pipe.post
          /\ \/ told' = told
             \/ \E e \in ToldEvents : e.type = "note_created" /\ told' = Append(told, e)
      BY <1>4, LoopDoes
    <2>2. \A e \in Events' : e \in Events \/ e.type # "start"
      BY <2>1, TellNone, TellOne
    <2>3. \A i \in D!Ids : Alive(i)' <=> Alive(i)
      BY <2>1 DEF Alive
    <2> QED BY <1>0, <1>1, <1>4, <2>1, <2>2, <2>3 DEF DictTasks
  <1> QED BY <1>2, <1>3, <1>4, LoopDoes

LEMMA PostTasks ==
    ASSUME DictTyped, DictTasks, NEW i \in D!Ids, D!Post(i)
    PROVE  DictTasks'
  <1> SUFFICES ASSUME ~dconn'.down
               PROVE  /\ \A j \in D!Ids : Alive(j)' =>
                           /\ loop'.pc \notin {"give", "begin"}
                           /\ j = IF loop'.pc \in {"abandon", "ack"} THEN loop'.prev ELSE pipe'.post
                      /\ \A j \in D!Ids, e \in Events' :
                           Alive(j)' /\ e.type = "start" => e.of <= j
                      /\ InTime(told')
    BY DEF DictTasks, InTime
  <1>1. UNCHANGED <<dconn, pipe, loop>> /\ Alive(i) /\ ~dconn.down
    BY PostDoes
  <1>2. \A j \in D!Ids : Alive(j)' => Alive(j)
    <2>1. PICK pc : post' = [post EXCEPT ![i] = [pc |-> pc, cancel |-> FALSE]]
      BY PostDoes
    <2> QED BY <1>1, <2>1 DEF Alive, DictTyped
  <1>3. CASE told' = told
    BY <1>1, <1>2, <1>3, TellNone DEF DictTasks
  <1>4. ASSUME NEW e \in ToldEvents, e.type \in {"dictation_summary", "failed"}, e.of = i,
               told' = Append(told, e)
        PROVE  InTime(told') /\ \A f \in Events' : f \in Events \/ f.type # "start"
    <2>1. \A f \in D!ToSet(told) : f.type = "start" => e.of >= f.of
      <3>1. ASSUME NEW f \in D!ToSet(told), f.type = "start" PROVE e.of >= f.of
        <4>1. f \in Events /\ f \in ToldEvents
          BY <3>1, EventsAre DEF Events
        <4>2. f.of <= i /\ f.of \in Nat /\ i \in Nat
          BY <1>1, <3>1, <4>1, IdsAre DEF DictTasks, ToldEvents
        <4> QED BY <1>4, <4>2
      <3> QED BY <3>1
    <2>2. InTime(told')
      BY <1>1, <1>4, <2>1, InTimeNext DEF DictTyped, DictTasks
    <2>3. Events' = Events \cup {e}
      BY <1>4, TellOne
    <2> QED BY <1>4, <2>2, <2>3
  <1>5. CASE told' # told
    <2>1. InTime(told') /\ \A f \in Events' : f \in Events \/ f.type # "start"
      BY <1>4, <1>5, PostDoes
    <2> QED BY <1>1, <1>2, <2>1 DEF DictTasks
  <1> QED BY <1>3, <1>5 DEF DictTasks

LEMMA DictTasksNext ==
    ASSUME DictTyped, DictTurns, DictSaid, DictTasks, D!Next
    PROVE  DictTasks'
  <1>1. ASSUME NEW m \in {"ask", "dictate"}, D!Start(m) PROVE DictTasks'
    <2>1. /\ loop' = loop /\ post' = post /\ told' = told /\ dconn'.down = dconn.down
          /\ pipe'.post = pipe.post
      BY <1>1, StartDoes
    <2>2. \A i \in D!Ids : Alive(i)' => Alive(i)
      BY <2>1 DEF Alive
    <2> QED BY <2>1, <2>2, TasksStay
  <1>2. CASE D!Feed
    <2>1. /\ loop' = loop /\ post' = post /\ told' = told /\ dconn' = dconn
          /\ pipe'.post = pipe.post
      BY <1>2, FeedDoes
    <2>2. \A i \in D!Ids : Alive(i)' => Alive(i)
      BY <2>1 DEF Alive
    <2> QED BY <2>1, <2>2, TasksStay
  <1>3. CASE D!Segment \/ D!StopLast \/ D!SegmentDone
    <2>1. /\ post' = post /\ told' = told /\ dconn' = dconn /\ pipe'.post = pipe.post
          /\ loop.pc \in {"read", "segment"} /\ loop'.pc \in {"read", "segment", "last"}
      BY <1>3, SegmentDoes, SegmentDoneDoes
    <2>2. \A i \in D!Ids : Alive(i)' => Alive(i)
      BY <2>1 DEF Alive
    <2> QED BY <2>1, <2>2, TasksStay
  <1>4. CASE D!Stop \/ D!LastDone
    <2>1. UNCHANGED dconn /\ dconn.mode = "dictate" /\ loop.pc \in {"read", "last"}
      BY <1>4, EndDoes
    <2>2. ASSUME NEW segs \in Seq(D!Words), D!Text(segs) PROVE DictTasks'
      BY <2>1, <2>2, TextTasks
    <2>3. ASSUME loop.pc = "last", loop'.pc = "dead", UNCHANGED <<pipe, post, told>>
          PROVE  DictTasks'
      <3>1. \A i \in D!Ids : Alive(i)' => Alive(i)
        BY <2>3 DEF Alive
      <3> QED BY <2>1, <2>3, <3>1, TasksStay
    <2> QED BY <1>4, <2>2, <2>3, EndDoes
  <1>5. CASE D!Abandon \/ D!Give \/ D!Begin \/ D!Note \/ D!Ack
    BY <1>5, LoopTasks
  <1>6. CASE D!Cancel \/ D!Shutdown
    <2>1. /\ told' = told
          /\ post' = post \/ post' = [post EXCEPT ![pipe.post].cancel = TRUE]
          /\ \/ dconn'.down
             \/ /\ loop.pc = "read" /\ loop'.pc = "read" /\ dconn'.down = dconn.down
                /\ ~D!Running(pipe.post)
             \/ /\ loop.pc = "read" /\ loop'.pc = "ack" /\ loop'.prev = pipe.post
                /\ dconn'.down = dconn.down
      BY <1>6, CancelDoes
    <2>2. \A i \in D!Ids : Alive(i)' <=> Alive(i)
      BY <2>1, CancelAlive
    <2>3. CASE dconn'.down
      BY <2>3 DEF DictTasks
    <2>4. CASE /\ loop.pc = "read" /\ loop'.pc = "read" /\ dconn'.down = dconn.down
               /\ ~D!Running(pipe.post) /\ ~dconn.down
      <3>1. \A i \in D!Ids : ~Alive(i)
        BY <2>4, NoneAlive
      <3> QED BY <2>1, <2>2, <2>4, <3>1, TasksStay
    <2>5. CASE /\ loop.pc = "read" /\ loop'.pc = "ack" /\ loop'.prev = pipe.post
               /\ dconn'.down = dconn.down
      BY <2>1, <2>2, <2>5, TasksStay
    <2>6. CASE dconn.down /\ dconn'.down = dconn.down
      BY <2>6 DEF DictTasks
    <2> QED BY <2>1, <2>3, <2>4, <2>5, <2>6
  <1>7. ASSUME NEW i \in D!Ids, D!Post(i) PROVE DictTasks'
    BY <1>7, PostTasks
  <1> QED BY <1>1, <1>2, <1>3, <1>4, <1>5, <1>6, <1>7 DEF D!Next, D!Loop

-----------------------------------------------------------------------------

LEMMA DictInit == ASSUME D!Init PROVE DictInv
  <1>1. /\ dconn = [mode |-> "ask", turn |-> 0, down |-> FALSE]
        /\ pipe = [dictating |-> FALSE, buf |-> <<>>, segs |-> <<>>, turn |-> 0,
                   post |-> None, postTurn |-> 0]
        /\ loop = [pc |-> "read", words |-> <<>>, prev |-> None]
        /\ post = [i \in D!Ids |-> [pc |-> "none", cancel |-> FALSE]]
        /\ told = <<>> /\ fed = [i \in D!Ids |-> 0] /\ lost = {}
    BY DEF D!Init
  <1>2. DictTyped
    <2>1. dconn \in ConnType /\ loop \in LoopType
      BY <1>1 DEF ConnType, LoopType
    <2>2. pipe \in PipeType
      BY <1>1 DEF PipeType
    <2>3. post \in [D!Ids -> TaskType]
      BY <1>1 DEF TaskType
    <2>4. fed \in [D!Ids -> 0..MaxWords]
      BY <1>1, IdsAre
    <2> QED BY <1>1, <2>1, <2>2, <2>3, <2>4 DEF DictTyped
  <1>3. DictTurns
    BY <1>1 DEF DictTurns, Ending
  <1>4. AtStt = <<>> /\ Unsaid = {} /\ Events = {}
    BY <1>1, SetOfNone DEF AtStt, Unsaid, Events, D!ToSet
  <1>5. DictOrder
    BY <1>1, <1>4, NoneAscends DEF DictOrder, Ending
  <1>6. DictWords
    BY <1>1, <1>4, WordIs, IdsAre DEF DictWords
  <1>7. DictSaid /\ DictTasks
    BY <1>1, <1>4 DEF DictSaid, DictTasks, Alive, InTime
  <1> QED BY <1>2, <1>3, <1>5, <1>6, <1>7 DEF DictInv

LEMMA DictNext == ASSUME DictInv, [D!Next]_(D!vars) PROVE DictInv'
  <1>1. CASE UNCHANGED D!vars
    BY <1>1 DEF D!vars, DictInv, DictTyped, DictTurns, DictOrder, DictWords, DictSaid, DictTasks,
        Said, D!Kept, AtStt, Unsaid, Events, IsTold, Alive, InTime
  <1>2. CASE D!Next
    <2>1. DictTyped' /\ DictTurns'
      BY <1>2, DictTypes, DictTurnsNext DEF DictInv
    <2>2. DictTasks'
      BY <1>2, DictTasksNext DEF DictInv
    <2>3. DictText'
      <3>1. DictText /\ DictTyped /\ DictTurns
        BY DEF DictInv, DictText
      <3> QED BY <1>2, <3>1, StartText, FeedText, SegmentText, SegmentDoneText, EndText,
              LoopText, CancelText, PostText DEF D!Next, D!Loop
    <2> QED BY <2>1, <2>2, <2>3 DEF DictInv, DictText
  <1> QED BY <1>1, <1>2

LEMMA DictHolds ==
    ASSUME DictInv
    PROVE  D!TextIsOwn /\ D!SummaryIsOwn /\ D!NoStaleSummary
  <1>1. told \in Seq(ToldEvents)
    BY DEF DictInv, DictTyped
  <1>2. \A k \in DOMAIN told : told[k] \in ToldEvents /\ Said(told[k])
    BY <1>1 DEF DictInv, DictSaid, Events, D!ToSet
  <1>3. \A e \in ToldEvents : DOMAIN e.words = 1..Len(e.words)
    BY DEF ToldEvents
  <1>4. D!TextIsOwn
    <2>1. \A k \in DOMAIN told : told[k].type = "stt" =>
            D!ToSet(told[k].words) = D!Kept(told[k].of)
      BY <1>2 DEF Said
    <2>2. \A k \in DOMAIN told : told[k].type \in {"stt", "note_created"} =>
            /\ \A j \in DOMAIN told[k].words : told[k].words[j].of = told[k].of
            /\ \A i, j \in DOMAIN told[k].words :
                 i < j => told[k].words[i].n < told[k].words[j].n
      BY <1>2, <1>3 DEF Said, Ascends
    <2> QED BY <2>1, <2>2 DEF D!TextIsOwn
  <1>5. D!SummaryIsOwn
    BY <1>2 DEF D!SummaryIsOwn, Said
  <1>6. D!NoStaleSummary
    BY DEF DictInv, DictTasks, InTime, D!NoStaleSummary
  <1> QED BY <1>4, <1>5, <1>6

-----------------------------------------------------------------------------
(* The rows of a turn in a sequence of rows.                               *)

Kind(i) == IF i = 0 THEN "user" ELSE IF i % 2 = 1 THEN "call" ELSE "tool"

\* The rows of t among these are its question and its first n calls and results.
Shows(t, rows, n) == \E p \in [0..n -> 1..Len(rows)] :
    /\ \A i, j \in 0..n : i < j => p[i] < p[j]
    /\ \A i \in 0..n : rows[p[i]] = C!Row(t, Kind(i))
    /\ \A k \in 1..Len(rows) : rows[k].by = t => \E i \in 0..n : k = p[i]

LEMMA KindIs ==
    /\ \A i \in Nat : Kind(i) \in {"user", "call", "tool"}
    /\ Kind(0) = "user"
    /\ \A m \in Nat : Kind(2 * m + 1) = "call" /\ Kind(2 * m + 2) = "tool"
  <1>1. \A m \in Nat : (2 * m + 1) % 2 = 1 /\ (2 * m + 2) % 2 = 0
    OBVIOUS
  <1> QED BY <1>1 DEF Kind

\* A row of another turn changes nothing of what the rows show of this one.
LEMMA ShowsOther ==
    ASSUME NEW t, NEW rows \in Seq(C!Rows), NEW n \in Nat, NEW row \in C!Rows,
           row.by # t, Shows(t, rows, n)
    PROVE  Shows(t, Append(rows, row), n)
  <1>1. PICK p \in [0..n -> 1..Len(rows)] :
          /\ \A i, j \in 0..n : i < j => p[i] < p[j]
          /\ \A i \in 0..n : rows[p[i]] = C!Row(t, Kind(i))
          /\ \A k \in 1..Len(rows) : rows[k].by = t => \E i \in 0..n : k = p[i]
    BY DEF Shows
  <1> DEFINE more == Append(rows, row)
  <1>2. /\ Len(rows) \in Nat /\ Len(more) = Len(rows) + 1 /\ more[Len(rows) + 1] = row
        /\ \A k \in 1..Len(rows) : more[k] = rows[k]
    OBVIOUS
  <1> HIDE DEF more
  <1>3. p \in [0..n -> 1..Len(more)]
    BY <1>2
  <1>4. \A i \in 0..n : more[p[i]] = C!Row(t, Kind(i))
    BY <1>1, <1>2
  <1>5. \A k \in 1..Len(more) : more[k].by = t => \E i \in 0..n : k = p[i]
    <2> SUFFICES ASSUME NEW k \in 1..Len(more), more[k].by = t
                 PROVE  \E i \in 0..n : k = p[i]
      OBVIOUS
    <2>1. k \in 1..Len(rows)
      BY <1>2
    <2> QED BY <1>1, <1>2, <2>1
  <1>6. Shows(t, more, n)
    BY <1>1, <1>3, <1>4, <1>5 DEF Shows
  <1> QED BY <1>6 DEF more

\* The next row of the story is shown with it.
LEMMA ShowsNext ==
    ASSUME NEW t, NEW rows \in Seq(C!Rows), NEW n \in Nat, NEW row \in C!Rows,
           row = C!Row(t, Kind(n + 1)), Shows(t, rows, n)
    PROVE  Shows(t, Append(rows, row), n + 1)
  <1>1. PICK p \in [0..n -> 1..Len(rows)] :
          /\ \A i, j \in 0..n : i < j => p[i] < p[j]
          /\ \A i \in 0..n : rows[p[i]] = C!Row(t, Kind(i))
          /\ \A k \in 1..Len(rows) : rows[k].by = t => \E i \in 0..n : k = p[i]
    BY DEF Shows
  <1> DEFINE more == Append(rows, row)
  <1>2. /\ Len(rows) \in Nat /\ Len(more) = Len(rows) + 1 /\ more[Len(rows) + 1] = row
        /\ \A k \in 1..Len(rows) : more[k] = rows[k]
    OBVIOUS
  <1> HIDE DEF more
  <1> DEFINE q == [i \in 0..(n + 1) |-> IF i = n + 1 THEN Len(more) ELSE p[i]]
  <1>3. /\ q \in [0..(n + 1) -> 1..Len(more)] /\ q[n + 1] = Len(more)
        /\ \A i \in 0..n : q[i] = p[i] /\ q[i] \in 1..Len(rows)
    BY <1>2
  <1> HIDE DEF q
  <1>4. \A i, j \in 0..(n + 1) : i < j => q[i] < q[j]
    <2> SUFFICES ASSUME NEW i \in 0..(n + 1), NEW j \in 0..(n + 1), i < j
                 PROVE  q[i] < q[j]
      OBVIOUS
    <2>1. i \in 0..n
      OBVIOUS
    <2>2. CASE j \in 0..n
      BY <1>1, <1>3, <2>1, <2>2
    <2>3. CASE j = n + 1
      BY <1>2, <1>3, <2>1, <2>3
    <2> QED BY <2>2, <2>3
  <1>5. \A i \in 0..(n + 1) : more[q[i]] = C!Row(t, Kind(i))
    <2> SUFFICES ASSUME NEW i \in 0..(n + 1) PROVE more[q[i]] = C!Row(t, Kind(i))
      OBVIOUS
    <2>1. CASE i \in 0..n
      BY <1>1, <1>2, <1>3, <2>1
    <2>2. CASE i = n + 1
      BY <1>2, <1>3, <2>2
    <2> QED BY <2>1, <2>2
  <1>6. \A k \in 1..Len(more) : more[k].by = t => \E i \in 0..(n + 1) : k = q[i]
    <2> SUFFICES ASSUME NEW k \in 1..Len(more), more[k].by = t
                 PROVE  \E i \in 0..(n + 1) : k = q[i]
      OBVIOUS
    <2>1. CASE k \in 1..Len(rows)
      <3>1. PICK i \in 0..n : k = p[i]
        BY <1>1, <1>2, <2>1
      <3> QED BY <1>3, <3>1
    <2>2. CASE k = Len(more)
      BY <1>3, <2>2
    <2> QED BY <1>2, <2>1, <2>2
  <1>7. Shows(t, more, n + 1)
    BY <1>3, <1>4, <1>5, <1>6 DEF Shows
  <1> QED BY <1>7 DEF more

\* The question is the first row of its turn.
LEMMA ShowsFirst ==
    ASSUME NEW t, NEW rows \in Seq(C!Rows), NEW a \in 1..Len(rows),
           rows[a] = C!Row(t, "user"), \A k \in 1..Len(rows) : rows[k].by = t => k = a
    PROVE  Shows(t, rows, 0)
  <1> DEFINE p == [i \in 0..0 |-> a]
  <1>1. p \in [0..0 -> 1..Len(rows)] /\ p[0] = a
    OBVIOUS
  <1>2. 0..0 = {0}
    OBVIOUS
  <1> HIDE DEF p
  <1>3. \A i, j \in 0..0 : i < j => p[i] < p[j]
    BY <1>2
  <1>4. \A i \in 0..0 : rows[p[i]] = C!Row(t, Kind(i))
    BY <1>1, <1>2, KindIs
  <1>5. \A k \in 1..Len(rows) : rows[k].by = t => \E i \in 0..0 : k = p[i]
    BY <1>1, <1>2
  <1> QED BY <1>1, <1>3, <1>4, <1>5 DEF Shows

\* A piece of the rows that has all those of the turn.
LEMMA ShowsCut ==
    ASSUME NEW t, NEW rows \in Seq(C!Rows), NEW n \in Nat, NEW a \in Nat, NEW m \in Nat,
           a + m <= Len(rows), Shows(t, rows, n),
           \A k \in 1..Len(rows) : rows[k].by = t => k \in (a + 1)..(a + m)
    PROVE  Shows(t, SubSeq(rows, a + 1, a + m), n)
  <1>1. PICK p \in [0..n -> 1..Len(rows)] :
          /\ \A i, j \in 0..n : i < j => p[i] < p[j]
          /\ \A i \in 0..n : rows[p[i]] = C!Row(t, Kind(i))
          /\ \A k \in 1..Len(rows) : rows[k].by = t => \E i \in 0..n : k = p[i]
    BY DEF Shows
  <1> DEFINE cut == SubSeq(rows, a + 1, a + m)
  <1>2. /\ cut \in Seq(C!Rows) /\ Len(cut) = m
        /\ \A j \in 1..m : cut[j] = rows[a + j]
    BY TakeFrom
  <1> HIDE DEF cut
  <1>3. \A i \in 0..n : p[i] \in (a + 1)..(a + m)
    <2> SUFFICES ASSUME NEW i \in 0..n PROVE p[i] \in (a + 1)..(a + m)
      OBVIOUS
    <2>1. rows[p[i]] = C!Row(t, Kind(i)) /\ p[i] \in 1..Len(rows)
      BY <1>1
    <2>2. C!Row(t, Kind(i)).by = t
      BY DEF C!Row
    <2> QED BY <2>1, <2>2
  <1> DEFINE q == [i \in 0..n |-> p[i] - a]
  <1>4. q \in [0..n -> 1..Len(cut)] /\ \A i \in 0..n : q[i] = p[i] - a /\ p[i] = a + q[i]
    BY <1>2, <1>3
  <1> HIDE DEF q
  <1>5. \A i, j \in 0..n : i < j => q[i] < q[j]
    <2> SUFFICES ASSUME NEW i \in 0..n, NEW j \in 0..n, i < j PROVE q[i] < q[j]
      OBVIOUS
    <2>1. p[i] < p[j] /\ p[i] \in Int /\ p[j] \in Int
      BY <1>1
    <2> QED BY <1>4, <2>1
  <1>6. \A i \in 0..n : cut[q[i]] = C!Row(t, Kind(i))
    BY <1>1, <1>2, <1>4
  <1>7. \A k \in 1..Len(cut) : cut[k].by = t => \E i \in 0..n : k = q[i]
    <2> SUFFICES ASSUME NEW k \in 1..Len(cut), cut[k].by = t
                 PROVE  \E i \in 0..n : k = q[i]
      OBVIOUS
    <2>1. rows[a + k].by = t /\ a + k \in 1..Len(rows)
      BY <1>2
    <2>2. PICK i \in 0..n : a + k = p[i]
      BY <1>1, <2>1
    <2> QED BY <1>4, <2>2
  <1>8. Shows(t, cut, n)
    BY <1>4, <1>5, <1>6, <1>7 DEF Shows
  <1> QED BY <1>8 DEF cut

-----------------------------------------------------------------------------
(* What a filter leaves.                                                   *)

\* p lists the indices of the rows that are of the set.
Lists(p, m, rows, S) ==
    /\ m \in Nat /\ p \in [1..m -> 1..Len(rows)]
    /\ \A i, j \in 1..m : i < j => p[i] < p[j]
    /\ \A k \in 1..Len(rows) : rows[k] \in S <=> \E i \in 1..m : k = p[i]

\* Every set has its list, by the least length that would have none.
LEMMA ListsExist ==
    ASSUME NEW rows \in Seq(C!Rows), NEW S
    PROVE  \E m \in 0..Len(rows) : \E p : Lists(p, m, rows, S)
  <1> DEFINE Listed(b) == \E m \in 0..b : \E p \in [1..m -> 1..b] :
               /\ \A i, j \in 1..m : i < j => p[i] < p[j]
               /\ \A k \in 1..b : rows[k] \in S <=> \E i \in 1..m : k = p[i]
             Bad == {b \in 0..Len(rows) : ~Listed(b)}
  <1>0. Len(rows) \in Nat
    OBVIOUS
  <1>1. Listed(0)
    <2> DEFINE none == [i \in 1..0 |-> 0]
    <2>1. none \in [1..0 -> 1..0] /\ 1..0 = {}
      OBVIOUS
    <2> HIDE DEF none
    <2>2. /\ \A i, j \in 1..0 : i < j => none[i] < none[j]
          /\ \A k \in 1..0 : rows[k] \in S <=> \E i \in 1..0 : k = none[i]
      BY <2>1
    <2>3. \E p \in [1..0 -> 1..0] :
            /\ \A i, j \in 1..0 : i < j => p[i] < p[j]
            /\ \A k \in 1..0 : rows[k] \in S <=> \E i \in 1..0 : k = p[i]
      BY <2>1, <2>2, Zenon
    <2>4. 0 \in 0..0
      OBVIOUS
    <2> QED BY <2>3, <2>4, Zenon
  <1>2. ASSUME NEW b \in 0..(Len(rows) - 1), Listed(b)
        PROVE  Listed(b + 1)
    <2>0. PICK m \in 0..b : \E p \in [1..m -> 1..b] :
            /\ \A i, j \in 1..m : i < j => p[i] < p[j]
            /\ \A k \in 1..b : rows[k] \in S <=> \E i \in 1..m : k = p[i]
      BY <1>2
    <2>1. PICK p \in [1..m -> 1..b] :
            /\ \A i, j \in 1..m : i < j => p[i] < p[j]
            /\ \A k \in 1..b : rows[k] \in S <=> \E i \in 1..m : k = p[i]
      BY <2>0
    <2>2. CASE rows[b + 1] \notin S
      <3>1. p \in [1..m -> 1..(b + 1)] /\ m \in 0..(b + 1)
        BY <1>0
      <3>2. \A k \in 1..(b + 1) : rows[k] \in S <=> \E i \in 1..m : k = p[i]
        <4> SUFFICES ASSUME NEW k \in 1..(b + 1)
                     PROVE  rows[k] \in S <=> \E i \in 1..m : k = p[i]
          OBVIOUS
        <4>1. CASE k \in 1..b
          BY <2>1, <4>1
        <4>2. CASE k = b + 1
          <5>1. \A i \in 1..m : p[i] # k
            BY <1>0, <4>2
          <5> QED BY <2>2, <4>2, <5>1
        <4> QED BY <1>0, <4>1, <4>2
      <3> QED BY <2>1, <3>1, <3>2
    <2>3. CASE rows[b + 1] \in S
      <3> DEFINE q == [i \in 1..(m + 1) |-> IF i = m + 1 THEN b + 1 ELSE p[i]]
      <3>1. /\ q \in [1..(m + 1) -> 1..(b + 1)] /\ q[m + 1] = b + 1 /\ m + 1 \in 0..(b + 1)
            /\ \A i \in 1..m : q[i] = p[i] /\ p[i] \in 1..b
        BY <1>0
      <3> HIDE DEF q
      <3>2. \A i, j \in 1..(m + 1) : i < j => q[i] < q[j]
        <4> SUFFICES ASSUME NEW i \in 1..(m + 1), NEW j \in 1..(m + 1), i < j
                     PROVE  q[i] < q[j]
          OBVIOUS
        <4>1. i \in 1..m
          OBVIOUS
        <4>2. CASE j \in 1..m
          BY <2>1, <3>1, <4>1, <4>2
        <4>3. CASE j = m + 1
          BY <1>0, <3>1, <4>1, <4>3
        <4> QED BY <4>2, <4>3
      <3>3. \A k \in 1..(b + 1) : rows[k] \in S <=> \E i \in 1..(m + 1) : k = q[i]
        <4> SUFFICES ASSUME NEW k \in 1..(b + 1)
                     PROVE  rows[k] \in S <=> \E i \in 1..(m + 1) : k = q[i]
          OBVIOUS
        <4>1. CASE k \in 1..b
          <5>1. k # q[m + 1] /\ \A i \in 1..(m + 1) : i \in 1..m \/ i = m + 1
            BY <1>0, <3>1, <4>1
          <5>2. (\E i \in 1..(m + 1) : k = q[i]) <=> \E i \in 1..m : k = p[i]
            BY <3>1, <5>1
          <5> QED BY <2>1, <4>1, <5>2
        <4>2. CASE k = b + 1
          BY <2>3, <3>1, <4>2
        <4> QED BY <1>0, <4>1, <4>2
      <3> QED BY <3>1, <3>2, <3>3
    <2> QED BY <2>2, <2>3
  <1> HIDE DEF Listed
  <1>3. Bad = {}
    <2> SUFFICES ASSUME Bad # {} PROVE FALSE
      OBVIOUS
    <2>0. Bad \in SUBSET Nat
      BY <1>0
    <2>1. PICK b \in Bad : \A c \in Bad : b <= c
      BY <2>0, LeastOf
    <2>2. b # 0 /\ b \in 0..Len(rows) /\ ~Listed(b)
      BY <1>1
    <2>3. b - 1 \in 0..(Len(rows) - 1) /\ b - 1 \notin Bad /\ (b - 1) + 1 = b
      BY <1>0, <2>1, <2>2
    <2>4. Listed(b - 1)
      BY <1>0, <2>3
    <2> QED BY <1>2, <2>2, <2>3, <2>4
  <1>4. Listed(Len(rows))
    BY <1>0, <1>3
  <1>5. PICK m \in 0..Len(rows) : \E p \in [1..m -> 1..Len(rows)] :
          /\ \A i, j \in 1..m : i < j => p[i] < p[j]
          /\ \A k \in 1..Len(rows) : rows[k] \in S <=> \E i \in 1..m : k = p[i]
    BY <1>4 DEF Listed
  <1>6. PICK p \in [1..m -> 1..Len(rows)] :
          /\ \A i, j \in 1..m : i < j => p[i] < p[j]
          /\ \A k \in 1..Len(rows) : rows[k] \in S <=> \E i \in 1..m : k = p[i]
    BY <1>5
  <1>7. Lists(p, m, rows, S)
    BY <1>0, <1>6 DEF Lists
  <1> QED BY <1>7

\* The recursion of Filter, whose function exists.
FilterStep(f, rows, S, n) ==
    IF n = 0 THEN <<>>
    ELSE IF rows[n] \in S THEN Append(f[n - 1], rows[n]) ELSE f[n - 1]

LEMMA FilterFunction ==
    ASSUME NEW rows \in Seq(C!Rows), NEW S, NEW b \in 0..Len(rows)
    PROVE  \E f \in [0..b -> Seq(C!Rows)] : \A n \in 0..b : f[n] = FilterStep(f, rows, S, n)
  <1> DEFINE Has(a) ==
               \E f \in [0..a -> Seq(C!Rows)] : \A n \in 0..a : f[n] = FilterStep(f, rows, S, n)
             Bad == {a \in 0..Len(rows) : ~Has(a)}
  <1>0. Len(rows) \in Nat
    OBVIOUS
  <1>1. Has(0)
    <2> DEFINE f == [n \in 0..0 |-> <<>>]
    <2>1. f \in [0..0 -> Seq(C!Rows)] /\ f[0] = <<>> /\ 0..0 = {0}
      OBVIOUS
    <2> HIDE DEF f
    <2>2. \A n \in 0..0 : f[n] = FilterStep(f, rows, S, n)
      BY <2>1 DEF FilterStep
    <2> QED BY <2>1, <2>2
  <1>2. ASSUME NEW a \in 0..(Len(rows) - 1), Has(a) PROVE Has(a + 1)
    <2>1. PICK f \in [0..a -> Seq(C!Rows)] : \A n \in 0..a : f[n] = FilterStep(f, rows, S, n)
      BY <1>2
    <2>2. /\ rows[a + 1] \in C!Rows /\ a + 1 # 0 /\ (a + 1) - 1 = a /\ f[a] \in Seq(C!Rows)
          /\ a \in Nat
      BY <1>0
    <2>3. PICK x : x = IF rows[a + 1] \in S THEN Append(f[a], rows[a + 1]) ELSE f[a]
      OBVIOUS
    <2>4. x \in Seq(C!Rows)
      BY <2>2, <2>3
    <2> DEFINE g == [n \in 0..(a + 1) |-> IF n = a + 1 THEN x ELSE f[n]]
    <2>5. /\ g \in [0..(a + 1) -> Seq(C!Rows)] /\ g[a + 1] = x
          /\ \A n \in 0..a : g[n] = f[n]
      BY <2>2, <2>4
    <2> HIDE DEF g
    <2>6. \A n \in 0..(a + 1) : g[n] = FilterStep(g, rows, S, n)
      <3> SUFFICES ASSUME NEW n \in 0..(a + 1) PROVE g[n] = FilterStep(g, rows, S, n)
        OBVIOUS
      <3>1. CASE n = a + 1
        BY <2>2, <2>3, <2>5, <3>1 DEF FilterStep
      <3>2. CASE n \in 0..a
        <4>1. n = 0 \/ n - 1 \in 0..a
          BY <3>2
        <4> QED BY <2>1, <2>5, <3>2, <4>1 DEF FilterStep
      <3> QED BY <3>1, <3>2
    <2> QED BY <2>5, <2>6
  <1> HIDE DEF Has
  <1>3. Bad = {}
    <2> SUFFICES ASSUME Bad # {} PROVE FALSE
      OBVIOUS
    <2>0. Bad \in SUBSET Nat
      BY <1>0
    <2>1. PICK a \in Bad : \A c \in Bad : a <= c
      BY <2>0, LeastOf
    <2>2. a # 0 /\ a \in 0..Len(rows) /\ ~Has(a)
      BY <1>1
    <2>3. a - 1 \in 0..(Len(rows) - 1) /\ a - 1 \notin Bad /\ (a - 1) + 1 = a
      BY <1>0, <2>1, <2>2
    <2>4. Has(a - 1)
      BY <1>0, <2>3
    <2> QED BY <1>2, <2>2, <2>3, <2>4
  <1>4. Has(b)
    BY <1>3
  <1> QED BY <1>4 DEF Has

LEMMA FilterIs ==
    ASSUME NEW rows \in Seq(C!Rows), NEW S
    PROVE  \E f : /\ \A n \in 0..Len(rows) : f[n] = FilterStep(f, rows, S, n)
                  /\ C!Filter(rows, S) = f[Len(rows)]
  <1>0. Len(rows) \in 0..Len(rows) /\ Len(rows) \in Nat
    OBVIOUS
  <1>1. PICK g \in [0..Len(rows) -> Seq(C!Rows)] :
          \A n \in 0..Len(rows) : g[n] = FilterStep(g, rows, S, n)
    BY <1>0, FilterFunction
  <1>2. g = [n \in 0..Len(rows) |-> FilterStep(g, rows, S, n)]
    BY <1>1
  <1> DEFINE f == CHOOSE f : f = [n \in 0..Len(rows) |-> FilterStep(f, rows, S, n)]
  <1>3. f = [n \in 0..Len(rows) |-> FilterStep(f, rows, S, n)]
    BY <1>2
  <1>4. C!Filter(rows, S) = f[Len(rows)]
    BY DEF C!Filter, FilterStep
  <1> HIDE DEF f
  <1>5. \A n \in 0..Len(rows) : f[n] = FilterStep(f, rows, S, n)
    BY <1>3
  <1> QED BY <1>4, <1>5

\* A filter leaves the rows that are listed, by the least length where it would not.
LEMMA FilterBy ==
    ASSUME NEW rows \in Seq(C!Rows), NEW S, NEW p, NEW m, Lists(p, m, rows, S)
    PROVE  C!Filter(rows, S) = [i \in 1..m |-> rows[p[i]]]
  <1>0. Len(rows) \in Nat /\ m \in Nat /\ p \in [1..m -> 1..Len(rows)]
    BY DEF Lists
  <1>1. PICK f : /\ \A n \in 0..Len(rows) : f[n] = FilterStep(f, rows, S, n)
                 /\ C!Filter(rows, S) = f[Len(rows)]
    BY FilterIs
  <1> DEFINE Part(r) == [i \in 1..r |-> rows[p[i]]]
             Does(n) == \E r \in 0..m : f[n] = Part(r) /\ \A i \in 1..m : p[i] <= n <=> i <= r
             Bad == {n \in 0..Len(rows) : ~Does(n)}
  <1>2. \A r \in 0..m : Part(r) \in Seq(C!Rows) /\ Len(Part(r)) = r
    <2> SUFFICES ASSUME NEW r \in 0..m PROVE Part(r) \in Seq(C!Rows) /\ Len(Part(r)) = r
      OBVIOUS
    <2>1. \A i \in 1..r : rows[p[i]] \in C!Rows
      BY <1>0
    <2> QED BY <1>0, <2>1
  <1>3. ASSUME NEW r \in 0..(m - 1)
        PROVE  Append(Part(r), rows[p[r + 1]]) = Part(r + 1)
    <2>1. /\ r \in Nat /\ r \in 0..m /\ r + 1 \in 1..m /\ r + 1 \in 0..m
          /\ rows[p[r + 1]] \in C!Rows
      BY <1>0
    <2>2. PICK s, e, u : s = Part(r) /\ e = rows[p[r + 1]] /\ u = Part(r + 1)
      OBVIOUS
    <2>3. /\ \A i \in 1..r : s[i] = rows[p[i]]
          /\ \A i \in 1..(r + 1) : u[i] = rows[p[i]]
      BY <2>2
    <2>4. /\ s \in Seq(C!Rows) /\ Len(s) = r /\ u \in Seq(C!Rows) /\ Len(u) = r + 1
          /\ e \in C!Rows
      BY <1>2, <2>1, <2>2
    <2> HIDE DEF Part
    <2>5. /\ Append(s, e) \in Seq(C!Rows) /\ Len(Append(s, e)) = Len(u)
          /\ \A i \in 1..r : Append(s, e)[i] = s[i]
          /\ Append(s, e)[r + 1] = e
      BY <2>1, <2>4
    <2>6. \A i \in 1..Len(u) : Append(s, e)[i] = u[i]
      <3> SUFFICES ASSUME NEW i \in 1..Len(u) PROVE Append(s, e)[i] = u[i]
        OBVIOUS
      <3>1. CASE i \in 1..r
        BY <2>1, <2>3, <2>5, <3>1
      <3>2. CASE i = r + 1
        BY <2>1, <2>2, <2>3, <2>5, <3>2
      <3> QED BY <2>1, <2>4, <3>1, <3>2
    <2>7. Append(s, e) = u
      BY <2>4, <2>5, <2>6, SeqEqual
    <2> QED BY <2>2, <2>7
  <1>4. Does(0)
    <2>1. 0 \in 0..m /\ 0 \in 0..Len(rows) /\ 1..0 = {}
      BY <1>0
    <2>2. f[0] = <<>>
      BY <1>1, <2>1 DEF FilterStep
    <2>3. Part(0) = <<>>
      BY <1>2, <2>1
    <2>4. \A i \in 1..m : p[i] <= 0 <=> i <= 0
      BY <1>0
    <2> QED BY <2>1, <2>2, <2>3, <2>4
  <1> HIDE DEF Part
  <1>5. ASSUME NEW n \in 0..(Len(rows) - 1), Does(n) PROVE Does(n + 1)
    <2>1. PICK r \in 0..m : f[n] = Part(r) /\ \A i \in 1..m : p[i] <= n <=> i <= r
      BY <1>5
    <2>2. n \in Nat /\ n + 1 \in 1..Len(rows) /\ n + 1 \in 0..Len(rows) /\ (n + 1) - 1 = n
      BY <1>0
    <2>3. f[n + 1] = IF rows[n + 1] \in S THEN Append(f[n], rows[n + 1]) ELSE f[n]
      BY <1>1, <2>2 DEF FilterStep
    <2>4. CASE rows[n + 1] \in S
      <3>1. PICK i \in 1..m : n + 1 = p[i]
        BY <2>2, <2>4 DEF Lists
      <3>2. i = r + 1
        <4>1. i > r
          BY <1>0, <2>1, <2>2, <3>1
        <4>2. ASSUME i # r + 1 PROVE FALSE
          <5>1. r + 1 \in 1..m /\ r + 1 < i
            BY <1>0, <4>1, <4>2
          <5>2. p[r + 1] < p[i] /\ p[r + 1] \in 1..Len(rows)
            BY <1>0, <5>1 DEF Lists
          <5>3. p[r + 1] <= n
            BY <1>0, <2>2, <3>1, <5>2
          <5> QED BY <1>0, <2>1, <5>1, <5>3
        <4> QED BY <4>2
      <3>3. r \in 0..(m - 1) /\ r + 1 \in 0..m
        BY <1>0, <3>2
      <3>4. f[n + 1] = Part(r + 1)
        BY <1>3, <2>1, <2>3, <2>4, <3>1, <3>2, <3>3
      <3>5. ASSUME NEW j \in 1..m PROVE p[j] <= n + 1 <=> j <= r + 1
        <4>1. p[j] \in 1..Len(rows) /\ (p[j] <= n <=> j <= r)
          BY <1>0, <2>1
        <4>2. CASE j > i
          BY <1>0, <2>2, <3>1, <3>2, <4>1, <4>2 DEF Lists
        <4>3. CASE j <= i
          BY <1>0, <2>2, <3>1, <3>2, <4>1, <4>3
        <4> QED BY <4>2, <4>3
      <3> QED BY <3>3, <3>4, <3>5
    <2>5. CASE rows[n + 1] \notin S
      <3>1. \A i \in 1..m : p[i] # n + 1
        BY <2>2, <2>5 DEF Lists
      <3>2. \A i \in 1..m : p[i] <= n + 1 <=> i <= r
        BY <1>0, <2>1, <2>2, <3>1
      <3> QED BY <2>1, <2>3, <2>5, <3>2
    <2> QED BY <2>4, <2>5
  <1> HIDE DEF Does
  <1>6. Bad = {}
    <2> SUFFICES ASSUME Bad # {} PROVE FALSE
      OBVIOUS
    <2>0. Bad \in SUBSET Nat
      BY <1>0
    <2>1. PICK n \in Bad : \A c \in Bad : n <= c
      BY <2>0, LeastOf
    <2>2. n # 0 /\ n \in 0..Len(rows) /\ ~Does(n)
      BY <1>4
    <2>3. n - 1 \in 0..(Len(rows) - 1) /\ n - 1 \notin Bad /\ (n - 1) + 1 = n
      BY <1>0, <2>1, <2>2
    <2>4. Does(n - 1)
      BY <1>0, <2>3
    <2> QED BY <1>5, <2>2, <2>3, <2>4
  <1>7. Does(Len(rows))
    BY <1>0, <1>6
  <1>8. PICK r \in 0..m : f[Len(rows)] = Part(r) /\ \A i \in 1..m : p[i] <= Len(rows) <=> i <= r
    BY <1>7 DEF Does
  <1>9. r = m
    <2>1. CASE m = 0
      BY <1>8, <2>1
    <2>2. CASE m # 0
      BY <1>0, <1>8, <2>2
    <2> QED BY <2>1, <2>2
  <1> QED BY <1>1, <1>8, <1>9 DEF Part

-----------------------------------------------------------------------------
(* The context.                                                            *)

\* The length of what a filter leaves, and its elements.
LEMMA FilterIn ==
    ASSUME NEW rows \in Seq(C!Rows), NEW S, NEW p, NEW m, Lists(p, m, rows, S)
    PROVE  /\ m \in Nat
           /\ C!Filter(rows, S) \in Seq(C!Rows) /\ Len(C!Filter(rows, S)) = m
           /\ \A i \in 1..m : C!Filter(rows, S)[i] = rows[p[i]]
  <1>1. m \in Nat /\ p \in [1..m -> 1..Len(rows)] /\ Len(rows) \in Nat
    BY DEF Lists
  <1>2. C!Filter(rows, S) = [i \in 1..m |-> rows[p[i]]]
    BY FilterBy
  <1>3. \A i \in 1..m : rows[p[i]] \in C!Rows
    BY <1>1
  <1> QED BY <1>1, <1>2, <1>3

OwnRows(t) == {row \in C!Rows : row.by = t}

\* What the property says of a context that shows the story of its turn.
LEMMA OwnStory ==
    ASSUME NEW t \in Turns, NEW ctx \in Seq(C!Rows), NEW n \in Nat, Shows(t, ctx, n)
    PROVE  [i \in DOMAIN C!Own(t, ctx) |-> C!Own(t, ctx)[i].kind]
             = [i \in 1..(n + 1) |-> Kind(i - 1)]
  <1>1. PICK p \in [0..n -> 1..Len(ctx)] :
          /\ \A i, j \in 0..n : i < j => p[i] < p[j]
          /\ \A i \in 0..n : ctx[p[i]] = C!Row(t, Kind(i))
          /\ \A k \in 1..Len(ctx) : ctx[k].by = t => \E i \in 0..n : k = p[i]
    BY DEF Shows
  <1> DEFINE q == [i \in 1..(n + 1) |-> p[i - 1]]
             m == n + 1
  <1>2. /\ m \in Nat /\ q \in [1..m -> 1..Len(ctx)]
        /\ \A i \in 1..m : q[i] = p[i - 1] /\ i - 1 \in 0..n
        /\ \A i \in 0..n : q[i + 1] = p[i] /\ i + 1 \in 1..m
    OBVIOUS
  <1> HIDE DEF q
  <1>3. \A i, j \in 1..m : i < j => q[i] < q[j]
    <2> SUFFICES ASSUME NEW i \in 1..m, NEW j \in 1..m, i < j PROVE q[i] < q[j]
      OBVIOUS
    <2>1. i - 1 < j - 1 /\ i - 1 \in 0..n /\ j - 1 \in 0..n
      BY <1>2
    <2> QED BY <1>1, <1>2, <2>1
  <1>4. \A k \in 1..Len(ctx) : ctx[k] \in OwnRows(t) <=> \E i \in 1..m : k = q[i]
    <2> SUFFICES ASSUME NEW k \in 1..Len(ctx)
                 PROVE  ctx[k] \in OwnRows(t) <=> \E i \in 1..m : k = q[i]
      OBVIOUS
    <2>1. ctx[k] \in C!Rows
      OBVIOUS
    <2>2. ASSUME ctx[k].by = t PROVE \E i \in 1..m : k = q[i]
      BY <1>1, <1>2, <2>2
    <2>3. ASSUME NEW i \in 1..m, k = q[i] PROVE ctx[k].by = t
      <3>1. ctx[k] = C!Row(t, Kind(i - 1))
        BY <1>1, <1>2, <2>3
      <3> QED BY <3>1 DEF C!Row
    <2> QED BY <2>1, <2>2, <2>3 DEF OwnRows
  <1>5. Lists(q, m, ctx, OwnRows(t))
    BY <1>2, <1>3, <1>4 DEF Lists
  <1>6. C!Own(t, ctx) = [i \in 1..m |-> ctx[q[i]]]
    BY <1>5, FilterBy DEF C!Own, OwnRows
  <1>7. \A i \in 1..m : ctx[q[i]].kind = Kind(i - 1)
    <2> SUFFICES ASSUME NEW i \in 1..m PROVE ctx[q[i]].kind = Kind(i - 1)
      OBVIOUS
    <2>1. ctx[q[i]] = C!Row(t, Kind(i - 1))
      BY <1>1, <1>2
    <2> QED BY <2>1 DEF C!Row
  <1> QED BY <1>6, <1>7

\* The story the property asks for, in the same form.
LEMMA StoryIs ==
    ASSUME NEW t \in Turns, cturn[t].ran \in Nat
    PROVE  C!Story(t) = [i \in 1..(2 * cturn[t].ran + 1) |-> Kind(i - 1)]
  <1> DEFINE n == 2 * cturn[t].ran
             Told == {"user", "call", "tool"}
             later == [i \in 1..n |-> IF i % 2 = 1 THEN "call" ELSE "tool"]
             all == [i \in 1..(n + 1) |-> Kind(i - 1)]
  <1>0. n \in Nat /\ n + 1 \in Nat
    OBVIOUS
  <1> HIDE DEF n
  <1>1. later \in Seq(Told) /\ Len(later) = n
        /\ \A i \in 1..n : later[i] = IF i % 2 = 1 THEN "call" ELSE "tool"
    BY <1>0
  <1>2. \A i \in 1..(n + 1) : i - 1 \in Nat
    BY <1>0
  <1>3. /\ all \in Seq(Told) /\ Len(all) = n + 1
        /\ \A i \in 1..(n + 1) : all[i] = Kind(i - 1)
    BY <1>0, <1>2, KindIs
  <1> HIDE DEF later, all
  <1>4. C!Story(t) = <<"user">> \o later
    BY DEF C!Story, later, n
  <1>5. PICK s : s = <<"user">> \o later
    OBVIOUS
  <1>6. /\ s \in Seq(Told) /\ Len(s) = n + 1 /\ s[1] = "user"
        /\ \A i \in 1..n : s[i + 1] = later[i]
    BY <1>0, <1>1, <1>5
  <1>7. \A i \in 1..Len(s) : s[i] = all[i]
    <2> SUFFICES ASSUME NEW i \in 1..Len(s) PROVE s[i] = all[i]
      OBVIOUS
    <2>1. CASE i = 1
      BY <1>0, <1>3, <1>6, <2>1, KindIs
    <2>2. CASE i # 1
      <3>1. i - 1 \in 1..n /\ i \in 1..(n + 1) /\ (i - 1) + 1 = i /\ i - 1 # 0
        BY <1>0, <1>6, <2>2
      <3>2. s[i] = IF (i - 1) % 2 = 1 THEN "call" ELSE "tool"
        BY <1>1, <1>6, <3>1
      <3>3. all[i] = IF (i - 1) % 2 = 1 THEN "call" ELSE "tool"
        BY <1>3, <3>1 DEF Kind
      <3> QED BY <3>2, <3>3
    <2> QED BY <2>1, <2>2
  <1>8. s = all
    BY <1>3, <1>6, <1>7, SeqEqual
  <1> QED BY <1>4, <1>5, <1>8 DEF all, n

\* Old rows come first, for they were there when the first turn began.
OldFirst(rows) == \A i, j \in 1..Len(rows) : i < j /\ rows[j].by = None => rows[i].by = None

\* A context that the budget holds when its rows are new keeps what it shows.
LEMMA TrimShows ==
    ASSUME NEW t \in Turns, NEW ctx \in Seq(C!Rows), NEW n \in Nat, Shows(t, ctx, n),
           OldFirst(ctx), Len(ctx) <= Budget, Budget \in Nat, OldWeight \in Nat,
           None \notin Turns
    PROVE  Shows(t, C!Trim(ctx), n)
  <1>1. PICK p \in [0..n -> 1..Len(ctx)] :
          /\ \A i, j \in 0..n : i < j => p[i] < p[j]
          /\ \A i \in 0..n : ctx[p[i]] = C!Row(t, Kind(i))
          /\ \A k \in 1..Len(ctx) : ctx[k].by = t => \E i \in 0..n : k = p[i]
    BY DEF Shows
  <1> DEFINE size == Len(ctx)
             Cut(k) == SubSeq(ctx, k + 1, size)
             Fits(k) == C!Tokens(Cut(k)) <= Budget \/ size - k <= 1
             Ks == {k \in 0..(size - 1) : Fits(k)}
  <1>2. PICK a : a = p[0] - 1
    OBVIOUS
  <1>3. p[0] \in 1..size /\ size \in Nat /\ a \in 0..(size - 1) /\ a + 1 = p[0]
    BY <1>1, <1>2
  <1>4. \A k \in 1..size : ctx[k].by = t => k >= a + 1
    <2> SUFFICES ASSUME NEW k \in 1..size, ctx[k].by = t PROVE k >= a + 1
      OBVIOUS
    <2>1. PICK i \in 0..n : k = p[i]
      BY <1>1
    <2>2. CASE i = 0
      BY <1>3, <2>1, <2>2
    <2>3. CASE i # 0
      <3>1. p[0] < p[i]
        BY <1>1, <2>3
      <3> QED BY <1>3, <2>1, <3>1
    <2> QED BY <2>2, <2>3
  <1>5. \A k \in (a + 1)..size : ctx[k].by # None
    <2>1. ctx[a + 1].by = t
      <3>1. ctx[a + 1] = C!Row(t, Kind(0))
        BY <1>1, <1>3
      <3> QED BY <3>1 DEF C!Row
    <2>2. t # None /\ a + 1 \in 1..size
      BY <1>3
    <2> SUFFICES ASSUME NEW k \in (a + 1)..size, ctx[k].by = None PROVE FALSE
      OBVIOUS
    <2>3. k \in 1..size /\ a + 1 < k
      BY <1>3, <2>1, <2>2
    <2> QED BY <2>1, <2>2, <2>3 DEF OldFirst
  <1>6. Fits(a)
    <2>1. PICK m : m = size - a
      OBVIOUS
    <2>2. m \in Nat /\ m <= size /\ a \in Nat /\ a + m = size /\ a + m <= Len(ctx)
      BY <1>3, <2>1
    <2>3. PICK s : s = SubSeq(ctx, a + 1, a + m)
      OBVIOUS
    <2>4. s \in Seq(C!Rows) /\ Len(s) = m /\ \A j \in 1..m : s[j] = ctx[a + j]
      BY <2>2, <2>3, TakeFrom
    <2>5. \A j \in 1..m : s[j].by # None
      <3> SUFFICES ASSUME NEW j \in 1..m PROVE s[j].by # None
        OBVIOUS
      <3>1. a + j \in (a + 1)..size
        BY <2>2
      <3> QED BY <1>5, <2>4, <3>1
    <2>6. {i \in DOMAIN s : s[i].by = None} = {}
      BY <2>4, <2>5
    <2>7. C!Cardinality({}) = 0
      BY FS_EmptySet DEF C!Cardinality, Cardinality
    <2>8. C!Tokens(s) = OldWeight * 0 + Len(s) - 0
      BY <2>6, <2>7 DEF C!Tokens
    <2>9. C!Tokens(s) <= Budget
      BY <2>2, <2>4, <2>8
    <2> QED BY <2>2, <2>3, <2>9
  <1> HIDE DEF Fits
  <1>7. PICK k : k = C!Min(Ks)
    OBVIOUS
  <1>8. k \in Ks /\ k <= a
    <2>1. Ks \in SUBSET Nat /\ a \in Ks
      BY <1>3, <1>6
    <2>2. \E x \in Ks : \A y \in Ks : x <= y
      BY <2>1, LeastOf
    <2>3. k \in Ks /\ \A y \in Ks : k <= y
      BY <1>7, <2>2 DEF C!Min
    <2> QED BY <2>1, <2>3
  <1>9. C!Trim(ctx) = Cut(k)
    <2>1. ctx # <<>>
      BY <1>3
    <2> QED BY <1>7, <2>1 DEF C!Trim, Fits
  <1>10. PICK m : m = size - k
    OBVIOUS
  <1>11. /\ k \in Nat /\ m \in Nat /\ k + m = size /\ k + m <= Len(ctx)
         /\ \A i \in 1..Len(ctx) : ctx[i].by = t => i \in (k + 1)..(k + m)
    BY <1>3, <1>4, <1>8, <1>10
  <1>12. Shows(t, SubSeq(ctx, k + 1, k + m), n)
    BY <1>11, ShowsCut
  <1> QED BY <1>9, <1>11, <1>12

LEMMA TrimIn == ASSUME NEW ctx \in Seq(C!Rows) PROVE C!Trim(ctx) \in Seq(C!Rows)
  <1> DEFINE size == Len(ctx)
             Cut(k) == SubSeq(ctx, k + 1, size)
             Fits(k) == C!Tokens(Cut(k)) <= Budget \/ size - k <= 1
             Ks == {k \in 0..(size - 1) : Fits(k)}
  <1>1. CASE ctx = <<>>
    BY <1>1 DEF C!Trim
  <1>2. CASE ctx # <<>>
    <2>1. size \in Nat /\ size - 1 \in 0..(size - 1)
      BY <1>2
    <2>2. size - (size - 1) <= 1
      BY <2>1
    <2>3. size - 1 \in Ks /\ Ks \in SUBSET Nat
      BY <2>1, <2>2
    <2> HIDE DEF Fits
    <2>4. PICK k : k = C!Min(Ks)
      OBVIOUS
    <2>5. \E x \in Ks : \A y \in Ks : x <= y
      BY <2>3, LeastOf
    <2>6. k \in Ks
      BY <2>4, <2>5 DEF C!Min
    <2>7. k + 1 \in Int /\ size \in Int /\ \A i \in (k + 1)..size : ctx[i] \in C!Rows
      BY <2>1, <2>6
    <2>8. Cut(k) \in Seq(C!Rows)
      BY <2>7, SubSeqProperties
    <2>9. C!Trim(ctx) = Cut(k)
      BY <1>2, <2>4 DEF C!Trim, Fits
    <2> QED BY <2>8, <2>9
  <1> QED BY <1>1, <1>2

LEMMA FilterType ==
    ASSUME NEW rows \in Seq(C!Rows), NEW S
    PROVE  C!Filter(rows, S) \in Seq(C!Rows)
  <1>1. PICK m \in 0..Len(rows) : \E p : Lists(p, m, rows, S)
    BY ListsExist
  <1>2. PICK p : Lists(p, m, rows, S)
    BY <1>1
  <1> QED BY <1>2, FilterIn

LEMMA LesserOf ==
    ASSUME NEW a \in Int, NEW b \in Int
    PROVE  C!Min({a, b}) = IF a <= b THEN a ELSE b
  <1>1. PICK k : k = IF a <= b THEN a ELSE b
    OBVIOUS
  <1>2. k \in {a, b} /\ \A y \in {a, b} : k <= y
    BY <1>1
  <1>3. \A x \in {a, b} : (\A y \in {a, b} : x <= y) => x = k
    BY <1>1
  <1>4. C!Min({a, b}) = CHOOSE x \in {a, b} : \A y \in {a, b} : x <= y
    BY DEF C!Min
  <1>5. /\ C!Min({a, b}) \in {a, b}
        /\ \A y \in {a, b} : C!Min({a, b}) <= y
    BY <1>2, <1>4
  <1> QED BY <1>1, <1>3, <1>5

\* What the constants are assumed to be.
NumbersInNat == /\ {FirstWindow, NativeWindow, Window, OldWeight, Budget, History} \subseteq Nat
                /\ MaxToolCalls \in Nat
                /\ FirstWindow <= Budget /\ NativeWindow <= Budget

\* What the window selects: no more rows than it has, and of those that were
\* counted the last.
LEMMA SelectedIs ==
    ASSUME NumbersInNat, NEW t \in Turns, log \in Seq(C!Rows), cturn[t].total \in Nat
    PROVE  /\ C!Selected(t) \in Seq(C!Rows)
           /\ cturn[t].total <= Len(log) =>
                \E a, m \in Nat :
                  /\ a + m <= Len(log) /\ m <= C!Limit(t)
                  /\ C!Selected(t) = SubSeq(log, a + 1, a + m)
                  /\ \A k \in 1..Len(log) :
                       k <= cturn[t].total /\ cturn[t].total - k < C!Limit(t)
                         => k \in (a + 1)..(a + m)
  <1>1. PICK w : w = C!Limit(t)
    OBVIOUS
  <1>2. w \in Nat
    BY <1>1 DEF NumbersInNat, C!Limit
  <1>3. PICK n : n = cturn[t].total
    OBVIOUS
  <1>4. PICK a : a = IF n > w THEN n - w ELSE 0
    OBVIOUS
  <1>5. PICK b : b = IF a + w <= Len(log) THEN a + w ELSE Len(log)
    OBVIOUS
  <1>6. a \in Nat /\ b \in Nat /\ b <= Len(log) /\ b <= a + w /\ n \in Nat /\ Len(log) \in Nat
    BY <1>2, <1>3, <1>4, <1>5
  <1>7. C!Min({a + w, Len(log)}) = b
    BY <1>2, <1>5, <1>6, LesserOf
  <1>8. C!Selected(t) = SubSeq(log, a + 1, b)
    BY <1>1, <1>3, <1>4, <1>7 DEF C!Selected
  <1>9. C!Selected(t) \in Seq(C!Rows)
    <2>1. a + 1 \in Int /\ b \in Int /\ \A i \in (a + 1)..b : log[i] \in C!Rows
      BY <1>6
    <2> QED BY <1>8, <2>1, SubSeqProperties
  <1>10. ASSUME n <= Len(log)
         PROVE  \E c, m \in Nat :
                  /\ c + m <= Len(log) /\ m <= w
                  /\ C!Selected(t) = SubSeq(log, c + 1, c + m)
                  /\ \A k \in 1..Len(log) : k <= n /\ n - k < w => k \in (c + 1)..(c + m)
    <2>1. PICK m : m = b - a
      OBVIOUS
    <2>2. m \in Nat /\ a + m = b /\ m <= w
      BY <1>2, <1>4, <1>5, <1>6, <1>10, <2>1
    <2>3. \A k \in 1..Len(log) : k <= n /\ n - k < w => k \in (a + 1)..(a + m)
      BY <1>2, <1>4, <1>5, <1>6, <1>10, <2>2
    <2>4. a + m <= Len(log) /\ C!Selected(t) = SubSeq(log, a + 1, a + m)
      BY <1>6, <1>8, <2>2
    <2>5. a \in Nat /\ m \in Nat /\ m <= w
      BY <1>6, <2>2
    <2> QED BY <2>3, <2>4, <2>5, Zenon
  <1> QED BY <1>1, <1>3, <1>9, <1>10

LEMMA BuildIn ==
    ASSUME NumbersInNat, NEW t \in Turns, log \in Seq(C!Rows), cturn[t].total \in Nat
    PROVE  C!Build(t) \in Seq(C!Rows)
  <1>1. C!Selected(t) \in Seq(C!Rows)
    BY SelectedIs
  <1>2. C!Filter(C!Selected(t), C!Spoken) \in Seq(C!Rows)
    BY <1>1, FilterType
  <1> QED BY <1>1, <1>2, TrimIn DEF C!Build

LEMMA OldFirstCut ==
    ASSUME NEW rows \in Seq(C!Rows), NEW a \in Nat, NEW m \in Nat, a + m <= Len(rows),
           OldFirst(rows)
    PROVE  OldFirst(SubSeq(rows, a + 1, a + m))
  <1>1. PICK cut : cut = SubSeq(rows, a + 1, a + m)
    OBVIOUS
  <1>2. Len(cut) = m /\ \A j \in 1..m : cut[j] = rows[a + j]
    BY <1>1, TakeFrom
  <1>3. ASSUME NEW i \in 1..m, NEW j \in 1..m, i < j, cut[j].by = None
        PROVE  cut[i].by = None
    <2>1. a + i \in 1..Len(rows) /\ a + j \in 1..Len(rows) /\ a + i < a + j
      BY <1>3
    <2> QED BY <1>2, <1>3, <2>1 DEF OldFirst
  <1>4. OldFirst(cut)
    BY <1>2, <1>3 DEF OldFirst
  <1> QED BY <1>1, <1>4

LEMMA OldFirstFilter ==
    ASSUME NEW rows \in Seq(C!Rows), NEW S, OldFirst(rows)
    PROVE  OldFirst(C!Filter(rows, S)) /\ Len(C!Filter(rows, S)) <= Len(rows)
  <1>1. PICK m \in 0..Len(rows) : \E p : Lists(p, m, rows, S)
    BY ListsExist
  <1>2. PICK p : Lists(p, m, rows, S)
    BY <1>1
  <1>3. PICK f : f = C!Filter(rows, S)
    OBVIOUS
  <1>4. f \in Seq(C!Rows) /\ Len(f) = m /\ \A i \in 1..m : f[i] = rows[p[i]]
    BY <1>2, <1>3, FilterIn
  <1>5. ASSUME NEW i \in 1..m, NEW j \in 1..m, i < j, f[j].by = None
        PROVE  f[i].by = None
    <2>1. p[i] \in 1..Len(rows) /\ p[j] \in 1..Len(rows) /\ p[i] < p[j]
      BY <1>2, <1>5 DEF Lists
    <2> QED BY <1>4, <1>5, <2>1 DEF OldFirst
  <1>6. OldFirst(f) /\ Len(f) <= Len(rows)
    BY <1>1, <1>4, <1>5 DEF OldFirst
  <1> QED BY <1>3, <1>6

\* The question is spoken, and stays where the other rows of tools go.
LEMMA FilterShows ==
    ASSUME NEW t \in Turns, NEW rows \in Seq(C!Rows), Shows(t, rows, 0)
    PROVE  Shows(t, C!Filter(rows, C!Spoken), 0)
  <1>1. PICK q \in [0..0 -> 1..Len(rows)] :
          /\ \A i \in 0..0 : rows[q[i]] = C!Row(t, Kind(i))
          /\ \A k \in 1..Len(rows) : rows[k].by = t => \E i \in 0..0 : k = q[i]
    BY DEF Shows
  <1>2. PICK a : a = q[0]
    OBVIOUS
  <1>3. 0..0 = {0}
    OBVIOUS
  <1>4. /\ a \in 1..Len(rows) /\ rows[a] = C!Row(t, "user")
        /\ \A k \in 1..Len(rows) : rows[k].by = t => k = a
    BY <1>1, <1>2, <1>3, KindIs
  <1>5. PICK m \in 0..Len(rows) : \E p : Lists(p, m, rows, C!Spoken)
    BY ListsExist
  <1>6. PICK p : Lists(p, m, rows, C!Spoken)
    BY <1>5
  <1>7. PICK f : f = C!Filter(rows, C!Spoken)
    OBVIOUS
  <1>8. f \in Seq(C!Rows) /\ Len(f) = m /\ \A i \in 1..m : f[i] = rows[p[i]]
    BY <1>6, <1>7, FilterIn
  <1>9. rows[a] \in C!Spoken
    <2>1. rows[a] \in C!Rows
      BY <1>4
    <2>2. rows[a].kind = "user"
      BY <1>4 DEF C!Row
    <2> QED BY <2>1, <2>2 DEF C!Spoken
  <1>10. PICK b \in 1..m : a = p[b]
    BY <1>4, <1>6, <1>9 DEF Lists
  <1>11. f[b] = C!Row(t, "user") /\ b \in 1..Len(f)
    BY <1>4, <1>8, <1>10
  <1>12. ASSUME NEW k \in 1..Len(f), f[k].by = t PROVE k = b
    <2>1. p[k] \in 1..Len(rows) /\ k \in 1..m
      BY <1>6, <1>8 DEF Lists
    <2>2. p[k] = p[b]
      BY <1>4, <1>8, <1>10, <1>12, <2>1
    <2>3. k \in Int /\ b \in Int /\ p[k] \in Int /\ p[b] \in Int
      BY <1>4, <1>5, <1>10, <2>1
    <2>4. (k < b => p[k] < p[b]) /\ (b < k => p[b] < p[k])
      BY <1>6, <1>10, <2>1 DEF Lists
    <2> QED BY <2>2, <2>3, <2>4
  <1>13. Shows(t, f, 0)
    BY <1>8, <1>11, <1>12, ShowsFirst
  <1> QED BY <1>7, <1>13

-----------------------------------------------------------------------------
(* The conversation: what a turn has written it sees.                      *)

ConvPaths == {"prose", "native", "gateway", None}
ConvAt == {"idle", "first", "again", "read", "model", "exec", "call", "tool", "answer",
           "done", "failed"}
ConvTurns == [path : ConvPaths, pc : ConvAt, made : Nat, ran : Nat, total : Nat,
              ctx : Seq(C!Rows), purged : BOOLEAN]
ConvTyped == log \in Seq(C!Rows) /\ cturn \in [Turns -> ConvTurns]

\* The window of the next context, and whether it reaches back to the question.
WindowOf(x) ==
    IF x.path = "native" THEN NativeWindow
    ELSE IF x.path = "gateway" \/ x.made > 0 THEN Window
    ELSE FirstWindow
Reaches(t, x, rows) == \E i \in 1..x.total :
    rows[i] = C!Row(t, "user") /\ x.total - i < WindowOf(x)

\* How many rows of calls and results the turn has written, and its context has.
Written(x) == IF x.pc = "call" THEN 2 * (x.ran - 1)
              ELSE IF x.pc = "tool" THEN 2 * (x.ran - 1) + 1
              ELSE 2 * x.ran
InContext(x) == IF x.pc \in {"call", "tool"} THEN 2 * (x.ran - 1) ELSE 2 * x.ran

\* A turn that runs has a question.
Began == {"first", "again", "read", "model", "exec", "call", "tool"}
Counted == {"read", "model", "exec", "call", "tool"}

ConvSteps(x) ==
    /\ x.pc \in {"idle", "first"} => x.made = 0 /\ x.ran = 0
    /\ x.pc = "idle" => ~x.purged
    /\ x.path = "native" => x.pc # "again" /\ (x.pc = "read" => x.made = 0 /\ x.ran = 0)
    /\ x.pc \in {"call", "tool"} => x.ran >= 1

ConvRows(t, x, rows) ==
    /\ x.pc = "idle" => \A k \in 1..Len(rows) : rows[k].by # t
    /\ ~x.purged /\ x.pc \in Began => Shows(t, rows, Written(x))
    /\ ~x.purged /\ x.pc \in Counted => x.total <= Len(rows)
    /\ ~x.purged /\ x.pc = "read" => \A k \in 1..Len(rows) : rows[k].by = t => k <= x.total

ConvContext(t, x, rows) ==
    /\ ~x.purged
    /\ x.pc = "model" \/ (x.path = "native" /\ x.pc \in {"exec", "call", "tool"})
    /\ Reaches(t, x, rows)
    => Shows(t, x.ctx, InContext(x))

Conv(t, x, rows) == ConvSteps(x) /\ ConvRows(t, x, rows) /\ ConvContext(t, x, rows)

ConvInv == ConvTyped /\ OldFirst(log) /\ \A t \in Turns : Conv(t, cturn[t], log)

\* A row of another turn changes nothing for this one.
LEMMA ConvOther ==
    ASSUME NEW t, NEW x \in ConvTurns, NEW rows \in Seq(C!Rows), NEW row \in C!Rows,
           row.by # t, Conv(t, x, rows)
    PROVE  Conv(t, x, Append(rows, row))
  <1>1. PICK more : more = Append(rows, row)
    OBVIOUS
  <1>2. /\ Len(rows) \in Nat /\ Len(more) = Len(rows) + 1 /\ more[Len(rows) + 1] = row
        /\ \A k \in 1..Len(rows) : more[k] = rows[k]
    BY <1>1
  <1>3. \A k \in 1..Len(more) : more[k].by = t => k \in 1..Len(rows) /\ rows[k].by = t
    BY <1>2
  <1>4. x.pc \in {"call", "tool"} => x.ran >= 1
    BY DEF Conv, ConvSteps
  <1>5. Written(x) \in Nat
    BY <1>4 DEF Written, ConvTurns
  <1>6. Shows(t, rows, Written(x)) => Shows(t, more, Written(x))
    BY <1>1, <1>5, ShowsOther
  <1>7. x.total <= Len(rows) => x.total <= Len(more)
    BY <1>2 DEF ConvTurns
  <1>8. ConvRows(t, x, more)
    BY <1>3, <1>6, <1>7 DEF Conv, ConvRows
  <1>9. ASSUME x.total <= Len(rows), Reaches(t, x, more) PROVE Reaches(t, x, rows)
    <2>1. PICK i \in 1..x.total : more[i] = C!Row(t, "user") /\ x.total - i < WindowOf(x)
      BY <1>9 DEF Reaches
    <2>2. i \in 1..Len(rows)
      BY <1>2, <1>9 DEF ConvTurns
    <2>3. rows[i] = C!Row(t, "user")
      BY <1>2, <2>1, <2>2
    <2> QED BY <2>1, <2>3 DEF Reaches
  <1>10. ConvContext(t, x, more)
    BY <1>9 DEF Conv, ConvRows, ConvContext, Counted
  <1>11. Conv(t, x, more)
    BY <1>8, <1>10 DEF Conv
  <1> QED BY <1>1, <1>11

LEMMA OldFirstAppend ==
    ASSUME NEW rows \in Seq(C!Rows), NEW row \in C!Rows, row.by # None, OldFirst(rows)
    PROVE  OldFirst(Append(rows, row))
  <1>1. PICK more : more = Append(rows, row)
    OBVIOUS
  <1>2. /\ Len(rows) \in Nat /\ Len(more) = Len(rows) + 1 /\ more[Len(rows) + 1] = row
        /\ \A k \in 1..Len(rows) : more[k] = rows[k]
    BY <1>1
  <1>3. ASSUME NEW i \in 1..Len(more), NEW j \in 1..Len(more), i < j, more[j].by = None
        PROVE  more[i].by = None
    <2>1. i \in 1..Len(rows) /\ j \in 1..Len(rows)
      BY <1>2, <1>3
    <2> QED BY <1>2, <1>3, <2>1 DEF OldFirst
  <1>4. OldFirst(more)
    BY <1>3 DEF OldFirst
  <1> QED BY <1>1, <1>4

\* A step of one turn, that may write a row of its own.
LEMMA ConvMoves ==
    ASSUME None \notin Turns, ConvInv, NEW t \in Turns, NEW x \in ConvTurns,
           cturn' = [cturn EXCEPT ![t] = x],
           \/ log' = log
           \/ \E of \in {"user", "call", "tool", "answer"} : C!Insert(t, of),
           Conv(t, x, log')
    PROVE  ConvInv'
  <1>1. log \in Seq(C!Rows) /\ cturn \in [Turns -> ConvTurns] /\ OldFirst(log)
    BY DEF ConvInv, ConvTyped
  <1>2. cturn' \in [Turns -> ConvTurns] /\ cturn'[t] = x
        /\ \A s \in Turns \ {t} : cturn'[s] = cturn[s]
    BY <1>1
  <1>3. CASE log' = log
    <2>1. \A s \in Turns : Conv(s, cturn'[s], log')
      BY <1>2, <1>3 DEF ConvInv
    <2> QED BY <1>1, <1>2, <1>3, <2>1 DEF ConvInv, ConvTyped
  <1>4. CASE \E of \in {"user", "call", "tool", "answer"} : C!Insert(t, of)
    <2>1. PICK of \in {"user", "call", "tool", "answer"} : C!Insert(t, of)
      BY <1>4
    <2>2. PICK row : row = C!Row(t, of)
      OBVIOUS
    <2>3. row \in C!Rows /\ row.by = t /\ log' = Append(log, row)
      BY <2>1, <2>2 DEF C!Row, C!Rows, C!Insert
    <2>4. log' \in Seq(C!Rows) /\ OldFirst(log')
      BY <1>1, <2>3, OldFirstAppend
    <2>5. ASSUME NEW s \in Turns \ {t} PROVE Conv(s, cturn'[s], log')
      <3>1. cturn[s] \in ConvTurns /\ Conv(s, cturn[s], log)
        BY <1>1 DEF ConvInv
      <3>2. Conv(s, cturn[s], Append(log, row))
        BY <1>1, <2>3, <3>1, ConvOther
      <3> QED BY <1>2, <2>3, <3>2
    <2>6. \A s \in Turns : Conv(s, cturn'[s], log')
      BY <1>2, <2>5
    <2> QED BY <1>2, <2>4, <2>6 DEF ConvInv, ConvTyped
  <1> QED BY <1>3, <1>4

LEMMA ConvAsk ==
    ASSUME None \notin Turns, ConvInv, NEW t \in Turns,
           NEW path \in {"prose", "native", "gateway"}, C!Ask(t, path)
    PROVE  ConvInv'
  <1>1. PICK x : x = [cturn[t] EXCEPT !.path = path, !.pc = "first"]
    OBVIOUS
  <1>2. /\ log \in Seq(C!Rows) /\ cturn \in [Turns -> ConvTurns] /\ cturn[t] \in ConvTurns
        /\ Conv(t, cturn[t], log)
    BY DEF ConvInv, ConvTyped
  <1>3. C!Insert(t, "user") /\ cturn[t].pc = "idle"
        /\ cturn' = [cturn EXCEPT ![t].path = path, ![t].pc = "first"]
    BY DEF C!Ask
  <1>4. cturn' = [cturn EXCEPT ![t] = x]
    BY <1>1, <1>2, <1>3
  <1>5. /\ x \in ConvTurns /\ x.pc = "first" /\ x.made = cturn[t].made /\ x.ran = cturn[t].ran
        /\ x.purged = cturn[t].purged
    BY <1>1, <1>2 DEF ConvTurns, ConvPaths, ConvAt
  <1>6. cturn[t].made = 0 /\ cturn[t].ran = 0 /\ \A k \in 1..Len(log) : log[k].by # t
    BY <1>2, <1>3 DEF Conv, ConvSteps, ConvRows
  <1>7. ConvSteps(x)
    BY <1>5, <1>6 DEF ConvSteps
  <1>8. PICK row : row = C!Row(t, "user")
    OBVIOUS
  <1>9. row \in C!Rows /\ log' = Append(log, row)
    BY <1>3, <1>8 DEF C!Row, C!Rows, C!Insert
  <1>10. /\ log' \in Seq(C!Rows) /\ Len(log') = Len(log) + 1 /\ log'[Len(log')] = row
         /\ \A k \in 1..Len(log) : log'[k] = log[k]
    BY <1>2, <1>9
  <1>11. Len(log') \in 1..Len(log') /\ \A k \in 1..Len(log') : log'[k].by = t => k = Len(log')
    BY <1>2, <1>6, <1>10
  <1>12. Shows(t, log', 0)
    BY <1>8, <1>10, <1>11, ShowsFirst
  <1>13. Written(x) = 0
    BY <1>5, <1>6 DEF Written
  <1>14. Conv(t, x, log')
    BY <1>5, <1>7, <1>12, <1>13 DEF Conv, ConvRows, ConvContext, Began, Counted
  <1>15. \E of \in {"user", "call", "tool", "answer"} : C!Insert(t, of)
    BY <1>3
  <1> QED BY <1>4, <1>5, <1>14, <1>15, ConvMoves

LEMMA ConvCount ==
    ASSUME None \notin Turns, ConvInv, NEW t \in Turns, C!Count(t)
    PROVE  ConvInv'
  <1>1. PICK x : x = [cturn[t] EXCEPT !.pc = "read", !.total = Len(log)]
    OBVIOUS
  <1>2. /\ log \in Seq(C!Rows) /\ cturn \in [Turns -> ConvTurns] /\ cturn[t] \in ConvTurns
        /\ Conv(t, cturn[t], log) /\ Len(log) \in Nat
    BY DEF ConvInv, ConvTyped
  <1>3. cturn' = [cturn EXCEPT ![t] = x] /\ log' = log /\ cturn[t].pc \in {"first", "again"}
    BY <1>1, <1>2 DEF C!Count
  <1>4. /\ x \in ConvTurns /\ x.pc = "read" /\ x.total = Len(log)
        /\ x.made = cturn[t].made /\ x.ran = cturn[t].ran
        /\ x.purged = cturn[t].purged /\ x.path = cturn[t].path
    BY <1>1, <1>2 DEF ConvTurns, ConvAt
  <1>5. ConvSteps(x)
    BY <1>2, <1>3, <1>4 DEF Conv, ConvSteps
  <1>6. Written(x) = Written(cturn[t])
    BY <1>3, <1>4 DEF Written
  <1>7. ~x.purged => Shows(t, log, Written(x))
    BY <1>2, <1>3, <1>4, <1>6 DEF Conv, ConvRows, Began
  <1>8. ConvRows(t, x, log)
    BY <1>2, <1>4, <1>7 DEF ConvRows
  <1>9. ConvContext(t, x, log)
    BY <1>4 DEF ConvContext
  <1> QED BY <1>3, <1>4, <1>5, <1>8, <1>9, ConvMoves DEF Conv

\* What the window shows of a turn, when its question is in it.
LEMMA ReadShows ==
    ASSUME None \notin Turns, NumbersInNat, ConvInv, NEW t \in Turns,
           cturn[t].pc = "read", ~cturn[t].purged, Reaches(t, cturn[t], log)
    PROVE  Shows(t, C!Build(t), 2 * cturn[t].ran)
  <1>1. PICK n : n = 2 * cturn[t].ran
    OBVIOUS
  <1>2. /\ log \in Seq(C!Rows) /\ cturn[t] \in ConvTurns /\ OldFirst(log)
        /\ Conv(t, cturn[t], log) /\ Len(log) \in Nat /\ n \in Nat
        /\ cturn[t].total \in Nat
    BY <1>1 DEF ConvInv, ConvTyped, ConvTurns
  <1>3. /\ Shows(t, log, n) /\ cturn[t].total <= Len(log)
        /\ \A k \in 1..Len(log) : log[k].by = t => k <= cturn[t].total
    BY <1>1, <1>2 DEF Conv, ConvRows, Began, Counted, Written
  <1>4. C!Limit(t) = WindowOf(cturn[t]) /\ C!Limit(t) \in Nat
    BY DEF C!Limit, WindowOf, NumbersInNat
  <1>5. PICK p \in [0..n -> 1..Len(log)] :
          /\ \A i, j \in 0..n : i < j => p[i] < p[j]
          /\ \A i \in 0..n : log[p[i]] = C!Row(t, Kind(i))
          /\ \A k \in 1..Len(log) : log[k].by = t => \E i \in 0..n : k = p[i]
    BY <1>3 DEF Shows
  <1>6. PICK q \in 1..cturn[t].total :
          log[q] = C!Row(t, "user") /\ cturn[t].total - q < C!Limit(t)
    BY <1>4 DEF Reaches
  <1>7. q = p[0]
    <2>1. q \in 1..Len(log) /\ log[q].by = t /\ log[q].kind = "user"
      BY <1>2, <1>3, <1>6 DEF C!Row
    <2>2. PICK i \in 0..n : q = p[i]
      BY <1>5, <2>1
    <2>3. Kind(i) = "user"
      <3>1. log[q] = C!Row(t, Kind(i))
        BY <1>5, <2>2
      <3> QED BY <2>1, <3>1 DEF C!Row
    <2>4. i = 0
      BY <2>3 DEF Kind
    <2> QED BY <2>2, <2>4
  <1>8. \A k \in 1..Len(log) : log[k].by = t => k >= q
    <2> SUFFICES ASSUME NEW k \in 1..Len(log), log[k].by = t PROVE k >= q
      OBVIOUS
    <2>1. PICK i \in 0..n : k = p[i]
      BY <1>5
    <2>2. CASE i = 0
      BY <1>7, <2>1, <2>2
    <2>3. CASE i # 0
      <3>1. p[0] < p[i]
        BY <1>2, <1>5, <2>3
      <3> QED BY <1>7, <2>1, <3>1
    <2> QED BY <2>2, <2>3
  <1>9. PICK a \in Nat, m \in Nat :
          /\ a + m <= Len(log) /\ m <= C!Limit(t)
          /\ C!Selected(t) = SubSeq(log, a + 1, a + m)
          /\ \A k \in 1..Len(log) :
               k <= cturn[t].total /\ cturn[t].total - k < C!Limit(t) => k \in (a + 1)..(a + m)
    BY <1>2, <1>3, SelectedIs
  <1>10. \A k \in 1..Len(log) : log[k].by = t => k \in (a + 1)..(a + m)
    <2> SUFFICES ASSUME NEW k \in 1..Len(log), log[k].by = t PROVE k \in (a + 1)..(a + m)
      OBVIOUS
    <2>1. k <= cturn[t].total /\ k >= q
      BY <1>3, <1>8
    <2>2. cturn[t].total - k < C!Limit(t)
      BY <1>2, <1>4, <1>6, <2>1
    <2> QED BY <1>9, <2>1, <2>2
  <1>11. PICK s : s = C!Selected(t)
    OBVIOUS
  <1>12. Shows(t, s, n)
    <2>1. a \in Nat /\ m \in Nat /\ a + m <= Len(log)
      BY <1>9
    <2>2. Shows(t, SubSeq(log, a + 1, a + m), n)
      BY <1>2, <1>3, <1>10, <2>1, ShowsCut
    <2> QED BY <1>9, <1>11, <2>2
  <1>13. OldFirst(s)
    BY <1>2, <1>9, <1>11, OldFirstCut
  <1>14. s \in Seq(C!Rows) /\ Len(s) = m
    BY <1>2, <1>9, <1>11, TakeFrom
  <1>15. CASE cturn[t].path = "gateway" \/ cturn[t].made > 0
    BY <1>1, <1>11, <1>12, <1>15 DEF C!Build
  <1>16. CASE ~(cturn[t].path = "gateway" \/ cturn[t].made > 0) /\ cturn[t].path = "native"
    <2>1. n = 0
      BY <1>1, <1>2, <1>16 DEF Conv, ConvSteps
    <2>2. PICK f : f = C!Filter(s, C!Spoken)
      OBVIOUS
    <2>3. Shows(t, f, 0)
      BY <1>12, <1>14, <2>1, <2>2, FilterShows
    <2>4. f \in Seq(C!Rows) /\ OldFirst(f) /\ Len(f) <= m
      BY <1>13, <1>14, <2>2, FilterType, OldFirstFilter
    <2>5. C!Limit(t) = NativeWindow /\ NativeWindow <= Budget /\ Budget \in Nat
          /\ OldWeight \in Nat /\ NativeWindow \in Nat
      BY <1>16 DEF C!Limit, NumbersInNat
    <2>6. Len(f) <= Budget
      BY <1>9, <2>4, <2>5
    <2>7. Shows(t, C!Trim(f), 0)
      BY <2>3, <2>4, <2>5, <2>6, TrimShows
    <2>8. C!Build(t) = C!Trim(f)
      BY <1>11, <1>16, <2>2 DEF C!Build
    <2> QED BY <1>1, <2>1, <2>7, <2>8
  <1>17. CASE ~(cturn[t].path = "gateway" \/ cturn[t].made > 0) /\ cturn[t].path # "native"
    <2>1. C!Limit(t) = FirstWindow /\ FirstWindow <= Budget /\ Budget \in Nat
          /\ OldWeight \in Nat /\ FirstWindow \in Nat
      BY <1>17 DEF C!Limit, NumbersInNat
    <2>2. Len(s) <= Budget
      BY <1>9, <1>14, <2>1
    <2>3. Shows(t, C!Trim(s), n)
      BY <1>2, <1>12, <1>13, <1>14, <2>1, <2>2, TrimShows
    <2>4. C!Build(t) = C!Trim(s)
      BY <1>11, <1>17 DEF C!Build
    <2> QED BY <1>1, <2>3, <2>4
  <1> QED BY <1>15, <1>16, <1>17

LEMMA ConvRead ==
    ASSUME None \notin Turns, NumbersInNat, ConvInv, NEW t \in Turns, C!Read(t)
    PROVE  ConvInv'
  <1>1. PICK x : x = [cturn[t] EXCEPT !.pc = "model", !.ctx = C!Build(t)]
    OBVIOUS
  <1>2. /\ log \in Seq(C!Rows) /\ cturn \in [Turns -> ConvTurns] /\ cturn[t] \in ConvTurns
        /\ Conv(t, cturn[t], log) /\ cturn[t].total \in Nat
    BY DEF ConvInv, ConvTyped, ConvTurns
  <1>3. cturn' = [cturn EXCEPT ![t] = x] /\ log' = log /\ cturn[t].pc = "read"
    BY <1>1, <1>2 DEF C!Read
  <1>4. C!Build(t) \in Seq(C!Rows)
    BY <1>2, BuildIn
  <1>5. /\ x \in ConvTurns /\ x.pc = "model" /\ x.total = cturn[t].total
        /\ x.made = cturn[t].made /\ x.ran = cturn[t].ran /\ x.ctx = C!Build(t)
        /\ x.purged = cturn[t].purged /\ x.path = cturn[t].path
    BY <1>1, <1>2, <1>4 DEF ConvTurns, ConvAt
  <1>6. ConvSteps(x)
    BY <1>5 DEF ConvSteps
  <1>7. Written(x) = Written(cturn[t])
    BY <1>3, <1>5 DEF Written
  <1>8. ConvRows(t, x, log)
    BY <1>2, <1>3, <1>5, <1>7 DEF Conv, ConvRows, Began, Counted
  <1>9. Reaches(t, x, log) => Reaches(t, cturn[t], log)
    BY <1>5 DEF Reaches, WindowOf
  <1>10. InContext(x) = 2 * cturn[t].ran
    BY <1>5 DEF InContext
  <1>11. ConvContext(t, x, log)
    <2> SUFFICES ASSUME ~x.purged, Reaches(t, x, log) PROVE Shows(t, x.ctx, InContext(x))
      BY DEF ConvContext
    <2>1. Shows(t, C!Build(t), 2 * cturn[t].ran)
      BY <1>3, <1>5, <1>9, ReadShows
    <2> QED BY <1>5, <1>10, <2>1
  <1> QED BY <1>3, <1>5, <1>6, <1>8, <1>11, ConvMoves DEF Conv

\* A step that moves the program counter where nothing is claimed of the context.
LEMMA ConvLeaves ==
    ASSUME None \notin Turns, ConvInv, NEW t \in Turns, NEW pc \in {"answer", "failed", "done"},
           C!Goto(t, pc), cturn[t].pc # "idle",
           log' = log \/ C!Insert(t, "answer")
    PROVE  ConvInv'
  <1>1. PICK x : x = [cturn[t] EXCEPT !.pc = pc]
    OBVIOUS
  <1>2. cturn \in [Turns -> ConvTurns] /\ cturn[t] \in ConvTurns /\ Conv(t, cturn[t], log)
    BY DEF ConvInv, ConvTyped
  <1>3. cturn' = [cturn EXCEPT ![t] = x]
    BY <1>1, <1>2 DEF C!Goto
  <1>4. /\ x \in ConvTurns /\ x.pc = pc /\ x.made = cturn[t].made /\ x.ran = cturn[t].ran
        /\ x.path = cturn[t].path
    BY <1>1, <1>2 DEF ConvTurns, ConvAt
  <1>5. Conv(t, x, log')
    BY <1>2, <1>4 DEF Conv, ConvSteps, ConvRows, ConvContext, Began, Counted
  <1>6. log' = log \/ \E of \in {"user", "call", "tool", "answer"} : C!Insert(t, of)
    OBVIOUS
  <1> QED BY <1>3, <1>4, <1>5, <1>6, ConvMoves

LEMMA ConvCall ==
    ASSUME None \notin Turns, ConvInv, NEW t \in Turns, C!Call(t)
    PROVE  ConvInv'
  <1>1. PICK x : x = [cturn[t] EXCEPT !.pc = "exec", !.made = @ + 1]
    OBVIOUS
  <1>2. /\ log \in Seq(C!Rows) /\ cturn \in [Turns -> ConvTurns] /\ cturn[t] \in ConvTurns
        /\ Conv(t, cturn[t], log) /\ cturn[t].made + 1 \in Nat
    BY DEF ConvInv, ConvTyped, ConvTurns
  <1>3. cturn' = [cturn EXCEPT ![t] = x] /\ log' = log /\ cturn[t].pc = "model"
    BY <1>1, <1>2 DEF C!Call
  <1>4. /\ x \in ConvTurns /\ x.pc = "exec" /\ x.total = cturn[t].total
        /\ x.ran = cturn[t].ran /\ x.ctx = cturn[t].ctx
        /\ x.purged = cturn[t].purged /\ x.path = cturn[t].path
    BY <1>1, <1>2 DEF ConvTurns, ConvAt
  <1>5. ConvSteps(x)
    BY <1>4 DEF ConvSteps
  <1>6. Written(x) = Written(cturn[t]) /\ InContext(x) = InContext(cturn[t])
    BY <1>3, <1>4 DEF Written, InContext
  <1>7. ConvRows(t, x, log)
    BY <1>2, <1>3, <1>4, <1>6 DEF Conv, ConvRows, Began, Counted
  <1>8. x.path = "native" /\ Reaches(t, x, log) => Reaches(t, cturn[t], log)
    BY <1>4 DEF Reaches, WindowOf
  <1>9. ConvContext(t, x, log)
    BY <1>2, <1>3, <1>4, <1>6, <1>8 DEF Conv, ConvContext
  <1> QED BY <1>3, <1>4, <1>5, <1>7, <1>9, ConvMoves DEF Conv

LEMMA ConvExec ==
    ASSUME None \notin Turns, ConvInv, NEW t \in Turns, C!Exec(t)
    PROVE  ConvInv'
  <1>1. PICK x : x = [cturn[t] EXCEPT !.pc = "call", !.ran = @ + 1]
    OBVIOUS
  <1>2. /\ log \in Seq(C!Rows) /\ cturn \in [Turns -> ConvTurns] /\ cturn[t] \in ConvTurns
        /\ Conv(t, cturn[t], log) /\ cturn[t].ran \in Nat /\ cturn[t].ran + 1 \in Nat
    BY DEF ConvInv, ConvTyped, ConvTurns
  <1>3. cturn' = [cturn EXCEPT ![t] = x] /\ log' = log /\ cturn[t].pc = "exec"
    BY <1>1, <1>2 DEF C!Exec
  <1>4. /\ x \in ConvTurns /\ x.pc = "call" /\ x.total = cturn[t].total
        /\ x.made = cturn[t].made /\ x.ran = cturn[t].ran + 1 /\ x.ctx = cturn[t].ctx
        /\ x.purged = cturn[t].purged /\ x.path = cturn[t].path
    BY <1>1, <1>2 DEF ConvTurns, ConvAt
  <1>5. ConvSteps(x)
    BY <1>2, <1>4 DEF ConvSteps
  <1>6. x.ran - 1 = cturn[t].ran
    BY <1>2, <1>4
  <1>7. Written(x) = Written(cturn[t]) /\ InContext(x) = InContext(cturn[t])
    BY <1>3, <1>4, <1>6 DEF Written, InContext
  <1>8. ConvRows(t, x, log)
    BY <1>2, <1>3, <1>4, <1>7 DEF Conv, ConvRows, Began, Counted
  <1>9. Reaches(t, x, log) => Reaches(t, cturn[t], log)
    BY <1>4 DEF Reaches, WindowOf
  <1>10. ConvContext(t, x, log)
    BY <1>2, <1>3, <1>4, <1>7, <1>9 DEF Conv, ConvContext
  <1> QED BY <1>3, <1>4, <1>5, <1>8, <1>10, ConvMoves DEF Conv

\* The next row of the story is written, and what was in the window still is.
LEMMA ConvInsert ==
    ASSUME NEW t \in Turns, NEW x \in ConvTurns, NEW y \in ConvTurns, NEW of \in {"call", "tool"},
           log \in Seq(C!Rows), Conv(t, x, log), C!Insert(t, of),
           x.pc \in {"call", "tool"}, of = x.pc,
           y.pc \in Began, y.pc # "read",
           Written(y) = Written(x) + 1, Kind(Written(x) + 1) = of,
           y.purged = x.purged, y.total = x.total, y.path = x.path
    PROVE  /\ ConvRows(t, y, log')
           /\ ~x.purged /\ x.path = "native" /\ Reaches(t, y, log') => Reaches(t, x, log)
  <1>1. PICK row : row = C!Row(t, of)
    OBVIOUS
  <1>2. row \in C!Rows /\ log' = Append(log, row)
    BY <1>1 DEF C!Row, C!Rows, C!Insert
  <1>3. /\ log' \in Seq(C!Rows) /\ Len(log') = Len(log) + 1 /\ Len(log) \in Nat
        /\ \A k \in 1..Len(log) : log'[k] = log[k]
    BY <1>2
  <1>4. x.ran >= 1 /\ x.ran \in Nat /\ Written(x) \in Nat
    <2>1. x.ran >= 1
      BY DEF Conv, ConvSteps
    <2>2. x.ran \in Nat
      BY DEF ConvTurns
    <2> QED BY <2>1, <2>2 DEF Written
  <1>5. ~x.purged => Shows(t, log, Written(x)) /\ x.total <= Len(log)
    BY DEF Conv, ConvRows, Began, Counted
  <1>6. ~x.purged => Shows(t, log', Written(x) + 1)
    BY <1>1, <1>2, <1>4, <1>5, ShowsNext
  <1>7. ~x.purged => y.total <= Len(log')
    BY <1>3, <1>5 DEF ConvTurns
  <1>8. ConvRows(t, y, log')
    BY <1>6, <1>7 DEF ConvRows, Began
  <1>9. ASSUME ~x.purged, x.path = "native", Reaches(t, y, log') PROVE Reaches(t, x, log)
    <2>1. PICK i \in 1..x.total : log'[i] = C!Row(t, "user") /\ x.total - i < WindowOf(x)
      BY <1>9 DEF Reaches, WindowOf
    <2>2. i \in 1..Len(log)
      BY <1>3, <1>5, <1>9 DEF ConvTurns
    <2>3. log[i] = C!Row(t, "user")
      BY <1>3, <2>1, <2>2
    <2> QED BY <2>1, <2>3 DEF Reaches
  <1> QED BY <1>8, <1>9

LEMMA ConvAddCall ==
    ASSUME None \notin Turns, ConvInv, NEW t \in Turns, C!AddCall(t)
    PROVE  ConvInv'
  <1>1. PICK x : x = [cturn[t] EXCEPT !.pc = "tool"]
    OBVIOUS
  <1>2. /\ log \in Seq(C!Rows) /\ cturn \in [Turns -> ConvTurns] /\ cturn[t] \in ConvTurns
        /\ Conv(t, cturn[t], log) /\ cturn[t].ran \in Nat
    BY DEF ConvInv, ConvTyped, ConvTurns
  <1>3. cturn' = [cturn EXCEPT ![t] = x] /\ C!Insert(t, "call") /\ cturn[t].pc = "call"
    BY <1>1, <1>2 DEF C!AddCall, C!Goto
  <1>4. /\ x \in ConvTurns /\ x.pc = "tool" /\ x.total = cturn[t].total
        /\ x.made = cturn[t].made /\ x.ran = cturn[t].ran /\ x.ctx = cturn[t].ctx
        /\ x.purged = cturn[t].purged /\ x.path = cturn[t].path
    BY <1>1, <1>2 DEF ConvTurns, ConvAt
  <1>5. cturn[t].ran >= 1 /\ cturn[t].ran - 1 \in Nat
    BY <1>2, <1>3 DEF Conv, ConvSteps
  <1>6. ConvSteps(x)
    BY <1>4, <1>5 DEF ConvSteps
  <1>7. /\ Written(cturn[t]) = 2 * (cturn[t].ran - 1) /\ Written(x) = 2 * (cturn[t].ran - 1) + 1
        /\ InContext(x) = InContext(cturn[t])
    BY <1>3, <1>4 DEF Written, InContext
  <1>8. Kind(Written(cturn[t]) + 1) = "call" /\ Written(x) = Written(cturn[t]) + 1
    BY <1>5, <1>7, KindIs
  <1>9. /\ ConvRows(t, x, log')
        /\ ~x.purged /\ x.path = "native" /\ Reaches(t, x, log') => Reaches(t, cturn[t], log)
    BY <1>2, <1>3, <1>4, <1>8, ConvInsert DEF Began
  <1>10. ConvContext(t, x, log')
    BY <1>2, <1>3, <1>4, <1>7, <1>9 DEF Conv, ConvContext
  <1>11. \E of \in {"user", "call", "tool", "answer"} : C!Insert(t, of)
    BY <1>3
  <1> QED BY <1>3, <1>4, <1>6, <1>9, <1>10, <1>11, ConvMoves DEF Conv

\* A native turn adds what it has written to its context as well.
LEMMA ConvAddTool ==
    ASSUME None \notin Turns, ConvInv, NEW t \in Turns, C!AddTool(t)
    PROVE  ConvInv'
  <1>1. PICK native : native = (cturn[t].path = "native")
    OBVIOUS
  <1>2. PICK call, tool : call = C!Row(t, "call") /\ tool = C!Row(t, "tool")
    OBVIOUS
  <1>3. PICK more : more = cturn[t].ctx \o <<call, tool>>
    OBVIOUS
  <1>4. PICK x : x = IF native THEN [cturn[t] EXCEPT !.pc = "model", !.ctx = more]
                     ELSE [cturn[t] EXCEPT !.pc = "again"]
    OBVIOUS
  <1>5. /\ log \in Seq(C!Rows) /\ cturn \in [Turns -> ConvTurns] /\ cturn[t] \in ConvTurns
        /\ Conv(t, cturn[t], log) /\ cturn[t].ran \in Nat /\ cturn[t].ctx \in Seq(C!Rows)
    BY DEF ConvInv, ConvTyped, ConvTurns
  <1>6. C!Insert(t, "tool") /\ cturn[t].pc = "tool"
    BY DEF C!AddTool
  <1>7. cturn' = [cturn EXCEPT ![t] = x]
    <2>1. CASE native
      BY <1>1, <1>2, <1>3, <1>4, <1>5, <2>1 DEF C!AddTool
    <2>2. CASE ~native
      BY <1>1, <1>4, <1>5, <2>2 DEF C!AddTool, C!Goto
    <2> QED BY <1>1, <2>1, <2>2
  <1>8. call \in C!Rows /\ tool \in C!Rows
    BY <1>2 DEF C!Row, C!Rows
  <1>9. PICK once : once = Append(cturn[t].ctx, call)
    OBVIOUS
  <1>10. once \in Seq(C!Rows) /\ more = Append(once, tool) /\ more \in Seq(C!Rows)
    BY <1>3, <1>5, <1>8, <1>9
  <1>11. /\ x \in ConvTurns /\ x.pc = (IF native THEN "model" ELSE "again")
         /\ x.total = cturn[t].total /\ x.made = cturn[t].made /\ x.ran = cturn[t].ran
         /\ x.ctx = (IF native THEN more ELSE cturn[t].ctx)
         /\ x.purged = cturn[t].purged /\ x.path = cturn[t].path
    BY <1>1, <1>4, <1>5, <1>10 DEF ConvTurns, ConvAt
  <1>12. cturn[t].ran >= 1 /\ cturn[t].ran - 1 \in Nat
    BY <1>5, <1>6 DEF Conv, ConvSteps
  <1>13. ConvSteps(x)
    BY <1>1, <1>11 DEF ConvSteps
  <1>14. /\ Written(cturn[t]) = 2 * (cturn[t].ran - 1) + 1
         /\ InContext(cturn[t]) = 2 * (cturn[t].ran - 1)
    BY <1>6 DEF Written, InContext
  <1>15. Written(x) = 2 * cturn[t].ran /\ InContext(x) = 2 * cturn[t].ran
    BY <1>11 DEF Written, InContext
  <1>16. /\ 2 * (cturn[t].ran - 1) + 2 = 2 * cturn[t].ran
         /\ 2 * (cturn[t].ran - 1) + 1 + 1 = 2 * cturn[t].ran
         /\ Kind(2 * (cturn[t].ran - 1) + 1) = "call" /\ Kind(2 * cturn[t].ran) = "tool"
    <2>1. PICK n : n = cturn[t].ran - 1
      OBVIOUS
    <2>2. n \in Nat /\ 2 * n + 2 = 2 * cturn[t].ran /\ 2 * n + 1 + 1 = 2 * cturn[t].ran
      BY <1>5, <1>12, <2>1
    <2>3. Kind(2 * n + 1) = "call" /\ Kind(2 * n + 2) = "tool"
      BY <2>2, KindIs
    <2> QED BY <2>1, <2>2, <2>3
  <1>17. Written(x) = Written(cturn[t]) + 1 /\ Kind(Written(cturn[t]) + 1) = "tool"
    BY <1>14, <1>15, <1>16
  <1>18. x.pc \in Began /\ x.pc # "read"
    BY <1>11 DEF Began
  <1>19. /\ ConvRows(t, x, log')
         /\ ~x.purged /\ x.path = "native" /\ Reaches(t, x, log') => Reaches(t, cturn[t], log)
    BY <1>5, <1>6, <1>11, <1>17, <1>18, ConvInsert
  <1>20. ConvContext(t, x, log')
    <2> SUFFICES ASSUME ~x.purged, x.pc = "model", Reaches(t, x, log')
                 PROVE  Shows(t, x.ctx, InContext(x))
      BY <1>11 DEF ConvContext
    <2>1. native /\ x.path = "native"
      BY <1>1, <1>11
    <2>2. PICK n : n = 2 * (cturn[t].ran - 1)
      OBVIOUS
    <2>3. n \in Nat /\ Kind(n + 1) = "call" /\ Kind(n + 1 + 1) = "tool"
          /\ n + 1 + 1 = 2 * cturn[t].ran
      BY <1>12, <1>16, <2>2
    <2>4. Shows(t, cturn[t].ctx, n)
      BY <1>5, <1>6, <1>11, <1>14, <1>19, <2>1, <2>2 DEF Conv, ConvContext
    <2>5. Shows(t, once, n + 1)
      BY <1>2, <1>5, <1>8, <1>9, <2>3, <2>4, ShowsNext
    <2>6. n + 1 \in Nat
      BY <2>3
    <2>7. Shows(t, more, n + 1 + 1)
      BY <1>2, <1>8, <1>10, <2>3, <2>5, <2>6, ShowsNext
    <2> QED BY <1>11, <1>15, <2>1, <2>3, <2>7
  <1>21. \E of \in {"user", "call", "tool", "answer"} : C!Insert(t, of)
    BY <1>6
  <1>22. Conv(t, x, log')
    BY <1>13, <1>19, <1>20 DEF Conv
  <1> QED BY <1>7, <1>11, <1>21, <1>22, ConvMoves

LEMMA ConvPurge ==
    ASSUME ConvInv, C!Purge
    PROVE  ConvInv'
  <1>1. cturn \in [Turns -> ConvTurns]
    BY DEF ConvInv, ConvTyped
  <1>2. log' = <<>> /\ log' \in Seq(C!Rows) /\ 1..Len(log') = {}
    BY DEF C!Purge
  <1>3. OldFirst(log')
    BY <1>2 DEF OldFirst
  <1>4. ASSUME NEW t \in Turns
        PROVE  cturn'[t] \in ConvTurns /\ Conv(t, cturn'[t], log')
    <2>1. PICK x : x = cturn'[t]
      OBVIOUS
    <2>2. x = [cturn[t] EXCEPT !.purged = @ \/ cturn[t].pc \in C!Waiting]
      BY <2>1 DEF C!Purge
    <2>3. cturn[t] \in ConvTurns /\ cturn[t].purged \in BOOLEAN
          /\ ConvSteps(cturn[t])
      BY <1>1 DEF ConvInv, Conv, ConvTurns
    <2>4. /\ x \in ConvTurns /\ x.pc = cturn[t].pc /\ x.made = cturn[t].made
          /\ x.ran = cturn[t].ran /\ x.path = cturn[t].path
          /\ x.purged = (cturn[t].purged \/ cturn[t].pc \in C!Waiting)
      BY <2>2, <2>3 DEF ConvTurns
    <2>5. ~x.purged => x.pc \notin Began
      BY <2>4 DEF Began, C!Waiting
    <2>6. ConvSteps(x)
      BY <2>3, <2>4 DEF ConvSteps, C!Waiting
    <2>7. ConvRows(t, x, log')
      BY <1>2, <2>5 DEF ConvRows, Began, Counted
    <2>8. ConvContext(t, x, log')
      BY <2>5 DEF ConvContext, Began
    <2> QED BY <2>1, <2>4, <2>6, <2>7, <2>8 DEF Conv
  <1>5. cturn' \in [Turns -> ConvTurns]
    BY <1>4 DEF C!Purge
  <1> QED BY <1>2, <1>3, <1>4, <1>5 DEF ConvInv, ConvTyped

LEMMA ConvInit == ASSUME NumbersInNat, None \notin Turns, C!Init PROVE ConvInv
  <1>1. PICK h : h = History
    OBVIOUS
  <1>2. h \in Nat
    BY <1>1 DEF NumbersInNat
  <1>3. /\ log = [i \in 1..h |-> C!Row(None, IF i % 2 = 1 THEN "user" ELSE "answer")]
        /\ cturn = [t \in Turns |-> C!Fresh]
    BY <1>1 DEF C!Init
  <1>4. \A i \in 1..h : /\ C!Row(None, IF i % 2 = 1 THEN "user" ELSE "answer") \in C!Rows
                        /\ C!Row(None, IF i % 2 = 1 THEN "user" ELSE "answer").by = None
    BY DEF C!Row, C!Rows
  <1>5. log \in Seq(C!Rows) /\ Len(log) = h /\ \A i \in 1..h : log[i].by = None
    BY <1>2, <1>3, <1>4
  <1>6. OldFirst(log)
    BY <1>5 DEF OldFirst
  <1>7. C!Fresh \in ConvTurns
    BY DEF C!Fresh, ConvTurns, ConvPaths, ConvAt
  <1>8. ASSUME NEW t \in Turns PROVE Conv(t, C!Fresh, log)
    BY <1>5 DEF Conv, ConvSteps, ConvRows, ConvContext, C!Fresh, Began, Counted
  <1> QED BY <1>3, <1>5, <1>6, <1>7, <1>8 DEF ConvInv, ConvTyped

LEMMA ConvNext ==
    ASSUME NumbersInNat, None \notin Turns, ConvInv, [C!Next]_(C!vars)
    PROVE  ConvInv'
  <1>1. CASE C!Purge
    BY <1>1, ConvPurge
  <1>2. ASSUME NEW t \in Turns, C!TurnStep(t) PROVE ConvInv'
    <2>1. CASE \E path \in {"prose", "native", "gateway"} : C!Ask(t, path)
      BY <2>1, ConvAsk
    <2>2. CASE C!Count(t)
      BY <2>2, ConvCount
    <2>3. CASE C!Read(t)
      BY <2>3, ConvRead
    <2>4. CASE C!Speak(t)
      <3>1. C!Goto(t, "answer") /\ cturn[t].pc # "idle" /\ log' = log
        BY <2>4 DEF C!Speak
      <3> QED BY <3>1, ConvLeaves
    <2>5. CASE C!Call(t)
      BY <2>5, ConvCall
    <2>6. CASE C!Exec(t)
      BY <2>6, ConvExec
    <2>7. CASE C!AddCall(t)
      BY <2>7, ConvAddCall
    <2>8. CASE C!AddTool(t)
      BY <2>8, ConvAddTool
    <2>9. CASE C!Answer(t)
      <3>1. C!Goto(t, "done") /\ cturn[t].pc # "idle" /\ C!Insert(t, "answer")
        BY <2>9 DEF C!Answer
      <3> QED BY <3>1, ConvLeaves
    <2>10. CASE C!Break(t)
      <3>1. C!Goto(t, "failed") /\ cturn[t].pc # "idle" /\ log' = log
        BY <2>10 DEF C!Break, C!Waiting
      <3> QED BY <3>1, ConvLeaves
    <2> QED BY <1>2, <2>1, <2>2, <2>3, <2>4, <2>5, <2>6, <2>7, <2>8, <2>9, <2>10 DEF C!TurnStep
  <1>3. CASE UNCHANGED C!vars
    BY <1>3 DEF C!vars, ConvInv, ConvTyped
  <1> QED BY <1>1, <1>2, <1>3 DEF C!Next

\* What the invariant says of a turn at the model is the property.
LEMMA ConvComplete == ASSUME ConvInv PROVE C!ContextIsComplete
  <1> SUFFICES ASSUME NEW t \in Turns, cturn[t].pc = "model", ~cturn[t].purged, C!InWindow(t)
               PROVE  [i \in DOMAIN C!Own(t, cturn[t].ctx) |-> C!Own(t, cturn[t].ctx)[i].kind]
                        = C!Story(t)
    BY DEF C!ContextIsComplete
  <1>1. /\ cturn[t].ctx \in Seq(C!Rows) /\ cturn[t].ran \in Nat /\ 2 * cturn[t].ran \in Nat
        /\ Conv(t, cturn[t], log)
    BY DEF ConvInv, ConvTyped, ConvTurns
  <1>2. Reaches(t, cturn[t], log)
    BY DEF C!InWindow, C!Limit, Reaches, WindowOf
  <1>3. Shows(t, cturn[t].ctx, 2 * cturn[t].ran)
    BY <1>1, <1>2 DEF Conv, ConvContext, InContext
  <1> QED BY <1>1, <1>3, OwnStory, StoryIs

-----------------------------------------------------------------------------
(* The composition.                                                        *)

\* However a reply is cut into tokens and whatever is held back of it, the device is
\* shown the reply, in order, and nothing from the first opener of a call on
\* (_split_at_marker_boundary, stream_local_text_with_tool_filter).
THEOREM DialogueMarkup == Spec => []NothingLost
  <1> DEFINE Inv == part = "markup" => MarkupInv
  <1>1. Init => Inv
    BY MarkupInit DEF Init
  <1>2. Inv /\ [Next]_vars => Inv'
    <2> SUFFICES ASSUME Inv, [Next]_vars, part' = "markup" PROVE MarkupInv'
      OBVIOUS
    <2>1. part = "markup" /\ [M!Next]_(M!vars)
      BY DEF Next, Only, vars, mvars, M!vars
    <2> QED BY <2>1, MarkupNext
  <1>3. Inv => NothingLost
    BY MarkupHolds DEF NothingLost
  <1> QED BY <1>1, <1>2, <1>3, PTL DEF Spec

\* Whatever is said, stopped, cancelled or left unfinished on a connection, the text a
\* dictation ends with is its own words, in order and each once, all that were not
\* given up; its note has no others; its summary carries its turn, and none of an
\* earlier dictation comes once the device waits for it, unless another connection
\* shuts the pipeline down (finish_dictation, _maybe_auto_create_note,
\* run_dictation_post_process).
THEOREM DialogueDictation == Spec => []TextIsOwn
  <1> DEFINE Inv == part = "dictation" => DictInv
  <1>1. Init => Inv
    BY DictInit DEF Init
  <1>2. Inv /\ [Next]_vars => Inv'
    <2> SUFFICES ASSUME Inv, [Next]_vars, part' = "dictation" PROVE DictInv'
      OBVIOUS
    <2>1. part = "dictation" /\ [D!Next]_(D!vars)
      BY DEF Next, Only, vars, dvars, D!vars
    <2> QED BY <2>1, DictNext
  <1>3. Inv => TextIsOwn
    BY DictHolds DEF TextIsOwn
  <1> QED BY <1>1, <1>2, <1>3, PTL DEF Spec

\* Whatever other turns write to the session in between, and wherever a turn is
\* cancelled, a turn that asks the model shows it its question and all that its tools
\* have said, in order and each once, when the window reaches back to the question
\* (ConversationEngine._build_context, trim_context_to_budget).
THEOREM DialogueContext == Spec => []ContextIsComplete
  <1> DEFINE Inv == part = "conversation" => ConvInv
  <1>1. NumbersInNat /\ None \notin Turns
    BY ConversationAssumption, RouterAssumption
       DEF C!NumbersAssumption, C!BudgetAssumption, NumbersInNat
  <1>2. Init => Inv
    BY <1>1, ConvInit DEF Init
  <1>3. Inv /\ [Next]_vars => Inv'
    <2> SUFFICES ASSUME Inv, [Next]_vars, part' = "conversation" PROVE ConvInv'
      OBVIOUS
    <2>1. part = "conversation" /\ [C!Next]_(C!vars)
      BY DEF Next, Only, vars, cvars, C!vars
    <2> QED BY <1>1, <2>1, ConvNext
  <1>4. Inv => ContextIsComplete
    BY ConvComplete DEF ContextIsComplete
  <1> QED BY <1>2, <1>3, <1>4, PTL DEF Spec
=============================================================================

--------------------------- MODULE BackendsProofs ---------------------------
(***************************************************************************)
(* Proofs about Backends, for any connections, kinds, configurations and   *)
(* bounds: what the pool offers works, what a pipeline will shut down is   *)
(* its own, and what it has borrowed is up.                                *)
(***************************************************************************)
EXTENDS Backends, FiniteSetTheorems, TLAPS

-----------------------------------------------------------------------------
(* The backends that are constructed: NthFree counts the free ones.        *)

Upto(i) == {j \in Free : j <= i}

LEMMA FreeFinite == IsFiniteSet(Free) /\ Free \subseteq Int
<1>1. Ids \in SUBSET Nat /\ \A i \in Ids : i <= MaxInsts
  BY ConstantsAssumption DEF Ids
<1>2. Free \in SUBSET Nat /\ \A i \in Free : i <= MaxInsts
  BY <1>1 DEF Free
<1> QED BY <1>2, FS_BoundedSetOfNaturals, ConstantsAssumption

LEMMA UptoGrows ==
    ASSUME NEW i \in Free, NEW k \in Free, i < k
    PROVE  Cardinality(Upto(i)) < Cardinality(Upto(k))
<1>1. Free \subseteq Int /\ IsFiniteSet(Upto(k)) /\ Upto(i) \in SUBSET Upto(k)
  <2>1. IsFiniteSet(Free) /\ Free \subseteq Int BY FreeFinite
  <2>2. Upto(k) \in SUBSET Free BY DEF Upto
  <2>3. IsFiniteSet(Upto(k)) BY <2>1, <2>2, FS_Subset
  <2>4. \A j \in Free : j <= i => j <= k BY <2>1
  <2>5. Upto(i) \subseteq Upto(k) BY <2>4 DEF Upto
  <2> QED BY <2>1, <2>3, <2>5
<1>2. k \in Upto(k) /\ k \notin Upto(i) BY <1>1 DEF Upto
<1>3. /\ Cardinality(Upto(i)) <= Cardinality(Upto(k))
      /\ Cardinality(Upto(k)) = Cardinality(Upto(i)) => Upto(k) = Upto(i)
  BY <1>1, FS_Subset
<1>4. Cardinality(Upto(i)) \in Nat /\ Cardinality(Upto(k)) \in Nat
  BY <1>1, FS_Subset, FS_CardinalityType
<1> QED BY <1>2, <1>3, <1>4

\* There is an n-th free backend as long as there are n.
LEMMA NthIsFree ==
    ASSUME NEW n \in 1..Cardinality(Free)
    PROVE  NthFree(n) \in Free /\ Cardinality(Upto(NthFree(n))) = n
<1> DEFINE N == Cardinality(Free)
           rank == [i \in Free |-> Cardinality(Upto(i))]
<1>0. IsFiniteSet(Free) /\ Free \subseteq Int /\ N \in Nat
  BY FreeFinite, FS_CardinalityType
<1>1. ASSUME NEW i \in Free PROVE Cardinality(Upto(i)) \in 1..N
  <2>1. Upto(i) \in SUBSET Free /\ i \in Upto(i) BY <1>0 DEF Upto
  <2>2. IsFiniteSet(Upto(i)) /\ Cardinality(Upto(i)) <= N BY <1>0, <2>1, FS_Subset
  <2>3. Cardinality(Upto(i)) \in Nat /\ Cardinality(Upto(i)) # 0
    BY <2>1, <2>2, FS_CardinalityType, FS_EmptySet
  <2> QED BY <1>0, <2>2, <2>3
<1>2. rank \in Injection(Free, 1..N)
  <2>1. rank \in [Free -> 1..N] BY <1>1
  <2>2. \A i, k \in Free : rank[i] = rank[k] => i = k
    <3> SUFFICES ASSUME NEW i \in Free, NEW k \in Free, i < k PROVE rank[i] # rank[k]
      BY <1>0
    <3>1. Cardinality(Upto(i)) < Cardinality(Upto(k)) BY UptoGrows
    <3>2. Cardinality(Upto(i)) \in 1..N /\ Cardinality(Upto(k)) \in 1..N BY <1>1
    <3> QED BY <3>1, <3>2, <1>0
  <2> QED BY <2>1, <2>2 DEF Injection, IsInjective
<1>3. IsFiniteSet(1..N) /\ Cardinality(1..N) = N
  <2>1. IsFiniteSet(1..N) /\ Cardinality(1..N) = IF 1 > N THEN 0 ELSE N - 1 + 1
    BY <1>0, FS_Interval
  <2> QED BY <1>0, <2>1
<1>4. rank \in Surjection(Free, 1..N) BY <1>2, <1>3, FS_Injection
<1>5. \E i \in Free : Cardinality(Upto(i)) = n BY <1>4 DEF Surjection
<1> QED BY <1>5 DEF NthFree, Upto

LEMMA FirstIsFree == ASSUME Free # {} PROVE NthFree(1) \in Free
<1>1. Cardinality(Free) \in Nat /\ Cardinality(Free) # 0
  BY FreeFinite, FS_CardinalityType, FS_EmptySet
<1> QED BY <1>1, NthIsFree

\* Each missing kind gets a backend of its own.
LEMMA NewOnes ==
    ASSUME NEW ks \in SUBSET Kinds, Cardinality(ks) <= Cardinality(Free)
    PROVE  /\ \A k \in ks : NewFor(ks)[k] \in Free
           /\ \A k, j \in ks : NewFor(ks)[k] = NewFor(ks)[j] => k = j
<1> DEFINE P(k) == {j \in ks : Rank(j) <= Rank(k)}
<1>0. ks \in SUBSET {"stt", "tts", "llm"} BY ConstantsAssumption
<1>1. IsFiniteSet(ks) /\ Cardinality(ks) \in Nat /\ Cardinality(Free) \in Nat
  <2>1. IsFiniteSet({"stt", "tts", "llm"})
    <3>0. IsFiniteSet({"stt"}) BY FS_Singleton
    <3>3. IsFiniteSet({"stt"} \cup {"tts"}) BY <3>0, FS_AddElement
    <3>1. IsFiniteSet(({"stt"} \cup {"tts"}) \cup {"llm"}) BY <3>3, FS_AddElement
    <3>2. ({"stt"} \cup {"tts"}) \cup {"llm"} = {"stt", "tts", "llm"} OBVIOUS
    <3> QED BY <3>1, <3>2
  <2>2. IsFiniteSet(ks) BY <1>0, <2>1, FS_Subset
  <2> QED BY <2>2, FS_CardinalityType, FreeFinite
<1>2. ASSUME NEW k \in ks
      PROVE  Cardinality(P(k)) \in 1..Cardinality(Free) /\ IsFiniteSet(P(k))
  <2>1. P(k) \in SUBSET ks /\ k \in P(k) BY DEF Rank
  <2>2. IsFiniteSet(P(k)) /\ Cardinality(P(k)) <= Cardinality(ks) BY <1>1, <2>1, FS_Subset
  <2>3. Cardinality(P(k)) \in Nat /\ Cardinality(P(k)) # 0
    BY <2>1, <2>2, FS_CardinalityType, FS_EmptySet
  <2> QED BY <1>1, <2>2, <2>3
<1>3. ASSUME NEW k \in ks, NEW j \in ks, Rank(j) < Rank(k)
      PROVE  Cardinality(P(j)) # Cardinality(P(k))
  <2>1. P(j) \in SUBSET P(k) /\ k \in P(k) /\ k \notin P(j) BY <1>3 DEF Rank
  <2> QED BY <1>2, <2>1, FS_Subset
<1>4. ASSUME NEW k \in ks, NEW j \in ks, Cardinality(P(j)) = Cardinality(P(k))
      PROVE  j = k
  <2>1. Rank(j) \in Nat /\ Rank(k) \in Nat /\ (Rank(j) = Rank(k) => j = k)
    BY <1>0 DEF Rank
  <2> QED BY <1>3, <1>4, <2>1
<1>5. \A k \in ks : NewFor(ks)[k] = NthFree(Cardinality(P(k))) BY DEF NewFor
<1>6. \A k \in ks : NewFor(ks)[k] \in Free /\ Cardinality(Upto(NewFor(ks)[k])) = Cardinality(P(k))
  BY <1>2, <1>5, NthIsFree
<1> QED BY <1>4, <1>6

-----------------------------------------------------------------------------
(* The inductive invariant.                                                *)

Pipes == [pc : {"none", "init", "up", "swap", "shed", "failed", "gone"},
          obj : Objects, old : Objects, be : [Kinds -> Ids \cup {None}],
          own : SUBSET Kinds, fresh : SUBSET Kinds, todo : SUBSET Kinds]
Tasks == [pc : {"idle", "lock", "check", "store", "cut", "kinds", "next", "conv", "convInit",
                "convSet", "ack"},
          req : Requests \cup {None}, at : Conns \cup {None}, left : SUBSET Conns,
          new : Ids \cup {None}, prev : Ids \cup {None}]

Shape ==
    /\ inst \in [Ids -> {"free", "new", "up", "down"}] /\ conv \in Ids
    /\ \A s \in DOMAIN pool : pool[s] \in Ids
    /\ pipe \in [Conns -> Pipes] /\ task \in [Swappers -> Tasks]
    /\ lock \in [Conns -> Swappers \cup {"text", None}] /\ puts \in 0..MaxPuts

Swaps(w, c) == task[w].pc \in {"cut", "kinds"} /\ task[w].at = c

\* Who exchanges the backends of a pipeline has the lock of its connection.
Locked ==
    /\ \A c \in Conns : task[c].pc # "idle" => task[c].at = c
    /\ \A c \in Conns : task[c].pc \notin {"idle", "lock"} => lock[c] = c
    /\ task[Put].pc \in {"lock", "cut", "kinds"} => task[Put].at \in Conns
    /\ \A c \in Conns : Swaps(Put, c) => lock[c] = Put
    /\ \A c \in Conns : task[Put].at = c => pipe[c].pc \in {"up", "swap"}

\* A pipeline that swaps is being swapped by someone; backends it has not yet given
\* to the pool are those of its initialisation or of this swap.
Swapping == \A c \in Conns :
    /\ \A w \in Swappers : Swaps(w, c) => pipe[c].pc = "swap"
    /\ pipe[c].pc = "swap" => Swaps(c, c) \/ Swaps(Put, c)
    /\ pipe[c].fresh # {} => \/ pipe[c].pc = "init"
                             \/ \E w \in {c, Put} : Swaps(w, c) /\ task[w].pc = "kinds"
    /\ pipe[c].fresh \subseteq pipe[c].own /\ pipe[c].fresh \cap pipe[c].todo = {}

\* What more than one may use: what is pooled or borrowed, and the engine's.
Shared(i) ==
    \/ \E s \in DOMAIN pool : pool[s] = i
    \/ i = conv \/ \E w \in Swappers : i \in {task[w].new, task[w].prev}
    \/ \E c \in Conns : \E k \in Kinds \ pipe[c].own : pipe[c].be[k] = i

\* What a pipeline owns has one use.
Alone(i, c, k) ==
    /\ inst[i] # "free" /\ ~Shared(i)
    /\ \A d \in Conns : \A j \in pipe[d].own : pipe[d].be[j] = i => d = c /\ j = k
Owned == \A c \in Conns : \A k \in pipe[c].own :
    pipe[c].be[k] \in Ids /\ \A i \in Ids : pipe[c].be[k] = i => Alone(i, c, k)

Used == \A i \in Ids : Shared(i) => inst[i] # "free"

\* Speech and language are not the same backend.
Speech(i) ==
    \/ \E s \in DOMAIN pool : s[1] # "llm" /\ pool[s] = i
    \/ \E c \in Conns : \E k \in Kinds \ (pipe[c].own \cup {"llm"}) : pipe[c].be[k] = i
Language(i) ==
    \/ \E s \in DOMAIN pool : s[1] = "llm" /\ pool[s] = i
    \/ i = conv \/ \E w \in Swappers : i \in {task[w].new, task[w].prev}
Apart == \A i \in Ids : ~(Speech(i) /\ Language(i))

\* Who installs a model in the engine knows it.
Choosing == \A w \in Swappers :
    /\ task[w].pc \in {"convInit", "convSet"} => task[w].new \in Ids
    /\ task[w].pc = "convInit" => task[w].prev \in Ids

Ready == \A s \in DOMAIN pool : inst[pool[s]] = "up"

Heap == Owned /\ Used /\ Apart /\ Ready /\ BorrowedIsUp

Control == Locked /\ Swapping /\ Choosing

IInv == Shape /\ Control /\ Heap

-----------------------------------------------------------------------------
(* What an action may do to the backends.                                  *)

LEMMA SigKind == ASSUME NEW k, NEW config PROVE Sig(k, config)[1] = k
BY DEF Sig

Same(d) == pipe'[d].be = pipe[d].be /\ pipe'[d].own = pipe[d].own
Emptied(d) == pipe'[d].own = {} /\ \A k \in Kinds : pipe'[d].be[k] = None

\* An action that only lets go of backends, and changes but what a pipeline owns.
LEMMA Released ==
    ASSUME Shape, Heap, Shape',
           \A d \in Conns : Same(d) \/ Emptied(d),
           pool' = pool,
           conv' = conv \/ \E w \in Swappers : conv' = task[w].new,
           \A w \in Swappers :
               {task'[w].new, task'[w].prev} \subseteq {task[w].new, task[w].prev, None},
           \A i \in Ids : inst'[i] # inst[i] =>
               inst'[i] # "free" /\ \E d \in Conns : \E k \in pipe[d].own : pipe[d].be[k] = i
    PROVE  Heap'
<1>0. None \notin Ids /\ \A d \in Conns : pipe[d].own \subseteq Kinds /\ pipe'[d].own \subseteq Kinds
  BY NamesAssumption DEF Shape, Pipes
<1>1. \A i \in Ids : Shared(i)' => Shared(i)
  BY <1>0 DEF Shared, Same, Emptied
<1>2. \A i \in Ids : Shared(i) => inst'[i] = inst[i]
  BY DEF Heap, Owned, Alone
<1>3. \A i \in Ids : Speech(i)' => Speech(i)
  BY <1>0 DEF Speech, Same, Emptied
<1>4. \A i \in Ids : Language(i)' => Language(i)
  BY <1>0 DEF Language
<1>5. Owned'
  <2>1. \A d \in Conns : pipe'[d].own # {} => Same(d) BY DEF Emptied
  <2>2. ASSUME NEW c \in Conns, NEW k \in pipe'[c].own
        PROVE  k \in pipe[c].own /\ pipe'[c].be[k] = pipe[c].be[k]
    BY <2>1 DEF Same
  <2>3. ASSUME NEW c \in Conns, NEW k \in pipe'[c].own, NEW i \in Ids, pipe'[c].be[k] = i
        PROVE  Alone(i, c, k)'
    <3>1. k \in pipe[c].own /\ pipe[c].be[k] = i BY <2>2, <2>3
    <3>2. Alone(i, c, k) BY <3>1 DEF Heap, Owned
    <3> QED BY <1>1, <2>2, <3>2 DEF Alone
  <2>4. \A c \in Conns : \A k \in pipe'[c].own : pipe'[c].be[k] \in Ids
    BY <2>2 DEF Heap, Owned
  <2> QED BY <2>3, <2>4 DEF Owned
<1>6. Used' BY <1>1, <1>2 DEF Heap, Used
<1>7. Apart' BY <1>3, <1>4 DEF Heap, Apart
<1>8. Ready'
  BY <1>2 DEF Heap, Ready, Shape, Shared
<1>9. BorrowedIsUp'
  <2> SUFFICES ASSUME NEW c \in Conns, NEW k \in Kinds \ (pipe'[c].own \cup {"llm"}),
                      pipe'[c].be[k] # None
               PROVE  inst'[pipe'[c].be[k]] = "up"
    BY DEF BorrowedIsUp
  <2>1. Same(c) BY DEF Emptied
  <2>2. inst[pipe[c].be[k]] = "up" /\ pipe'[c].be[k] = pipe[c].be[k] /\ k \notin pipe[c].own
    BY <2>1 DEF Heap, BorrowedIsUp, Same
  <2>3. pipe[c].be[k] \in Ids BY <2>2 DEF Shape, Pipes
  <2>4. Shared(pipe[c].be[k]) BY <2>2 DEF Shared
  <2> QED BY <1>2, <2>2, <2>3, <2>4
<1> QED BY <1>5, <1>6, <1>7, <1>8, <1>9 DEF Heap

-----------------------------------------------------------------------------
(* A pipeline borrows what the pool has and constructs the rest.           *)

Built(c, be, ks) ==
    [NoPipe(c) EXCEPT !.pc = "init", !.own = ks, !.fresh = ks, !.be = be]

LEMMA BuiltPipe ==
    ASSUME NEW c \in Conns, NEW be \in [Kinds -> Ids], NEW ks \in SUBSET Kinds
    PROVE  /\ Built(c, be, ks) \in Pipes
           /\ Built(c, be, ks).pc = "init" /\ Built(c, be, ks).own = ks
           /\ Built(c, be, ks).fresh = ks /\ Built(c, be, ks).be = be
           /\ Built(c, be, ks).todo = {}
BY DEF Built, NoPipe, Pipes, Objects

Borrows(c, config, be, missing) ==
    /\ \A k \in missing : be[k] \in Free /\ \A j \in missing : be[k] = be[j] => k = j
    /\ \A k \in Kinds \ missing :
          Sig(k, config) \in DOMAIN pool /\ be[k] = pool[Sig(k, config)]
    /\ inst' = [i \in Ids |-> IF \E k \in missing : be[k] = i THEN "new" ELSE inst[i]]
    /\ pipe' = [pipe EXCEPT ![c] = Built(c, be, missing)]
    /\ pool' = pool

LEMMA BorrowShape ==
    ASSUME Shape, NEW c \in Conns, NEW config, Borrow(c, config)
    PROVE  \E be \in [Kinds -> Ids], missing \in SUBSET Kinds : Borrows(c, config, be, missing)
<1> DEFINE missing == {k \in Kinds : Sig(k, config) \notin DOMAIN pool}
           new == NewFor(missing)
           be == [k \in Kinds |-> IF k \in missing THEN new[k] ELSE pool[Sig(k, config)]]
<1>1. /\ \A k \in missing : new[k] \in Free
      /\ \A k, j \in missing : new[k] = new[j] => k = j
  BY NewOnes DEF Borrow
<1>2. be \in [Kinds -> Ids] /\ Free \subseteq Ids BY <1>1 DEF Shape, Free
<1>3. Range(new) = {new[k] : k \in missing} BY DEF Range, NewFor
<1>4. inst' = [i \in Ids |-> IF \E k \in missing : be[k] = i THEN "new" ELSE inst[i]]
  BY <1>3 DEF Borrow, Set
<1>5. pipe' = [pipe EXCEPT ![c] = Built(c, be, missing)]
  BY DEF Borrow, Built
<1> HIDE DEF new
<1>6. \A k \in missing : be[k] \in Free /\ \A j \in missing : be[k] = be[j] => k = j BY <1>1
<1>7. \A k \in Kinds \ missing : Sig(k, config) \in DOMAIN pool /\ be[k] = pool[Sig(k, config)]
  OBVIOUS
<1>8. Borrows(c, config, be, missing)
  BY <1>4, <1>5, <1>6, <1>7 DEF Borrow, Borrows
<1> QED BY <1>2, <1>8

LEMMA Borrowed ==
    ASSUME Shape, Heap, Shape', NEW c \in Conns, NEW config, Borrow(c, config),
           conv' = conv, task' = task
    PROVE  Heap'
<1>0. PICK be \in [Kinds -> Ids], missing \in SUBSET Kinds : Borrows(c, config, be, missing)
  BY BorrowShape
<1> USE DEF Borrows
<1>1. /\ pipe'[c].be = be /\ pipe'[c].own = missing
      /\ \A d \in Conns \ {c} : pipe'[d] = pipe[d]
  BY <1>0, BuiltPipe DEF Shape
<1>2. \A i \in Ids : Shared(i)' => Shared(i)
  BY <1>0, <1>1 DEF Shared
<1>3. \A i \in Ids : Speech(i)' => Speech(i)
  <2>1. \A k \in Kinds \ (missing \cup {"llm"}) : Speech(be[k])
    BY <1>0, SigKind DEF Speech
  <2> QED BY <1>0, <1>1, <2>1 DEF Speech
<1>4. \A i \in Ids : Language(i)' => Language(i) BY <1>0 DEF Language
<1>5. \A i \in Ids : inst[i] # "free" => inst'[i] = inst[i] BY <1>0 DEF Free
<1>6. \A i \in Ids : Shared(i) => inst[i] # "free" BY DEF Heap, Used
<1>7. Owned'
  <2>1. ASSUME NEW d \in Conns, NEW k \in pipe'[d].own
        PROVE  /\ pipe'[d].be[k] \in Ids
               /\ d # c => k \in pipe[d].own /\ pipe'[d] = pipe[d]
               /\ d # c => inst[pipe'[d].be[k]] # "free"
               /\ d = c => pipe'[d].be[k] \in Free /\ k \in missing
    BY <1>0, <1>1 DEF Heap, Owned, Alone
  <2>2. ASSUME NEW d \in Conns, NEW k \in pipe'[d].own, NEW i \in Ids, pipe'[d].be[k] = i
        PROVE  Alone(i, d, k)'
    <3>1. inst'[i] # "free"
      BY <2>1, <2>2, <1>0, <1>1 DEF Free
    <3>2. ~Shared(i)'
      <4>1. CASE d = c BY <4>1, <2>1, <2>2, <1>2, <1>6 DEF Free
      <4>2. CASE d # c
        <5>1. k \in pipe[d].own /\ pipe[d].be[k] = i BY <2>1, <2>2, <4>2
        <5>2. Alone(i, d, k) BY <5>1 DEF Heap, Owned
        <5> QED BY <5>2, <1>2 DEF Alone
      <4> QED BY <4>1, <4>2
    <3>3. ASSUME NEW e \in Conns, NEW j \in pipe'[e].own, pipe'[e].be[j] = i
          PROVE  e = d /\ j = k
      <4>1. CASE d = c /\ e = c BY <4>1, <3>3, <2>2, <1>0, <1>1
      <4>2. CASE d = c /\ e # c BY <4>2, <3>3, <2>1, <2>2 DEF Free
      <4>3. CASE d # c /\ e = c BY <4>3, <3>3, <2>1, <2>2 DEF Free
      <4>4. CASE d # c /\ e # c
        <5>1. k \in pipe[d].own /\ pipe[d].be[k] = i BY <2>1, <2>2, <4>4
        <5>2. Alone(i, d, k) BY <5>1 DEF Heap, Owned
        <5>3. j \in pipe[e].own /\ pipe[e].be[j] = i BY <2>1, <3>3, <4>4
        <5> QED BY <5>2, <5>3 DEF Alone
      <4> QED BY <4>1, <4>2, <4>3, <4>4
    <3> QED BY <3>1, <3>2, <3>3 DEF Alone
  <2> QED BY <2>1, <2>2 DEF Owned
<1>8. Used' BY <1>2, <1>5, <1>6 DEF Used
<1>9. Apart' BY <1>3, <1>4 DEF Heap, Apart
<1>10. Ready' BY <1>0, <1>5 DEF Heap, Ready, Shape
<1>11. BorrowedIsUp'
  <2> SUFFICES ASSUME NEW d \in Conns, NEW k \in Kinds \ (pipe'[d].own \cup {"llm"}),
                      pipe'[d].be[k] # None
               PROVE  inst'[pipe'[d].be[k]] = "up"
    BY DEF BorrowedIsUp
  <2>1. CASE d = c BY <2>1, <1>0, <1>1, <1>10 DEF Ready
  <2>2. CASE d # c
    <3>1. pipe'[d] = pipe[d] /\ inst[pipe[d].be[k]] = "up" BY <2>2, <1>1 DEF Heap, BorrowedIsUp
    <3>2. pipe[d].be[k] \in Ids BY <3>1 DEF Shape, Pipes
    <3> QED BY <3>1, <3>2, <1>5
  <2> QED BY <2>1, <2>2
<1> QED BY <1>7, <1>8, <1>9, <1>10, <1>11 DEF Heap

-----------------------------------------------------------------------------
(* The pool takes the fresh backends of a pipeline.                        *)

Adopts(c, config) ==
    /\ inst' = [i \in Ids |-> IF \E k \in pipe[c].fresh : pipe[c].be[k] = i
                              THEN "up" ELSE inst[i]]
    /\ DOMAIN pool' = DOMAIN pool \cup {Sig(k, config) : k \in pipe[c].fresh}
    /\ \A k \in pipe[c].fresh : pool'[Sig(k, config)] = pipe[c].be[k]
    /\ \A s \in DOMAIN pool : pool'[s] = pool[s]
             \/ \E k \in pipe[c].fresh : s = Sig(k, config) /\ pool'[s] = pipe[c].be[k]
    /\ pipe' = [pipe EXCEPT ![c] = [pipe[c] EXCEPT
           !.pc = "up", !.own = pipe[c].own \ pipe[c].fresh, !.fresh = {}]]

LEMMA AdoptShape ==
    ASSUME NEW c \in Conns, Shape, pipe[c].fresh \subseteq pipe[c].own, Adopt(c)
    PROVE  \E config : Adopts(c, config)
<1> DEFINE config == cfg[pipe[c].obj]
           fresh == pipe[c].fresh
           f == [s \in {Sig(k, config) : k \in fresh} |->
                   pipe[c].be[CHOOSE k \in fresh : Sig(k, config) = s]]
<1>1. \A k \in fresh : (CHOOSE j \in fresh : Sig(j, config) = Sig(k, config)) = k
  <2>1. \A k, j \in fresh : Sig(j, config) = Sig(k, config) => j = k BY SigKind
  <2> QED BY <2>1
<1>2. \A k \in fresh : f[Sig(k, config)] = pipe[c].be[k]
  BY <1>1
<1>3. pool' = WithPooled(f) /\ DOMAIN f = {Sig(k, config) : k \in fresh} BY DEF Adopt
<1> HIDE DEF f, config
<1>4. /\ DOMAIN pool' = DOMAIN pool \cup {Sig(k, config) : k \in fresh}
      /\ \A s \in DOMAIN f : pool'[s] = f[s]
      /\ \A s \in DOMAIN pool : pool'[s] = pool[s] \/ s \in DOMAIN f
  BY <1>3 DEF WithPooled
<1>5. inst' = [i \in Ids |-> IF \E k \in fresh : pipe[c].be[k] = i THEN "up" ELSE inst[i]]
  BY DEF Adopt, Set
<1>6. pipe' = [pipe EXCEPT ![c] = [pipe[c] EXCEPT
               !.pc = "up", !.own = pipe[c].own \ pipe[c].fresh, !.fresh = {}]]
  BY DEF Adopt
<1>7. \A k \in fresh : pool'[Sig(k, config)] = pipe[c].be[k] BY <1>2, <1>3, <1>4
<1>8. \A s \in DOMAIN pool : pool'[s] = pool[s]
             \/ \E k \in fresh : s = Sig(k, config) /\ pool'[s] = pipe[c].be[k]
  BY <1>3, <1>4, <1>7
<1>9. Adopts(c, config) BY <1>4, <1>5, <1>6, <1>7, <1>8 DEF Adopts
<1> QED BY <1>9

\* What was the pipeline's own and is the pool's now is still no one else's own.
LEMMA Adopted ==
    ASSUME Shape, Heap, Shape', NEW c \in Conns, NEW config, Adopts(c, config),
           pipe[c].fresh \subseteq pipe[c].own, conv' = conv,
           \A w \in Swappers : task'[w].new = task[w].new /\ task'[w].prev = task[w].prev
    PROVE  Heap'
<1> DEFINE Fresh(i) == \E k \in pipe[c].fresh : pipe[c].be[k] = i
<1>1. /\ pipe'[c].be = pipe[c].be /\ pipe'[c].own = pipe[c].own \ pipe[c].fresh
      /\ \A d \in Conns \ {c} : pipe'[d] = pipe[d]
      /\ pipe[c].own \subseteq Kinds
  BY DEF Adopts, Shape, Pipes
<1>2. \A s \in DOMAIN pool' : Fresh(pool'[s]) \/ (s \in DOMAIN pool /\ pool'[s] = pool[s])
  <2> SUFFICES ASSUME NEW s \in DOMAIN pool'
               PROVE  Fresh(pool'[s]) \/ (s \in DOMAIN pool /\ pool'[s] = pool[s])
    OBVIOUS
  <2>0. \A r \in DOMAIN pool : pool'[r] = pool[r]
          \/ \E k \in pipe[c].fresh : r = Sig(k, config) /\ pool'[r] = pipe[c].be[k]
    BY DEF Adopts
  <2>1. CASE s \in DOMAIN pool BY <2>0, <2>1
  <2>2. CASE s \notin DOMAIN pool
    <3>1. DOMAIN pool' = DOMAIN pool \cup {Sig(k, config) : k \in pipe[c].fresh}
      BY DEF Adopts
    <3>2. PICK k \in pipe[c].fresh : s = Sig(k, config) BY <2>2, <3>1
    <3>3. pool'[Sig(k, config)] = pipe[c].be[k] BY DEF Adopts
    <3> QED BY <3>2, <3>3
  <2> QED BY <2>1, <2>2
<1> USE DEF Adopts
<1>3. \A i \in Ids : Shared(i)' => Shared(i) \/ Fresh(i)
  BY <1>1, <1>2 DEF Shared
<1>4. \A k \in pipe[c].fresh : pipe[c].be[k] \in Ids /\ Alone(pipe[c].be[k], c, k)
  BY DEF Heap, Owned
<1>5. \A i \in Ids : Fresh(i) => ~Speech(i) /\ ~Language(i)
  <2>1. \A i \in Ids : Speech(i) \/ Language(i) => Shared(i)
    BY DEF Speech, Language, Shared
  <2> QED BY <1>4, <2>1 DEF Alone
<1>6. \A i \in Ids : inst[i] # "free" => inst'[i] # "free" OBVIOUS
<1>7. Owned'
  <2>1. ASSUME NEW d \in Conns, NEW k \in pipe'[d].own
        PROVE  /\ k \in pipe[d].own /\ pipe'[d].be = pipe[d].be
               /\ pipe[d].be[k] \in Ids
               /\ d = c => k \notin pipe[c].fresh
    BY <1>1 DEF Heap, Owned
  <2>2. ASSUME NEW d \in Conns, NEW k \in pipe'[d].own, NEW i \in Ids, pipe'[d].be[k] = i
        PROVE  Alone(i, d, k)'
    <3>1. Alone(i, d, k) BY <2>1, <2>2 DEF Heap, Owned
    <3>2. ~Fresh(i) BY <2>1, <3>1, <1>1 DEF Alone
    <3>3. \A e \in Conns : \A j \in pipe'[e].own : pipe'[e].be[j] = i => e = d /\ j = k
      BY <3>1, <2>1 DEF Alone
    <3> QED BY <3>1, <3>2, <3>3, <1>3, <1>6 DEF Alone
  <2> QED BY <2>1, <2>2 DEF Owned
<1>8. Used' BY <1>3, <1>6 DEF Heap, Used
<1>9. Apart'
  <2>1. \A i \in Ids : Speech(i)' =>
            Speech(i) \/ \E k \in pipe[c].fresh \ {"llm"} : pipe[c].be[k] = i
    BY <1>1, SigKind DEF Speech
  <2>2. \A i \in Ids : Language(i)' =>
            Language(i) \/ ("llm" \in pipe[c].fresh /\ pipe[c].be["llm"] = i)
    BY <1>1, SigKind DEF Language
  <2>3. \A k, j \in pipe[c].fresh : pipe[c].be[k] = pipe[c].be[j] => k = j
    BY <1>4 DEF Alone
  <2> QED BY <2>1, <2>2, <2>3, <1>5 DEF Heap, Apart
<1>10. Ready'
  <2> SUFFICES ASSUME NEW s \in DOMAIN pool' PROVE inst'[pool'[s]] = "up"
    BY DEF Ready
  <2>1. pool'[s] \in Ids BY DEF Shape
  <2> QED BY <1>2, <2>1 DEF Heap, Ready
<1>11. BorrowedIsUp'
  <2> SUFFICES ASSUME NEW d \in Conns, NEW k \in Kinds \ (pipe'[d].own \cup {"llm"}),
                      pipe'[d].be[k] # None
               PROVE  inst'[pipe'[d].be[k]] = "up"
    BY DEF BorrowedIsUp
  <2>1. pipe'[d].be = pipe[d].be /\ pipe[d].be[k] \in Ids BY <1>1 DEF Shape, Pipes
  <2>2. Fresh(pipe[d].be[k]) \/ k \notin pipe[d].own BY <1>1
  <2>3. Fresh(pipe[d].be[k]) \/ inst[pipe[d].be[k]] = "up" BY <2>1, <2>2 DEF Heap, BorrowedIsUp
  <2> QED BY <2>1, <2>3
<1> QED BY <1>7, <1>8, <1>9, <1>10, <1>11 DEF Heap

-----------------------------------------------------------------------------
(* One backend of a pipeline is exchanged.                                 *)

Exchanges(c, k, next, lost, st) ==
    /\ pipe'[c].be = [pipe[c].be EXCEPT ![k] = next]
    /\ \A d \in Conns \ {c} : pipe'[d] = pipe[d]
    /\ \A i \in Ids : inst'[i] = IF i = next /\ st = "new" THEN "new"
                                 ELSE IF i = lost THEN "down" ELSE inst[i]
    /\ pool' = pool /\ conv' = conv /\ task' = task
    /\ k \in pipe[c].own => lost = pipe[c].be[k]
    /\ k \notin pipe[c].own => lost = None
    /\ st = "new" => next \in Free /\ pipe'[c].own = pipe[c].own \cup {k}
    /\ st = "pool" => /\ pipe'[c].own = pipe[c].own \ {k}
                      /\ \E s \in DOMAIN pool : s[1] = k /\ pool[s] = next

LEMMA Exchanged ==
    ASSUME Shape, Heap, Shape', NEW c \in Conns, NEW k \in Kinds, NEW next \in Ids,
           NEW lost, NEW st \in {"new", "pool"}, Exchanges(c, k, next, lost, st)
    PROVE  Heap'
<1> USE DEF Exchanges
<1>0. None \notin Ids /\ pipe[c].own \subseteq Kinds /\ pipe[c].be \in [Kinds -> Ids \cup {None}]
  BY NamesAssumption DEF Shape, Pipes
<1>1. \A i \in Ids : inst[i] = "free" => ~Shared(i) BY DEF Heap, Used
<1>2. \A i \in Ids : i = lost => ~Shared(i) BY <1>0 DEF Heap, Owned, Alone
<1>3. \A d \in Conns : \A j \in Kinds : d # c \/ j # k =>
        /\ pipe'[d].be[j] = pipe[d].be[j]
        /\ j \in pipe'[d].own <=> j \in pipe[d].own
  <2>1. \A j \in Kinds : j # k => pipe'[c].be[j] = pipe[c].be[j] BY <1>0
  <2>2. st = "new" \/ st = "pool" OBVIOUS
  <2>3. \A j \in Kinds : j # k => (j \in pipe'[c].own <=> j \in pipe[c].own)
    BY <2>2
  <2> QED BY <2>1, <2>3
<1>4. pipe'[c].be[k] = next BY <1>0
<1>5. \A i \in Ids : Shared(i)' => Shared(i)
  <2>1. st = "pool" => Shared(next) BY DEF Shared
  <2>2. st = "new" => k \in pipe'[c].own OBVIOUS
  <2>3. ASSUME NEW d \in Conns, NEW j \in Kinds \ pipe'[d].own, pipe'[d].be[j] \in Ids
        PROVE  Shared(pipe'[d].be[j])
    <3>1. CASE d = c /\ j = k BY <1>4, <2>1, <2>2, <2>3, <3>1
    <3>2. CASE d # c \/ j # k
      <4>1. j \notin pipe[d].own /\ pipe'[d].be[j] = pipe[d].be[j] BY <1>3, <3>2
      <4> QED BY <4>1 DEF Shared
    <3> QED BY <3>1, <3>2
  <2>4. ASSUME NEW i \in Ids, Shared(i)' PROVE Shared(i)
    <3>1. CASE \E d \in Conns : \E j \in Kinds \ pipe'[d].own : pipe'[d].be[j] = i
      BY <2>3, <3>1
    <3>2. CASE ~\E d \in Conns : \E j \in Kinds \ pipe'[d].own : pipe'[d].be[j] = i
      BY <2>4, <3>2 DEF Shared
    <3> QED BY <3>1, <3>2
  <2> QED BY <2>4
<1>6. \A i \in Ids : Shared(i) => inst'[i] = inst[i] BY <1>1, <1>2 DEF Free
<1>7. Owned'
  <2>1. ASSUME NEW d \in Conns, NEW j \in pipe'[d].own, <<d, j>> # <<c, k>>
        PROVE  j \in pipe[d].own /\ pipe'[d].be[j] = pipe[d].be[j]
    <3>1. j \in Kinds BY DEF Shape, Pipes
    <3> QED BY <1>3, <2>1, <3>1
  <2>2. k \in pipe'[c].own => st = "new" BY <1>0
  <2>3. ASSUME NEW d \in Conns, NEW j \in pipe'[d].own, NEW i \in Ids, pipe'[d].be[j] = i
        PROVE  Alone(i, d, j)'
    <3>1. CASE <<d, j>> = <<c, k>>
      <4>1. i = next /\ next \in Free BY <1>4, <2>2, <2>3, <3>1
      <4>2. ~Shared(i)' BY <1>1, <1>5, <4>1 DEF Free
      <4>3. ASSUME NEW e \in Conns, NEW l \in pipe'[e].own, pipe'[e].be[l] = i,
                   <<e, l>> # <<c, k>>
            PROVE  FALSE
        <5>1. l \in pipe[e].own /\ pipe[e].be[l] = i BY <2>1, <4>3
        <5>2. Alone(i, e, l) BY <5>1 DEF Heap, Owned
        <5> QED BY <4>1, <5>2 DEF Alone, Free
      <4>4. inst'[i] # "free" BY <2>2, <3>1, <4>1
      <4> QED BY <4>2, <4>3, <4>4, <3>1 DEF Alone
    <3>2. CASE <<d, j>> # <<c, k>>
      <4>1. j \in pipe[d].own /\ pipe[d].be[j] = i BY <2>1, <2>3, <3>2
      <4>2. Alone(i, d, j) BY <4>1 DEF Heap, Owned
      <4>3. ASSUME NEW e \in Conns, NEW l \in pipe'[e].own, pipe'[e].be[l] = i
            PROVE  e = d /\ l = j
        <5>1. CASE <<e, l>> = <<c, k>> BY <5>1, <4>2, <4>3, <1>4, <2>2 DEF Alone, Free
        <5>2. CASE <<e, l>> # <<c, k>>
          <6>1. l \in pipe[e].own /\ pipe[e].be[l] = i BY <2>1, <4>3, <5>2
          <6> QED BY <4>2, <6>1 DEF Alone
        <5> QED BY <5>1, <5>2
      <4>4. inst'[i] # "free" BY <4>2 DEF Alone
      <4> QED BY <4>2, <4>3, <4>4, <1>5 DEF Alone
    <3> QED BY <3>1, <3>2
  <2>4. ASSUME NEW d \in Conns, NEW j \in pipe'[d].own PROVE pipe'[d].be[j] \in Ids
    BY <2>1, <1>4 DEF Heap, Owned
  <2> QED BY <2>3, <2>4 DEF Owned
<1>8. Used' BY <1>5, <1>6 DEF Heap, Used
<1>9. Apart'
  <2>1. st = "pool" /\ k # "llm" => Speech(next) BY DEF Speech
  <2>2. ASSUME NEW d \in Conns, NEW j \in Kinds \ (pipe'[d].own \cup {"llm"}),
               pipe'[d].be[j] \in Ids
        PROVE  Speech(pipe'[d].be[j])
    <3>1. CASE d = c /\ j = k BY <1>4, <2>1, <2>2, <3>1
    <3>2. CASE d # c \/ j # k
      <4>1. j \notin pipe[d].own /\ pipe'[d].be[j] = pipe[d].be[j] BY <1>3, <3>2
      <4> QED BY <4>1 DEF Speech
    <3> QED BY <3>1, <3>2
  <2>4. \A i \in Ids : Speech(i)' => Speech(i) BY <2>2 DEF Speech
  <2>3. \A i \in Ids : Language(i)' => Language(i) BY DEF Language
  <2> QED BY <2>3, <2>4 DEF Heap, Apart
<1>10. Ready' BY <1>6 DEF Heap, Ready, Shape, Shared
<1>11. BorrowedIsUp'
  <2> SUFFICES ASSUME NEW d \in Conns, NEW j \in Kinds \ (pipe'[d].own \cup {"llm"}),
                      pipe'[d].be[j] # None
               PROVE  inst'[pipe'[d].be[j]] = "up"
    BY DEF BorrowedIsUp
  <2>1. CASE d = c /\ j = k
    <3>1. st = "pool" BY <2>1
    <3>2. PICK s \in DOMAIN pool : pool[s] = next BY <3>1
    <3>3. pool' = pool /\ pipe'[d].be[j] = next BY <1>4, <2>1
    <3> QED BY <3>2, <3>3, <1>10 DEF Ready
  <2>2. CASE d # c \/ j # k
    <3>1. j \notin pipe[d].own /\ pipe'[d].be[j] = pipe[d].be[j] BY <2>2, <1>3
    <3>2. pipe[d].be[j] \in Ids BY <3>1 DEF Shape, Pipes
    <3>3. Shared(pipe[d].be[j]) BY <3>1, <3>2 DEF Shared
    <3> QED BY <3>1, <3>2, <3>3, <1>6 DEF Heap, BorrowedIsUp
  <2> QED BY <2>1, <2>2
<1> QED BY <1>7, <1>8, <1>9, <1>10, <1>11 DEF Heap

-----------------------------------------------------------------------------
(* The engine gets a model.                                                *)

LEMMA Installed ==
    ASSUME Shape, Heap, Shape', NEW w \in Swappers, NEW new \in Ids, NEW prev \in Ids,
           Settle(w, new, prev), Language(new), Language(prev), pipe' = pipe,
           \A s \in DOMAIN pool' :
               (s \in DOMAIN pool /\ pool'[s] = pool[s]) \/ (s[1] = "llm" /\ pool'[s] = new)
    PROVE  Heap'
<1>1. \A i \in Ids :
        \/ inst'[i] = inst[i]
        \/ i = new /\ inst'[i] = "up"
        \/ i = prev /\ inst'[i] = "down" /\ \A s \in DOMAIN pool' : pool'[s] # i
  <2>1. CASE prev # new /\ prev \notin Range(pool')
    <3>1. inst' = [inst EXCEPT ![prev] = "down", ![new] = "up"] BY <2>1 DEF Settle
    <3>2. \A s \in DOMAIN pool' : pool'[s] # prev BY <2>1 DEF Range
    <3> QED BY <3>1, <3>2 DEF Shape
  <2>2. CASE ~(prev # new /\ prev \notin Range(pool'))
    BY <2>2 DEF Settle, Shape
  <2> QED BY <2>1, <2>2
<1>2. /\ conv' \in {conv, new}
      /\ \A v \in Swappers : task'[v].new \in {task[v].new, new} /\ task'[v].prev = task[v].prev
  <2>1. task[w] \in Tasks BY DEF Shape
  <2> QED BY <2>1 DEF Settle, Goto, Shape, Tasks
<1>3. \A i \in Ids : Speech(i) \/ Language(i) => Shared(i) BY DEF Speech, Language, Shared
<1>4. \A i \in Ids : Shared(i)' => Shared(i)
  <2>1. Shared(new) BY <1>3
  <2> QED BY <1>2, <2>1 DEF Shared
<1>5. \A i \in Ids : Speech(i)' => Speech(i) BY DEF Speech
<1>6. \A i \in Ids : Language(i)' => Language(i) BY <1>2 DEF Language
<1>7. \A i \in Ids : ~Language(i) => inst'[i] = inst[i] BY <1>1
<1>8. \A i \in Ids : inst[i] # "free" => inst'[i] # "free" BY <1>1
<1>9. Owned'
  <2>1. ASSUME NEW c \in Conns, NEW k \in pipe'[c].own, NEW i \in Ids, pipe'[c].be[k] = i
        PROVE  Alone(i, c, k)'
    <3>1. Alone(i, c, k) BY <2>1 DEF Heap, Owned
    <3> QED BY <3>1, <1>4, <1>8 DEF Alone
  <2> QED BY <2>1 DEF Heap, Owned
<1>10. Used' BY <1>4, <1>8 DEF Heap, Used
<1>11. Apart' BY <1>5, <1>6 DEF Heap, Apart
<1>12. Ready'
  <2> SUFFICES ASSUME NEW s \in DOMAIN pool' PROVE inst'[pool'[s]] = "up"
    BY DEF Ready
  <2>1. pool'[s] \in Ids BY DEF Shape
  <2>2. inst[pool'[s]] = "up" \/ pool'[s] = new BY DEF Heap, Ready
  <2>3. inst'[new] = "up"
    <3>1. CASE prev # new /\ prev \notin Range(pool')
      BY <3>1 DEF Settle, Shape
    <3>2. CASE ~(prev # new /\ prev \notin Range(pool'))
      BY <3>2 DEF Settle, Shape
    <3> QED BY <3>1, <3>2
  <2> QED BY <1>1, <2>1, <2>2, <2>3
<1>13. BorrowedIsUp'
  <2> SUFFICES ASSUME NEW d \in Conns, NEW k \in Kinds \ (pipe[d].own \cup {"llm"}),
                      pipe[d].be[k] # None
               PROVE  inst'[pipe[d].be[k]] = "up"
    BY DEF BorrowedIsUp
  <2>1. pipe[d].be[k] \in Ids BY DEF Shape, Pipes
  <2>2. Speech(pipe[d].be[k]) BY <2>1 DEF Speech
  <2>3. ~Language(pipe[d].be[k]) BY <2>1, <2>2 DEF Heap, Apart
  <2> QED BY <2>1, <2>3, <1>7 DEF Heap, BorrowedIsUp
<1> QED BY <1>9, <1>10, <1>11, <1>12, <1>13 DEF Heap

LEMMA Constructed ==
    ASSUME Shape, Heap, Shape', NEW w \in Swappers, NEW n \in Free,
           inst' = [inst EXCEPT ![n] = "new"], pool' = pool, pipe' = pipe, conv' = conv,
           \A v \in Swappers : task'[v].new \in {task[v].new, n}
                               /\ task'[v].prev \in {task[v].prev, conv}
    PROVE  Heap'
<1>1. \A i \in Ids : i # n => inst'[i] = inst[i]
  BY DEF Shape, Free
<1>2. n \in Ids /\ ~Shared(n) /\ inst[n] = "free" /\ inst'[n] = "new"
  BY DEF Heap, Used, Free, Shape
<1>3. \A i \in Ids : Shared(i)' => Shared(i) \/ i = n BY DEF Shared
<1>4. \A i \in Ids : Speech(i)' => Speech(i) BY DEF Speech
<1>5. \A i \in Ids : Language(i)' => Language(i) \/ i = n BY DEF Language
<1>6. ~Speech(n) BY <1>2 DEF Speech, Shared
<1>7. Owned'
  <2>1. ASSUME NEW c \in Conns, NEW k \in pipe'[c].own, NEW i \in Ids, pipe'[c].be[k] = i
        PROVE  Alone(i, c, k)'
    <3>1. Alone(i, c, k) BY <2>1 DEF Heap, Owned
    <3>2. i # n BY <3>1, <1>2 DEF Alone
    <3> QED BY <3>1, <3>2, <1>1, <1>3 DEF Alone
  <2> QED BY <2>1 DEF Heap, Owned
<1>8. Used' BY <1>1, <1>2, <1>3 DEF Heap, Used
<1>9. Apart' BY <1>4, <1>5, <1>6 DEF Heap, Apart
<1>10. Ready'
  <2>1. \A s \in DOMAIN pool : pool[s] \in Ids /\ Shared(pool[s]) BY DEF Shape, Shared
  <2> QED BY <2>1, <1>1, <1>2 DEF Heap, Ready
<1>11. BorrowedIsUp'
  <2> SUFFICES ASSUME NEW d \in Conns, NEW k \in Kinds \ (pipe[d].own \cup {"llm"}),
                      pipe[d].be[k] # None
               PROVE  inst'[pipe[d].be[k]] = "up"
    BY DEF BorrowedIsUp
  <2>1. pipe[d].be[k] \in Ids BY DEF Shape, Pipes
  <2>2. Shared(pipe[d].be[k]) BY <2>1 DEF Shared
  <2> QED BY <2>1, <2>2, <1>1, <1>2 DEF Heap, BorrowedIsUp
<1> QED BY <1>7, <1>8, <1>9, <1>10, <1>11 DEF Heap

-----------------------------------------------------------------------------
(* Every action keeps the invariant.                                       *)

\* What an action leaves as it was, or lets go.
Kept == /\ \A d \in Conns : Same(d) \/ Emptied(d)
        /\ pool' = pool
        /\ conv' = conv \/ \E w \in Swappers : conv' = task[w].new
        /\ \A w \in Swappers :
               {task'[w].new, task'[w].prev} \subseteq {task[w].new, task[w].prev, None}
        /\ \A i \in Ids : inst'[i] # inst[i] =>
               inst'[i] # "free" /\ \E d \in Conns : \E k \in pipe[d].own : pipe[d].be[k] = i

LEMMA KeptHeap == ASSUME Shape, Heap, Shape', Kept PROVE Heap'
BY Released DEF Kept

LEMMA TurnSteps ==
    ASSUME IInv, NEW c \in Conns,
           TextStart(c) \/ TextEnd(c) \/ VoiceStart(c) \/ VoiceEnd(c)
    PROVE  IInv'
<1>1. /\ inst' = inst /\ pool' = pool /\ pipe' = pipe /\ conv' = conv /\ task' = task
      /\ puts' = puts
  BY DEF TextStart, TextEnd, VoiceStart, VoiceEnd
<1>2. /\ \A d \in Conns : lock[d] \in Swappers => lock'[d] = lock[d]
      /\ lock' \in [Conns -> Swappers \cup {"text", None}]
  BY NamesAssumption
  DEF TextStart, TextEnd, VoiceStart, VoiceEnd, Unlock, Swappers, IInv, Shape
<1>3. Shape' BY <1>1, <1>2 DEF IInv, Shape
<1>4. Control'
  BY <1>1, <1>2 DEF IInv, Control, Locked, Swapping, Choosing, Swaps, Swappers
<1>5. Kept BY <1>1 DEF Kept, Same
<1> QED BY <1>3, <1>4, <1>5, KeptHeap DEF IInv, Control

\* A new task of c: the old one, if it swapped, leaves the pipeline up.
LEMMA ReadStep == ASSUME IInv, NEW c \in Conns, NEW r \in Requests, Read(c, r) PROVE IInv'
<1> USE DEF IInv, Control
<1>0. c \in Swappers /\ c # Put /\ pipe[c] \in Pipes /\ Put \in Swappers
  BY NamesAssumption DEF Swappers, Shape
<1>1. PICK to \in Pipes :
        /\ pipe' = [pipe EXCEPT ![c] = to] /\ to.be = pipe[c].be /\ to.own = pipe[c].own
        /\ IF task[c].pc \in {"idle", "lock"} THEN to = pipe[c]
           ELSE /\ to.pc = IF task[c].pc \in {"cut", "kinds"} /\ pipe[c].pc = "swap"
                           THEN "up" ELSE pipe[c].pc
                /\ to.fresh = IF pipe[c].pc = "init" THEN pipe[c].fresh ELSE {}
                /\ to.todo = {}
  <2>1. CASE task[c].pc \in {"idle", "lock"} BY <2>1, <1>0 DEF Read, Shape
  <2>2. CASE task[c].pc \notin {"idle", "lock"}
    <3> DEFINE to == [pipe[c] EXCEPT
                 !.pc = IF task[c].pc \in {"cut", "kinds"} /\ @ = "swap" THEN "up" ELSE @,
                 !.fresh = IF pipe[c].pc = "init" THEN @ ELSE {}, !.todo = {}]
    <3>1. pipe' = [pipe EXCEPT ![c] = to] BY <2>2 DEF Read, Interrupted
    <3>2. to \in Pipes BY <1>0 DEF Pipes
    <3>3. /\ to.be = pipe[c].be /\ to.own = pipe[c].own /\ to.todo = {}
          /\ to.pc = IF task[c].pc \in {"cut", "kinds"} /\ pipe[c].pc = "swap"
                     THEN "up" ELSE pipe[c].pc
          /\ to.fresh = IF pipe[c].pc = "init" THEN pipe[c].fresh ELSE {}
      BY <1>0 DEF Pipes
    <3> HIDE DEF to
    <3> QED BY <2>2, <3>1, <3>2, <3>3
  <2> QED BY <2>1, <2>2
<1>2. PICK t \in Tasks :
        /\ task' = [task EXCEPT ![c] = t] /\ t.pc = "lock" /\ t.at = c
        /\ t.new = None /\ t.prev = None
  <2> DEFINE t == [Rest EXCEPT !.pc = "lock", !.req = r, !.at = c]
  <2>1. task' = [task EXCEPT ![c] = t] BY DEF Read
  <2>2. t \in Tasks BY DEF Rest, Tasks
  <2>3. t.pc = "lock" /\ t.at = c /\ t.new = None /\ t.prev = None BY DEF Rest
  <2> HIDE DEF t
  <2> QED BY <2>1, <2>2, <2>3
<1>3. /\ pipe'[c] = to /\ \A d \in Conns \ {c} : pipe'[d] = pipe[d]
      /\ task'[c] = t /\ \A w \in Swappers \ {c} : task'[w] = task[w]
  BY <1>0, <1>1, <1>2 DEF Shape
<1>4. /\ inst' = inst /\ pool' = pool /\ conv' = conv /\ puts' = puts
      /\ \A d \in Conns \ {c} : lock'[d] = lock[d]
      /\ task[c].pc \in {"idle", "lock"} => lock' = lock
      /\ pipe[c].pc \notin {"none", "init", "gone"}
      /\ lock' \in [Conns -> Swappers \cup {"text", None}]
  BY DEF Read, Unlock, Shape
<1>5. Shape' BY <1>1, <1>2, <1>4 DEF Shape
<1>6. Locked'
  BY <1>0, <1>1, <1>2, <1>3, <1>4 DEF Locked, Swaps, Swappers
<1>7. Swapping'
  BY <1>0, <1>1, <1>2, <1>3, <1>4 DEF Locked, Swapping, Swaps, Swappers
<1>8. Choosing' BY <1>2, <1>3 DEF Choosing
<1>9. Kept
  BY <1>1, <1>2, <1>3, <1>4 DEF Kept, Same
<1> QED BY <1>5, <1>6, <1>7, <1>8, <1>9, KeptHeap

\* One task moves that does not swap, and no pipeline changes.
LEMMA TaskMoves ==
    ASSUME Shape, Control, pipe' = pipe, NEW w \in Swappers, NEW t \in Tasks,
           task' = [task EXCEPT ![w] = t],
           {task[w].pc, t.pc} \cap {"cut", "kinds"} = {},
           lock' = lock \/ (/\ w \in Conns /\ lock[w] # Put
                            /\ \A d \in Conns \ {w} : lock'[d] = lock[d]),
           w \in Conns => /\ t.pc # "idle" => t.at = w
                          /\ t.pc \notin {"idle", "lock"} => lock'[w] = w,
           w = Put => /\ t.pc = "lock" => t.at \in Conns
                      /\ \A c \in Conns : t.at = c => pipe[c].pc \in {"up", "swap"},
           t.pc \in {"convInit", "convSet"} => t.new \in Ids,
           t.pc = "convInit" => t.prev \in Ids
    PROVE  Control'
<1>1. task'[w] = t /\ \A v \in Swappers \ {w} : task'[v] = task[v] BY DEF Shape
<1>2. \A v \in Swappers, c \in Conns : Swaps(v, c)' <=> Swaps(v, c)
  BY <1>1 DEF Swaps
<1>3. Put \in Swappers /\ Conns \subseteq Swappers /\ \A c \in Conns : c # Put
  BY NamesAssumption DEF Swappers
<1>4. Locked'
  <2>1. \A c \in Conns : task'[c].pc # "idle" => task'[c].at = c
    BY <1>1, <1>3 DEF Control, Locked
  <2>2. \A c \in Conns : task'[c].pc \notin {"idle", "lock"} => lock'[c] = c
    BY <1>1, <1>3 DEF Control, Locked
  <2>3. task'[Put].pc \in {"lock", "cut", "kinds"} => task'[Put].at \in Conns
    <3>1. CASE w = Put
      <4>1. task'[Put] = t
        BY <1>1, <3>1
      <4>2. t.pc \notin {"cut", "kinds"} /\ (t.pc = "lock" => t.at \in Conns)
        BY <3>1
      <4> QED BY <4>1, <4>2
    <3>2. CASE w # Put
      <4>1. task'[Put] = task[Put]
        BY <1>1, <1>3, <3>2
      <4> QED BY <4>1 DEF Control, Locked
    <3> QED BY <3>1, <3>2
  <2>4. \A c \in Conns : Swaps(Put, c)' => lock'[c] = Put
    BY <1>2, <1>3 DEF Control, Locked
  <2>5. \A c \in Conns : task'[Put].at = c => pipe'[c].pc \in {"up", "swap"}
    BY <1>1, <1>3 DEF Control, Locked
  <2> QED BY <2>1, <2>2, <2>3, <2>4, <2>5 DEF Locked
<1>5. Swapping'
  <2>1. \A c \in Conns, v \in Swappers :
            Swaps(v, c) /\ task[v].pc = "kinds" => Swaps(v, c)' /\ task'[v].pc = "kinds"
    BY <1>1, <1>2 DEF Swaps
  <2> QED BY <1>2, <1>3, <2>1 DEF Control, Swapping
<1>6. Choosing' BY <1>1 DEF Control, Choosing
<1> QED BY <1>4, <1>5, <1>6 DEF Control

LEMMA ConfigSteps ==
    ASSUME IInv, NEW c \in Conns, Enter(c) \/ Reject(c) \/ Accept(c) \/ Ack(c)
    PROVE  IInv'
<1> USE DEF IInv
<1>0. /\ c \in Swappers /\ Put \in Swappers /\ c # Put /\ task[c] \in Tasks
      /\ None \notin Swappers
  BY NamesAssumption DEF Swappers, Shape
<1>1. /\ inst' = inst /\ pool' = pool /\ conv' = conv /\ pipe' = pipe /\ puts' = puts
      /\ lock' \in [Conns -> Swappers \cup {"text", None}]
      /\ \A d \in Conns \ {c} : lock'[d] = lock[d]
      /\ lock[c] # Put
      /\ task[c].pc \in {"lock", "check", "ack"}
  BY <1>0 DEF Enter, Reject, Accept, Ack, Finish, Unlock, Shape, Control, Locked
<1>2. PICK t \in Tasks :
        /\ task' = [task EXCEPT ![c] = t] /\ t.pc \in {"idle", "check", "store"}
        /\ t.pc # "idle" => t.at = c /\ lock'[c] = c
        /\ {t.new, t.prev} \subseteq {task[c].new, task[c].prev, None}
  <2>1. CASE Reject(c) \/ Ack(c)
    <3>1. task' = [task EXCEPT ![c] = Rest] BY <2>1 DEF Reject, Ack, Finish
    <3>2. Rest \in Tasks /\ Rest.pc = "idle" /\ Rest.new = None /\ Rest.prev = None
      BY DEF Rest, Tasks
    <3> QED BY <3>1, <3>2
  <2>2. CASE Enter(c) \/ Accept(c)
    <3>1. PICK pc \in {"check", "store"} :
            task' = [task EXCEPT ![c].pc = pc] /\ lock'[c] = c
      BY <2>2 DEF Enter, Accept, Goto, Shape, Control, Locked
    <3>2. task' = [task EXCEPT ![c] = [task[c] EXCEPT !.pc = pc]] BY <3>1
    <3>3. [task[c] EXCEPT !.pc = pc] \in Tasks BY <1>0 DEF Tasks
    <3>4. task[c].at = c BY <1>1 DEF Control, Locked
    <3> QED BY <1>0, <3>1, <3>2, <3>3, <3>4 DEF Tasks
  <2> QED BY <2>1, <2>2
<1>3. Control' BY <1>0, <1>1, <1>2, TaskMoves
<1>4. Shape' BY <1>0, <1>1, <1>2 DEF Shape
<1>5. Kept BY <1>0, <1>1, <1>2 DEF Kept, Same, Shape
<1> QED BY <1>3, <1>4, <1>5, KeptHeap

\* Store starts the swap of a pipeline that is up.
LEMMA StoreStep == ASSUME IInv, NEW c \in Conns, Store(c) PROVE IInv'
<1> USE DEF IInv
<1>0. /\ c \in Swappers /\ Put \in Swappers /\ c # Put /\ task[c] \in Tasks /\ pipe[c] \in Pipes
      /\ \A d \in Conns : d \in Swappers /\ d # Put
  BY NamesAssumption DEF Swappers, Shape
<1>1. /\ inst' = inst /\ pool' = pool /\ conv' = conv /\ puts' = puts /\ lock' = lock
      /\ task[c].pc = "store" /\ lock[c] = c /\ task[c].at = c
  BY <1>0 DEF Store, Control, Locked
<1>2. PICK t \in Tasks, to \in Pipes :
        /\ task' = [task EXCEPT ![c] = t] /\ pipe' = [pipe EXCEPT ![c] = to]
        /\ t.at = c /\ t.new = task[c].new /\ t.prev = task[c].prev
        /\ to.be = pipe[c].be /\ to.own = pipe[c].own
        /\ to.fresh = pipe[c].fresh /\ to.todo = pipe[c].todo
        /\ \/ pipe[c].pc = "up" /\ to.pc = "swap" /\ t.pc = "cut"
           \/ pipe[c].pc # "up" /\ to.pc = pipe[c].pc /\ t.pc = "conv"
  <2>1. CASE pipe[c].pc = "up"
    <3>1. /\ task' = [task EXCEPT ![c] = [task[c] EXCEPT !.pc = "cut"]]
          /\ pipe' = [pipe EXCEPT ![c] = [pipe[c] EXCEPT !.pc = "swap"]]
      BY <2>1 DEF Store, Goto
    <3>2. [task[c] EXCEPT !.pc = "cut"] \in Tasks /\ [pipe[c] EXCEPT !.pc = "swap"] \in Pipes
      BY <1>0 DEF Tasks, Pipes
    <3> QED BY <2>1, <3>1, <3>2, <1>0, <1>1 DEF Tasks, Pipes
  <2>2. CASE pipe[c].pc # "up"
    <3>1. /\ task' = [task EXCEPT ![c] = [task[c] EXCEPT !.pc = "conv"]]
          /\ pipe' = [pipe EXCEPT ![c] = pipe[c]]
      BY <2>2 DEF Store, Goto, Shape
    <3>2. [task[c] EXCEPT !.pc = "conv"] \in Tasks BY <1>0 DEF Tasks
    <3> QED BY <2>2, <3>1, <3>2, <1>0, <1>1 DEF Tasks, Pipes
  <2> QED BY <2>1, <2>2
<1>3. /\ task'[c] = t /\ \A v \in Swappers \ {c} : task'[v] = task[v]
      /\ pipe'[c] = to /\ \A d \in Conns \ {c} : pipe'[d] = pipe[d]
  BY <1>2, <1>0 DEF Shape
<1>4. Locked' BY <1>0, <1>1, <1>2, <1>3 DEF Control, Locked, Swaps
<1>5. Swapping' BY <1>0, <1>1, <1>2, <1>3 DEF Control, Swapping, Swaps, Locked
<1>6. Choosing' BY <1>2, <1>3 DEF Control, Choosing
<1>7. Shape' BY <1>1, <1>2, <1>0 DEF Shape
<1>8. Kept BY <1>1, <1>2, <1>3 DEF Kept, Same
<1> QED BY <1>4, <1>5, <1>6, <1>7, <1>8, KeptHeap DEF Control

-----------------------------------------------------------------------------
(* Swaps.                                                                  *)

\* Only one exchanges the backends of a pipeline.
LEMMA OneSwaps ==
    ASSUME Shape, Control, NEW w \in Swappers, task[w].pc \in {"cut", "kinds"}
    PROVE  /\ task[w].at \in Conns /\ w \in {task[w].at, Put}
           /\ pipe[task[w].at].pc = "swap" /\ lock[task[w].at] = w
           /\ \A v \in Swappers : Swaps(v, task[w].at) => v = w
<1>0. Put \notin Conns BY NamesAssumption
<1>1. w \in Conns => task[w].at = w /\ lock[w] = w BY DEF Control, Locked
<1>2. w = Put => task[w].at \in Conns /\ lock[task[w].at] = Put
  BY DEF Control, Locked, Swaps
<1>3. task[w].at \in Conns /\ w \in {task[w].at, Put} /\ lock[task[w].at] = w
  BY <1>1, <1>2 DEF Swappers
<1>4. pipe[task[w].at].pc = "swap" BY <1>3 DEF Control, Swapping, Swaps
<1>5. ASSUME NEW v \in Swappers, Swaps(v, task[w].at) PROVE v = w
  <2>1. v \in Conns => lock[task[w].at] = v BY <1>5, <1>3 DEF Control, Locked, Swaps
  <2>2. v = Put => lock[task[w].at] = v BY <1>5, <1>3 DEF Control, Locked
  <2> QED BY <2>1, <2>2, <1>3 DEF Swappers
<1> QED BY <1>3, <1>4, <1>5

LEMMA CutStep == ASSUME IInv, NEW w \in Swappers, Cut(w) PROVE IInv'
<1> USE DEF IInv
<1> DEFINE c == task[w].at
<1>0. c \in Conns /\ pipe[c] \in Pipes /\ task[w] \in Tasks /\ w \in {c, Put}
      /\ pipe[c].pc = "swap" /\ lock[c] = w /\ \A v \in Swappers : Swaps(v, c) => v = w
  BY OneSwaps DEF Cut, Shape
<1>1. /\ inst' = inst /\ pool' = pool /\ conv' = conv /\ puts' = puts /\ lock' = lock
      /\ task[w].pc = "cut"
  BY DEF Cut
<1>2. PICK t \in Tasks :
        /\ task' = [task EXCEPT ![w] = t] /\ t.pc = "kinds" /\ t.at = c
        /\ t.new = task[w].new /\ t.prev = task[w].prev
  <2>1. task' = [task EXCEPT ![w] = [task[w] EXCEPT !.pc = "kinds"]] BY DEF Cut, Goto
  <2>2. [task[w] EXCEPT !.pc = "kinds"] \in Tasks BY <1>0 DEF Tasks
  <2> QED BY <2>1, <2>2, <1>0 DEF Tasks
<1>3. PICK to \in Pipes :
        /\ pipe' = [pipe EXCEPT ![c] = to] /\ to.pc = "swap"
        /\ to.be = pipe[c].be /\ to.own = pipe[c].own /\ to.fresh = pipe[c].fresh
  <2> DEFINE to == [pipe[c] EXCEPT !.old = pipe[c].obj, !.obj = Object(w), !.todo = Kinds]
  <2>1. pipe' = [pipe EXCEPT ![c] = to] BY DEF Cut
  <2>2. Object(w) \in Objects BY DEF Object, Objects, Shape, Swappers
  <2>3. to \in Pipes BY <1>0, <2>2 DEF Pipes
  <2>4. /\ to.pc = pipe[c].pc /\ to.be = pipe[c].be /\ to.own = pipe[c].own
        /\ to.fresh = pipe[c].fresh
    BY <1>0 DEF Pipes
  <2> HIDE DEF to
  <2> QED BY <1>0, <2>1, <2>3, <2>4
<1>4. /\ task'[w] = t /\ \A v \in Swappers \ {w} : task'[v] = task[v]
      /\ pipe'[c] = to /\ \A d \in Conns \ {c} : pipe'[d] = pipe[d]
  BY <1>0, <1>2, <1>3 DEF Shape
<1>5. pipe[c].fresh = {}
  <2>1. \A v \in {c, Put} : ~(Swaps(v, c) /\ task[v].pc = "kinds")
    BY <1>0, <1>1 DEF Swappers
  <2> QED BY <2>1, <1>0 DEF Control, Swapping
<1>6. \A v \in Swappers, d \in Conns : Swaps(v, d)' <=> Swaps(v, d)
  BY <1>0, <1>1, <1>2, <1>4 DEF Swaps
<1>7. Locked'
  <2>1. \A d \in Conns : pipe'[d].pc = pipe[d].pc BY <1>0, <1>3, <1>4
  <2>2. \A v \in Swappers : /\ task'[v].at = task[v].at
                             /\ v # w => task'[v].pc = task[v].pc
    BY <1>2, <1>4
  <2>3. \A d \in Conns : d \in Swappers /\ Put \in Swappers BY DEF Swappers
  <2> QED BY <1>0, <1>1, <1>2, <1>4, <1>6, <2>1, <2>2, <2>3 DEF Control, Locked
<1>8. Swapping'
  <2>1. \A d \in Conns : pipe'[d].fresh = pipe[d].fresh /\ pipe'[d].pc = pipe[d].pc
                         /\ pipe'[d].own = pipe[d].own
    BY <1>0, <1>3, <1>4
  <2>2. \A d \in Conns, v \in Swappers :
            Swaps(v, d) /\ task[v].pc = "kinds" => Swaps(v, d)' /\ task'[v].pc = "kinds"
    BY <1>1, <1>4, <1>6
  <2>3. \A d \in Conns : pipe'[d].fresh \cap pipe'[d].todo = {}
    BY <1>3, <1>4, <1>5 DEF Control, Swapping
  <2>4. \A d \in Conns : d \in Swappers /\ Put \in Swappers BY DEF Swappers
  <2> QED BY <2>1, <2>2, <2>3, <2>4, <1>6 DEF Control, Swapping
<1>9. Choosing' BY <1>2, <1>4 DEF Control, Choosing
<1>10. Shape' BY <1>0, <1>1, <1>2, <1>3 DEF Shape
<1>11. Kept BY <1>0, <1>1, <1>2, <1>3, <1>4 DEF Kept, Same
<1> QED BY <1>7, <1>8, <1>9, <1>10, <1>11, KeptHeap DEF Control

LEMMA FirstOne == ASSUME NEW ks \in SUBSET Kinds, ks # {} PROVE First(ks) \in ks
<1>1. ks \subseteq {"stt", "tts", "llm"} BY ConstantsAssumption
<1>2. \E k \in ks : \A j \in ks : Rank(k) <= Rank(j)
  <2>1. CASE "stt" \in ks BY <2>1, <1>1 DEF Rank
  <2>2. CASE "stt" \notin ks /\ "tts" \in ks BY <2>2, <1>1 DEF Rank
  <2>3. CASE "stt" \notin ks /\ "tts" \notin ks
    <3>1. \A j \in ks : j = "llm" BY <2>3, <1>1
    <3> QED BY <3>1 DEF Rank
  <2> QED BY <2>1, <2>2, <2>3
<1> QED BY <1>2 DEF First

LEMMA SwapOneStep == ASSUME IInv, NEW w \in Swappers, SwapOne(w) PROVE IInv'
<1> USE DEF IInv
<1> DEFINE c == task[w].at
           k == First(pipe[c].todo)
           sig == Sig(k, cfg[pipe[c].obj])
           mine == k \in pipe[c].own /\ pipe[c].be[k] # None
           lost == IF mine THEN pipe[c].be[k] ELSE None
           end == IF mine THEN {pipe[c].be[k]} ELSE {}
           next == [pipe EXCEPT ![c].todo = @ \ {k}]
<1>0. /\ c \in Conns /\ pipe[c] \in Pipes /\ w \in {c, Put} /\ task[w].pc = "kinds"
      /\ pipe[c].pc = "swap" /\ \A v \in Swappers : Swaps(v, c) => v = w
      /\ pipe[c].todo # {} /\ pipe[c].todo \in SUBSET Kinds
  BY OneSwaps DEF SwapOne, Shape, Pipes
<1>1. /\ pool' = pool /\ conv' = conv /\ puts' = puts /\ lock' = lock /\ task' = task
  BY DEF SwapOne
<1>2. k \in pipe[c].todo /\ k \in Kinds /\ k \notin pipe[c].fresh
  BY <1>0, FirstOne DEF Control, Swapping
<1>3. sig[1] = k BY SigKind
<1>4. /\ \/ pipe' = next /\ inst' = inst
         \/ /\ sig \in DOMAIN pool /\ inst' = Set(end, "down")
            /\ pipe' = [next EXCEPT ![c].be[k] = pool[sig], ![c].own = @ \ {k}]
         \/ /\ Free # {} /\ inst' = [Set(end, "down") EXCEPT ![NthFree(1)] = "new"]
            /\ pipe' = [next EXCEPT ![c].be[k] = NthFree(1), ![c].own = @ \cup {k},
                                    ![c].fresh = @ \cup {k}]
  BY DEF SwapOne
<1> HIDE DEF k, sig
<1>5. k \in pipe[c].own => mine
  <2>1. \A i \in Ids : i # None BY NamesAssumption
  <2> QED BY <1>0, <2>1 DEF Heap, Owned
<1>6. Set(end, "down") = [i \in Ids |-> IF i = lost /\ lost # None THEN "down" ELSE inst[i]]
  BY NamesAssumption DEF Set
<1>12. /\ \A i \in Ids : Set(end, "down")[i] = IF i = lost THEN "down" ELSE inst[i]
       /\ k \in pipe[c].own => lost = pipe[c].be[k]
       /\ k \notin pipe[c].own => lost = None
  <2>1. \A i \in Ids : Set(end, "down")[i] = IF i = lost /\ lost # None THEN "down" ELSE inst[i]
    BY <1>6
  <2>2. \A i \in Ids : i # None BY NamesAssumption
  <2>3. \A i \in Ids : Set(end, "down")[i] = IF i = lost THEN "down" ELSE inst[i]
    BY <2>1, <2>2
  <2>4. k \in pipe[c].own => lost = pipe[c].be[k] BY <1>5
  <2>5. k \notin pipe[c].own => lost = None OBVIOUS
  <2> QED BY <2>3, <2>4, <2>5
<1> HIDE DEF lost
<1>7. PICK to \in Pipes :
        /\ pipe' = [pipe EXCEPT ![c] = to] /\ to.pc = "swap" /\ to.todo = pipe[c].todo \ {k}
        /\ \/ /\ inst' = inst /\ to.be = pipe[c].be /\ to.own = pipe[c].own
              /\ to.fresh = pipe[c].fresh
           \/ /\ sig \in DOMAIN pool /\ inst' = Set(end, "down")
              /\ to.be = [pipe[c].be EXCEPT ![k] = pool[sig]] /\ to.own = pipe[c].own \ {k}
              /\ to.fresh = pipe[c].fresh
           \/ /\ Free # {} /\ inst' = [Set(end, "down") EXCEPT ![NthFree(1)] = "new"]
              /\ to.be = [pipe[c].be EXCEPT ![k] = NthFree(1)]
              /\ to.own = pipe[c].own \cup {k} /\ to.fresh = pipe[c].fresh \cup {k}
  <2>1. CASE pipe' = next /\ inst' = inst
    <3>1. [pipe[c] EXCEPT !.todo = @ \ {k}] \in Pipes BY <1>0 DEF Pipes
    <3> QED BY <1>0, <2>1, <3>1 DEF Pipes
  <2>2. CASE /\ sig \in DOMAIN pool /\ inst' = Set(end, "down")
             /\ pipe' = [next EXCEPT ![c].be[k] = pool[sig], ![c].own = @ \ {k}]
    <3> DEFINE to == [pipe[c] EXCEPT !.todo = @ \ {k}, !.be[k] = pool[sig], !.own = @ \ {k}]
    <3>1. pipe' = [pipe EXCEPT ![c] = to] BY <2>2, <1>0 DEF Shape
    <3>2. to \in Pipes BY <1>0, <2>2 DEF Pipes, Shape
    <3>3. /\ to.pc = pipe[c].pc /\ to.todo = pipe[c].todo \ {k}
          /\ to.be = [pipe[c].be EXCEPT ![k] = pool[sig]]
          /\ to.own = pipe[c].own \ {k} /\ to.fresh = pipe[c].fresh
      BY <1>0 DEF Pipes
    <3> HIDE DEF to
    <3> QED BY <1>0, <2>2, <3>1, <3>2, <3>3
  <2>3. CASE /\ Free # {} /\ inst' = [Set(end, "down") EXCEPT ![NthFree(1)] = "new"]
             /\ pipe' = [next EXCEPT ![c].be[k] = NthFree(1), ![c].own = @ \cup {k},
                                     ![c].fresh = @ \cup {k}]
    <3> DEFINE n == NthFree(1)
               to == [pipe[c] EXCEPT !.todo = @ \ {k}, !.be[k] = n, !.own = @ \cup {k},
                                     !.fresh = @ \cup {k}]
    <3>0. n \in Ids BY <2>3, FirstIsFree DEF Free
    <3> HIDE DEF n
    <3>1. pipe' = [pipe EXCEPT ![c] = to] BY <2>3, <1>0, ZenonT(60) DEF Shape, n
    <3>2. to \in Pipes BY <1>0, <1>2, <3>0 DEF Pipes
    <3>3. /\ to.pc = pipe[c].pc /\ to.todo = pipe[c].todo \ {k}
          /\ to.be = [pipe[c].be EXCEPT ![k] = n]
          /\ to.own = pipe[c].own \cup {k} /\ to.fresh = pipe[c].fresh \cup {k}
      BY <1>0 DEF Pipes
    <3> HIDE DEF to
    <3> QED BY <1>0, <2>3, <3>1, <3>2, <3>3 DEF n
  <2> QED BY <1>4, <2>1, <2>2, <2>3
<1>8. /\ pipe'[c] = to /\ \A d \in Conns \ {c} : pipe'[d] = pipe[d]
  BY <1>0, <1>7 DEF Shape
<1>9. Shape'
  <2>1. inst' \in [Ids -> {"free", "new", "up", "down"}]
    BY <1>7 DEF Shape, Set
  <2> QED BY <2>1, <1>1, <1>7, <1>0 DEF Shape
<1>10. Control'
  <2>1. \A v \in Swappers, d \in Conns : Swaps(v, d)' <=> Swaps(v, d) BY <1>1 DEF Swaps
  <2>2. Locked' BY <1>0, <1>1, <1>7, <1>8, <2>1 DEF Control, Locked, Swappers
  <2>3. Swapping'
    <3>1. \A d \in Conns : pipe'[d].pc = pipe[d].pc BY <1>0, <1>7, <1>8
    <3>2. Swaps(w, c) /\ w \in {c, Put} BY <1>0 DEF Swaps
    <3>3. to.fresh \subseteq to.own /\ to.fresh \cap to.todo = {}
      BY <1>0, <1>2, <1>7 DEF Control, Swapping
    <3>4. \A d \in Conns : d \in Swappers /\ Put \in Swappers BY DEF Swappers
    <3> QED BY <1>0, <1>1, <1>8, <2>1, <3>1, <3>2, <3>3, <3>4 DEF Control, Swapping
  <2>4. Choosing' BY <1>1 DEF Control, Choosing
  <2> QED BY <2>2, <2>3, <2>4 DEF Control
<1>11. Heap'
  <2>1. CASE inst' = inst /\ to.be = pipe[c].be /\ to.own = pipe[c].own
    <3>1. Kept BY <2>1, <1>1, <1>8 DEF Kept, Same
    <3> QED BY <1>9, <3>1, KeptHeap
  <2>2. CASE /\ sig \in DOMAIN pool /\ inst' = Set(end, "down")
             /\ to.be = [pipe[c].be EXCEPT ![k] = pool[sig]] /\ to.own = pipe[c].own \ {k}
    <3>1. pool[sig] \in Ids BY <2>2 DEF Shape
    <3>2. \A i \in Ids : inst'[i] = IF i = lost THEN "down" ELSE inst[i] BY <2>2, <1>12
    <3>3. Exchanges(c, k, pool[sig], lost, "pool")
      BY <1>1, <1>3, <1>8, <1>12, <2>2, <3>2 DEF Exchanges
    <3> QED BY <1>0, <1>2, <1>9, <3>1, <3>3, Exchanged
  <2>3. CASE /\ Free # {} /\ inst' = [Set(end, "down") EXCEPT ![NthFree(1)] = "new"]
             /\ to.be = [pipe[c].be EXCEPT ![k] = NthFree(1)]
             /\ to.own = pipe[c].own \cup {k}
    <3>1. NthFree(1) \in Free /\ NthFree(1) \in Ids BY <2>3, FirstIsFree DEF Free
    <3>2. \A i \in Ids : inst'[i] = IF i = NthFree(1) THEN "new"
                                   ELSE IF i = lost THEN "down" ELSE inst[i]
      <4>1. Set(end, "down") \in [Ids -> {"free", "new", "up", "down"}] BY DEF Set, Shape
      <4> HIDE DEF end
      <4> QED BY <2>3, <4>1, <3>1, <1>12
    <3>3. Exchanges(c, k, NthFree(1), lost, "new")
      BY <1>1, <1>8, <1>12, <2>3, <3>1, <3>2 DEF Exchanges
    <3> QED BY <1>0, <1>2, <1>9, <3>1, <3>3, Exchanged
  <2> QED BY <1>7, <2>1, <2>2, <2>3
<1> QED BY <1>9, <1>10, <1>11

\* The swap is over: the pipeline is up, and who swapped lets it go.
LEMMA SwapEnds ==
    ASSUME Shape, Control, NEW w \in Swappers, task[w].pc = "kinds",
           NEW failed \in BOOLEAN, AfterSwap(w, failed),
           NEW to \in Pipes, pipe' = [pipe EXCEPT ![task[w].at] = to],
           to.pc = "up", to.fresh = {}
    PROVE  /\ Control' /\ task' \in [Swappers -> Tasks]
           /\ lock' \in [Conns -> Swappers \cup {"text", None}]
           /\ \A v \in Swappers :
                {task'[v].new, task'[v].prev} \subseteq {task[v].new, task[v].prev, None}
<1> DEFINE c == task[w].at
<1>0. /\ c \in Conns /\ task[w] \in Tasks /\ w \in {c, Put} /\ c # Put /\ lock[c] = w
      /\ \A v \in Swappers : Swaps(v, c) => v = w
      /\ \A d \in Conns : d \in Swappers /\ d # Put
      /\ Put \in Swappers
  BY OneSwaps, NamesAssumption DEF Shape, Swappers
<1>1. PICK t \in Tasks :
        /\ task' = [task EXCEPT ![w] = t] /\ t.pc \in {"idle", "next", "conv"}
        /\ w = Put => t.at = None
        /\ w # Put => t.pc \in {"idle", "conv"}
        /\ w # Put /\ t.pc # "idle" => t.at = c
        /\ {t.new, t.prev} \subseteq {task[w].new, task[w].prev, None}
        /\ IF t.pc = "conv" THEN lock' = lock ELSE lock' = [lock EXCEPT ![c] = None]
  <2>1. CASE w = Put
    <3>1. /\ task' = [task EXCEPT ![w] = [task[w] EXCEPT !.pc = "next", !.at = None]]
          /\ lock' = [lock EXCEPT ![c] = None]
      BY <2>1, <1>0 DEF AfterSwap, Unlock, Shape
    <3>2. [task[w] EXCEPT !.pc = "next", !.at = None] \in Tasks BY <1>0 DEF Tasks
    <3> QED BY <2>1, <3>1, <3>2, <1>0 DEF Tasks
  <2>2. CASE w # Put /\ failed
    <3>1. /\ task' = [task EXCEPT ![w] = Rest] /\ lock' = [lock EXCEPT ![c] = None]
      BY <2>2, <1>0 DEF AfterSwap, Finish, Unlock
    <3>2. Rest \in Tasks /\ Rest.pc = "idle" /\ Rest.new = None /\ Rest.prev = None
      BY DEF Rest, Tasks
    <3> QED BY <2>2, <3>1, <3>2
  <2>3. CASE w # Put /\ ~failed
    <3>1. task' = [task EXCEPT ![w] = [task[w] EXCEPT !.pc = "conv"]] /\ lock' = lock
      BY <2>3 DEF AfterSwap, Goto
    <3>2. [task[w] EXCEPT !.pc = "conv"] \in Tasks BY <1>0 DEF Tasks
    <3> QED BY <2>3, <3>1, <3>2, <1>0 DEF Tasks
  <2> QED BY <2>1, <2>2, <2>3
<1>2. /\ task'[w] = t /\ \A v \in Swappers \ {w} : task'[v] = task[v]
      /\ pipe'[c] = to /\ \A d \in Conns \ {c} : pipe'[d] = pipe[d]
      /\ \A d \in Conns \ {c} : lock'[d] = lock[d]
      /\ t.pc = "conv" => lock'[c] = lock[c]
  BY <1>0, <1>1 DEF Shape
<1>3. Swaps(w, c) /\ None \notin Conns
  BY NamesAssumption DEF Swaps, Swappers
<1>4. \A v \in Swappers, d \in Conns : Swaps(v, d)' <=> Swaps(v, d) /\ v # w
  BY <1>0, <1>1, <1>2, <1>3 DEF Swaps
<1>5. \A v \in Swappers, d \in Conns : Swaps(v, d) /\ v # w => d # c
  BY <1>0
<1>6. Locked'
  <2>1. \A d \in Conns : task'[d].pc # "idle" => task'[d].at = d
    BY <1>0, <1>1, <1>2 DEF Control, Locked
  <2>2. \A d \in Conns : task'[d].pc \notin {"idle", "lock"} => lock'[d] = d
    BY <1>0, <1>1, <1>2 DEF Control, Locked
  <2>3. task'[Put].pc \in {"lock", "cut", "kinds"} => task'[Put].at \in Conns
    BY <1>0, <1>1, <1>2 DEF Control, Locked
  <2>4. \A d \in Conns : Swaps(Put, d)' => lock'[d] = Put
    BY <1>0, <1>2, <1>4, <1>5 DEF Control, Locked
  <2>5. \A d \in Conns : task'[Put].at = d => pipe'[d].pc \in {"up", "swap"}
    BY <1>0, <1>1, <1>2, <1>3 DEF Control, Locked
  <2> QED BY <2>1, <2>2, <2>3, <2>4, <2>5 DEF Locked
<1>7. Swapping'
  <2>1. \A d \in Conns : pipe'[d].pc = "swap" => d # c /\ pipe[d].pc = "swap" BY <1>2
  <2>2. \A d \in Conns \ {c} : ~Swaps(w, d) BY <1>3 DEF Swaps
  <2>3. \A v \in Swappers, d \in Conns :
          Swaps(v, d) /\ task[v].pc = "kinds" /\ d # c => Swaps(v, d)' /\ task'[v].pc = "kinds"
    BY <1>2, <1>4, <2>2
  <2> QED BY <1>0, <1>2, <1>4, <1>5, <2>1, <2>2, <2>3 DEF Control, Swapping
<1>8. Choosing' BY <1>1, <1>2 DEF Control, Choosing
<1>9. task' \in [Swappers -> Tasks] /\ lock' \in [Conns -> Swappers \cup {"text", None}]
  BY <1>0, <1>1 DEF Shape
<1>10. \A v \in Swappers :
         {task'[v].new, task'[v].prev} \subseteq {task[v].new, task[v].prev, None}
  BY <1>1, <1>2
<1> QED BY <1>6, <1>7, <1>8, <1>9, <1>10 DEF Control

\* A pipeline that nobody swaps moves.
LEMMA PipeMoves ==
    ASSUME Shape, Control, NEW c \in Conns, NEW to \in Pipes,
           pipe' = [pipe EXCEPT ![c] = to], task' = task, lock' = lock,
           pipe[c].pc # "swap", to.pc # "swap",
           task[Put].at = c => to.pc = "up",
           to.fresh # {} => to.pc = "init",
           to.fresh \subseteq to.own, to.todo = {} \/ to.fresh = {}
    PROVE  Control'
<1>1. pipe'[c] = to /\ \A d \in Conns \ {c} : pipe'[d] = pipe[d] BY DEF Shape
<1>2. \A v \in Swappers, d \in Conns : Swaps(v, d)' <=> Swaps(v, d) BY DEF Swaps
<1>3. \A v \in Swappers : ~Swaps(v, c) BY DEF Control, Swapping
<1>4. Locked' BY <1>1 DEF Control, Locked, Swaps
<1>5. Swapping'
  <2>1. \A d \in Conns : d \in Swappers /\ Put \in Swappers BY DEF Swappers
  <2> QED BY <1>1, <1>2, <1>3, <2>1 DEF Control, Swapping
<1>6. Choosing' BY DEF Control, Choosing
<1> QED BY <1>4, <1>5, <1>6 DEF Control

LEMMA OwnedAreIds ==
    ASSUME Shape, Heap, NEW c \in Conns
    PROVE  /\ pipe[c].fresh \subseteq Kinds /\ pipe[c].own \subseteq Kinds
           /\ pipe[c] \in Pipes
           /\ \A k \in pipe[c].own : pipe[c].be[k] \in Ids
BY DEF Shape, Pipes, Heap, Owned

LEMMA AdoptedShape ==
    ASSUME Shape, Heap, NEW c \in Conns, NEW config, Adopts(c, config),
           pipe[c].fresh \subseteq pipe[c].own
    PROVE  /\ inst' \in [Ids -> {"free", "new", "up", "down"}]
           /\ \A s \in DOMAIN pool' : pool'[s] \in Ids
           /\ \E to \in Pipes :
                 /\ pipe' = [pipe EXCEPT ![c] = to] /\ to.pc = "up" /\ to.fresh = {}
                 /\ to.todo = pipe[c].todo
<1>1. inst' \in [Ids -> {"free", "new", "up", "down"}] BY DEF Adopts, Shape
<1>2. ASSUME NEW s \in DOMAIN pool' PROVE pool'[s] \in Ids
  <2>1. \A k \in pipe[c].fresh : pipe[c].be[k] \in Ids BY OwnedAreIds
  <2>2. CASE s \in DOMAIN pool
    <3>1. pool'[s] = pool[s] \/ \E k \in pipe[c].fresh : pool'[s] = pipe[c].be[k]
      BY <2>2 DEF Adopts
    <3> QED BY <2>1, <2>2, <3>1 DEF Shape
  <2>3. CASE s \notin DOMAIN pool
    <3>1. DOMAIN pool' = DOMAIN pool \cup {Sig(k, config) : k \in pipe[c].fresh}
      BY DEF Adopts
    <3>2. PICK k \in pipe[c].fresh : s = Sig(k, config) BY <1>2, <2>3, <3>1
    <3>3. pool'[Sig(k, config)] = pipe[c].be[k] BY DEF Adopts
    <3> QED BY <2>1, <3>2, <3>3
  <2> QED BY <2>2, <2>3
<1>3. \E to \in Pipes :
        /\ pipe' = [pipe EXCEPT ![c] = to] /\ to.pc = "up" /\ to.fresh = {}
        /\ to.todo = pipe[c].todo
  <2> DEFINE to == [pipe[c] EXCEPT !.pc = "up", !.own = pipe[c].own \ pipe[c].fresh,
                                   !.fresh = {}]
  <2>1. pipe' = [pipe EXCEPT ![c] = to] BY DEF Adopts
  <2>2. pipe[c] \in Pipes BY OwnedAreIds
  <2>3. to \in Pipes /\ to.pc = "up" /\ to.fresh = {} /\ to.todo = pipe[c].todo
    BY <2>2 DEF Pipes
  <2> HIDE DEF to
  <2> QED BY <2>1, <2>3
<1> QED BY <1>1, <1>2, <1>3

LEMMA SwapEndSteps ==
    ASSUME IInv, NEW w \in Swappers, SwapDone(w) \/ SwapFail(w) PROVE IInv'
<1> USE DEF IInv
<1> DEFINE c == task[w].at
<1>0. /\ c \in Conns /\ task[w].pc = "kinds" /\ pipe[c].fresh \subseteq pipe[c].own
      /\ conv' = conv /\ puts' = puts
  <2>1. task[w].pc = "kinds" /\ conv' = conv /\ puts' = puts BY DEF SwapDone, SwapFail
  <2>2. c \in Conns BY <2>1, OneSwaps
  <2> QED BY <2>1, <2>2 DEF Control, Swapping
<1>1. pipe[c] \in Pipes BY <1>0, OwnedAreIds
<1>2. CASE SwapDone(w)
  <2>1. Adopt(c) /\ AfterSwap(w, FALSE) BY <1>2 DEF SwapDone
  <2>2. PICK config : Adopts(c, config) BY <1>0, <2>1, AdoptShape
  <2>3. PICK to \in Pipes :
          pipe' = [pipe EXCEPT ![c] = to] /\ to.pc = "up" /\ to.fresh = {}
    BY <1>0, <2>2, AdoptedShape
  <2>5. /\ Control' /\ task' \in [Swappers -> Tasks]
        /\ lock' \in [Conns -> Swappers \cup {"text", None}]
    BY <1>0, <2>1, <2>3, SwapEnds
  <2>6. \A v \in Swappers : task'[v].new = task[v].new /\ task'[v].prev = task[v].prev
    <3>1. task[w] \in Tasks /\ (w # Put => w \in Conns) BY DEF Shape, Swappers
    <3> QED BY <2>1, <3>1 DEF AfterSwap, Goto, Shape, Tasks
  <2>7. Shape' BY <1>0, <2>2, <2>3, <2>5, AdoptedShape DEF Shape
  <2> QED BY <1>0, <2>2, <2>5, <2>6, <2>7, Adopted
<1>3. CASE SwapFail(w)
  <2>1. Spoil(c) /\ AfterSwap(w, TRUE) /\ pool' = pool BY <1>3 DEF SwapFail
  <2> DEFINE to == [pipe[c] EXCEPT !.pc = "up", !.fresh = {}]
  <2>3. pipe' = [pipe EXCEPT ![c] = to] BY <1>3 DEF SwapFail
  <2>4. /\ to \in Pipes /\ to.pc = "up" /\ to.fresh = {} /\ to.be = pipe[c].be
        /\ to.own = pipe[c].own
    BY <1>1 DEF Pipes
  <2> HIDE DEF to
  <2>5. /\ Control' /\ task' \in [Swappers -> Tasks]
        /\ lock' \in [Conns -> Swappers \cup {"text", None}]
        /\ \A v \in Swappers :
              {task'[v].new, task'[v].prev} \subseteq {task[v].new, task[v].prev, None}
    BY <1>0, <2>1, <2>3, <2>4, SwapEnds
  <2>6. /\ inst' \in [Ids -> {"free", "new", "up", "down"}]
        /\ \A i \in Ids : inst'[i] # inst[i] =>
              inst'[i] # "free" /\ \E k \in pipe[c].own : pipe[c].be[k] = i
    BY <1>0, <2>1 DEF Spoil, Set, Shape
  <2>7. Shape' BY <1>0, <2>1, <2>3, <2>4, <2>5, <2>6 DEF Shape
  <2>8. \A d \in Conns : Same(d) BY <1>0, <2>3, <2>4 DEF Same, Shape
  <2>9. Kept BY <1>0, <2>1, <2>5, <2>6, <2>8 DEF Kept
  <2> QED BY <2>5, <2>7, <2>9, KeptHeap
<1> QED BY <1>2, <1>3

-----------------------------------------------------------------------------
(* Pipelines.                                                              *)

LEMMA NoPipeTyped ==
    ASSUME NEW c \in Conns, NEW pc \in {"none", "init", "up", "swap", "shed", "failed", "gone"}
    PROVE  LET to == [NoPipe(c) EXCEPT !.pc = pc] IN
           /\ to \in Pipes /\ to.pc = pc /\ to.own = {} /\ to.fresh = {} /\ to.todo = {}
           /\ \A k \in Kinds : to.be[k] = None
BY DEF NoPipe, Pipes, Objects

LEMMA BuildSteps == ASSUME IInv, NEW c \in Conns, Register(c) \/ Rebuild(c) PROVE IInv'
<1> USE DEF IInv
<1>1. /\ conv' = conv /\ task' = task /\ lock' = lock /\ puts' = puts
      /\ pipe[c].pc \in {"none", "shed"}
  BY DEF Register, Rebuild
<1>2. PICK config : Borrow(c, config)
  <2>1. CASE Register(c)
    <3>1. Borrow(c, cfg'[c]) BY <2>1 DEF Register
    <3> QED BY <3>1
  <2>2. CASE Rebuild(c)
    <3>1. Borrow(c, cfg[c]) BY <2>2 DEF Rebuild
    <3> QED BY <3>1
  <2> QED BY <2>1, <2>2
<1>3. PICK be \in [Kinds -> Ids], missing \in SUBSET Kinds : Borrows(c, config, be, missing)
  BY <1>2, BorrowShape
<1> DEFINE to == Built(c, be, missing)
<1>4. /\ to \in Pipes /\ to.pc = "init" /\ to.own = missing /\ to.fresh = missing
      /\ to.todo = {} /\ pipe' = [pipe EXCEPT ![c] = to]
  BY <1>3, BuiltPipe DEF Borrows
<1> HIDE DEF to
<1>5. Shape'
  <2>1. inst' \in [Ids -> {"free", "new", "up", "down"}] BY <1>3 DEF Borrows, Shape
  <2>2. pool' = pool BY <1>3 DEF Borrows
  <2> QED BY <1>1, <1>4, <2>1, <2>2 DEF Shape
<1>6. task[Put].at # c BY <1>1 DEF Control, Locked
<1>7. Control' BY <1>1, <1>4, <1>6, PipeMoves
<1>8. Heap' BY <1>1, <1>2, <1>5, Borrowed
<1> QED BY <1>5, <1>7, <1>8

LEMMA InitDoneStep == ASSUME IInv, NEW c \in Conns, InitDone(c) PROVE IInv'
<1> USE DEF IInv
<1>1. /\ conv' = conv /\ task' = task /\ lock' = lock /\ puts' = puts /\ Adopt(c)
      /\ pipe[c].pc = "init" /\ pipe[c].fresh \subseteq pipe[c].own
  BY DEF InitDone, Control, Swapping
<1>2. PICK config : Adopts(c, config) BY <1>1, AdoptShape
<1>3. PICK to \in Pipes : pipe' = [pipe EXCEPT ![c] = to] /\ to.pc = "up" /\ to.fresh = {}
  BY <1>1, <1>2, AdoptedShape
<1>4. Shape' BY <1>1, <1>2, <1>3, AdoptedShape DEF Shape
<1>5. Control' BY <1>1, <1>3, PipeMoves
<1>6. Heap' BY <1>1, <1>2, <1>4, Adopted
<1> QED BY <1>4, <1>5, <1>6

\* A pipeline that gives up its backends: only what it owned changes.
LEMMA GivenUp ==
    ASSUME Shape, Heap, Shape', NEW c \in Conns, NEW to, pipe' = [pipe EXCEPT ![c] = to],
           to.own = {}, \A k \in Kinds : to.be[k] = None,
           pool' = pool, conv' = conv,
           \A v \in Swappers :
               {task'[v].new, task'[v].prev} \subseteq {task[v].new, task[v].prev, None},
           \A i \in Ids : inst'[i] # inst[i] =>
               inst'[i] # "free" /\ \E k \in pipe[c].own : pipe[c].be[k] = i
    PROVE  Heap'
<1>1. \A d \in Conns : Same(d) \/ Emptied(d) BY DEF Shape, Same, Emptied
<1>2. Kept BY <1>1 DEF Kept
<1> QED BY <1>2, KeptHeap

LEMMA InitFailStep == ASSUME IInv, NEW c \in Conns, InitFail(c) PROVE IInv'
<1> USE DEF IInv
<1> DEFINE to == [NoPipe(c) EXCEPT !.pc = "failed"]
<1>1. /\ conv' = conv /\ task' = task /\ lock' = lock /\ puts' = puts /\ pool' = pool
      /\ pipe[c].pc = "init" /\ pipe[c].fresh \subseteq pipe[c].own /\ Spoil(c)
      /\ pipe' = [pipe EXCEPT ![c] = to]
  BY DEF InitFail, Control, Swapping
<1>2. /\ to \in Pipes /\ to.pc = "failed" /\ to.own = {} /\ to.fresh = {} /\ to.todo = {}
      /\ \A k \in Kinds : to.be[k] = None
  BY NoPipeTyped
<1> HIDE DEF to
<1>3. /\ inst' \in [Ids -> {"free", "new", "up", "down"}]
      /\ \A i \in Ids : inst'[i] # inst[i] =>
            inst'[i] # "free" /\ \E k \in pipe[c].own : pipe[c].be[k] = i
  BY <1>1 DEF Spoil, Set, Shape
<1>4. Shape' BY <1>1, <1>2, <1>3 DEF Shape
<1>5. task[Put].at # c BY <1>1 DEF Control, Locked
<1>6. Control' BY <1>1, <1>2, <1>5, PipeMoves
<1>7. Heap' BY <1>1, <1>2, <1>3, <1>4, GivenUp
<1> QED BY <1>4, <1>6, <1>7

LEMMA ShutdownInst ==
    ASSUME Shape, NEW c \in Conns, Shutdown(c)
    PROVE  /\ inst' \in [Ids -> {"free", "new", "up", "down"}]
           /\ \A i \in Ids : inst'[i] # inst[i] =>
                 inst'[i] # "free" /\ \E k \in pipe[c].own : pipe[c].be[k] = i
BY DEF Shutdown, Set, Held, Shape

LEMMA ShedStep == ASSUME IInv, NEW c \in Conns, Shed(c) PROVE IInv'
<1> USE DEF IInv
<1> DEFINE to == [NoPipe(c) EXCEPT !.pc = "shed"]
<1>1. /\ conv' = conv /\ task' = task /\ lock' = lock /\ puts' = puts /\ pool' = pool
      /\ pipe[c].pc = "up" /\ task[Put].at # c /\ Shutdown(c)
      /\ pipe' = [pipe EXCEPT ![c] = to]
  BY DEF Shed
<1>2. /\ to \in Pipes /\ to.pc = "shed" /\ to.own = {} /\ to.fresh = {} /\ to.todo = {}
      /\ \A k \in Kinds : to.be[k] = None
  BY NoPipeTyped
<1> HIDE DEF to
<1>3. Shape' BY <1>1, <1>2, ShutdownInst DEF Shape
<1>4. Control' BY <1>1, <1>2, PipeMoves
<1>5. \A i \in Ids : inst'[i] # inst[i] =>
        inst'[i] # "free" /\ \E k \in pipe[c].own : pipe[c].be[k] = i
  BY <1>1, ShutdownInst
<1>6. Heap' BY <1>1, <1>2, <1>3, <1>5, GivenUp
<1> QED BY <1>3, <1>4, <1>6

\* The task of a connection that goes is gone too, and with it a swap of its own.
LEMMA DropStep == ASSUME IInv, NEW c \in Conns, Drop(c) PROVE IInv'
<1> USE DEF IInv
<1> DEFINE to == [NoPipe(c) EXCEPT !.pc = "gone"]
<1>0. /\ c \in Swappers /\ Put \in Swappers /\ c # Put /\ None \notin Conns
      /\ \A d \in Conns : d \in Swappers /\ d # Put
  BY NamesAssumption DEF Swappers
<1>1. /\ conv' = conv /\ puts' = puts /\ pool' = pool
      /\ task[Put].at # c /\ Shutdown(c) /\ pipe' = [pipe EXCEPT ![c] = to]
      /\ task' = [task EXCEPT ![c] = Rest] /\ lock' = [lock EXCEPT ![c] = None]
  BY DEF Drop, Unlock
<1>2. /\ to \in Pipes /\ to.pc = "gone" /\ to.own = {} /\ to.fresh = {} /\ to.todo = {}
      /\ \A k \in Kinds : to.be[k] = None
  BY NoPipeTyped
<1> HIDE DEF to
<1>3. /\ Rest \in Tasks /\ Rest.pc = "idle" /\ Rest.at = None /\ Rest.new = None
      /\ Rest.prev = None
  BY DEF Rest, Tasks
<1>4. /\ task'[c] = Rest /\ \A v \in Swappers \ {c} : task'[v] = task[v]
      /\ pipe'[c] = to /\ \A d \in Conns \ {c} : pipe'[d] = pipe[d] /\ lock'[d] = lock[d]
  BY <1>0, <1>1 DEF Shape
<1>5. Shape' BY <1>0, <1>1, <1>2, <1>3, ShutdownInst DEF Shape
<1>6. \A v \in Swappers, d \in Conns : Swaps(v, d)' <=> (Swaps(v, d) /\ v # c)
  BY <1>0, <1>3, <1>4 DEF Swaps
<1>7. \A v \in Swappers : Swaps(v, c) => v = c
  BY <1>0, <1>1 DEF Control, Locked, Swaps, Swappers
<1>8. Locked' BY <1>0, <1>1, <1>2, <1>3, <1>4, <1>6, <1>7 DEF Control, Locked
<1>9. Swapping'
  <2>1. \A d \in Conns \ {c} : ~Swaps(c, d) BY <1>0 DEF Control, Locked, Swaps
  <2> QED BY <1>0, <1>2, <1>4, <1>6, <1>7, <2>1 DEF Control, Swapping
<1>10. Choosing' BY <1>3, <1>4 DEF Control, Choosing
<1>11. \A i \in Ids : inst'[i] # inst[i] =>
         inst'[i] # "free" /\ \E k \in pipe[c].own : pipe[c].be[k] = i
  BY <1>1, ShutdownInst
<1>12. \A v \in Swappers :
         {task'[v].new, task'[v].prev} \subseteq {task[v].new, task[v].prev, None}
  BY <1>3, <1>4
<1>13. Heap' BY <1>1, <1>2, <1>5, <1>11, <1>12, GivenUp
<1> QED BY <1>5, <1>8, <1>9, <1>10, <1>13 DEF Control

-----------------------------------------------------------------------------
(* The PUT handler.                                                        *)

LEMMA PutSteps ==
    ASSUME IInv, PutNext \/ PutReply \/ \E body \in Bodies : PutStart(body)
    PROVE  IInv'
<1> USE DEF IInv
<1>0. Put \in Swappers /\ Put \notin Conns /\ task[Put] \in Tasks /\ None \notin Conns
  BY NamesAssumption DEF Swappers, Shape
<1>1. /\ inst' = inst /\ pool' = pool /\ conv' = conv /\ pipe' = pipe /\ lock' = lock
      /\ puts' \in 0..MaxPuts /\ task[Put].pc \in {"idle", "next", "ack"}
  <2>1. MaxPuts \in Nat /\ puts \in 0..MaxPuts BY ConstantsAssumption DEF Shape
  <2>2. CASE PutNext BY <2>1, <2>2 DEF PutNext
  <2>3. CASE PutReply BY <2>1, <2>3 DEF PutReply
  <2>4. CASE \E body \in Bodies : PutStart(body) BY <2>1, <2>4 DEF PutStart
  <2> QED BY <2>2, <2>3, <2>4
<1>2. PICK t \in Tasks :
        /\ task' = [task EXCEPT ![Put] = t] /\ t.pc \in {"idle", "next", "lock", "conv"}
        /\ t.pc = "lock" => t.at \in Conns
        /\ \A c \in Conns : t.at = c => pipe[c].pc \in {"up", "swap"}
        /\ {t.new, t.prev} \subseteq {task[Put].new, task[Put].prev, None}
  <2>1. CASE PutReply
    <3>1. task' = [task EXCEPT ![Put] = Rest] BY <2>1 DEF PutReply
    <3>2. /\ Rest \in Tasks /\ Rest.pc = "idle" /\ Rest.at = None /\ Rest.new = None
          /\ Rest.prev = None
      BY DEF Rest, Tasks
    <3> QED BY <3>1, <3>2, <1>0
  <2>2. CASE \E body \in Bodies : PutStart(body)
    <3> DEFINE t == [Rest EXCEPT !.pc = "next",
                       !.left = {c \in Conns : pipe[c].pc \notin {"none", "gone"}}]
    <3>1. task' = [task EXCEPT ![Put] = t] BY <2>2 DEF PutStart
    <3>2. /\ t \in Tasks /\ t.pc = "next" /\ t.at = None /\ t.new = None /\ t.prev = None
      BY DEF Rest, Tasks
    <3> HIDE DEF t
    <3> QED BY <3>1, <3>2, <1>0
  <2>3. CASE PutNext /\ task[Put].left = {}
    <3>1. task' = [task EXCEPT ![Put] = [task[Put] EXCEPT !.pc = "conv"]]
      BY <2>3 DEF PutNext, Goto
    <3>2. [task[Put] EXCEPT !.pc = "conv"] \in Tasks BY <1>0 DEF Tasks
    <3>3. \A c \in Conns : task[Put].at = c => pipe[c].pc \in {"up", "swap"}
      BY DEF Control, Locked
    <3> QED BY <3>1, <3>2, <3>3, <1>0 DEF Tasks
  <2>4. CASE PutNext /\ task[Put].left # {}
    <3>1. PICK c \in task[Put].left :
            task' = [task EXCEPT
              ![Put].left = @ \ {c},
              ![Put].pc = IF pipe[c].pc \in {"up", "swap"} THEN "lock" ELSE "next",
              ![Put].at = IF pipe[c].pc \in {"up", "swap"} THEN c ELSE None]
      BY <2>4 DEF PutNext
    <3>2. c \in Conns BY <1>0 DEF Tasks
    <3> DEFINE pc == IF pipe[c].pc \in {"up", "swap"} THEN "lock" ELSE "next"
               at == IF pipe[c].pc \in {"up", "swap"} THEN c ELSE None
               t == [task[Put] EXCEPT !.left = @ \ {c}, !.pc = pc, !.at = at]
    <3>3. task' = [task EXCEPT ![Put] = t] BY <3>1
    <3>4. /\ pc \in {"lock", "next"} /\ at \in Conns \cup {None}
          /\ pc = "lock" => at \in Conns
          /\ \A d \in Conns : at = d => pipe[d].pc \in {"up", "swap"}
      BY <3>2, <1>0
    <3> HIDE DEF pc, at
    <3>5. /\ t \in Tasks /\ t.pc = pc /\ t.at = at /\ t.new = task[Put].new
          /\ t.prev = task[Put].prev
      BY <3>4, <1>0 DEF Tasks
    <3> HIDE DEF t
    <3> QED BY <3>3, <3>4, <3>5
  <2> QED BY <2>1, <2>2, <2>3, <2>4
<1>3. Control' BY <1>0, <1>1, <1>2, TaskMoves
<1>4. Shape' BY <1>0, <1>1, <1>2 DEF Shape
<1>5. Kept BY <1>0, <1>1, <1>2 DEF Kept, Same, Shape
<1> QED BY <1>3, <1>4, <1>5, KeptHeap

LEMMA PutEnterStep == ASSUME IInv, PutEnter PROVE IInv'
<1> USE DEF IInv
<1> DEFINE c == task[Put].at
<1>0. /\ Put \in Swappers /\ \A d \in Conns : d \in Swappers /\ d # Put
      /\ task[Put] \in Tasks /\ None \notin Swappers
  BY NamesAssumption DEF Swappers, Shape
<1>1. /\ inst' = inst /\ pool' = pool /\ conv' = conv /\ puts' = puts
      /\ task[Put].pc = "lock" /\ lock[c] = None
      /\ c \in Conns /\ pipe[c].pc \in {"up", "swap"} /\ pipe[c] \in Pipes
      /\ lock' = [lock EXCEPT ![c] = Put]
  BY DEF PutEnter, Control, Locked, Shape
<1>2. PICK t \in Tasks :
        /\ task' = [task EXCEPT ![Put] = t] /\ t.pc = "cut" /\ t.at = c
        /\ t.new = task[Put].new /\ t.prev = task[Put].prev
  <2>1. task' = [task EXCEPT ![Put] = [task[Put] EXCEPT !.pc = "cut"]] BY DEF PutEnter, Goto
  <2>2. [task[Put] EXCEPT !.pc = "cut"] \in Tasks BY <1>0 DEF Tasks
  <2> QED BY <2>1, <2>2, <1>0 DEF Tasks
<1>3. PICK to \in Pipes :
        /\ pipe' = [pipe EXCEPT ![c] = to] /\ to.pc = "swap"
        /\ to.be = pipe[c].be /\ to.own = pipe[c].own /\ to.fresh = pipe[c].fresh
        /\ to.todo = pipe[c].todo
  <2>1. pipe' = [pipe EXCEPT ![c] = [pipe[c] EXCEPT !.pc = "swap"]] BY DEF PutEnter
  <2>2. [pipe[c] EXCEPT !.pc = "swap"] \in Pipes BY <1>1 DEF Pipes
  <2> QED BY <2>1, <2>2, <1>1 DEF Pipes
<1>4. /\ task'[Put] = t /\ \A v \in Swappers \ {Put} : task'[v] = task[v]
      /\ pipe'[c] = to /\ \A d \in Conns \ {c} : pipe'[d] = pipe[d] /\ lock'[d] = lock[d]
      /\ lock'[c] = Put
  BY <1>0, <1>1, <1>2, <1>3 DEF Shape
<1>5. \A v \in Swappers : ~Swaps(v, c)
  BY <1>0, <1>1 DEF Control, Locked, Swaps, Swappers
<1>6. pipe[c].pc = "up" /\ pipe[c].fresh = {}
  BY <1>0, <1>1, <1>5 DEF Control, Swapping
<1>7. \A v \in Swappers, d \in Conns :
        Swaps(v, d)' <=> (Swaps(v, d) \/ (v = Put /\ d = c))
  BY <1>0, <1>1, <1>2, <1>4 DEF Swaps
<1>8. Locked'
  <2>1. \A d \in Conns : task'[d] = task[d] BY <1>0, <1>4
  <2>2. task[c].pc \in {"idle", "lock"} BY <1>0, <1>1 DEF Control, Locked
  <2>3. \A d \in Conns : Swaps(Put, d)' => d = c BY <1>2, <1>4 DEF Swaps
  <2> QED BY <1>1, <1>2, <1>3, <1>4, <2>1, <2>2, <2>3 DEF Control, Locked
<1>9. Swapping'
  <2>1. \A v \in Swappers, d \in Conns :
          Swaps(v, d) /\ task[v].pc = "kinds" => Swaps(v, d)' /\ task'[v].pc = "kinds"
    BY <1>1, <1>4, <1>7 DEF Swaps
  <2> QED BY <1>0, <1>3, <1>4, <1>5, <1>6, <1>7, <2>1 DEF Control, Swapping
<1>10. Choosing' BY <1>2, <1>4 DEF Control, Choosing
<1>11. Shape' BY <1>0, <1>1, <1>2, <1>3 DEF Shape
<1>12. Kept BY <1>0, <1>1, <1>2, <1>3, <1>4 DEF Kept, Same
<1> QED BY <1>8, <1>9, <1>10, <1>11, <1>12, KeptHeap DEF Control

-----------------------------------------------------------------------------
(* The engine.                                                             *)

\* What the control of a step of the engine is: its task moves on.
LEMMA EngineMoves ==
    ASSUME Shape, Control, Heap, NEW w \in Swappers, task[w].pc \in {"conv", "convInit", "convSet"},
           pipe' = pipe, lock' = lock,
           NEW t \in Tasks, task' = [task EXCEPT ![w] = t],
           t.pc \in {"ack", "convInit", "convSet"}, t.at = task[w].at,
           t.pc \in {"convInit", "convSet"} => t.new \in Ids,
           t.pc = "convInit" => t.prev \in Ids
    PROVE  Control' /\ task' \in [Swappers -> Tasks]
<1>1. w \in Conns => t.at = w /\ lock'[w] = w BY DEF Control, Locked
<1>2. w = Put => \A c \in Conns : t.at = c => pipe[c].pc \in {"up", "swap"}
  BY DEF Control, Locked
<1>3. Control' BY <1>1, <1>2, TaskMoves
<1> QED BY <1>3 DEF Shape

\* Settle moves the task on, and knows the model if it is not installed yet.
LEMMA Settled ==
    ASSUME Shape, NEW w \in Swappers, NEW new \in Ids, NEW prev \in Ids,
           Settle(w, new, prev)
    PROVE  /\ inst' \in [Ids -> {"free", "new", "up", "down"}] /\ conv' \in Ids
           /\ \E t \in Tasks :
                 /\ task' = [task EXCEPT ![w] = t] /\ t.pc \in {"ack", "convSet"}
                 /\ t.at = task[w].at
                 /\ t.pc = "convSet" => t.new \in Ids
<1>0. task[w] \in Tasks BY DEF Shape
<1>1. CASE prev # new /\ prev \notin Range(pool')
  <2>1. /\ inst' = [inst EXCEPT ![prev] = "down", ![new] = "up"] /\ conv' = conv
        /\ task' = [task EXCEPT ![w].pc = "convSet", ![w].new = new]
    BY <1>1 DEF Settle
  <2> DEFINE t == [task[w] EXCEPT !.pc = "convSet", !.new = new]
  <2>2. task' = [task EXCEPT ![w] = t] BY <2>1 DEF Shape
  <2>3. t \in Tasks /\ t.pc = "convSet" /\ t.at = task[w].at /\ t.new = new
    BY <1>0 DEF Tasks
  <2> HIDE DEF t
  <2>4. inst' \in [Ids -> {"free", "new", "up", "down"}] /\ conv' \in Ids
    BY <2>1 DEF Shape
  <2> QED BY <2>2, <2>3, <2>4
<1>2. CASE ~(prev # new /\ prev \notin Range(pool'))
  <2>1. /\ inst' = [inst EXCEPT ![new] = "up"] /\ conv' = new
        /\ task' = [task EXCEPT ![w] = [task[w] EXCEPT !.pc = "ack"]]
    BY <1>2 DEF Settle, Goto
  <2>2. [task[w] EXCEPT !.pc = "ack"] \in Tasks BY <1>0 DEF Tasks
  <2>3. inst' \in [Ids -> {"free", "new", "up", "down"}] /\ conv' \in Ids
    BY <2>1 DEF Shape
  <2> QED BY <2>1, <2>2, <2>3, <1>0 DEF Tasks
<1> QED BY <1>1, <1>2

LEMMA ConvLookStep == ASSUME IInv, NEW w \in Swappers, ConvLook(w) PROVE IInv'
<1> USE DEF IInv
<1>0. task[w] \in Tasks /\ conv \in Ids /\ Language(conv) BY DEF Shape, Language
<1>1. /\ pool' = pool /\ pipe' = pipe /\ lock' = lock /\ puts' = puts
      /\ task[w].pc = "conv"
  BY DEF ConvLook
<1>2. CASE Key(w) \in DOMAIN pool
  <2>1. Settle(w, pool[Key(w)], conv) /\ pool[Key(w)] \in Ids
    BY <1>2 DEF ConvLook, Shape
  <2>2. Language(pool[Key(w)])
    <3>1. Key(w)[1] = "llm" BY SigKind DEF Key
    <3> QED BY <1>2, <3>1 DEF Language
  <2>3. /\ inst' \in [Ids -> {"free", "new", "up", "down"}] /\ conv' \in Ids
    BY <1>0, <2>1, Settled
  <2>7. PICK t \in Tasks : /\ task' = [task EXCEPT ![w] = t]
                           /\ t.pc \in {"ack", "convSet"} /\ t.at = task[w].at
                           /\ t.pc = "convSet" => t.new \in Ids
    BY <1>0, <2>1, Settled
  <2>4. Control' /\ task' \in [Swappers -> Tasks] BY <1>1, <2>7, EngineMoves
  <2>5. Shape' BY <1>1, <2>3, <2>4 DEF Shape
  <2>6. Heap' BY <1>0, <1>1, <2>1, <2>2, <2>5, Installed
  <2> QED BY <2>4, <2>5, <2>6
<1>3. CASE Key(w) \notin DOMAIN pool
  <2> DEFINE n == NthFree(1)
             t == [task[w] EXCEPT !.pc = "convInit", !.new = n, !.prev = conv]
  <2>1. /\ Free # {} /\ inst' = [inst EXCEPT ![n] = "new"] /\ conv' = conv
        /\ task' = [task EXCEPT ![w] = t]
    BY <1>3 DEF ConvLook, Shape
  <2>2. n \in Free /\ n \in Ids BY <2>1, FirstIsFree DEF Free
  <2> HIDE DEF n
  <2>3. /\ t \in Tasks /\ t.pc = "convInit" /\ t.at = task[w].at /\ t.new = n
        /\ t.prev = conv
    BY <1>0, <2>2 DEF Tasks
  <2> HIDE DEF t
  <2>4. Control' /\ task' \in [Swappers -> Tasks]
    BY <1>0, <1>1, <2>1, <2>2, <2>3, EngineMoves
  <2>5. Shape' BY <1>1, <2>1, <2>2, <2>4 DEF Shape
  <2>6. \A v \in Swappers : task'[v].new \in {task[v].new, n}
                            /\ task'[v].prev \in {task[v].prev, conv}
    BY <2>1, <2>3 DEF Shape
  <2>7. Heap' BY <1>1, <2>1, <2>2, <2>5, <2>6, Constructed
  <2> QED BY <2>4, <2>5, <2>7
<1> QED BY <1>2, <1>3

LEMMA ConvReadyStep == ASSUME IInv, NEW w \in Swappers, ConvReady(w) PROVE IInv'
<1> USE DEF IInv
<1> DEFINE new == task[w].new
           prev == task[w].prev
<1>0. new \in Ids /\ prev \in Ids /\ Language(new) /\ Language(prev)
  BY DEF ConvReady, Control, Choosing, Language
<1>1. /\ pool' = WithPooled([s \in {Key(w)} |-> new]) /\ pipe' = pipe /\ lock' = lock
      /\ puts' = puts /\ task[w].pc = "convInit" /\ Settle(w, new, prev)
  BY DEF ConvReady
<1>2. \A s \in DOMAIN pool' :
        (s \in DOMAIN pool /\ pool'[s] = pool[s]) \/ (s[1] = "llm" /\ pool'[s] = new)
  <2>1. Key(w)[1] = "llm" BY SigKind DEF Key
  <2> QED BY <1>1, <2>1 DEF WithPooled
<1> HIDE DEF new, prev
<1>3. /\ inst' \in [Ids -> {"free", "new", "up", "down"}] /\ conv' \in Ids
  BY <1>0, <1>1, Settled
<1>7. PICK t \in Tasks : /\ task' = [task EXCEPT ![w] = t]
                         /\ t.pc \in {"ack", "convSet"} /\ t.at = task[w].at
                         /\ t.pc = "convSet" => t.new \in Ids
  BY <1>0, <1>1, Settled
<1>4. Control' /\ task' \in [Swappers -> Tasks] BY <1>1, <1>7, EngineMoves
<1>5. Shape' BY <1>0, <1>1, <1>2, <1>3, <1>4 DEF Shape
<1>6. Heap' BY <1>0, <1>1, <1>2, <1>5, Installed
<1> QED BY <1>4, <1>5, <1>6

LEMMA ConvEndSteps ==
    ASSUME IInv, NEW w \in Swappers, ConvFail(w) \/ ConvSet(w) PROVE IInv'
<1> USE DEF IInv
<1> DEFINE t == [task[w] EXCEPT !.pc = "ack"]
<1>0. task[w] \in Tasks BY DEF Shape
<1>1. /\ inst' = inst /\ pool' = pool /\ pipe' = pipe /\ lock' = lock /\ puts' = puts
      /\ task[w].pc \in {"convInit", "convSet"} /\ task' = [task EXCEPT ![w] = t]
      /\ conv' \in {conv, task[w].new} /\ conv' \in Ids
  BY DEF ConvFail, ConvSet, Goto, Control, Choosing, Shape
<1>2. /\ t \in Tasks /\ t.pc = "ack" /\ t.at = task[w].at /\ t.new = task[w].new
      /\ t.prev = task[w].prev
  BY <1>0 DEF Tasks
<1> HIDE DEF t
<1>3. Control' /\ task' \in [Swappers -> Tasks] BY <1>1, <1>2, EngineMoves
<1>4. Shape' BY <1>1, <1>3 DEF Shape
<1>5. Kept BY <1>1, <1>2 DEF Kept, Same, Shape
<1> QED BY <1>3, <1>4, <1>5, KeptHeap

-----------------------------------------------------------------------------
(* Results.                                                                *)

LEMMA InitInv == ASSUME Init PROVE IInv
<1>0. /\ Rest \in Tasks /\ Rest.pc = "idle" /\ Rest.at = None /\ Rest.new = None
      /\ Rest.prev = None /\ None \notin Conns /\ None \notin Ids
      /\ 1 \in Ids /\ 0 \in 0..MaxPuts
  BY NamesAssumption, ConstantsAssumption DEF Rest, Tasks, Swappers, Ids
<1>1. \A c \in Conns :
        /\ NoPipe(c) \in Pipes /\ NoPipe(c).pc = "none" /\ NoPipe(c).own = {}
        /\ NoPipe(c).fresh = {} /\ \A k \in Kinds : NoPipe(c).be[k] = None
  BY DEF NoPipe, Pipes, Objects
<1>2. /\ \A w \in Swappers : task[w] = Rest
      /\ \A c \in Conns : pipe[c] = NoPipe(c)
      /\ DOMAIN pool = {} /\ conv = 1 /\ inst[1] = "up" /\ puts = 0
  BY <1>0 DEF Init
<1>3. Shape BY <1>0, <1>1, <1>2 DEF Init, Shape
<1>4. Put \in Swappers /\ \A c \in Conns : c \in Swappers BY DEF Swappers
<1>5. Control
  BY <1>0, <1>1, <1>2, <1>4 DEF Control, Locked, Swapping, Choosing, Swaps
<1>6. \A i \in Ids : (Shared(i) => i = 1) /\ ~Speech(i)
  BY <1>0, <1>1, <1>2 DEF Shared, Speech
<1>7. Heap BY <1>0, <1>1, <1>2, <1>6 DEF Heap, Owned, Used, Apart, Ready, BorrowedIsUp
<1> QED BY <1>3, <1>5, <1>7 DEF IInv

LEMMA NextInv == ASSUME IInv, Next PROVE IInv'
<1>0. Put \in Swappers /\ \A c \in Conns : c \in Swappers BY DEF Swappers
<1>1. ASSUME NEW w \in Swappers, Step(w) PROVE IInv'
  BY <1>1, CutStep, SwapOneStep, SwapEndSteps, ConvLookStep, ConvReadyStep, ConvEndSteps
  DEF Step
<1>2. ASSUME NEW c \in Conns, ConfigStep(c) PROVE IInv'
  BY <1>0, <1>1, <1>2, ConfigSteps, StoreStep DEF ConfigStep
<1>3. ASSUME PutStep PROVE IInv'
  BY <1>0, <1>1, <1>3, PutSteps, PutEnterStep DEF PutStep
<1>4. ASSUME NEW c \in Conns,
             \/ Register(c) \/ Rebuild(c) \/ InitDone(c) \/ InitFail(c) \/ Shed(c) \/ Drop(c)
             \/ TextStart(c) \/ TextEnd(c) \/ VoiceStart(c) \/ VoiceEnd(c)
             \/ \E r \in Requests : Read(c, r)
      PROVE  IInv'
  BY <1>4, BuildSteps, InitDoneStep, InitFailStep, ShedStep, DropStep, TurnSteps, ReadStep
<1>5. ASSUME NEW body \in Bodies, PutStart(body) PROVE IInv'
  BY <1>5, PutSteps
<1> QED BY <1>2, <1>3, <1>4, <1>5 DEF Next

LEMMA StutterInv == ASSUME IInv, UNCHANGED vars PROVE IInv'
BY DEF IInv, Shape, Control, Locked, Swapping, Choosing, Swaps, Heap, Owned, Alone, Used,
       Apart, Shared, Speech, Language, Ready, BorrowedIsUp, vars

LEMMA InvHolds == Spec => []IInv
<1>1. Init => IInv BY InitInv
<1>2. IInv /\ [Next]_vars => IInv' BY NextInv, StutterInv
<1> QED BY <1>1, <1>2, PTL DEF Spec

\* What the pool offers is initialised and not shut down.
THEOREM PoolHolds == Spec => []PoolReady
<1>1. IInv => PoolReady BY DEF IInv, Heap, Ready, PoolReady, Pooled, Range
<1> QED BY <1>1, InvHolds, PTL

\* What a pipeline will shut down itself nobody else uses.
THEOREM OwnHolds == Spec => []OwnIsAlone
<1>1. ASSUME IInv PROVE OwnIsAlone
  <2> USE DEF IInv
  <2> SUFFICES ASSUME NEW c \in Conns, NEW i \in Held(c)
               PROVE  /\ i \notin Pooled /\ i # conv
                      /\ \A d \in Conns \ {c} : i \notin {pipe[d].be[k] : k \in Kinds}
    BY DEF OwnIsAlone
  <2>1. PICK k \in pipe[c].own : pipe[c].be[k] = i BY DEF Held
  <2>2. i \in Ids /\ Alone(i, c, k) BY <1>1, <2>1 DEF Heap, Owned
  <2>3. i \notin Pooled BY <2>2 DEF Alone, Shared, Pooled, Range
  <2>4. i # conv BY <2>2 DEF Alone, Shared
  <2>5. ASSUME NEW d \in Conns \ {c}, NEW j \in Kinds, pipe[d].be[j] = i PROVE FALSE
    <3>1. CASE j \in pipe[d].own BY <2>2, <2>5, <3>1 DEF Alone
    <3>2. CASE j \notin pipe[d].own BY <2>2, <2>5, <3>2 DEF Alone, Shared
    <3> QED BY <3>1, <3>2
  <2> QED BY <2>3, <2>4, <2>5
<1> QED BY <1>1, InvHolds, PTL

\* The speech backends that a pipeline has borrowed work.
THEOREM BorrowedHolds == Spec => []BorrowedIsUp
<1>1. IInv => BorrowedIsUp BY DEF IInv, Heap
<1> QED BY <1>1, InvHolds, PTL
=============================================================================

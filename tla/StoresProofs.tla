---------------------------- MODULE StoresProofs ----------------------------
(***************************************************************************)
(* Proofs about what is kept: notes, memory, the accounts at Google, the   *)
(* archive of coredumps and the media files.  For each of them an          *)
(* inductive invariant is proved of its own actions; the theorems, at the  *)
(* end, are about the composition, and state its properties.               *)
(***************************************************************************)
EXTENDS MCStores, FiniteSetTheorems, TLAPS

-----------------------------------------------------------------------------
(* Notes.                                                                  *)

\* The rows and the writers, as far as the proof needs them.
NotesTyped ==
    /\ row \in [Notes -> N!Rows \cup {None}]
    /\ writer \in [N!Writers ->
         [pc : {"idle", "think", "lock", "read", "write", "over"}, note : Notes \cup {None},
          names : SUBSET N!Fields, read : N!Rows \cup {None}, tries : Nat]]
    /\ \A w \in N!Writers : writer[w].pc \notin {"idle", "over"} => writer[w].note \in Notes
    /\ lock \in Seq(N!Writers)

\* Who waits for the lock, or has it, is in its queue; who has it is the head; and
\* what was read under it is still what the row says.
NotesHeld ==
    /\ \A w \in N!Writers : writer[w].pc \in {"lock", "read", "write"} =>
         \E i \in 1..Len(lock) : lock[i] = w
    /\ \A w \in N!Writers : writer[w].pc \in {"read", "write"} => Head(lock) = w
    /\ \A w \in N!Writers : writer[w].pc = "write" =>
         /\ writer[w].read = row[writer[w].note] /\ writer[w].read # None

NotesInv == NotesTyped /\ NotesHeld /\ row = last

-----------------------------------------------------------------------------
(* The queue of the lock.                                                  *)

LEMMA Appended ==
    ASSUME NEW S, NEW s \in Seq(S), NEW w \in S
    PROVE  /\ Append(s, w) \in Seq(S) /\ Len(Append(s, w)) = Len(s) + 1
           /\ \A i \in 1..Len(s) : Append(s, w)[i] = s[i]
           /\ Append(s, w)[Len(s) + 1] = w
           /\ s # <<>> => Head(Append(s, w)) = Head(s)
  OBVIOUS

LEMMA TailFacts ==
    ASSUME NEW S, NEW s \in Seq(S), s # <<>>
    PROVE  /\ Tail(s) \in Seq(S)
           /\ \A i \in 2..Len(s) : i - 1 \in 1..Len(Tail(s)) /\ Tail(s)[i - 1] = s[i]
  OBVIOUS

-----------------------------------------------------------------------------

LEMMA NotesInit == ASSUME N!Init PROVE NotesInv
  BY DEF N!Init, NotesInv, NotesTyped, NotesHeld, N!Idle

\* A writer that comes to the lock waits behind the others.
LEMMA Acquires ==
    ASSUME NotesInv, NEW w \in N!Writers, writer[w].pc \in {"idle", "think"}, N!Acquire(w),
           NEW entry, writer' = [writer EXCEPT ![w] = entry], entry.pc = "lock",
           entry \in [pc : {"lock"}, note : Notes, names : SUBSET N!Fields,
                     read : N!Rows \cup {None}, tries : Nat],
           UNCHANGED <<row, last>>
    PROVE  NotesInv'
  <1>1. /\ lock' \in Seq(N!Writers) /\ Len(lock') = Len(lock) + 1 /\ Len(lock) \in Nat
        /\ \A i \in 1..Len(lock) : lock'[i] = lock[i]
        /\ lock'[Len(lock) + 1] = w
        /\ lock # <<>> => Head(lock') = Head(lock)
    BY Appended DEF NotesInv, NotesTyped, N!Acquire
  <1>2. NotesTyped'
    BY <1>1 DEF NotesInv, NotesTyped
  <1>3. /\ writer'[w].pc = "lock" /\ \A v \in N!Writers \ {w} : writer'[v] = writer[v]
    BY DEF NotesInv, NotesTyped
  <1>4. ASSUME NEW v \in N!Writers, writer'[v].pc \in {"lock", "read", "write"}
        PROVE  \E i \in 1..Len(lock') : lock'[i] = v
    <2>1. CASE v = w
      BY <1>1, <2>1
    <2>2. CASE v # w
      <3>1. PICK i \in 1..Len(lock) : lock[i] = v
        BY <1>3, <1>4, <2>2 DEF NotesInv, NotesHeld
      <3> QED BY <1>1, <3>1
    <2> QED BY <2>1, <2>2
  <1>5. ASSUME NEW v \in N!Writers, writer'[v].pc \in {"read", "write"}
        PROVE  Head(lock') = v
    <2>1. v # w /\ writer'[v] = writer[v]
      BY <1>3, <1>5
    <2>2. Head(lock) = v /\ lock # <<>>
      BY <1>5, <2>1 DEF NotesInv, NotesHeld
    <2> QED BY <1>1, <2>2
  <1>6. ASSUME NEW v \in N!Writers, writer'[v].pc = "write"
        PROVE  writer'[v].read = row'[writer'[v].note] /\ writer'[v].read # None
    BY <1>3, <1>6 DEF NotesInv, NotesHeld
  <1> QED BY <1>2, <1>4, <1>5, <1>6 DEF NotesInv, NotesHeld

\* The head of the queue leaves it.
LEMMA Releases ==
    ASSUME NotesInv, NEW w \in N!Writers, writer[w].pc \in {"read", "write"}, N!Release,
           NEW entry, writer' = [writer EXCEPT ![w] = entry], entry.pc = "over",
           entry \in [pc : {"over"}, note : Notes \cup {None}, names : SUBSET N!Fields,
                     read : N!Rows \cup {None}, tries : Nat],
           row' = last', row' \in [Notes -> N!Rows \cup {None}]
    PROVE  NotesInv'
  <1>1. Head(lock) = w /\ lock # <<>> /\ lock \in Seq(N!Writers)
    BY DEF NotesInv, NotesTyped, NotesHeld
  <1>2. /\ lock' \in Seq(N!Writers)
        /\ \A i \in 2..Len(lock) : i - 1 \in 1..Len(lock') /\ lock'[i - 1] = lock[i]
    BY <1>1, TailFacts DEF N!Release
  <1>3. /\ writer'[w].pc = "over" /\ \A v \in N!Writers \ {w} : writer'[v] = writer[v]
    BY DEF NotesInv, NotesTyped
  <1>4. NotesTyped'
    BY <1>2 DEF NotesInv, NotesTyped
  <1>5. ASSUME NEW v \in N!Writers, writer'[v].pc \in {"lock", "read", "write"}
        PROVE  writer'[v].pc = "lock" /\ \E i \in 1..Len(lock') : lock'[i] = v
    <2>1. v # w /\ writer'[v] = writer[v]
      BY <1>3, <1>5
    <2>2. PICK i \in 1..Len(lock) : lock[i] = v
      BY <1>5, <2>1 DEF NotesInv, NotesHeld
    <2>3. i \in 2..Len(lock)
      BY <1>1, <2>1, <2>2
    <2>4. writer[v].pc \notin {"read", "write"}
      BY <1>1, <2>1 DEF NotesInv, NotesHeld
    <2> QED BY <1>2, <1>5, <2>1, <2>2, <2>3, <2>4
  <1> QED BY <1>4, <1>5 DEF NotesInv, NotesHeld

LEMMA NotesNext ==
    ASSUME N!EditsAssumption, None \notin N!Rows, NotesInv, [N!Next]_N!vars
    PROVE  NotesInv'
  <1> DEFINE Task == [pc : {"idle", "think", "lock", "read", "write", "over"},
                      note : Notes \cup {None}, names : SUBSET N!Fields,
                      read : N!Rows \cup {None}, tries : Nat]
  <1> USE DEF NotesInv
  <1>1. ASSUME NEW n \in Notes, N!Create(n) PROVE NotesInv'
    <2>1. N!Fill(n) \in N!Writers /\ N!Embed(n) \in N!Writers /\ N!Fill(n) # N!Embed(n)
      BY DEF N!Fill, N!Embed, N!Writers, N!Tasks
    <2>2. /\ row[n] = None /\ row' = [row EXCEPT ![n] = N!Placeholder] /\ UNCHANGED lock
          /\ last' = [last EXCEPT ![n] = N!Placeholder]
      BY <1>1 DEF N!Create
    <2>3. PICK titled \in BOOLEAN : writer' =
            [writer EXCEPT ![N!Fill(n)] = [N!Idle EXCEPT !.pc = "think", !.note = n,
                             !.names = IF titled THEN {"summary"} ELSE {"title", "summary"}],
                           ![N!Embed(n)] = [N!Idle EXCEPT !.pc = "think", !.note = n,
                             !.names = {"embedding"}]]
      BY <1>1 DEF N!Create
    <2>4. /\ \A v \in {N!Fill(n), N!Embed(n)} :
               /\ writer'[v].pc = "think" /\ writer'[v].note = n
               /\ writer'[v] \in Task
          /\ \A v \in N!Writers \ {N!Fill(n), N!Embed(n)} : writer'[v] = writer[v]
          /\ writer' \in [N!Writers -> Task]
      <3> DEFINE fill == [N!Idle EXCEPT !.pc = "think", !.note = n,
                            !.names = IF titled THEN {"summary"} ELSE {"title", "summary"}]
                 embed == [N!Idle EXCEPT !.pc = "think", !.note = n, !.names = {"embedding"}]
      <3>1. fill.pc = "think" /\ fill.note = n /\ fill \in Task
        BY DEF N!Idle, N!Fields
      <3>2. embed.pc = "think" /\ embed.note = n /\ embed \in Task
        BY DEF N!Idle, N!Fields
      <3>3. writer' = [writer EXCEPT ![N!Fill(n)] = fill, ![N!Embed(n)] = embed]
        BY <2>3
      <3>4. writer \in [N!Writers -> Task]
        BY DEF NotesTyped
      <3> HIDE DEF fill, embed, Task
      <3> QED BY <2>1, <3>1, <3>2, <3>3, <3>4
    <2>5. N!Placeholder \in N!Rows
      BY DEF N!Placeholder, N!Rows, N!Values
    <2>6. NotesTyped'
      BY <2>1, <2>2, <2>4, <2>5, ZenonT(60) DEF NotesTyped
    <2>7. ASSUME NEW v \in N!Writers, writer'[v].pc \in {"lock", "read", "write"}
          PROVE  /\ writer'[v] = writer[v]
                 /\ writer[v].pc = "write" => row'[writer[v].note] = row[writer[v].note]
      <3>1. writer'[v] = writer[v]
        BY <2>4, <2>7
      <3>2. writer[v].pc = "write" => writer[v].note # n /\ writer[v].note \in Notes
        BY <2>2, <2>7, <3>1 DEF NotesTyped, NotesHeld
      <3> QED BY <2>2, <3>1, <3>2
    <2>8. NotesHeld'
      BY <2>2, <2>7 DEF NotesHeld
    <2> QED BY <2>2, <2>6, <2>8
  <1>2. ASSUME NEW w \in N!Writers, N!Think(w) PROVE NotesInv'
    <2>1. writer[w].pc = "think" /\ UNCHANGED <<row, last>> /\ writer[w].note \in Notes
      BY <1>2 DEF N!Think, NotesTyped
    <2>2. CASE writer' = [writer EXCEPT ![w].pc = "lock"] /\ N!Acquire(w)
      <3>1. writer' = [writer EXCEPT ![w] = [writer[w] EXCEPT !.pc = "lock"]]
        BY <2>2
      <3>2. [writer[w] EXCEPT !.pc = "lock"] \in
              [pc : {"lock"}, note : Notes, names : SUBSET N!Fields,
               read : N!Rows \cup {None}, tries : Nat]
        BY <2>1 DEF NotesTyped
      <3>3. [writer[w] EXCEPT !.pc = "lock"].pc = "lock"
        BY <3>2
      <3> HIDE DEF NotesInv
      <3> QED BY <2>1, <2>2, <3>1, <3>2, <3>3, Acquires
    <2>3. CASE /\ UNCHANGED lock
               /\ writer' = IF writer[w].tries = Retries THEN [writer EXCEPT ![w].pc = "over"]
                            ELSE [writer EXCEPT ![w].tries = @ + 1]
      <3>1. /\ writer' \in [N!Writers -> Task] /\ writer'[w].pc \in {"think", "over"}
            /\ writer'[w].note = writer[w].note
            /\ \A v \in N!Writers \ {w} : writer'[v] = writer[v]
        <4>1. writer[w] \in Task
          BY DEF NotesTyped
        <4>2. /\ [writer[w] EXCEPT !.pc = "over"] \in Task
              /\ [writer[w] EXCEPT !.tries = @ + 1] \in Task
              /\ [writer[w] EXCEPT !.pc = "over"].pc = "over"
              /\ [writer[w] EXCEPT !.pc = "over"].note = writer[w].note
              /\ [writer[w] EXCEPT !.tries = @ + 1].pc = "think"
              /\ [writer[w] EXCEPT !.tries = @ + 1].note = writer[w].note
          BY <2>1, <4>1
        <4>4. writer \in [N!Writers -> Task]
          BY DEF NotesTyped
        <4>3. \/ writer' = [writer EXCEPT ![w] = [writer[w] EXCEPT !.pc = "over"]]
              \/ writer' = [writer EXCEPT ![w] = [writer[w] EXCEPT !.tries = @ + 1]]
          BY <2>3, <4>1, <4>4
        <4> HIDE DEF Task
        <4> QED BY <4>2, <4>3, <4>4
      <3>2. NotesTyped'
        BY <2>1, <2>3, <3>1 DEF NotesTyped
      <3>3. NotesHeld'
        BY <2>1, <2>3, <3>1 DEF NotesHeld
      <3> QED BY <2>1, <3>2, <3>3
    <2> QED BY <1>2, <2>2, <2>3 DEF N!Think
  <1>3. ASSUME NEW n \in Notes, NEW e \in Editors, N!Put(e, n) PROVE NotesInv'
    <2>1. N!Edit(e) \in N!Writers
      BY DEF N!Edit, N!Writers
    <2>2. PICK names \in Edits : writer' = [writer EXCEPT ![N!Edit(e)] =
            [N!Idle EXCEPT !.pc = "lock", !.note = n, !.names = names]]
      BY <1>3 DEF N!Put
    <2>3. /\ writer[N!Edit(e)].pc = "idle" /\ N!Acquire(N!Edit(e)) /\ UNCHANGED <<row, last>>
      BY <1>3 DEF N!Put
    <2>4. names \in SUBSET N!Fields
      BY <2>2 DEF N!EditsAssumption
    <2>5. [N!Idle EXCEPT !.pc = "lock", !.note = n, !.names = names] \in
            [pc : {"lock"}, note : Notes, names : SUBSET N!Fields,
             read : N!Rows \cup {None}, tries : Nat]
      BY <2>4 DEF N!Idle
    <2>6. [N!Idle EXCEPT !.pc = "lock", !.note = n, !.names = names].pc = "lock"
      BY <2>5
    <2> HIDE DEF NotesInv
    <2> QED BY <2>1, <2>2, <2>3, <2>5, <2>6, Acquires
  <1>4. ASSUME NEW w \in N!Writers, N!Lock(w) PROVE NotesInv'
    <2>1. /\ writer[w].pc = "lock" /\ Head(lock) = w
          /\ writer' = [writer EXCEPT ![w].pc = "read"] /\ UNCHANGED <<row, last, lock>>
      BY <1>4 DEF N!Lock
    <2>2. /\ writer' \in [N!Writers -> Task] /\ writer'[w].pc = "read"
          /\ writer'[w].note = writer[w].note
          /\ \A v \in N!Writers \ {w} : writer'[v] = writer[v]
      BY <2>1, ZenonT(60) DEF NotesTyped
    <2>3. NotesTyped'
      BY <2>1, <2>2 DEF NotesTyped
    <2>4. NotesHeld'
      BY <2>1, <2>2 DEF NotesHeld
    <2> QED BY <2>1, <2>3, <2>4
  <1>5. ASSUME NEW w \in N!Writers, N!Read(w) PROVE NotesInv'
    <2>1. writer[w].pc = "read" /\ UNCHANGED <<row, last>> /\ writer[w].note \in Notes
      BY <1>5 DEF N!Read, NotesTyped
    <2>2. CASE row[writer[w].note] = None
      <3>1. writer' = [writer EXCEPT ![w] = [writer[w] EXCEPT !.pc = "over"]] /\ N!Release
        BY <1>5, <2>2 DEF N!Read
      <3>2. [writer[w] EXCEPT !.pc = "over"] \in
              [pc : {"over"}, note : Notes \cup {None}, names : SUBSET N!Fields,
               read : N!Rows \cup {None}, tries : Nat]
        BY <2>1 DEF NotesTyped
      <3>3. [writer[w] EXCEPT !.pc = "over"].pc = "over"
        BY <3>2
      <3>4. row' = last' /\ row' \in [Notes -> N!Rows \cup {None}]
        BY <2>1 DEF NotesTyped
      <3> HIDE DEF NotesInv
      <3> QED BY <2>1, <3>1, <3>2, <3>3, <3>4, Releases
    <2>3. CASE row[writer[w].note] # None
      <3>1. /\ writer' = [writer EXCEPT ![w].pc = "write", ![w].read = row[writer[w].note]]
            /\ UNCHANGED lock
        BY <1>5, <2>3 DEF N!Read
      <3>2. /\ writer' \in [N!Writers -> Task] /\ writer'[w].pc = "write"
            /\ writer'[w].note = writer[w].note /\ writer'[w].read = row[writer[w].note]
            /\ \A v \in N!Writers \ {w} : writer'[v] = writer[v]
        BY <2>1, <3>1, ZenonT(60) DEF NotesTyped
      <3>3. NotesTyped'
        BY <2>1, <3>1, <3>2 DEF NotesTyped
      <3>4. NotesHeld'
        BY <2>1, <2>3, <3>1, <3>2 DEF NotesHeld
      <3> QED BY <2>1, <3>3, <3>4
    <2> QED BY <2>2, <2>3
  <1>6. ASSUME NEW w \in N!Writers, N!Write(w) PROVE NotesInv'
    <2>1. /\ writer[w].pc = "write" /\ N!Release /\ writer[w].note \in Notes
          /\ writer' = [writer EXCEPT ![w] = [N!Idle EXCEPT !.pc = "over"]]
      BY <1>6 DEF N!Write, NotesTyped
    <2>2. /\ writer[w].read = row[writer[w].note] /\ writer[w].read # None
          /\ writer[w].read \in N!Rows
      BY <2>1 DEF NotesHeld, NotesTyped
    <2>3. N!Written(w) = N!Named(w)
      BY <2>2 DEF N!Written, N!Named
    <2>4. /\ row' = [row EXCEPT ![writer[w].note] = N!Written(w)]
          /\ last' = [last EXCEPT ![writer[w].note] = N!Named(w)]
      BY <1>6, <2>2 DEF N!Write
    <2>5. N!Written(w) \in N!Rows
      BY <2>2 DEF N!Written, N!Rows, N!Values
    <2>6. row' = last' /\ row' \in [Notes -> N!Rows \cup {None}]
      BY <2>1, <2>3, <2>4, <2>5 DEF NotesTyped
    <2>7. /\ [N!Idle EXCEPT !.pc = "over"] \in
               [pc : {"over"}, note : Notes \cup {None}, names : SUBSET N!Fields,
                read : N!Rows \cup {None}, tries : Nat]
          /\ [N!Idle EXCEPT !.pc = "over"].pc = "over"
      BY DEF N!Idle
    <2> HIDE DEF NotesInv
    <2> QED BY <2>1, <2>6, <2>7, Releases
  <1>7. ASSUME NEW n \in Notes, N!Delete(n) PROVE NotesInv'
    <2>1. /\ lock = <<>> /\ UNCHANGED <<writer, lock>>
          /\ row' = [row EXCEPT ![n] = None] /\ last' = [last EXCEPT ![n] = None]
      BY <1>7 DEF N!Delete
    <2>2. \A w \in N!Writers : writer[w].pc \notin {"lock", "read", "write"}
      BY <2>1 DEF NotesHeld
    <2> QED BY <2>1, <2>2 DEF NotesTyped, NotesHeld
  <1>8. CASE N!Shutdown
    <2>1. /\ \A e \in Editors : writer[N!Edit(e)].pc \in {"idle", "over"}
          /\ writer' = [w \in N!Writers |-> IF w \in N!Tasks /\ writer[w].pc # "idle"
                                          THEN [N!Idle EXCEPT !.pc = "over"] ELSE writer[w]]
          /\ lock' = <<>> /\ UNCHANGED <<row, last>>
      BY <1>8 DEF N!Shutdown
    <2>2. ASSUME NEW w \in N!Writers
          PROVE  writer'[w] \in Task /\ writer'[w].pc \in {"idle", "over"}
      <3>1. CASE w \in N!Tasks
        BY <2>1, <3>1 DEF NotesTyped, N!Idle
      <3>2. CASE w \notin N!Tasks
        BY <2>1, <3>2 DEF NotesTyped, N!Writers
      <3> QED BY <3>1, <3>2
    <2>3. writer' \in [N!Writers -> Task]
      BY <2>1, <2>2
    <2>4. NotesTyped'
      <3>1. lock' \in Seq(N!Writers) /\ row' \in [Notes -> N!Rows \cup {None}]
        BY <2>1 DEF NotesTyped
      <3> QED BY <2>2, <2>3, <3>1 DEF NotesTyped
    <2>5. NotesHeld'
      BY <2>2 DEF NotesHeld
    <2> QED BY <2>1, <2>4, <2>5
  <1>9. CASE UNCHANGED N!vars
    BY <1>9 DEF N!vars, NotesTyped, NotesHeld
  <1> QED BY <1>1, <1>2, <1>3, <1>4, <1>5, <1>6, <1>7, <1>8, <1>9 DEF N!Next

-----------------------------------------------------------------------------
(* Memory.                                                                 *)

Loose == [facts : SUBSET Facts, vec : SUBSET Facts, docs : SUBSET Docs,
          chunks : [Docs -> Nat]]

MemoryTyped ==
    /\ work \in Loose /\ saved \in Loose
    /\ task \in [F!Items -> {"none", "embed", "vec", "commit", "over"}]
    /\ told \subseteq F!Items

\* A fact or a document is in the tables, with all of its chunks.
Whole(x, tables) ==
    /\ x \in tables.facts \cup tables.docs
    /\ x \in Docs => tables.chunks[x] = NumChunks

\* No chunk is there without its document.
NoStray(tables) == \A d \in Docs : tables.chunks[d] > 0 => d \in tables.docs

\* What is about to be answered is whole where the next commit finds it; what was
\* answered is whole there too, so that it stays so when someone else commits.
Kept ==
    /\ \A x \in told : task[x] = "over"
    /\ \A x \in told \ deleted : Whole(x, work) /\ Whole(x, saved)
    /\ \A x \in F!Items \ deleted : task[x] = "commit" => Whole(x, work)
    /\ \A f \in Facts \ deleted : task[f] = "vec" => f \in work.facts
    /\ NoStray(work) /\ NoStray(saved)

MemoryInv == MemoryTyped /\ Kept

-----------------------------------------------------------------------------

LEMMA MemoryInit == ASSUME F!ConstantsAssumption, F!Init PROVE MemoryInv
  <1> USE DEF MemoryInv
  <1>1. MemoryTyped
    BY DEF F!Init, MemoryTyped, Loose, F!Empty
  <1>2. Kept
    BY DEF F!Init, Kept, F!Empty, NoStray, F!Items
  <1> QED BY <1>1, <1>2

LEMMA MemoryNext ==
    ASSUME F!ConstantsAssumption, MemoryInv, [F!Next]_F!vars
    PROVE  MemoryInv'
  <1> USE DEF MemoryInv, F!ConstantsAssumption
  <1>1. ASSUME NEW f \in Facts, F!StoreFact(f) PROVE MemoryInv'
    <2>1. f \in F!Items /\ task[f] = "none" /\ task' = [task EXCEPT ![f] = "embed"]
          /\ UNCHANGED <<work, saved, told, deleted>>
      BY <1>1 DEF F!StoreFact, F!Goto, F!Items
    <2> QED BY <2>1 DEF MemoryTyped, Loose, Kept, Whole, NoStray
  <1>2. ASSUME NEW f \in Facts, F!InsertFact(f) PROVE MemoryInv'
    <2>1. /\ f \in F!Items /\ task[f] = "embed" /\ f \notin Docs
          /\ work' = [work EXCEPT !.facts = @ \cup {f}]
          /\ task' = [task EXCEPT ![f] = "vec"] \/ task' = [task EXCEPT ![f] = "commit"]
          /\ saved' \in {saved, work'} /\ UNCHANGED <<told, deleted>>
      BY <1>2 DEF F!InsertFact, F!Goto, F!Items
    <2>2. MemoryTyped'
      BY <2>1 DEF MemoryTyped, Loose
    <2>3. /\ work'.facts = work.facts \cup {f} /\ work'.docs = work.docs
          /\ work'.chunks = work.chunks
      BY <2>1 DEF MemoryTyped, Loose
    <2>4. Kept'
      BY <2>1, <2>3 DEF MemoryTyped, Loose, Kept, Whole, NoStray, F!Items
    <2> QED BY <2>2, <2>4
  <1>3. ASSUME NEW f \in Facts, F!InsertVec(f) PROVE MemoryInv'
    <2>1. /\ f \in F!Items /\ task[f] = "vec" /\ task' = [task EXCEPT ![f] = "commit"]
          /\ work' = [work EXCEPT !.vec = @ \cup {f}] \/ work' = work
          /\ UNCHANGED <<saved, told, deleted>> /\ f \notin Docs
      BY <1>3 DEF F!InsertVec, F!Goto, F!Items
    <2>2. MemoryTyped'
      BY <2>1 DEF MemoryTyped, Loose
    <2>3. /\ work'.facts = work.facts /\ work'.docs = work.docs
          /\ work'.chunks = work.chunks
      BY <2>1 DEF MemoryTyped, Loose
    <2>4. Kept'
      BY <2>1, <2>3 DEF MemoryTyped, Loose, Kept, Whole, NoStray, F!Items
    <2> QED BY <2>2, <2>4
  <1>4. ASSUME NEW f \in Facts, F!DeleteFact(f) PROVE MemoryInv'
    <2>1. /\ deleted' = deleted \cup {f} /\ f \notin Docs /\ saved' = work'
          /\ work' = [work EXCEPT !.facts = @ \ {f},
                                  !.vec = IF useVec THEN @ \ {f} ELSE @]
          /\ UNCHANGED <<task, told>>
      BY <1>4 DEF F!DeleteFact
    <2>2. MemoryTyped'
      <3>1. work' \in Loose
        BY <2>1 DEF MemoryTyped, Loose
      <3> QED BY <2>1, <3>1 DEF MemoryTyped
    <2>3. /\ work'.facts = work.facts \ {f} /\ work'.docs = work.docs
          /\ work'.chunks = work.chunks
      BY <2>1 DEF MemoryTyped, Loose
    <2>4. Kept'
      BY <2>1, <2>3 DEF MemoryTyped, Loose, Kept, Whole, NoStray, F!Items
    <2> QED BY <2>2, <2>4
  <1>5. ASSUME NEW d \in Docs, F!Ingest(d) PROVE MemoryInv'
    <2>1. /\ d \in F!Items /\ task[d] = "none" /\ task' = [task EXCEPT ![d] = "embed"]
          /\ work' = [work EXCEPT !.docs = @ \cup {d}] /\ UNCHANGED <<saved, told, deleted>>
      BY <1>5 DEF F!Ingest, F!Goto, F!Items
    <2>2. MemoryTyped'
      BY <2>1 DEF MemoryTyped, Loose
    <2>3. /\ work'.facts = work.facts /\ work'.docs = work.docs \cup {d}
          /\ work'.chunks = work.chunks
      BY <2>1 DEF MemoryTyped, Loose
    <2>4. Kept'
      BY <2>1, <2>3 DEF MemoryTyped, Loose, Kept, Whole, NoStray, F!Items
    <2> QED BY <2>2, <2>4
  <1>6. ASSUME NEW d \in Docs, F!Chunk(d) PROVE MemoryInv'
    <2>1. d \in F!Items /\ task[d] = "embed" /\ UNCHANGED <<saved, told, deleted>>
      BY <1>6 DEF F!Chunk, F!Items
    <2>2. CASE d \in work.docs
      <3>1. /\ work' = [work EXCEPT !.chunks[d] = @ + 1]
            /\ task' = [task EXCEPT ![d] = IF work.chunks[d] + 1 = NumChunks
                                           THEN "commit" ELSE "embed"]
        BY <1>6, <2>2 DEF F!Chunk, F!Goto
      <3>2. MemoryTyped'
        BY <2>1, <3>1 DEF MemoryTyped, Loose
      <3>3. /\ work'.facts = work.facts /\ work'.docs = work.docs
            /\ work'.chunks = [work.chunks EXCEPT ![d] = @ + 1]
        BY <3>1 DEF MemoryTyped, Loose
      <3>4. d \notin told
        BY <2>1 DEF Kept
      <3>5. Kept'
        BY <2>1, <2>2, <3>1, <3>3, <3>4 DEF MemoryTyped, Loose, Kept, Whole, NoStray
      <3> QED BY <3>2, <3>5
    <2>3. CASE d \notin work.docs
      <3>1. work' = work /\ task' = [task EXCEPT ![d] = "over"]
        BY <1>6, <2>3 DEF F!Chunk, F!Goto
      <3> QED BY <2>1, <3>1 DEF MemoryTyped, Loose, Kept, Whole, NoStray
    <2> QED BY <2>2, <2>3
  <1>7. ASSUME NEW d \in Docs, F!DeleteDoc(d) PROVE MemoryInv'
    <2>1. /\ deleted' = deleted \cup {d} /\ saved' = work' /\ d \notin Facts
          /\ work' = [work EXCEPT !.docs = @ \ {d}, !.chunks[d] = 0]
          /\ UNCHANGED <<task, told>>
      BY <1>7 DEF F!DeleteDoc
    <2>2. MemoryTyped'
      <3>1. work' \in Loose
        BY <2>1 DEF MemoryTyped, Loose
      <3> QED BY <2>1, <3>1 DEF MemoryTyped
    <2>3. /\ work'.facts = work.facts /\ work'.docs = work.docs \ {d}
          /\ work'.chunks = [work.chunks EXCEPT ![d] = 0]
      BY <2>1 DEF MemoryTyped, Loose
    <2>4. Kept'
      BY <2>1, <2>3 DEF MemoryTyped, Loose, Kept, Whole, NoStray, F!Items
    <2> QED BY <2>2, <2>4
  <1>8. ASSUME NEW x \in F!Items, F!Done(x) PROVE MemoryInv'
    <2>1. /\ task[x] = "commit" /\ task' = [task EXCEPT ![x] = "over"]
          /\ saved' = work /\ told' = told \cup {x} /\ UNCHANGED <<work, deleted>>
      BY <1>8 DEF F!Done, F!Goto
    <2> QED BY <2>1 DEF MemoryTyped, Loose, Kept, Whole, NoStray, F!Items
  <1>9. ASSUME NEW x \in F!Items, F!Fail(x) PROVE MemoryInv'
    <2>1. /\ task[x] # "over" /\ task' = [task EXCEPT ![x] = "over"]
          /\ UNCHANGED <<work, saved, told, deleted>>
      BY <1>9 DEF F!Fail, F!Goto
    <2> QED BY <2>1 DEF MemoryTyped, Loose, Kept, Whole, NoStray, F!Items
  <1>10. CASE F!Commit
    BY <1>10 DEF F!Commit, MemoryTyped, Kept, Whole, NoStray
  <1>11. CASE F!Crash
    <2>1. /\ work' = saved /\ UNCHANGED <<saved, told, deleted>>
          /\ task' = [x \in F!Items |-> IF task[x] = "none" THEN "none" ELSE "over"]
      BY <1>11 DEF F!Crash
    <2> QED BY <2>1 DEF MemoryTyped, Loose, Kept, Whole, NoStray, F!Items
  <1>12. CASE UNCHANGED F!vars
    BY <1>12 DEF F!vars, MemoryTyped, Kept, Whole, NoStray
  <1> QED BY <1>1, <1>2, <1>3, <1>4, <1>5, <1>6, <1>7, <1>8, <1>9, <1>10, <1>11, <1>12
          DEF F!Next

-----------------------------------------------------------------------------
(* Accounts.                                                               *)

\* An entry of a task of the integrations.
Entry == [pc : {"idle", "exchange", "name", "save", "refresh", "send", "revoke"},
         inst : I!Instances, asked : I!Names \cup {None}, flow : Flows \cup {None},
         name : I!Names \cup {None}, tok : I!Tokens \cup {None},
         then : {"connect", "use", "default", "over", None}, first : BOOLEAN,
         clash : BOOLEAN, todo : SUBSET I!Names]

AccountsTyped ==
    /\ mem \in [I!Instances -> [I!Names -> I!Tokens \cup {None}]]
    /\ default \in [I!Instances -> I!Names \cup {None}]
    /\ disk \in [I!Names -> Accounts \cup {None, Torn}]
    /\ flow \in [Flows -> [by : Accounts \cup {None}, spent : BOOLEAN,
                           told : {"none", "connecting", "error", "connected", "unknown"}]]
    /\ call \in [Callers -> Entry]

\* Nobody consents before the flow is begun, and who consents is one account.
Begun == \A f \in Flows : flow[f].told = "none" <=> flow[f].by = None

\* A flow that a request works for is begun.
ForFlow(entry) ==
    entry.pc \in {"exchange", "name"} \/ (entry.pc = "save" /\ entry.then = "connect")
        => entry.flow \in Flows /\ flow[entry.flow].by \in Accounts

\* The tokens a request is about to keep are those of the account it keeps them for.
OwnTask(entry) ==
    /\ ForFlow(entry)
    /\ entry.pc = "name" => entry.tok \in I!Tokens /\ entry.tok.of = flow[entry.flow].by
    /\ entry.pc \in {"save", "refresh"} =>
         entry.name \in I!Names /\ entry.tok \in I!Tokens /\ entry.tok.of = I!Owner(entry.name)

Calls == \A h \in Callers : OwnTask(call[h])

AccountsInv == AccountsTyped /\ Begun /\ Calls /\ I!OwnTokens

-----------------------------------------------------------------------------
(* Steps that the actions share.                                           *)

LEMMA IdleOwn == I!Idle \in Entry /\ OwnTask(I!Idle)
  BY DEF I!Idle, Entry, I!Instances, OwnTask, ForFlow

\* A step that changes the tasks only, each to one that keeps its own tokens.
LEMMA TaskStep ==
    ASSUME AccountsInv, UNCHANGED <<mem, disk, flow>>, call' \in [Callers -> Entry],
           default' \in [I!Instances -> I!Names \cup {None}],
           \A h \in Callers : OwnTask(call'[h])
    PROVE  AccountsInv'
  BY DEF AccountsInv, AccountsTyped, Begun, Calls, OwnTask, ForFlow, I!OwnTokens, I!Owner

\* save: the caller gets the task, others at most the mark of a clash.
LEMMA Saves ==
    ASSUME AccountsInv, NEW h \in Callers, NEW entry \in Entry, I!Save(h, entry),
           OwnTask([entry EXCEPT !.pc = "save"])
    PROVE  call' \in [Callers -> Entry] /\ \A g \in Callers : OwnTask(call'[g])
  <1> DEFINE same == {g \in Callers \ {h} : call[g].pc = "save" /\ call[g].name = entry.name}
             at(g) == IF g = h THEN [entry EXCEPT !.pc = "save", !.clash = same # {}]
                      ELSE IF g \in same THEN [call[g] EXCEPT !.clash = TRUE] ELSE call[g]
  <1>1. call' = [g \in Callers |-> at(g)]
    BY DEF I!Save
  <1>2. ASSUME NEW g \in Callers PROVE at(g) \in Entry /\ OwnTask(at(g))
    <2>1. CASE g = h
      <3>1. at(g) = [entry EXCEPT !.pc = "save", !.clash = same # {}]
        BY <2>1
      <3>2. (same # {}) \in BOOLEAN
        OBVIOUS
      <3> HIDE DEF same, at
      <3> QED BY <3>1, <3>2 DEF Entry, OwnTask, ForFlow
    <2>2. CASE g # h
      <3>1. call[g] \in Entry /\ OwnTask(call[g])
        BY DEF AccountsInv, AccountsTyped, Calls
      <3>2. at(g) \in {call[g], [call[g] EXCEPT !.clash = TRUE]}
        BY <2>2
      <3> HIDE DEF at
      <3> QED BY <3>1, <3>2 DEF Entry, OwnTask, ForFlow
    <2> QED BY <2>1, <2>2
  <1> HIDE DEF at
  <1> QED BY <1>1, <1>2

\* _get_access_token takes the target's tokens with the target's name.
LEMMA Gets ==
    ASSUME AccountsInv, NEW h \in Callers, NEW entry \in Entry,
           NEW accounts \in [I!Names -> I!Tokens \cup {None}],
           \A n \in I!Names : accounts[n] # None => accounts[n].of = I!Owner(n),
           NEW target, I!Get(h, entry, accounts, target)
    PROVE  call' \in [Callers -> Entry] /\ \A g \in Callers : OwnTask(call'[g])
  <1>1. call \in [Callers -> Entry] /\ \A g \in Callers : OwnTask(call[g])
    BY DEF AccountsInv, AccountsTyped, Calls
  <1>2. CASE target = None \/ target \notin I!Held(accounts)
    <2>1. call' = [call EXCEPT ![h] = I!Idle]
      BY <1>2 DEF I!Get, I!End
    <2> QED BY <1>1, <2>1, IdleOwn
  <1>3. CASE ~(target = None \/ target \notin I!Held(accounts))
    <2> DEFINE new == [entry EXCEPT !.pc = IF accounts[target].fresh THEN "send" ELSE "refresh",
                                   !.name = target, !.tok = accounts[target]]
    <2>1. call' = [call EXCEPT ![h] = new]
      BY <1>3 DEF I!Get
    <2>2. target \in I!Names /\ accounts[target] \in I!Tokens
      BY <1>3 DEF I!Held
    <2>3. new \in Entry /\ new.pc \in {"send", "refresh"} /\ new.name = target
          /\ new.tok = accounts[target]
      BY <2>2 DEF Entry
    <2>4. accounts[target].of = I!Owner(target)
      BY <1>3 DEF I!Held
    <2>5. OwnTask(new)
      BY <2>2, <2>3, <2>4 DEF OwnTask, ForFlow
    <2> HIDE DEF new
    <2> QED BY <1>1, <2>1, <2>3, <2>5
  <1> QED BY <1>2, <1>3

\* A flow that fails keeps who consents; no task or token is about its end.
LEMMA Fails ==
    ASSUME AccountsInv, NEW f \in Flows, I!Failed(f), flow[f].told # "none",
           UNCHANGED <<mem, default, disk, call>>
    PROVE  AccountsInv'
  <1>1. /\ flow' \in [Flows -> [by : Accounts \cup {None}, spent : BOOLEAN,
                       told : {"none", "connecting", "error", "connected", "unknown"}]]
        /\ \A g \in Flows : flow'[g].by = flow[g].by
                         /\ (flow'[g].told = "none" <=> flow[g].told = "none")
    BY DEF I!Failed, AccountsInv, AccountsTyped
  <1> QED BY <1>1 DEF AccountsInv, AccountsTyped, Begun, Calls, OwnTask, ForFlow, I!OwnTokens, I!Owner

-----------------------------------------------------------------------------

LEMMA AccountsInit == ASSUME I!DistinctAssumption, I!Init PROVE AccountsInv
  <1>1. AccountsTyped
    <2>1. \A h \in Callers : call[h] \in Entry
      BY IdleOwn DEF I!Init
    <2>2. PICK some \in SUBSET Accounts :
            disk = [n \in I!Names |-> IF n \in some THEN n ELSE None]
      BY DEF I!Init
    <2> QED BY <2>1, <2>2 DEF I!Init, AccountsTyped, I!NoTokens, I!Names
  <1>2. Begun
    BY DEF I!Init, Begun
  <1>3. Calls
    BY IdleOwn DEF I!Init, Calls
  <1>4. I!OwnTokens
    <2>1. PICK some \in SUBSET Accounts :
            disk = [n \in I!Names |-> IF n \in some THEN n ELSE None]
      BY DEF I!Init
    <2> QED BY <2>1 DEF I!Init, I!OwnTokens, I!NoTokens, I!DistinctAssumption, I!Owner, I!Names, I!Instances
  <1> QED BY <1>1, <1>2, <1>3, <1>4 DEF AccountsInv

\* The accounts are read from the files; tokens expire; a flow is begun.
LEMMA LoadIInv ==
    ASSUME I!DistinctAssumption, AccountsInv, NEW i \in I!Instances, I!Load(i)
    PROVE  AccountsInv'
  <1> DEFINE found == [n \in I!Names |-> IF disk[n] \in Accounts
                                       THEN [of |-> disk[n], fresh |-> TRUE] ELSE None]
  <1>1. /\ mem' = [mem EXCEPT ![i] = found] /\ UNCHANGED <<disk, flow, call>>
        /\ \E n \in IF I!Held(found) = {} THEN {None} ELSE I!Held(found) :
             default' = [default EXCEPT ![i] = n]
    BY DEF I!Load
  <1>2. /\ found \in [I!Names -> I!Tokens \cup {None}]
        /\ \A n \in I!Names : found[n] # None => found[n].of = I!Owner(n)
    BY DEF I!Tokens, AccountsInv, I!OwnTokens, I!DistinctAssumption
  <1> HIDE DEF found
  <1>3. mem' \in [I!Instances -> [I!Names -> I!Tokens \cup {None}]]
    BY <1>1, <1>2 DEF AccountsInv, AccountsTyped
  <1>4. default' \in [I!Instances -> I!Names \cup {None}]
    BY <1>1 DEF AccountsInv, AccountsTyped, I!Held
  <1>5. I!OwnTokens'
    BY <1>1, <1>2 DEF AccountsInv, AccountsTyped, I!OwnTokens, I!Owner
  <1> QED BY <1>1, <1>3, <1>4, <1>5 DEF AccountsInv, AccountsTyped, Begun, Calls, OwnTask, ForFlow, I!Owner

\* Other tokens of the same accounts.
LEMMA MemStep ==
    ASSUME AccountsInv, UNCHANGED <<default, disk, flow>>, call' \in [Callers -> Entry],
           mem' \in [I!Instances -> [I!Names -> I!Tokens \cup {None}]],
           \A j \in I!Instances, n \in I!Names : mem'[j][n] # None => mem'[j][n].of = I!Owner(n),
           \A h \in Callers : OwnTask(call'[h])
    PROVE  AccountsInv'
  BY DEF AccountsInv, AccountsTyped, Begun, Calls, OwnTask, ForFlow, I!OwnTokens, I!Owner

\* Tokens expire.
LEMMA Stale ==
    ASSUME AccountsInv, NEW i \in I!Instances, NEW n \in I!Names, mem[i][n] # None
    PROVE  /\ [mem[i] EXCEPT ![n].fresh = FALSE] \in [I!Names -> I!Tokens \cup {None}]
           /\ \A m \in I!Names : [mem[i] EXCEPT ![n].fresh = FALSE][m] # None =>
                [mem[i] EXCEPT ![n].fresh = FALSE][m].of = I!Owner(m)
  <1>1. mem[i] \in [I!Names -> I!Tokens \cup {None}] /\ mem[i][n] \in I!Tokens
    BY DEF AccountsInv, AccountsTyped
  <1>2. \A m \in I!Names : mem[i][m] # None => mem[i][m].of = I!Owner(m)
    BY DEF AccountsInv, I!OwnTokens
  <1> QED BY <1>1, <1>2 DEF I!Tokens

LEMMA ExpireIInv ==
    ASSUME AccountsInv, NEW i \in I!Instances, NEW n \in I!Names, I!Expire(i, n)
    PROVE  AccountsInv'
  <1>1. /\ mem[i][n] # None /\ UNCHANGED <<default, disk, flow, call>>
        /\ mem' = [mem EXCEPT ![i] = [mem[i] EXCEPT ![n].fresh = FALSE]]
    BY DEF I!Expire
  <1> DEFINE aged == [mem[i] EXCEPT ![n].fresh = FALSE]
  <1>2. /\ aged \in [I!Names -> I!Tokens \cup {None}]
        /\ \A m \in I!Names : aged[m] # None => aged[m].of = I!Owner(m)
    BY <1>1, Stale
  <1>3. mem' = [mem EXCEPT ![i] = aged]
    BY <1>1
  <1> HIDE DEF aged
  <1>4. /\ mem' \in [I!Instances -> [I!Names -> I!Tokens \cup {None}]]
        /\ \A j \in I!Instances, m \in I!Names : mem'[j][m] # None => mem'[j][m].of = I!Owner(m)
    BY <1>2, <1>3 DEF AccountsInv, AccountsTyped, I!OwnTokens
  <1>5. call' \in [Callers -> Entry] /\ \A h \in Callers : OwnTask(call'[h])
    BY <1>1 DEF AccountsInv, AccountsTyped, Calls
  <1> QED BY <1>1, <1>4, <1>5, MemStep

\* Who begins a flow owns what will be kept under its placeholder, where nothing is
\* kept yet.
LEMMA StartConnectIInv ==
    ASSUME I!DistinctAssumption, AccountsInv, NEW f \in Flows, I!StartConnect(f)
    PROVE  AccountsInv'
  <1>1. PICK a \in Accounts :
          flow' = [flow EXCEPT ![f] = [@ EXCEPT !.by = a, !.told = "connecting"]]
    BY DEF I!StartConnect
  <1>2. flow[f].told = "none" /\ flow[f].by = None /\ UNCHANGED <<mem, default, disk, call>>
    BY DEF I!StartConnect, AccountsInv, Begun
  <1>3. /\ flow' \in [Flows -> [by : Accounts \cup {None}, spent : BOOLEAN,
                       told : {"none", "connecting", "error", "connected", "unknown"}]]
        /\ flow'[f].by = a /\ flow'[f].told = "connecting"
        /\ \A g \in Flows \ {f} : flow'[g] = flow[g]
    BY <1>1 DEF AccountsInv, AccountsTyped
  <1>4. \A n \in I!Names \ {f} : I!Owner(n)' = I!Owner(n)
    BY <1>3 DEF I!Owner
  <1>5. I!Owner(f) = None /\ None \notin Accounts
    BY <1>2 DEF I!Owner, I!DistinctAssumption
  <1>6. I!OwnTokens'
    <2>1. \A i \in I!Instances : mem[i][f] = None
      BY <1>5 DEF AccountsInv, AccountsTyped, I!OwnTokens, I!Tokens, I!Names
    <2>2. disk[f] \in {None, Torn}
      BY <1>5 DEF AccountsInv, I!OwnTokens, I!Names
    <2> QED BY <1>2, <1>4, <2>1, <2>2 DEF AccountsInv, I!OwnTokens
  <1>7. ASSUME NEW h \in Callers PROVE OwnTask(call[h])'
    <2>1. call'[h] = call[h] /\ OwnTask(call[h]) /\ call[h] \in Entry
      BY <1>2 DEF AccountsInv, Calls, AccountsTyped
    <2>2. ForFlow(call[h])'
      BY <1>2, <1>3, <2>1 DEF OwnTask, ForFlow
    <2>3. call[h].pc = "name" => call[h].flow # f
      BY <1>2, <1>5, <2>1 DEF OwnTask, ForFlow
    <2>4. call[h].pc \in {"save", "refresh"} => call[h].name # f
      BY <1>5, <2>1 DEF OwnTask, I!Tokens
    <2>5. call[h].pc = "name" => call[h].flow \in Flows
      BY <2>1 DEF OwnTask, ForFlow
    <2> QED BY <1>2, <1>3, <1>4, <2>1, <2>2, <2>3, <2>4, <2>5 DEF OwnTask
  <1>8. Begun'
    BY <1>3, <1>5 DEF AccountsInv, Begun
  <1> QED BY <1>2, <1>3, <1>6, <1>7, <1>8 DEF AccountsInv, AccountsTyped, Calls

-----------------------------------------------------------------------------
(* Connecting.                                                             *)

LEMMA PollIInv ==
    ASSUME AccountsInv, NEW f \in Flows, I!Poll(f) PROVE AccountsInv'
  <1>1. /\ I!Failed(f) /\ flow[f].told # "none"
        /\ UNCHANGED <<mem, default, disk, call>>
    BY DEF I!Poll
  <1> QED BY <1>1, Fails

\* One task changes to one that keeps its own tokens; the flows may fail as well.
LEMMA OneTask ==
    ASSUME AccountsInv, NEW h \in Callers, NEW entry \in Entry, OwnTask(entry),
           call' = [call EXCEPT ![h] = entry]
    PROVE  call' \in [Callers -> Entry] /\ \A g \in Callers : OwnTask(call'[g])
  BY DEF AccountsInv, AccountsTyped, Calls

\* Flows change, but not who consents.
LEMMA FlowStep ==
    ASSUME AccountsInv, UNCHANGED <<mem, default, disk>>, call' \in [Callers -> Entry],
           \A h \in Callers : OwnTask(call'[h]),
           flow' \in [Flows -> [by : Accounts \cup {None}, spent : BOOLEAN,
                       told : {"none", "connecting", "error", "connected", "unknown"}]],
           \A f \in Flows : flow'[f].by = flow[f].by
                          /\ (flow'[f].told = "none" <=> flow[f].told = "none")
    PROVE  AccountsInv'
  BY DEF AccountsInv, AccountsTyped, Begun, Calls, OwnTask, ForFlow, I!OwnTokens, I!Owner

LEMMA FailedFlows ==
    ASSUME AccountsInv, NEW f \in Flows, flow[f].told # "none", I!Failed(f)
    PROVE  /\ flow' \in [Flows -> [by : Accounts \cup {None}, spent : BOOLEAN,
                         told : {"none", "connecting", "error", "connected", "unknown"}]]
           /\ \A g \in Flows : flow'[g].by = flow[g].by
                            /\ (flow'[g].told = "none" <=> flow[g].told = "none")
  BY DEF I!Failed, AccountsInv, AccountsTyped

LEMMA CallbackIInv ==
    ASSUME I!DistinctAssumption, AccountsInv, NEW h \in Callers, NEW f \in Flows, I!Callback(h, f)
    PROVE  AccountsInv'
  <1>1. flow[f].told # "none" /\ UNCHANGED <<mem, default, disk>>
    BY DEF I!Callback
  <1>2. CASE I!Failed(f) /\ UNCHANGED call
    BY <1>1, <1>2, Fails
  <1>3. CASE call' = [call EXCEPT ![h] = [I!Idle EXCEPT !.pc = "exchange", !.flow = f]]
             /\ UNCHANGED flow
    <2> DEFINE entry == [I!Idle EXCEPT !.pc = "exchange", !.flow = f]
    <2>1. entry \in Entry /\ entry.pc = "exchange" /\ entry.flow = f
      BY IdleOwn DEF I!Idle, Entry
    <2>2. flow[f].by \in Accounts
      BY <1>1 DEF AccountsInv, AccountsTyped, Begun
    <2>3. OwnTask(entry)
      BY <2>1, <2>2 DEF OwnTask, ForFlow
    <2> HIDE DEF entry
    <2>4. call' \in [Callers -> Entry] /\ \A g \in Callers : OwnTask(call'[g])
      BY <1>3, <2>1, <2>3, OneTask DEF entry
    <2>5. default' \in [I!Instances -> I!Names \cup {None}]
      BY <1>1 DEF AccountsInv, AccountsTyped
    <2> QED BY <1>1, <1>3, <2>4, <2>5, TaskStep
  <1> QED BY <1>2, <1>3 DEF I!Callback

LEMMA ExchangeIInv ==
    ASSUME I!DistinctAssumption, AccountsInv, NEW h \in Callers, I!Exchange(h) PROVE AccountsInv'
  <1> DEFINE f == call[h].flow
  <1>1. /\ call[h] \in Entry /\ call[h].pc = "exchange" /\ UNCHANGED <<mem, default, disk>>
        /\ f \in Flows /\ flow[f].by \in Accounts /\ flow[f].told # "none"
    <2>1. call[h] \in Entry /\ OwnTask(call[h]) /\ call[h].pc = "exchange"
      BY DEF I!Exchange, AccountsInv, AccountsTyped, Calls
    <2>2. f \in Flows /\ flow[f].by \in Accounts
      BY <2>1 DEF OwnTask, ForFlow
    <2>3. ASSUME flow[f].told = "none" PROVE flow[f].by = None
      BY <2>2, <2>3 DEF AccountsInv, Begun
    <2>4. UNCHANGED <<mem, default, disk>>
      BY DEF I!Exchange
    <2> QED BY <2>1, <2>2, <2>3, <2>4 DEF I!DistinctAssumption
  <1>2. CASE I!Failed(f) /\ I!End(h)
    <2>1. call' \in [Callers -> Entry] /\ \A g \in Callers : OwnTask(call'[g])
      BY <1>2, IdleOwn, OneTask DEF I!End
    <2> QED BY <1>1, <1>2, <2>1, FailedFlows, FlowStep
  <1>3. CASE /\ ~flow[f].spent /\ flow' = [flow EXCEPT ![f].spent = TRUE]
             /\ call' = [call EXCEPT ![h].pc = "name",
                                     ![h].tok = [of |-> flow[f].by, fresh |-> TRUE]]
    <2> DEFINE entry == [call[h] EXCEPT !.pc = "name",
                                       !.tok = [of |-> flow[f].by, fresh |-> TRUE]]
    <2>1. call' = [call EXCEPT ![h] = entry]
      BY <1>3 DEF AccountsInv, AccountsTyped
    <2>2. /\ entry \in Entry /\ entry.pc = "name" /\ entry.flow = f
          /\ entry.tok \in I!Tokens /\ entry.tok.of = flow[f].by
      BY <1>1 DEF Entry, I!Tokens
    <2>3. OwnTask(entry)
      BY <1>1, <2>2 DEF OwnTask, ForFlow
    <2> HIDE DEF entry
    <2>4. call' \in [Callers -> Entry] /\ \A g \in Callers : OwnTask(call'[g])
      BY <2>1, <2>2, <2>3, OneTask
    <2>5. /\ flow' \in [Flows -> [by : Accounts \cup {None}, spent : BOOLEAN,
                         told : {"none", "connecting", "error", "connected", "unknown"}]]
          /\ \A g \in Flows : flow'[g].by = flow[g].by
                           /\ (flow'[g].told = "none" <=> flow[g].told = "none")
      BY <1>1, <1>3 DEF AccountsInv, AccountsTyped
    <2> QED BY <1>1, <2>4, <2>5, FlowStep
  <1> QED BY <1>2, <1>3 DEF I!Exchange

LEMMA NameIInv ==
    ASSUME I!DistinctAssumption, AccountsInv, NEW h \in Callers, I!Name(h) PROVE AccountsInv'
  <1>1. /\ call[h] \in Entry /\ OwnTask(call[h]) /\ call[h].pc = "name"
        /\ UNCHANGED <<mem, default, disk, flow>>
    BY DEF I!Name, AccountsInv, AccountsTyped, Calls
  <1>2. /\ call[h].flow \in Flows /\ flow[call[h].flow].by \in Accounts
        /\ call[h].tok \in I!Tokens /\ call[h].tok.of = flow[call[h].flow].by
    BY <1>1 DEF OwnTask, ForFlow
  <1>3. PICK n \in {call[h].tok.of, call[h].flow} :
          I!Save(h, [call[h] EXCEPT !.name = n, !.then = "connect",
                                  !.first = I!Held(mem["rest"]) = {}])
    BY DEF I!Name
  <1> DEFINE entry == [call[h] EXCEPT !.name = n, !.then = "connect",
                                     !.first = I!Held(mem["rest"]) = {}]
             kept == [entry EXCEPT !.pc = "save"]
  <1>4. n \in I!Names /\ I!Owner(n) = call[h].tok.of
    BY <1>2 DEF I!Names, I!Owner, I!DistinctAssumption
  <1>5. (I!Held(mem["rest"]) = {}) \in BOOLEAN
    OBVIOUS
  <1>6. entry \in Entry
    BY <1>1, <1>4, <1>5 DEF Entry
  <1>7. /\ kept.pc = "save" /\ kept.flow = call[h].flow /\ kept.name = n
        /\ kept.tok = call[h].tok
    BY <1>1 DEF Entry
  <1>8. OwnTask(kept)
    BY <1>2, <1>4, <1>7 DEF OwnTask, ForFlow
  <1>9. I!Save(h, entry)
    BY <1>3
  <1> HIDE DEF entry
  <1>10. call' \in [Callers -> Entry] /\ \A g \in Callers : OwnTask(call'[g])
    BY <1>6, <1>8, <1>9, Saves
  <1>11. default' \in [I!Instances -> I!Names \cup {None}]
    BY <1>1 DEF AccountsInv, AccountsTyped
  <1> QED BY <1>1, <1>10, <1>11, TaskStep

-----------------------------------------------------------------------------
(* Using.                                                                  *)

\* What an instance remembers.
LEMMA Remembered ==
    ASSUME AccountsInv, NEW i \in I!Instances
    PROVE  /\ mem[i] \in [I!Names -> I!Tokens \cup {None}]
           /\ \A n \in I!Names : mem[i][n] # None => mem[i][n].of = I!Owner(n)
  BY DEF AccountsInv, AccountsTyped, I!OwnTokens

LEMMA UseIInv ==
    ASSUME AccountsInv, NEW h \in Callers, NEW i \in I!Instances, NEW asked \in I!Names \cup {None},
           I!Use(h, i, asked)
    PROVE  AccountsInv'
  <1> DEFINE entry == [I!Idle EXCEPT !.inst = i, !.asked = asked]
  <1>1. entry \in Entry
    BY IdleOwn DEF I!Idle, Entry
  <1>2. /\ I!Get(h, entry, mem[i], I!Target(i, asked))
        /\ UNCHANGED <<mem, default, disk, flow>>
    BY DEF I!Use
  <1> HIDE DEF entry
  <1>3. call' \in [Callers -> Entry] /\ \A g \in Callers : OwnTask(call'[g])
    BY <1>1, <1>2, Remembered, Gets
  <1>4. default' \in [I!Instances -> I!Names \cup {None}]
    BY <1>2 DEF AccountsInv, AccountsTyped
  <1> QED BY <1>2, <1>3, <1>4, TaskStep

LEMMA RefreshedIInv ==
    ASSUME AccountsInv, NEW h \in Callers, I!Refreshed(h) PROVE AccountsInv'
  <1>1. /\ call[h] \in Entry /\ OwnTask(call[h]) /\ call[h].pc = "refresh"
        /\ UNCHANGED <<mem, default, disk, flow>>
    BY DEF I!Refreshed, AccountsInv, AccountsTyped, Calls
  <1>2. default' \in [I!Instances -> I!Names \cup {None}]
    BY <1>1 DEF AccountsInv, AccountsTyped
  <1>3. CASE I!End(h)
    <2>1. call' \in [Callers -> Entry] /\ \A g \in Callers : OwnTask(call'[g])
      BY <1>3, IdleOwn, OneTask DEF I!End
    <2> QED BY <1>1, <1>2, <2>1, TaskStep
  <1>4. CASE I!Save(h, [call[h] EXCEPT !.tok.fresh = TRUE, !.then = "use"])
    <2> DEFINE entry == [call[h] EXCEPT !.tok.fresh = TRUE, !.then = "use"]
               kept == [entry EXCEPT !.pc = "save"]
    <2>1. /\ call[h].name \in I!Names /\ call[h].tok \in I!Tokens
          /\ call[h].tok.of = I!Owner(call[h].name)
      BY <1>1 DEF OwnTask
    <2>2. entry \in Entry
      BY <1>1, <2>1 DEF Entry, I!Tokens
    <2>3. /\ kept.pc = "save" /\ kept.then = "use" /\ kept.name = call[h].name
          /\ kept.tok \in I!Tokens /\ kept.tok.of = call[h].tok.of
      BY <1>1, <2>1 DEF Entry, I!Tokens
    <2>4. OwnTask(kept)
      BY <2>1, <2>3 DEF OwnTask, ForFlow
    <2>5. I!Save(h, entry)
      BY <1>4
    <2> HIDE DEF entry
    <2>6. call' \in [Callers -> Entry] /\ \A g \in Callers : OwnTask(call'[g])
      BY <2>2, <2>4, <2>5, Saves
    <2> QED BY <1>1, <1>2, <2>6, TaskStep
  <1> QED BY <1>3, <1>4 DEF I!Refreshed

LEMMA SendIInv ==
    ASSUME AccountsInv, NEW h \in Callers, I!Send(h) PROVE AccountsInv'
  <1>1. call[h] \in Entry /\ call[h].pc = "send" /\ UNCHANGED <<default, disk, flow>>
    BY DEF I!Send, AccountsInv, AccountsTyped
  <1>2. default' \in [I!Instances -> I!Names \cup {None}]
    BY <1>1 DEF AccountsInv, AccountsTyped
  <1>3. CASE I!End(h) /\ UNCHANGED mem
    <2>1. call' \in [Callers -> Entry] /\ \A g \in Callers : OwnTask(call'[g])
      BY <1>3, IdleOwn, OneTask DEF I!End
    <2> QED BY <1>1, <1>2, <1>3, <2>1, TaskStep
  <1>4. CASE ~(I!End(h) /\ UNCHANGED mem)
    <2> DEFINE i == call[h].inst
               n == I!Target(i, call[h].asked)
               expired == IF call[h].name \in I!Held(mem[i])
                          THEN [mem[i] EXCEPT ![call[h].name].fresh = FALSE] ELSE mem[i]
               entry == [call[h] EXCEPT !.first = TRUE]
    <2>1. mem' = [mem EXCEPT ![i] = expired] /\ I!Get(h, entry, expired, n)
      BY <1>4 DEF I!Send
    <2>2. i \in I!Instances /\ entry \in Entry
      BY <1>1 DEF Entry
    <2>3. /\ expired \in [I!Names -> I!Tokens \cup {None}]
          /\ \A m \in I!Names : expired[m] # None => expired[m].of = I!Owner(m)
      <3>1. CASE call[h].name \in I!Held(mem[i])
        <4>1. call[h].name \in I!Names /\ mem[i][call[h].name] # None
          BY <3>1 DEF I!Held
        <4> QED BY <3>1, <4>1, <2>2, Stale
      <3>2. CASE call[h].name \notin I!Held(mem[i])
        BY <3>2, <2>2, Remembered
      <3> QED BY <3>1, <3>2
    <2> HIDE DEF expired, i, n, entry
    <2>4. call' \in [Callers -> Entry] /\ \A g \in Callers : OwnTask(call'[g])
      BY <2>1, <2>2, <2>3, Gets
    <2>5. /\ mem' \in [I!Instances -> [I!Names -> I!Tokens \cup {None}]]
          /\ \A j \in I!Instances, m \in I!Names : mem'[j][m] # None => mem'[j][m].of = I!Owner(m)
      BY <2>1, <2>2, <2>3 DEF AccountsInv, AccountsTyped, I!OwnTokens
    <2> QED BY <1>1, <2>4, <2>5, MemStep
  <1> QED BY <1>3, <1>4

-----------------------------------------------------------------------------
(* Disconnecting, and the default.                                         *)

LEMMA DropIInv ==
    ASSUME AccountsInv, NEW h \in Callers, NEW names \in SUBSET I!Names, I!Drop(h, names)
    PROVE  AccountsInv'
  <1> DEFINE entry == [I!Idle EXCEPT !.pc = "revoke", !.todo = names]
  <1>1. entry \in Entry /\ entry.pc = "revoke"
    BY IdleOwn DEF I!Idle, Entry
  <1>2. OwnTask(entry)
    BY <1>1 DEF OwnTask, ForFlow
  <1>3. call' = [call EXCEPT ![h] = entry] /\ UNCHANGED <<mem, default, disk, flow>>
    BY DEF I!Drop
  <1> HIDE DEF entry
  <1>4. call' \in [Callers -> Entry] /\ \A g \in Callers : OwnTask(call'[g])
    BY <1>1, <1>2, <1>3, OneTask
  <1>5. default' \in [I!Instances -> I!Names \cup {None}]
    BY <1>3 DEF AccountsInv, AccountsTyped
  <1> QED BY <1>3, <1>4, <1>5, TaskStep

\* A save that keeps tokens the REST instance has.
LEMMA KeepsOwn ==
    ASSUME AccountsInv, NEW h \in Callers, NEW entry \in Entry, entry.name \in I!Names,
           entry.tok \in I!Tokens, entry.tok.of = I!Owner(entry.name),
           entry.then \in {"default", "over"}, I!Save(h, entry)
    PROVE  call' \in [Callers -> Entry] /\ \A g \in Callers : OwnTask(call'[g])
  <1> DEFINE kept == [entry EXCEPT !.pc = "save"]
  <1>1. /\ kept.pc = "save" /\ kept.then = entry.then /\ kept.name = entry.name
        /\ kept.tok = entry.tok
    BY DEF Entry
  <1>2. OwnTask(kept)
    BY <1>1 DEF OwnTask, ForFlow
  <1> QED BY <1>2, Saves

\* A change that takes files and tokens away, or replaces none.
LEMMA LessStep ==
    ASSUME AccountsInv, UNCHANGED flow, call' \in [Callers -> Entry],
           \A h \in Callers : OwnTask(call'[h]),
           default' \in [I!Instances -> I!Names \cup {None}],
           NEW n \in I!Names, disk' = [disk EXCEPT ![n] = None],
           mem' = [mem EXCEPT !["rest"] = [mem["rest"] EXCEPT ![n] = None]]
    PROVE  AccountsInv'
  <1>1. AccountsTyped'
    BY DEF AccountsInv, AccountsTyped, I!Instances
  <1>2. I!OwnTokens'
    BY DEF AccountsInv, AccountsTyped, I!OwnTokens, I!Owner, I!Instances
  <1> QED BY <1>1, <1>2 DEF AccountsInv, Begun, Calls, OwnTask, ForFlow, I!Owner

LEMMA RevokedIInv ==
    ASSUME AccountsInv, NEW h \in Callers, I!Revoked(h) PROVE AccountsInv'
  <1>1. call[h] \in Entry /\ call[h].pc = "revoke" /\ UNCHANGED flow
    BY DEF I!Revoked, AccountsInv, AccountsTyped
  <1>2. PICK n \in call[h].todo : LET left == [mem["rest"] EXCEPT ![n] = None] IN
       /\ disk' = [disk EXCEPT ![n] = None] /\ mem' = [mem EXCEPT !["rest"] = left]
       /\ IF call[h].todo # {n}
          THEN call' = [call EXCEPT ![h].todo = @ \ {n}] /\ UNCHANGED default
          ELSE IF default["rest"] \in I!Held(left) \/ I!Held(left) = {}
          THEN /\ I!End(h)
               /\ default' = [default EXCEPT !["rest"] = IF I!Held(left) = {} THEN None ELSE @]
          ELSE \E d \in I!Held(left) :
               /\ default' = [default EXCEPT !["rest"] = d]
               /\ I!Save(h, [call[h] EXCEPT !.name = d, !.tok = left[d], !.then = "over"])
    BY DEF I!Revoked
  <1> DEFINE left == [mem["rest"] EXCEPT ![n] = None]
  <1>3. n \in I!Names /\ default \in [I!Instances -> I!Names \cup {None}]
        /\ call \in [Callers -> Entry] /\ "rest" \in I!Instances
    BY <1>1 DEF Entry, AccountsInv, AccountsTyped, I!Instances
  <1>4. /\ left \in [I!Names -> I!Tokens \cup {None}]
        /\ \A m \in I!Names : left[m] # None => left[m].of = I!Owner(m)
    BY <1>3, Remembered
  <1>5. CASE call[h].todo # {n}
    <2> DEFINE entry == [call[h] EXCEPT !.todo = @ \ {n}]
    <2>1. call' = [call EXCEPT ![h] = entry] /\ UNCHANGED default
      BY <1>2, <1>3, <1>5
    <2>2. entry \in Entry /\ entry.pc = "revoke"
      BY <1>1 DEF Entry
    <2>3. OwnTask(entry)
      BY <2>2 DEF OwnTask, ForFlow
    <2> HIDE DEF entry
    <2>4. call' \in [Callers -> Entry] /\ \A g \in Callers : OwnTask(call'[g])
      BY <2>1, <2>2, <2>3, OneTask
    <2> QED BY <1>1, <1>2, <1>3, <2>1, <2>4, LessStep
  <1>6. CASE call[h].todo = {n} /\ (default["rest"] \in I!Held(left) \/ I!Held(left) = {})
    <2>1. /\ I!End(h)
          /\ default' = [default EXCEPT !["rest"] = IF I!Held(left) = {} THEN None ELSE @]
      BY <1>2, <1>6
    <2>2. default' \in [I!Instances -> I!Names \cup {None}]
      BY <1>3, <2>1
    <2>3. call' \in [Callers -> Entry] /\ \A g \in Callers : OwnTask(call'[g])
      BY <2>1, IdleOwn, OneTask DEF I!End
    <2> QED BY <1>1, <1>2, <1>3, <2>2, <2>3, LessStep
  <1>7. CASE call[h].todo = {n} /\ ~(default["rest"] \in I!Held(left) \/ I!Held(left) = {})
    <2>1. PICK d \in I!Held(left) :
            /\ default' = [default EXCEPT !["rest"] = d]
            /\ I!Save(h, [call[h] EXCEPT !.name = d, !.tok = left[d], !.then = "over"])
      BY <1>2, <1>7
    <2>2. d \in I!Names /\ left[d] \in I!Tokens /\ left[d].of = I!Owner(d)
      BY <1>4, <2>1 DEF I!Held
    <2> DEFINE entry == [call[h] EXCEPT !.name = d, !.tok = left[d], !.then = "over"]
    <2>3. entry \in Entry /\ entry.name = d /\ entry.tok = left[d] /\ entry.then = "over"
      BY <1>1, <2>2 DEF Entry
    <2>4. I!Save(h, entry)
      BY <2>1
    <2> HIDE DEF left, entry
    <2>5. call' \in [Callers -> Entry] /\ \A g \in Callers : OwnTask(call'[g])
      BY <2>2, <2>3, <2>4, KeepsOwn
    <2>6. default' \in [I!Instances -> I!Names \cup {None}]
      BY <1>3, <2>1, <2>2
    <2> QED BY <1>1, <1>2, <1>3, <2>5, <2>6, LessStep
  <1> QED BY <1>5, <1>6, <1>7

LEMMA SetDefaultIInv ==
    ASSUME AccountsInv, NEW h \in Callers, NEW n \in I!Held(mem["rest"]), I!SetDefault(h, n)
    PROVE  AccountsInv'
  <1>1. "rest" \in I!Instances
    BY DEF I!Instances
  <1>2. ASSUME NEW m \in I!Held(mem["rest"])
        PROVE  m \in I!Names /\ mem["rest"][m] \in I!Tokens /\ mem["rest"][m].of = I!Owner(m)
    BY <1>1, Remembered DEF I!Held
  <1>3. /\ default' = [default EXCEPT !["rest"] = n] /\ UNCHANGED <<mem, disk, flow>>
        /\ default \in [I!Instances -> I!Names \cup {None}]
    BY DEF I!SetDefault, AccountsInv, AccountsTyped
  <1>4. default' \in [I!Instances -> I!Names \cup {None}]
    BY <1>2, <1>3
  <1> DEFINE old == default["rest"]
             both == [I!Idle EXCEPT !.name = old, !.tok = mem["rest"][old], !.then = "default",
                                  !.todo = {n}]
             one == [I!Idle EXCEPT !.name = n, !.tok = mem["rest"][n], !.then = "over"]
  <1>5. CASE old \in I!Held(mem["rest"]) \ {n}
    <2>1. I!Save(h, both)
      BY <1>5 DEF I!SetDefault
    <2>2. /\ both \in Entry /\ both.name = old /\ both.tok = mem["rest"][old]
          /\ both.then = "default"
      BY <1>2, <1>5, IdleOwn, ZenonT(60) DEF I!Idle, Entry
    <2>3. old \in I!Names /\ mem["rest"][old] \in I!Tokens /\ mem["rest"][old].of = I!Owner(old)
      BY <1>2, <1>5
    <2> HIDE DEF both, old
    <2>4. call' \in [Callers -> Entry] /\ \A g \in Callers : OwnTask(call'[g])
      BY <2>1, <2>2, <2>3, KeepsOwn
    <2> QED BY <1>3, <1>4, <2>4, TaskStep
  <1>6. CASE old \notin I!Held(mem["rest"]) \ {n}
    <2>1. I!Save(h, one)
      BY <1>6 DEF I!SetDefault
    <2>2. one \in Entry /\ one.name = n /\ one.tok = mem["rest"][n] /\ one.then = "over"
      BY <1>2, IdleOwn DEF I!Idle, Entry
    <2> HIDE DEF one
    <2>3. call' \in [Callers -> Entry] /\ \A g \in Callers : OwnTask(call'[g])
      BY <1>2, <2>1, <2>2, KeepsOwn
    <2> QED BY <1>3, <1>4, <2>3, TaskStep
  <1> QED BY <1>5, <1>6

-----------------------------------------------------------------------------
(* The end of a save.                                                      *)

\* What Saved and Then do to the files and to the memory.
LEMMA SavedOwn ==
    ASSUME I!DistinctAssumption, AccountsInv, NEW h \in Callers, I!Saved(h)
    PROVE  /\ call[h] \in Entry /\ call[h].pc = "save" /\ call[h].name \in I!Names
           /\ call[h].tok \in I!Tokens /\ call[h].tok.of = I!Owner(call[h].name)
           /\ disk' \in [I!Names -> Accounts \cup {None, Torn}]
           /\ \A n \in I!Names : disk'[n] \in {None, Torn, I!Owner(n)}
  <1>1. call[h] \in Entry /\ OwnTask(call[h]) /\ call[h].pc = "save"
    BY DEF I!Saved, AccountsInv, AccountsTyped, Calls
  <1>2. /\ call[h].name \in I!Names /\ call[h].tok \in I!Tokens
        /\ call[h].tok.of = I!Owner(call[h].name)
    BY <1>1 DEF OwnTask
  <1>3. PICK content \in {call[h].tok.of, Torn} : disk' = [disk EXCEPT ![call[h].name] = content]
    BY DEF I!Saved
  <1>4. content \in Accounts \cup {Torn}
    BY <1>2, <1>3 DEF I!Tokens
  <1> QED BY <1>1, <1>2, <1>3, <1>4 DEF AccountsInv, AccountsTyped, I!OwnTokens

\* New tokens of the same accounts, in the memory and in the files; flows move on.
LEMMA WholeStep ==
    ASSUME AccountsInv, call' \in [Callers -> Entry], \A h \in Callers : OwnTask(call'[h]),
           default' \in [I!Instances -> I!Names \cup {None}],
           disk' \in [I!Names -> Accounts \cup {None, Torn}],
           \A n \in I!Names : disk'[n] \in {None, Torn, I!Owner(n)},
           mem' \in [I!Instances -> [I!Names -> I!Tokens \cup {None}]],
           \A j \in I!Instances, m \in I!Names : mem'[j][m] # None => mem'[j][m].of = I!Owner(m),
           flow' \in [Flows -> [by : Accounts \cup {None}, spent : BOOLEAN,
                       told : {"none", "connecting", "error", "connected", "unknown"}]],
           \A f \in Flows : flow'[f].by = flow[f].by
                          /\ (flow'[f].told = "none" <=> flow[f].told = "none")
    PROVE  AccountsInv'
  <1>1. \A n \in I!Names : I!Owner(n)' = I!Owner(n)
    BY DEF I!Owner
  <1>2. I!OwnTokens'
    BY <1>1 DEF I!OwnTokens
  <1>3. ASSUME NEW h \in Callers PROVE OwnTask(call[h])'
    BY <1>1 DEF OwnTask, ForFlow
  <1> QED BY <1>2, <1>3 DEF AccountsInv, AccountsTyped, Begun, Calls

LEMMA SavedIInv ==
    ASSUME I!DistinctAssumption, AccountsInv, NEW h \in Callers, I!Saved(h) PROVE AccountsInv'
  <1> DEFINE c == call[h]
             after == [mem EXCEPT ![c.inst][c.name] = c.tok]
  <1>1. /\ c \in Entry /\ c.pc = "save" /\ c.name \in I!Names
        /\ c.tok \in I!Tokens /\ c.tok.of = I!Owner(c.name)
        /\ disk' \in [I!Names -> Accounts \cup {None, Torn}]
        /\ \A n \in I!Names : disk'[n] \in {None, Torn, I!Owner(n)}
    BY SavedOwn
  <1>2. OwnTask(c) /\ I!Then(h)
    BY DEF I!Saved, AccountsInv, Calls
  <1>3. /\ default \in [I!Instances -> I!Names \cup {None}]
        /\ mem \in [I!Instances -> [I!Names -> I!Tokens \cup {None}]]
        /\ \A j \in I!Instances, m \in I!Names : mem[j][m] # None => mem[j][m].of = I!Owner(m)
        /\ flow \in [Flows -> [by : Accounts \cup {None}, spent : BOOLEAN,
                       told : {"none", "connecting", "error", "connected", "unknown"}]]
        /\ c.inst \in I!Instances /\ "rest" \in I!Instances
        /\ call \in [Callers -> Entry]
    BY <1>1 DEF AccountsInv, AccountsTyped, I!OwnTokens, Entry, I!Instances
  <1>4. /\ after \in [I!Instances -> [I!Names -> I!Tokens \cup {None}]]
        /\ \A j \in I!Instances, m \in I!Names : after[j][m] # None => after[j][m].of = I!Owner(m)
    BY <1>1, <1>3
  <1>5. CASE c.then = "connect"
    <2>1. /\ mem' = after /\ I!End(h)
          /\ default' = [default EXCEPT !["rest"] = IF c.first \/ @ = None THEN c.name ELSE @]
          /\ flow' = [flow EXCEPT ![c.flow].told = "connected"]
      BY <1>2, <1>5 DEF I!Then
    <2>2. c.flow \in Flows /\ flow[c.flow].told # "none"
      BY <1>1, <1>2, <1>5 DEF OwnTask, ForFlow, AccountsInv, Begun, I!DistinctAssumption
    <2>3. /\ flow' \in [Flows -> [by : Accounts \cup {None}, spent : BOOLEAN,
                         told : {"none", "connecting", "error", "connected", "unknown"}]]
          /\ \A f \in Flows : flow'[f].by = flow[f].by
                           /\ (flow'[f].told = "none" <=> flow[f].told = "none")
      BY <1>3, <2>1, <2>2
    <2>4. default' \in [I!Instances -> I!Names \cup {None}]
      BY <1>1, <1>3, <2>1
    <2>5. call' \in [Callers -> Entry] /\ \A g \in Callers : OwnTask(call'[g])
      BY <2>1, IdleOwn, OneTask DEF I!End
    <2> HIDE DEF c, after
    <2> QED BY <1>1, <1>4, <2>1, <2>3, <2>4, <2>5, WholeStep
  <1>6. CASE c.then = "use"
    <2> DEFINE n == I!Target(c.inst, c.asked)
               entry == [c EXCEPT !.pc = "send", !.name = n]
    <2>1. /\ mem' = after /\ UNCHANGED <<default, flow>>
          /\ call' = [call EXCEPT ![h].pc = "send", ![h].name = n]
      BY <1>2, <1>6 DEF I!Then
    <2>2. n \in I!Names \cup {None}
      BY <1>1, <1>3 DEF I!Target, Entry
    <2>3. call' = [call EXCEPT ![h] = entry]
      BY <1>3, <2>1
    <2>4. entry \in Entry /\ entry.pc = "send"
      BY <1>1, <2>2 DEF Entry
    <2>5. OwnTask(entry)
      BY <2>4 DEF OwnTask, ForFlow
    <2> HIDE DEF entry, n
    <2>6. call' \in [Callers -> Entry] /\ \A g \in Callers : OwnTask(call'[g])
      BY <2>3, <2>4, <2>5, OneTask
    <2> HIDE DEF c, after
    <2> QED BY <1>1, <1>3, <1>4, <2>1, <2>6, WholeStep
  <1>7. CASE c.then = "default"
    <2>1. /\ UNCHANGED <<mem, default, flow>>
          /\ \E n \in c.todo :
              IF n \in I!Held(mem["rest"])
              THEN I!Save(h, [c EXCEPT !.name = n, !.tok = mem["rest"][n], !.then = "over"])
              ELSE I!End(h)
      BY <1>2, <1>7 DEF I!Then
    <2>2. call' \in [Callers -> Entry] /\ \A g \in Callers : OwnTask(call'[g])
      <3>1. CASE I!End(h)
        BY <3>1, IdleOwn, OneTask DEF I!End
      <3>2. ASSUME NEW n \in I!Held(mem["rest"]),
                   I!Save(h, [c EXCEPT !.name = n, !.tok = mem["rest"][n], !.then = "over"])
            PROVE  call' \in [Callers -> Entry] /\ \A g \in Callers : OwnTask(call'[g])
        <4> DEFINE entry == [c EXCEPT !.name = n, !.tok = mem["rest"][n], !.then = "over"]
        <4>1. n \in I!Names /\ mem["rest"][n] \in I!Tokens /\ mem["rest"][n].of = I!Owner(n)
          BY <1>3 DEF I!Held
        <4>2. entry \in Entry /\ entry.name = n /\ entry.tok = mem["rest"][n] /\ entry.then = "over"
          BY <1>1, <4>1 DEF Entry
        <4>3. I!Save(h, entry)
          BY <3>2
        <4> HIDE DEF entry
        <4> QED BY <4>1, <4>2, <4>3, KeepsOwn
      <3> QED BY <2>1, <3>1, <3>2
    <2> HIDE DEF c, after
    <2> QED BY <1>1, <1>3, <2>1, <2>2, WholeStep
  <1>8. CASE c.then \notin {"connect", "use", "default"}
    <2>1. I!End(h) /\ UNCHANGED <<mem, default, flow>>
      BY <1>2, <1>8 DEF I!Then
    <2>2. call' \in [Callers -> Entry] /\ \A g \in Callers : OwnTask(call'[g])
      BY <2>1, IdleOwn, OneTask DEF I!End
    <2> HIDE DEF c, after
    <2> QED BY <1>1, <1>3, <2>1, <2>2, WholeStep
  <1> QED BY <1>5, <1>6, <1>7, <1>8

LEMMA SaveFailedIInv ==
    ASSUME AccountsInv, NEW h \in Callers, I!SaveFailed(h) PROVE AccountsInv'
  <1>1. call' \in [Callers -> Entry] /\ \A g \in Callers : OwnTask(call'[g])
    BY IdleOwn, OneTask DEF I!SaveFailed, I!End
  <1>2. default' \in [I!Instances -> I!Names \cup {None}] /\ UNCHANGED <<mem, disk, flow>>
    BY DEF I!SaveFailed, AccountsInv, AccountsTyped
  <1> QED BY <1>1, <1>2, TaskStep

LEMMA RestartIInv ==
    ASSUME AccountsInv, I!Restart PROVE AccountsInv'
  <1>1. call' \in [Callers -> Entry] /\ \A g \in Callers : OwnTask(call'[g])
    BY IdleOwn DEF I!Restart
  <1>2. /\ default' \in [I!Instances -> I!Names \cup {None}] /\ disk' = disk
        /\ mem' = [i \in I!Instances |-> I!NoTokens]
    BY DEF I!Restart
  <1>3. /\ mem' \in [I!Instances -> [I!Names -> I!Tokens \cup {None}]]
        /\ \A j \in I!Instances, m \in I!Names : mem'[j][m] # None => mem'[j][m].of = I!Owner(m)
    BY <1>2 DEF I!NoTokens
  <1>4. /\ flow' \in [Flows -> [by : Accounts \cup {None}, spent : BOOLEAN,
                       told : {"none", "connecting", "error", "connected", "unknown"}]]
        /\ \A f \in Flows : flow'[f].by = flow[f].by
                         /\ (flow'[f].told = "none" <=> flow[f].told = "none")
    BY DEF I!Restart, AccountsInv, AccountsTyped
  <1>5. /\ disk' \in [I!Names -> Accounts \cup {None, Torn}]
        /\ \A n \in I!Names : disk'[n] \in {None, Torn, I!Owner(n)}
    BY <1>2 DEF AccountsInv, AccountsTyped, I!OwnTokens
  <1> QED BY <1>1, <1>2, <1>3, <1>4, <1>5, WholeStep

-----------------------------------------------------------------------------

LEMMA AccountsNext ==
    ASSUME I!DistinctAssumption, AccountsInv, [I!Next]_I!vars PROVE AccountsInv'
  <1>1. CASE UNCHANGED I!vars
    BY <1>1 DEF I!vars, AccountsInv, AccountsTyped, Begun, Calls, OwnTask, ForFlow, I!OwnTokens, I!Owner
  <1>2. ASSUME NEW h \in Callers, I!CallStep(h) PROVE AccountsInv'
    <2>1. I!Held(mem["rest"]) \subseteq I!Names
      BY DEF I!Held
    <2>2. ASSUME NEW n \in I!Held(mem["rest"]), I!Drop(h, {n}) PROVE AccountsInv'
      BY <2>1, <2>2, DropIInv
    <2>3. ASSUME I!Drop(h, I!Held(mem["rest"])) PROVE AccountsInv'
      BY <2>1, <2>3, DropIInv
    <2> QED BY <1>2, <2>2, <2>3, CallbackIInv, UseIInv, SetDefaultIInv, ExchangeIInv, NameIInv,
         RefreshedIInv, SendIInv, RevokedIInv, SavedIInv, SaveFailedIInv DEF I!CallStep
  <1> QED BY <1>1, <1>2, LoadIInv, ExpireIInv, StartConnectIInv, PollIInv, RestartIInv DEF I!Next

-----------------------------------------------------------------------------
(* The archive of coredumps.                                               *)

File == [at : Nat, dump : Dumps, sha : Dumps \cup {None}]
Result == [ok : BOOLEAN, present : BOOLEAN, path : Nat \cup {None}, sha : Dumps \cup {None},
           deduped : BOOLEAN]

Scrape ==
    [pc : {"idle", "probe", "pull", "archive", "mark", "symbolicate", "log", "done"},
     body : Dumps \cup {None}, result : Result]

DumpsTyped ==
    /\ flash \in [Targets -> Dumps \cup {None}]
    /\ archive \in [Targets -> SUBSET File]
    /\ \A t \in Targets : IsFiniteSet(archive[t])
    /\ scrape \in [Targets -> Scrape]
    /\ results \in [Targets -> Result \cup {None}]
    /\ sweep \in [pc : {"run", "sleep", "down"}, since : Nat]
    /\ clock \in Nat /\ cut \in [Targets -> Nat]

\* A sweep that has not written yet is in a later second than every file.
Timed(t) ==
    /\ \A f \in archive[t] : f.at <= clock
    /\ sweep.pc # "run" => /\ scrape[t].pc = "idle"
                           /\ \A f \in archive[t] : f.at <= sweep.since
    /\ scrape[t].pc \in {"probe", "pull", "archive"} =>
         \A f \in archive[t] : f.at < sweep.since

\* A file is known by its second, and a content by its sidecar.
Sidecars(t) ==
    /\ \A f, g \in archive[t] : f.at = g.at => f = g
    /\ \A f \in archive[t] : f.sha # None => f.sha = f.dump
    /\ \A f, g \in archive[t] : f.sha = g.sha /\ f.sha # None => f = g

\* Between the two writes the new file is the only one of its content that could
\* get a sidecar.
Marking(t) ==
    /\ scrape[t].pc = "archive" => scrape[t].body \in Dumps
    /\ scrape[t].pc = "mark" =>
         /\ scrape[t].body \in Dumps /\ scrape[t].result.sha = scrape[t].body
         /\ C!Archived(t, scrape[t].body) = {}
         /\ [at |-> clock, dump |-> scrape[t].body, sha |-> None] \in archive[t]

InArchive(t, path, sha) == [at |-> path, dump |-> sha, sha |-> sha] \in archive[t]

\* What a scrape has for its result, the last result and the rows are in the archive.
Shown(t) ==
    /\ scrape[t].pc \in {"idle", "probe", "pull", "archive", "mark"} =>
         scrape[t].result.path = None
    /\ scrape[t].pc \in {"symbolicate", "log"} \/ scrape[t].result.path # None =>
         InArchive(t, scrape[t].result.path, scrape[t].result.sha)
    /\ results[t] # None /\ results[t].path # None =>
         InArchive(t, results[t].path, results[t].sha)
    /\ \A e \in events : e.device = t => InArchive(t, e.path, e.sha)

\* The files whose sidecar was never written; each of them was cut off.
Bare(t) ==
    {f \in archive[t] : f.sha = None /\ ~(scrape[t].pc = "mark" /\ f.at = clock)}
CutOff(t) == Cardinality(Bare(t)) <= cut[t]

DumpsInv ==
    /\ DumpsTyped /\ sweep.since <= clock
    /\ \A t \in Targets : Timed(t) /\ Sidecars(t) /\ Marking(t) /\ Shown(t) /\ CutOff(t)

LEMMA DumpsInit == ASSUME C!DumpsAssumption, C!Init PROVE DumpsInv
  <1>1. [C!Idle EXCEPT !.pc = "probe"] = [pc |-> "probe", body |-> None, result |-> C!NoResult]
    BY DEF C!Idle
  <1>2. C!NoResult \in Result
    BY DEF C!NoResult, Result
  <1>3. DumpsTyped
    BY <1>1, <1>2, FS_EmptySet DEF C!Init, DumpsTyped, Scrape
  <1>4. \A t \in Targets : Bare(t) = {} /\ archive[t] = {} /\ results[t] = None /\ cut[t] = 0
           /\ scrape[t].pc = "probe" /\ scrape[t].result.path = None
    BY <1>1 DEF C!Init, Bare, C!NoResult
  <1>5. events = {} /\ sweep.pc = "run" /\ sweep.since = 0 /\ clock = 0
    BY DEF C!Init
  <1>6. \A t \in Targets : CutOff(t)
    BY <1>4, FS_EmptySet DEF CutOff
  <1>7. \A t \in Targets : Timed(t) /\ Sidecars(t) /\ Marking(t) /\ Shown(t)
    BY <1>4, <1>5 DEF Timed, Sidecars, Marking, Shown
  <1> QED
    BY <1>3, <1>5, <1>6, <1>7 DEF DumpsInv

\* The files of a target, of which a step changes nothing, stay well kept.
LEMMA Untouched ==
    ASSUME DumpsInv, DumpsTyped', NEW t \in Targets, archive'[t] = archive[t],
           clock' = clock, scrape'[t].pc = "mark" <=> scrape[t].pc = "mark", cut'[t] = cut[t]
    PROVE  Sidecars(t)' /\ CutOff(t)'
  <1>1. Bare(t)' = Bare(t)
    BY DEF Bare
  <1> QED
    BY <1>1 DEF DumpsInv, Sidecars, CutOff

\* A step of one target's scrape that leaves the disk alone.
LEMMA ScrapeStep ==
    ASSUME DumpsInv, DumpsTyped', NEW t \in Targets,
           \A u \in Targets \ {t} : scrape'[u] = scrape[u],
           scrape[t].pc \notin {"idle", "mark"}, scrape'[t].pc \notin {"idle", "mark"},
           scrape'[t].pc \in {"probe", "pull", "archive"} =>
             scrape[t].pc \in {"probe", "pull", "archive"},
           scrape'[t].pc \in {"probe", "pull", "archive"} =>
             scrape'[t].result.path = None,
           scrape'[t].pc = "archive" => scrape'[t].body \in Dumps,
           scrape'[t].pc \in {"symbolicate", "log"} \/ scrape'[t].result.path # None =>
             InArchive(t, scrape'[t].result.path, scrape'[t].result.sha),
           \A e \in events' \ events : e.device = t /\ InArchive(t, e.path, e.sha),
           UNCHANGED <<archive, results, sweep, clock, cut>>
    PROVE  DumpsInv'
  <1>1. sweep' = sweep /\ clock' = clock /\ archive' = archive /\ results' = results
        /\ cut' = cut
    OBVIOUS
  <1>2. ASSUME NEW u \in Targets
        PROVE Timed(u)' /\ Sidecars(u)' /\ Marking(u)' /\ Shown(u)' /\ CutOff(u)'
    <2>1. u # t => scrape'[u] = scrape[u]
      OBVIOUS
    <2>2. Sidecars(u)' /\ CutOff(u)'
      BY <2>1, <1>1, Untouched
    <2>3. Timed(u) /\ Marking(u) /\ Shown(u)
      BY DEF DumpsInv
    <2>4. Timed(u)'
      BY <1>1, <2>1, <2>3 DEF Timed
    <2>5. Marking(u)'
      BY <1>1, <2>1, <2>3 DEF Marking, C!Archived
    <2>6. Shown(u)'
      <3>1. \A e \in events' : e.device = u => InArchive(u, e.path, e.sha)
        BY <2>3 DEF Shown
      <3>2. \A path, sha : InArchive(u, path, sha)' <=> InArchive(u, path, sha)
        BY <1>1 DEF InArchive
      <3> QED
        BY <1>1, <2>1, <2>3, <3>1 DEF Shown, InArchive
    <2> QED
      BY <2>2, <2>4, <2>5, <2>6
  <1> QED
    BY <1>1, <1>2 DEF DumpsInv

LEMMA FlashInv == ASSUME DumpsInv, NEW t \in Targets, C!Flash(t) PROVE DumpsInv'
  <1>1. /\ archive' = archive /\ events' = events /\ scrape' = scrape /\ results' = results
        /\ sweep' = sweep /\ clock' = clock /\ cut' = cut
    BY DEF C!Flash
  <1>2. DumpsTyped'
    BY <1>1 DEF C!Flash, DumpsInv, DumpsTyped
  <1>3. \A u \in Targets : Sidecars(u)' /\ CutOff(u)'
    BY <1>1, <1>2, Untouched
  <1> QED
    BY <1>1, <1>2, <1>3 DEF DumpsInv, Timed, Marking, C!Archived, Shown, InArchive

LEMMA TickInv == ASSUME DumpsInv, C!Tick PROVE DumpsInv'
  <1>1. /\ archive' = archive /\ events' = events /\ scrape' = scrape /\ results' = results
        /\ sweep' = sweep /\ clock' = clock + 1 /\ cut' = cut /\ flash' = flash
    BY DEF C!Tick
  <1>2. DumpsTyped'
    BY <1>1 DEF DumpsInv, DumpsTyped, Scrape
  <1>3. \A t \in Targets : scrape[t].pc # "mark" /\ Bare(t)' = Bare(t)
    BY <1>1 DEF C!Tick, C!Writing, Bare
  <1>4. \A t \in Targets : CutOff(t)'
    BY <1>1, <1>3 DEF DumpsInv, CutOff
  <1>5. \A t \in Targets : Timed(t)'
    <2> SUFFICES ASSUME NEW t \in Targets PROVE Timed(t)'
      OBVIOUS
    <2>1. \A f \in archive[t] : f.at \in Nat
      BY DEF DumpsInv, DumpsTyped, File
    <2> QED
      BY <1>1, <2>1 DEF DumpsInv, DumpsTyped, Timed
  <1>6. \A t \in Targets : Sidecars(t)' /\ Marking(t)' /\ Shown(t)'
    BY <1>1, <1>3 DEF DumpsInv, Sidecars, Marking, C!Archived, Shown, InArchive
  <1>7. (sweep.since <= clock)'
    BY <1>1 DEF DumpsInv, DumpsTyped, Scrape
  <1> QED
    BY <1>2, <1>4, <1>5, <1>6, <1>7 DEF DumpsInv

LEMMA UnreachableInv == ASSUME DumpsInv, NEW t \in Targets, C!Unreachable(t) PROVE DumpsInv'
  <1>1. /\ scrape[t].pc \in {"probe", "pull"}
        /\ scrape' = [scrape EXCEPT ![t].pc = "done"]
        /\ UNCHANGED <<flash, archive, events, results, sweep, clock, cut>>
    BY DEF C!Unreachable, C!At, C!Go, C!Rest, C!Disk
  <1>2. DumpsTyped'
    BY <1>1 DEF DumpsInv, DumpsTyped, Scrape
  <1>3. scrape'[t] = [scrape[t] EXCEPT !.pc = "done"]
    BY <1>1 DEF DumpsInv, DumpsTyped, Scrape
  <1>4. \A u \in Targets \ {t} : scrape'[u] = scrape[u]
    BY <1>1 DEF DumpsInv, DumpsTyped, Scrape
  <1>5. scrape'[t].pc = "done" /\ scrape'[t].result = scrape[t].result
    BY <1>3 DEF DumpsInv, DumpsTyped, Scrape
  <1> QED
    BY <1>1, <1>2, <1>4, <1>5, ScrapeStep DEF DumpsInv, Shown

LEMMA ProbeInv == ASSUME DumpsInv, NEW t \in Targets, C!Probe(t) PROVE DumpsInv'
  <1>1. /\ scrape[t].pc = "probe" /\ scrape[t] \in Scrape
        /\ UNCHANGED <<flash, archive, events, results, sweep, clock, cut>>
    BY DEF C!Probe, C!At, C!Rest, C!Disk, DumpsInv, DumpsTyped
  <1>2. scrape'[t] = [scrape[t] EXCEPT !.result.ok = TRUE, !.result.present = flash[t] # None,
             !.pc = IF flash[t] # None THEN "pull" ELSE "done"]
        /\ \A u \in Targets \ {t} : scrape'[u] = scrape[u]
    BY DEF C!Probe, DumpsInv, DumpsTyped, Scrape
  <1>3. /\ scrape'[t].pc \in {"pull", "done"} /\ scrape'[t].body = scrape[t].body
        /\ scrape'[t].result = [scrape[t].result EXCEPT !.ok = TRUE,
                                  !.present = flash[t] # None]
    BY <1>1, <1>2 DEF Scrape, Result
  <1>4. /\ scrape'[t].result.path = scrape[t].result.path
        /\ scrape'[t].result.sha = scrape[t].result.sha
    BY <1>1, <1>3 DEF Scrape, Result
  <1>5. DumpsTyped'
    BY <1>1 DEF C!Probe, DumpsInv, DumpsTyped, Scrape, Result
  <1> QED
    BY <1>1, <1>2, <1>3, <1>4, <1>5, ScrapeStep DEF DumpsInv, Shown

LEMMA PullInv == ASSUME DumpsInv, NEW t \in Targets, C!Pull(t) PROVE DumpsInv'
  <1>1. /\ scrape[t].pc = "pull" /\ flash[t] \in Dumps
        /\ UNCHANGED <<flash, archive, events, results, sweep, clock, cut>>
    BY DEF C!Pull, C!At, C!Rest, C!Disk, DumpsInv, DumpsTyped
  <1>2. DumpsTyped'
    BY <1>1, ZenonT(60) DEF C!Pull, DumpsInv, DumpsTyped, Scrape
  <1>3. /\ scrape'[t].pc = "archive" /\ scrape'[t].body = flash[t]
        /\ scrape'[t].result = scrape[t].result
        /\ \A u \in Targets \ {t} : scrape'[u] = scrape[u]
    BY DEF C!Pull, DumpsInv, DumpsTyped, Scrape
  <1> QED
    BY <1>1, <1>2, <1>3, ScrapeStep DEF DumpsInv, Shown

LEMMA DedupeInv == ASSUME C!DumpsAssumption, DumpsInv, NEW t \in Targets, C!Dedupe(t) PROVE DumpsInv'
  <1>1. PICK f \in C!Archived(t, scrape[t].body) :
          scrape' = [scrape EXCEPT ![t].pc = "done", ![t].result.sha = f.sha,
                       ![t].result.path = f.at, ![t].result.deduped = TRUE]
    BY DEF C!Dedupe
  <1>2. /\ scrape[t].pc = "archive"
        /\ UNCHANGED <<flash, archive, events, results, sweep, clock, cut>>
    BY DEF C!Dedupe, C!At, C!Rest, C!Disk
  <1>3. f \in archive[t] /\ f \in File /\ f.sha = scrape[t].body /\ f.sha \in Dumps
        /\ f.dump = f.sha
    BY <1>2 DEF C!Archived, C!DumpsAssumption, DumpsInv, DumpsTyped, Marking, Sidecars
  <1>4. InArchive(t, f.at, f.sha)
    BY <1>3 DEF InArchive, File
  <1>5. DumpsTyped'
    <2>1. scrape[t] \in Scrape /\ scrape[t].result \in Result
      BY DEF DumpsInv, DumpsTyped, Scrape
    <2>2. [scrape[t].result EXCEPT !.sha = f.sha, !.path = f.at, !.deduped = TRUE] \in Result
      BY <2>1, <1>3 DEF Result, File
    <2>3. scrape' = [scrape EXCEPT ![t] = [scrape[t] EXCEPT !.pc = "done", !.result =
            [scrape[t].result EXCEPT !.sha = f.sha, !.path = f.at, !.deduped = TRUE]]]
      BY <1>1, <2>1, ZenonT(60) DEF DumpsInv, DumpsTyped, Scrape, Result
    <2>4. scrape' \in [Targets -> Scrape]
      BY <2>1, <2>2, <2>3 DEF DumpsInv, DumpsTyped, Scrape
    <2> QED
      BY <1>2, <2>4 DEF DumpsInv, DumpsTyped
  <1>6. /\ scrape'[t].pc = "done" /\ scrape'[t].result.path = f.at
        /\ scrape'[t].result.sha = f.sha
        /\ \A u \in Targets \ {t} : scrape'[u] = scrape[u]
    BY <1>1 DEF DumpsInv, DumpsTyped, Scrape, Result
  <1> QED
    BY <1>2, <1>4, <1>5, <1>6, ScrapeStep

LEMMA SaveFailsInv == ASSUME DumpsInv, NEW t \in Targets, C!SaveFails(t) PROVE DumpsInv'
  <1>1. /\ scrape[t].pc = "archive" /\ scrape[t].body \in Dumps
        /\ UNCHANGED <<flash, archive, events, results, sweep, clock, cut>>
    BY DEF C!SaveFails, C!At, C!Rest, C!Disk, DumpsInv, Marking
  <1>2. DumpsTyped'
    <2>1. scrape[t] \in Scrape /\ scrape[t].result \in Result
      BY DEF DumpsInv, DumpsTyped, Scrape
    <2>2. [scrape[t].result EXCEPT !.sha = scrape[t].body] \in Result
      BY <2>1, <1>1 DEF Result
    <2>3. scrape' = [scrape EXCEPT ![t] = [scrape[t] EXCEPT !.pc = "done", !.result =
            [scrape[t].result EXCEPT !.sha = scrape[t].body]]]
      BY <2>1 DEF C!SaveFails, DumpsInv, DumpsTyped, Scrape, Result
    <2>4. scrape' \in [Targets -> Scrape]
      BY <2>1, <2>2, <2>3 DEF DumpsInv, DumpsTyped, Scrape
    <2> QED
      BY <1>1, <2>4 DEF DumpsInv, DumpsTyped
  <1>3. /\ scrape'[t].pc = "done" /\ scrape'[t].result.path = scrape[t].result.path
        /\ scrape'[t].result.sha = scrape[t].body
        /\ \A u \in Targets \ {t} : scrape'[u] = scrape[u]
    BY DEF C!SaveFails, DumpsInv, DumpsTyped, Scrape, Result
  <1> QED
    BY <1>1, <1>2, <1>3, ScrapeStep DEF DumpsInv, Shown

LEMMA SymbolicateInv == ASSUME DumpsInv, NEW t \in Targets, C!Symbolicate(t) PROVE DumpsInv'
  <1>1. /\ scrape[t].pc = "symbolicate"
        /\ scrape' = [scrape EXCEPT ![t].pc = "log"] \/ scrape' = [scrape EXCEPT ![t].pc = "done"]
        /\ UNCHANGED <<flash, archive, events, results, sweep, clock, cut>>
    BY DEF C!Symbolicate, C!At, C!Go, C!Rest, C!Disk
  <1>2. DumpsTyped'
    BY <1>1 DEF DumpsInv, DumpsTyped, Scrape
  <1>3. /\ scrape'[t].pc \in {"log", "done"} /\ scrape'[t].result = scrape[t].result
        /\ \A u \in Targets \ {t} : scrape'[u] = scrape[u]
    BY <1>1 DEF DumpsInv, DumpsTyped, Scrape
  <1> QED
    BY <1>1, <1>2, <1>3, ScrapeStep DEF DumpsInv, Shown

LEMMA LogInv == ASSUME DumpsInv, NEW t \in Targets, C!Log(t) PROVE DumpsInv'
  <1>1. /\ scrape[t].pc = "log"
        /\ scrape' = [scrape EXCEPT ![t].pc = "done"]
        /\ UNCHANGED <<flash, archive, results, sweep, clock, cut>>
    BY DEF C!Log, C!At, C!Go, C!Rest
  <1>2. DumpsTyped'
    BY <1>1 DEF DumpsInv, DumpsTyped, Scrape
  <1>3. /\ scrape'[t].pc = "done" /\ scrape'[t].result = scrape[t].result
        /\ \A u \in Targets \ {t} : scrape'[u] = scrape[u]
    BY <1>1 DEF DumpsInv, DumpsTyped, Scrape
  <1>4. InArchive(t, scrape[t].result.path, scrape[t].result.sha)
    BY <1>1 DEF DumpsInv, Shown
  <1>5. \A e \in events' \ events : e.device = t /\ InArchive(t, e.path, e.sha)
    BY <1>4 DEF C!Log
  <1> QED
    BY <1>1, <1>2, <1>3, <1>4, <1>5, ScrapeStep

-----------------------------------------------------------------------------
(* The two writes of an archiving.                                         *)

LEMMA SaveInv == ASSUME C!DumpsAssumption, DumpsInv, NEW t \in Targets, C!Save(t) PROVE DumpsInv'
  <1> DEFINE new == [at |-> clock, dump |-> scrape[t].body, sha |-> None]
  <1>1. /\ scrape[t].pc = "archive" /\ scrape[t].body \in Dumps
        /\ C!Archived(t, scrape[t].body) = {}
        /\ UNCHANGED <<flash, events, results, sweep, clock, cut>>
    BY DEF C!Save, C!At, C!Rest, DumpsInv, Marking
  <1>2. /\ \A f \in archive[t] : f \in File /\ f.at < clock
        /\ scrape[t].result.path = None /\ sweep.pc = "run"
    BY <1>1 DEF DumpsInv, DumpsTyped, Timed, Shown, File
  <1>3. archive'[t] = archive[t] \cup {new} /\ \A u \in Targets \ {t} : archive'[u] = archive[u]
    <2>1. {f \in archive[t] : f.at # clock} = archive[t]
      BY <1>2 DEF File, DumpsInv, DumpsTyped
    <2> QED
      BY <2>1 DEF C!Save, DumpsInv, DumpsTyped
  <1>4. /\ scrape'[t].pc = "mark" /\ scrape'[t].body = scrape[t].body
        /\ scrape'[t].result.sha = scrape[t].body /\ scrape'[t].result.path = None
        /\ \A u \in Targets \ {t} : scrape'[u] = scrape[u]
    BY <1>2 DEF C!Save, DumpsInv, DumpsTyped, Scrape, Result
  <1>5. DumpsTyped'
    <2>1. scrape[t] \in Scrape /\ scrape[t].result \in Result
      BY DEF DumpsInv, DumpsTyped, Scrape
    <2>2. [scrape[t].result EXCEPT !.sha = scrape[t].body] \in Result
      BY <2>1, <1>1 DEF Result
    <2>3. scrape' = [scrape EXCEPT ![t] = [scrape[t] EXCEPT !.pc = "mark", !.result =
            [scrape[t].result EXCEPT !.sha = scrape[t].body]]]
      BY <2>1 DEF C!Save, DumpsInv, DumpsTyped, Scrape, Result
    <2>4. scrape' \in [Targets -> Scrape]
      BY <2>1, <2>2, <2>3 DEF DumpsInv, DumpsTyped, Scrape
    <2>5. new \in File
      BY <1>1 DEF File, DumpsInv, DumpsTyped
    <2>6. archive' \in [Targets -> SUBSET File]
      BY <1>3, <2>5 DEF C!Save, DumpsInv, DumpsTyped
    <2>7. \A u \in Targets : IsFiniteSet(archive'[u])
      <3>1. IsFiniteSet(archive[t] \cup {new})
        BY FS_AddElement DEF DumpsInv, DumpsTyped
      <3> QED
        BY <1>3, <3>1 DEF DumpsInv, DumpsTyped
    <2> QED
      BY <1>1, <2>4, <2>6, <2>7 DEF DumpsInv, DumpsTyped
  <1>6. ASSUME NEW u \in Targets
        PROVE Timed(u)' /\ Sidecars(u)' /\ Marking(u)' /\ Shown(u)' /\ CutOff(u)'
    <2>1. Timed(u) /\ Sidecars(u) /\ Marking(u) /\ Shown(u) /\ CutOff(u)
      BY DEF DumpsInv
    <2>2. CASE u # t
      <3>1. Sidecars(u)' /\ CutOff(u)'
        BY <1>1, <1>3, <1>4, <1>5, <2>2, Untouched
      <3> QED
        BY <1>1, <1>3, <1>4, <2>1, <2>2, <3>1
        DEF Timed, Marking, C!Archived, Shown, InArchive
    <2>3. CASE u = t
      <3>1. Timed(t)'
        BY <1>1, <1>2, <1>3, <1>4, <2>1, <2>3 DEF Timed, DumpsInv, DumpsTyped, File
      <3>2. Sidecars(t)'
        BY <1>2, <1>3, <2>1, <2>3 DEF Sidecars, DumpsInv, DumpsTyped, File
      <3>3. Marking(t)'
        BY <1>1, <1>3, <1>4 DEF Marking, C!Archived, C!DumpsAssumption
      <3>4. Shown(t)'
        BY <1>1, <1>3, <1>4, <2>1, <2>3 DEF Shown, InArchive
      <3>5. Bare(t)' = Bare(t)
        BY <1>1, <1>2, <1>3, <1>4 DEF Bare, File, DumpsInv, DumpsTyped
      <3> QED
        BY <1>1, <2>1, <2>3, <3>1, <3>2, <3>3, <3>4, <3>5 DEF CutOff
    <2> QED
      BY <2>2, <2>3
  <1> QED
    BY <1>1, <1>5, <1>6 DEF DumpsInv

LEMMA MarkInv == ASSUME C!DumpsAssumption, DumpsInv, NEW t \in Targets, C!Mark(t) PROVE DumpsInv'
  <1> DEFINE body == scrape[t].body
             bare == [at |-> clock, dump |-> body, sha |-> None]
             whole == [at |-> clock, dump |-> body, sha |-> body]
  <1>1. /\ scrape[t].pc = "mark" /\ body \in Dumps /\ scrape[t].result.sha = body
        /\ C!Archived(t, body) = {} /\ bare \in archive[t] /\ body # None
        /\ UNCHANGED <<flash, events, results, sweep, clock, cut>>
    BY DEF C!Mark, C!At, C!Rest, DumpsInv, Marking, C!DumpsAssumption
  <1>2. /\ \A f \in archive[t] : f \in File /\ f.at <= clock /\ (f.at = clock => f = bare)
        /\ sweep.pc = "run"
    BY <1>1 DEF DumpsInv, DumpsTyped, Timed, Sidecars
  <1>3. /\ archive'[t] = (archive[t] \ {bare}) \cup {whole}
        /\ \A u \in Targets \ {t} : archive'[u] = archive[u]
    <2>1. [bare EXCEPT !.sha = body] = whole
      OBVIOUS
    <2>2. \A f \in archive[t] :
            (IF f.at = clock THEN [f EXCEPT !.sha = body] ELSE f) =
              (IF f = bare THEN whole ELSE f)
      BY <1>2, <2>1
    <2>3. archive'[t] =
            {IF f.at = clock THEN [f EXCEPT !.sha = body] ELSE f : f \in archive[t]}
      BY DEF C!Mark, DumpsInv, DumpsTyped
    <2>4. \A x : x \in archive'[t] <=>
            \E f \in archive[t] : x = IF f = bare THEN whole ELSE f
      BY <2>2, <2>3
    <2>5. archive'[t] = (archive[t] \ {bare}) \cup {whole}
      BY <1>1, <2>4
    <2> QED
      BY <2>5 DEF C!Mark, DumpsInv, DumpsTyped
  <1>4. /\ scrape'[t].pc = "symbolicate" /\ scrape'[t].result.sha = body
        /\ scrape'[t].result.path = clock
        /\ \A u \in Targets \ {t} : scrape'[u] = scrape[u]
    BY <1>1 DEF C!Mark, DumpsInv, DumpsTyped, Scrape, Result
  <1>5. DumpsTyped'
    <2>1. scrape[t] \in Scrape /\ scrape[t].result \in Result
      BY DEF DumpsInv, DumpsTyped, Scrape
    <2>2. [scrape[t].result EXCEPT !.path = clock] \in Result
      BY <2>1 DEF Result, DumpsInv, DumpsTyped
    <2>3. scrape' = [scrape EXCEPT ![t] = [scrape[t] EXCEPT !.pc = "symbolicate", !.result =
            [scrape[t].result EXCEPT !.path = clock]]]
      BY <2>1 DEF C!Mark, DumpsInv, DumpsTyped, Scrape, Result
    <2>4. scrape' \in [Targets -> Scrape]
      BY <2>1, <2>2, <2>3 DEF DumpsInv, DumpsTyped, Scrape
    <2>5. whole \in File
      BY <1>1 DEF File, DumpsInv, DumpsTyped
    <2>6. archive' \in [Targets -> SUBSET File]
      BY <1>3, <2>5 DEF C!Mark, DumpsInv, DumpsTyped
    <2>7. \A u \in Targets : IsFiniteSet(archive'[u])
      <3>1. IsFiniteSet(archive[t] \ {bare})
        BY FS_RemoveElement DEF DumpsInv, DumpsTyped
      <3>2. IsFiniteSet((archive[t] \ {bare}) \cup {whole})
        BY <3>1, FS_AddElement
      <3> QED
        BY <1>3, <3>2 DEF DumpsInv, DumpsTyped
    <2> QED
      BY <1>1, <2>4, <2>6, <2>7 DEF DumpsInv, DumpsTyped
  <1>6. ASSUME NEW u \in Targets
        PROVE Timed(u)' /\ Sidecars(u)' /\ Marking(u)' /\ Shown(u)' /\ CutOff(u)'
    <2>1. Timed(u) /\ Sidecars(u) /\ Marking(u) /\ Shown(u) /\ CutOff(u)
      BY DEF DumpsInv
    <2>2. CASE u # t
      <3>1. Sidecars(u)' /\ CutOff(u)'
        BY <1>1, <1>3, <1>4, <1>5, <2>2, Untouched
      <3> QED
        BY <1>1, <1>3, <1>4, <2>1, <2>2, <3>1
        DEF Timed, Marking, C!Archived, Shown, InArchive
    <2>3. CASE u = t
      <3>1. Timed(t)'
        BY <1>1, <1>2, <1>3, <1>4, <2>1, <2>3 DEF Timed, DumpsInv, DumpsTyped, File
      <3>2. Sidecars(t)'
        <4>1. \A f \in archive[t] : f.sha # body
          BY <1>1 DEF C!Archived
        <4> QED
          BY <1>1, <1>2, <1>3, <2>1, <2>3, <4>1 DEF Sidecars
      <3>3. Marking(t)'
        BY <1>4 DEF Marking
      <3>4. Shown(t)'
        <4>1. \A path, sha : InArchive(t, path, sha) => InArchive(t, path, sha)'
          <5> SUFFICES ASSUME NEW path, NEW sha, InArchive(t, path, sha)
                       PROVE  [at |-> path, dump |-> sha, sha |-> sha] \in archive'[t]
            BY DEF InArchive
          <5>1. [at |-> path, dump |-> sha, sha |-> sha] \in archive[t]
            BY DEF InArchive
          <5>2. [at |-> path, dump |-> sha, sha |-> sha] # bare
            BY <1>1
          <5> QED
            BY <1>3, <5>1, <5>2
        <4>2. whole \in archive'[t]
          BY <1>3
        <4>3. body # None /\ whole = [at |-> scrape'[t].result.path, dump |-> scrape'[t].result.sha,
                                      sha |-> scrape'[t].result.sha]
          BY <1>1, <1>4
        <4> QED
          BY <1>1, <1>4, <2>1, <2>3, <4>1, <4>2, <4>3 DEF Shown, InArchive
      <3>5. Bare(t)' = Bare(t)
        BY <1>1, <1>2, <1>3, <1>4 DEF Bare
      <3> QED
        BY <1>1, <2>1, <2>3, <3>1, <3>2, <3>3, <3>4, <3>5 DEF CutOff
    <2> QED
      BY <2>2, <2>3
  <1> QED
    BY <1>1, <1>5, <1>6 DEF DumpsInv

\* What a scrape that ends at its mark leaves behind is one bare file more.
LEMMA OneMore ==
    ASSUME DumpsInv, NEW t \in Targets, scrape[t].pc = "mark", archive'[t] = archive[t],
           clock' = clock, scrape'[t].pc # "mark", cut'[t] = cut[t] + 1
    PROVE  CutOff(t)'
  <1> DEFINE bare == [at |-> clock, dump |-> scrape[t].body, sha |-> None]
  <1>1. bare \in archive[t] /\ \A f \in archive[t] : f.at = clock => f = bare
    BY DEF DumpsInv, Marking, Sidecars
  <1>2. Bare(t)' = Bare(t) \cup {bare}
    BY <1>1 DEF Bare
  <1>3. IsFiniteSet(Bare(t))
    BY FS_Subset DEF Bare, DumpsInv, DumpsTyped
  <1>4. Cardinality(Bare(t)) \in Nat
    BY <1>3, FS_CardinalityType
  <1>5. bare \notin Bare(t)
    BY DEF Bare
  <1>6. Cardinality(Bare(t) \cup {bare}) = Cardinality(Bare(t)) + 1
    BY <1>3, <1>5, FS_AddElement
  <1>7. Cardinality(Bare(t)) <= cut[t] /\ cut[t] \in Nat
    BY DEF DumpsInv, DumpsTyped, CutOff
  <1> QED
    BY <1>2, <1>4, <1>6, <1>7 DEF CutOff

LEMMA MarkFailsInv == ASSUME DumpsInv, NEW t \in Targets, C!MarkFails(t) PROVE DumpsInv'
  <1>1. /\ scrape[t].pc = "mark" /\ scrape' = [scrape EXCEPT ![t].pc = "done"]
        /\ cut' = [cut EXCEPT ![t] = @ + 1]
        /\ UNCHANGED <<flash, archive, events, results, sweep, clock>>
    BY DEF C!MarkFails, C!At, C!Go, C!Rest
  <1>2. DumpsTyped'
    BY <1>1 DEF DumpsInv, DumpsTyped, Scrape
  <1>3. /\ scrape'[t].pc = "done" /\ scrape'[t].result = scrape[t].result
        /\ cut'[t] = cut[t] + 1
        /\ \A u \in Targets \ {t} : scrape'[u] = scrape[u] /\ cut'[u] = cut[u]
    BY <1>1 DEF DumpsInv, DumpsTyped, Scrape
  <1>4. ASSUME NEW u \in Targets
        PROVE Timed(u)' /\ Sidecars(u)' /\ Marking(u)' /\ Shown(u)' /\ CutOff(u)'
    <2>1. Timed(u) /\ Sidecars(u) /\ Marking(u) /\ Shown(u)
      BY DEF DumpsInv
    <2>2. CutOff(u)'
      <3>1. CASE u = t
        BY <1>1, <1>3, <3>1, OneMore
      <3>2. CASE u # t
        BY <1>1, <1>2, <1>3, <3>2, Untouched
      <3> QED
        BY <3>1, <3>2
    <2> QED
      BY <1>1, <1>3, <2>1, <2>2 DEF Timed, Sidecars, Marking, C!Archived, Shown, InArchive
  <1> QED
    BY <1>1, <1>2, <1>4 DEF DumpsInv

-----------------------------------------------------------------------------
(* The loop, and the process.                                              *)

LEMMA IdleScrape ==
    /\ C!Idle \in Scrape /\ C!Idle.pc = "idle" /\ C!Idle.result.path = None
    /\ [C!Idle EXCEPT !.pc = "probe"] \in Scrape
    /\ [C!Idle EXCEPT !.pc = "probe"].pc = "probe"
    /\ [C!Idle EXCEPT !.pc = "probe"].result.path = None
  <1>1. C!NoResult \in Result /\ C!NoResult.path = None
    BY DEF C!NoResult, Result
  <1> QED
    BY <1>1 DEF C!Idle, Scrape

LEMMA GatheredInv == ASSUME DumpsInv, C!Gathered PROVE DumpsInv'
  <1>1. /\ results' = [t \in Targets |-> scrape[t].result] /\ scrape' = [t \in Targets |-> C!Idle]
        /\ sweep' = [pc |-> "sleep", since |-> clock] /\ \A t \in Targets : scrape[t].pc = "done"
        /\ UNCHANGED <<flash, archive, events, clock, cut>>
    BY DEF C!Gathered, C!Disk
  <1>2. DumpsTyped'
    BY <1>1, IdleScrape DEF DumpsInv, DumpsTyped, Scrape
  <1>3. \A u \in Targets : scrape'[u] = C!Idle /\ results'[u] = scrape[u].result
    BY <1>1
  <1>4. sweep'.pc = "sleep" /\ sweep'.since = clock
    BY <1>1
  <1>5. ASSUME NEW u \in Targets
        PROVE Timed(u)' /\ Sidecars(u)' /\ Marking(u)' /\ Shown(u)' /\ CutOff(u)'
    <2>1. Timed(u) /\ Sidecars(u) /\ Marking(u) /\ Shown(u)
      BY DEF DumpsInv
    <2>2. Sidecars(u)' /\ CutOff(u)'
      BY <1>1, <1>2, <1>3, IdleScrape, Untouched
    <2> QED
      BY <1>1, <1>3, <1>4, <2>1, <2>2, IdleScrape DEF Timed, Marking, Shown, InArchive
  <1>6. (sweep.since <= clock)'
    BY <1>1, <1>4 DEF DumpsInv, DumpsTyped
  <1> QED
    BY <1>2, <1>5, <1>6 DEF DumpsInv

\* A sweep begins in a later second than the one it slept in, or went down in.
LEMMA SweepInv == ASSUME DumpsInv, C!Wake \/ C!Restart PROVE DumpsInv'
  <1>1. /\ scrape' = [t \in Targets |-> [C!Idle EXCEPT !.pc = "probe"]]
        /\ sweep' = [pc |-> "run", since |-> clock]
        /\ sweep.pc # "run" /\ clock > sweep.since
        /\ UNCHANGED <<flash, archive, events, results, clock, cut>>
    BY DEF C!Wake, C!Restart, C!Disk
  <1>2. DumpsTyped'
    BY <1>1, IdleScrape DEF DumpsInv, DumpsTyped
  <1>3. \A u \in Targets : scrape'[u].pc = "probe" /\ scrape'[u].result.path = None
    BY <1>1, IdleScrape
  <1>4. sweep'.pc = "run" /\ sweep'.since = clock
    BY <1>1
  <1>5. ASSUME NEW u \in Targets
        PROVE Timed(u)' /\ Sidecars(u)' /\ Marking(u)' /\ Shown(u)' /\ CutOff(u)'
    <2>1. Timed(u) /\ Sidecars(u) /\ Marking(u) /\ Shown(u)
      BY DEF DumpsInv
    <2>2. Sidecars(u)' /\ CutOff(u)'
      BY <1>1, <1>2, <1>3, <2>1, Untouched DEF Timed
    <2>3. Timed(u)'
      <3>1. \A f \in archive[u] : f.at \in Nat /\ f.at <= sweep.since
        BY <1>1, <2>1 DEF Timed, DumpsInv, DumpsTyped, File
      <3> QED
        BY <1>1, <1>3, <1>4, <3>1 DEF Timed, DumpsInv, DumpsTyped
    <2> QED
      BY <1>1, <1>3, <2>1, <2>2, <2>3 DEF Marking, Shown, InArchive
  <1>6. (sweep.since <= clock)'
    BY <1>1, <1>4 DEF DumpsInv, DumpsTyped
  <1> QED
    BY <1>2, <1>5, <1>6 DEF DumpsInv

LEMMA ExitInv == ASSUME DumpsInv, C!Exit PROVE DumpsInv'
  <1>1. /\ results' = [t \in Targets |-> None] /\ scrape' = [t \in Targets |-> C!Idle]
        /\ sweep' = [pc |-> "down", since |-> clock]
        /\ cut' = [t \in Targets |-> IF scrape[t].pc = "mark" THEN cut[t] + 1 ELSE cut[t]]
        /\ UNCHANGED <<flash, archive, events, clock>>
    BY DEF C!Exit
  <1>2. DumpsTyped'
    BY <1>1, IdleScrape DEF DumpsInv, DumpsTyped
  <1>3. \A u \in Targets : scrape'[u] = C!Idle /\ results'[u] = None
    BY <1>1
  <1>4. sweep'.pc = "down" /\ sweep'.since = clock
    BY <1>1
  <1>5. ASSUME NEW u \in Targets
        PROVE Timed(u)' /\ Sidecars(u)' /\ Marking(u)' /\ Shown(u)' /\ CutOff(u)'
    <2>1. Timed(u) /\ Sidecars(u) /\ Marking(u) /\ Shown(u)
      BY DEF DumpsInv
    <2>2. Sidecars(u)'
      BY <1>1, <2>1 DEF Sidecars
    <2>3. CutOff(u)'
      <3>1. CASE scrape[u].pc = "mark"
        BY <1>1, <1>3, <3>1, IdleScrape, OneMore
      <3>2. CASE scrape[u].pc # "mark"
        BY <1>1, <1>2, <1>3, <3>2, IdleScrape, Untouched
      <3> QED
        BY <3>1, <3>2
    <2> QED
      BY <1>1, <1>3, <1>4, <2>1, <2>2, <2>3, IdleScrape DEF Timed, Marking, Shown, InArchive
  <1>6. (sweep.since <= clock)'
    BY <1>1, <1>4 DEF DumpsInv, DumpsTyped
  <1> QED
    BY <1>2, <1>5, <1>6 DEF DumpsInv

LEMMA DumpsNext ==
    ASSUME C!DumpsAssumption, DumpsInv, [C!Next]_(C!vars) PROVE DumpsInv'
  <1>1. CASE UNCHANGED C!vars
    <2>1. DumpsTyped' /\ \A t \in Targets : Bare(t)' = Bare(t)
      BY <1>1 DEF C!vars, DumpsInv, DumpsTyped, Bare
    <2>2. \A t \in Targets : CutOff(t)'
      BY <1>1, <2>1 DEF C!vars, DumpsInv, CutOff
    <2> QED
      BY <1>1, <2>1, <2>2 DEF C!vars, DumpsInv, Timed, Sidecars, Marking, C!Archived, Shown, InArchive
  <1>2. CASE C!Tick \/ C!Gathered \/ C!Wake \/ C!Exit \/ C!Restart
    BY <1>2, TickInv, GatheredInv, SweepInv, ExitInv
  <1>3. ASSUME NEW t \in Targets,
               \/ C!Flash(t) \/ C!Unreachable(t) \/ C!Probe(t) \/ C!Pull(t) \/ C!Dedupe(t)
               \/ C!Save(t) \/ C!SaveFails(t) \/ C!Mark(t) \/ C!MarkFails(t)
               \/ C!Symbolicate(t) \/ C!Log(t)
        PROVE  DumpsInv'
    BY <1>3, FlashInv, UnreachableInv, ProbeInv, PullInv, DedupeInv, SaveInv, SaveFailsInv,
      MarkInv, MarkFailsInv, SymbolicateInv, LogInv
  <1> QED
    BY <1>1, <1>2, <1>3 DEF C!Next

\* The same definition, seen through the instance.
LEMMA SameCardinality == ASSUME NEW S PROVE C!Cardinality(S) = Cardinality(S)
  BY DEF C!Cardinality, Cardinality, C!IsFiniteSet, IsFiniteSet

LEMMA DumpsArchive == ASSUME C!DumpsAssumption, DumpsInv PROVE C!ArchiveIsTrue
  <1> SUFFICES ASSUME NEW t \in Targets
               PROVE  /\ \A line \in C!Told(t) : \E f \in archive[t] :
                             f.at = line.path /\ f.dump = line.sha /\ f.sha = line.sha
                      /\ \A d \in Dumps :
                           Cardinality({f \in archive[t] : f.dump = d}) <= 1 + cut[t]
    BY SameCardinality DEF C!ArchiveIsTrue, C!Items
  <1>1. ASSUME NEW line \in C!Told(t)
        PROVE  \E f \in archive[t] : f.at = line.path /\ f.dump = line.sha /\ f.sha = line.sha
    <2>1. InArchive(t, line.path, line.sha)
      BY DEF C!Told, DumpsInv, Shown
    <2> QED
      BY <2>1 DEF InArchive
  <1>2. ASSUME NEW d \in Dumps
        PROVE  Cardinality({f \in archive[t] : f.dump = d}) <= 1 + cut[t]
    <2> DEFINE kept == {f \in archive[t] : f.dump = d}
               rest == kept \ Bare(t)
    <2>1. IsFiniteSet(kept) /\ IsFiniteSet(rest) /\ IsFiniteSet(Bare(t))
          /\ IsFiniteSet(rest \cup Bare(t))
      <3>1. IsFiniteSet(archive[t])
        BY DEF DumpsInv, DumpsTyped
      <3>2. kept \subseteq archive[t] /\ rest \subseteq archive[t] /\ Bare(t) \subseteq archive[t]
            /\ rest \cup Bare(t) \subseteq archive[t]
        BY DEF Bare
      <3> QED
        BY <3>1, <3>2, FS_Subset
    <2>2. ASSUME NEW f \in rest, NEW g \in rest PROVE f = g
      <3>1. /\ f \in archive[t] /\ f.dump = d /\ g \in archive[t] /\ g.dump = d
            /\ f.sha # None \/ (scrape[t].pc = "mark" /\ f.at = clock)
            /\ g.sha # None \/ (scrape[t].pc = "mark" /\ g.at = clock)
        BY DEF Bare
      <3>2. Sidecars(t) /\ Marking(t)
        BY DEF DumpsInv
      <3>3. ASSUME NEW h \in archive[t], h.dump = d, scrape[t].pc = "mark", h.at = clock
            PROVE \A k \in archive[t] : k.sha # d
        BY <3>2, <3>3 DEF Sidecars, Marking, C!Archived
      <3> QED
        BY <3>1, <3>2, <3>3 DEF Sidecars
    <2>3. Cardinality(rest) <= 1
      <3>1. CASE rest = {}
        BY <3>1, FS_EmptySet
      <3>2. CASE rest # {}
        <4>1. PICK f \in rest : TRUE
          BY <3>2
        <4>2. rest = {f}
          BY <2>2, <4>1
        <4>3. Cardinality({f}) = 1
          BY FS_Singleton
        <4> QED
          BY <4>2, <4>3
      <3> QED
        BY <3>1, <3>2
    <2>4. Cardinality(kept) <= Cardinality(rest \cup Bare(t))
      <3>1. kept \subseteq rest \cup Bare(t)
        OBVIOUS
      <3> QED
        BY <2>1, <3>1, FS_Subset
    <2>5. Cardinality(rest \cup Bare(t)) <= Cardinality(rest) + Cardinality(Bare(t))
      <3>1. IsFiniteSet(rest \cap Bare(t))
        BY <2>1, FS_Intersection
      <3>2. /\ Cardinality(rest \cap Bare(t)) \in Nat /\ Cardinality(rest) \in Nat
            /\ Cardinality(Bare(t)) \in Nat
        BY <2>1, <3>1, FS_CardinalityType
      <3>3. Cardinality(rest \cup Bare(t)) =
              Cardinality(rest) + Cardinality(Bare(t)) - Cardinality(rest \cap Bare(t))
        BY <2>1, FS_Union
      <3> HIDE DEF rest
      <3> QED
        BY <3>2, <3>3
    <2> QED
      BY <2>1, <2>3, <2>4, <2>5, FS_CardinalityType DEF DumpsInv, DumpsTyped, CutOff
  <1> QED
    BY <1>1, <1>2

-----------------------------------------------------------------------------
(* Media: the cleanup goes by what it saw at first, while files are written,   *)
(* told and fetched.                                                       *)

\* The records, as far as the proof needs them.  A file that was not written yet has
\* not been told.
MediaTyped ==
    /\ file \in [Ids -> [at : {"none", "thread", "store", "gone"}, told : BOOLEAN,
                         stuck : BOOLEAN, by : {"reply", "upload"}, time : Nat, nth : Nat]]
    /\ now \in Nat /\ \A i \in Ids : file[i].time <= now
    /\ clean = [pc |-> clean.pc, todo |-> clean.todo, total |-> clean.total,
                from |-> clean.from]
    /\ clean.from \in Nat /\ clean.from <= now
    /\ reply = [pc |-> reply.pc, blocks |-> reply.blocks, todo |-> reply.todo,
                shown |-> reply.shown, ids |-> reply.ids, kept |-> reply.kept]
    /\ reply.ids \in Seq(Ids)

\* What was written stays as it was written, there or not.
OnDisk(i) == file[i].at \in {"store", "gone"}
ToldIsWritten == \A i \in Ids : file[i].told \/ file[i].nth > 0 => OnDisk(i)

\* The files of a reply are written, all but the one that a thread is at.
ReplyIsWritten == \A k \in 1..Len(reply.ids) :
    (reply.pc = "store" => k # Len(reply.ids)) => OnDisk(reply.ids[k])

\* A file is gone because it was too old, or because newer ones fill the store.
GoneIsOwed == \A i \in Ids : file[i].at = "gone" =>
    now - file[i].time > Ttl \/ Cardinality(M!Ahead(i)) >= MaxFiles

\* The second pass: what it still has to look at, the oldest first, with what it
\* could not remove makes up the total.
Waiting == {clean.todo[k] : k \in 1..Len(clean.todo)}
Stuck == {i \in Ids : file[i].stuck}
PassTwo == clean.pc = "full" =>
    /\ clean.todo \in Seq(Ids) /\ clean.total \in Int
    /\ \A k \in 1..Len(clean.todo) : OnDisk(clean.todo[k])
    /\ \A j, k \in 1..Len(clean.todo) : j < k => M!Older(clean.todo[j], clean.todo[k])
    /\ clean.total <= Cardinality(Waiting \cup Stuck)

MediaInv == MediaTyped /\ ToldIsWritten /\ ReplyIsWritten /\ GoneIsOwed /\ PassTwo

-----------------------------------------------------------------------------

\* The same definition, seen through the instance.
LEMMA MediaCardinality == ASSUME NEW S PROVE M!Cardinality(S) = Cardinality(S)
  BY DEF M!Cardinality, Cardinality, M!IsFiniteSet, IsFiniteSet

LEMMA IdsFinite ==
    ASSUME M!IdsAssumption
    PROVE  \A S \in SUBSET Ids : IsFiniteSet(S) /\ Cardinality(S) \in Nat
  <1>1. IsFiniteSet(Ids)
    BY DEF M!IdsAssumption, M!IsFiniteSet, IsFiniteSet
  <1> QED BY <1>1, FS_Subset, FS_CardinalityType

\* Time goes on, and what is written stays.
Keeps ==
    /\ now \in Nat /\ now' \in Nat /\ now <= now'
    /\ \A i \in Ids : OnDisk(i) =>
         OnDisk(i)' /\ file'[i].nth = file[i].nth /\ file'[i].time = file[i].time
    /\ \A i \in Ids : file[i].stuck => file'[i].stuck

LEMMA AheadGrows ==
    ASSUME MediaTyped, MediaTyped', ToldIsWritten, Keeps, NEW i \in Ids, OnDisk(i)
    PROVE  M!Ahead(i) \subseteq M!Ahead(i)'
  <1>1. ASSUME NEW j \in Ids \ {i}, file[j].nth > file[i].nth PROVE file'[j].nth > file'[i].nth
    <2>1. file[j].nth \in Nat /\ file[i].nth \in Nat
      BY DEF MediaTyped
    <2>2. file[j].nth > 0
      BY <1>1, <2>1
    <2>3. OnDisk(j)
      BY <2>2 DEF ToldIsWritten
    <2>4. file'[j].nth = file[j].nth /\ file'[i].nth = file[i].nth
      BY <2>3 DEF Keeps
    <2> QED BY <1>1, <2>4
  <1>2. ASSUME NEW j \in M!Ahead(i) PROVE j \in M!Ahead(i)'
    BY <1>1 DEF M!Ahead, Keeps
  <1> QED BY <1>2

\* What was gone rightly is so ever after.
LEMMA OwedStays ==
    ASSUME M!IdsAssumption, M!TimesAssumption, MediaInv, MediaTyped', Keeps,
           NEW i \in Ids, file[i].at = "gone"
    PROVE  now' - file'[i].time > Ttl \/ Cardinality(M!Ahead(i)') >= MaxFiles
  <1> USE DEF MediaInv
  <1>1. OnDisk(i) /\ file'[i].time = file[i].time /\ now <= now' /\ now \in Nat
        /\ now' \in Nat /\ file[i].time \in Nat /\ Ttl \in Nat /\ MaxFiles \in Nat
    BY DEF OnDisk, Keeps, MediaTyped, M!TimesAssumption
  <1>2. CASE now - file[i].time > Ttl
    BY <1>1, <1>2
  <1>3. CASE Cardinality(M!Ahead(i)) >= MaxFiles
    <2>1. M!Ahead(i) \subseteq M!Ahead(i)'
      BY <1>1, AheadGrows
    <2>2. M!Ahead(i)' \in SUBSET Ids /\ M!Ahead(i) \in SUBSET Ids
      BY DEF M!Ahead
    <2> DEFINE A == M!Ahead(i)
               B == M!Ahead(i)'
    <2>3. IsFiniteSet(B) /\ Cardinality(B) \in Nat /\ Cardinality(A) \in Nat
      BY <2>2, IdsFinite
    <2>4. Cardinality(A) <= Cardinality(B)
      BY <2>1, <2>3, FS_Subset
    <2> QED BY <1>1, <1>3, <2>3, <2>4
  <1> QED BY <1>2, <1>3 DEF GoneIsOwed

LEMMA MediaKeeps ==
    ASSUME M!IdsAssumption, M!TimesAssumption, MediaInv, MediaTyped', Keeps,
           UNCHANGED clean \/ clean'.pc # "full",
           \A i \in Ids : file'[i].at = "gone" =>
             file[i].at = "gone" \/ now' - file'[i].time > Ttl
    PROVE  GoneIsOwed' /\ PassTwo'
  <1> USE DEF MediaInv
  <1>1. ASSUME NEW i \in Ids, file'[i].at = "gone"
        PROVE  now' - file'[i].time > Ttl \/ Cardinality(M!Ahead(i)') >= MaxFiles
    BY <1>1, OwedStays
  <1>2. GoneIsOwed'
    BY <1>1 DEF GoneIsOwed
  <1>3. PassTwo'
    <2>1. CASE clean'.pc # "full"
      BY <2>1 DEF PassTwo
    <2>2. CASE UNCHANGED clean /\ clean.pc = "full"
      <3>1. /\ clean.todo \in Seq(Ids) /\ clean.total \in Int
            /\ \A k \in 1..Len(clean.todo) : clean.todo[k] \in Ids /\ OnDisk(clean.todo[k])
            /\ \A j, k \in 1..Len(clean.todo) :
                 j < k => M!Older(clean.todo[j], clean.todo[k])
            /\ clean.total <= Cardinality(Waiting \cup Stuck)
        BY <2>2 DEF PassTwo
      <3> DEFINE A == Waiting \cup Stuck
                 B == (Waiting \cup Stuck)'
      <3>2. A \in SUBSET Ids /\ B \in SUBSET Ids /\ A \subseteq B
        BY <2>2, <3>1 DEF Waiting, Stuck, Keeps
      <3>3. IsFiniteSet(B) /\ Cardinality(B) \in Nat /\ Cardinality(A) \in Nat
        BY <3>2, IdsFinite
      <3>4. Cardinality(A) <= Cardinality(B)
        BY <3>2, <3>3, FS_Subset
      <3>5. \A k \in 1..Len(clean.todo) : OnDisk(clean.todo[k])'
        BY <2>2, <3>1 DEF Keeps
      <3>6. \A j, k \in 1..Len(clean.todo) :
              j < k => M!Older(clean.todo[j], clean.todo[k])'
        BY <2>2, <3>1 DEF Keeps, M!Older
      <3>7. clean'.total <= Cardinality(B)
        <4> HIDE DEF A, B
        <4>1. clean.total <= Cardinality(A)
          BY <3>1 DEF A
        <4> QED BY <2>2, <3>1, <3>3, <3>4, <4>1
      <3> QED BY <2>2, <3>1, <3>5, <3>6, <3>7 DEF PassTwo
    <2> QED BY <2>1, <2>2
  <1> QED BY <1>2, <1>3

\* A step that leaves the cleanup where it is, or ends a pass of it.
LEMMA MediaQuiet ==
    ASSUME M!IdsAssumption, M!TimesAssumption, MediaInv, MediaTyped', ToldIsWritten',
           ReplyIsWritten', Keeps, UNCHANGED clean \/ clean'.pc # "full",
           \A i \in Ids : file'[i].at = "gone" =>
             file[i].at = "gone" \/ now' - file'[i].time > Ttl
    PROVE  MediaInv'
  BY MediaKeeps DEF MediaInv

LEMMA MediaTick ==
    ASSUME M!IdsAssumption, M!TimesAssumption, MediaInv, M!Tick
    PROVE  MediaInv'
  <1> USE DEF MediaInv
  <1>1. now' = now + 1 /\ UNCHANGED <<file, reply, clean>> /\ now \in Nat /\ now' \in Nat
    BY DEF M!Tick, MediaTyped
  <1>2. MediaTyped'
    <2>1. \A i \in Ids : file[i].time \in Nat /\ file[i].time <= now
      BY DEF MediaTyped
    <2>2. /\ \A i \in Ids : file'[i].time <= now'
          /\ clean'.from \in Nat /\ clean'.from <= now'
      BY <1>1, <2>1 DEF MediaTyped
    <2>3. /\ clean' = clean /\ reply' = reply /\ file' = file
      BY <1>1
    <2> QED BY <1>1, <2>2, <2>3 DEF MediaTyped
  <1>3. ToldIsWritten' /\ ReplyIsWritten'
    BY <1>1 DEF ToldIsWritten, ReplyIsWritten, OnDisk
  <1>4. Keeps
    BY <1>1 DEF Keeps, OnDisk
  <1> QED BY <1>1, <1>2, <1>3, <1>4, MediaQuiet

LEMMA MediaRespond ==
    ASSUME M!IdsAssumption, M!TimesAssumption, MediaInv, M!Respond
    PROVE  MediaInv'
  <1> USE DEF MediaInv
  <1>1. /\ UNCHANGED <<file, clean, now>>
        /\ reply' = [pc |-> reply'.pc, blocks |-> reply'.blocks, todo |-> reply'.todo,
                     shown |-> reply'.shown, ids |-> reply'.ids, kept |-> reply'.kept]
        /\ reply'.ids = <<>>
    BY DEF M!Respond, M!NoReply
  <1>2. MediaTyped'
    BY <1>1 DEF MediaTyped
  <1>3. ToldIsWritten' /\ ReplyIsWritten'
    BY <1>1 DEF ToldIsWritten, ReplyIsWritten, OnDisk
  <1>4. Keeps
    BY <1>1 DEF Keeps, OnDisk, MediaTyped
  <1> QED BY <1>1, <1>2, <1>3, <1>4, MediaQuiet

\* A step that only begins to write a file.
LEMMA StoreKeeps ==
    ASSUME MediaInv, NEW i \in Ids, NEW by \in {"reply", "upload"}, M!Store(i, by),
           UNCHANGED <<now, clean>>
    PROVE  /\ file' \in [Ids -> [at : {"none", "thread", "store", "gone"}, told : BOOLEAN,
                                 stuck : BOOLEAN, by : {"reply", "upload"}, time : Nat,
                                 nth : Nat]]
           /\ \A j \in Ids : /\ OnDisk(j)' <=> OnDisk(j)
                             /\ file'[j].time = file[j].time /\ file'[j].nth = file[j].nth
                             /\ file'[j].told = file[j].told
                             /\ file'[j].at = "gone" => file[j].at = "gone"
           /\ Keeps /\ ToldIsWritten'
  <1> USE DEF MediaInv
  <1>1. /\ file' = [file EXCEPT ![i].at = "thread", ![i].by = by] /\ file[i].at = "none"
    BY DEF M!Store
  <1>2. file' \in [Ids -> [at : {"none", "thread", "store", "gone"}, told : BOOLEAN,
                           stuck : BOOLEAN, by : {"reply", "upload"}, time : Nat, nth : Nat]]
    BY <1>1, ZenonT(60) DEF MediaTyped
  <1>3. \A j \in Ids : /\ file'[j].at = (IF j = i THEN "thread" ELSE file[j].at)
                       /\ file'[j].time = file[j].time /\ file'[j].nth = file[j].nth
                       /\ file'[j].told = file[j].told /\ file'[j].stuck = file[j].stuck
    BY <1>1 DEF MediaTyped
  <1>4. ASSUME NEW j \in Ids PROVE OnDisk(j)' <=> OnDisk(j)
    <2>1. CASE j = i
      <3>1. file'[j].at = "thread" /\ file[j].at = "none"
        BY <1>1, <1>3, <2>1
      <3> QED BY <3>1 DEF OnDisk
    <2>2. CASE j # i
      BY <1>3, <2>2 DEF OnDisk
    <2> QED BY <2>1, <2>2
  <1>5. Keeps
    BY <1>3, <1>4 DEF Keeps, MediaTyped
  <1>6. ToldIsWritten'
    BY <1>3, <1>4 DEF ToldIsWritten
  <1> QED BY <1>2, <1>3, <1>4, <1>5, <1>6

LEMMA MediaUpload ==
    ASSUME M!IdsAssumption, M!TimesAssumption, MediaInv, NEW i \in Ids, M!Upload(i)
    PROVE  MediaInv'
  <1> USE DEF MediaInv
  <1>1. M!Store(i, "upload") /\ UNCHANGED <<reply, clean, now>>
    BY DEF M!Upload
  <1>2. /\ file' \in [Ids -> [at : {"none", "thread", "store", "gone"}, told : BOOLEAN,
                              stuck : BOOLEAN, by : {"reply", "upload"}, time : Nat,
                              nth : Nat]]
        /\ \A j \in Ids : /\ OnDisk(j)' <=> OnDisk(j)
                          /\ file'[j].time = file[j].time /\ file'[j].nth = file[j].nth
                          /\ file'[j].told = file[j].told
                          /\ file'[j].at = "gone" => file[j].at = "gone"
        /\ Keeps /\ ToldIsWritten'
    BY <1>1, StoreKeeps
  <1>3. MediaTyped'
    BY <1>1, <1>2 DEF MediaTyped
  <1>4. ReplyIsWritten'
    BY <1>1, <1>2 DEF ReplyIsWritten, MediaTyped
  <1> QED BY <1>1, <1>2, <1>3, <1>4, MediaQuiet

LEMMA MediaRender ==
    ASSUME M!IdsAssumption, M!TimesAssumption, MediaInv, NEW i \in Ids, M!Render(i)
    PROVE  MediaInv'
  <1> USE DEF MediaInv
  <1>0. reply.pc = "render" /\ UNCHANGED <<clean, now>>
    BY DEF M!Render
  <1>1. CASE M!Store(i, "reply") /\ reply' = [reply EXCEPT !.pc = "store", !.ids = Append(@, i)]
    <2>1. /\ file' \in [Ids -> [at : {"none", "thread", "store", "gone"}, told : BOOLEAN,
                                stuck : BOOLEAN, by : {"reply", "upload"}, time : Nat,
                                nth : Nat]]
          /\ \A j \in Ids : /\ OnDisk(j)' <=> OnDisk(j)
                            /\ file'[j].time = file[j].time /\ file'[j].nth = file[j].nth
                            /\ file'[j].told = file[j].told
                            /\ file'[j].at = "gone" => file[j].at = "gone"
          /\ Keeps /\ ToldIsWritten'
      BY <1>0, <1>1, StoreKeeps
    <2>2. /\ reply' = [pc |-> "store", blocks |-> reply.blocks, todo |-> reply.todo,
                       shown |-> reply.shown, ids |-> Append(reply.ids, i),
                       kept |-> reply.kept]
          /\ reply.ids \in Seq(Ids)
      <3> DEFINE r == [pc |-> reply.pc, blocks |-> reply.blocks, todo |-> reply.todo,
                       shown |-> reply.shown, ids |-> reply.ids, kept |-> reply.kept]
      <3>1. reply = r /\ reply.ids \in Seq(Ids)
        BY DEF MediaTyped
      <3>2. reply' = [r EXCEPT !.pc = "store", !.ids = Append(reply.ids, i)]
        BY <1>1, <3>1
      <3> QED BY <3>1, <3>2
    <2>3. /\ reply'.ids = Append(reply.ids, i) /\ reply'.pc = "store"
          /\ Append(reply.ids, i) \in Seq(Ids) /\ Len(reply'.ids) = Len(reply.ids) + 1
          /\ \A k \in 1..Len(reply.ids) :
               reply'.ids[k] = reply.ids[k] /\ reply.ids[k] \in Ids
      BY <2>2
    <2>4. MediaTyped'
      BY <1>0, <2>1, <2>2, <2>3 DEF MediaTyped
    <2>5. ReplyIsWritten'
      BY <1>0, <2>1, <2>3 DEF ReplyIsWritten
    <2> QED BY <1>0, <2>1, <2>4, <2>5, MediaQuiet
  <1>2. CASE reply' = [reply EXCEPT !.todo = Tail(@)] /\ UNCHANGED file
    <2>1. reply' = [pc |-> reply.pc, blocks |-> reply.blocks, todo |-> Tail(reply.todo),
                    shown |-> reply.shown, ids |-> reply.ids, kept |-> reply.kept]
      <3> DEFINE r == [pc |-> reply.pc, blocks |-> reply.blocks, todo |-> reply.todo,
                       shown |-> reply.shown, ids |-> reply.ids, kept |-> reply.kept]
      <3>1. reply = r
        BY DEF MediaTyped
      <3>2. reply' = [r EXCEPT !.todo = Tail(reply.todo)]
        BY <1>2, <3>1
      <3> QED BY <3>2
    <2>2. MediaTyped'
      BY <1>0, <1>2, <2>1 DEF MediaTyped
    <2>3. ToldIsWritten' /\ ReplyIsWritten'
      BY <1>0, <1>2, <2>1 DEF ToldIsWritten, ReplyIsWritten, OnDisk
    <2>4. Keeps
      BY <1>0, <1>2 DEF Keeps, OnDisk, MediaTyped
    <2> QED BY <1>0, <1>2, <2>2, <2>3, <2>4, MediaQuiet
  <1> QED BY <1>1, <1>2 DEF M!Render

\* A file that is written, and told or not.
LEMMA WrittenKeeps ==
    ASSUME M!IdsAssumption, MediaInv, NEW i \in Ids, NEW flag \in BOOLEAN,
           file[i].at = "thread", file' = [file EXCEPT ![i] = [M!Written(i) EXCEPT !.told = flag]],
           UNCHANGED <<now, clean>>
    PROVE  /\ file' \in [Ids -> [at : {"none", "thread", "store", "gone"}, told : BOOLEAN,
                                 stuck : BOOLEAN, by : {"reply", "upload"}, time : Nat,
                                 nth : Nat]]
           /\ \A j \in Ids : /\ OnDisk(j) => OnDisk(j)'
                             /\ file'[j].time <= now
                             /\ file'[j].at = "gone" => file[j].at = "gone"
           /\ OnDisk(i)' /\ Keeps /\ ToldIsWritten'
  <1> USE DEF MediaInv
  <1> DEFINE n == 1 + Cardinality({j \in Ids : file[j].nth > 0})
             w == [at |-> "store", told |-> flag, stuck |-> file[i].stuck, by |-> file[i].by,
                   time |-> now, nth |-> n]
  <1>1. n \in Nat
    <2>1. {j \in Ids : file[j].nth > 0} \in SUBSET Ids
      OBVIOUS
    <2>2. Cardinality({j \in Ids : file[j].nth > 0}) \in Nat
      BY <2>1, IdsFinite
    <2> QED BY <2>2
  <1>2. [M!Written(i) EXCEPT !.told = flag] = w
    <2>1. M!Cardinality({j \in Ids : file[j].nth > 0}) =
            Cardinality({j \in Ids : file[j].nth > 0})
      BY MediaCardinality
    <2> DEFINE r == [at |-> file[i].at, told |-> file[i].told, stuck |-> file[i].stuck,
                     by |-> file[i].by, time |-> file[i].time, nth |-> file[i].nth]
    <2>2. file[i] = r
      BY DEF MediaTyped
    <2>3. M!Written(i) = [r EXCEPT !.at = "store", !.time = now, !.nth = n]
      BY <2>1, <2>2 DEF M!Written
    <2> HIDE DEF n
    <2>4. M!Written(i) = [at |-> "store", told |-> file[i].told, stuck |-> file[i].stuck,
                          by |-> file[i].by, time |-> now, nth |-> n]
      BY <2>3
    <2> QED BY <2>4
  <1> HIDE DEF n
  <1>3. /\ w \in [at : {"none", "thread", "store", "gone"}, told : BOOLEAN, stuck : BOOLEAN,
                  by : {"reply", "upload"}, time : Nat, nth : Nat]
        /\ w.at = "store" /\ w.time = now /\ w.stuck = file[i].stuck
    BY <1>1 DEF MediaTyped
  <1> HIDE DEF w
  <1>4. file' = [file EXCEPT ![i] = w]
    BY <1>2
  <1>5. /\ file' \in [Ids -> [at : {"none", "thread", "store", "gone"}, told : BOOLEAN,
                              stuck : BOOLEAN, by : {"reply", "upload"}, time : Nat,
                              nth : Nat]]
        /\ \A j \in Ids : file'[j] = IF j = i THEN w ELSE file[j]
    BY <1>3, <1>4 DEF MediaTyped
  <1>6. ASSUME NEW j \in Ids
        PROVE  /\ OnDisk(j) => OnDisk(j)' /\ file'[j].nth = file[j].nth
                                          /\ file'[j].time = file[j].time
               /\ file'[j].time <= now
               /\ file'[j].at = "gone" => file[j].at = "gone"
               /\ file'[j].told \/ file'[j].nth > 0 => OnDisk(j)'
               /\ file[j].stuck => file'[j].stuck
    <2>1. CASE j = i
      BY <1>3, <1>5, <2>1, SMTT(30) DEF OnDisk, MediaTyped
    <2>2. CASE j # i
      BY <1>5, <2>2 DEF OnDisk, MediaTyped, ToldIsWritten
    <2> QED BY <2>1, <2>2
  <1>7. Keeps /\ ToldIsWritten'
    BY <1>6 DEF Keeps, ToldIsWritten, MediaTyped
  <1>8. OnDisk(i)'
    BY <1>3, <1>5 DEF OnDisk
  <1> QED BY <1>5, <1>6, <1>7, <1>8

LEMMA MediaUploaded ==
    ASSUME M!IdsAssumption, M!TimesAssumption, MediaInv, NEW i \in Ids, M!Uploaded(i)
    PROVE  MediaInv'
  <1> USE DEF MediaInv
  <1>1. /\ file[i].at = "thread" /\ UNCHANGED <<reply, clean, now>>
        /\ file' = [file EXCEPT ![i] = [M!Written(i) EXCEPT !.told = TRUE]]
    BY DEF M!Uploaded
  <1>2. /\ file' \in [Ids -> [at : {"none", "thread", "store", "gone"}, told : BOOLEAN,
                              stuck : BOOLEAN, by : {"reply", "upload"}, time : Nat,
                              nth : Nat]]
        /\ \A j \in Ids : /\ OnDisk(j) => OnDisk(j)'
                          /\ file'[j].time <= now
                          /\ file'[j].at = "gone" => file[j].at = "gone"
        /\ Keeps /\ ToldIsWritten'
    BY <1>1, WrittenKeeps
  <1>3. MediaTyped'
    BY <1>1, <1>2 DEF MediaTyped
  <1>4. ReplyIsWritten'
    BY <1>1, <1>2 DEF ReplyIsWritten, MediaTyped
  <1> QED BY <1>1, <1>2, <1>3, <1>4, MediaQuiet

LEMMA MediaRendered ==
    ASSUME M!IdsAssumption, M!TimesAssumption, MediaInv, NEW i \in Ids, M!Rendered(i)
    PROVE  MediaInv'
  <1> USE DEF MediaInv
  <1>1. /\ file[i].at = "thread" /\ UNCHANGED <<clean, now>> /\ reply.pc = "store"
        /\ file' = [file EXCEPT ![i] = M!Written(i)] /\ M!Last(reply.ids) = i
        /\ reply' = [reply EXCEPT !.pc = "render", !.todo = Tail(@),
                       !.shown = Append(@, Head(reply.todo).n)]
    BY DEF M!Rendered
  <1>2. M!Written(i) = [M!Written(i) EXCEPT !.told = file[i].told] /\ file[i].told \in BOOLEAN
    BY DEF M!Written, MediaTyped
  <1>3. /\ file' \in [Ids -> [at : {"none", "thread", "store", "gone"}, told : BOOLEAN,
                              stuck : BOOLEAN, by : {"reply", "upload"}, time : Nat,
                              nth : Nat]]
        /\ \A j \in Ids : /\ OnDisk(j) => OnDisk(j)'
                          /\ file'[j].time <= now
                          /\ file'[j].at = "gone" => file[j].at = "gone"
        /\ OnDisk(i)' /\ Keeps /\ ToldIsWritten'
    BY <1>1, <1>2, WrittenKeeps
  <1> DEFINE r == [pc |-> reply.pc, blocks |-> reply.blocks, todo |-> reply.todo,
                   shown |-> reply.shown, ids |-> reply.ids, kept |-> reply.kept]
             new == [pc |-> "render", blocks |-> reply.blocks, todo |-> Tail(reply.todo),
                     shown |-> Append(reply.shown, Head(reply.todo).n), ids |-> reply.ids,
                     kept |-> reply.kept]
  <1>4. reply' = new
    <2>1. reply = r
      BY DEF MediaTyped
    <2>2. reply' = [r EXCEPT !.pc = "render", !.todo = Tail(reply.todo),
                      !.shown = Append(reply.shown, Head(reply.todo).n)]
      BY <1>1, <2>1
    <2> QED BY <2>2
  <1>5. MediaTyped'
    BY <1>1, <1>3, <1>4 DEF MediaTyped
  <1>6. ReplyIsWritten'
    <2>1. reply'.ids = reply.ids /\ reply'.pc = "render" /\ reply.ids \in Seq(Ids)
      BY <1>4 DEF MediaTyped
    <2>2. ASSUME NEW k \in 1..Len(reply.ids) PROVE OnDisk(reply.ids[k])'
      <3>1. CASE k = Len(reply.ids)
        BY <1>1, <1>3, <2>1, <3>1 DEF M!Last, OnDisk
      <3>2. CASE k # Len(reply.ids)
        <4>1. OnDisk(reply.ids[k]) /\ reply.ids[k] \in Ids
          BY <1>1, <2>1, <3>2 DEF ReplyIsWritten
        <4> DEFINE j == reply.ids[k]
        <4>2. PICK x \in Ids : x = j
          BY <4>1
        <4>3. OnDisk(x)'
          BY <1>3, <4>1, <4>2
        <4> QED BY <2>1, <4>2, <4>3 DEF OnDisk
      <3> QED BY <3>1, <3>2
    <2> QED BY <2>1, <2>2 DEF ReplyIsWritten, OnDisk
  <1> QED BY <1>1, <1>3, <1>5, <1>6, MediaQuiet

LEMMA MediaTell ==
    ASSUME M!IdsAssumption, M!TimesAssumption, MediaInv, M!Tell
    PROVE  MediaInv'
  <1> USE DEF MediaInv
  <1>1. /\ reply.pc = "render" /\ UNCHANGED <<clean, now>>
        /\ file' = [i \in Ids |-> IF i \in M!ToSet(reply.ids)
                                  THEN [file[i] EXCEPT !.told = TRUE] ELSE file[i]]
    BY DEF M!Tell
  <1>2. PICK kept : reply' = [reply EXCEPT !.pc = "told", !.kept = kept]
    BY DEF M!Tell
  <1> DEFINE r == [pc |-> reply.pc, blocks |-> reply.blocks, todo |-> reply.todo,
                   shown |-> reply.shown, ids |-> reply.ids, kept |-> reply.kept]
             new == [pc |-> "told", blocks |-> reply.blocks, todo |-> reply.todo,
                     shown |-> reply.shown, ids |-> reply.ids, kept |-> kept]
  <1>3. reply' = new
    <2>1. reply = r
      BY DEF MediaTyped
    <2>2. reply' = [r EXCEPT !.pc = "told", !.kept = kept]
      BY <1>2, <2>1
    <2> QED BY <2>2
  <1>4. \A i \in M!ToSet(reply.ids) : i \in Ids /\ OnDisk(i)
    <2>1. reply.ids \in Seq(Ids) /\ reply.pc # "store"
      BY <1>1 DEF MediaTyped
    <2>2. ASSUME NEW i \in M!ToSet(reply.ids) PROVE i \in Ids /\ OnDisk(i)
      <3>1. PICK k \in 1..Len(reply.ids) : i = reply.ids[k]
        BY <2>1 DEF M!ToSet
      <3>2. OnDisk(reply.ids[k])
        BY <2>1 DEF ReplyIsWritten
      <3> QED BY <2>1, <3>1, <3>2
    <2> QED BY <2>2
  <1>5. /\ file' \in [Ids -> [at : {"none", "thread", "store", "gone"}, told : BOOLEAN,
                              stuck : BOOLEAN, by : {"reply", "upload"}, time : Nat,
                              nth : Nat]]
        /\ \A i \in Ids : /\ file'[i].at = file[i].at /\ file'[i].time = file[i].time
                          /\ file'[i].nth = file[i].nth /\ file'[i].stuck = file[i].stuck
                          /\ file'[i].told => file[i].told \/ i \in M!ToSet(reply.ids)
    BY <1>1 DEF MediaTyped
  <1>6. \A i \in Ids : OnDisk(i)' <=> OnDisk(i)
    BY <1>5 DEF OnDisk
  <1>7. MediaTyped'
    BY <1>1, <1>3, <1>5 DEF MediaTyped
  <1>8. ToldIsWritten'
    BY <1>4, <1>5, <1>6 DEF ToldIsWritten
  <1>9. ReplyIsWritten'
    BY <1>1, <1>3, <1>6 DEF ReplyIsWritten, MediaTyped
  <1>10. Keeps
    BY <1>1, <1>5, <1>6 DEF Keeps, MediaTyped
  <1> QED BY <1>1, <1>5, <1>7, <1>8, <1>9, <1>10, MediaQuiet

LEMMA MediaCleanStart ==
    ASSUME M!IdsAssumption, M!TimesAssumption, MediaInv, M!CleanStart
    PROVE  MediaInv'
  <1> USE DEF MediaInv
  <1>1. /\ UNCHANGED <<file, reply, now>> /\ clean'.pc = "old" /\ clean'.from = now
        /\ clean' = [pc |-> clean'.pc, todo |-> clean'.todo, total |-> clean'.total,
                     from |-> clean'.from]
    BY DEF M!CleanStart
  <1>2. MediaTyped'
    BY <1>1 DEF MediaTyped
  <1>3. ToldIsWritten' /\ ReplyIsWritten'
    BY <1>1 DEF ToldIsWritten, ReplyIsWritten, OnDisk
  <1>4. Keeps
    BY <1>1 DEF Keeps, OnDisk, MediaTyped
  <1> QED BY <1>1, <1>2, <1>3, <1>4, MediaQuiet

\* The cleanup is somewhere else.
LEMMA CleanIs ==
    ASSUME MediaTyped, NEW pc, NEW todo, NEW total, M!Clean(pc, todo, total)
    PROVE  clean' = [pc |-> pc, todo |-> todo, total |-> total, from |-> clean.from]
  <1> DEFINE c == [pc |-> clean.pc, todo |-> clean.todo, total |-> clean.total,
                   from |-> clean.from]
  <1>1. clean = c
    BY DEF MediaTyped
  <1>2. clean' = [c EXCEPT !.pc = pc, !.todo = todo, !.total = total]
    BY <1>1 DEF M!Clean
  <1> QED BY <1>2

\* A file is removed, or cannot be.
LEMMA RemoveKeeps ==
    ASSUME MediaInv, NEW i, M!Remove1(i) \/ M!Fail1(i) \/ UNCHANGED file, UNCHANGED now
    PROVE  /\ file' \in [Ids -> [at : {"none", "thread", "store", "gone"}, told : BOOLEAN,
                                 stuck : BOOLEAN, by : {"reply", "upload"}, time : Nat,
                                 nth : Nat]]
           /\ \A j \in Ids : /\ OnDisk(j) => OnDisk(j)'
                             /\ file'[j].time = file[j].time /\ file'[j].nth = file[j].nth
                             /\ file[j].stuck => file'[j].stuck
                             /\ file'[j].at = "gone" => file[j].at = "gone" \/ j = i
           /\ Keeps /\ ToldIsWritten'
  <1> USE DEF MediaInv
  <1>1. /\ file' \in [Ids -> [at : {"none", "thread", "store", "gone"}, told : BOOLEAN,
                              stuck : BOOLEAN, by : {"reply", "upload"}, time : Nat,
                              nth : Nat]]
        /\ \A j \in Ids : /\ file'[j].time = file[j].time /\ file'[j].nth = file[j].nth
                          /\ file'[j].told = file[j].told
                          /\ file[j].stuck => file'[j].stuck
                          /\ file'[j].at = file[j].at \/ (j = i /\ file'[j].at = "gone")
    <2>1. CASE M!Remove1(i)
      <3>1. file' = [file EXCEPT ![i].at = "gone"]
        BY <2>1 DEF M!Remove1
      <3> QED BY <3>1, ZenonT(60) DEF MediaTyped
    <2>2. CASE M!Fail1(i)
      <3>1. file' = [file EXCEPT ![i].stuck = TRUE]
        BY <2>2 DEF M!Fail1
      <3> QED BY <3>1 DEF MediaTyped
    <2>3. CASE UNCHANGED file
      BY <2>3 DEF MediaTyped
    <2> QED BY <2>1, <2>2, <2>3
  <1>2. ASSUME NEW j \in Ids, OnDisk(j) PROVE OnDisk(j)'
    BY <1>1, <1>2 DEF OnDisk
  <1>3. Keeps /\ ToldIsWritten'
    BY <1>1, <1>2 DEF Keeps, ToldIsWritten, MediaTyped
  <1> QED BY <1>1, <1>2, <1>3

LEMMA MediaCleanOld ==
    ASSUME M!IdsAssumption, M!TimesAssumption, MediaInv, M!CleanOld
    PROVE  MediaInv'
  <1> USE DEF MediaInv
  <1> DEFINE i == Head(clean.todo)
  <1>1. /\ UNCHANGED <<reply, now>> /\ M!Clean("old", Tail(clean.todo), 0)
        /\ \/ M!Remove1(i) /\ clean.from - file[i].time > MaxAge
           \/ M!Fail1(i)
           \/ UNCHANGED file
    BY DEF M!CleanOld
  <1> HIDE DEF i
  <1>2. clean' = [pc |-> "old", todo |-> Tail(clean.todo), total |-> 0, from |-> clean.from]
    BY <1>1, CleanIs
  <1>3. /\ file' \in [Ids -> [at : {"none", "thread", "store", "gone"}, told : BOOLEAN,
                              stuck : BOOLEAN, by : {"reply", "upload"}, time : Nat,
                              nth : Nat]]
        /\ \A j \in Ids : /\ OnDisk(j) => OnDisk(j)'
                          /\ file'[j].time = file[j].time
                          /\ file'[j].at = "gone" => file[j].at = "gone" \/ j = i
        /\ Keeps /\ ToldIsWritten'
    BY <1>1, RemoveKeeps
  <1>4. ASSUME NEW j \in Ids, file'[j].at = "gone"
        PROVE  file[j].at = "gone" \/ now' - file'[j].time > Ttl
    <2>1. CASE M!Remove1(i) /\ clean.from - file[i].time > MaxAge /\ j = i
      <3>1. /\ now' = now /\ file'[j].time = file[j].time /\ file[j].time \in Nat
            /\ now \in Nat /\ clean.from \in Nat /\ clean.from <= now
            /\ Ttl \in Nat /\ MaxAge \in Nat /\ Ttl <= MaxAge
        BY <1>1, <1>3 DEF MediaTyped, M!TimesAssumption
      <3> QED BY <2>1, <3>1
    <2>2. CASE j # i
      BY <1>3, <1>4, <2>2
    <2>3. CASE M!Fail1(i)
      <3>1. file' = [file EXCEPT ![i].stuck = TRUE]
        BY <2>3 DEF M!Fail1
      <3>2. file'[j].at = file[j].at
        BY <3>1 DEF MediaTyped
      <3> QED BY <1>4, <3>2
    <2>4. CASE UNCHANGED file
      BY <1>4, <2>4
    <2> QED BY <1>1, <2>1, <2>2, <2>3, <2>4
  <1>5. MediaTyped'
    BY <1>1, <1>2, <1>3 DEF MediaTyped
  <1>6. ReplyIsWritten'
    BY <1>1, <1>3, SMTT(30) DEF ReplyIsWritten, MediaTyped
  <1> QED BY <1>2, <1>3, <1>4, <1>5, <1>6, MediaQuiet

LEMMA MediaCleanSurvey ==
    ASSUME M!IdsAssumption, M!TimesAssumption, MediaInv, M!CleanSurvey
    PROVE  MediaInv'
  <1> USE DEF MediaInv
  <1> DEFINE n == Cardinality(M!Present)
  <1>1. PICK todo \in M!ByAge(M!Present) : M!Clean("full", todo, n)
    BY MediaCardinality DEF M!CleanSurvey
  <1>2. UNCHANGED <<file, reply, now>>
    BY DEF M!CleanSurvey
  <1>3. clean' = [pc |-> "full", todo |-> todo, total |-> n, from |-> clean.from]
    BY <1>1, CleanIs
  <1>4. M!Present \in SUBSET Ids /\ \A i \in M!Present : OnDisk(i)
    BY DEF M!Present, OnDisk
  <1>5. n \in Nat /\ IsFiniteSet(M!Present)
    BY <1>4, IdsFinite
  <1>6. /\ todo \in [1..n -> M!Present] /\ M!ToSet(todo) = M!Present
        /\ \A j, k \in 1..n : j < k => M!Older(todo[j], todo[k])
    <2>1. M!Cardinality(M!Present) = n
      BY MediaCardinality
    <2> QED BY <1>1, <2>1 DEF M!ByAge
  <1> HIDE DEF n
  <1>7. todo \in Seq(Ids) /\ Len(todo) = n
    <2>1. todo \in [1..n -> Ids]
      BY <1>4, <1>6
    <2>2. todo \in Seq(Ids)
      BY <1>5, <2>1
    <2> QED BY <1>5, <2>1, <2>2
  <1>8. MediaTyped'
    BY <1>2, <1>3 DEF MediaTyped
  <1>9. ToldIsWritten' /\ ReplyIsWritten'
    BY <1>2 DEF ToldIsWritten, ReplyIsWritten, OnDisk
  <1>10. Keeps
    BY <1>2 DEF Keeps, OnDisk, MediaTyped
  <1>11. GoneIsOwed'
    BY <1>2, <1>8, <1>10, OwedStays DEF GoneIsOwed
  <1>12. PassTwo'
    <2>1. clean'.todo = todo /\ clean'.total = n
      BY <1>3
    <2>2. M!Present \subseteq (Waiting \cup Stuck)'
      <3>1. M!Present = {todo[k] : k \in 1..Len(todo)}
        BY <1>6, <1>7 DEF M!ToSet
      <3> QED BY <2>1, <3>1 DEF Waiting
    <2>3. (Waiting \cup Stuck)' \in SUBSET Ids
      BY <1>7, <2>1 DEF Waiting, Stuck
    <2> DEFINE B == (Waiting \cup Stuck)'
    <2>4. IsFiniteSet(B) /\ Cardinality(B) \in Nat
      BY <2>3, IdsFinite
    <2>5. n <= Cardinality(B)
      BY <1>5, <2>2, <2>4, FS_Subset DEF n
    <2>6. \A k \in 1..Len(todo) : OnDisk(todo[k])'
      BY <1>2, <1>4, <1>6, <1>7 DEF OnDisk
    <2>7. \A j, k \in 1..Len(todo) : j < k => M!Older(todo[j], todo[k])'
      BY <1>2, <1>6, <1>7 DEF M!Older
    <2> QED BY <1>5, <1>7, <2>1, <2>5, <2>6, <2>7 DEF PassTwo, OnDisk, M!Older
  <1> QED BY <1>8, <1>9, <1>11, <1>12

LEMMA MediaCleanFull ==
    ASSUME M!IdsAssumption, M!TimesAssumption, MediaInv, M!CleanFull
    PROVE  MediaInv'
  <1> USE DEF MediaInv
  <1>1. clean.pc = "full" /\ UNCHANGED <<reply, now>>
    BY DEF M!CleanFull
  <1>2. CASE M!Clean("idle", <<>>, 0) /\ UNCHANGED file
    <2>1. clean' = [pc |-> "idle", todo |-> <<>>, total |-> 0, from |-> clean.from]
      BY <1>2, CleanIs
    <2>2. MediaTyped'
      BY <1>1, <1>2, <2>1 DEF MediaTyped
    <2>3. ToldIsWritten' /\ ReplyIsWritten' /\ Keeps
      BY <1>1, <1>2 DEF ToldIsWritten, ReplyIsWritten, OnDisk, Keeps, MediaTyped
    <2> QED BY <1>2, <2>1, <2>2, <2>3, MediaQuiet
  <1>3. ASSUME NEW total, clean.todo # <<>>, clean.total > MaxFiles,
               M!Clean("full", Tail(clean.todo), total),
               \/ M!Remove1(Head(clean.todo)) /\ total = clean.total - 1
               \/ M!Fail1(Head(clean.todo)) /\ total = clean.total
        PROVE  MediaInv'
    <2>1. clean' = [pc |-> "full", todo |-> Tail(clean.todo), total |-> total,
                    from |-> clean.from]
      BY <1>3, CleanIs
    <2>2. /\ clean.todo \in Seq(Ids) /\ clean.total \in Int
          /\ \A k \in 1..Len(clean.todo) : clean.todo[k] \in Ids /\ OnDisk(clean.todo[k])
          /\ \A j, k \in 1..Len(clean.todo) :
               j < k => M!Older(clean.todo[j], clean.todo[k])
          /\ clean.total <= Cardinality(Waiting \cup Stuck)
      BY <1>1 DEF PassTwo
    <2>3. PICK h \in Ids : h = Head(clean.todo)
      BY <1>3, <2>2
    <2>4. /\ Tail(clean.todo) \in Seq(Ids) /\ Len(Tail(clean.todo)) = Len(clean.todo) - 1
          /\ \A k \in 1..(Len(clean.todo) - 1) : Tail(clean.todo)[k] = clean.todo[k + 1]
          /\ h = clean.todo[1] /\ Len(clean.todo) \in Nat /\ Len(clean.todo) > 0
      BY <1>3, <2>2, <2>3
    <2>5. /\ file' \in [Ids -> [at : {"none", "thread", "store", "gone"}, told : BOOLEAN,
                                stuck : BOOLEAN, by : {"reply", "upload"}, time : Nat,
                                nth : Nat]]
          /\ \A j \in Ids : /\ OnDisk(j) => OnDisk(j)'
                            /\ file'[j].time = file[j].time /\ file'[j].nth = file[j].nth
                            /\ file[j].stuck => file'[j].stuck
                            /\ file'[j].at = "gone" => file[j].at = "gone" \/ j = h
          /\ Keeps /\ ToldIsWritten'
      BY <1>1, <1>3, <2>3, RemoveKeeps
    <2>6. MediaTyped'
      BY <1>1, <2>1, <2>5 DEF MediaTyped
    <2>7. ReplyIsWritten'
      BY <1>1, <2>5 DEF ReplyIsWritten, MediaTyped
    <2> DEFINE A == Waiting \cup Stuck
               B == (Waiting \cup Stuck)'
               D == A \ {h}
               O == M!Ahead(h)'
    <2>8. A \in SUBSET Ids /\ B \in SUBSET Ids /\ D \in SUBSET Ids /\ O \in SUBSET Ids
      <3>1. clean'.todo \in Seq(Ids)
        BY <2>1, <2>4
      <3>2. \A k \in 1..Len(clean'.todo) : clean'.todo[k] \in Ids
        BY <3>1
      <3> QED BY <2>2, <3>2 DEF Waiting, Stuck, M!Ahead
    <2>9. /\ IsFiniteSet(A) /\ IsFiniteSet(B) /\ IsFiniteSet(D) /\ IsFiniteSet(O)
          /\ Cardinality(A) \in Nat /\ Cardinality(B) \in Nat /\ Cardinality(D) \in Nat
          /\ Cardinality(O) \in Nat
      BY <2>8, IdsFinite
    <2>10. Cardinality(D) >= Cardinality(A) - 1
      <3> HIDE DEF A
      <3>1. CASE h \in A
        BY <2>9, <3>1, FS_RemoveElement
      <3>2. CASE h \notin A
        <4>1. D = A
          BY <3>2
        <4> QED BY <2>9, <4>1
      <3> QED BY <3>1, <3>2
    \* What else waits is newer, and what was stuck is so still.
    <2>11. D \subseteq O
      <3>1. ASSUME NEW j \in Waiting, j # h PROVE j \in O
        <4>1. PICK k \in 1..Len(clean.todo) : j = clean.todo[k]
          BY DEF Waiting
        <4>2. 1 < k /\ 1 \in 1..Len(clean.todo)
          BY <2>4, <3>1, <4>1
        <4>3. file[h].nth < file[j].nth /\ j \in Ids
          BY <2>2, <2>4, <4>1, <4>2 DEF M!Older
        <4>4. file'[h].nth < file'[j].nth
          BY <2>5, <4>3
        <4>5. file'[j].nth > file'[h].nth
          <5>1. file'[h].nth \in Nat /\ file'[j].nth \in Nat
            BY <2>5, <4>3
          <5> QED BY <4>4, <5>1
        <4> QED BY <3>1, <4>3, <4>5 DEF M!Ahead
      <3>2. ASSUME NEW j \in Stuck, j # h PROVE j \in O
        <4>1. file'[j].stuck /\ j \in Ids
          BY <2>5 DEF Stuck
        <4> QED BY <3>2, <4>1 DEF M!Ahead
      <3> QED BY <3>1, <3>2
    <2>12. D \subseteq B
      <3>1. ASSUME NEW j \in Waiting, j # h PROVE j \in Waiting'
        <4>1. PICK k \in 1..Len(clean.todo) : j = clean.todo[k]
          BY DEF Waiting
        <4>2. k - 1 \in 1..(Len(clean.todo) - 1) /\ (k - 1) + 1 = k
          BY <2>4, <3>1, <4>1
        <4>3. clean'.todo[k - 1] = j /\ k - 1 \in 1..Len(clean'.todo)
          BY <2>1, <2>4, <4>1, <4>2
        <4> QED BY <4>3 DEF Waiting
      <3>2. \A j \in Stuck : j \in Stuck'
        BY <2>5 DEF Stuck
      <3> QED BY <3>1, <3>2
    <2>13. M!Fail1(Head(clean.todo)) => h \in B
      BY <2>3, <2>5 DEF M!Fail1, Stuck, MediaTyped
    <2>14. h \in A
      BY <2>4 DEF Waiting
    <2>15. GoneIsOwed'
      <3>1. ASSUME NEW i \in Ids, file'[i].at = "gone"
            PROVE  now' - file'[i].time > Ttl \/ Cardinality(M!Ahead(i)') >= MaxFiles
        <4>1. CASE i = h
          <5>1. Cardinality(D) <= Cardinality(O)
            BY <2>9, <2>11, FS_Subset
          <5>2. Cardinality(O) >= MaxFiles
            <6> HIDE DEF A, B, D, O
            <6>1. clean.total <= Cardinality(A) /\ clean.total \in Int /\ MaxFiles \in Nat
              BY <2>2 DEF A, M!TimesAssumption
            <6> QED BY <1>3, <2>9, <2>10, <5>1, <6>1
          <5> QED BY <4>1, <5>2
        <4>2. CASE i # h
          BY <2>5, <2>6, <3>1, <4>2, OwedStays
        <4> QED BY <4>1, <4>2
      <3> QED BY <3>1 DEF GoneIsOwed
    <2>16. total \in Int /\ total <= Cardinality(B)
      <3>1. clean.total <= Cardinality(A) /\ clean.total \in Int
        BY <2>2
      <3>2. CASE M!Remove1(Head(clean.todo)) /\ total = clean.total - 1
        <4>1. Cardinality(D) <= Cardinality(B)
          BY <2>9, <2>12, FS_Subset
        <4> HIDE DEF A, B, D, O
        <4> QED BY <2>9, <2>10, <3>1, <3>2, <4>1
      <3>3. CASE M!Fail1(Head(clean.todo)) /\ total = clean.total
        <4>1. A \subseteq B
          BY <2>12, <2>13, <3>3
        <4>2. Cardinality(A) <= Cardinality(B)
          BY <2>9, <4>1, FS_Subset
        <4> HIDE DEF A, B, D, O
        <4> QED BY <2>9, <3>1, <3>3, <4>2
      <3> QED BY <1>3, <3>2, <3>3
    <2>17. PassTwo'
      <3> DEFINE rest == Tail(clean.todo)
      <3>1. rest \in Seq(Ids) /\ clean'.todo = rest /\ clean'.total = total
        BY <2>1, <2>4
      <3>2. \A k \in 1..Len(rest) :
              k + 1 \in 1..Len(clean.todo) /\ rest[k] = clean.todo[k + 1]
        BY <2>4
      <3> HIDE DEF rest
      <3>3. ASSUME NEW k \in 1..Len(rest) PROVE file'[rest[k]].at \in {"store", "gone"}
        <4>1. PICK x \in Ids : x = rest[k] /\ OnDisk(x)
          BY <2>2, <3>2
        <4>2. OnDisk(x)'
          BY <2>5, <4>1
        <4> QED BY <4>1, <4>2 DEF OnDisk
      <3>4. ASSUME NEW j \in 1..Len(rest), NEW k \in 1..Len(rest), j < k
            PROVE  file'[rest[j]].nth < file'[rest[k]].nth
        <4>1. j + 1 < k + 1
          BY <3>1, <3>4
        <4>2. rest[j] \in Ids /\ rest[k] \in Ids /\ file[rest[j]].nth < file[rest[k]].nth
          BY <2>2, <3>2, <4>1 DEF M!Older
        <4> QED BY <2>5, <4>2
      <3>5. clean'.total <= Cardinality(B)
        BY <2>16, <3>1
      <3> HIDE DEF A, B, D, O
      <3> QED BY <2>16, <3>1, <3>3, <3>4, <3>5 DEF PassTwo, OnDisk, M!Older, B
    <2> QED BY <2>5, <2>6, <2>7, <2>15, <2>17
  <1>4. CASE ~(clean.todo = <<>> \/ clean.total <= MaxFiles)
    <2>1. clean.todo # <<>> /\ clean.total > MaxFiles
      <3>1. clean.total \in Int /\ MaxFiles \in Nat
        BY <1>1 DEF PassTwo, M!TimesAssumption
      <3> QED BY <1>4, <3>1
    <2> QED BY <1>3, <1>4, <2>1 DEF M!CleanFull
  <1> QED BY <1>2, <1>4 DEF M!CleanFull

LEMMA MediaInit == ASSUME M!Init PROVE MediaInv
  <1>1. MediaTyped
    BY DEF M!Init, MediaTyped, M!NoReply
  <1>2. ToldIsWritten /\ ReplyIsWritten /\ GoneIsOwed /\ PassTwo
    BY DEF M!Init, ToldIsWritten, ReplyIsWritten, GoneIsOwed, PassTwo, M!NoReply
  <1> QED BY <1>1, <1>2 DEF MediaInv

LEMMA MediaNext ==
    ASSUME M!IdsAssumption, M!TimesAssumption, MediaInv, [M!Next]_(M!vars)
    PROVE  MediaInv'
  <1>1. CASE UNCHANGED M!vars
    <2>1. UNCHANGED <<file, reply, clean, now>>
      BY <1>1 DEF M!vars
    <2>2. MediaTyped' /\ ToldIsWritten' /\ ReplyIsWritten'
      BY <2>1 DEF MediaInv, MediaTyped, ToldIsWritten, ReplyIsWritten, OnDisk
    <2>3. Keeps
      BY <2>1 DEF Keeps, OnDisk, MediaInv, MediaTyped
    <2> QED BY <2>1, <2>2, <2>3, MediaQuiet
  <1> QED BY <1>1, MediaTick, MediaRespond, MediaTell, MediaCleanStart, MediaCleanOld,
        MediaCleanSurvey, MediaCleanFull, MediaUpload, MediaUploaded, MediaRender,
        MediaRendered DEF M!Next

LEMMA MediaServed ==
    ASSUME M!TimesAssumption, MediaInv
    PROVE  M!FetchIsServed
  <1> SUFFICES ASSUME NEW i \in Ids, M!Valid(i), ~M!Served(i)
               PROVE  Cardinality(M!Ahead(i)) >= MaxFiles
    BY MediaCardinality DEF M!FetchIsServed
  <1>1. file[i].at = "gone"
    BY DEF M!Valid, M!Served, M!Present, MediaInv, ToldIsWritten, OnDisk
  <1>2. /\ now - file[i].time <= Ttl /\ now \in Nat /\ file[i].time \in Nat /\ Ttl \in Nat
    BY DEF M!Valid, MediaInv, MediaTyped, M!TimesAssumption
  <1>3. ~(now - file[i].time > Ttl)
    BY <1>2
  <1> QED BY <1>1, <1>3 DEF MediaInv, GoneIsOwed

-----------------------------------------------------------------------------
(* The composition: a step of a part is one of its own next-state relation, and  *)
(* a behaviour never leaves its part.                                            *)

\* Each field of a note is what was last written to it on purpose, whatever the
\* worker, the editors and the lock's queue do in between.
THEOREM StoresFields == Spec => []FieldsAreLast
  <1> DEFINE Inv == part = "notes" => NotesInv
  <1>1. Init => Inv
    BY NotesInit DEF Init
  <1>2. Inv /\ [Next]_vars => Inv'
    <2> SUFFICES ASSUME Inv, [Next]_vars, part' = "notes" PROVE NotesInv'
      OBVIOUS
    <2>1. part = "notes" /\ [N!Next]_(N!vars)
      BY DEF Next, Only, vars, nvars, N!vars
    <2> QED BY <2>1, NotesNext, NotesAssumption
  <1>3. Inv => FieldsAreLast
    BY DEF FieldsAreLast, NotesInv, N!FieldsAreLast
  <1> QED BY <1>1, <1>2, <1>3, PTL DEF Spec

\* What was answered with success is on the disk, whole: no fact and no document
\* that a caller was told of is lost by a crash, nor has it lost a chunk.
THEOREM StoresTold == Spec => []ToldIsWhole
  <1> DEFINE Inv == part = "memory" => MemoryInv
  <1>1. Init => Inv
    BY MemoryInit, MemoryAssumption DEF Init
  <1>2. Inv /\ [Next]_vars => Inv'
    <2> SUFFICES ASSUME Inv, [Next]_vars, part' = "memory" PROVE MemoryInv'
      OBVIOUS
    <2>1. part = "memory" /\ [F!Next]_(F!vars)
      BY DEF Next, Only, vars, fvars, F!vars
    <2> QED BY <2>1, MemoryNext, MemoryAssumption
  <1>3. Inv => ToldIsWhole
    BY DEF ToldIsWhole, MemoryInv, MemoryTyped, Kept, Whole, NoStray, F!ToldIsWhole
  <1> QED BY <1>1, <1>2, <1>3, PTL DEF Spec

\* No account's tokens are kept under another, in any of the caches or on the disk.
THEOREM StoresTokens == Spec => []OwnTokens
  <1> DEFINE Inv == part = "integrations" => AccountsInv
  <1>1. Init => Inv
    BY AccountsInit, AccountsAssumption DEF Init
  <1>2. Inv /\ [Next]_vars => Inv'
    <2> SUFFICES ASSUME Inv, [Next]_vars, part' = "integrations" PROVE AccountsInv'
      OBVIOUS
    <2>1. part = "integrations" /\ [I!Next]_(I!vars)
      BY DEF Next, Only, vars, ivars, I!vars
    <2> QED BY <2>1, AccountsNext, AccountsAssumption
  <1>3. Inv => OwnTokens
    BY DEF OwnTokens, AccountsInv
  <1> QED BY <1>1, <1>2, <1>3, PTL DEF Spec

\* What a row of the dashboard or a last result names is in the archive, under that
\* second and with that content, and a dump is kept once, and once more only for each
\* writing that was cut off: whatever devices crash, whenever the server is killed.
THEOREM StoresArchive == Spec => []ArchiveIsTrue
  <1> DEFINE Inv == part = "coredumps" => DumpsInv
  <1>1. Init => Inv
    BY DumpsInit, CoredumpsAssumption DEF Init
  <1>2. Inv /\ [Next]_vars => Inv'
    <2> SUFFICES ASSUME Inv, [Next]_vars, part' = "coredumps" PROVE DumpsInv'
      OBVIOUS
    <2>1. part = "coredumps" /\ [C!Next]_(C!vars)
      BY DEF Next, Only, vars, cvars, C!vars
    <2> QED BY <2>1, DumpsNext, CoredumpsAssumption
  <1>3. Inv => ArchiveIsTrue
    BY DumpsArchive, CoredumpsAssumption DEF ArchiveIsTrue
  <1> QED BY <1>1, <1>2, <1>3, PTL DEF Spec

\* A media file whose URL is valid is there, unless newer files alone fill the store,
\* whatever is stored, told and cleaned meanwhile (MediaStore, _cleanup_sync).
THEOREM StoresMedia == Spec => []FetchIsServed
  <1> DEFINE Inv == part = "media" => MediaInv
  <1>1. Init => Inv
    BY MediaInit DEF Init
  <1>2. Inv /\ [Next]_vars => Inv'
    <2> SUFFICES ASSUME Inv, [Next]_vars, part' = "media" PROVE MediaInv'
      OBVIOUS
    <2>1. part = "media" /\ [M!Next]_(M!vars)
      BY DEF Next, Only, vars, mvars, M!vars
    <2> QED BY <2>1, MediaNext, MediaAssumption
  <1>3. Inv => FetchIsServed
    BY MediaServed, MediaAssumption DEF FetchIsServed
  <1> QED BY <1>1, <1>2, <1>3, PTL DEF Spec
=============================================================================

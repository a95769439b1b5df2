-------------------------------- MODULE Memory --------------------------------
(***************************************************************************)
(* The memory service: facts that the model is told to remember, and       *)
(* documents, which are cut into chunks.  Both are embedded by a model     *)
(* before they are written.  The service has no transaction of its own: it *)
(* writes through the connection that the whole server shares, where the   *)
(* commit of anyone commits the writes of everyone, and where what nobody  *)
(* has committed is lost in a crash.                                       *)
(***************************************************************************)
EXTENDS Integers, FiniteSets

CONSTANTS
    Facts,     \* facts that are stored, by a tool, a route or the gateway's mirror
    Docs,      \* documents that are uploaded
    NumChunks  \* the chunks of a document

ConstantsAssumption == NumChunks \in Nat \ {0} /\ Facts \cap Docs = {}

VARIABLES
    work,    \* the tables as the connection sees them
    saved,   \* as they were committed
    useVec,  \* _vec_created: memory_facts_vec was seen by this process
    task,    \* store_fact and ingest_document
    told,    \* history: what was answered with success
    deleted  \* history: what was deleted

vars == <<work, saved, useVec, task, told, deleted>>

Items == Facts \cup Docs
Tables == [facts : SUBSET Facts, vec : SUBSET Facts, docs : SUBSET Docs,
           chunks : [Docs -> 0..NumChunks]]
Empty == [facts |-> {}, vec |-> {}, docs |-> {}, chunks |-> [d \in Docs |-> 0]]

TypeOK ==
    /\ work \in Tables /\ saved \in Tables /\ useVec \in BOOLEAN
    /\ task \in [Items -> {"none", "embed", "vec", "commit", "over"}]
    /\ told \subseteq Items /\ deleted \subseteq Items

Init ==
    /\ work = Empty /\ saved = Empty /\ useVec = FALSE
    /\ task = [x \in Items |-> "none"] /\ told = {} /\ deleted = {}

Goto(x, pc) == task' = [task EXCEPT ![x] = pc]

\* Any write of the server commits the connection: a message, an event, a session.
Commit ==
    /\ saved # work /\ saved' = work
    /\ UNCHANGED <<work, useVec, task, told, deleted>>

-----------------------------------------------------------------------------
(* Facts.                                                                  *)

StoreFact(f) ==
    /\ task[f] = "none" /\ Goto(f, "embed")
    /\ UNCHANGED <<work, saved, useVec, told, deleted>>

\* The row, with an embedding or, when the embedder fails, without; only with one is
\* there a row to write in the vector table, which the first of a process creates
\* and, in doing so, commits.
InsertFact(f) ==
    /\ f \in Facts /\ task[f] = "embed"
    /\ work' = [work EXCEPT !.facts = @ \cup {f}]
    /\ \/ Goto(f, "vec") /\ useVec' = TRUE /\ saved' = IF useVec THEN saved ELSE work'
       \/ Goto(f, "commit") /\ UNCHANGED <<saved, useVec>>
    /\ UNCHANGED <<told, deleted>>

\* A failure is logged.
InsertVec(f) ==
    /\ f \in Facts /\ task[f] = "vec" /\ Goto(f, "commit")
    /\ \/ work' = [work EXCEPT !.vec = @ \cup {f}]
       \/ UNCHANGED work
    /\ UNCHANGED <<saved, useVec, told, deleted>>

\* delete_fact: both rows, the second only if this process knows the table.
DeleteFact(f) ==
    /\ f \in work.facts /\ deleted' = deleted \cup {f}
    /\ work' = [work EXCEPT !.facts = @ \ {f}, !.vec = IF useVec THEN @ \ {f} ELSE @]
    /\ saved' = work'
    /\ UNCHANGED <<useVec, task, told>>

\* search_facts, for a query that was embedded: once there is a vector table, by it
\* alone; before, through every fact.
Searched == IF useVec THEN work.vec \cap work.facts ELSE work.facts

-----------------------------------------------------------------------------
(* Documents.                                                              *)

\* ingest_document: the row, then a chunk after each embedding.
Ingest(d) ==
    /\ task[d] = "none" /\ Goto(d, "embed")
    /\ work' = [work EXCEPT !.docs = @ \cup {d}]
    /\ UNCHANGED <<saved, useVec, told, deleted>>

\* Mutant: a chunk is written whether or not its document is still there.
ChunkUnchecked(d) ==
    /\ d \in Docs /\ task[d] = "embed"
    /\ work' = [work EXCEPT !.chunks[d] = @ + 1]
    /\ Goto(d, IF work.chunks[d] + 1 = NumChunks THEN "commit" ELSE "embed")
    /\ UNCHANGED <<saved, useVec, told, deleted>>

\* The foreign key refuses the chunk of a document that was deleted meanwhile, and
\* the upload fails.
Chunk(d) ==
    /\ d \in Docs /\ task[d] = "embed"
    /\ IF d \in work.docs
       THEN /\ work' = [work EXCEPT !.chunks[d] = @ + 1]
            /\ Goto(d, IF work.chunks[d] + 1 = NumChunks THEN "commit" ELSE "embed")
       ELSE Goto(d, "over") /\ UNCHANGED work
    /\ UNCHANGED <<saved, useVec, told, deleted>>

\* delete_document: the chunks go with the row.
DeleteDoc(d) ==
    /\ d \in work.docs /\ deleted' = deleted \cup {d}
    /\ work' = [work EXCEPT !.docs = @ \ {d}, !.chunks[d] = 0] /\ saved' = work'
    /\ UNCHANGED <<useVec, task, told>>

-----------------------------------------------------------------------------

\* Mutant: the answer does not wait for the commit.
DoneEarly(x) ==
    /\ task[x] = "commit" /\ Goto(x, "over") /\ told' = told \cup {x}
    /\ UNCHANGED <<work, saved, useVec, deleted>>

\* The commit of the task itself, and its answer.
Done(x) ==
    /\ task[x] = "commit" /\ Goto(x, "over")
    /\ saved' = work /\ told' = told \cup {x}
    /\ UNCHANGED <<work, useVec, deleted>>

\* The turn that remembers is cancelled, or a statement fails: nothing is rolled
\* back.
Fail(x) ==
    /\ task[x] \in {"embed", "vec", "commit"} /\ Goto(x, "over")
    /\ UNCHANGED <<work, saved, useVec, told, deleted>>

Crash ==
    /\ work' = saved /\ useVec' = FALSE
    /\ task' = [x \in Items |-> IF task[x] = "none" THEN "none" ELSE "over"]
    /\ UNCHANGED <<saved, told, deleted>>

Next ==
    \/ \E f \in Facts : StoreFact(f) \/ InsertFact(f) \/ InsertVec(f) \/ DeleteFact(f)
    \/ \E d \in Docs : Ingest(d) \/ Chunk(d) \/ DeleteDoc(d)
    \/ \E x \in Items : Done(x) \/ Fail(x)
    \/ Commit \/ Crash

Spec == Init /\ [][Next]_vars

-----------------------------------------------------------------------------
(* Properties.                                                             *)

\* Whoever else commits, fails or crashes meanwhile, what was answered with success
\* is on the disk, whole, until it is deleted, and no chunk is there without its
\* document.
ToldIsWhole ==
    /\ \A x \in told \ deleted :
         /\ x \in saved.facts \cup saved.docs
         /\ x \in Docs => saved.chunks[x] = NumChunks
    /\ \A d \in Docs : saved.chunks[d] > 0 => d \in saved.docs

\* A search goes through every fact that is stored ("run cosine similarity against
\* every stored fact").
EveryFactIsSearched == told \cap work.facts \subseteq Searched
=============================================================================

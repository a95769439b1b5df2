-------------------------------- MODULE Notes --------------------------------
(***************************************************************************)
(* The notes service.  A note is stored with a placeholder title and       *)
(* summary, and two background tasks improve it later: one asks a model    *)
(* for a title and a summary, one for an embedding, which it tries again   *)
(* after some delays.  Meanwhile the note may be edited and deleted.  An   *)
(* update reads the row and writes all of its fields back under one lock.  *)
(***************************************************************************)
EXTENDS Integers, Sequences

CONSTANTS
    Notes,    \* notes
    Editors,  \* PUT requests
    Edits,    \* what a PUT names: sets of fields
    Retries,  \* the length of _EMBED_RETRY_DELAYS
    None

Fields == {"title", "transcript", "summary", "embedding"}
EditsAssumption == Edits \subseteq SUBSET (Fields \ {"embedding"})
RetriesAssumption == Retries \in Nat

VARIABLES
    row,    \* the rows: who wrote each field
    writer, \* the coroutines that write
    lock,   \* _write_lock: its holder and who waits
    last,   \* history: who wrote each field last
    open    \* the service has not been shut down

vars == <<row, writer, lock, last, open>>

\* A note's two background tasks and the requests are the writers.
Fill(n) == <<"fill", n>>
Embed(n) == <<"embed", n>>
Edit(e) == <<"edit", e>>
Tasks == {Fill(n) : n \in Notes} \cup {Embed(n) : n \in Notes}
Writers == Tasks \cup {Edit(e) : e \in Editors}

Idle == [pc |-> "idle", note |-> None, names |-> {}, read |-> None, tries |-> 0]
\* What Create writes.
New == <<"new", None>>
Nothing == <<"nothing", None>>
Values == Writers \cup {New, Nothing}
Rows == [Fields -> Values]

TypeOK ==
    /\ row \in [Notes -> Rows \cup {None}] /\ last \in [Notes -> Rows \cup {None}]
    /\ writer \in [Writers ->
         [pc : {"idle", "think", "lock", "read", "write", "over"}, note : Notes \cup {None},
          names : SUBSET Fields, read : Rows \cup {None}, tries : 0..Retries]]
    /\ lock \in Seq(Writers) /\ open \in BOOLEAN

Init ==
    /\ row = [n \in Notes |-> None] /\ last = row /\ open = TRUE
    /\ writer = [w \in Writers |-> Idle] /\ lock = <<>>

Placeholder == [f \in Fields |-> IF f = "embedding" THEN Nothing ELSE New]
Acquire(w) == lock' = Append(lock, w)
Release == lock' = Tail(lock)

\* create_from_text, create_from_audio (after the transcription): the INSERT and
\* the two tasks; a title that is given is kept.
Create(n) ==
    /\ open /\ row[n] = None /\ writer[Fill(n)].pc = "idle"
    /\ row' = [row EXCEPT ![n] = Placeholder] /\ last' = [last EXCEPT ![n] = Placeholder]
    /\ \E titled \in BOOLEAN : writer' =
         [writer EXCEPT ![Fill(n)] = [Idle EXCEPT !.pc = "think", !.note = n,
                          !.names = IF titled THEN {"summary"} ELSE {"title", "summary"}],
                        ![Embed(n)] = [Idle EXCEPT !.pc = "think", !.note = n,
                          !.names = {"embedding"}]]
    /\ UNCHANGED <<lock, open>>

\* _fill_title_summary, _fill_summary_only: the model's words, or what stands in
\* for them when it fails; _embed_note: an embedding, or another try.
Think(w) ==
    /\ w \in Tasks /\ writer[w].pc = "think"
    /\ \/ writer' = [writer EXCEPT ![w].pc = "lock"] /\ Acquire(w)
       \/ /\ w = Embed(writer[w].note) /\ UNCHANGED lock
          /\ writer' = IF writer[w].tries = Retries THEN [writer EXCEPT ![w].pc = "over"]
                       ELSE [writer EXCEPT ![w].tries = @ + 1]
    /\ UNCHANGED <<row, last, open>>

\* PUT /notes/{id}.
Put(e, n) ==
    /\ open /\ writer[Edit(e)].pc = "idle" /\ Acquire(Edit(e))
    /\ \E names \in Edits : writer' = [writer EXCEPT ![Edit(e)] =
         [Idle EXCEPT !.pc = "lock", !.note = n, !.names = names]]
    /\ UNCHANGED <<row, last, open>>

\* Mutant: the row is read without waiting for the lock.
LockBlindly(w) ==
    /\ writer[w].pc = "lock"
    /\ writer' = [writer EXCEPT ![w].pc = "read"]
    /\ UNCHANGED <<row, last, lock, open>>

\* update, with the lock: SELECT, and the end if there is no such row ...
Lock(w) ==
    /\ writer[w].pc = "lock" /\ lock # <<>> /\ Head(lock) = w
    /\ writer' = [writer EXCEPT ![w].pc = "read"]
    /\ UNCHANGED <<row, last, lock, open>>

Read(w) ==
    /\ writer[w].pc = "read"
    /\ LET found == row[writer[w].note] IN
       IF found = None
       THEN writer' = [writer EXCEPT ![w].pc = "over"] /\ Release
       ELSE writer' = [writer EXCEPT ![w].pc = "write", ![w].read = found] /\ UNCHANGED lock
    /\ UNCHANGED <<row, last, open>>

\* ... then the fields that are named change, and the UPDATE writes them all.
Written(w) == [f \in Fields |-> IF f \in writer[w].names THEN w ELSE writer[w].read[f]]
Named(w) == [f \in Fields |-> IF f \in writer[w].names THEN w ELSE last[writer[w].note][f]]

Write(w) ==
    /\ writer[w].pc = "write" /\ Release
    /\ writer' = [writer EXCEPT ![w] = [Idle EXCEPT !.pc = "over"]]
    /\ IF row[writer[w].note] = None THEN UNCHANGED <<row, last>>
       ELSE /\ row' = [row EXCEPT ![writer[w].note] = Written(w)]
            /\ last' = [last EXCEPT ![writer[w].note] = Named(w)]
    /\ UNCHANGED open

\* DELETE /notes/{id}, in the order of the lock.
Delete(n) ==
    /\ open /\ lock = <<>> /\ row[n] # None
    /\ row' = [row EXCEPT ![n] = None] /\ last' = [last EXCEPT ![n] = None]
    /\ UNCHANGED <<writer, lock, open>>

\* shutdown, when no request is left: the background tasks are cancelled, wherever
\* they wait for the lock or have it; then the database is closed.
Shutdown ==
    /\ open /\ open' = FALSE /\ \A e \in Editors : writer[Edit(e)].pc \in {"idle", "over"}
    /\ writer' = [w \in Writers |-> IF w \in Tasks /\ writer[w].pc # "idle"
                                    THEN [Idle EXCEPT !.pc = "over"] ELSE writer[w]]
    /\ lock' = <<>>
    /\ UNCHANGED <<row, last>>

Next ==
    \/ \E n \in Notes : Create(n) \/ Delete(n) \/ \E e \in Editors : Put(e, n)
    \/ \E w \in Writers : Think(w) \/ Lock(w) \/ Read(w) \/ Write(w)
    \/ Shutdown

Spec == Init /\ [][Next]_vars

\* Each field of a note is what the last writer that named it wrote: an edit of
\* the transcript is not undone by a summary that was asked for before it, nor an
\* embedding by an edit of the title, and a deleted note does not come back.
FieldsAreLast == row = last

\* A title that an editor gave stays ("the user's title").
TitleStays == [][\A n \in Notes :
    row[n] # None /\ row'[n] # None /\ row[n].title \in {Edit(e) : e \in Editors}
        => row'[n].title # Fill(n)]_vars
=============================================================================

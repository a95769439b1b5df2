----------------------------- MODULE Dictation ------------------------------
(***************************************************************************)
(* Dictation on one connection.  The read loop takes audio into a segment  *)
(* buffer, has a segment transcribed at each marker, and at the stop tells *)
(* the whole text, stores a note of it and starts a task that asks the     *)
(* model for a title and a summary.  That task outlives the dictation: the *)
(* next one may be spoken, stopped or cancelled, and the pipeline shut     *)
(* down by another connection, while it runs.                              *)
(***************************************************************************)
EXTENDS Integers, Sequences, SequencesExt, FiniteSets

CONSTANTS
    MaxStarts,  \* bound: start frames
    MaxWords,   \* bound: the audio chunks of a turn, each a word
    BufferCap,  \* MAX_AUDIO_BUFFER, in words
    None

BoundsAssumption == {MaxStarts, MaxWords, BufferCap} \subseteq Nat

VARIABLES
    conn,  \* conn_state: mode and turn_id; and whether the connection is shut down
    pipe,  \* the pipeline's dictation fields
    loop,  \* the read loop
    post,  \* the tasks of _post_process_dictation, by the turn they belong to
    told,  \* the events the device was sent
    notes, \* what the notes created of dictations say
    fed,   \* how many words each turn fed
    lost   \* words that were dropped or not understood, so that no text has them

vars == <<conn, pipe, loop, post, told, notes, fed, lost>>

Ids == 1..MaxStarts
Words == [of : Ids, n : 1..MaxWords]

\* Where the read loop awaits: a transcription, the task it has cancelled, the
\* sends before the next task, the note.
LoopAwaits == {"segment", "last", "abandon", "give", "begin", "note", "ack"}

TypeOK ==
    /\ conn \in [mode : {"ask", "dictate"}, turn : Ids \cup {0}, down : BOOLEAN]
    /\ pipe \in [dictating : BOOLEAN, buf : Seq(Words), segs : Seq(Words),
                 turn : Ids \cup {0}, post : Ids \cup {None}, postTurn : Ids \cup {0}]
    /\ loop \in [pc : {"read", "dead"} \cup LoopAwaits, words : Seq(Words),
                 prev : Ids \cup {None}]
    /\ post \in [Ids -> [pc : {"none", "new", "llm", "over", "done", "done2", "error", "error2"},
                         cancel : BOOLEAN]]
    /\ fed \in [Ids -> 0..MaxWords] /\ lost \subseteq Words

Init ==
    /\ conn = [mode |-> "ask", turn |-> 0, down |-> FALSE]
    /\ pipe = [dictating |-> FALSE, buf |-> <<>>, segs |-> <<>>, turn |-> 0,
               post |-> None, postTurn |-> 0]
    /\ loop = [pc |-> "read", words |-> <<>>, prev |-> None]
    /\ post = [i \in Ids |-> [pc |-> "none", cancel |-> FALSE]]
    /\ told = <<>> /\ notes = <<>> /\ fed = [i \in Ids |-> 0] /\ lost = {}

Running(i) == i # None /\ post[i].pc \notin {"none", "over"}

\* An event about turn `of`; on_event stamps the connection's turn unless the
\* event names one.
Event(type, of, turn, words) == [type |-> type, of |-> of, turn |-> turn, words |-> words]
Tell(event) == told' = Append(told, event)
Await(pc) == loop' = [loop EXCEPT !.pc = pc]
Lose(words) == lost' = lost \cup ToSet(words)

-----------------------------------------------------------------------------
(* Audio.                                                                  *)

\* Mutant: a new dictation goes on with the segments of the one before.
StartKeeps(mode) ==
    /\ loop.pc = "read" /\ conn.turn < MaxStarts
    /\ conn' = [conn EXCEPT !.mode = mode, !.turn = @ + 1]
    /\ pipe' = IF mode = "dictate"
               THEN [pipe EXCEPT !.dictating = TRUE, !.buf = <<>>, !.turn = conn.turn + 1]
               ELSE [pipe EXCEPT !.dictating = FALSE]
    /\ lost' = IF mode = "dictate" THEN lost \cup ToSet(pipe.buf) ELSE lost
    /\ UNCHANGED <<loop, post, told, notes, fed>>

\* handle_start_command.
Start(mode) ==
    /\ loop.pc = "read" /\ conn.turn < MaxStarts
    /\ conn' = [conn EXCEPT !.mode = mode, !.turn = @ + 1]
    /\ pipe' = IF mode = "dictate"
               THEN [pipe EXCEPT !.dictating = TRUE, !.buf = <<>>, !.segs = <<>>,
                                 !.turn = conn.turn + 1]
               ELSE [pipe EXCEPT !.dictating = FALSE]
    /\ lost' = IF mode = "dictate" THEN lost \cup ToSet(pipe.buf \o pipe.segs) ELSE lost
    /\ UNCHANGED <<loop, post, told, notes, fed>>

\* feed_audio while dictating: past the cap a word is dropped, and the first time
\* the device is told (not modelled further: the latch is reset with the buffers).
Feed ==
    /\ loop.pc = "read" /\ pipe.dictating /\ fed[conn.turn] < MaxWords
    /\ LET word == [of |-> conn.turn, n |-> fed[conn.turn] + 1] IN
       /\ fed' = [fed EXCEPT ![conn.turn] = @ + 1]
       /\ IF Len(pipe.buf) = BufferCap
          THEN Lose(<<word>>) /\ UNCHANGED pipe
          ELSE pipe' = [pipe EXCEPT !.buf = Append(@, word)] /\ UNCHANGED lost
    /\ UNCHANGED <<conn, loop, post, told, notes>>

\* The segment buffer is taken for a transcription, or dropped: too short.
Take(pc, otherwise) ==
    \/ /\ pipe.buf # <<>>
       /\ loop' = [loop EXCEPT !.pc = pc, !.words = pipe.buf]
       /\ pipe' = [pipe EXCEPT !.buf = <<>>] /\ UNCHANGED lost
    \/ /\ Len(pipe.buf) <= 1 /\ Await(otherwise)
       /\ pipe' = [pipe EXCEPT !.buf = <<>>] /\ Lose(pipe.buf)

\* process_segment, under conn_lock.
Segment ==
    /\ loop.pc = "read" /\ conn.mode = "dictate" /\ Take("segment", "read")
    /\ UNCHANGED <<conn, post, told, notes, fed>>

\* Its transcription: a blank one and a failed one leave nothing.
SegmentDone ==
    /\ loop.pc = "segment" /\ loop' = [loop EXCEPT !.pc = "read", !.words = <<>>]
    /\ \/ pipe' = [pipe EXCEPT !.segs = @ \o loop.words] /\ UNCHANGED lost
       \/ UNCHANGED pipe /\ Lose(loop.words)
    /\ UNCHANGED <<conn, post, told, notes, fed>>

-----------------------------------------------------------------------------
(* The stop: finish_dictation under conn_lock, then the note.              *)

\* The text is told and the fields are reset.  A short text gets an empty
\* summary, and no note; a live task of an earlier dictation is cancelled.  (What
\* a stop without any words tells is left out.)
Text(segs) ==
    LET stt == Event("stt", conn.turn, conn.turn, segs)
        short == Event("dictation_summary", conn.turn, conn.turn, <<>>)
        reset == [pipe EXCEPT !.segs = <<>>, !.buf = <<>>, !.dictating = FALSE]
    IN  \/ /\ Len(segs) <= 1
           /\ told' = IF segs = <<>> THEN told ELSE told \o <<stt, short>>
           /\ loop' = [pc |-> "read", words |-> <<>>, prev |-> None]
           /\ pipe' = reset /\ UNCHANGED post
        \/ /\ segs # <<>> /\ ~Running(pipe.post) /\ Tell(stt)
           /\ loop' = [pc |-> "begin", words |-> segs, prev |-> None]
           /\ pipe' = reset /\ UNCHANGED post
        \/ /\ segs # <<>> /\ Running(pipe.post) /\ Tell(stt)
           /\ loop' = [pc |-> "abandon", words |-> segs, prev |-> pipe.post]
           /\ post' = [post EXCEPT ![pipe.post].cancel = TRUE]
           /\ pipe' = [reset EXCEPT !.post = None]

\* handle_stop_command in dictate mode, with nothing worth transcribing left.
Stop ==
    /\ loop.pc = "read" /\ conn.mode = "dictate" /\ Len(pipe.buf) <= 1
    /\ Text(pipe.segs) /\ Lose(pipe.buf)
    /\ UNCHANGED <<conn, notes, fed>>

StopLast ==
    /\ loop.pc = "read" /\ conn.mode = "dictate" /\ pipe.buf # <<>>
    /\ loop' = [loop EXCEPT !.pc = "last", !.words = pipe.buf]
    /\ pipe' = [pipe EXCEPT !.buf = <<>>]
    /\ UNCHANGED <<conn, post, told, notes, fed, lost>>

\* The last transcription: a failure is a dictation_warning, except one that is
\* of no listed kind, which ends the read loop.
LastDone ==
    /\ loop.pc = "last"
    /\ \/ Text(pipe.segs \o loop.words) /\ UNCHANGED lost
       \/ Text(pipe.segs) /\ Lose(loop.words)
       \/ Await("dead") /\ Lose(loop.words) /\ UNCHANGED <<pipe, post, told>>
    /\ UNCHANGED <<conn, notes, fed>>

\* Mutant: the next task starts before the cancelled one is over.
AbandonNow ==
    /\ loop.pc = "abandon" /\ Await("give")
    /\ Tell(Event("cancelled", pipe.postTurn, pipe.postTurn, <<>>))
    /\ UNCHANGED <<conn, pipe, post, notes, fed, lost>>

\* The cancelled task is over; the device is told, in the legacy frame and in
\* that of the progress bus, which names no turn of its own.
Abandon ==
    /\ loop.pc = "abandon" /\ ~Running(loop.prev) /\ Await("give")
    /\ Tell(Event("cancelled", pipe.postTurn, pipe.postTurn, <<>>))
    /\ UNCHANGED <<conn, pipe, post, notes, fed, lost>>

Give ==
    /\ loop.pc = "give" /\ Await("begin")
    /\ Tell(Event("cancelled", pipe.postTurn, conn.turn, <<>>))
    /\ UNCHANGED <<conn, pipe, post, notes, fed, lost>>

\* "still working", then the task.  A second stop of the same dictation has no
\* segments, so that no turn gets two tasks.
Begin ==
    /\ loop.pc = "begin" /\ Await("note")
    /\ Tell(Event("start", pipe.turn, conn.turn, <<>>))
    /\ post' = [post EXCEPT ![pipe.turn].pc = "new"]
    /\ pipe' = [pipe EXCEPT !.post = pipe.turn, !.postTurn = pipe.turn]
    /\ UNCHANGED <<conn, notes, fed, lost>>

\* _maybe_auto_create_note: the note is written, or it fails and is forgotten.
Note ==
    /\ loop.pc = "note" /\ loop' = [pc |-> "read", words |-> <<>>, prev |-> None]
    /\ \/ /\ notes' = Append(notes, loop.words)
          /\ Tell(Event("note_created", pipe.turn, conn.turn, loop.words))
       \/ UNCHANGED <<notes, told>>
    /\ UNCHANGED <<conn, pipe, post, fed, lost>>

-----------------------------------------------------------------------------
(* Cancel, and shutdown by the connection's end or by an eviction.         *)

\* pipeline.cancel: the task is cancelled and awaited, the buffers are cleared,
\* the segments stay.
Cancel ==
    /\ loop.pc = "read"
    /\ pipe' = [pipe EXCEPT !.post = None, !.buf = <<>>]
    /\ Lose(pipe.buf)
    /\ IF Running(pipe.post)
       THEN /\ loop' = [loop EXCEPT !.pc = "ack", !.prev = pipe.post]
            /\ post' = [post EXCEPT ![pipe.post].cancel = TRUE]
       ELSE UNCHANGED <<loop, post>>
    /\ UNCHANGED <<conn, told, notes, fed>>

Ack ==
    /\ loop.pc = "ack" /\ ~Running(loop.prev)
    /\ loop' = [loop EXCEPT !.pc = "read", !.prev = None]
    /\ UNCHANGED <<conn, pipe, post, told, notes, fed, lost>>

Shutdown ==
    /\ ~conn.down /\ conn' = [conn EXCEPT !.down = TRUE]
    /\ pipe' = [pipe EXCEPT !.post = None, !.buf = <<>>]
    /\ Lose(pipe.buf)
    /\ post' = IF Running(pipe.post) THEN [post EXCEPT ![pipe.post].cancel = TRUE] ELSE post
    /\ UNCHANGED <<loop, told, notes, fed>>

-----------------------------------------------------------------------------
(* The task: run_dictation_post_process.                                   *)

PostGoto(i, pc) == post' = [post EXCEPT ![i] = [pc |-> pc, cancel |-> FALSE]]

\* Its first step: without a model it is an error at once, a model that has no
\* words for it (synthesize_summary_locally) is done at once.
PostBegin(i) ==
    /\ post[i].pc = "new" /\ ~post[i].cancel
    /\ \E pc \in {"llm", "done", "error"} : PostGoto(i, pc)
    /\ UNCHANGED <<conn, pipe, loop, told, notes, fed, lost>>

\* The model's reply is there, or it failed.
PostReply(i) ==
    /\ post[i].pc = "llm" /\ \E pc \in {"done", "error"} : PostGoto(i, pc)
    /\ UNCHANGED <<conn, pipe, loop, told, notes, fed, lost>>

\* Cancelled before its first step, or while it waits for the model.
PostCancelled(i) ==
    /\ post[i].pc \in {"new", "llm"} /\ post[i].cancel /\ PostGoto(i, "over")
    /\ UNCHANGED <<conn, pipe, loop, told, notes, fed, lost>>

\* Mutant: the events of the task are stamped with the connection's turn.
PostTellLive(i) ==
    /\ post[i].pc \in {"done", "done2", "error", "error2"}
    /\ Tell(Event(IF post[i].pc \in {"done", "done2"} THEN "dictation_summary" ELSE "failed",
                  i, conn.turn, <<>>))
    /\ PostGoto(i, CASE post[i].pc = "done" -> "done2" [] post[i].pc = "error" -> "error2"
                     [] OTHER -> "over")
    /\ UNCHANGED <<conn, pipe, loop, notes, fed, lost>>

\* The legacy frame and the progress frame, stamped with the task's own turn; a
\* cancellation that comes while one is sent is swallowed by _safe_send_json.
PostTell(i) ==
    /\ post[i].pc \in {"done", "done2", "error", "error2"}
    /\ Tell(Event(IF post[i].pc \in {"done", "done2"} THEN "dictation_summary" ELSE "failed",
                  i, i, <<>>))
    /\ PostGoto(i, CASE post[i].pc = "done" -> "done2" [] post[i].pc = "error" -> "error2"
                     [] OTHER -> "over")
    /\ UNCHANGED <<conn, pipe, loop, notes, fed, lost>>

Loop ==
    \/ \E mode \in {"ask", "dictate"} : Start(mode)
    \/ Feed \/ Segment \/ SegmentDone \/ Stop \/ StopLast \/ LastDone
    \/ Abandon \/ Give \/ Begin \/ Note \/ Cancel \/ Ack

Post(i) == PostBegin(i) \/ PostReply(i) \/ PostCancelled(i) \/ PostTell(i)

Next == Loop \/ Shutdown \/ \E i \in Ids : Post(i)

Spec == Init /\ [][Next]_vars

-----------------------------------------------------------------------------
(* Properties.                                                             *)

\* The words that turn i spoke and that were not lost.
Kept(i) == {word \in Words : word.of = i /\ word.n <= fed[i]} \ lost

\* The text a dictation ends with, and the note of it, are its own words in
\* order, each once, and none is missing but those whose audio or transcription
\* was given up: whatever was said, cancelled or left unfinished before.
TextIsOwn ==
    /\ \A k \in DOMAIN told : told[k].type = "stt" =>
         ToSet(told[k].words) = Kept(told[k].of)
    /\ \A k \in DOMAIN told : told[k].type \in {"stt", "note_created"} =>
         /\ \A j \in DOMAIN told[k].words : told[k].words[j].of = told[k].of
         /\ \A i, j \in DOMAIN told[k].words : i < j => told[k].words[i].n < told[k].words[j].n

\* A summary, or the news that there is none, carries the turn of the dictation
\* it was made of, however many turns have begun since.
SummaryIsOwn == \A k \in DOMAIN told :
    told[k].type \in {"dictation_summary", "failed"} => told[k].turn = told[k].of

\* Once the device waits for the summary of a dictation, none of an earlier one
\* comes, as long as nobody else shuts the pipeline down.
NoStaleSummary == ~conn.down => \A j, k \in DOMAIN told :
    j < k /\ told[j].type = "start" /\ told[k].type \in {"dictation_summary", "failed"}
        => told[k].of >= told[j].of

\* An abandoned summary is announced under the turn that is abandoned ("NOT
\* conn_state's live turn_id").
CancelledIsOwn == \A k \in DOMAIN told :
    told[k].type = "cancelled" => told[k].turn = told[k].of

\* A dictation is told one end of its post-processing.
EndsOnce == \A j, k \in DOMAIN told :
    /\ told[j].type \in {"dictation_summary", "failed"} /\ told[k].type = "cancelled"
    => told[j].of # told[k].of
=============================================================================

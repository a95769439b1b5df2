----------------------------- MODULE Utterance ------------------------------
(***************************************************************************)
(* A spoken turn of the voice pipeline, _process_utterance: transcription  *)
(* with a local fallback, the model's stream cut into pieces that are      *)
(* synthesised and sent as audio, and the end of it all; a cancel or the   *)
(* timeout may come at any await.  The audio is framed by tts_start and    *)
(* tts_end, which move the device to and from its speaking state.          *)
(***************************************************************************)
EXTENDS Integers, Sequences, SequencesExt

CONSTANTS
    Backends,   \* what STT and TTS may be: "openrouter" and "local"
    Kinds,      \* how a token ends: "word", "stop", "clause", "fence"
    MaxTokens,  \* bound: tokens of a reply
    MaxTurns    \* bound: utterances, one after the other

BackendsAssumption == Backends \subseteq {"openrouter", "local"}
KindsAssumption == Kinds \subseteq {"word", "stop", "clause", "fence"}
BoundsAssumption == MaxTokens \in Nat /\ MaxTurns \in Nat

VARIABLES
    stt, tts,  \* the configured backends
    task,      \* _process_with_timeout and what it runs
    cancel,    \* pipeline.cancel, awaiting the task
    flags,     \* _processing, _cancelled, _tts_started
    said,      \* what the device was sent of the current turn
    turns      \* utterances begun

vars == <<stt, tts, task, cancel, flags, said, turns>>

Tokens == [n : 0..MaxTokens, kind : Kinds \cup {"fallback"}]
Apology == [n |-> 0, kind |-> "fallback"]
NoTask == [pc |-> "over", raised |-> FALSE, timed |-> FALSE, got |-> 0, buf |-> <<>>,
           code |-> FALSE, todo |-> <<>>, then |-> "stream"]
Unsaid == [shown |-> <<>>, spoken |-> <<>>, starts |-> 0, ends |-> 0, loose |-> FALSE,
           told |-> {}]

\* The awaits of the task; a cancellation is swallowed by those that send.
Sends == {"heard", "show", "tts_start", "audio", "llm_done", "tts_end", "error"}
Waits == {"new", "stt", "fallback", "stream", "synth", "media"}

TypeOK ==
    /\ stt \in Backends /\ tts \in Backends
    /\ task \in [pc : {"over"} \cup Sends \cup Waits, raised : BOOLEAN, timed : BOOLEAN,
                 got : 0..MaxTokens, buf : Seq(Tokens), code : BOOLEAN,
                 todo : Seq(Seq(Tokens)), then : {"stream", "rest", "wrap", "llm_done"}]
    /\ cancel \in BOOLEAN /\ flags \in [processing : BOOLEAN, cancelled : BOOLEAN, started : BOOLEAN]
    /\ turns \in 0..MaxTurns

Init ==
    /\ stt \in Backends /\ tts \in Backends
    /\ task = NoTask /\ cancel = FALSE
    /\ flags = [processing |-> FALSE, cancelled |-> FALSE, started |-> FALSE]
    /\ said = Unsaid /\ turns = 0

At(pc) == task.pc = pc
Goto(pc) == task' = [task EXCEPT !.pc = pc]
\* A send: a cancellation that comes meanwhile is lost.
SentTo(pc) == task' = [task EXCEPT !.pc = pc, !.raised = FALSE]
Free == ~task.raised

-----------------------------------------------------------------------------
(* The turn.                                                               *)

\* start_processing, or the VAD: not while an utterance is processed.
Spawn ==
    /\ At("over") /\ ~cancel /\ turns < MaxTurns
    /\ turns' = turns + 1 /\ said' = Unsaid
    /\ task' = [NoTask EXCEPT !.pc = "new"]
    /\ UNCHANGED <<stt, tts, cancel, flags>>

Begin ==
    /\ At("new") /\ Free /\ Goto("stt")
    /\ flags' = [processing |-> TRUE, cancelled |-> FALSE, started |-> FALSE]
    /\ UNCHANGED <<stt, tts, cancel, said, turns>>

\* The transcript, within ten seconds: some, none (told, and the end), or a
\* failure, which sends a cloud STT to the local fallback.
Transcribe ==
    /\ At("stt") /\ Free
    /\ \/ Goto("heard") /\ UNCHANGED said
       \/ Goto("error") /\ said' = [said EXCEPT !.told = @ \cup {"stt_empty"}]
       \/ /\ said' = [said EXCEPT !.told = @ \cup
                        {IF stt = "openrouter" THEN "stt_fallback_active" ELSE "pipeline_failed"}]
          /\ Goto(IF stt = "openrouter" THEN "fallback" ELSE "error")
    /\ UNCHANGED <<stt, tts, cancel, flags, turns>>

\* _ensure_fallback_stt_then_transcribe; the device is told to go back to local.
Fallback ==
    /\ At("fallback") /\ Free
    /\ \/ Goto("heard") /\ said' = [said EXCEPT !.told = @ \cup {"reverted"}]
       \/ Goto("error") /\ said' = [said EXCEPT !.told = @ \cup {"pipeline_failed"}]
    /\ UNCHANGED <<stt, tts, cancel, flags, turns>>

\* The transcript is told; a cancelled turn stops here.
Heard ==
    /\ At("heard") /\ SentTo(IF flags.cancelled THEN "over" ELSE "stream")
    /\ flags' = [flags EXCEPT !.processing = ~flags.cancelled]
    /\ UNCHANGED <<stt, tts, cancel, said, turns>>

-----------------------------------------------------------------------------
(* The stream.                                                             *)

\* The sentences of the buffer: all of it, cut into pieces; a sentence may end
\* within any token.
Marks(n) == UNION {{e \in [1..m -> 0..n] : e[1] = 0 /\ e[m] = n /\ \A k \in 2..m : e[k - 1] < e[k]}
                   : m \in 2..(n + 1)}
Sentences(buf) ==
    {[k \in 1..(Len(e) - 1) |-> SubSeq(buf, e[k] + 1, e[k + 1])] : e \in Marks(Len(buf))}

\* Mutant: a clause is dropped from the buffer when it is too short to speak.
FlushClause(buf, code) ==
    LET last == buf[Len(buf)] IN
    CASE last.kind = "stop" -> {[todo |-> cut, buf |-> <<>>] : cut \in Sentences(buf)}
      [] last.kind = "clause" /\ ~code ->
           {[todo |-> <<buf>>, buf |-> <<>>], [todo |-> <<>>, buf |-> <<>>]}
      [] OTHER -> {[todo |-> <<>>, buf |-> buf]}

\* What of the buffer may be spoken now: all of it after the end of a sentence;
\* after a clause, if it is long enough; and with a local voice that has waited
\* long, all but the last word.  Code is spoken by the sentence only.
Flush(buf, code) ==
    LET last == buf[Len(buf)]
        Kept == [todo |-> <<>>, buf |-> buf]
    IN  CASE last.kind = "stop" -> {[todo |-> cut, buf |-> <<>>] : cut \in Sentences(buf)}
          [] last.kind = "clause" /\ ~code -> {[todo |-> <<buf>>, buf |-> <<>>], Kept}
          [] tts = "local" /\ ~code /\ Len(buf) > 1 ->
               {[todo |-> <<Front(buf)>>, buf |-> <<last>>], Kept}
          [] OTHER -> {Kept}

\* A token arrives and is shown; a cancelled turn stops at the next one.
Token ==
    /\ At("stream") /\ Free /\ task.got < MaxTokens
    /\ IF flags.cancelled
       THEN /\ Goto("over") /\ flags' = [flags EXCEPT !.processing = FALSE]
            /\ UNCHANGED said
       ELSE /\ \E kind \in Kinds :
                 LET token == [n |-> task.got + 1, kind |-> kind] IN
                 /\ task' = [task EXCEPT !.pc = "show", !.got = @ + 1,
                               !.buf = Append(@, token), !.code = @ # (kind = "fence")]
                 /\ said' = [said EXCEPT !.shown = Append(@, token)]
            /\ UNCHANGED flags
    /\ UNCHANGED <<stt, tts, cancel, turns>>

Show ==
    /\ At("show")
    /\ \E f \in Flush(task.buf, task.code) :
         task' = [task EXCEPT !.raised = FALSE, !.buf = f.buf, !.todo = f.todo,
                    !.then = "stream", !.pc = IF f.todo = <<>> THEN "stream" ELSE "tts_start"]
    /\ UNCHANGED <<stt, tts, cancel, flags, said, turns>>

\* The stream ends, or is cut before a hallucinated speaker, whose last token
\* (got, not shown) is dropped; what is left is spoken.  A model that gave
\* nothing useful is replaced by a sentence of the pipeline's own.
StreamEnd ==
    /\ At("stream") /\ Free
    /\ \/ /\ task' = [task EXCEPT !.pc = "tts_start", !.then = "rest",
                        !.todo = IF task.buf = <<>> THEN <<>> ELSE <<task.buf>>, !.buf = <<>>]
          /\ UNCHANGED said
       \/ /\ task.buf = <<>> /\ said.shown = <<>> /\ ~flags.cancelled
          /\ task' = [task EXCEPT !.pc = "tts_start", !.then = "rest", !.todo = <<<<Apology>>>>]
          /\ said' = [said EXCEPT !.shown = Append(@, Apology)]
    /\ UNCHANGED <<stt, tts, cancel, flags, turns>>

\* The model or the network fails: a DragonError or any other exception is told.
StreamFail ==
    /\ At("stream") /\ Free /\ Goto("error")
    /\ said' = [said EXCEPT !.told = @ \cup {"pipeline_failed"}]
    /\ UNCHANGED <<stt, tts, cancel, flags, turns>>

-----------------------------------------------------------------------------
(* _synthesize_and_send, for each piece in turn.                           *)

\* Nothing more to speak: back to the stream, or on to llm_done.
Spoken ==
    /\ At("tts_start") /\ task.todo = <<>>
    /\ IF task.then = "stream" THEN SentTo("stream") /\ UNCHANGED said
       ELSE SentTo("llm_done") /\ said' = [said EXCEPT !.told = @ \cup {"llm_done"}]
    /\ UNCHANGED <<stt, tts, cancel, flags, turns>>

\* tts_start goes out before the first piece.  A piece of a cancelled turn is
\* skipped, as is one of which the text cleaner leaves nothing.
Start ==
    /\ At("tts_start") /\ task.todo # <<>>
    /\ LET piece == Head(task.todo)
           skip == [task EXCEPT !.todo = Tail(@), !.raised = FALSE] IN
       IF flags.cancelled
       THEN task' = skip /\ UNCHANGED <<flags, said>>
       ELSE /\ flags' = [flags EXCEPT !.started = TRUE]
            /\ said' = [said EXCEPT !.starts = IF flags.started THEN @ ELSE @ + 1,
                          !.spoken = @ \o piece]
            /\ \/ task' = [task EXCEPT !.pc = "synth", !.raised = IF flags.started THEN @ ELSE FALSE]
               \/ task' = skip
    /\ UNCHANGED <<stt, tts, cancel, turns>>

\* The synthesis, within its timeout; a cloud voice falls back to the local one.
\* A failure is logged: the piece is not heard.
Synthesise ==
    /\ At("synth") /\ Free
    /\ \/ Goto("audio") /\ UNCHANGED said
       \/ tts = "openrouter" /\ Goto("audio") /\ said' = [said EXCEPT !.told = @ \cup {"reverted"}]
       \/ task' = [task EXCEPT !.pc = "tts_start", !.todo = Tail(@)] /\ UNCHANGED said
    /\ UNCHANGED <<stt, tts, cancel, flags, turns>>

\* The chunks; a cancelled turn stops between two of them.
Audio ==
    /\ At("audio")
    /\ said' = [said EXCEPT !.loose = @ \/ (~flags.cancelled /\ said.starts = said.ends)]
    /\ task' = [task EXCEPT !.pc = "tts_start", !.raised = FALSE, !.todo = Tail(@)]
    /\ UNCHANGED <<stt, tts, cancel, flags, turns>>

-----------------------------------------------------------------------------
(* The end.                                                                *)

\* llm_done and its receipt; the media of the reply, whose failure is logged.
LlmDone ==
    /\ At("llm_done") /\ SentTo("media")
    /\ UNCHANGED <<stt, tts, cancel, flags, said, turns>>

\* Mutant: tts_end is owed to a turn of which something was heard only.
MediaHeard ==
    /\ At("media") /\ Free
    /\ IF flags.started /\ ~flags.cancelled /\ said.told = {"llm_done"}
       THEN /\ Goto("tts_end") /\ said' = [said EXCEPT !.ends = @ + 1]
            /\ flags' = [flags EXCEPT !.started = FALSE]
       ELSE /\ Goto("over") /\ flags' = [flags EXCEPT !.processing = FALSE]
            /\ UNCHANGED said
    /\ UNCHANGED <<stt, tts, cancel, turns>>

Media ==
    /\ At("media") /\ Free
    /\ IF flags.started /\ ~flags.cancelled
       THEN /\ Goto("tts_end") /\ said' = [said EXCEPT !.ends = @ + 1]
            /\ flags' = [flags EXCEPT !.started = FALSE]
       ELSE /\ Goto("over") /\ flags' = [flags EXCEPT !.processing = FALSE]
            /\ UNCHANGED said
    /\ UNCHANGED <<stt, tts, cancel, turns>>

\* The receipt after tts_end, or an error event: then the finally.
Ended ==
    /\ task.pc \in {"tts_end", "error"} /\ SentTo("over")
    /\ flags' = [flags EXCEPT !.processing = FALSE]
    /\ UNCHANGED <<stt, tts, cancel, said, turns>>

\* A cancellation reaches an await that does not swallow it: _process_utterance
\* catches it, and its finally runs; before the first step nothing does.
Raise ==
    /\ task.pc \in Waits /\ task.raised /\ SentTo("over")
    /\ flags' = [flags EXCEPT !.processing = IF At("new") THEN @ ELSE FALSE]
    /\ UNCHANGED <<stt, tts, cancel, said, turns>>

\* The timeout of 60 or 300 seconds (the STT has ten) cancels what
\* _process_with_timeout awaits, and waits for it.
Timeout ==
    /\ task.pc \notin {"over", "new", "stt"} /\ ~task.timed
    /\ task' = [task EXCEPT !.timed = TRUE, !.raised = TRUE]
    /\ UNCHANGED <<stt, tts, cancel, flags, said, turns>>

\* pipeline.cancel, of the cancel frame: the task is cancelled and awaited.
Cancel ==
    /\ ~cancel /\ ~At("over")
    /\ cancel' = TRUE /\ flags' = [flags EXCEPT !.cancelled = TRUE]
    /\ task' = [task EXCEPT !.raised = TRUE]
    /\ said' = [said EXCEPT !.told = @ \cup {"cancelled"}]
    /\ UNCHANGED <<stt, tts, turns>>

Cancelled ==
    /\ cancel /\ At("over") /\ cancel' = FALSE
    /\ flags' = [flags EXCEPT !.processing = FALSE, !.cancelled = FALSE]
    /\ UNCHANGED <<stt, tts, task, said, turns>>

Next ==
    \/ Spawn \/ Begin \/ Transcribe \/ Fallback \/ Heard \/ Token \/ Show \/ StreamEnd
    \/ StreamFail \/ Spoken \/ Start \/ Synthesise \/ Audio \/ LlmDone \/ Media \/ Ended
    \/ Raise \/ Timeout \/ Cancel \/ Cancelled

Spec == Init /\ [][Next]_vars

-----------------------------------------------------------------------------
(* Properties.                                                             *)

\* A turn that came to its llm_done uncancelled.
Complete == "llm_done" \in said.told /\ "cancelled" \notin said.told

\* However the stream is cut into pieces, what was shown is what is spoken, once
\* and in order.
SpokenIsShown == Complete /\ At("media") => said.spoken = said.shown

\* Audio comes between a tts_start and its tts_end, and a turn that is over owes
\* no tts_end unless it was cancelled, failed or timed out.
SpeechCloses ==
    /\ ~said.loose
    /\ At("over") /\ Complete /\ ~task.timed => said.starts = said.ends
    /\ said.ends <= said.starts /\ said.starts <= 1

\* A turn that the timeout ends tells the device so, which would hang in its
\* thinking or speaking state ("Send tts_end so Tab5 doesn't hang").
TimeoutIsTold == At("over") /\ task.timed /\ ~cancel =>
    said.told \cap {"llm_timeout", "pipeline_failed", "stt_empty", "llm_done", "cancelled"} # {}
=============================================================================

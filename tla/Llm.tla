-------------------------------- MODULE Llm ---------------------------------
(***************************************************************************)
(* One language-model backend and the turns that stream from it.  Turns of *)
(* several connections share the instance: what it keeps for "the current  *)
(* request" (the session key, the idempotency key, the usage of the last   *)
(* reply) are fields of the instance, and requests await the network       *)
(* between writing and reading them.                                       *)
(*                                                                         *)
(* The kinds are the backends: "gateway" (TinkerClaw, an agent that runs   *)
(* its own tools), "cloud" (OpenRouter), "local" (Ollama, whose turns are  *)
(* not serialised), "lan" (LM Studio, serialised by a lock) and "dual" (a  *)
(* picker whose reply a responder may replace).                            *)
(***************************************************************************)
EXTENDS Integers, Sequences, SequencesExt, FiniteSets

CONSTANTS
    Turns,      \* turns of different devices
    Kinds,      \* the backends of this instance
    Slots,      \* the indexes of tool_calls deltas
    Names,      \* the tools that a reply may speak of using
    MaxTokens,  \* bound: tokens in a reply
    None

KindsAssumption == Kinds \subseteq {"gateway", "cloud", "local", "lan", "dual"}
MaxTokensAssumption == MaxTokens \in Nat
\* The index of a delta is no name of a tool.
ToolsAssumption == IsFiniteSet(Slots) /\ IsFiniteSet(Names) /\ Slots \cap Names = {}

VARIABLES
    kind,  \* the backend
    llm,   \* its fields
    turn   \* the turns

vars == <<kind, llm, turn>>

Tools == Slots \cup Names
\* The n-th token of a reply, which is or is not one of the phrases of
\* _COT_PREAMBLE_PATTERNS, of the model it comes from.
Tokens == [n : 1..MaxTokens, filler : BOOLEAN, of : {"main", "picker"}]

Sorry == [n |-> 0, filler |-> FALSE, of |-> "main"]  \* a sentence of the backend's own

Fresh == [pc |-> "idle", retried |-> FALSE, user |-> None, keys |-> {}, got |-> <<>>,
          buf |-> <<>>, pass |-> FALSE, said |-> <<>>, slots |-> {}, flushed |-> {},
          heard |-> {}, fired |-> {}, pending |-> <<>>, shown |-> <<>>,
          cleared |-> <<>>, of |-> "main", end |-> None, receipt |-> None]

Init ==
    /\ kind \in Kinds
    /\ llm = [key |-> None, idem |-> None, usage |-> None, lock |-> None]
    /\ turn = [t \in Turns |-> Fresh]

Set(t, tr) == turn' = [turn EXCEPT ![t] = tr]

-----------------------------------------------------------------------------
(* The request.                                                            *)

\* handle_tinkerclaw_text_path names its device to the shared backend, then
\* sends a frame and reads the database.
Name(t) ==
    /\ kind = "gateway" /\ turn[t].pc = "idle"
    /\ llm' = [llm EXCEPT !.key = t] /\ Set(t, [turn[t] EXCEPT !.pc = "named"])
    /\ UNCHANGED kind

\* is_healthy: a GET /health, or its last answer for HEALTH_CACHE_TTL_S.  The
\* payload carries the session key that the instance has by then.
Healthy(t) ==
    /\ turn[t].pc = "named" /\ Set(t, [turn[t] EXCEPT !.pc = "wait", !.user = llm.key])
    /\ UNCHANGED <<kind, llm>>

Unhealthy(t) ==
    /\ turn[t].pc = "named" /\ Set(t, [turn[t] EXCEPT !.pc = "over", !.end = "raised"])
    /\ UNCHANGED <<kind, llm>>

\* The other backends: OpenRouter draws a new idempotency key and forgets the
\* usage of the turn before; LM Studio waits for its lock.
Begin(t) ==
    /\ kind # "gateway" /\ turn[t].pc = "idle"
    /\ kind = "lan" => llm.lock = None
    /\ llm' = CASE kind = "cloud" -> [llm EXCEPT !.idem = t, !.usage = None]
                [] kind = "lan" -> [llm EXCEPT !.lock = t]
                [] OTHER -> llm
    /\ \E of \in IF kind = "dual" THEN {"picker", "main"} ELSE {"main"} :
         Set(t, [turn[t] EXCEPT !.pc = "wait", !.of = of,
                                !.keys = IF kind = "cloud" THEN {t} ELSE {}])
    /\ UNCHANGED kind

Opened(t) ==
    /\ turn[t].pc = "wait" /\ Set(t, [turn[t] EXCEPT !.pc = "stream"])
    /\ UNCHANGED <<kind, llm>>

\* The reply ends with a sentence of the backend's own.
Apologise(t, end) ==
    /\ Set(t, [turn[t] EXCEPT !.pc = "over", !.end = end, !.said = Append(@, Sorry)])
    /\ llm' = [llm EXCEPT !.lock = IF @ = t THEN None ELSE @]
    /\ UNCHANGED kind

\* Any status but 200, and any error of the connection.
Refused(t) == turn[t].pc = "wait" /\ Apologise(t, "refused")

\* 429 is waited for, 400 context_length is tried with half the context: once,
\* and with the idempotency key that the instance then has.
Again(t) ==
    /\ turn[t].pc = "wait" /\ kind = "cloud" /\ ~turn[t].retried
    /\ Set(t, [turn[t] EXCEPT !.retried = TRUE, !.keys = @ \cup {llm.idem}])
    /\ UNCHANGED <<kind, llm>>

-----------------------------------------------------------------------------
(* The reply.                                                              *)

\* sanitize_tinkerclaw_reply: the fillers in front go; if nothing is left, an
\* apology.
Sanitize(buf) ==
    LET word == {i \in DOMAIN buf : ~buf[i].filler} IN
    IF word = {} THEN <<Sorry>>
    ELSE SubSeq(buf, CHOOSE i \in word : \A j \in word : i <= j, Len(buf))

\* The events a part of the stream causes: the calls it completes, the results
\* it stands for.  _emit_synthetic_results clears all that is pending.
Emit(tr, new) == [tr EXCEPT !.shown = @ \o new, !.pending = @ \o new]

\* Mutant: the flush does not remember what it has shown.
FlushForgets(tr) ==
    Emit(tr, SetToSeq(tr.slots))

\* _flush_tool_calls.
Flush(tr) ==
    [Emit(tr, SetToSeq(tr.slots \ tr.flushed)) EXCEPT !.flushed = @ \cup tr.slots]

Results(tr) == [tr EXCEPT !.cleared = @ \o tr.pending, !.pending = <<>>]

\* _scan_text_for_inferred_tools.
Scan(tr) ==
    [Emit(tr, SetToSeq(tr.heard \ tr.fired)) EXCEPT !.fired = @ \cup tr.heard]

\* Mutant: the released text stays in the buffer.
ReleaseKeeps(tr, token) ==
    LET joined == Append(tr.buf, token) IN
    [tr EXCEPT !.said = @ \o Sanitize(joined), !.buf = joined, !.pass = TRUE]

\* The buffer has grown long, has a paragraph, or a clean sentence.
Release(tr, token) ==
    [tr EXCEPT !.said = @ \o Sanitize(Append(tr.buf, token)),
                  !.buf = <<>>, !.pass = TRUE]

\* A token is buffered until enough is there to be cleaned, then passed on.
Take(t, tr, token) ==
    IF tr.pass \/ kind # "gateway"
    THEN Set(t, [tr EXCEPT !.said = IF tr.of = "picker" THEN @ ELSE Append(@, token),
                              !.buf = IF tr.of = "picker" THEN Append(@, token) ELSE @])
    ELSE \/ Set(t, Release(tr, token))
         \/ Set(t, [tr EXCEPT !.buf = Append(@, token)])

\* One SSE frame of the gateway: deltas of tool calls; a finish_reason, which
\* shows the calls that are there; a token, which ends what was pending and may
\* speak of a tool, noticed where a sentence ends.
ToolDelta(t) ==
    /\ kind = "gateway" /\ turn[t].pc = "stream"
    /\ \E slot \in Slots, finish \in BOOLEAN :
         LET grown == [turn[t] EXCEPT !.slots = @ \cup {slot}] IN
         Set(t, IF finish THEN Flush(grown) ELSE grown)
    /\ UNCHANGED <<kind, llm>>

Token(t) ==
    /\ turn[t].pc = "stream" /\ Len(turn[t].got) < MaxTokens
    /\ \E filler \in IF kind = "gateway" THEN BOOLEAN ELSE {FALSE},
          heard \in IF kind = "gateway" THEN SUBSET Names ELSE {{}},
          sentence \in IF kind = "gateway" THEN BOOLEAN ELSE {FALSE} :
         LET token == [n |-> Len(turn[t].got) + 1, filler |-> filler, of |-> turn[t].of]
             given == [Results(turn[t]) EXCEPT
                         !.got = Append(@, token), !.heard = @ \cup heard]
         IN  Take(t, IF sentence THEN Scan(given) ELSE given, token)
    /\ UNCHANGED <<kind, llm>>

\* The last frame of a cloud or Ollama reply tells its usage.
Usage(t) ==
    /\ turn[t].pc = "stream" /\ kind \in {"cloud", "local"}
    /\ llm' = [llm EXCEPT !.usage = t]
    /\ UNCHANGED <<kind, turn>>

\* Mutant: the calls of the last frames get no result.
EndingQuiet(tr) == Flush(Scan(tr))

\* The stream ends: what is unnoticed is noticed, what is pending is ended.
Ending(tr) == Results(Flush(Scan(tr)))

\* [DONE], or the end of the body without it.
End(t) ==
    /\ kind # "dual" /\ turn[t].pc = "stream"
    /\ \E end \in IF kind = "gateway" THEN {"done", "cut"} ELSE {"done"} :
         LET told == IF kind = "gateway" THEN Ending(turn[t]) ELSE turn[t]
             said == told.said \o (IF told.buf = <<>> THEN <<>> ELSE Sanitize(told.buf))
         IN  Set(t, [told EXCEPT !.pc = "over", !.end = end, !.buf = <<>>,
                       !.said = IF end = "cut" THEN Append(said, Sorry) ELSE said])
    /\ llm' = [llm EXCEPT !.lock = IF @ = t THEN None ELSE @]
    /\ UNCHANGED kind

\* Mutant: the picker's junk is said before the responder speaks.
PickedAloud(t) ==
    /\ kind = "dual" /\ turn[t].pc = "stream"
    /\ \/ Set(t, [turn[t] EXCEPT !.pc = "over", !.end = "done", !.said = @ \o turn[t].buf])
       \/ /\ turn[t].of = "picker"
          /\ Set(t, [turn[t] EXCEPT !.pc = "wait", !.of = "main", !.said = turn[t].buf,
                                    !.got = <<>>])
    /\ UNCHANGED <<kind, llm>>

\* The dual backend: the picker's whole reply is said if it has a tool call or
\* reads as an answer; else it is dropped and the responder is asked.
Picked(t) ==
    /\ kind = "dual" /\ turn[t].pc = "stream"
    /\ \/ Set(t, [turn[t] EXCEPT !.pc = "over", !.end = "done", !.said = @ \o turn[t].buf])
       \/ /\ turn[t].of = "picker"
          /\ Set(t, [turn[t] EXCEPT !.pc = "wait", !.of = "main", !.buf = <<>>, !.got = <<>>])
    /\ UNCHANGED <<kind, llm>>

\* An oversized frame or stream, or five frames that are no JSON; a timeout or a
\* broken connection: the reply ends with a sentence of the backend's own.
Abort(t) ==
    /\ turn[t].pc = "stream" /\ kind # "dual" /\ Apologise(t, "aborted")

\* The receipt of the turn: get_last_usage of the instance.
Receipt(t) ==
    /\ turn[t].pc = "over" /\ kind \in {"cloud", "local"} /\ llm.usage # None
    /\ Set(t, [turn[t] EXCEPT !.pc = "told", !.receipt = llm.usage])
    /\ UNCHANGED <<kind, llm>>

TurnStep(t) ==
    \/ Name(t) \/ Healthy(t) \/ Unhealthy(t) \/ Begin(t) \/ Opened(t)
    \/ Refused(t) \/ Again(t) \/ ToolDelta(t) \/ Token(t) \/ Usage(t) \/ End(t)
    \/ Picked(t) \/ Abort(t) \/ Receipt(t)

Next == \E t \in Turns : TurnStep(t)

Spec == Init /\ [][Next]_vars

-----------------------------------------------------------------------------
(* Properties.                                                             *)

Ended(t) == turn[t].end \in {"done", "cut"}

\* Whatever is held back and for how long, a reply that ends on its own has been
\* said whole: every word once, in order, of one model only, with at most an apology
\* before it and one after it; all that may be missing is the filler in front.
SaidWhole == \A t \in Turns : Ended(t) =>
    LET got == turn[t].got IN
    \E k \in 0..Len(got), front, back \in {<<>>, <<Sorry>>} :
      /\ \A j \in 1..k : got[j].filler
      /\ turn[t].said = front \o SubSeq(got, k + 1, Len(got)) \o back

\* When the agent's stream ends on its own, each tool that a device was shown at
\* work, by a delta or by what the reply spoke of, has been shown once and
\* ended once: no spinner is left turning and none is stopped twice.
SpinnersStop == \A t \in Turns : Ended(t) =>
    /\ turn[t].shown = turn[t].cleared
    /\ ToSet(turn[t].shown) = turn[t].slots \cup turn[t].heard
    /\ Len(turn[t].shown) = Cardinality(ToSet(turn[t].shown))

\* Every request goes out under the session key of its own device ("Called by
\* pipeline/server before each request").
KeyIsOwn == \A t \in Turns : kind = "gateway" => turn[t].user \in {None, t}

\* A retry repeats the idempotency key of its first attempt.
RetryKeepsKey == \A t \in Turns : turn[t].keys \subseteq {t}

\* The receipt of a turn tells the usage of that turn.
ReceiptIsOwn == \A t \in Turns : turn[t].receipt \in {None, t}
=============================================================================

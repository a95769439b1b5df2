------------------------------ MODULE TextTurn ------------------------------
(***************************************************************************)
(* A text or image turn of a connection, from the frame to the frame that  *)
(* ends it, on one of four paths: "local", the conversation engine;        *)
(* "gateway", the agent of voice mode 3; "vision", an uploaded image; and  *)
(* "background", which is acknowledged at once and given to an agent whose *)
(* result goes, minutes later, to the connection the device then has.      *)
(* The socket may close at any await, and a cancel reaches every await     *)
(* except a send by _safe_send_json, which swallows it.                    *)
(***************************************************************************)
EXTENDS Integers, Sequences, SequencesExt, FiniteSets

CONSTANTS
    Conns,     \* connections
    DeviceOf,  \* the device of each
    Paths,     \* the paths of this instance
    Agents,    \* background tasks
    MaxTools,  \* MAX_SMART_TOOL_CALLS
    MaxFails,  \* _DEFAULT_MAX_FAILURES of the keepalive
    Speakers,  \* bound: the connections whose turns are followed
    MaxTurns,  \* bound: turns of a connection
    None

PathsAssumption == Paths \subseteq {"local", "gateway", "vision", "background"}
BoundsAssumption == {MaxTools, MaxFails, MaxTurns} \subseteq Nat

VARIABLES
    registry, \* _active_connections, in the order of registration
    open,     \* which sockets are open
    fails,    \* the keepalive's failures in a row
    turn,     \* the turn of each connection
    said,     \* the frames the turn has sent
    agent,    \* run_background_agent
    turns     \* turns begun

vars == <<registry, open, fails, turn, said, agent, turns>>

\* A turn: whether what it said is useful text, whether its tools ran, whether
\* they are in tool_calls_this_turn, whether it was cancelled.
Idle == [path |-> None, pc |-> "idle", useful |-> FALSE, tools |-> FALSE,
         tracked |-> FALSE, cancelled |-> FALSE]
Steps == {"stream", "wrap", "done", "media", "tts", "synth", "chunks", "receipt", "ack"}
Frames == {"llm", "error", "llm_done", "media", "tts_start", "audio", "tts_end", "receipt"}

TypeOK ==
    /\ registry \in Seq(Conns) /\ open \in [Conns -> BOOLEAN]
    /\ fails \in [Conns -> 0..MaxFails]
    /\ turn \in [Conns -> [path : Paths \cup {None}, pc : {"idle", "over"} \cup Steps,
                 useful : BOOLEAN, tools : BOOLEAN, tracked : BOOLEAN, cancelled : BOOLEAN]]
    /\ said \in [Conns -> Seq(Frames)]
    /\ agent \in [Agents -> [pc : {"none", "run", "deliver", "over"}, used : 0..MaxTools,
                             by : Conns \cup {None}, got : Conns \cup {None}]]
    /\ turns \in [Conns -> 0..MaxTurns]

Init ==
    /\ registry = <<>> /\ open = [c \in Conns |-> TRUE] /\ fails = [c \in Conns |-> 0]
    /\ turn = [c \in Conns |-> Idle] /\ said = [c \in Conns |-> <<>>]
    /\ agent = [a \in Agents |-> [pc |-> "none", used |-> 0, by |-> None, got |-> None]]
    /\ turns = [c \in Conns |-> 0]

Registered(c) == \E i \in DOMAIN registry : registry[i] = c
At(c, pc) == turn[c].pc = pc
Is(c, path) == turn[c].path = path
Goto(c, pc) == turn' = [turn EXCEPT ![c].pc = pc]
\* A frame is sent unless the socket is closed.
Say(c, frames) == said' = IF open[c] THEN [said EXCEPT ![c] = @ \o frames] ELSE said
Rest == <<registry, open, fails, agent, turns>>

-----------------------------------------------------------------------------
(* The connection.                                                         *)

Register(c) ==
    /\ open[c] /\ ~Registered(c) /\ turns[c] = 0 /\ registry' = Append(registry, c)
    /\ UNCHANGED <<open, fails, turn, said, agent, turns>>

Drop(c) ==
    /\ open[c] /\ open' = [open EXCEPT ![c] = FALSE]
    /\ UNCHANGED <<registry, fails, turn, said, agent, turns>>

\* The end of a connection's handler, or its eviction by a later one of its
\* device, which closes it.
Leave(c) ==
    /\ \E i \in DOMAIN registry :
         /\ registry[i] = c
         /\ ~open[c] \/ \E j \in (i + 1)..Len(registry) : DeviceOf[registry[j]] = DeviceOf[c]
         /\ registry' = RemoveAt(registry, i)
    /\ open' = [open EXCEPT ![c] = FALSE]
    /\ UNCHANGED <<fails, turn, said, agent, turns>>

\* run_ws_keepalive: a pong that fails or takes too long counts, and enough of
\* them in a row close the socket.
Keepalive(c) ==
    /\ open[c]
    /\ \/ fails' = [fails EXCEPT ![c] = 0] /\ UNCHANGED open
       \/ /\ fails' = [fails EXCEPT ![c] = @ + 1]
          /\ open' = [open EXCEPT ![c] = fails[c] + 1 < MaxFails]
    /\ UNCHANGED <<registry, turn, said, agent, turns>>

-----------------------------------------------------------------------------
(* The turn.                                                               *)

\* invoke_with_text_turn_gate, handle_vision_turn: a frame of a connection that
\* is not registered, and an image that cannot be had or seen, is an error.
Begin(c, path) ==
    /\ c \in Speakers /\ turn[c].pc \in {"idle", "over"} /\ turns[c] < MaxTurns /\ open[c]
    /\ turns' = [turns EXCEPT ![c] = @ + 1]
    /\ \/ /\ Registered(c)
          /\ turn' = [turn EXCEPT ![c] = [Idle EXCEPT !.path = path,
                        !.pc = IF path = "background" THEN "ack" ELSE "stream"]]
          /\ said' = [said EXCEPT ![c] = IF path = "background" THEN <<"llm", "llm_done">> ELSE <<>>]
       \/ /\ ~Registered(c) \/ path = "vision"
          /\ turn' = [turn EXCEPT ![c] = [Idle EXCEPT !.path = path, !.pc = "over"]]
          /\ said' = [said EXCEPT ![c] = <<"error">>]
    /\ UNCHANGED <<registry, open, fails, agent>>

\* spawn_background_agent, after the two frames of the acknowledgement.
Spawn(c, a) ==
    /\ At(c, "ack") /\ agent[a].pc = "none" /\ Goto(c, "over")
    /\ agent' = [agent EXCEPT ![a].pc = "run", ![a].by = c]
    /\ UNCHANGED <<registry, open, fails, said, turns>>

\* A token: more than a marker or a blank, or not.
Token(c) ==
    /\ At(c, "stream") /\ "llm" \notin ToSet(said[c]) /\ Say(c, <<"llm">>)
    /\ \E useful \in BOOLEAN : turn' = [turn EXCEPT ![c].useful = useful]
    /\ UNCHANGED Rest

\* Mutant: the calls of a text turn are not kept.
ToolUntracked(c) ==
    /\ At(c, "stream") /\ ~turn[c].tools
    /\ turn' = [turn EXCEPT ![c].tools = TRUE]
    /\ UNCHANGED <<said, Rest>>

\* The model's tools run; on_tool_call, which the local path alone passes to the
\* engine, keeps them.
Tool(c) ==
    /\ At(c, "stream") /\ ~turn[c].tools
    /\ turn' = [turn EXCEPT ![c].tools = TRUE, ![c].tracked = Is(c, "local")]
    /\ UNCHANGED <<said, Rest>>

StreamEnd(c) ==
    /\ At(c, "stream") /\ Goto(c, "wrap")
    /\ UNCHANGED <<said, Rest>>

\* Mutant: the gateway's error is not followed by an llm_done, and is not sent.
StreamFailQuiet(c) ==
    /\ At(c, "stream") /\ Goto(c, "over")
    /\ IF Is(c, "gateway") THEN UNCHANGED said ELSE Say(c, <<"error">>)
    /\ UNCHANGED Rest

\* The gateway path tells a DragonError and that the reply is over; the other
\* paths tell any exception.
StreamFail(c) ==
    /\ At(c, "stream") /\ Goto(c, "over")
    /\ Say(c, IF Is(c, "gateway") THEN <<"error", "llm_done">> ELSE <<"error">>)
    /\ UNCHANGED Rest

\* maybe_synthesize_empty_response_wrap: a reply that says nothing is replaced by
\* what its tools did, or on the gateway path by an apology.
Wrap(c) ==
    /\ At(c, "wrap")
    /\ IF ~turn[c].useful /\ (turn[c].tracked \/ Is(c, "gateway"))
       THEN /\ Say(c, <<"llm">>)
            /\ turn' = [turn EXCEPT ![c].pc = "done", ![c].useful = TRUE]
       ELSE Goto(c, "done") /\ UNCHANGED said
    /\ UNCHANGED Rest

\* llm_done.  The zero-cost receipt of the gateway path comes before its media,
\* that of the local path after its speech.
Done(c) ==
    /\ At(c, "done")
    /\ Say(c, IF Is(c, "gateway") THEN <<"llm_done", "receipt">> ELSE <<"llm_done">>)
    /\ Goto(c, IF Is(c, "vision") THEN "over" ELSE "media")
    /\ UNCHANGED Rest

\* emit_rich_media_for_text_turn: any failure is logged.
Media(c) ==
    /\ At(c, "media") /\ Goto(c, IF Is(c, "gateway") THEN "over" ELSE "tts")
    /\ \/ Say(c, <<"media">>)
       \/ UNCHANGED said
    /\ UNCHANGED Rest

\* synthesize_and_stream_text_response: nothing is spoken without a voice, without
\* text, to a closed socket, or in match_input mode.
Tts(c) ==
    /\ At(c, "tts")
    /\ \/ Goto(c, "receipt") /\ UNCHANGED said
       \/ open[c] /\ turn[c].useful /\ Say(c, <<"tts_start">>) /\ Goto(c, "synth")
    /\ UNCHANGED Rest

\* Mutant: a synthesis that fails leaves the device speaking.
SynthFailQuiet(c) ==
    /\ At(c, "synth")
    /\ \/ Goto(c, "chunks") /\ Say(c, <<"audio">>)
       \/ Goto(c, "receipt") /\ UNCHANGED said
    /\ UNCHANGED Rest

\* The audio is paced out; a failure or the timeout ends the speech at once.
Synth(c) ==
    /\ At(c, "synth")
    /\ \/ Goto(c, "chunks") /\ Say(c, <<"audio">>)
       \/ Goto(c, "receipt") /\ Say(c, <<"tts_end">>)
    /\ UNCHANGED Rest

Chunks(c) ==
    /\ At(c, "chunks") /\ Goto(c, "receipt") /\ Say(c, <<"tts_end">>)
    /\ UNCHANGED Rest

\* emit_text_path_llm_receipt: of a backend that knows its usage.
Receipt(c) ==
    /\ At(c, "receipt") /\ Goto(c, "over")
    /\ Say(c, <<"receipt">>) \/ UNCHANGED said
    /\ UNCHANGED Rest

\* A cancel, or the connection's end.  The wrap, the notice of media, the receipt
\* and the acknowledgement are sent by _safe_send_json: the turn goes on.
Cancel(c) ==
    /\ turn[c].pc \in Steps /\ ~turn[c].cancelled
    /\ turn' = [turn EXCEPT ![c].cancelled = TRUE,
         ![c].pc = IF @ \in {"wrap", "media", "receipt", "ack"} THEN @ ELSE "over"]
    /\ UNCHANGED <<said, Rest>>

-----------------------------------------------------------------------------
(* run_background_agent.                                                   *)

AgentTool(a) ==
    /\ agent[a].pc = "run" /\ agent[a].used < MaxTools
    /\ agent' = [agent EXCEPT ![a].used = @ + 1]
    /\ UNCHANGED <<registry, open, fails, turn, said, turns>>

\* A summary, the sentence that there is none, or the error: all are delivered.
AgentEnd(a) ==
    /\ agent[a].pc = "run" /\ agent' = [agent EXCEPT ![a].pc = "deliver"]
    /\ UNCHANGED <<registry, open, fails, turn, said, turns>>

\* _deliver: the first entry of the device; a closed one ends the search.
Deliver(a) ==
    /\ agent[a].pc = "deliver"
    /\ LET mine == SelectSeq(registry, LAMBDA c : DeviceOf[c] = DeviceOf[agent[a].by]) IN
       agent' = [agent EXCEPT ![a].pc = "over",
         ![a].got = IF mine # <<>> /\ open[Head(mine)] THEN Head(mine) ELSE None]
    /\ UNCHANGED <<registry, open, fails, turn, said, turns>>

TurnStep(c) ==
    \/ \E path \in Paths : Begin(c, path)
    \/ \E a \in Agents : Spawn(c, a)
    \/ Token(c) \/ Tool(c) \/ StreamEnd(c) \/ StreamFail(c) \/ Wrap(c) \/ Done(c)
    \/ Media(c) \/ Tts(c) \/ Synth(c) \/ Chunks(c) \/ Receipt(c) \/ Cancel(c)

Next ==
    \/ \E c \in Conns : Register(c) \/ Drop(c) \/ Leave(c) \/ Keepalive(c) \/ TurnStep(c)
    \/ \E a \in Agents : AgentTool(a) \/ AgentEnd(a) \/ Deliver(a)

Spec == Init /\ [][Next]_vars

-----------------------------------------------------------------------------
(* Properties.                                                             *)

Times(frame, frames) == Cardinality({i \in DOMAIN frames : frames[i] = frame})
After(one, other, frames) == \E i, j \in DOMAIN frames : i < j /\ frames[i] = one /\ frames[j] = other

\* On each path, and whatever fails in it, a turn that nobody cancelled leaves a
\* device whose socket is open with the one frame it waits for, an error or an
\* llm_done, says no word after it, and closes the speech it opened: the device
\* is never left thinking or speaking.
TurnIsTold == \A c \in Conns :
    /\ Times("llm_done", said[c]) <= 1 /\ ~After("llm_done", "llm", said[c])
    /\ At(c, "over") /\ open[c] /\ ~turn[c].cancelled =>
         /\ ToSet(said[c]) \cap {"error", "llm_done"} # {}
         /\ Times("tts_start", said[c]) = Times("tts_end", said[c])

\* A text turn that did something by its tools ends with words about it.
ToolsAreTold == \A c \in Conns :
    At(c, "over") /\ "llm_done" \in ToSet(said[c]) /\ "error" \notin ToSet(said[c])
      /\ turn[c].tools /\ turn[c].path \in {"local", "gateway"}
        => turn[c].useful

\* An image turn too ("Multimodal models can fire a tool ... and stop without
\* text").
ImageToolsAreTold == \A c \in Conns :
    At(c, "over") /\ "llm_done" \in ToSet(said[c]) /\ turn[c].tools /\ Is(c, "vision")
        => turn[c].useful

\* The result of a background task reaches the device if it is connected
\* ("Deliver to the device's CURRENT connection").
ResultArrives == [][\A a \in Agents, c \in Conns :
    Deliver(a) /\ Registered(c) /\ open[c] /\ DeviceOf[c] = DeviceOf[agent[a].by]
        => agent'[a].got # None]_vars
=============================================================================

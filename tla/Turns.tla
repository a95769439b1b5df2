------------------------------- MODULE Turns -------------------------------
(***************************************************************************)
(* The turns of one registered connection: the WebSocket read loop, the    *)
(* handler task of each slot and the connection lock they queue for, the   *)
(* voice pipeline's process tasks, the cancel command, the disconnect      *)
(* chain, and the surface manager's turn gate, which holds back the cards  *)
(* of reminders that fire during a turn.                                   *)
(*                                                                         *)
(* An action is what a coroutine does between two awaits.  task.cancel()   *)
(* takes effect at the await the task is in: it ends the body there, or,   *)
(* in _safe_send_json, which catches CancelledError, it is lost.           *)
(***************************************************************************)
EXTENDS Integers, Sequences, SequencesExt, FiniteSets

CONSTANTS
    Voices,      \* identities for the pipeline's process tasks
    Cards,       \* reminder cards, each fired once
    Frames,      \* the frames the device sends in this instance
    MaxFrames,   \* bound: frames sent
    None

Queueing == {"text", "media"}         \* spawn_handler_task(coalesce=False)
Slots == Queueing \cup {"config"}     \* "config" has coalesce=True

ASSUME ConstantsAssumption ==
    /\ None \notin Slots \cup Voices /\ Slots \cap Voices = {}
    /\ Frames \subseteq Slots \cup {"audio", "stop", "cancel"}
    /\ MaxFrames \in Nat

VARIABLES
    inbox,      \* frames received and not yet read
    sent,       \* number of frames sent
    open,       \* the socket
    loop,       \* the coroutine of _handle_ws_voice
    lock,       \* conn_lock: its holder, followed by those that wait
    task,       \* conn_state["handler_tasks"]
    voice,      \* the process tasks
    current,    \* VoicePipeline._process_task
    processing, \* VoicePipeline._processing
    surface,    \* the session has its state in the surface manager
    busy,       \* _SessionState.turn_busy
    deferred,   \* _SessionState.deferred_emits
    fired,      \* history: cards fired
    written,    \* history: cards written to the socket, in order
    dropped,    \* history: cards given up
    doomed      \* history: cards held when a cancel was read

gate == <<surface, busy, deferred>>
cards == <<fired, written, dropped>>
vars == <<inbox, sent, open, loop, lock, task, voice, current, processing,
          gate, cards, doomed>>

Idle == [pc |-> "done", cancel |-> FALSE, hand |-> <<>>]
Coroutine == [pc : {"done", "new", "wait", "body", "drain", "timeout"},
              cancel : BOOLEAN, hand : Seq(Cards)]

\* What the read loop awaits.  "join": the previous task of a slot; "stop":
\* the lock; "dictate": the last segment's transcript, holding the lock;
\* "cut": a slot's task it cancelled; "cutVoice": the process task.
Loop == [pc : {"read", "join", "stop", "dictate", "cut", "cutVoice",
               "leave", "leaveVoice", "gone"},
         slot : Slots \cup {None},
         left : SUBSET Slots]

Live(s) == task[s].pc # "done"
Speaking(v) == voice[v].pc # "done"
GoOn(pc) == loop' = [pc |-> pc, slot |-> None, left |-> {}]

-----------------------------------------------------------------------------
(* The turn gate.                                                          *)

TurnStart == busy' = (busy \/ surface)

\* Cards put on the wire; a closed socket swallows them.
Write(c) ==
    IF open THEN written' = Append(written, c) /\ UNCHANGED dropped
            ELSE dropped' = dropped \cup {c} /\ UNCHANGED written

\* Mutant: the deferred cards are sent and kept.
TurnEndKeep ==
    /\ busy' = FALSE
    /\ UNCHANGED deferred
    /\ IF deferred = <<>> THEN UNCHANGED <<written, dropped>>
                          ELSE Write(Head(deferred))

\* mark_turn_end up to its first await: the first deferred card is sent, the
\* others are in the hand of the coroutine that drains.  A session the
\* surface manager does not know has nothing deferred.
TurnEnd ==
    /\ busy' = FALSE
    /\ deferred' = <<>>
    /\ IF deferred = <<>> THEN UNCHANGED <<written, dropped>>
                          ELSE Write(Head(deferred))
Rest == IF deferred = <<>> THEN <<>> ELSE Tail(deferred)

\* SchedulerManager._fire_one through defer_or_send.
Fire(c) ==
    /\ c \notin fired /\ surface
    /\ fired' = fired \cup {c}
    /\ IF busy
       THEN deferred' = Append(deferred, c) /\ UNCHANGED <<written, dropped>>
       ELSE Write(c) /\ UNCHANGED deferred
    /\ UNCHANGED <<inbox, sent, open, loop, lock, task, voice, current,
                   processing, surface, busy, doomed>>

-----------------------------------------------------------------------------
(* The device.                                                             *)

Send(f) ==
    /\ open /\ sent < MaxFrames
    /\ inbox' = Append(inbox, f)
    /\ sent' = sent + 1
    /\ UNCHANGED <<open, loop, lock, task, voice, current, processing, gate,
                   cards, doomed>>

Drop ==
    /\ open
    /\ open' = FALSE
    /\ UNCHANGED <<inbox, sent, loop, lock, task, voice, current, processing,
                   gate, cards, doomed>>

-----------------------------------------------------------------------------
(* The handler tasks.  Only the text handler is a turn for the gate.       *)

Goto(s, pc) == task' = [task EXCEPT ![s].pc = pc]
Release(who) ==
    \/ who \notin ToSet(lock) /\ UNCHANGED lock
    \/ \E i \in DOMAIN lock : lock[i] = who /\ lock' = RemoveAt(lock, i)
Holds(who) == lock # <<>> /\ Head(lock) = who

Queue(s) ==
    /\ task[s].pc = "new" /\ ~task[s].cancel
    /\ Goto(s, "wait")
    /\ lock' = Append(lock, s)
    /\ UNCHANGED <<gate, written, dropped>>

Begin(s) ==
    /\ task[s].pc = "wait" /\ Holds(s) /\ ~task[s].cancel
    /\ Goto(s, "body")
    /\ IF s = "text" THEN TurnStart ELSE UNCHANGED busy
    /\ UNCHANGED <<lock, surface, deferred, written, dropped>>

\* Mutant: a cancelled waiter stays in the lock's queue.
GiveUpQueued(s) ==
    /\ task[s].pc \in {"new", "wait"} /\ task[s].cancel
    /\ task' = [task EXCEPT ![s] = Idle]
    /\ UNCHANGED <<lock, gate, written, dropped>>

\* Cancelled before its first step, or while it waits for the lock.
GiveUp(s) ==
    /\ task[s].pc \in {"new", "wait"} /\ task[s].cancel
    /\ task' = [task EXCEPT ![s] = Idle]
    /\ Release(s)
    /\ UNCHANGED <<gate, written, dropped>>

\* The cancellation hits a send of the body.
Swallow(s) ==
    /\ task[s].pc = "body" /\ task[s].cancel
    /\ task' = [task EXCEPT ![s].cancel = FALSE]
    /\ UNCHANGED <<lock, gate, written, dropped>>

\* Mutant: a cancelled text turn skips its finally.
EndUncaught(s) ==
    /\ task[s].pc = "body"
    /\ IF s = "text" /\ deferred # <<>> /\ ~task[s].cancel
       THEN /\ task' = [task EXCEPT ![s] = [Idle EXCEPT !.pc = "drain",
                                                        !.hand = Rest]]
            /\ UNCHANGED lock
       ELSE /\ task' = [task EXCEPT ![s] = Idle]
            /\ Release(s)
    /\ IF s = "text" /\ ~task[s].cancel
       THEN TurnEnd ELSE UNCHANGED <<busy, deferred, written, dropped>>
    /\ UNCHANGED surface

\* Mutant: a handler that ends keeps the lock.
EndLocked(s) ==
    /\ task[s].pc = "body"
    /\ task' = [task EXCEPT ![s] = Idle]
    /\ IF s = "text" THEN TurnEnd ELSE UNCHANGED <<busy, deferred, written, dropped>>
    /\ UNCHANGED <<lock, surface>>

\* The handler returns, fails or is cancelled; for a text turn, its finally.
End(s) ==
    /\ task[s].pc = "body"
    /\ IF s = "text" /\ deferred # <<>>
       THEN /\ task' = [task EXCEPT ![s] = [Idle EXCEPT !.pc = "drain",
                                                        !.hand = Rest]]
            /\ UNCHANGED lock
       ELSE /\ task' = [task EXCEPT ![s] = Idle]
            /\ Release(s)
    /\ IF s = "text" THEN TurnEnd ELSE UNCHANGED <<busy, deferred, written, dropped>>
    /\ UNCHANGED surface

\* Mutant: a send waits for the socket.
DrainOpen(s) ==
    /\ task[s].pc = "drain" /\ open
    /\ IF task[s].hand = <<>>
       THEN /\ task' = [task EXCEPT ![s] = Idle]
            /\ Release(s)
            /\ UNCHANGED <<written, dropped>>
       ELSE /\ Write(Head(task[s].hand))
            /\ task' = [task EXCEPT ![s].hand = Tail(@), ![s].cancel = FALSE]
            /\ UNCHANGED lock
    /\ UNCHANGED gate

\* The send of the drain is over (a cancellation is lost in it): the next
\* card, or the end of the task.
Drain(s) ==
    /\ task[s].pc = "drain"
    /\ IF task[s].hand = <<>>
       THEN /\ task' = [task EXCEPT ![s] = Idle]
            /\ Release(s)
            /\ UNCHANGED <<written, dropped>>
       ELSE /\ Write(Head(task[s].hand))
            /\ task' = [task EXCEPT ![s].hand = Tail(@), ![s].cancel = FALSE]
            /\ UNCHANGED lock
    /\ UNCHANGED gate

SlotStep(s) ==
    /\ \/ Queue(s) \/ Begin(s) \/ GiveUp(s) \/ Swallow(s) \/ End(s) \/ Drain(s)
    /\ UNCHANGED <<inbox, sent, open, loop, voice, current, processing, fired,
                   doomed>>

-----------------------------------------------------------------------------
(* The voice pipeline.  Its process tasks do not take the lock.            *)

\* _process_task = create_task(_process_with_timeout(...))
Spawn ==
    \E v \in Voices :
        /\ ~Speaking(v)
        /\ voice' = [voice EXCEPT ![v] = [Idle EXCEPT !.pc = "new"]]
        /\ current' = v

VoiceBegin(v) ==
    /\ voice[v].pc = "new" /\ ~voice[v].cancel
    /\ voice' = [voice EXCEPT ![v].pc = "body"]
    /\ processing' = TRUE
    /\ TurnStart
    /\ UNCHANGED <<surface, deferred, written, dropped>>

VoiceGiveUp(v) ==
    /\ voice[v].pc = "new" /\ voice[v].cancel
    /\ voice' = [voice EXCEPT ![v] = Idle]
    /\ UNCHANGED <<processing, gate, written, dropped>>

VoiceSwallow(v) ==
    /\ voice[v].pc = "body" /\ voice[v].cancel
    /\ voice' = [voice EXCEPT ![v].cancel = FALSE]
    /\ UNCHANGED <<processing, gate, written, dropped>>

\* The finally of _process_utterance, at its end, on a failure, a
\* cancellation or the timeout.
VoiceEnd(v) ==
    /\ voice[v].pc = "body"
    /\ processing' = FALSE
    /\ TurnEnd
    /\ voice' = [voice EXCEPT ![v] = [Idle EXCEPT
                    !.pc = IF deferred = <<>> THEN "timeout" ELSE "drain",
                    !.hand = Rest]]
    /\ UNCHANGED surface

VoiceDrain(v) ==
    /\ voice[v].pc = "drain"
    /\ IF voice[v].hand = <<>>
       THEN /\ voice' = [voice EXCEPT ![v] = [Idle EXCEPT !.pc = "timeout"]]
            /\ UNCHANGED <<written, dropped>>
       ELSE /\ Write(Head(voice[v].hand))
            /\ voice' = [voice EXCEPT ![v].hand = Tail(@), ![v].cancel = FALSE]
    /\ UNCHANGED <<processing, gate>>

\* What follows the wait_for: after a timeout, _processing is cleared again.
VoiceReturn(v) ==
    /\ voice[v].pc = "timeout"
    /\ voice' = [voice EXCEPT ![v] = Idle]
    /\ processing' \in {processing, FALSE}
    /\ UNCHANGED <<gate, written, dropped>>

VoiceStep(v) ==
    /\ \/ VoiceBegin(v) \/ VoiceGiveUp(v) \/ VoiceSwallow(v) \/ VoiceEnd(v)
       \/ VoiceDrain(v) \/ VoiceReturn(v)
    /\ UNCHANGED <<inbox, sent, open, loop, lock, task, current, fired, doomed>>

-----------------------------------------------------------------------------
(* The read loop.                                                          *)

Reads(f) ==
    /\ loop.pc = "read" /\ inbox # <<>> /\ Head(inbox) = f
    /\ inbox' = Tail(inbox)

\* Captured audio: ignored while processing; when the voice pauses, the VAD
\* starts a process task.
Audio ==
    /\ Reads("audio")
    /\ \/ ~processing /\ Spawn
       \/ UNCHANGED <<voice, current>>
    /\ UNCHANGED <<loop, lock, task, processing, gate, written, dropped, doomed>>

Create(s) == task' = [task EXCEPT ![s] = [Idle EXCEPT !.pc = "new"]]

\* A slot with a live task: a queueing slot waits for it, "config" cancels it
\* and waits.
Spawned(s) ==
    /\ Reads(s)
    /\ IF Live(s)
       THEN /\ loop' = [pc |-> "join", slot |-> s, left |-> {}]
            /\ task' = [task EXCEPT ![s].cancel = (s \notin Queueing)]
       ELSE /\ Create(s)
            /\ UNCHANGED loop
    /\ UNCHANGED <<lock, voice, current, processing, gate, written, dropped, doomed>>

Joined ==
    /\ loop.pc = "join" /\ ~Live(loop.slot)
    /\ Create(loop.slot)
    /\ GoOn("read")
    /\ UNCHANGED <<inbox, lock, voice, current, processing, gate, written,
                   dropped, doomed>>

Stop ==
    /\ Reads("stop")
    /\ lock' = Append(lock, "loop")
    /\ GoOn("stop")
    /\ UNCHANGED <<task, voice, current, processing, gate, written, dropped, doomed>>

\* With the lock: start_processing, which needs enough audio.
StartProcessing ==
    /\ loop.pc = "stop" /\ Holds("loop")
    /\ \/ ~processing /\ Spawn
       \/ UNCHANGED <<voice, current>>
    /\ Release("loop")
    /\ GoOn("read")
    /\ UNCHANGED <<inbox, task, processing, gate, written, dropped, doomed>>

\* Or, in dictation mode, finish_dictation.
Dictate ==
    /\ loop.pc = "stop" /\ Holds("loop")
    /\ GoOn("dictate")
    /\ UNCHANGED <<inbox, lock, task, voice, current, processing, gate,
                   written, dropped, doomed>>

Dictated ==
    /\ loop.pc = "dictate"
    /\ Release("loop")
    /\ GoOn("read")
    /\ UNCHANGED <<inbox, task, voice, current, processing, gate, written,
                   dropped, doomed>>

\* The next live task of the slots left, cancelled and awaited (the code goes
\* through the slots in a fixed order, the model in any); with none left,
\* pipeline.cancel: the process task, cancelled and awaited.
CutFrom(slots) ==
    IF \E s \in slots : Live(s)
    THEN \E s \in slots :
            /\ Live(s)
            /\ loop' = [pc |-> "cut", slot |-> s, left |-> slots \ {s}]
            /\ task' = [task EXCEPT ![s].cancel = TRUE]
            /\ UNCHANGED voice
    ELSE /\ GoOn("cutVoice")
         /\ IF current # None /\ Speaking(current)
            THEN voice' = [voice EXCEPT ![current].cancel = TRUE]
            ELSE UNCHANGED voice
         /\ UNCHANGED task

Cancel ==
    /\ Reads("cancel")
    /\ doomed' = doomed \cup ToSet(deferred)
    /\ CutFrom(Slots)
    /\ UNCHANGED <<lock, current, processing, gate, written, dropped>>

\* Mutant: the cancelled task is not awaited.
CutOn ==
    /\ loop.pc = "cut"
    /\ CutFrom(loop.left)
    /\ UNCHANGED <<inbox, lock, current, processing, gate, written, dropped, doomed>>

CutNext ==
    /\ loop.pc = "cut" /\ ~Live(loop.slot)
    /\ CutFrom(loop.left)
    /\ UNCHANGED <<inbox, lock, current, processing, gate, written, dropped, doomed>>

VoiceCut == \A v \in Voices : v = current => ~Speaking(v)

\* The rest of pipeline.cancel, discard_deferred, and the cancel_ack.
Discard ==
    /\ loop.pc = "cutVoice" /\ VoiceCut
    /\ processing' = FALSE
    /\ deferred' = <<>>
    /\ dropped' = dropped \cup ToSet(deferred)
    /\ GoOn("read")
    /\ UNCHANGED <<inbox, lock, task, voice, current, surface, busy, written, doomed>>

\* The loop ends with the socket: handle_disconnect cancels the tasks of all
\* slots and waits for them,
Leave ==
    /\ loop.pc = "read" /\ ~open /\ inbox = <<>>
    /\ task' = [s \in Slots |-> [task[s] EXCEPT !.cancel = Live(s)]]
    /\ GoOn("leave")
    /\ UNCHANGED <<inbox, lock, voice, current, processing, gate, written,
                   dropped, doomed>>

\* unregisters the surface, and shuts the pipeline down.
Unregister ==
    /\ loop.pc = "leave" /\ \A s \in Slots : ~Live(s)
    /\ surface' = FALSE /\ busy' = FALSE
    /\ deferred' = <<>>
    /\ dropped' = dropped \cup ToSet(deferred)
    /\ voice' = IF VoiceCut THEN voice ELSE [voice EXCEPT ![current].cancel = TRUE]
    /\ GoOn("leaveVoice")
    /\ UNCHANGED <<inbox, lock, task, current, processing, written, doomed>>

Gone ==
    /\ loop.pc = "leaveVoice" /\ VoiceCut
    /\ processing' = FALSE
    /\ GoOn("gone")
    /\ UNCHANGED <<inbox, lock, task, voice, current, gate, written, dropped, doomed>>

LoopStep ==
    /\ \/ Audio \/ (\E s \in Slots : Spawned(s)) \/ Joined
       \/ Stop \/ StartProcessing \/ Dictate \/ Dictated
       \/ Cancel \/ CutNext \/ Discard
       \/ Leave \/ Unregister \/ Gone
    /\ UNCHANGED <<sent, open, fired>>

Init ==
    /\ inbox = <<>> /\ sent = 0 /\ open = TRUE
    /\ loop = [pc |-> "read", slot |-> None, left |-> {}]
    /\ lock = <<>>
    /\ task = [s \in Slots |-> Idle]
    /\ voice = [v \in Voices |-> Idle]
    /\ current = None /\ processing = FALSE
    /\ surface = TRUE /\ busy = FALSE /\ deferred = <<>>
    /\ fired = {} /\ written = <<>> /\ dropped = {} /\ doomed = {}

Next ==
    \/ \E c \in Cards : Fire(c)
    \/ \E f \in Frames : Send(f)
    \/ \E s \in Slots : SlotStep(s)
    \/ \E v \in Voices : VoiceStep(v)
    \/ LoopStep \/ Drop

Spec == Init /\ [][Next]_vars

\* Coroutines that can run do; a handler and a process task end some time
\* (the model and the speech backends answer, fail or time out).
FairSpec ==
    /\ Spec
    /\ \A s \in Slots : WF_vars(SlotStep(s)) /\ WF_vars(SlotStep(s) /\ End(s))
    /\ \A v \in Voices : WF_vars(VoiceStep(v)) /\ WF_vars(VoiceStep(v) /\ VoiceEnd(v))
    /\ WF_vars(LoopStep)

-----------------------------------------------------------------------------
(* Properties.                                                             *)

TypeOK ==
    /\ inbox \in Seq(Frames) /\ sent \in 0..MaxFrames /\ open \in BOOLEAN
    /\ loop \in Loop
    /\ lock \in Seq(Slots \cup {"loop"})
    /\ task \in [Slots -> Coroutine] /\ voice \in [Voices -> Coroutine]
    /\ current \in Voices \cup {None} /\ processing \in BOOLEAN
    /\ surface \in BOOLEAN /\ busy \in BOOLEAN /\ deferred \in Seq(Cards)
    /\ fired \subseteq Cards /\ written \in Seq(Cards)
    /\ dropped \subseteq Cards /\ doomed \subseteq Cards

InTurn == task["text"].pc = "body" \/ \E v \in Voices : voice[v].pc = "body"

\* Cards are held back only while a turn is under way whose end will drain
\* them: no interleaving of text turns, voice turns, cancellations, lost
\* cancellations and disconnects leaves the gate shut on an idle session.
GateOpens ==
    /\ busy => InTurn
    /\ deferred # <<>> => busy

Coroutines == Slots \cup Voices
HandOf(x) == IF x \in Slots THEN task[x].hand ELSE voice[x].hand

\* A card that fired is written, once, or given up, or in exactly one place
\* that will write it: the gate or the hand of one draining coroutine.
OnePlace ==
    \A c \in Cards :
        LET places == {x \in Coroutines : c \in ToSet(HandOf(x))}
        IN  Cardinality({i \in DOMAIN written : written[i] = c})
            + Cardinality({i \in DOMAIN deferred : deferred[i] = c})
            + Cardinality(places)
            + (IF c \in dropped THEN 1 ELSE 0)
              = IF c \in fired THEN 1 ELSE 0

\* conn_lock goes to every task that runs a handler and only to one at a
\* time, and no finished or cancelled task is left in its queue.
LockIsHeld ==
    /\ \A s \in Slots : task[s].pc \in {"body", "drain"} => Holds(s)
    /\ \A s \in Slots : (s \in ToSet(lock)) <=> task[s].pc \in {"wait", "body", "drain"}
    /\ ("loop" \in ToSet(lock)) <=> loop.pc \in {"stop", "dictate"}
    /\ IsInjective(lock)

\* When a cancel is acknowledged, and when the disconnect is over, no handler
\* task is left, running or waiting, and the process task the pipeline knows
\* has ended, also if it lost its cancellation in a send.
QuietAck ==
    (loop.pc = "cutVoice" /\ loop'.pc = "read") \/ loop'.pc = "gone"
        => (\A s \in Slots : task'[s].pc = "done") /\ VoiceCut'
AckedIsQuiet == [][QuietAck]_vars

\* Every frame the device has sent is read in the end, whatever the loop has
\* to wait for, and a device that went away is let go.
AllRead == inbox # <<>> ~> inbox = <<>>
LetGo == ~open ~> loop.pc = "gone"

(* What the sources say and the code does not do; TLC refutes each of them *)
(* with the cfg of its name.                                               *)

\* cancel_handler.py: a card deferred during the cancelled turn disappears.
CancelDrops == ToSet(written) \cap doomed = {}

\* text_turn_gate.py: no card between the tokens of a text turn.
NoInterleave == [][written' # written => ~(task["text"].pc = "body"
                                           /\ task'["text"].pc = "body")]_vars

\* protocol.md: a cancel cancels any processing task in progress.
CancelStopsVoice ==
    [][ loop.pc = "cutVoice" /\ loop'.pc = "read"
          => \A v \in Voices : voice[v].pc # "body" ]_vars

\* handler_task_spawn.py: handlers used to block the read loop from receiving
\* a cancel for their full duration; they are detached so that it is free.
LoopIsFree == loop.pc \in {"join", "stop"} => "cancel" \notin ToSet(inbox)
=============================================================================

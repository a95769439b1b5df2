------------------------------ MODULE Router -------------------------------
(***************************************************************************)
(* CapabilityAwareRouter: the fleet of models behind the conversation      *)
(* engine.  A turn chooses the entry of the fleet that has what its        *)
(* message needs within the tiers of the voice mode, and constructs it on  *)
(* its first use, under one lock; the engine shuts the fleet down.         *)
(***************************************************************************)
EXTENDS Integers, FiniteSets

CONSTANTS
    Turns,     \* turns
    Fleet,     \* the entries: a set of [id, caps, tier, priority]
    Needs,     \* what messages require: sets of capabilities
    Modes,     \* the voice modes that are set
    MaxMakes,  \* bound: instances constructed
    None

\* TIER_FOR_MODE; mode 3 is the gateway's and routes nothing.
TierForMode(mode) ==
    CASE mode \in {0, 1} -> {"local"} [] mode = 2 -> {"cloud", "lan"} [] OTHER -> {}

FleetAssumption == \A s \in Fleet : s.tier \in {"local", "cloud", "lan"}

VARIABLES
    mode,      \* _voice_mode
    instances, \* _instances: the entries that have an instance
    made,      \* how often an entry was constructed, and not shut down
    lock,      \* _instance_lock
    turn,      \* the turns
    closing    \* shutdown, and the entries it has still to shut down

vars == <<mode, instances, made, lock, turn, closing>>

Ids == {s.id : s \in Fleet}
Idle == [pc |-> "idle", spec |-> None]

TypeOK ==
    /\ mode \in Modes /\ instances \subseteq Ids /\ made \in [Ids -> 0..MaxMakes]
    /\ lock \in Turns \cup {None}
    /\ turn \in [Turns ->
         [pc : {"idle", "lock", "make", "stream"}, spec : Fleet \cup {None}]]
    /\ closing \in [pc : {"no", "closing", "closed"}, todo : SUBSET Ids]

Init ==
    /\ mode \in Modes /\ instances = {} /\ made = [i \in Ids |-> 0]
    /\ lock = None /\ turn = [t \in Turns |-> Idle] /\ closing = [pc |-> "no", todo |-> {}]

Candidates(need, m) == {s \in Fleet : s.tier \in TierForMode(m) /\ need \subseteq s.caps}

\* choose: the lowest priority among the candidates, the first of them.
Choose(need, m) == {s \in Candidates(need, m) :
    \A r \in Candidates(need, m) : s.priority <= r.priority}

\* generate_stream_with_messages: a message that no entry can take gets no reply.
Ask(t) ==
    /\ turn[t].pc = "idle" /\ closing.pc = "no"
    /\ \E need \in Needs :
         IF Choose(need, mode) = {} THEN UNCHANGED turn
         ELSE \E spec \in Choose(need, mode) :
                turn' = [turn EXCEPT ![t] =
                  [pc |-> IF spec.id \in instances THEN "stream" ELSE "lock",
                   spec |-> spec]]
    /\ UNCHANGED <<mode, instances, made, lock, closing>>

\* Mutant: whoever gets the lock constructs.
LockBlindly(t) ==
    /\ turn[t].pc = "lock" /\ lock = None /\ made[turn[t].spec.id] < MaxMakes
    /\ lock' = t /\ turn' = [turn EXCEPT ![t].pc = "make"]
    /\ made' = [made EXCEPT ![turn[t].spec.id] = @ + 1]
    /\ UNCHANGED <<mode, instances, closing>>

\* _ensure_instance: with the lock, look again; then create_llm and initialize.
Lock(t) ==
    /\ turn[t].pc = "lock" /\ lock = None
    /\ IF turn[t].spec.id \in instances
       THEN turn' = [turn EXCEPT ![t].pc = "stream"] /\ UNCHANGED <<lock, made>>
       ELSE /\ made[turn[t].spec.id] < MaxMakes
            /\ made' = [made EXCEPT ![turn[t].spec.id] = @ + 1]
            /\ lock' = t /\ turn' = [turn EXCEPT ![t].pc = "make"]
    /\ UNCHANGED <<mode, instances, closing>>

Made(t) ==
    /\ turn[t].pc = "make" /\ lock' = None
    /\ instances' = instances \cup {turn[t].spec.id}
    /\ turn' = [turn EXCEPT ![t].pc = "stream"]
    /\ UNCHANGED <<mode, made, closing>>

\* initialize raises, or the turn is cancelled: the lock is released.
Fail(t) ==
    /\ turn[t].pc \in {"lock", "make"}
    /\ lock' = IF lock = t THEN None ELSE lock
    /\ made' = IF turn[t].pc = "make" THEN [made EXCEPT ![turn[t].spec.id] = @ - 1] ELSE made
    /\ turn' = [turn EXCEPT ![t] = Idle]
    /\ UNCHANGED <<mode, instances, closing>>

End(t) ==
    /\ turn[t].pc = "stream" /\ turn' = [turn EXCEPT ![t] = Idle]
    /\ UNCHANGED <<mode, instances, made, lock, closing>>

\* set_voice_mode, by the config_update of any connection.
SetVoiceMode(m) ==
    /\ m # mode /\ mode' = m
    /\ UNCHANGED <<instances, made, lock, turn, closing>>

\* shutdown of the engine, or of the router that a swap replaced: the instances
\* of the moment, one after the other; then all are forgotten.  Turns in flight go on.
Shutdown ==
    /\ closing.pc = "no" /\ closing' = [pc |-> "closing", todo |-> instances]
    /\ UNCHANGED <<mode, instances, made, lock, turn>>

Closed ==
    /\ closing.pc = "closing"
    /\ \/ \E i \in closing.todo :
            /\ made' = [made EXCEPT ![i] = @ - 1]
            /\ closing' = [closing EXCEPT !.todo = @ \ {i}] /\ UNCHANGED instances
       \/ /\ closing.todo = {} /\ closing' = [closing EXCEPT !.pc = "closed"]
          /\ instances' = {} /\ UNCHANGED made
    /\ UNCHANGED <<mode, lock, turn>>

Next ==
    \/ \E t \in Turns : Ask(t) \/ Lock(t) \/ Made(t) \/ Fail(t) \/ End(t)
    \/ \E m \in Modes : SetVoiceMode(m)
    \/ Shutdown \/ Closed

Spec == Init /\ [][Next]_vars

\* However many turns ask for a model that is not there yet, and whichever of them
\* fail, one instance of it is constructed, so that until the shutdown none is left
\* running that the shutdown will not find.
OneInstance == closing.pc = "no" => \A i \in Ids :
    /\ made[i] = (IF i \in instances THEN 1 ELSE 0)
                + Cardinality({t \in Turns : turn[t].pc = "make" /\ turn[t].spec.id = i})
    /\ made[i] <= 1
=============================================================================

------------------------------ MODULE Fallback ------------------------------
(***************************************************************************)
(* The local speech backend a pipeline keeps for the case that the cloud   *)
(* fails: FallbackSttCache, which a swap to the cloud may warm up in the   *)
(* background, and FallbackTtsCache, which is made on its first use only   *)
(* (no Prewarm).  Construction is at once, initialize takes seconds.       *)
(***************************************************************************)
EXTENDS Integers, FiniteSets

CONSTANTS
    Users,    \* process tasks that fall back
    Makes,    \* the instances that are made
    MaxWarms, \* bound: prewarms scheduled; 0 for the voice
    None

MaxWarmsAssumption == MaxWarms \in Nat

VARIABLES
    held,  \* _fallback_stt
    made,  \* the state of each instance
    user,  \* the tasks: what they do, and with which instance
    warm,  \* _prewarm_task
    close, \* shutdown
    warms

vars == <<held, made, user, warm, close, warms>>

Idle == [pc |-> "idle", of |-> None]

TypeOK ==
    /\ held \in Makes \cup {None}
    /\ made \in [Makes -> {"none", "making", "broken", "up", "down"}]
    /\ user \in [Users -> [pc : {"idle", "init", "use"}, of : Makes \cup {None}]]
    /\ warm \in [pc : {"idle", "init", "drop"}, of : Makes \cup {None}]
    /\ close \in {"open", "warm", "held", "closed"} /\ warms \in 0..MaxWarms

Init ==
    /\ held = None /\ made = [i \in Makes |-> "none"]
    /\ user = [u \in Users |-> Idle] /\ warm = Idle /\ close = "open" /\ warms = 0

\* Mutant: a prewarm that comes late replaces what is there.
WarmReplaces ==
    /\ warm.pc = "init" /\ made[warm.of] = "making"
    /\ made' = [made EXCEPT ![warm.of] = "up"] /\ held' = warm.of /\ warm' = Idle
    /\ UNCHANGED <<user, close, warms>>

\* schedule_prewarm, at a swap to the cloud: unless one is there or on its way.
Warm(i) ==
    /\ close = "open" /\ warms < MaxWarms /\ warms' = warms + 1
    /\ IF held = None /\ warm.pc = "idle"
       THEN /\ made[i] = "none" /\ made' = [made EXCEPT ![i] = "making"]
            /\ warm' = [pc |-> "init", of |-> i]
       ELSE UNCHANGED <<made, warm>>
    /\ UNCHANGED <<held, user, close>>

\* Initialised: it is kept, or shut down if a failure of the cloud came first.
Warmed ==
    /\ warm.pc = "init" /\ made[warm.of] = "making"
    /\ IF held = None
       THEN /\ held' = warm.of /\ made' = [made EXCEPT ![warm.of] = "up"]
            /\ warm' = Idle
       ELSE /\ made' = [made EXCEPT ![warm.of] = "up"]
            /\ warm' = [warm EXCEPT !.pc = "drop"] /\ UNCHANGED held
    /\ UNCHANGED <<user, close, warms>>

WarmDropped ==
    /\ warm.pc = "drop" /\ made' = [made EXCEPT ![warm.of] = "down"] /\ warm' = Idle
    /\ UNCHANGED <<held, user, close, warms>>

WarmFailed ==
    /\ warm.pc = "init" /\ made' = [made EXCEPT ![warm.of] = "broken"] /\ warm' = Idle
    /\ UNCHANGED <<held, user, close, warms>>

\* transcribe: what is held is used; else one is made and held before it is
\* initialised.
Need(u, i) ==
    /\ close = "open" /\ user[u].pc = "idle"
    /\ IF held # None
       THEN user' = [user EXCEPT ![u] = [pc |-> "use", of |-> held]] /\ UNCHANGED <<held, made>>
       ELSE /\ made[i] = "none" /\ made' = [made EXCEPT ![i] = "making"] /\ held' = i
            /\ user' = [user EXCEPT ![u] = [pc |-> "init", of |-> i]]
    /\ UNCHANGED <<warm, close, warms>>

\* initialize returns, and the task goes on with what is held by then; or it
\* raises, or is cancelled.
Inited(u) ==
    /\ user[u].pc = "init"
    /\ \/ /\ made' = [made EXCEPT ![user[u].of] = "up"]
          /\ user' = [user EXCEPT ![u] = [pc |-> "use", of |-> held]]
       \/ /\ made' = [made EXCEPT ![user[u].of] = "broken"]
          /\ user' = [user EXCEPT ![u] = Idle]
    /\ UNCHANGED <<held, warm, close, warms>>

Used(u) ==
    /\ user[u].pc = "use" /\ user' = [user EXCEPT ![u] = Idle]
    /\ UNCHANGED <<held, made, warm, close, warms>>

\* shutdown, after pipeline.cancel has ended the process task: the prewarm is
\* cancelled and awaited, then what is held is shut down.
Close ==
    /\ close = "open" /\ \A u \in Users : user[u].pc = "idle"
    /\ close' = "warm" /\ UNCHANGED <<held, made, user, warm, warms>>

\* Mutant: the prewarm is not cancelled.
CloseWarmLeft ==
    /\ close = "warm" /\ close' = "held"
    /\ UNCHANGED <<held, made, user, warm, warms>>

CloseWarm ==
    /\ close = "warm" /\ close' = "held" /\ warm' = Idle
    /\ made' = IF warm.pc = "idle" THEN made
               ELSE [made EXCEPT ![warm.of] = IF warm.pc = "drop" THEN "down" ELSE "broken"]
    /\ UNCHANGED <<held, user, warms>>

CloseHeld ==
    /\ close = "held" /\ close' = "closed" /\ held' = None
    /\ made' = IF held = None THEN made ELSE [made EXCEPT ![held] = "down"]
    /\ UNCHANGED <<user, warm, warms>>

Next ==
    \/ \E i \in Makes : Warm(i) \/ \E u \in Users : Need(u, i)
    \/ \E u \in Users : Inited(u) \/ Used(u)
    \/ Warmed \/ WarmDropped \/ WarmFailed \/ Close \/ CloseWarm \/ CloseHeld

Spec == Init /\ [][Next]_vars

\* A model that is up is the one that is held, or its prewarm is about to drop
\* it: none is left in memory by a prewarm that a failure of the cloud
\* overtakes, and none at all once the pipeline is closed.
NoneLeft ==
    /\ \A i \in Makes : made[i] = "up" => i = held \/ (warm.pc = "drop" /\ warm.of = i)
    /\ close = "closed" => \A i \in Makes : made[i] \in {"none", "broken", "down"}

\* What is used is initialised.
UsedIsUp == \A u \in Users : user[u].pc = "use" => made[user[u].of] = "up"
=============================================================================

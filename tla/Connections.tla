---------------------------- MODULE Connections ----------------------------
(***************************************************************************)
(* The WebSocket connections of the voice server: admission, the register  *)
(* handshake with its eviction of the device's older connections, the      *)
(* clear command, the disconnect chain, and the session, device, surface   *)
(* and pipeline they share; with the SessionManager's cleanup loop and a   *)
(* restart of the server.                                                  *)
(*                                                                         *)
(* A step of a connection is what its coroutine does between two awaits;   *)
(* a database statement takes effect when it is submitted and its reply is *)
(* looked at when the coroutine resumes.  A connection registers once:     *)
(* register is the first frame after the handshake.                        *)
(***************************************************************************)
EXTENDS Integers, FiniteSets

CONSTANTS Conns, Devices, Sessions, None,
          MaxConnections       \* VoiceServer._max_connections

ASSUME ConstantsAssumption ==
    /\ None \notin Conns \cup Devices \cup Sessions
    /\ MaxConnections \in Nat \ {0}
    /\ IsFiniteSet(Conns)

VARIABLES
    conn,       \* per connection: its coroutine and its ConnState
    registry,   \* VoiceServer._active_connections
    pipes,      \* connections whose voice pipeline is running
    surf,       \* per session, the connection its surface writes to, or None
    sstat,      \* table sessions: status
    stale,      \* sessions whose last_active_at is past the timeout
    online,     \* devices with is_online = 1
    known,      \* per device, the session_id it has stored
    clean       \* the cleanup loop of the session manager

db == <<sstat, stale, online>>
vars == <<conn, registry, pipes, surf, db, known, clean>>

Statuses == {"absent", "active", "paused", "ended"}

\* Where the coroutine of a connection awaits.
ConnPc == {"closed", "handshake", "idle", "evict", "evictShut", "evictPause",
           "evictClose", "upsert", "resume", "attach", "replay", "build",
           "clear", "clearNew", "clearSet", "paused", "leaving"}
Conn == [pc : ConnPc,
         dev : Devices \cup {None},
         open : BOOLEAN,                  \* the socket
         registered : BOOLEAN,            \* ConnState
         sid : Sessions \cup {None},
         pipeline : BOOLEAN,
         left : SUBSET Conns,             \* eviction: entries still to visit
         victim : Conns \cup {None},
         got : Sessions \cup {None},      \* session requested or obtained
         seen : Statuses,                 \* reply of get_session, until used
         local : BOOLEAN,                 \* disconnect: its pipeline variable
         started : BOOLEAN,               \* history: session_start was sent
         cleared : BOOLEAN,               \* history: a clear was handled
         alone : BOOLEAN]                 \* history: no overlap on its device

Closed == [pc |-> "closed", dev |-> None, open |-> FALSE, registered |-> FALSE,
           sid |-> None, pipeline |-> FALSE, left |-> {}, victim |-> None,
           got |-> None, seen |-> "absent", local |-> FALSE, started |-> FALSE,
           cleared |-> FALSE, alone |-> FALSE]

At(c, pc) == conn[c].pc = pc
Goto(c, pc) == conn' = [conn EXCEPT ![c].pc = pc]

SetStatus(s, x) == sstat' = [sstat EXCEPT ![s] = x]
\* update_session_status also writes last_active_at.
Touch(s) == stale' = stale \ {s}

\* pause_session: UPDATE ... SET status = 'paused' WHERE status = 'active'.
PauseIfActive(s) ==
    IF s # None /\ sstat[s] = "active"
    THEN SetStatus(s, "paused") /\ Touch(s)
    ELSE UNCHANGED <<sstat, stale>>

\* The INSERT of create_session, under a fresh identifier.
Insert(c, pc) ==
    \E s \in Sessions :
        /\ sstat[s] = "absent"
        /\ SetStatus(s, "active")
        /\ Touch(s)
        /\ conn' = [conn EXCEPT ![c].got = s, ![c].pc = pc]

-----------------------------------------------------------------------------
(* Admission and the read loop.                                            *)

\* Admission counts the registry, then the WebSocket handshake is awaited.
\* The new connection is told apart from the device's others by the history
\* variable "alone" only; the server learns the device at register.
Accept(c, d) ==
    /\ At(c, "closed")
    /\ \A o \in Conns : c \notin conn[o].left /\ c # conn[o].victim
    /\ \A s \in Sessions : surf[s] # c
    /\ Cardinality(registry) < MaxConnections
    /\ LET others == {o \in Conns : conn[o].dev = d}
       IN  conn' = [o \in Conns |->
              IF o = c THEN [Closed EXCEPT !.pc = "handshake", !.dev = d,
                                 !.open = TRUE, !.alone = (others = {})]
              ELSE IF o \in others THEN [conn[o] EXCEPT !.alone = FALSE]
              ELSE conn[o]]
    /\ UNCHANGED <<registry, pipes, surf, db, known, clean>>

\* The handshake is done, or has failed on a closed socket.
Join(c) ==
    /\ At(c, "handshake")
    /\ \/ /\ Goto(c, "idle")
          /\ registry' = registry \cup {c}
       \/ /\ ~conn[c].open
          /\ conn' = [conn EXCEPT ![c] = Closed]
          /\ UNCHANGED registry
    /\ UNCHANGED <<pipes, surf, db, known, clean>>

\* The socket dies: the peer went away, or timed out.
Drop(c) ==
    /\ conn[c].open
    /\ conn' = [conn EXCEPT ![c].open = FALSE]
    /\ UNCHANGED <<registry, pipes, surf, db, known, clean>>

\* A conversation turn ends with touch_session.
Turn(c) ==
    /\ At(c, "idle") /\ conn[c].sid # None
    /\ Touch(conn[c].sid)
    /\ UNCHANGED <<conn, registry, pipes, surf, sstat, online, known, clean>>

-----------------------------------------------------------------------------
(* register: evict_stale_connections_for_device.                           *)

Register(c) ==
    /\ At(c, "idle") /\ conn[c].open /\ conn[c].sid = None
    /\ conn' = [conn EXCEPT ![c].pc = "evict", ![c].left = registry \ {c},
                            ![c].got = known[conn[c].dev]]
    /\ UNCHANGED <<registry, pipes, surf, db, known, clean>>

Stale(c) == {o \in conn[c].left : conn[o].dev = conn[c].dev /\ conn[o].registered}

\* The next stale entry; entries before it in the dictionary do not match.
\* Its on_event and its pipeline's shutdown are awaited.
EvictNext(c) ==
    /\ At(c, "evict")
    /\ \E o \in Stale(c), skipped \in SUBSET (conn[c].left \ Stale(c)) :
          conn' = [conn EXCEPT ![c].pc = "evictShut", ![c].victim = o,
                               ![c].left = @ \ (skipped \cup {o})]
    /\ UNCHANGED <<registry, pipes, surf, db, known, clean>>

\* old_conn["pipeline"] = None, and pause_session of the old session.
EvictPause(c) ==
    LET o == conn[c].victim
    IN  /\ At(c, "evictShut")
        /\ pipes' = IF conn[o].pipeline THEN pipes \ {o} ELSE pipes
        /\ PauseIfActive(conn[o].sid)
        /\ conn' = [conn EXCEPT ![c].pc = "evictPause", ![o].pipeline = FALSE]
        /\ UNCHANGED <<registry, surf, online, known, clean>>

\* old_ws.close
EvictClose(c) ==
    /\ At(c, "evictPause")
    /\ conn' = [conn EXCEPT ![c].pc = "evictClose",
                            ![conn[c].victim].open = FALSE]
    /\ UNCHANGED <<registry, pipes, surf, db, known, clean>>

EvictDone(c) ==
    LET o == conn[c].victim
    IN  /\ At(c, "evictClose")
        /\ conn' = [conn EXCEPT ![c].pc = "evict", ![c].victim = None,
                                ![o].registered = FALSE]
        /\ registry' = registry \ {o}
        /\ UNCHANGED <<pipes, surf, db, known, clean>>

-----------------------------------------------------------------------------
(* register: device, session, surface, session_start, pipeline.            *)

Upsert(c) ==
    /\ At(c, "evict") /\ Stale(c) = {}
    /\ online' = online \cup {conn[c].dev}
    /\ conn' = [conn EXCEPT ![c].pc = "upsert", ![c].left = {}]
    /\ UNCHANGED <<registry, pipes, surf, sstat, stale, known, clean>>

\* The hardware_id belongs to another device: register returns.
Collision(c) ==
    /\ At(c, "evict") /\ Stale(c) = {}
    /\ conn' = [conn EXCEPT ![c].pc = "idle", ![c].left = {}, ![c].got = None]
    /\ UNCHANGED <<registry, pipes, surf, db, known, clean>>

\* resume_session: get_session.
FindSession(c) ==
    LET s == conn[c].got
    IN  /\ At(c, "upsert") /\ s # None
        /\ conn' = [conn EXCEPT ![c].pc = "resume", ![c].seen = sstat[s]]
        /\ UNCHANGED <<registry, pipes, surf, db, known, clean>>

\* An active session is touched, a paused one set active, whatever they have
\* become since get_session.
Resume(c) ==
    LET s == conn[c].got
    IN  /\ At(c, "resume")
        /\ \/ conn[c].seen = "active" /\ UNCHANGED sstat
           \/ conn[c].seen = "paused" /\ SetStatus(s, "active")
        /\ Touch(s)
        /\ Goto(c, "attach")
        /\ UNCHANGED <<registry, pipes, surf, online, known, clean>>

CreateSession(c) ==
    /\ \/ At(c, "upsert") /\ conn[c].got = None
       \/ At(c, "resume") /\ conn[c].seen \in {"absent", "ended"}
    /\ Insert(c, "attach")
    /\ UNCHANGED <<registry, pipes, surf, online, known, clean>>

\* Mutant: a resumed session keeps the surface it has.
AttachNew(c) ==
    LET s == conn[c].got
    IN  /\ At(c, "attach")
        /\ conn' = [conn EXCEPT ![c].pc = "replay", ![c].sid = s,
                                ![c].registered = TRUE, ![c].got = None]
        /\ surf' = IF conn[c].seen = "paused" THEN surf ELSE [surf EXCEPT ![s] = c]
        /\ UNCHANGED <<registry, pipes, db, known, clean>>

\* session_id and registered are set, and the surface is registered.
Attach(c) ==
    LET s == conn[c].got
    IN  /\ At(c, "attach")
        /\ conn' = [conn EXCEPT ![c].pc = "replay", ![c].sid = s,
                                ![c].registered = TRUE, ![c].got = None,
                                ![c].seen = "absent"]
        /\ surf' = [surf EXCEPT ![s] = c]
        /\ UNCHANGED <<registry, pipes, db, known, clean>>

\* Mutant: register waits for a client that is gone.
HelloOpen(c) ==
    /\ At(c, "replay") /\ conn[c].open
    /\ known' = [known EXCEPT ![conn[c].dev] = conn[c].sid]
    /\ conn' = [conn EXCEPT ![c].pc = "build", ![c].started = TRUE]
    /\ UNCHANGED <<registry, pipes, surf, db, clean>>

\* The offline queue has been replayed: session_start.  On a closed socket
\* register returns without a pipeline.
Hello(c) ==
    /\ At(c, "replay")
    /\ IF conn[c].open
       THEN /\ known' = [known EXCEPT ![conn[c].dev] = conn[c].sid]
            /\ conn' = [conn EXCEPT ![c].pc = "build", ![c].started = TRUE]
       ELSE /\ Goto(c, "idle")
            /\ UNCHANGED known
    /\ UNCHANGED <<registry, pipes, surf, db, clean>>

\* build_and_initialize_pipeline, which may fail.
Build(c) ==
    /\ At(c, "build")
    /\ \/ /\ pipes' = pipes \cup {c}
          /\ conn' = [conn EXCEPT ![c].pc = "idle", ![c].pipeline = TRUE]
       \/ /\ Goto(c, "idle")
          /\ UNCHANGED pipes
    /\ UNCHANGED <<registry, surf, db, known, clean>>

-----------------------------------------------------------------------------
(* clear: end the session and give the connection a new one.               *)

Clear(c) ==
    /\ At(c, "idle") /\ conn[c].open /\ conn[c].sid # None
    /\ conn' = [conn EXCEPT ![c].pc = "clear", ![c].seen = sstat[conn[c].sid]]
    /\ UNCHANGED <<registry, pipes, surf, db, known, clean>>

EndOld(c) ==
    LET s == conn[c].sid
    IN  /\ At(c, "clear") /\ conn[c].seen # "ended"
        /\ SetStatus(s, "ended") /\ Touch(s)
        /\ Goto(c, "clearNew")
        /\ UNCHANGED <<registry, pipes, surf, online, known, clean>>

CreateNext(c) ==
    /\ \/ At(c, "clearNew")
       \/ At(c, "clear") /\ conn[c].seen = "ended"
    /\ Insert(c, "clearSet")
    /\ UNCHANGED <<registry, pipes, surf, online, known, clean>>

ClearDone(c) ==
    /\ At(c, "clearSet")
    /\ conn' = [conn EXCEPT ![c].pc = "idle", ![c].sid = conn[c].got,
                            ![c].got = None, ![c].seen = "absent",
                            ![c].cleared = TRUE]
    /\ known' = IF conn[c].open
                THEN [known EXCEPT ![conn[c].dev] = conn[c].got] ELSE known
    /\ UNCHANGED <<registry, pipes, surf, db, clean>>

-----------------------------------------------------------------------------
(* The disconnect chain, run when the read loop ends.                      *)

\* Mutant: the session is not paused.
LeaveActive(c) ==
    LET s == conn[c].sid
    IN  /\ At(c, "idle") /\ ~conn[c].open
        /\ surf' = IF s = None THEN surf ELSE [surf EXCEPT ![s] = None]
        /\ conn' = [conn EXCEPT ![c].pc = "paused",
                                ![c].local = conn[c].pipeline]
        /\ UNCHANGED <<registry, pipes, db, known, clean>>

Leave(c) ==
    LET s == conn[c].sid
    IN  /\ At(c, "idle") /\ ~conn[c].open
        /\ surf' = IF s = None THEN surf ELSE [surf EXCEPT ![s] = None]
        /\ PauseIfActive(s)
        /\ conn' = [conn EXCEPT ![c].pc = "paused",
                                ![c].local = conn[c].pipeline]
        /\ UNCHANGED <<registry, pipes, online, known, clean>>

OtherActive(c) == \E o \in registry \ {c} :
    conn[o].dev = conn[c].dev /\ conn[o].registered

\* set_device_online(FALSE), unless another registered connection of the
\* device is there.  A connection that never registered has no device_id.
Offline(c) ==
    /\ At(c, "paused")
    /\ online' = IF conn[c].sid # None /\ ~OtherActive(c)
                 THEN online \ {conn[c].dev} ELSE online
    /\ Goto(c, "leaving")
    /\ UNCHANGED <<registry, pipes, surf, sstat, stale, known, clean>>

\* Mutant: an evicted connection is not cleaned up after.
GoneEvicted(c) ==
    /\ At(c, "leaving")
    /\ pipes' = IF conn[c].local /\ conn[c].registered THEN pipes \ {c} ELSE pipes
    /\ registry' = registry \ {c}
    /\ conn' = [conn EXCEPT ![c] = Closed]
    /\ UNCHANGED <<surf, db, known, clean>>

\* Mutant: only a registered connection is removed.
GoneKept(c) ==
    /\ At(c, "leaving")
    /\ pipes' = IF conn[c].local THEN pipes \ {c} ELSE pipes
    /\ registry' = IF conn[c].registered THEN registry \ {c} ELSE registry
    /\ conn' = [conn EXCEPT ![c] = Closed]
    /\ UNCHANGED <<surf, db, known, clean>>

Gone(c) ==
    /\ At(c, "leaving")
    /\ pipes' = IF conn[c].local THEN pipes \ {c} ELSE pipes
    /\ registry' = registry \ {c}
    /\ conn' = [conn EXCEPT ![c] = Closed]
    /\ UNCHANGED <<surf, db, known, clean>>

ConnStep(c) ==
    \/ Join(c)
    \/ EvictNext(c) \/ EvictPause(c) \/ EvictClose(c) \/ EvictDone(c)
    \/ Upsert(c) \/ Collision(c) \/ FindSession(c) \/ Resume(c)
    \/ CreateSession(c) \/ Attach(c) \/ Hello(c) \/ Build(c)
    \/ EndOld(c) \/ CreateNext(c) \/ ClearDone(c)
    \/ Leave(c) \/ Offline(c) \/ Gone(c)

ConnEvent(c) ==
    \/ Drop(c) \/ Turn(c) \/ Register(c) \/ Clear(c)
    \/ \E d \in Devices : Accept(c, d)

-----------------------------------------------------------------------------
(* The session manager, the clock, and a restart.                          *)

\* Half an hour without a touch.
Age(s) ==
    /\ sstat[s] \in {"active", "paused"} /\ s \notin stale
    /\ stale' = stale \cup {s}
    /\ UNCHANGED <<conn, registry, pipes, surf, sstat, online, known, clean>>

\* The loop lists the stale sessions and ends them one by one: end_session
\* reads the row, then writes it.
CleanList ==
    /\ clean.pc = "sleep"
    /\ clean' = [clean EXCEPT !.pc = "next",
                    !.left = {s \in stale : sstat[s] \in {"active", "paused"}}]
    /\ UNCHANGED <<conn, registry, pipes, surf, db, known>>

CleanGet ==
    /\ clean.pc = "next"
    /\ IF clean.left = {}
       THEN clean' = [clean EXCEPT !.pc = "sleep"]
       ELSE \E s \in clean.left :
               clean' = [pc |-> "end", left |-> clean.left \ {s}, sid |-> s,
                         seen |-> sstat[s]]
    /\ UNCHANGED <<conn, registry, pipes, surf, db, known>>

CleanEnd ==
    /\ clean.pc = "end"
    /\ IF clean.seen # "ended"
       THEN SetStatus(clean.sid, "ended") /\ Touch(clean.sid)
       ELSE UNCHANGED <<sstat, stale>>
    /\ clean' = [clean EXCEPT !.pc = "next", !.sid = None, !.seen = "absent"]
    /\ UNCHANGED <<conn, registry, pipes, surf, online, known>>

CleanStep == CleanList \/ CleanGet \/ CleanEnd

CleanIdle == [pc |-> "sleep", left |-> {}, sid |-> None, seen |-> "absent"]

\* A crash or a stop, then the start: every connection is gone, and sessions
\* left over are ended when stale and paused otherwise.  is_online stays.
Restart ==
    /\ \E c \in Conns : ~At(c, "closed")
    /\ conn' = [c \in Conns |-> Closed]
    /\ registry' = {} /\ pipes' = {}
    /\ surf' = [s \in Sessions |-> None]
    /\ sstat' = [s \in Sessions |->
          IF sstat[s] \notin {"active", "paused"} THEN sstat[s]
          ELSE IF s \in stale THEN "ended" ELSE "paused"]
    /\ stale' = {}
    /\ clean' = CleanIdle
    /\ UNCHANGED <<online, known>>

Init ==
    /\ conn = [c \in Conns |-> Closed]
    /\ registry = {} /\ pipes = {}
    /\ surf = [s \in Sessions |-> None]
    /\ sstat = [s \in Sessions |-> "absent"] /\ stale = {}
    /\ online = {}
    /\ known = [d \in Devices |-> None]
    /\ clean = CleanIdle

Next ==
    \/ \E c \in Conns : ConnStep(c) \/ ConnEvent(c)
    \/ \E s \in Sessions : Age(s)
    \/ CleanStep \/ Restart

Spec == Init /\ [][Next]_vars

\* The event loop resumes every coroutine whose await is over; peers, turns
\* and restarts are under no obligation.
FairSpec == Spec /\ (\A c \in Conns : WF_vars(ConnStep(c))) /\ WF_vars(CleanStep)

-----------------------------------------------------------------------------
(* Properties.                                                             *)

TypeOK ==
    /\ conn \in [Conns -> Conn]
    /\ registry \subseteq Conns /\ pipes \subseteq Conns
    /\ surf \in [Sessions -> Conns \cup {None}]
    /\ sstat \in [Sessions -> Statuses] /\ stale \subseteq Sessions
    /\ online \subseteq Devices
    /\ known \in [Devices -> Sessions \cup {None}]
    /\ clean \in [pc : {"sleep", "next", "end"}, left : SUBSET Sessions,
                  sid : Sessions \cup {None}, seen : Statuses]

\* A connection that has the session and has not paused it yet, or that is
\* about to get it.
Holds(c, s) ==
    \/ conn[c].sid = s /\ conn[c].pc \notin {"paused", "leaving", "closed"}
    \/ conn[c].got = s /\ conn[c].pc \in {"attach", "clearSet"}

\* No session stays active without a connection that will pause it, whatever
\* registers, clears, evictions and disconnects run together.
ActiveIsHeld ==
    \A s \in Sessions : sstat[s] = "active" => \E c \in Conns : Holds(c, s)

\* Every voice pipeline has its connection: eviction and disconnect between
\* them shut it down, also when the eviction meets a pipeline that is still
\* being built.
NoPipelineLeak == \A c \in pipes : conn[c].pc # "closed"

\* A connection that never shared its device with another, and has not
\* cleared, is wired: the session's surface is its own, the device is
\* online, and the session is active unless the cleanup loop ended it.
AloneIsWired ==
    \A c \in Conns :
        conn[c].alone /\ conn[c].registered /\ ~conn[c].cleared
        /\ conn[c].pc \notin {"paused", "leaving"}
            => /\ surf[conn[c].sid] = c
               /\ conn[c].dev \in online
               /\ sstat[conn[c].sid] # "paused"

\* The registry, which the connection cap counts and the disconnect chain
\* asks for other connections of a device, has exactly the running
\* connections that are past their handshake and that no eviction has
\* finished with.
RegistryIsLive ==
    /\ \A c \in registry : conn[c].pc \notin {"closed", "handshake"}
    /\ \A c \in Conns \ registry : conn[c].pc \notin {"closed", "handshake"} =>
          conn[c].sid # None /\ ~conn[c].registered

\* The pool of session identifiers, a bound of the model, has run out.
Starved(c) ==
    /\ \A s \in Sessions : sstat[s] # "absent"
    /\ \/ At(c, "upsert") /\ conn[c].got = None
       \/ At(c, "resume") /\ conn[c].seen \in {"absent", "ended"}
       \/ At(c, "clear") /\ conn[c].seen = "ended"
       \/ At(c, "clearNew")

\* A connection whose socket is closed goes away, also in the middle of a
\* register, of a clear or of evicting others that evict it.
ClosedLeaves == \A c \in Conns :
    (conn[c].pc # "closed" /\ ~conn[c].open)
        ~> (conn[c].pc = "closed" \/ Starved(c))

(* What the sources say and the code does not do; TLC refutes each of them *)
(* with the cfg of its name.                                               *)

\* stale_conn_eviction.py: the disconnect of an evicted connection is a no-op.
\* Then the connection that took over the session still has it, and its
\* surface, once the evicted ones are gone.
TakenOverIsKept ==
    \A c \in Conns :
        conn[c].registered /\ conn[c].open /\ ~conn[c].cleared
        /\ (\A o \in Conns \ {c} : conn[o].dev # conn[c].dev)
            => surf[conn[c].sid] = c /\ sstat[conn[c].sid] # "paused"

\* disconnect_handler.py: a device stays online while another connection of
\* it is up.
UpIsOnline == \A c \in Conns :
    conn[c].registered /\ conn[c].open => conn[c].dev \in online

\* protocol.md: an ended session cannot be resumed.
EndedIsFinal == [][\A s \in Sessions : sstat[s] = "ended" => sstat'[s] = "ended"]_vars

\* sessions.py: the loop ends sessions that have been inactive too long.
OnlyIdleEnd == [][clean.pc = "end" /\ clean'.pc = "next" /\ clean.seen # "ended"
                    => clean.sid \in stale]_vars

\* disconnect_handler.py: nothing leaks past the connection's lifetime.
SurfaceGoes == \A s \in Sessions : surf[s] # None => conn[surf[s]].pc # "closed"

\* protocol.md: session_start means that the pipeline is ready.
StartIsReady == \A c \in Conns :
    conn[c].started /\ conn[c].open => conn[c].pipeline
=============================================================================

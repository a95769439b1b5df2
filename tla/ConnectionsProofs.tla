------------------------- MODULE ConnectionsProofs -------------------------
(***************************************************************************)
(* Proofs about Connections, for every number of connections, devices and  *)
(* sessions.                                                               *)
(***************************************************************************)
EXTENDS Connections, TLAPS

Registering == {"evict", "evictShut", "evictPause", "evictClose", "upsert",
                "resume", "attach"}

\* What a connection holds at each of its awaits.
ShapeOf(c) ==
    /\ conn[c].pc = "closed" =>
          /\ conn[c].dev = None /\ conn[c].sid = None /\ conn[c].got = None
          /\ ~conn[c].registered /\ ~conn[c].pipeline /\ ~conn[c].alone
    /\ conn[c].pc # "closed" => conn[c].dev \in Devices
    /\ conn[c].pc = "handshake" => ~conn[c].pipeline
    /\ conn[c].pc \in Registering \cup {"handshake"} =>
          conn[c].sid = None /\ ~conn[c].registered
    /\ conn[c].pc \in {"clear", "clearNew", "clearSet", "replay", "build"} =>
          conn[c].sid # None
    /\ conn[c].registered => conn[c].sid # None
    /\ conn[c].pc \in {"resume", "attach", "clearSet"} => conn[c].got # None
    /\ conn[c].pc \in {"evictShut", "evictPause", "evictClose"}
          <=> conn[c].victim # None
Shape == \A c \in Conns : ShapeOf(c)

Typed == TypeOK /\ Shape

\* A running pipeline is known to its connection, also while it leaves.
PipesKept ==
    \A c \in pipes :
        /\ conn[c].pipeline
        /\ conn[c].pc \notin {"closed", "handshake"}
        /\ conn[c].pc \in {"paused", "leaving"} => conn[c].local

\* The connection being evicted had registered, and its identity is not
\* used again before the eviction is over.
Victims ==
    \A c \in Conns : conn[c].victim # None =>
        LET o == conn[c].victim
        IN  conn[o].pc # "closed" =>
                /\ conn[o].sid # None /\ conn[o].dev = conn[c].dev
                /\ conn[o].pc \notin {"handshake"} \cup Registering

\* The one that will pause a session: Holds, without the connections that
\* are done with it in the middle of a clear.
Keeps(c, s) ==
    \/ /\ conn[c].sid = s
       /\ conn[c].pc \notin {"paused", "leaving", "closed", "clearNew", "clearSet"}
       /\ ~(conn[c].pc = "clear" /\ conn[c].seen = "ended")
    \/ conn[c].got = s /\ conn[c].pc \in {"attach", "clearSet"}

ActiveIsKept ==
    \A s \in Sessions : sstat[s] = "active" => \E c \in Conns : Keeps(c, s)

\* The sessions a device knows are its own.
OfDevice(d, s) ==
    \/ known[d] = s
    \/ \E c \in Conns : conn[c].dev = d /\ (conn[c].sid = s \/ conn[c].got = s)

Owned ==
    \A s \in Sessions :
        /\ \A d \in Devices : OfDevice(d, s) => sstat[s] # "absent"
        /\ \A d, e \in Devices : OfDevice(d, s) /\ OfDevice(e, s) => d = e

\* A connection alone on its device, at each step of its way to Attach.
Alone ==
    \A c \in Conns : conn[c].alone =>
        /\ \A o \in Conns \ {c} : conn[o].dev # conn[c].dev
        /\ conn[c].pc \in {"upsert", "resume", "attach"} =>
              conn[c].dev \in online
        /\ conn[c].pc = "resume" /\ conn[c].seen = "active" =>
              sstat[conn[c].got] # "paused"
        /\ conn[c].pc = "attach" => sstat[conn[c].got] # "paused"

-----------------------------------------------------------------------------
(* Types.                                                                  *)

LEMMA TypedInit == Init => Typed
  BY ConstantsAssumption
  DEF Init, Typed, TypeOK, Shape, ShapeOf, Conn, ConnPc, Closed, Statuses, CleanIdle, Registering

LEMMA ClosedType == Closed \in Conn
  BY DEF Closed, Conn, ConnPc, Statuses

LEMMA OpenedType ==
    ASSUME NEW d \in Devices, NEW b \in BOOLEAN
    PROVE  [Closed EXCEPT !.pc = "handshake", !.dev = d, !.open = TRUE,
                          !.alone = b] \in Conn
  BY DEF Closed, Conn, ConnPc, Statuses

\* One field of a record is written.
LEMMA FieldTypes ==
    ASSUME NEW r \in Conn, NEW p \in ConnPc
    PROVE  /\ [r EXCEPT !.pc = p] \in Conn
           /\ [r EXCEPT !.open = FALSE] \in Conn
           /\ [r EXCEPT !.pipeline = FALSE] \in Conn
           /\ [r EXCEPT !.registered = FALSE] \in Conn
           /\ [r EXCEPT !.alone = FALSE] \in Conn
           /\ [r EXCEPT !.pc = p, !.victim = None] \in Conn
           /\ \A s \in Sessions : [r EXCEPT !.got = s, !.pc = p] \in Conn
  BY DEF Conn

LEMMA ConnType ==
    ASSUME Typed, NEW c \in Conns, ConnStep(c) \/ ConnEvent(c)
    PROVE  conn' \in [Conns -> Conn]
  <1>1. conn \in [Conns -> Conn] /\ sstat \in [Sessions -> Statuses]
        /\ known \in [Devices -> Sessions \cup {None}] /\ registry \subseteq Conns
    BY DEF Typed, TypeOK
  <1>2. CASE Join(c)
    <2>1. CASE conn' = [conn EXCEPT ![c].pc = "idle"]
      BY <1>1, <2>1 DEF Conn, ConnPc
    <2>2. CASE conn' = [conn EXCEPT ![c] = Closed]
      BY <1>1, <2>2, ClosedType
    <2> QED BY <1>2, <2>1, <2>2 DEF Join, Goto
  <1>3. CASE EvictNext(c)
    BY <1>1, <1>3 DEF EvictNext, Stale, Conn, ConnPc
  <1>4. CASE EvictPause(c)
    <2> DEFINE m == [conn EXCEPT ![c].pc = "evictPause"]
    <2>1. m \in [Conns -> Conn] /\ conn' = [m EXCEPT ![conn[c].victim].pipeline = FALSE]
      BY <1>1, <1>4, FieldTypes DEF EvictPause, ConnPc
    <2> HIDE DEF m
    <2> QED BY <2>1, FieldTypes DEF ConnPc
  <1>5. CASE EvictClose(c)
    <2> DEFINE m == [conn EXCEPT ![c].pc = "evictClose"]
    <2>1. m \in [Conns -> Conn] /\ conn' = [m EXCEPT ![conn[c].victim].open = FALSE]
      BY <1>1, <1>5, FieldTypes DEF EvictClose, ConnPc
    <2> HIDE DEF m
    <2> QED BY <2>1, FieldTypes DEF ConnPc
  <1>15. CASE EvictDone(c)
    <2> DEFINE m == [conn EXCEPT ![c].pc = "evict", ![c].victim = None]
    <2>1. m \in [Conns -> Conn] /\ conn' = [m EXCEPT ![conn[c].victim].registered = FALSE]
      BY <1>1, <1>15, FieldTypes DEF EvictDone, ConnPc
    <2> HIDE DEF m
    <2> QED BY <2>1, FieldTypes DEF ConnPc
  <1>6. CASE Upsert(c) \/ Collision(c)
    BY <1>1, <1>6 DEF Upsert, Collision, Conn, ConnPc
  <1>7. CASE FindSession(c) \/ Resume(c)
    BY <1>1, <1>7 DEF FindSession, Resume, Goto, At, Conn, ConnPc
  <1>8. CASE CreateSession(c) \/ CreateNext(c)
    <2>1. PICK s \in Sessions, p \in {"attach", "clearSet"} :
              conn' = [conn EXCEPT ![c].got = s, ![c].pc = p]
      BY <1>8 DEF CreateSession, CreateNext, Insert
    <2> QED BY <1>1, <2>1, FieldTypes DEF ConnPc
  <1>9. CASE Attach(c) \/ ClearDone(c)
    BY <1>1, <1>9 DEF Attach, ClearDone, Conn, ConnPc, Statuses
  <1>10. CASE Hello(c) \/ Build(c) \/ EndOld(c)
    BY <1>1, <1>10 DEF Hello, Build, EndOld, Goto, Conn, ConnPc
  <1>11. CASE Leave(c) \/ Offline(c)
    BY <1>1, <1>11 DEF Leave, Offline, Goto, Conn, ConnPc
  <1>16. CASE Gone(c)
    BY <1>1, <1>16, ClosedType DEF Gone
  <1>12. CASE Drop(c)
    BY <1>1, <1>12, FieldTypes DEF Drop, ConnPc
  <1>17. CASE Turn(c)
    BY <1>1, <1>17 DEF Turn
  <1>13. CASE Register(c) \/ Clear(c)
    BY <1>1, <1>13 DEF Register, Clear, Conn, ConnPc
  <1>14. CASE \E d \in Devices : Accept(c, d)
    <2>1. PICK d \in Devices : Accept(c, d)
      BY <1>14
    <2>2. PICK b \in BOOLEAN, D \in SUBSET Conns :
              conn' = [o \in Conns |->
                 IF o = c THEN [Closed EXCEPT !.pc = "handshake", !.dev = d,
                                    !.open = TRUE, !.alone = b]
                 ELSE IF o \in D THEN [conn[o] EXCEPT !.alone = FALSE]
                 ELSE conn[o]]
      BY <2>1 DEF Accept
    <2>3. \A o \in Conns : [conn[o] EXCEPT !.alone = FALSE] \in Conn
      BY <1>1, FieldTypes DEF ConnPc
    <2> QED BY <1>1, <2>1, <2>2, <2>3, OpenedType
  <1> QED
    BY <1>2, <1>3, <1>4, <1>5, <1>6, <1>7, <1>8, <1>9, <1>10, <1>11, <1>12,
       <1>13, <1>14, <1>15, <1>16, <1>17
    DEF ConnStep, ConnEvent

\* What a step does to the other connections: nothing to their coroutines.
Same(o) ==
    /\ conn'[o].pc = conn[o].pc /\ conn'[o].dev = conn[o].dev
    /\ conn'[o].sid = conn[o].sid /\ conn'[o].got = conn[o].got
    /\ conn'[o].victim = conn[o].victim /\ conn'[o].left = conn[o].left
    /\ conn'[o].seen = conn[o].seen /\ conn'[o].local = conn[o].local
    /\ conn'[o].cleared = conn[o].cleared
    /\ conn'[o].registered => conn[o].registered
    /\ conn'[o].alone => conn[o].alone
    /\ conn'[o].pipeline => conn[o].pipeline

LEMMA Others ==
    ASSUME Typed, NEW c \in Conns, ConnStep(c) \/ ConnEvent(c),
           NEW o \in Conns, o # c
    PROVE  Same(o)
  <1>1. conn \in [Conns -> Conn]
    BY DEF Typed, TypeOK
  <1>2. conn[o] \in Conn
    BY <1>1
  <1>3. CASE conn'[o] = conn[o]
    BY <1>3 DEF Same
  <1>4. CASE conn'[o] = [conn[o] EXCEPT !.pipeline = FALSE]
    BY <1>2, <1>4 DEF Same, Conn
  <1>5. CASE conn'[o] = [conn[o] EXCEPT !.open = FALSE]
    BY <1>2, <1>5 DEF Same, Conn
  <1>6. CASE conn'[o] = [conn[o] EXCEPT !.registered = FALSE]
    BY <1>2, <1>6 DEF Same, Conn
  <1>7. CASE conn'[o] = [conn[o] EXCEPT !.alone = FALSE]
    BY <1>2, <1>7 DEF Same, Conn
  <1>8. CASE EvictPause(c)
    BY <1>1, <1>3, <1>4, <1>8 DEF EvictPause
  <1>9. CASE EvictClose(c)
    BY <1>1, <1>3, <1>5, <1>9 DEF EvictClose
  <1>10. CASE EvictDone(c)
    <2>1. conn' = [conn EXCEPT ![c].pc = "evict", ![c].victim = None,
                               ![conn[c].victim].registered = FALSE]
      BY <1>10 DEF EvictDone
    <2>2. CASE o = conn[c].victim
      BY <1>1, <1>6, <2>1, <2>2
    <2>3. CASE o # conn[c].victim
      BY <1>1, <1>3, <2>1, <2>3
    <2> QED BY <2>2, <2>3
  <1>11. CASE \E d \in Devices : Accept(c, d)
    BY <1>1, <1>3, <1>7, <1>11 DEF Accept
  <1>12. CASE \/ Join(c) \/ EvictNext(c) \/ Upsert(c) \/ Collision(c)
              \/ FindSession(c) \/ Resume(c) \/ CreateSession(c)
              \/ Attach(c) \/ Hello(c) \/ Build(c)
    BY <1>1, <1>3, <1>12
    DEF Join, EvictNext, Upsert, Collision, FindSession, Resume, CreateSession,
        Attach, Hello, Build, Goto, Insert
  <1>13. CASE \/ EndOld(c) \/ CreateNext(c) \/ ClearDone(c)
              \/ Leave(c) \/ Offline(c) \/ Gone(c)
              \/ Drop(c) \/ Turn(c) \/ Register(c) \/ Clear(c)
    BY <1>1, <1>3, <1>13
    DEF EndOld, CreateNext, ClearDone, Leave, Offline, Gone, Drop, Turn,
        Register, Clear, Goto, Insert
  <1> QED
    BY <1>8, <1>9, <1>10, <1>11, <1>12, <1>13 DEF ConnStep, ConnEvent

LEMMA OwnShape ==
    ASSUME Typed, NEW c \in Conns, ConnStep(c) \/ ConnEvent(c)
    PROVE  ShapeOf(c)'
  <1>1. conn \in [Conns -> Conn] /\ conn[c] \in Conn /\ ShapeOf(c)
        /\ None \notin Conns \cup Sessions \cup Devices
    BY ConstantsAssumption DEF Typed, TypeOK, Shape
  <1> USE DEF ShapeOf, Conn, ConnPc, Registering
  <1>2. CASE Join(c)
    BY <1>1, <1>2 DEF Join, Goto, At, Closed
  <1>3. CASE EvictNext(c)
    BY <1>1, <1>3 DEF EvictNext, Stale, At
  <1>4. CASE EvictPause(c)
    BY <1>1, <1>4 DEF EvictPause, At
  <1>5. CASE EvictClose(c)
    BY <1>1, <1>5 DEF EvictClose, At
  <1>6. CASE EvictDone(c)
    BY <1>1, <1>6 DEF EvictDone, At
  <1>7. CASE Upsert(c) \/ Collision(c)
    BY <1>1, <1>7 DEF Upsert, Collision, At
  <1>8. CASE FindSession(c) \/ Resume(c)
    BY <1>1, <1>8 DEF FindSession, Resume, Goto, At
  <1>9. CASE CreateSession(c)
    <2>1. PICK s \in Sessions : conn' = [conn EXCEPT ![c].got = s, ![c].pc = "attach"]
      BY <1>9 DEF CreateSession, Insert
    <2>2. conn[c].pc \in {"upsert", "resume"}
      BY <1>9 DEF CreateSession, At
    <2> QED BY <1>1, <2>1, <2>2
  <1>16. CASE CreateNext(c)
    <2>1. PICK s \in Sessions : conn' = [conn EXCEPT ![c].got = s, ![c].pc = "clearSet"]
      BY <1>16 DEF CreateNext, Insert
    <2>2. conn[c].pc \in {"clear", "clearNew"}
      BY <1>16 DEF CreateNext, At
    <2> QED BY <1>1, <2>1, <2>2
  <1>10. CASE Attach(c) \/ ClearDone(c)
    BY <1>1, <1>10 DEF Attach, ClearDone, At
  <1>11. CASE Hello(c) \/ Build(c) \/ EndOld(c)
    BY <1>1, <1>11 DEF Hello, Build, EndOld, Goto, At
  <1>12. CASE Leave(c) \/ Offline(c) \/ Gone(c)
    BY <1>1, <1>12 DEF Leave, Offline, Gone, Goto, Closed, At
  <1>13. CASE Drop(c) \/ Turn(c)
    BY <1>1, <1>13 DEF Drop, Turn
  <1>14. CASE Register(c) \/ Clear(c)
    BY <1>1, <1>14 DEF Register, Clear, At
  <1>15. CASE \E d \in Devices : Accept(c, d)
    <2>1. PICK d \in Devices : Accept(c, d)
      BY <1>15
    <2>2. PICK b \in BOOLEAN :
              conn'[c] = [Closed EXCEPT !.pc = "handshake", !.dev = d,
                                        !.open = TRUE, !.alone = b]
      BY <1>1, <2>1 DEF Accept
    <2> QED BY <1>1, <2>1, <2>2 DEF Closed
  <1> QED
    BY <1>2, <1>3, <1>4, <1>5, <1>6, <1>7, <1>8, <1>9, <1>10, <1>11, <1>12,
       <1>13, <1>14, <1>15, <1>16
    DEF ConnStep, ConnEvent

LEMMA TypedStep == Typed /\ [Next]_vars => Typed'
  <1> SUFFICES ASSUME Typed, [Next]_vars
               PROVE  Typed'
    OBVIOUS
  <1> USE ConstantsAssumption
  <1>1. TypeOK /\ Shape
    BY DEF Typed
  <1>2. ASSUME NEW c \in Conns, ConnStep(c) \/ ConnEvent(c)
        PROVE  Typed'
    <2>1. conn' \in [Conns -> Conn]
      BY <1>2, ConnType
    <2>2. Shape'
      <3>1. ShapeOf(c)'
        BY <1>2, OwnShape
      <3>2. ASSUME NEW o \in Conns, o # c
            PROVE  ShapeOf(o)'
        <4>1. ShapeOf(o) /\ Same(o)
          BY <1>1, <1>2, <3>2, Others DEF Shape
        <4> QED BY <4>1 DEF ShapeOf, Same
      <3> QED BY <3>1, <3>2 DEF Shape
    <2>3. /\ registry' \subseteq Conns /\ pipes' \subseteq Conns
          /\ online' \subseteq Devices
      <3>1. conn[c].pc # "closed" => conn[c].dev \in Devices
        BY <1>1 DEF Shape, ShapeOf
      <3> QED
        BY <1>1, <1>2, <3>1
        DEF TypeOK, ConnStep, ConnEvent, Join, EvictNext, EvictPause, EvictClose,
            EvictDone, Upsert, Collision, FindSession, Resume, CreateSession,
            Attach, Hello, Build, EndOld, CreateNext, ClearDone, Leave, Offline,
            Gone, Drop, Turn, Register, Clear, Accept, db, At
    <2>4. sstat' \in [Sessions -> Statuses] /\ stale' \subseteq Sessions
      <3>1. sstat \in [Sessions -> Statuses] /\ stale \subseteq Sessions
        BY <1>1 DEF TypeOK
      <3>2. CASE sstat' = sstat /\ stale' \subseteq stale
        BY <3>1, <3>2
      <3>3. CASE \E s : /\ \E x \in Statuses : SetStatus(s, x)
                        /\ Touch(s)
        BY <3>1, <3>3 DEF SetStatus, Touch
      <3>4. \/ sstat' = sstat /\ stale' \subseteq stale
            \/ \E s : (\E x \in Statuses : SetStatus(s, x)) /\ Touch(s)
        <4>1. CASE EvictPause(c) \/ Leave(c)
          BY <4>1 DEF EvictPause, Leave, PauseIfActive, Statuses
        <4>2. CASE Resume(c)
          BY <4>2 DEF Resume, Touch, Statuses
        <4>3. CASE CreateSession(c) \/ CreateNext(c)
          BY <4>3 DEF CreateSession, CreateNext, Insert, Statuses
        <4>4. CASE EndOld(c)
          BY <4>4 DEF EndOld, Statuses
        <4> QED
          BY <1>2, <4>1, <4>2, <4>3, <4>4
          DEF ConnStep, ConnEvent, Join, EvictNext, EvictClose, EvictDone,
              Upsert, Collision, FindSession, Attach, Hello, Build, ClearDone,
              Offline, Gone, Drop, Turn, Register, Clear, Accept, db, Touch
      <3> QED BY <3>2, <3>3, <3>4
    <2>5. /\ surf' \in [Sessions -> Conns \cup {None}]
          /\ known' \in [Devices -> Sessions \cup {None}]
          /\ clean' = clean
      <3>1. /\ surf \in [Sessions -> Conns \cup {None}]
            /\ known \in [Devices -> Sessions \cup {None}]
            /\ conn[c].sid \in Sessions \cup {None}
            /\ conn[c].got \in Sessions \cup {None}
        BY <1>1 DEF TypeOK, Conn
      <3>2. CASE Attach(c) \/ Hello(c) \/ ClearDone(c) \/ Leave(c)
        BY <3>1, <3>2 DEF Attach, Hello, ClearDone, Leave, db
      <3>3. CASE UNCHANGED <<surf, known, clean>>
        BY <3>1, <3>3
      <3> QED
        BY <1>2, <3>2, <3>3
        DEF ConnStep, ConnEvent, Join, EvictNext, EvictPause, EvictClose,
            EvictDone, Upsert, Collision, FindSession, Resume, CreateSession,
            Build, EndOld, CreateNext, Offline, Gone, Drop, Turn, Register,
            Clear, Accept
    <2> QED BY <1>1, <2>1, <2>2, <2>3, <2>4, <2>5 DEF Typed, TypeOK
  <1>3. ASSUME NEW s \in Sessions, Age(s)
        PROVE  Typed'
    BY <1>1, <1>3 DEF Typed, TypeOK, Shape, ShapeOf, Age
  <1>4. CASE CleanStep
    <2>1. UNCHANGED <<conn, registry, pipes, surf, online, known>>
      BY <1>4 DEF CleanStep, CleanList, CleanGet, CleanEnd, db
    <2>2. /\ sstat' \in [Sessions -> Statuses] /\ stale' \subseteq Sessions
          /\ clean' \in [pc : {"sleep", "next", "end"}, left : SUBSET Sessions,
                         sid : Sessions \cup {None}, seen : Statuses]
      <3>1. /\ sstat \in [Sessions -> Statuses] /\ stale \subseteq Sessions
            /\ clean \in [pc : {"sleep", "next", "end"}, left : SUBSET Sessions,
                          sid : Sessions \cup {None}, seen : Statuses]
            /\ "absent" \in Statuses /\ "ended" \in Statuses
        BY <1>1 DEF TypeOK, Statuses
      <3>2. CASE CleanList
        BY <3>1, <3>2 DEF CleanList, db
      <3>3. CASE CleanGet
        BY <3>1, <3>3 DEF CleanGet, db
      <3>4. CASE CleanEnd
        <4>1. sstat' \in [Sessions -> Statuses] /\ stale' \subseteq Sessions
          BY <3>1, <3>4 DEF CleanEnd, SetStatus, Touch
        <4>2. clean' = [clean EXCEPT !.pc = "next", !.sid = None, !.seen = "absent"]
          BY <3>4 DEF CleanEnd
        <4> HIDE DEF Statuses
        <4> QED BY <3>1, <4>1, <4>2
      <3> QED BY <1>4, <3>2, <3>3, <3>4 DEF CleanStep
    <2> QED BY <1>1, <2>1, <2>2 DEF Typed, TypeOK, Shape, ShapeOf
  <1>5. CASE Restart
    <2>1. Shape'
      BY <1>5 DEF Restart, Shape, ShapeOf, Closed, Registering
    <2>2. TypeOK'
      BY <1>1, <1>5, ClosedType DEF Restart, TypeOK, Statuses, CleanIdle
    <2> QED BY <2>1, <2>2 DEF Typed
  <1>6. CASE UNCHANGED vars
    BY <1>1, <1>6 DEF Typed, TypeOK, Shape, ShapeOf, vars, db
  <1> QED BY <1>2, <1>3, <1>4, <1>5, <1>6 DEF Next

\* The variables of Connections keep their types, for every number of
\* connections, devices and sessions.
THEOREM TypeCorrect == Spec => []TypeOK
  <1>1. Spec => []Typed
    BY TypedInit, TypedStep, PTL DEF Spec
  <1>2. Typed => TypeOK
    BY DEF Typed
  <1> QED BY <1>1, <1>2, PTL

-----------------------------------------------------------------------------
(* Pipelines.                                                              *)

\* Another connection's pipeline is untouched, or shut down for good.
LEMMA OtherPipes ==
    ASSUME Typed, NEW c \in Conns, ConnStep(c) \/ ConnEvent(c),
           NEW o \in pipes', o # c
    PROVE  o \in pipes /\ conn'[o].pipeline = conn[o].pipeline
  <1>1. conn \in [Conns -> Conn] /\ pipes \subseteq Conns
    BY DEF Typed, TypeOK
  <1>2. CASE EvictPause(c)
    <2>1. o \in pipes
      BY <1>2 DEF EvictPause
    <2>2. o \in Conns /\ conn[o] \in Conn
      BY <1>1, <2>1
    <2>3. conn' = [conn EXCEPT ![c].pc = "evictPause", ![conn[c].victim].pipeline = FALSE]
      BY <1>2 DEF EvictPause
    <2>4. CASE o = conn[c].victim
      <3>1. ~conn[o].pipeline
        BY <1>2, <2>4 DEF EvictPause
      <3>2. conn'[o] = [conn[o] EXCEPT !.pipeline = FALSE]
        BY <1>1, <2>2, <2>3, <2>4
      <3> QED BY <2>1, <2>2, <3>1, <3>2 DEF Conn
    <2>5. CASE o # conn[c].victim
      <3>1. conn'[o] = conn[o]
        BY <1>1, <2>2, <2>3, <2>5
      <3> QED BY <2>1, <3>1
    <2> QED BY <2>4, <2>5
  <1>3. CASE EvictClose(c)
    BY <1>1, <1>3 DEF EvictClose, Conn
  <1>4. CASE EvictDone(c)
    <2>1. o \in pipes /\ o \in Conns /\ conn[o] \in Conn
      BY <1>1, <1>4 DEF EvictDone
    <2>2. conn' = [conn EXCEPT ![c].pc = "evict", ![c].victim = None,
                               ![conn[c].victim].registered = FALSE]
      BY <1>4 DEF EvictDone
    <2>3. CASE o = conn[c].victim
      <3>1. conn'[o] = [conn[o] EXCEPT !.registered = FALSE]
        BY <1>1, <2>1, <2>2, <2>3
      <3> QED BY <2>1, <3>1 DEF Conn
    <2>4. CASE o # conn[c].victim
      BY <1>1, <2>1, <2>2, <2>4
    <2> QED BY <2>3, <2>4
  <1>5. CASE \E d \in Devices : Accept(c, d)
    <2>1. o \in pipes /\ o \in Conns /\ conn[o] \in Conn
      BY <1>1, <1>5 DEF Accept
    <2>2. conn'[o] = [conn[o] EXCEPT !.alone = FALSE] \/ conn'[o] = conn[o]
      BY <2>1, <1>5 DEF Accept
    <2> QED BY <2>1, <2>2 DEF Conn
  <1>6. CASE \/ Join(c) \/ EvictNext(c) \/ Upsert(c) \/ Collision(c)
             \/ FindSession(c) \/ Resume(c) \/ CreateSession(c)
             \/ Attach(c) \/ Hello(c) \/ Build(c)
    BY <1>1, <1>6
    DEF Join, EvictNext, Upsert, Collision, FindSession, Resume, CreateSession,
        Attach, Hello, Build, Goto, Insert
  <1>7. CASE \/ EndOld(c) \/ CreateNext(c) \/ ClearDone(c)
             \/ Leave(c) \/ Offline(c) \/ Gone(c)
             \/ Drop(c) \/ Turn(c) \/ Register(c) \/ Clear(c)
    BY <1>1, <1>7
    DEF EndOld, CreateNext, ClearDone, Leave, Offline, Gone, Drop, Turn,
        Register, Clear, Goto, Insert
  <1> QED BY <1>2, <1>3, <1>4, <1>5, <1>6, <1>7 DEF ConnStep, ConnEvent

\* The pipeline of the connection that steps.
LEMMA OwnPipe ==
    ASSUME Typed, PipesKept, NEW c \in Conns, ConnStep(c) \/ ConnEvent(c),
           c \in pipes'
    PROVE  /\ conn'[c].pipeline
           /\ conn'[c].pc \notin {"closed", "handshake"}
           /\ conn'[c].pc \in {"paused", "leaving"} => conn'[c].local
  <1>1. conn \in [Conns -> Conn] /\ conn[c] \in Conn /\ ShapeOf(c)
    BY DEF Typed, TypeOK, Shape
  <1>2. c \in pipes => /\ conn[c].pipeline
                       /\ conn[c].pc \notin {"closed", "handshake"}
                       /\ conn[c].pc \in {"paused", "leaving"} => conn[c].local
    BY DEF PipesKept
  <1> USE DEF At, Conn
  <1>3. CASE Join(c) \/ EvictNext(c)
    <2>1. ~Join(c)
      BY <1>2, <1>3 DEF Join, EvictNext
    <2>2. PICK L, o : conn' = [conn EXCEPT ![c].pc = "evictShut", ![c].victim = o,
                                           ![c].left = L]
      BY <1>3, <2>1 DEF EvictNext
    <2> QED BY <1>1, <1>2, <1>3, <2>1, <2>2 DEF EvictNext
  <1>4. CASE EvictPause(c)
    <2>1. c \in pipes /\ c # conn[c].victim
      BY <1>2, <1>4 DEF EvictPause
    <2> QED BY <1>1, <1>2, <1>4, <2>1 DEF EvictPause
  <1>5. CASE EvictClose(c) \/ EvictDone(c)
    BY <1>1, <1>2, <1>5 DEF EvictClose, EvictDone
  <1>6. CASE Upsert(c) \/ Collision(c) \/ FindSession(c) \/ Resume(c)
    BY <1>1, <1>2, <1>6 DEF Upsert, Collision, FindSession, Resume, Goto
  <1>12. CASE CreateSession(c) \/ CreateNext(c)
    <2>1. PICK s \in Sessions, p \in {"attach", "clearSet"} :
              conn' = [conn EXCEPT ![c].got = s, ![c].pc = p]
      BY <1>12 DEF CreateSession, CreateNext, Insert
    <2>2. c \in pipes
      BY <1>12 DEF CreateSession, CreateNext
    <2> QED BY <1>1, <1>2, <2>1, <2>2
  <1>7. CASE Attach(c) \/ Hello(c) \/ Build(c)
    BY <1>1, <1>2, <1>7 DEF Attach, Hello, Build, Goto
  <1>8. CASE EndOld(c) \/ ClearDone(c)
    BY <1>1, <1>2, <1>8 DEF EndOld, ClearDone, Goto
  <1>9. CASE Leave(c) \/ Offline(c) \/ Gone(c)
    BY <1>1, <1>2, <1>9 DEF Leave, Offline, Gone, Goto
  <1>10. CASE Drop(c) \/ Turn(c) \/ Register(c) \/ Clear(c)
    BY <1>1, <1>2, <1>10 DEF Drop, Turn, Register, Clear
  <1>11. CASE \E d \in Devices : Accept(c, d)
    BY <1>2, <1>11 DEF Accept
  <1> QED
    BY <1>3, <1>4, <1>5, <1>6, <1>7, <1>8, <1>9, <1>10, <1>11, <1>12
    DEF ConnStep, ConnEvent

LEMMA PipesKeptStep == Typed /\ PipesKept /\ [Next]_vars => PipesKept'
  <1> SUFFICES ASSUME Typed, PipesKept, [Next]_vars
               PROVE  PipesKept'
    OBVIOUS
  <1>1. ASSUME NEW c \in Conns, ConnStep(c) \/ ConnEvent(c)
        PROVE  PipesKept'
    <2> SUFFICES ASSUME NEW o \in pipes'
                 PROVE  /\ conn'[o].pipeline
                        /\ conn'[o].pc \notin {"closed", "handshake"}
                        /\ conn'[o].pc \in {"paused", "leaving"} => conn'[o].local
      BY DEF PipesKept
    <2>1. CASE o = c
      BY <1>1, <2>1, OwnPipe
    <2>2. CASE o # c
      <3>1. o \in pipes /\ conn'[o].pipeline = conn[o].pipeline
        BY <1>1, <2>2, OtherPipes
      <3>2. o \in Conns
        BY <3>1 DEF Typed, TypeOK
      <3>3. Same(o)
        BY <1>1, <2>2, <3>2, Others
      <3> QED BY <3>1, <3>3 DEF PipesKept, Same
    <2> QED BY <2>1, <2>2
  <1>2. CASE Restart
    BY <1>2 DEF Restart, PipesKept
  <1>3. CASE (\E s \in Sessions : Age(s)) \/ CleanStep \/ UNCHANGED vars
    BY <1>3 DEF Age, CleanStep, CleanList, CleanGet, CleanEnd, vars, PipesKept
  <1> QED BY <1>1, <1>2, <1>3 DEF Next

\* No voice pipeline outlives its connection, however many connections,
\* evictions and disconnects interleave.
THEOREM NoLeak == Spec => []NoPipelineLeak
  <1>1. Init => Typed /\ PipesKept
    BY TypedInit DEF Init, PipesKept
  <1>2. Typed /\ PipesKept /\ [Next]_vars => (Typed /\ PipesKept)'
    BY TypedStep, PipesKeptStep
  <1>3. PipesKept => NoPipelineLeak
    BY DEF PipesKept, NoPipelineLeak
  <1> QED BY <1>1, <1>2, <1>3, PTL DEF Spec

-----------------------------------------------------------------------------
(* Evictions and the registry.                                             *)

\* A connection that has registered.
HasSession(c) ==
    conn[c].sid # None /\ conn[c].pc \notin {"closed", "handshake"} \cup Registering

\* Registering is over for good: a connection that has its session keeps one,
\* on the same device, until it closes.
LEMMA SessionKept ==
    ASSUME Typed, NEW c \in Conns, ConnStep(c) \/ ConnEvent(c), HasSession(c)
    PROVE  conn'[c].pc = "closed" \/ (HasSession(c)' /\ conn'[c].dev = conn[c].dev)
  <1>1. conn \in [Conns -> Conn] /\ conn[c] \in Conn /\ ShapeOf(c)
    BY DEF Typed, TypeOK, Shape
  <1>2. conn[c].sid # None /\ conn[c].pc \notin {"closed", "handshake"} \cup Registering
    BY DEF HasSession
  <1> USE DEF HasSession, At, Conn, Registering
  <1>3. ~(\/ Join(c) \/ EvictNext(c) \/ EvictPause(c) \/ EvictClose(c)
          \/ EvictDone(c) \/ Upsert(c) \/ Collision(c) \/ FindSession(c)
          \/ Resume(c) \/ CreateSession(c) \/ Attach(c) \/ Register(c)
          \/ \E d \in Devices : Accept(c, d))
    BY <1>2
    DEF Join, EvictNext, EvictPause, EvictClose, EvictDone, Upsert, Collision,
        FindSession, Resume, CreateSession, Attach, Register, Accept
  <1>4. CASE Hello(c) \/ Build(c)
    BY <1>1, <1>2, <1>4 DEF Hello, Build, Goto
  <1>5. CASE EndOld(c) \/ Clear(c) \/ Drop(c) \/ Turn(c)
    BY <1>1, <1>2, <1>5 DEF EndOld, Clear, Drop, Turn, Goto
  <1>6. CASE CreateNext(c)
    <2>1. PICK s \in Sessions : conn' = [conn EXCEPT ![c].got = s, ![c].pc = "clearSet"]
      BY <1>6 DEF CreateNext, Insert
    <2> QED BY <1>1, <1>2, <2>1
  <1>7. CASE ClearDone(c)
    BY <1>1, <1>2, <1>7 DEF ClearDone, ShapeOf
  <1>8. CASE Leave(c) \/ Offline(c) \/ Gone(c)
    BY <1>1, <1>2, <1>8 DEF Leave, Offline, Gone, Goto, Closed
  <1> QED
    BY <1>3, <1>4, <1>5, <1>6, <1>7, <1>8 DEF ConnStep, ConnEvent

\* A connection keeps its device until it closes, and only EvictNext gives it
\* a victim.
LEMMA OwnVictim ==
    ASSUME Typed, NEW c \in Conns, ConnStep(c) \/ ConnEvent(c)
    PROVE  /\ conn'[c].victim \in {conn[c].victim, None} \/ EvictNext(c)
           /\ conn'[c].dev = conn[c].dev \/ "closed" \in {conn[c].pc, conn'[c].pc}
  <1>1. conn \in [Conns -> Conn] /\ conn[c] \in Conn
    BY DEF Typed, TypeOK
  <1> USE DEF Conn
  <1>2. CASE Join(c) \/ Gone(c)
    BY <1>1, <1>2 DEF Join, Gone, Closed, Goto
  <1>9. CASE EvictNext(c)
    <2>1. PICK L, o : conn' = [conn EXCEPT ![c].pc = "evictShut", ![c].victim = o,
                                           ![c].left = L]
      BY <1>9 DEF EvictNext
    <2> QED BY <1>1, <1>9, <2>1
  <1>3. CASE EvictPause(c) \/ EvictClose(c) \/ EvictDone(c)
    BY <1>1, <1>3 DEF EvictPause, EvictClose, EvictDone
  <1>4. CASE Upsert(c) \/ Collision(c) \/ FindSession(c) \/ Resume(c)
    BY <1>1, <1>4 DEF Upsert, Collision, FindSession, Resume, Goto
  <1>5. CASE CreateSession(c) \/ CreateNext(c)
    <2>1. PICK s \in Sessions, p \in {"attach", "clearSet"} :
              conn' = [conn EXCEPT ![c].got = s, ![c].pc = p]
      BY <1>5 DEF CreateSession, CreateNext, Insert
    <2> QED BY <1>1, <2>1
  <1>6. CASE Attach(c) \/ Hello(c) \/ Build(c) \/ EndOld(c) \/ ClearDone(c)
    BY <1>1, <1>6 DEF Attach, Hello, Build, EndOld, ClearDone, Goto
  <1>7. CASE Leave(c) \/ Offline(c) \/ Drop(c) \/ Turn(c) \/ Register(c) \/ Clear(c)
    BY <1>1, <1>7 DEF Leave, Offline, Drop, Turn, Register, Clear, Goto
  <1>8. CASE \E d \in Devices : Accept(c, d)
    <2>1. PICK d \in Devices, b \in BOOLEAN :
              conn'[c] = [Closed EXCEPT !.pc = "handshake", !.dev = d,
                                        !.open = TRUE, !.alone = b]
      BY <1>1, <1>8 DEF Accept
    <2>2. conn[c].pc = "closed"
      BY <1>8 DEF Accept, At
    <2> QED BY <2>1, <2>2 DEF Closed
  <1> QED
    BY <1>2, <1>3, <1>4, <1>5, <1>6, <1>7, <1>8, <1>9 DEF ConnStep, ConnEvent

\* A closed connection does nothing until its identity is used again.
LEMMA ClosedStays ==
    ASSUME Typed, NEW c \in Conns, ConnStep(c) \/ ConnEvent(c), At(c, "closed")
    PROVE  At(c, "closed")' \/ \E d \in Devices : Accept(c, d)
  BY DEF Typed, TypeOK, Conn, At, ConnStep, ConnEvent, Join, EvictNext,
         EvictPause, EvictClose, EvictDone, Upsert, Collision, FindSession,
         Resume, CreateSession, Attach, Hello, Build, EndOld, CreateNext,
         ClearDone, Leave, Offline, Gone, Drop, Turn, Register, Clear

LEMMA VictimsStep == Typed /\ Victims /\ [Next]_vars => Victims'
  <1> SUFFICES ASSUME Typed, Victims, [Next]_vars
               PROVE  Victims'
    OBVIOUS
  <1> USE ConstantsAssumption
  <1>1. ASSUME NEW c \in Conns, ConnStep(c) \/ ConnEvent(c),
               NEW e \in Conns, NEW o, o = conn'[e].victim, o # None
        PROVE  conn'[o].pc # "closed" =>
                  HasSession(o)' /\ conn'[o].dev = conn'[e].dev
    <2>1. o \in Conns /\ ShapeOf(e)'
      <3>1. conn' \in [Conns -> Conn]
        BY <1>1, ConnType
      <3>2. conn'[e] \in Conn
        BY <3>1
      <3>3. Typed'
        BY TypedStep
      <3> QED BY <1>1, <3>2, <3>3 DEF Conn, Typed, Shape
    <2>2. CASE EvictNext(c) /\ e = c
      <3>1. o \in Stale(c)
        <4>1. PICK v \in Stale(c), L \in SUBSET Conns :
                 conn' = [conn EXCEPT ![c].pc = "evictShut", ![c].victim = v,
                                      ![c].left = L]
          BY <2>2 DEF EvictNext, Stale, Typed, TypeOK, Conn
        <4> QED BY <1>1, <2>2, <4>1 DEF Typed, TypeOK, Conn
      <3>2. conn[o].dev = conn[c].dev /\ conn[o].registered /\ ShapeOf(o) /\ ShapeOf(c)
        BY <2>1, <3>1 DEF Stale, Typed, Shape
      <3>3. HasSession(o)
        BY <3>2 DEF HasSession, ShapeOf
      <3>4. o # c /\ conn[c].pc = "evict"
        BY <2>2, <3>3 DEF EvictNext, At, HasSession, Registering
      <3>5. Same(o)
        BY <1>1, <2>1, <2>2, <3>4, Others
      <3>6. conn'[c].pc # "closed"
        BY <1>1, <2>1, <2>2 DEF ShapeOf
      <3>7. conn'[c].dev = conn[c].dev
        BY <1>1, <3>4, <3>6, OwnVictim
      <3> QED BY <2>2, <3>2, <3>3, <3>5, <3>7 DEF Same, HasSession
    <2>3. CASE conn[e].victim = o
      <3>1. conn[o].pc # "closed" => HasSession(o) /\ conn[o].dev = conn[e].dev
        BY <1>1, <2>3 DEF Victims, HasSession
      <3>2. conn'[e].dev = conn[e].dev
        <4>1. CASE e = c
          <5>1. conn[c].pc # "closed" /\ conn'[c].pc # "closed"
            <6>1. ShapeOf(c)
              BY DEF Typed, Shape
            <6> QED BY <1>1, <2>1, <2>3, <4>1, <6>1 DEF ShapeOf
          <5> QED BY <1>1, <4>1, <5>1, OwnVictim
        <4>2. CASE e # c
          BY <1>1, <4>2, Others DEF Same
        <4> QED BY <4>1, <4>2
      <3>3. CASE o # c
        <4>1. Same(o)
          BY <1>1, <2>1, <3>3, Others
        <4> QED BY <3>1, <3>2, <4>1 DEF Same, HasSession
      <3>4. CASE o = c
        <4>1. ~\E d \in Devices : Accept(c, d)
          BY <2>3, <3>4 DEF Accept
        <4>2. CASE conn[c].pc = "closed"
          BY <1>1, <3>4, <4>1, <4>2, ClosedStays DEF At
        <4>3. CASE conn[c].pc # "closed"
          BY <1>1, <3>1, <3>2, <3>4, <4>3, SessionKept
        <4> QED BY <4>2, <4>3
      <3> QED BY <3>3, <3>4
    <2> QED
      <3>1. CASE e = c
        BY <1>1, <2>2, <2>3, <3>1, OwnVictim
      <3>2. CASE e # c
        BY <1>1, <2>3, <3>2, Others DEF Same
      <3> QED BY <3>1, <3>2
  <1>2. ASSUME NEW c \in Conns, ConnStep(c) \/ ConnEvent(c)
        PROVE  Victims'
    BY <1>1, <1>2 DEF Victims, HasSession
  <1>3. CASE Restart
    BY <1>3 DEF Restart, Victims, Closed
  <1>4. CASE (\E s \in Sessions : Age(s)) \/ CleanStep \/ UNCHANGED vars
    BY <1>4 DEF Age, CleanStep, CleanList, CleanGet, CleanEnd, vars, Victims
  <1> QED BY <1>2, <1>3, <1>4 DEF Next

\* The registry entry of the connection that steps.
LEMMA OwnEntry ==
    ASSUME Typed, RegistryIsLive, NEW c \in Conns, ConnStep(c) \/ ConnEvent(c),
           EvictDone(c) => c # conn[c].victim
    PROVE  IF c \in registry' THEN conn'[c].pc \notin {"closed", "handshake"}
           ELSE conn'[c].pc \notin {"closed", "handshake"} =>
                   conn'[c].sid # None /\ ~conn'[c].registered
  <1>1. conn \in [Conns -> Conn] /\ conn[c] \in Conn /\ ShapeOf(c)
        /\ None \notin Sessions
    BY ConstantsAssumption DEF Typed, TypeOK, Shape
  <1>2. IF c \in registry THEN conn[c].pc \notin {"closed", "handshake"}
        ELSE conn[c].pc \notin {"closed", "handshake"} =>
                conn[c].sid # None /\ ~conn[c].registered
    BY DEF RegistryIsLive
  <1>3. conn[c].pc \in Registering => conn[c].sid = None
    BY <1>1 DEF ShapeOf
  <1> USE DEF At, Conn, Registering
  <1>4. CASE Join(c)
    BY <1>1, <1>2, <1>4 DEF Join, Goto, Closed
  <1>5. CASE EvictNext(c)
    <2>1. PICK L, o : conn' = [conn EXCEPT ![c].pc = "evictShut", ![c].victim = o,
                                           ![c].left = L]
      BY <1>5 DEF EvictNext
    <2> QED BY <1>1, <1>2, <1>3, <1>5, <2>1 DEF EvictNext
  <1>6. CASE EvictPause(c) \/ EvictClose(c)
    BY <1>1, <1>2, <1>3, <1>6 DEF EvictPause, EvictClose
  <1>7. CASE EvictDone(c)
    BY <1>1, <1>2, <1>3, <1>7 DEF EvictDone
  <1>8. CASE Upsert(c) \/ Collision(c) \/ FindSession(c) \/ Resume(c)
    BY <1>1, <1>2, <1>3, <1>8 DEF Upsert, Collision, FindSession, Resume, Goto
  <1>9. CASE CreateSession(c) \/ CreateNext(c)
    <2>1. PICK s \in Sessions, p \in {"attach", "clearSet"} :
              conn' = [conn EXCEPT ![c].got = s, ![c].pc = p]
      BY <1>9 DEF CreateSession, CreateNext, Insert
    <2>2. registry' = registry /\ conn[c].pc \notin {"closed", "handshake"}
      BY <1>9 DEF CreateSession, CreateNext
    <2> QED BY <1>1, <1>2, <2>1, <2>2
  <1>10. CASE Attach(c)
    BY <1>1, <1>2, <1>3, <1>10 DEF Attach
  <1>11. CASE Hello(c) \/ Build(c) \/ EndOld(c)
    BY <1>1, <1>2, <1>11 DEF Hello, Build, EndOld, Goto
  <1>12. CASE ClearDone(c)
    BY <1>1, <1>2, <1>12 DEF ClearDone, ShapeOf
  <1>13. CASE Leave(c) \/ Offline(c) \/ Gone(c)
    BY <1>1, <1>2, <1>13 DEF Leave, Offline, Gone, Goto, Closed
  <1>14. CASE Drop(c) \/ Turn(c) \/ Register(c) \/ Clear(c)
    BY <1>1, <1>2, <1>14 DEF Drop, Turn, Register, Clear
  <1>15. CASE \E d \in Devices : Accept(c, d)
    <2>1. PICK d \in Devices, b \in BOOLEAN :
              conn'[c] = [Closed EXCEPT !.pc = "handshake", !.dev = d,
                                        !.open = TRUE, !.alone = b]
      BY <1>1, <1>15 DEF Accept
    <2>2. c \notin registry /\ registry' = registry
      BY <1>2, <1>15 DEF Accept
    <2> QED BY <2>1, <2>2 DEF Closed
  <1> QED
    BY <1>4, <1>5, <1>6, <1>7, <1>8, <1>9, <1>10, <1>11, <1>12, <1>13, <1>14,
       <1>15
    DEF ConnStep, ConnEvent

\* Another connection's entry goes only when its eviction is done.
LEMMA OtherEntry ==
    ASSUME Typed, NEW c \in Conns, ConnStep(c) \/ ConnEvent(c),
           NEW o \in Conns, o # c
    PROVE  \/ o \in registry' <=> o \in registry
           \/ /\ EvictDone(c) /\ o = conn[c].victim
              /\ o \notin registry' /\ ~conn'[o].registered
  <1>1. CASE EvictDone(c)
    <2>1. CASE o = conn[c].victim
      <3>1. /\ conn' = [conn EXCEPT ![c].pc = "evict", ![c].victim = None,
                                    ![o].registered = FALSE]
            /\ registry' = registry \ {o}
        BY <1>1, <2>1 DEF EvictDone
      <3>2. conn \in [Conns -> Conn] /\ conn[o] \in Conn
        BY DEF Typed, TypeOK
      <3>3. conn'[o] = [conn[o] EXCEPT !.registered = FALSE]
        BY <3>1, <3>2
      <3> QED BY <1>1, <2>1, <3>1, <3>2, <3>3 DEF Conn
    <2>2. CASE o # conn[c].victim
      BY <1>1, <2>2 DEF EvictDone
    <2> QED BY <2>1, <2>2
  <1>2. CASE ~EvictDone(c)
    BY <1>2
    DEF ConnStep, ConnEvent, Join, EvictNext, EvictPause, EvictClose, Upsert,
        Collision, FindSession, Resume, CreateSession, Attach, Hello, Build,
        EndOld, CreateNext, ClearDone, Leave, Offline, Gone, Drop, Turn,
        Register, Clear, Accept
  <1> QED BY <1>1, <1>2

LEMMA RegistryStep ==
    Typed /\ Victims /\ RegistryIsLive /\ [Next]_vars => RegistryIsLive'
  <1> SUFFICES ASSUME Typed, Victims, RegistryIsLive, [Next]_vars
               PROVE  RegistryIsLive'
    OBVIOUS
  <1>1. ASSUME NEW c \in Conns, ConnStep(c) \/ ConnEvent(c), NEW o \in Conns
        PROVE  IF o \in registry' THEN conn'[o].pc \notin {"closed", "handshake"}
               ELSE conn'[o].pc \notin {"closed", "handshake"} =>
                       conn'[o].sid # None /\ ~conn'[o].registered
    <2>1. ASSUME EvictDone(c), conn[c].victim \in Conns
          PROVE  /\ conn[conn[c].victim].pc \notin {"closed", "handshake"} =>
                       conn[conn[c].victim].sid # None
                 /\ conn[c].victim # c
      <3>1. conn[c].victim # None
        BY <2>1, ConstantsAssumption
      <3>2. conn[c].pc = "evictClose"
        BY <2>1 DEF EvictDone, At
      <3> QED BY <3>1, <3>2 DEF Victims, Registering
    <2>2. CASE o = c
      <3>1. EvictDone(c) => c # conn[c].victim
        BY <2>1
      <3> QED BY <1>1, <2>2, <3>1, OwnEntry
    <2>3. CASE o # c
      <3>1. Same(o)
        BY <1>1, <2>3, Others
      <3>2. CASE o \in registry' <=> o \in registry
        BY <3>1, <3>2 DEF RegistryIsLive, Same
      <3>3. CASE /\ EvictDone(c) /\ o = conn[c].victim
                 /\ o \notin registry' /\ ~conn'[o].registered
        BY <2>1, <3>1, <3>3 DEF Same
      <3> QED BY <1>1, <2>3, <3>2, <3>3, OtherEntry
    <2> QED BY <2>2, <2>3
  <1>2. ASSUME NEW c \in Conns, ConnStep(c) \/ ConnEvent(c)
        PROVE  RegistryIsLive'
    <2>1. registry' \subseteq Conns
      BY TypedStep DEF Typed, TypeOK
    <2> QED BY <1>1, <1>2, <2>1 DEF RegistryIsLive
  <1>3. CASE Restart
    BY <1>3 DEF Restart, RegistryIsLive, Closed
  <1>4. CASE (\E s \in Sessions : Age(s)) \/ CleanStep \/ UNCHANGED vars
    BY <1>4
    DEF Age, CleanStep, CleanList, CleanGet, CleanEnd, vars, RegistryIsLive
  <1> QED BY <1>2, <1>3, <1>4 DEF Next

\* The registry holds the running connections and no closed one, whatever
\* evictions and disconnects interleave: the cap counts what it should, and a
\* connection that is missing from it was evicted.
THEOREM RegistryCorrect == Spec => []RegistryIsLive
  <1>1. Init => Typed /\ Victims /\ RegistryIsLive
    BY TypedInit DEF Init, Victims, RegistryIsLive, Closed
  <1>2. Typed /\ Victims /\ RegistryIsLive /\ [Next]_vars
            => (Typed /\ Victims /\ RegistryIsLive)'
    BY TypedStep, VictimsStep, RegistryStep
  <1> QED BY <1>1, <1>2, PTL DEF Spec

-----------------------------------------------------------------------------
(* Active sessions.                                                        *)

\* A session is made active by the connection that is about to get it.
LEMMA Activated ==
    ASSUME Typed, NEW c \in Conns, ConnStep(c) \/ ConnEvent(c),
           NEW s \in Sessions, sstat'[s] = "active", sstat[s] # "active"
    PROVE  Keeps(c, s)'
  <1>1. conn \in [Conns -> Conn] /\ sstat \in [Sessions -> Statuses] /\ ShapeOf(c)
    BY DEF Typed, TypeOK, Shape
  <1>2. CASE CreateSession(c) \/ CreateNext(c)
    <2>1. PICK t \in Sessions, p \in {"attach", "clearSet"} :
              /\ conn' = [conn EXCEPT ![c].got = t, ![c].pc = p]
              /\ SetStatus(t, "active")
      BY <1>2 DEF CreateSession, CreateNext, Insert
    <2>2. t = s
      BY <1>1, <2>1 DEF SetStatus
    <2> QED BY <1>1, <2>1, <2>2 DEF Keeps, Conn
  <1>3. CASE Resume(c)
    <2>1. conn[c].got \in Sessions
      BY <1>1, <1>3 DEF Resume, At, ShapeOf, Conn
    <2>2. conn[c].got = s
      BY <1>1, <1>3, <2>1 DEF Resume, SetStatus
    <2> QED BY <1>1, <1>3, <2>2 DEF Resume, Goto, Keeps, Conn
  <1>4. ~(EvictPause(c) \/ Leave(c))
    BY <1>1 DEF EvictPause, Leave, PauseIfActive, SetStatus
  <1>5. ~EndOld(c)
    BY <1>1 DEF EndOld, SetStatus
  <1> QED
    BY <1>2, <1>3, <1>4, <1>5
    DEF ConnStep, ConnEvent, Join, EvictNext, EvictClose, EvictDone, Upsert,
        Collision, FindSession, Attach, Hello, Build, ClearDone, Offline, Gone,
        Drop, Turn, Register, Clear, Accept, db

\* The one that will pause it keeps it, or pauses or ends it now.
LEMMA OwnKeeps ==
    ASSUME Typed, NEW c \in Conns, ConnStep(c) \/ ConnEvent(c),
           NEW s \in Sessions, sstat[s] = "active", sstat'[s] = "active",
           Keeps(c, s)
    PROVE  Keeps(c, s)'
  <1>1. conn \in [Conns -> Conn] /\ conn[c] \in Conn /\ ShapeOf(c) /\ s # None
        /\ sstat \in [Sessions -> Statuses]
    BY ConstantsAssumption DEF Typed, TypeOK, Shape
  <1>2. \/ /\ conn[c].sid = s
           /\ conn[c].pc \notin {"paused", "leaving", "closed", "clearNew", "clearSet"}
           /\ ~(conn[c].pc = "clear" /\ conn[c].seen = "ended")
        \/ conn[c].got = s /\ conn[c].pc \in {"attach", "clearSet"}
    BY DEF Keeps
  <1>3. conn[c].pc \in Registering \cup {"handshake"} => conn[c].sid = None
    BY <1>1 DEF ShapeOf
  <1> USE DEF At, Conn, Registering, Keeps
  <1>4. ~(\/ Join(c) \/ EvictNext(c) \/ EvictPause(c) \/ EvictClose(c)
          \/ EvictDone(c) \/ Upsert(c) \/ Collision(c) \/ FindSession(c)
          \/ Resume(c) \/ CreateSession(c) \/ CreateNext(c) \/ Register(c)
          \/ Offline(c) \/ Gone(c) \/ \E d \in Devices : Accept(c, d))
    BY <1>1, <1>2, <1>3
    DEF Join, EvictNext, EvictPause, EvictClose, EvictDone, Upsert, Collision,
        FindSession, Resume, CreateSession, CreateNext, Register, Offline, Gone,
        Accept
  <1>5. CASE Attach(c) \/ ClearDone(c)
    BY <1>1, <1>2, <1>3, <1>5 DEF Attach, ClearDone
  <1>6. CASE Hello(c) \/ Build(c)
    BY <1>1, <1>2, <1>6 DEF Hello, Build, Goto
  <1>7. ~EndOld(c)
    BY <1>1, <1>2 DEF EndOld, SetStatus
  <1>8. ~Leave(c)
    BY <1>1, <1>2 DEF Leave, PauseIfActive, SetStatus
  <1>9. CASE Clear(c)
    BY <1>1, <1>2, <1>9 DEF Clear
  <1>10. CASE Drop(c) \/ Turn(c)
    BY <1>1, <1>2, <1>10 DEF Drop, Turn
  <1> QED
    BY <1>4, <1>5, <1>6, <1>7, <1>8, <1>9, <1>10 DEF ConnStep, ConnEvent

LEMMA ActiveIsKeptStep == Typed /\ ActiveIsKept /\ [Next]_vars => ActiveIsKept'
  <1> SUFFICES ASSUME Typed, ActiveIsKept, [Next]_vars,
                      NEW s \in Sessions, sstat'[s] = "active"
               PROVE  \E c \in Conns : Keeps(c, s)'
    BY DEF ActiveIsKept
  <1>1. ASSUME NEW c \in Conns, ConnStep(c) \/ ConnEvent(c)
        PROVE  \E k \in Conns : Keeps(k, s)'
    <2>1. CASE sstat[s] # "active"
      BY <1>1, <2>1, Activated
    <2>2. CASE sstat[s] = "active"
      <3>1. PICK k \in Conns : Keeps(k, s)
        BY <2>2 DEF ActiveIsKept
      <3>2. CASE k = c
        BY <1>1, <2>2, <3>1, <3>2, OwnKeeps
      <3>3. CASE k # c
        <4>1. Same(k)
          BY <1>1, <3>3, Others
        <4> QED BY <3>1, <4>1 DEF Keeps, Same
      <3> QED BY <3>2, <3>3
    <2> QED BY <2>1, <2>2
  <1>2. sstat \in [Sessions -> Statuses]
    BY DEF Typed, TypeOK
  <1>3. CASE Restart
    BY <1>2, <1>3 DEF Restart
  <1>4. CASE (\E t \in Sessions : Age(t)) \/ CleanStep \/ UNCHANGED vars
    <2>1. conn' = conn /\ sstat[s] = "active"
      BY <1>2, <1>4
      DEF Age, CleanStep, CleanList, CleanGet, CleanEnd, SetStatus, vars, db
    <2> QED BY <2>1 DEF ActiveIsKept, Keeps
  <1> QED BY <1>1, <1>3, <1>4 DEF Next

\* No session stays active without a connection that will pause it: neither
\* an eviction that meets a resume, nor a clear or a cleanup in the middle of
\* them, leaves one behind.
THEOREM ActiveHeld == Spec => []ActiveIsHeld
  <1>1. Init => Typed /\ ActiveIsKept
    BY TypedInit DEF Init, ActiveIsKept
  <1>2. Typed /\ ActiveIsKept /\ [Next]_vars => (Typed /\ ActiveIsKept)'
    BY TypedStep, ActiveIsKeptStep
  <1>3. ActiveIsKept => ActiveIsHeld
    BY DEF ActiveIsKept, ActiveIsHeld, Keeps, Holds
  <1> QED BY <1>1, <1>2, <1>3, PTL DEF Spec

-----------------------------------------------------------------------------
(* Sessions and their devices.                                             *)

\* Whose sessions a connection takes: those it knows, those its device knows,
\* and those it creates.
LEMMA OwnIds ==
    ASSUME Typed, NEW c \in Conns, ConnStep(c) \/ ConnEvent(c),
           NEW s \in Sessions, conn'[c].sid = s \/ conn'[c].got = s
    PROVE  /\ conn'[c].dev = conn[c].dev /\ conn[c].dev \in Devices
           /\ \/ s \in {conn[c].sid, conn[c].got, known[conn[c].dev]}
              \/ sstat[s] = "absent" /\ sstat'[s] = "active"
  <1>1. conn \in [Conns -> Conn] /\ conn[c] \in Conn /\ ShapeOf(c) /\ s # None
        /\ sstat \in [Sessions -> Statuses]
    BY ConstantsAssumption DEF Typed, TypeOK, Shape
  <1> SUFFICES ASSUME conn[c].pc # "closed" =>
                         conn'[c].dev = conn[c].dev \/ conn'[c].pc = "closed"
               PROVE  /\ conn[c].pc # "closed" /\ conn'[c].pc # "closed"
                      /\ \/ s \in {conn[c].sid, conn[c].got, known[conn[c].dev]}
                         \/ sstat[s] = "absent" /\ sstat'[s] = "active"
    BY <1>1, OwnVictim DEF ShapeOf
  <1> USE DEF At, Conn
  <1>2. CASE Join(c)
    BY <1>1, <1>2 DEF Join, Goto, Closed
  <1>3. CASE EvictNext(c)
    <2>1. PICK L, o : conn' = [conn EXCEPT ![c].pc = "evictShut", ![c].victim = o,
                                           ![c].left = L]
      BY <1>3 DEF EvictNext
    <2> QED BY <1>1, <1>3, <2>1 DEF EvictNext
  <1>4. CASE EvictPause(c) \/ EvictClose(c) \/ EvictDone(c)
    BY <1>1, <1>4 DEF EvictPause, EvictClose, EvictDone
  <1>5. CASE Upsert(c) \/ Collision(c) \/ FindSession(c) \/ Resume(c)
    BY <1>1, <1>5 DEF Upsert, Collision, FindSession, Resume, Goto
  <1>6. CASE CreateSession(c) \/ CreateNext(c)
    <2>1. PICK t \in Sessions, p \in {"attach", "clearSet"} :
              /\ conn' = [conn EXCEPT ![c].got = t, ![c].pc = p]
              /\ sstat[t] = "absent" /\ SetStatus(t, "active")
      BY <1>6 DEF CreateSession, CreateNext, Insert
    <2>2. conn[c].pc # "closed"
      BY <1>6 DEF CreateSession, CreateNext
    <2> QED BY <1>1, <2>1, <2>2 DEF SetStatus
  <1>7. CASE Attach(c) \/ ClearDone(c)
    BY <1>1, <1>7 DEF Attach, ClearDone
  <1>8. CASE Hello(c) \/ Build(c) \/ EndOld(c)
    BY <1>1, <1>8 DEF Hello, Build, EndOld, Goto
  <1>9. CASE Leave(c) \/ Offline(c) \/ Gone(c)
    BY <1>1, <1>9 DEF Leave, Offline, Gone, Goto, Closed
  <1>10. CASE Drop(c) \/ Turn(c) \/ Register(c) \/ Clear(c)
    BY <1>1, <1>10 DEF Drop, Turn, Register, Clear, ShapeOf
  <1>11. CASE \E d \in Devices : Accept(c, d)
    <2>1. PICK d \in Devices, b \in BOOLEAN :
              conn'[c] = [Closed EXCEPT !.pc = "handshake", !.dev = d,
                                        !.open = TRUE, !.alone = b]
      BY <1>1, <1>11 DEF Accept
    <2> QED BY <1>1, <2>1 DEF Closed
  <1> QED
    BY <1>2, <1>3, <1>4, <1>5, <1>6, <1>7, <1>8, <1>9, <1>10, <1>11
    DEF ConnStep, ConnEvent

\* A created session is never absent again.
LEMMA Exists ==
    ASSUME Typed, [Next]_vars, NEW s \in Sessions, sstat[s] # "absent"
    PROVE  sstat'[s] # "absent"
  <1>1. sstat \in [Sessions -> Statuses]
    BY DEF Typed, TypeOK
  <1>2. CASE \/ \E c \in Conns : ConnStep(c) \/ ConnEvent(c)
             \/ CleanStep
    <2> DEFINE Set(x) == \E t : SetStatus(t, x)
    <2>1. ASSUME NEW c \in Conns, ConnStep(c) \/ ConnEvent(c)
          PROVE  sstat' = sstat \/ Set("active") \/ Set("paused") \/ Set("ended")
      <3>1. CASE EvictPause(c) \/ Leave(c)
        BY <3>1 DEF EvictPause, Leave, PauseIfActive
      <3>2. CASE CreateSession(c) \/ CreateNext(c)
        BY <3>2 DEF CreateSession, CreateNext, Insert
      <3>3. CASE Resume(c) \/ EndOld(c)
        BY <3>3 DEF Resume, EndOld
      <3> QED
        BY <2>1, <3>1, <3>2, <3>3
        DEF ConnStep, ConnEvent, Join, EvictNext, EvictClose, EvictDone, Upsert,
            Collision, FindSession, Attach, Hello, Build, ClearDone, Offline,
            Gone, Drop, Turn, Register, Clear, Accept, db
    <2>2. CleanStep => sstat' = sstat \/ Set("ended")
      BY DEF CleanStep, CleanList, CleanGet, CleanEnd, db
    <2>3. sstat' = sstat \/ Set("active") \/ Set("paused") \/ Set("ended")
      BY <1>2, <2>1, <2>2
    <2> QED BY <1>1, <2>3 DEF SetStatus
  <1>3. CASE Restart
    BY <1>1, <1>3 DEF Restart
  <1> QED BY <1>1, <1>2, <1>3 DEF Next, Age, vars, db

LEMMA OwnedStep == Typed /\ Owned /\ [Next]_vars => Owned'
  <1> SUFFICES ASSUME Typed, Owned, [Next]_vars
               PROVE  Owned'
    OBVIOUS
  <1> USE ConstantsAssumption
  <1>1. ASSUME NEW c \in Conns, ConnStep(c) \/ ConnEvent(c),
               NEW d \in Devices, NEW s \in Sessions, OfDevice(d, s)'
        PROVE  \/ OfDevice(d, s)
               \/ d = conn[c].dev /\ sstat[s] = "absent" /\ sstat'[s] = "active"
    <2>1. CASE known'[d] = s
      <3>1. CASE known' = known
        BY <2>1, <3>1 DEF OfDevice
      <3>2. CASE Hello(c) \/ ClearDone(c)
        <4>1. known \in [Devices -> Sessions \cup {None}]
          BY DEF Typed, TypeOK
        <4>2. \/ known'[d] = known[d]
              \/ d = conn[c].dev /\ known'[d] \in {conn[c].sid, conn[c].got}
          BY <3>2, <4>1 DEF Hello, ClearDone
        <4> QED BY <2>1, <4>2 DEF OfDevice
      <3> QED
        BY <1>1, <3>1, <3>2
        DEF ConnStep, ConnEvent, Join, EvictNext, EvictPause, EvictClose,
            EvictDone, Upsert, Collision, FindSession, Resume, CreateSession,
            Attach, Build, EndOld, CreateNext, Leave, Offline, Gone, Drop, Turn,
            Register, Clear, Accept
    <2>2. ASSUME NEW k \in Conns, conn'[k].dev = d,
                 conn'[k].sid = s \/ conn'[k].got = s
          PROVE  \/ OfDevice(d, s)
                 \/ d = conn[c].dev /\ sstat[s] = "absent" /\ sstat'[s] = "active"
      <3>1. CASE k = c
        BY <1>1, <2>2, <3>1, OwnIds DEF OfDevice
      <3>2. CASE k # c
        BY <1>1, <2>2, <3>2, Others DEF Same, OfDevice
      <3> QED BY <3>1, <3>2
    <2> QED BY <1>1, <2>1, <2>2 DEF OfDevice
  <1>2. ASSUME NEW c \in Conns, ConnStep(c) \/ ConnEvent(c)
        PROVE  Owned'
    <2> SUFFICES ASSUME NEW s \in Sessions
                 PROVE  /\ \A d \in Devices : OfDevice(d, s)' => sstat'[s] # "absent"
                        /\ \A d, e \in Devices :
                              OfDevice(d, s)' /\ OfDevice(e, s)' => d = e
      BY DEF Owned
    <2>1. \A d \in Devices : OfDevice(d, s)' =>
             \/ OfDevice(d, s)
             \/ d = conn[c].dev /\ sstat[s] = "absent" /\ sstat'[s] = "active"
      BY <1>1, <1>2
    <2>2. /\ \A d \in Devices : OfDevice(d, s) => sstat[s] # "absent"
          /\ \A d, e \in Devices : OfDevice(d, s) /\ OfDevice(e, s) => d = e
      BY DEF Owned
    <2>3. sstat[s] # "absent" => sstat'[s] # "absent"
      BY Exists
    <2> QED BY <2>1, <2>2, <2>3
  <1>3. CASE Restart
    <2>1. \A d \in Devices, s \in Sessions : OfDevice(d, s)' => OfDevice(d, s)
      BY <1>3 DEF Restart, Closed, OfDevice
    <2> QED BY <2>1, Exists DEF Owned
  <1>4. CASE (\E s \in Sessions : Age(s)) \/ CleanStep \/ UNCHANGED vars
    <2>1. \A d \in Devices, s \in Sessions : OfDevice(d, s)' => OfDevice(d, s)
      BY <1>4 DEF Age, CleanStep, CleanList, CleanGet, CleanEnd, vars, OfDevice
    <2> QED BY <2>1, Exists DEF Owned
  <1> QED BY <1>2, <1>3, <1>4 DEF Next

\* A session is paused by a connection of its own device.
LEMMA Pausing ==
    ASSUME Typed, Victims, NEW c \in Conns, ConnStep(c) \/ ConnEvent(c),
           NEW s \in Sessions, sstat'[s] = "paused", sstat[s] # "paused"
    PROVE  conn[c].dev \in Devices /\ OfDevice(conn[c].dev, s)
  <1>1. conn \in [Conns -> Conn] /\ sstat \in [Sessions -> Statuses] /\ Shape
        /\ None \notin Sessions \cup Conns
    BY ConstantsAssumption DEF Typed, TypeOK
  <1>2. conn[c].pc # "closed" => conn[c].dev \in Devices
    BY <1>1 DEF Shape, ShapeOf
  <1>3. CASE EvictPause(c)
    <2> DEFINE o == conn[c].victim
    <2>1. conn[c].pc = "evictShut" /\ conn[o].sid = s
      BY <1>1, <1>3 DEF EvictPause, PauseIfActive, SetStatus, At
    <2>2. o \in Conns
      BY <1>1, <2>1 DEF Shape, ShapeOf, Conn
    <2>3. conn[o].pc # "closed"
      BY <1>1, <2>1, <2>2 DEF Shape, ShapeOf
    <2>4. conn[o].dev = conn[c].dev
      BY <1>1, <2>2, <2>3 DEF Victims
    <2> QED BY <1>2, <2>1, <2>2, <2>4 DEF OfDevice
  <1>4. CASE Leave(c)
    <2>1. conn[c].pc = "idle" /\ conn[c].sid = s
      BY <1>1, <1>4 DEF Leave, PauseIfActive, SetStatus, At
    <2> QED BY <1>2, <2>1 DEF OfDevice
  <1>5. ~EvictPause(c) /\ ~Leave(c) => sstat' = sstat \/ \E t : \E x \in {"active", "ended"} : SetStatus(t, x)
    BY DEF ConnStep, ConnEvent, Join, EvictNext, EvictClose,
          EvictDone, Upsert, Collision, FindSession, Resume, CreateSession,
          Attach, Hello, Build, EndOld, CreateNext, ClearDone, Offline,
          Gone, Drop, Turn, Register, Clear, Accept, Insert, db
  <1> QED BY <1>1, <1>3, <1>4, <1>5 DEF SetStatus

-----------------------------------------------------------------------------
(* A connection alone on its device.                                       *)

\* The strengthening: everything that has to hold for AloneIsWired to last.
Wired == Typed /\ Victims /\ Owned /\ Alone /\ AloneIsWired

\* A connection that is alone after a step is the only one of its device, and
\* was alone on that device before, unless it has just been accepted.
LEMMA AloneStep ==
    ASSUME Typed, Alone, NEW c \in Conns, ConnStep(c) \/ ConnEvent(c),
           NEW o \in Conns, conn'[o].alone
    PROVE  /\ \A k \in Conns \ {o} : conn'[k].dev # conn'[o].dev
           /\ \/ conn[o].alone /\ conn'[o].dev = conn[o].dev
              \/ o = c /\ conn'[c].pc = "handshake"
  <1>1. conn \in [Conns -> Conn] /\ Shape /\ Shape' /\ None \notin Devices
    BY TypedStep, ConstantsAssumption DEF Typed, TypeOK, Next
  <1>2. conn'[o].pc # "closed" /\ conn'[o].dev \in Devices
    BY <1>1 DEF Shape, ShapeOf
  <1>3. CASE \E d \in Devices : Accept(c, d)
    <2>1. PICK d \in Devices : Accept(c, d)
      BY <1>3
    <2>2. conn[c].dev = None
      BY <1>1, <2>1 DEF Accept, At, Shape, ShapeOf
    <2> DEFINE others == {k \in Conns : conn[k].dev = d}
    <2>3. conn'[c] = [Closed EXCEPT !.pc = "handshake", !.dev = d,
                          !.open = TRUE, !.alone = (others = {})]
      BY <1>1, <2>1 DEF Accept
    <2>4. \A k \in Conns \ {c} :
             conn'[k] = IF k \in others THEN [conn[k] EXCEPT !.alone = FALSE]
                        ELSE conn[k]
      BY <1>1, <2>1 DEF Accept
    <2>5. conn'[c].dev = d /\ conn'[c].pc = "handshake"
          /\ conn'[c].alone = (others = {})
      BY <2>3 DEF Closed
    <2>6. \A k \in Conns \ {c} : conn'[k].dev = conn[k].dev
      BY <1>1, <2>1, <1>3, Others DEF Same
    <2>7. CASE o = c
      <3>1. others = {}
        BY <2>5, <2>7
      <3>2. \A k \in Conns : conn[k].dev # d
        BY <3>1
      <3> QED BY <2>5, <2>6, <2>7, <3>2
    <2>8. CASE o # c
      <3>1. conn[o].alone /\ o \notin others
        BY <1>1, <2>4, <2>8 DEF Conn
      <3> QED BY <2>5, <2>6, <2>8, <3>1 DEF Alone
    <2> QED BY <2>7, <2>8
  <1>4. CASE ~\E d \in Devices : Accept(c, d)
    <2>1. conn'[c].dev \in {conn[c].dev, None}
      <3>1. CASE conn'[c].pc = "closed"
        BY <1>1, <3>1 DEF Shape, ShapeOf
      <3>2. CASE conn'[c].pc # "closed"
        BY <1>4, <3>2, OwnVictim, ClosedStays DEF At
      <3> QED BY <3>1, <3>2
    <2>2. conn'[c].alone => conn[c].alone
      <3>1. conn[c] \in Conn
        BY <1>1
      <3>2. CASE conn'[c].pc = "closed"
        BY <1>1, <3>2 DEF Shape, ShapeOf
      <3>3. CASE conn'[c].pc # "closed" /\ (CreateSession(c) \/ CreateNext(c))
        <4>1. PICK s \in Sessions, p \in {"attach", "clearSet"} :
                  conn' = [conn EXCEPT ![c].got = s, ![c].pc = p]
          BY <3>3 DEF CreateSession, CreateNext, Insert
        <4> QED BY <1>1, <3>1, <4>1 DEF Conn
      <3>4. CASE EvictNext(c)
        <4>1. PICK L, v : conn' = [conn EXCEPT ![c].pc = "evictShut", ![c].victim = v,
                                               ![c].left = L]
          BY <3>4 DEF EvictNext
        <4> QED BY <1>1, <3>1, <4>1 DEF Conn
      <3>5. CASE EvictPause(c) \/ EvictClose(c) \/ EvictDone(c)
        BY <1>1, <3>1, <3>5 DEF EvictPause, EvictClose, EvictDone, Conn
      <3>6. CASE /\ conn'[c].pc # "closed"
                 /\ \/ Join(c) \/ Upsert(c) \/ Collision(c) \/ FindSession(c)
                    \/ Resume(c) \/ Attach(c) \/ Hello(c) \/ Build(c)
        BY <1>1, <3>1, <3>6
        DEF Join, Upsert, Collision, FindSession, Resume, Attach, Hello, Build,
            Goto, Conn, Closed
      <3>7. CASE /\ conn'[c].pc # "closed"
                 /\ \/ EndOld(c) \/ ClearDone(c) \/ Leave(c) \/ Offline(c) \/ Gone(c)
                    \/ Drop(c) \/ Turn(c) \/ Register(c) \/ Clear(c)
        BY <1>1, <3>1, <3>7
        DEF EndOld, ClearDone, Leave, Offline, Gone, Drop, Turn, Register, Clear,
            Goto, Conn, Closed
      <3> QED
        BY <1>4, <3>2, <3>3, <3>4, <3>5, <3>6, <3>7 DEF ConnStep, ConnEvent
    <2>3. \A k \in Conns \ {c} :
             conn'[k].dev = conn[k].dev /\ (conn'[k].alone => conn[k].alone)
      BY <1>4, Others DEF Same
    <2>4. conn[o].alone /\ conn'[o].dev = conn[o].dev
      BY <1>2, <1>1, <2>1, <2>2, <2>3
    <2>5. \A k \in Conns \ {o} : conn[k].dev # conn[o].dev
      BY <2>4 DEF Alone
    <2> QED BY <1>1, <1>2, <2>1, <2>3, <2>4, <2>5
  <1> QED BY <1>3, <1>4

\* Steps of other connections leave alone what belongs to another device.
LEMMA OtherDevice ==
    ASSUME Wired, NEW c \in Conns, ConnStep(c) \/ ConnEvent(c),
           NEW d \in Devices, conn[c].dev # d
    PROVE  /\ d \in online => d \in online'
           /\ \A s \in Sessions : OfDevice(d, s) =>
                 /\ sstat'[s] = "paused" => sstat[s] = "paused"
                 /\ surf'[s] = surf[s]
  <1> USE DEF Wired
  <1>1. d \in online => d \in online'
    BY DEF ConnStep, ConnEvent, Join, EvictNext, EvictPause, EvictClose,
           EvictDone, Upsert, Collision, FindSession, Resume, CreateSession,
           Attach, Hello, Build, EndOld, CreateNext, ClearDone, Leave, Offline,
           Gone, Drop, Turn, Register, Clear, Accept, db
  <1>2. ASSUME NEW s \in Sessions, OfDevice(d, s)
        PROVE  /\ sstat'[s] = "paused" => sstat[s] = "paused"
               /\ surf'[s] = surf[s]
    <2>1. conn[c].dev \in Devices => ~OfDevice(conn[c].dev, s)
      BY <1>2 DEF Owned
    <2>2. sstat'[s] = "paused" => sstat[s] = "paused"
      BY <2>1, Pausing
    <2>3. conn[c].pc # "closed" => conn[c].sid # s /\ conn[c].got # s
      BY <2>1 DEF OfDevice, Typed, Shape, ShapeOf
    <2>4. surf'[s] = surf[s]
      <3>1. surf \in [Sessions -> Conns \cup {None}]
        BY DEF Typed, TypeOK
      <3>2. CASE Attach(c)
        BY <2>3, <3>1, <3>2 DEF Attach, At
      <3>3. CASE Leave(c)
        BY <2>3, <3>1, <3>3 DEF Leave, At
      <3> QED
        BY <3>2, <3>3
        DEF ConnStep, ConnEvent, Join, EvictNext, EvictPause, EvictClose,
            EvictDone, Upsert, Collision, FindSession, Resume, CreateSession,
            Hello, Build, EndOld, CreateNext, ClearDone, Offline, Gone, Drop,
            Turn, Register, Clear, Accept
    <2> QED BY <2>2, <2>4
  <1> QED BY <1>1, <1>2

\* On its way to Attach, the steps of a connection that is alone.
LEMMA AloneOwn ==
    ASSUME Wired, NEW c \in Conns, ConnStep(c) \/ ConnEvent(c),
           conn[c].alone, conn'[c].alone, conn'[c].dev = conn[c].dev
    PROVE  /\ conn'[c].pc \in {"upsert", "resume", "attach"} =>
                 conn'[c].dev \in online'
           /\ conn'[c].pc = "resume" /\ conn'[c].seen = "active" =>
                 sstat'[conn'[c].got] # "paused"
           /\ conn'[c].pc = "attach" => sstat'[conn'[c].got] # "paused"
  <1>1. /\ conn \in [Conns -> Conn] /\ conn[c] \in Conn /\ ShapeOf(c)
        /\ sstat \in [Sessions -> Statuses] /\ None \notin Sessions
    BY ConstantsAssumption DEF Wired, Typed, TypeOK, Shape
  <1>2. /\ conn[c].pc \in {"upsert", "resume", "attach"} => conn[c].dev \in online
        /\ conn[c].pc = "resume" /\ conn[c].seen = "active" =>
              sstat[conn[c].got] # "paused"
        /\ conn[c].pc = "attach" => sstat[conn[c].got] # "paused"
    BY DEF Wired, Alone
  <1> USE DEF At, Conn
  <1>3. CASE Upsert(c)
    BY <1>1, <1>3 DEF Upsert
  <1>4. CASE FindSession(c)
    BY <1>1, <1>2, <1>4 DEF FindSession, db
  <1>5. CASE Resume(c)
    <2>1. conn[c].got \in Sessions /\ conn[c].pc = "resume"
      BY <1>1, <1>5 DEF Resume, ShapeOf
    <2>2. sstat'[conn[c].got] # "paused"
      BY <1>1, <1>2, <1>5, <2>1 DEF Resume, SetStatus
    <2> QED BY <1>1, <1>2, <1>5, <2>1, <2>2 DEF Resume, Goto
  <1>6. CASE CreateSession(c)
    <2>1. PICK s \in Sessions :
              /\ conn' = [conn EXCEPT ![c].got = s, ![c].pc = "attach"]
              /\ SetStatus(s, "active")
      BY <1>6 DEF CreateSession, Insert
    <2>2. sstat'[s] = "active" /\ conn'[c].got = s /\ conn'[c].pc = "attach"
      BY <1>1, <2>1 DEF SetStatus
    <2>3. conn[c].dev \in online /\ online' = online
      BY <1>2, <1>6 DEF CreateSession
    <2> QED BY <2>2, <2>3
  <1>7. CASE Turn(c) \/ Drop(c)
    BY <1>1, <1>2, <1>7 DEF Turn, Drop, db
  <1>8. ASSUME ~(\/ Upsert(c) \/ FindSession(c) \/ Resume(c) \/ CreateSession(c)
                 \/ Turn(c) \/ Drop(c))
        PROVE  conn'[c].pc \notin {"upsert", "resume", "attach"}
    <2>1. CASE EvictPause(c) \/ EvictClose(c) \/ EvictDone(c)
      BY <1>1, <2>1 DEF EvictPause, EvictClose, EvictDone
    <2>7. CASE EvictNext(c)
      <3>1. PICK L, o : conn' = [conn EXCEPT ![c].pc = "evictShut",
                                             ![c].victim = o, ![c].left = L]
        BY <2>7 DEF EvictNext
      <3> QED BY <1>1, <3>1
    <2>2. CASE Join(c) \/ Collision(c) \/ Attach(c) \/ Hello(c) \/ Build(c)
      BY <1>1, <2>2 DEF Join, Collision, Attach, Hello, Build, Goto, Closed
    <2>3. CASE EndOld(c) \/ ClearDone(c) \/ Leave(c) \/ Offline(c) \/ Gone(c)
      BY <1>1, <2>3 DEF EndOld, ClearDone, Leave, Offline, Gone, Goto, Closed
    <2>4. CASE CreateNext(c)
      BY <1>1, <2>4 DEF CreateNext, Insert
    <2>5. CASE Register(c) \/ Clear(c)
      BY <1>1, <2>5 DEF Register, Clear
    <2>6. CASE \E d \in Devices : Accept(c, d)
      BY <1>1, <2>6 DEF Accept, ShapeOf
    <2> QED
      BY <1>8, <2>1, <2>2, <2>3, <2>4, <2>5, <2>6, <2>7 DEF ConnStep, ConnEvent
  <1> QED BY <1>3, <1>4, <1>5, <1>6, <1>7, <1>8

\* What AloneIsWired says of one connection.
IsWired(c) ==
    /\ surf[conn[c].sid] = c
    /\ conn[c].dev \in online
    /\ sstat[conn[c].sid] # "paused"

Counts(c) ==
    /\ conn[c].alone /\ conn[c].registered /\ ~conn[c].cleared
    /\ conn[c].pc \notin {"paused", "leaving"}

\* Attach wires it, and no later step of its own takes that back.
LEMMA WiredOwn ==
    ASSUME Wired, NEW c \in Conns, ConnStep(c) \/ ConnEvent(c),
           conn[c].alone, conn'[c].dev = conn[c].dev, Counts(c)'
    PROVE  IsWired(c)'
  <1>1. /\ conn \in [Conns -> Conn] /\ conn[c] \in Conn /\ ShapeOf(c)
        /\ sstat \in [Sessions -> Statuses] /\ None \notin Sessions
        /\ surf \in [Sessions -> Conns \cup {None}] /\ ShapeOf(c)'
    BY TypedStep, ConstantsAssumption DEF Wired, Typed, TypeOK, Shape, Next
  <1>2. Counts(c) => IsWired(c)
    BY DEF Wired, AloneIsWired, Counts, IsWired
  <1>3. conn[c].pc = "attach" =>
           conn[c].dev \in online /\ sstat[conn[c].got] # "paused"
    BY DEF Wired, Alone
  <1> USE DEF At, Conn, Counts, IsWired
  <1>4. conn'[c].pc \notin Registering \cup {"handshake", "closed"}
        /\ conn'[c].sid # None
    BY <1>1 DEF ShapeOf
  <1>5. CASE Attach(c)
    <2>1. conn[c].got \in Sessions /\ conn[c].pc = "attach"
      BY <1>1, <1>5 DEF Attach, ShapeOf
    <2> QED BY <1>1, <1>3, <1>5, <2>1 DEF Attach, db
  <1>6. ~(\/ Leave(c) \/ Gone(c) \/ EvictNext(c) \/ EvictPause(c)
          \/ EvictClose(c) \/ EvictDone(c) \/ Upsert(c) \/ FindSession(c)
          \/ Resume(c) \/ CreateSession(c) \/ Register(c)
          \/ \E d \in Devices : Accept(c, d))
    <2>1. ~(Leave(c) \/ Gone(c))
      BY <1>1, <1>4 DEF Leave, Gone, Closed
    <2>2. ~(\/ EvictPause(c) \/ EvictClose(c) \/ EvictDone(c) \/ Upsert(c)
            \/ FindSession(c) \/ Resume(c) \/ Register(c))
      BY <1>1, <1>4
      DEF EvictPause, EvictClose, EvictDone, Upsert, FindSession, Resume,
          Register, Goto, Registering
    <2>3. ~EvictNext(c)
      <3> SUFFICES ASSUME EvictNext(c) PROVE conn'[c].pc = "evictShut"
        BY <1>4 DEF Registering
      <3>1. PICK L, o : conn' = [conn EXCEPT ![c].pc = "evictShut",
                                             ![c].victim = o, ![c].left = L]
        BY DEF EvictNext
      <3> QED BY <1>1, <3>1
    <2>4. ~CreateSession(c)
      <3> SUFFICES ASSUME CreateSession(c) PROVE conn'[c].pc = "attach"
        BY <1>4 DEF Registering
      <3>1. PICK s \in Sessions : conn' = [conn EXCEPT ![c].got = s, ![c].pc = "attach"]
        BY DEF CreateSession, Insert
      <3> QED BY <1>1, <3>1
    <2>5. ~\E d \in Devices : Accept(c, d)
      BY <1>1 DEF Accept, ShapeOf
    <2> QED BY <2>1, <2>2, <2>3, <2>4, <2>5
  <1>7. ~(Join(c) \/ Collision(c) \/ Offline(c) \/ ClearDone(c))
    <2>1. ~Join(c)
      BY <1>1, <1>4 DEF Join, Goto, Closed, ShapeOf
    <2>2. ~Collision(c)
      BY <1>1, <1>4 DEF Collision, ShapeOf, Registering
    <2>3. ~(Offline(c) \/ ClearDone(c))
      BY <1>1, <1>4 DEF Offline, ClearDone, Goto
    <2> QED BY <2>1, <2>2, <2>3
  <1>8. CASE Hello(c) \/ Build(c)
    BY <1>1, <1>2, <1>8 DEF Hello, Build, Goto, db
  <1>9. CASE EndOld(c)
    BY <1>1, <1>2, <1>9 DEF EndOld, Goto, SetStatus
  <1>10. CASE CreateNext(c)
    <2>1. PICK s \in Sessions :
              /\ conn' = [conn EXCEPT ![c].got = s, ![c].pc = "clearSet"]
              /\ SetStatus(s, "active")
      BY <1>10 DEF CreateNext, Insert
    <2>2. conn[c].pc \in {"clear", "clearNew"} /\ UNCHANGED <<surf, online>>
      BY <1>10 DEF CreateNext
    <2> QED BY <1>1, <1>2, <2>1, <2>2 DEF SetStatus
  <1>11. CASE Drop(c) \/ Turn(c) \/ Clear(c)
    BY <1>1, <1>2, <1>11 DEF Drop, Turn, Clear, db
  <1> QED
    BY <1>5, <1>6, <1>7, <1>8, <1>9, <1>10, <1>11 DEF ConnStep, ConnEvent

LEMMA WiredStep == Wired /\ [Next]_vars => Wired'
  <1> SUFFICES ASSUME Wired, [Next]_vars
               PROVE  Wired'
    OBVIOUS
  <1>1. Typed' /\ Victims' /\ Owned'
    BY TypedStep, VictimsStep, OwnedStep DEF Wired
  <1>2. ASSUME NEW c \in Conns, ConnStep(c) \/ ConnEvent(c)
        PROVE  Alone' /\ AloneIsWired'
    <2> SUFFICES ASSUME NEW o \in Conns, conn'[o].alone
                 PROVE  /\ \A k \in Conns \ {o} : conn'[k].dev # conn'[o].dev
                        /\ conn'[o].pc \in {"upsert", "resume", "attach"} =>
                              conn'[o].dev \in online'
                        /\ conn'[o].pc = "resume" /\ conn'[o].seen = "active" =>
                              sstat'[conn'[o].got] # "paused"
                        /\ conn'[o].pc = "attach" =>
                              sstat'[conn'[o].got] # "paused"
                        /\ Counts(o)' => IsWired(o)'
      BY DEF Alone, AloneIsWired, Counts, IsWired
    <2>1. /\ \A k \in Conns \ {o} : conn'[k].dev # conn'[o].dev
          /\ \/ conn[o].alone /\ conn'[o].dev = conn[o].dev
             \/ o = c /\ conn'[c].pc = "handshake"
      BY <1>2, AloneStep DEF Wired
    <2>2. CASE o = c /\ conn'[c].pc = "handshake"
      <3>1. ~conn'[c].registered
        BY <1>1, <2>2 DEF Typed, Shape, ShapeOf
      <3> QED BY <2>1, <2>2, <3>1 DEF Counts
    <2>3. CASE o = c /\ conn[o].alone /\ conn'[o].dev = conn[o].dev
      BY <1>2, <2>1, <2>3, AloneOwn, WiredOwn
    <2>4. CASE o # c /\ conn[o].alone /\ conn'[o].dev = conn[o].dev
      <3>1. Same(o) /\ ShapeOf(o)
        BY <1>2, <2>4, Others DEF Wired, Typed, Shape
      <3>2. /\ conn[o].pc \in {"upsert", "resume", "attach"} =>
                  conn[o].dev \in online
            /\ conn[o].pc = "resume" /\ conn[o].seen = "active" =>
                  sstat[conn[o].got] # "paused"
            /\ conn[o].pc = "attach" => sstat[conn[o].got] # "paused"
            /\ conn[c].dev # conn[o].dev
            /\ Counts(o) => IsWired(o)
        BY <2>4 DEF Wired, Alone, AloneIsWired, Counts, IsWired
      <3>3. conn[o].dev \in Devices
        BY <2>4, <3>1 DEF ShapeOf
      <3>4. /\ conn[o].dev \in online => conn[o].dev \in online'
            /\ \A s \in Sessions : conn[o].sid = s \/ conn[o].got = s =>
                  /\ sstat'[s] = "paused" => sstat[s] = "paused"
                  /\ surf'[s] = surf[s]
        BY <1>2, <3>2, <3>3, OtherDevice DEF OfDevice
      <3>5. /\ conn[o].pc \in {"resume", "attach"} => conn[o].got \in Sessions
            /\ conn[o].registered => conn[o].sid \in Sessions
        BY <3>1 DEF ShapeOf, Wired, Typed, TypeOK, Conn
      <3>6. Counts(o)' => Counts(o)
        BY <2>4, <3>1 DEF Counts, Same
      <3>7. Counts(o)' => IsWired(o)'
        BY <3>1, <3>2, <3>4, <3>5, <3>6 DEF Counts, IsWired, Same
      <3> QED BY <2>1, <3>1, <3>2, <3>4, <3>5, <3>7 DEF Same
    <2> QED BY <2>1, <2>2, <2>3, <2>4
  <1>3. CASE Restart
    <2>1. \A c \in Conns : conn'[c].alone = FALSE
      BY <1>3 DEF Restart, Closed
    <2> QED BY <1>1, <2>1 DEF Alone, AloneIsWired, Wired
  <1>4. CASE (\E s \in Sessions : Age(s)) \/ CleanStep \/ UNCHANGED vars
    <2>1. /\ UNCHANGED <<conn, surf, online>>
          /\ \A s \in Sessions : sstat'[s] = "paused" => sstat[s] = "paused"
      BY <1>4
      DEF Age, CleanStep, CleanList, CleanGet, CleanEnd, SetStatus, vars, db,
          Wired, Typed, TypeOK
    <2>2. \A c \in Conns :
            /\ conn[c].pc \in {"resume", "attach"} => conn[c].got \in Sessions
            /\ conn[c].registered => conn[c].sid \in Sessions
      BY DEF Wired, Typed, TypeOK, Shape, ShapeOf, Conn
    <2>3. Alone'
      BY <2>1, <2>2 DEF Wired, Alone
    <2>4. AloneIsWired'
      <3> SUFFICES ASSUME NEW c \in Conns, Counts(c)'
                   PROVE  IsWired(c)'
        BY DEF AloneIsWired, Counts, IsWired
      <3>1. Counts(c) /\ conn[c].sid \in Sessions
        BY <2>1, <2>2 DEF Counts
      <3>2. IsWired(c)
        BY <3>1 DEF Wired, AloneIsWired, Counts, IsWired
      <3>3. sstat'[conn[c].sid] # "paused"
        BY <2>1, <3>1, <3>2 DEF IsWired
      <3> QED BY <2>1, <3>2, <3>3 DEF IsWired
    <2> QED BY <1>1, <2>3, <2>4 DEF Wired
  <1> QED BY <1>1, <1>2, <1>3, <1>4 DEF Next, Wired

\* A connection that shares its device with no other is wired, whatever the
\* connections of the other devices, the cleanup loop and restarts do.
THEOREM AloneWired == Spec => []AloneIsWired
  <1>1. Init => Wired
    <2> SUFFICES ASSUME Init
                 PROVE  Wired
      OBVIOUS
    <2>1. \A c \in Conns : conn[c] = Closed
      BY DEF Init
    <2>2. Victims /\ Alone /\ AloneIsWired
      BY <2>1 DEF Victims, Alone, AloneIsWired, Closed
    <2>3. Owned
      BY <2>1, ConstantsAssumption DEF Init, Owned, OfDevice, Closed
    <2> QED BY <2>2, <2>3, TypedInit DEF Wired
  <1>2. Wired => AloneIsWired
    BY DEF Wired
  <1> QED BY <1>1, <1>2, WiredStep, PTL DEF Spec
=============================================================================

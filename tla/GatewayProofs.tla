--------------------------- MODULE GatewayProofs ----------------------------
(***************************************************************************)
(* Proofs about Gateway, for any number of callers, sockets and requests:  *)
(* what _pending holds, that one socket is open at most, that an ok is the *)
(* gateway's answer to the very message, and that no key is lost.          *)
(***************************************************************************)
EXTENDS Gateway, FiniteSetTheorems, TLAPS

-----------------------------------------------------------------------------
(* The inductive invariant.                                                *)

CallRecs == [pc : {"idle", "cache", "ensure", "lock", "open", "nonce", "hello", "send", "tear",
                "wait", "back"},
          req : Nat, again : BOOLEAN, res : {"ok", "error", "raised", None}]
ReqRecs == [by : Callers \cup {None}, sock : Nat, kind : {"none", "connect", "send", "skills"},
             st : {"none", "sent", "done", "refused", "lost"}, read : BOOLEAN]

\* The state, as far as the proof needs it.
Shape ==
    /\ boot \in {"load", "write", "up"} /\ ws \in Socks \cup {None}
    /\ sock \in [Socks -> {"none", "open", "closed"}]
    /\ reading \subseteq Socks /\ lock \in Callers \cup {None}
    /\ pending \subseteq Reqs /\ fut \in [Reqs -> {"wait", "ok", "error"}]
    /\ req \in [Reqs -> ReqRecs] /\ call \in [Callers -> CallRecs]

\* The key in use is the file's, or the one that is about to be written; a key that
\* the file has is not replaced.
Identity ==
    /\ boot = "up" => file.key = key
    /\ boot = "write" => file.key = None \/ file.key = key

\* _connect_lock is held from the opening to the answer, or to the teardown.
Locked == \A c \in Callers :
    call[c].pc \in {"open", "nonce", "hello", "tear"} <=> lock = c

\* Only the socket of ws is open or has a reader, and it is connected unless the
\* holder of the lock is still shaking hands; before it opens one there is none.
Sockets ==
    /\ \A s \in Socks : s \in reading \/ sock[s] = "open" => s = ws
    /\ ws # None /\ sock[ws] = "open" => connected \/ lock # None
    /\ \A c \in Callers : call[c].pc = "open" => \A s \in Socks : sock[s] # "open"

\* Whoever waits, waits for a request of its own.
Awaited ==
    /\ \A c \in Callers : call[c].pc \in {"hello", "wait"} =>
         call[c].req \in Reqs /\ req[call[c].req].by = c /\ req[call[c].req].kind # "none"
    /\ \A c \in Replies : call[c].pc = "wait" => req[call[c].req].kind = "send"
    /\ \A i \in Reqs : req[i].kind = "none" => fut[i] = "wait"

\* A future is ok by the answer that the reader read, which no loss takes back.
Answers ==
    /\ \A i \in Reqs : fut[i] = "ok" => req[i].st = "done" /\ req[i].read
    /\ \A c \in Replies : call[c].pc = "back" /\ call[c].res = "ok" =>
         /\ call[c].req \in Reqs /\ req[call[c].req].by = c
         /\ req[call[c].req].kind = "send" /\ req[call[c].req].st = "done"
         /\ req[call[c].req].read

IInv == Shape /\ Identity /\ Locked /\ Sockets /\ Awaited /\ PendingIsAwaited /\ Answers

LEMMA InitIInv == ASSUME Init PROVE IInv
  <1> USE NoneAssumption
  <1>1. \A c \in Callers : call[c].pc = "idle" /\ call[c] \in CallRecs
    BY DEF Init, Idle, CallRecs
  <1>2. \A i \in Reqs : fut[i] = "wait" /\ req[i] = NoReq /\ NoReq \in ReqRecs
    BY DEF Init, NoReq, ReqRecs
  <1>3. Shape /\ Identity
    BY <1>1, <1>2 DEF Init, Shape, Identity
  <1>4. Locked /\ Sockets
    BY <1>1 DEF Init, Locked, Sockets
  <1>5. PendingIsAwaited
    BY <1>1 DEF Init, PendingIsAwaited, Waits
  <1>6. Awaited /\ Answers
    BY <1>1, <1>2 DEF Callers, Awaited, Answers
  <1> QED
    BY <1>3, <1>4, <1>5, <1>6 DEF IInv

-----------------------------------------------------------------------------
(* The steps of the callers that send nothing, and the crash.              *)

LEMMA CallMoves ==
    ASSUME Shape, NEW c \in Callers, NEW to \in CallRecs, call' = [call EXCEPT ![c] = to]
    PROVE  call' \in [Callers -> CallRecs]
  BY DEF Shape

LEMMA CallAt ==
    ASSUME Shape, NEW c \in Callers,
           NEW pc \in {"idle", "cache", "ensure", "lock", "open", "nonce", "hello", "send",
                       "tear", "wait", "back"}
    PROVE  /\ [call[c] EXCEPT !.pc = pc] \in CallRecs
           /\ [call[c] EXCEPT !.pc = pc, !.again = TRUE] \in CallRecs
  <1>1. call[c] \in CallRecs
    BY DEF Shape
  <1> QED
    BY <1>1 DEF CallRecs

LEMMA CallEnds ==
    ASSUME NEW res \in {"ok", "error", "raised", None}
    PROVE  [Idle EXCEPT !.pc = "back", !.res = res] \in CallRecs
  BY DEF Idle, CallRecs

LEMMA CacheIInv == ASSUME IInv, NEW c \in Callers, Cache(c) PROVE IInv'
  <1> USE NoneAssumption DEF IInv
  <1>a. call[c].pc = "cache" /\ UNCHANGED <<ident, conn>>
    BY DEF Cache
  <1>b. PICK pc \in {"idle", "ensure"} : call' = [call EXCEPT ![c].pc = pc]
    BY DEF Cache, Goto
  <1>1. Shape'
    BY <1>a, <1>b DEF conn, ident, Shape, CallRecs, ReqRecs
  <1>2. Identity'
    BY <1>a, <1>b DEF conn, ident, Identity
  <1>3. Locked'
    BY <1>a, <1>b DEF conn, ident, Shape, CallRecs, Locked
  <1>4. Sockets'
    BY <1>a, <1>b DEF conn, ident, Shape, Locked, Sockets
  <1>5. Awaited'
    BY <1>a, <1>b DEF conn, ident, Callers, Shape, CallRecs, ReqRecs, Awaited, PendingIsAwaited, Waits
  <1>6. PendingIsAwaited'
    BY <1>a, <1>b DEF conn, ident, Shape, CallRecs, ReqRecs, Awaited, PendingIsAwaited, Waits
  <1>7. Answers'
    BY <1>a, <1>b DEF conn, ident, Callers, Shape, CallRecs, ReqRecs, Awaited, PendingIsAwaited, Waits, Answers
  <1> QED
    BY <1>1, <1>2, <1>3, <1>4, <1>5, <1>6, <1>7

LEMMA ConnectedIInv == ASSUME IInv, NEW c \in Callers, Connected(c) PROVE IInv'
  <1> USE NoneAssumption DEF IInv
  <1>a. /\ call[c].pc = "hello" /\ fut[call[c].req] # "wait"
        /\ UNCHANGED <<ident, ws, sock, reading, pending, fut, req>>
    BY DEF Connected
  <1>b. PICK to \in CallRecs :
          /\ call' = [call EXCEPT ![c] = to]
          /\ \/ to.pc \in {"send", "ensure"} /\ connected' = TRUE /\ lock' = None
             \/ to.pc = "tear" /\ UNCHANGED <<connected, lock>>
    <2>1. CASE fut[call[c].req] = "ok"
      <3> DEFINE pc == IF call[c].again THEN "send" ELSE "ensure"
                 to == [call[c] EXCEPT !.pc = pc, !.again = TRUE]
      <3>1. pc \in {"send", "ensure"}
        OBVIOUS
      <3>2. to \in CallRecs /\ to.pc = pc
        <4>1. call[c] \in CallRecs
          BY DEF Shape
        <4>2. to.pc = pc
          BY <4>1 DEF CallRecs
        <4> HIDE DEF pc
        <4>3. to \in CallRecs
          BY <3>1, CallAt
        <4> QED
          BY <4>2, <4>3
      <3>3. call' = [call EXCEPT ![c] = to]
        BY <2>1 DEF Connected, Shape
      <3>4. connected' = TRUE /\ lock' = None
        BY <2>1 DEF Connected
      <3> HIDE DEF pc, to
      <3> QED
        BY <3>1, <3>2, <3>3, <3>4
    <2>2. CASE fut[call[c].req] # "ok"
      <3>1. [call[c] EXCEPT !.pc = "tear"] \in CallRecs
        BY DEF Shape, CallRecs
      <3> QED
        BY <2>2, <3>1 DEF Connected, Goto, Shape, CallRecs
    <2> QED
      BY <2>1, <2>2
  <1>1. Shape'
    BY <1>a, <1>b DEF ident, Shape, CallRecs, ReqRecs
  <1>2. Identity'
    BY <1>a, <1>b DEF ident, Identity
  <1>3. Locked'
    BY <1>a, <1>b DEF ident, Shape, CallRecs, Locked
  <1>4. Sockets'
    BY <1>a, <1>b DEF ident, Shape, Locked, Sockets
  <1>5. Awaited'
    BY <1>a, <1>b DEF ident, Callers, Shape, CallRecs, ReqRecs, Awaited, PendingIsAwaited, Waits
  <1>6. PendingIsAwaited'
    BY <1>a, <1>b DEF ident, Shape, CallRecs, ReqRecs, Awaited, PendingIsAwaited, Waits
  <1>7. Answers'
    BY <1>a, <1>b DEF ident, Callers, Shape, CallRecs, ReqRecs, Awaited, PendingIsAwaited, Waits, Answers
  <1> QED
    BY <1>1, <1>2, <1>3, <1>4, <1>5, <1>6, <1>7

LEMMA TimeoutIInv == ASSUME IInv, NEW c \in Callers, Timeout(c) PROVE IInv'
  <1> USE NoneAssumption DEF IInv
  <1>a. /\ call[c].pc \in {"hello", "wait"} /\ fut[call[c].req] = "wait"
        /\ pending' = pending \ {call[c].req}
        /\ UNCHANGED <<fut, ident, ws, sock, reading, connected, lock, req>>
    BY DEF Timeout
  <1>b. PICK to \in CallRecs :
          /\ call' = [call EXCEPT ![c] = to]
          /\ \/ to.pc = "tear" /\ call[c].pc = "hello"
             \/ to.pc = "back" /\ to.res = "error" /\ call[c].pc = "wait"
    <2>1. CASE call[c].pc = "hello"
      <3>1. [call[c] EXCEPT !.pc = "tear"] \in CallRecs
        BY DEF Shape, CallRecs
      <3> QED
        BY <2>1, <3>1 DEF Timeout, Goto, Shape, CallRecs
    <2>2. CASE call[c].pc = "wait"
      <3>1. [Idle EXCEPT !.pc = "back", !.res = "error"] \in CallRecs
        BY DEF Idle, CallRecs
      <3> QED
        BY <2>2, <3>1 DEF Timeout, End, Idle, Shape
    <2> QED
      BY <1>a, <2>1, <2>2
  <1>1. Shape'
    BY <1>a, <1>b DEF ident, Shape, CallRecs, ReqRecs
  <1>2. Identity'
    BY <1>a, <1>b DEF ident, Identity
  <1>3. Locked'
    BY <1>a, <1>b DEF ident, Shape, CallRecs, Locked
  <1>4. Sockets'
    BY <1>a, <1>b DEF ident, Shape, Locked, Sockets
  <1>5. Awaited'
    BY <1>a, <1>b DEF ident, Callers, Shape, CallRecs, ReqRecs, Awaited, PendingIsAwaited, Waits
  <1>6. PendingIsAwaited'
    BY <1>a, <1>b DEF ident, Shape, CallRecs, ReqRecs, Awaited, PendingIsAwaited, Waits
  <1>7. Answers'
    BY <1>a, <1>b DEF ident, Callers, Shape, CallRecs, ReqRecs, Awaited, PendingIsAwaited, Waits, Answers
  <1> QED
    BY <1>1, <1>2, <1>3, <1>4, <1>5, <1>6, <1>7

LEMMA AnsweredIInv == ASSUME IInv, NEW c \in Callers, Answered(c) PROVE IInv'
  <1> USE NoneAssumption DEF IInv
  <1>a. /\ call[c].pc = "wait" /\ fut[call[c].req] \in {"ok", "error"} /\ call[c].req \in Reqs
        /\ UNCHANGED <<ident, conn>>
    BY DEF Answered, Shape, Awaited
  <1>b. PICK to \in CallRecs :
          /\ call' = [call EXCEPT ![c] = to]
          /\ to.pc = "back" /\ to.req = call[c].req /\ to.res = fut[call[c].req]
    <2>1. [call[c] EXCEPT !.pc = "back", !.res = fut[call[c].req]] \in CallRecs
      BY <1>a DEF Shape, CallRecs
    <2> QED
      BY <2>1 DEF Answered, Shape, CallRecs
  <1>1. Shape'
    BY <1>a, <1>b DEF conn, ident, Shape, CallRecs, ReqRecs
  <1>2. Identity'
    BY <1>a, <1>b DEF conn, ident, Identity
  <1>3. Locked'
    BY <1>a, <1>b DEF conn, ident, Shape, CallRecs, Locked
  <1>4. Sockets'
    BY <1>a, <1>b DEF conn, ident, Shape, Locked, Sockets
  <1>5. Awaited'
    BY <1>a, <1>b DEF conn, ident, Callers, Shape, CallRecs, ReqRecs, Awaited, PendingIsAwaited, Waits
  <1>6. PendingIsAwaited'
    BY <1>a, <1>b DEF conn, ident, Shape, CallRecs, ReqRecs, Awaited, PendingIsAwaited, Waits
  <1>7. Answers'
    BY <1>a, <1>b DEF conn, ident, Callers, Shape, CallRecs, ReqRecs, Awaited, PendingIsAwaited, Waits, Answers
  <1> QED
    BY <1>1, <1>2, <1>3, <1>4, <1>5, <1>6, <1>7

LEMMA CrashIInv == ASSUME IInv, Crash PROVE IInv'
  <1> USE NoneAssumption DEF IInv
  <1>a. /\ boot' = "load" /\ key' = None
        /\ ws' = None /\ reading' = {} /\ connected' = FALSE /\ lock' = None
        /\ sock' = [s \in Socks |-> "none"] /\ pending' = {}
    BY DEF Crash
  <1>b. /\ \A c \in Callers : call'[c].pc = "idle" /\ call'[c] \in CallRecs
        /\ \A i \in Reqs : fut'[i] = "wait" /\ req'[i] = NoReq /\ NoReq \in ReqRecs
        /\ call' \in [Callers -> CallRecs] /\ fut' \in [Reqs -> {"wait"}]
        /\ req' \in [Reqs -> ReqRecs]
    BY DEF Crash, Idle, NoReq, CallRecs, ReqRecs
  <1>1. Shape'
    BY <1>a, <1>b DEF Shape, CallRecs, ReqRecs
  <1>2. Identity'
    BY <1>a, <1>b DEF Identity
  <1>3. Locked'
    BY <1>a, <1>b DEF Shape, CallRecs, Locked
  <1>4. Sockets'
    BY <1>a, <1>b DEF Shape, Locked, Sockets
  <1>5. Awaited'
    BY <1>a, <1>b DEF Callers, Shape, CallRecs, ReqRecs, Awaited, PendingIsAwaited, Waits
  <1>6. PendingIsAwaited'
    BY <1>a, <1>b DEF Shape, CallRecs, ReqRecs, Awaited, PendingIsAwaited, Waits
  <1>7. Answers'
    BY <1>a, <1>b DEF Callers, Shape, CallRecs, ReqRecs, Awaited, PendingIsAwaited, Waits, Answers
  <1> QED
    BY <1>1, <1>2, <1>3, <1>4, <1>5, <1>6, <1>7

-----------------------------------------------------------------------------
(* The identity, the connection, the gateway and the reader.               *)

LEMMA LoadIInv == ASSUME IInv, Load PROVE IInv'
  <1> USE NoneAssumption DEF IInv
  <1>1. Shape'
    BY DEF Load, conn, Shape, CallRecs, ReqRecs
  <1>2. Identity'
    BY DEF Load, conn, Identity
  <1>3. Locked'
    BY DEF Load, conn, Shape, CallRecs, Locked
  <1>4. Sockets'
    BY DEF Load, conn, Shape, Locked, Sockets
  <1>5. Awaited'
    BY DEF Load, conn, Callers, Shape, CallRecs, ReqRecs, Awaited, PendingIsAwaited, Waits
  <1>6. PendingIsAwaited'
    BY DEF Load, conn, Shape, CallRecs, ReqRecs, Awaited, PendingIsAwaited, Waits
  <1>7. Answers'
    BY DEF Load, conn, Callers, Shape, CallRecs, ReqRecs, Awaited, PendingIsAwaited, Waits, Answers
  <1> QED
    BY <1>1, <1>2, <1>3, <1>4, <1>5, <1>6, <1>7

LEMMA WriteIInv == ASSUME IInv, Write PROVE IInv'
  <1> USE NoneAssumption DEF IInv
  <1>1. Shape'
    BY DEF Write, conn, Shape, CallRecs, ReqRecs
  <1>2. Identity'
    BY DEF Write, conn, Identity
  <1>3. Locked'
    BY DEF Write, conn, Shape, CallRecs, Locked
  <1>4. Sockets'
    BY DEF Write, conn, Shape, Locked, Sockets
  <1>5. Awaited'
    BY DEF Write, conn, Callers, Shape, CallRecs, ReqRecs, Awaited, PendingIsAwaited, Waits
  <1>6. PendingIsAwaited'
    BY DEF Write, conn, Shape, CallRecs, ReqRecs, Awaited, PendingIsAwaited, Waits
  <1>7. Answers'
    BY DEF Write, conn, Callers, Shape, CallRecs, ReqRecs, Awaited, PendingIsAwaited, Waits, Answers
  <1> QED
    BY <1>1, <1>2, <1>3, <1>4, <1>5, <1>6, <1>7

LEMMA StartIInv == ASSUME IInv, NEW c \in Callers, Start(c) PROVE IInv'
  <1> USE NoneAssumption DEF IInv
  <1>1. Shape'
    BY DEF Start, Goto, conn, ident, Shape, CallRecs, ReqRecs
  <1>2. Identity'
    BY DEF Start, Goto, conn, ident, Identity
  <1>3. Locked'
    BY DEF Start, Goto, conn, ident, Shape, CallRecs, Locked
  <1>4. Sockets'
    BY DEF Start, Goto, conn, ident, Shape, Locked, Sockets
  <1>5. Awaited'
    BY DEF Start, Goto, conn, ident, Callers, Shape, CallRecs, ReqRecs, Awaited, PendingIsAwaited, Waits
  <1>6. PendingIsAwaited'
    BY DEF Start, Goto, conn, ident, Shape, CallRecs, ReqRecs, Awaited, PendingIsAwaited, Waits
  <1>7. Answers'
    BY DEF Start, Goto, conn, ident, Callers, Shape, CallRecs, ReqRecs, Awaited, PendingIsAwaited, Waits, Answers
  <1> QED
    BY <1>1, <1>2, <1>3, <1>4, <1>5, <1>6, <1>7

LEMMA OpenIInv == ASSUME IInv, NEW c \in Callers, Open(c) PROVE IInv'
  <1> USE NoneAssumption DEF IInv
  <1>a. PICK s \in Socks : ws' = s /\ sock' = [sock EXCEPT ![s] = "open"]
                           /\ reading' = reading \cup {s}
    BY DEF Open, NextSock
  <1>b. call' = [call EXCEPT ![c] = [call[c] EXCEPT !.pc = "nonce"]]
    BY DEF Open, Goto, Shape
  <1>c. /\ call' \in [Callers -> CallRecs]
        /\ sock' \in [Socks -> {"none", "open", "closed"}]
        /\ ws' \in Socks \cup {None} /\ reading' \subseteq Socks
    BY <1>a, <1>b, CallAt, CallMoves DEF Shape
  <1>d. UNCHANGED <<boot, lock, pending, fut, req>>
    BY DEF Open, ident
  <1>1. Shape'
    BY <1>c, <1>d DEF Shape
  <1>2. Identity'
    BY DEF Open, Goto, NextSock, ident, Identity
  <1>3. Locked'
    BY DEF Open, Goto, NextSock, ident, Shape, CallRecs, Locked
  <1>4. Sockets'
    BY DEF Open, Goto, NextSock, ident, Shape, Locked, Sockets
  <1>5. Awaited'
    BY DEF Open, Goto, NextSock, ident, Callers, Shape, CallRecs, ReqRecs, Awaited, PendingIsAwaited, Waits
  <1>6. PendingIsAwaited'
    BY DEF Open, Goto, NextSock, ident, Shape, CallRecs, ReqRecs, Awaited, PendingIsAwaited, Waits
  <1>7. Answers'
    BY DEF Open, Goto, NextSock, ident, Callers, Shape, CallRecs, ReqRecs, Awaited, PendingIsAwaited, Waits, Answers
  <1> QED
    BY <1>1, <1>2, <1>3, <1>4, <1>5, <1>6, <1>7

LEMMA OpenFailsIInv == ASSUME IInv, NEW c \in Callers, OpenFails(c) PROVE IInv'
  <1> USE NoneAssumption DEF IInv
  <1>1. Shape'
    BY DEF OpenFails, End, Idle, Unreachable, ident, Shape, CallRecs, ReqRecs
  <1>2. Identity'
    BY DEF OpenFails, End, Idle, Unreachable, ident, Identity
  <1>3. Locked'
    BY DEF OpenFails, End, Idle, Unreachable, ident, Shape, CallRecs, Locked
  <1>4. Sockets'
    BY DEF OpenFails, End, Idle, Unreachable, ident, Shape, Locked, Sockets
  <1>5. Awaited'
    BY DEF OpenFails, End, Idle, Unreachable, ident, Callers, Shape, CallRecs, ReqRecs, Awaited, PendingIsAwaited, Waits
  <1>6. PendingIsAwaited'
    BY DEF OpenFails, End, Idle, Unreachable, ident, Shape, CallRecs, ReqRecs, Awaited, PendingIsAwaited, Waits
  <1>7. Answers'
    BY DEF OpenFails, End, Idle, Unreachable, ident, Callers, Shape, CallRecs, ReqRecs, Awaited, PendingIsAwaited, Waits, Answers
  <1> QED
    BY <1>1, <1>2, <1>3, <1>4, <1>5, <1>6, <1>7

LEMMA ReturnIInv == ASSUME IInv, NEW c \in Callers, Return(c) PROVE IInv'
  <1> USE NoneAssumption DEF IInv
  <1>1. Shape'
    BY DEF Return, Idle, conn, ident, Shape, CallRecs, ReqRecs
  <1>2. Identity'
    BY DEF Return, Idle, conn, ident, Identity
  <1>3. Locked'
    BY DEF Return, Idle, conn, ident, Shape, CallRecs, Locked
  <1>4. Sockets'
    BY DEF Return, Idle, conn, ident, Shape, Locked, Sockets
  <1>5. Awaited'
    BY DEF Return, Idle, conn, ident, Callers, Shape, CallRecs, ReqRecs, Awaited, PendingIsAwaited, Waits
  <1>6. PendingIsAwaited'
    BY DEF Return, Idle, conn, ident, Shape, CallRecs, ReqRecs, Awaited, PendingIsAwaited, Waits
  <1>7. Answers'
    BY DEF Return, Idle, conn, ident, Callers, Shape, CallRecs, ReqRecs, Awaited, PendingIsAwaited, Waits, Answers
  <1> QED
    BY <1>1, <1>2, <1>3, <1>4, <1>5, <1>6, <1>7

LEMMA ExpireIInv == ASSUME IInv, Expire PROVE IInv'
  <1> USE NoneAssumption DEF IInv
  <1>1. Shape'
    BY DEF Expire, conn, ident, Shape, CallRecs, ReqRecs
  <1>2. Identity'
    BY DEF Expire, conn, ident, Identity
  <1>3. Locked'
    BY DEF Expire, conn, ident, Shape, CallRecs, Locked
  <1>4. Sockets'
    BY DEF Expire, conn, ident, Shape, Locked, Sockets
  <1>5. Awaited'
    BY DEF Expire, conn, ident, Callers, Shape, CallRecs, ReqRecs, Awaited, PendingIsAwaited, Waits
  <1>6. PendingIsAwaited'
    BY DEF Expire, conn, ident, Shape, CallRecs, ReqRecs, Awaited, PendingIsAwaited, Waits
  <1>7. Answers'
    BY DEF Expire, conn, ident, Callers, Shape, CallRecs, ReqRecs, Awaited, PendingIsAwaited, Waits, Answers
  <1> QED
    BY <1>1, <1>2, <1>3, <1>4, <1>5, <1>6, <1>7

LEMMA ChallengeIInv == ASSUME IInv, Challenge PROVE IInv'
  <1> USE NoneAssumption DEF IInv
  <1>1. Shape'
    BY DEF Challenge, ident, Shape, CallRecs, ReqRecs
  <1>2. Identity'
    BY DEF Challenge, ident, Identity
  <1>3. Locked'
    BY DEF Challenge, ident, Shape, CallRecs, Locked
  <1>4. Sockets'
    BY DEF Challenge, ident, Shape, Locked, Sockets
  <1>5. Awaited'
    BY DEF Challenge, ident, Callers, Shape, CallRecs, ReqRecs, Awaited, PendingIsAwaited, Waits
  <1>6. PendingIsAwaited'
    BY DEF Challenge, ident, Shape, CallRecs, ReqRecs, Awaited, PendingIsAwaited, Waits
  <1>7. Answers'
    BY DEF Challenge, ident, Callers, Shape, CallRecs, ReqRecs, Awaited, PendingIsAwaited, Waits, Answers
  <1> QED
    BY <1>1, <1>2, <1>3, <1>4, <1>5, <1>6, <1>7

LEMMA ServeIInv == ASSUME IInv, NEW i \in Reqs, Serve(i) PROVE IInv'
  <1> USE NoneAssumption DEF IInv
  <1>1. Shape'
    BY DEF Serve, ident, Shape, CallRecs, ReqRecs
  <1>2. Identity'
    BY DEF Serve, ident, Identity
  <1>3. Locked'
    BY DEF Serve, ident, Shape, CallRecs, Locked
  <1>4. Sockets'
    BY DEF Serve, ident, Shape, Locked, Sockets
  <1>5. Awaited'
    BY DEF Serve, ident, Callers, Shape, CallRecs, ReqRecs, Awaited, PendingIsAwaited, Waits
  <1>6. PendingIsAwaited'
    BY DEF Serve, ident, Shape, CallRecs, ReqRecs, Awaited, PendingIsAwaited, Waits
  <1>7. Answers'
    BY DEF Serve, ident, Callers, Shape, CallRecs, ReqRecs, Awaited, PendingIsAwaited, Waits, Answers
  <1> QED
    BY <1>1, <1>2, <1>3, <1>4, <1>5, <1>6, <1>7

LEMMA TearIInv == ASSUME IInv, NEW c \in Callers, Tear(c) PROVE IInv'
  <1> USE NoneAssumption DEF IInv
  <1>a. Unreachable(c) \in {"ok", "error", "raised", None}
    BY DEF Unreachable
  <1>b. call' = [call EXCEPT ![c] = [Idle EXCEPT !.pc = "back", !.res = Unreachable(c)]]
    BY DEF Tear, End
  <1>c. call' \in [Callers -> CallRecs]
    BY <1>a, <1>b, CallEnds, CallMoves
  <1>d. /\ fut' \in [Reqs -> {"wait", "ok", "error"}] /\ pending' \subseteq Reqs
        /\ sock' \in [Socks -> {"none", "open", "closed"}]
        /\ ws' = None /\ lock' = None /\ reading' \subseteq Socks
    BY DEF Tear, FailPending, Shape
  <1>e. UNCHANGED <<boot, req>>
    BY DEF Tear, ident
  <1>1. Shape'
    BY <1>c, <1>d, <1>e DEF Shape
  <1>2. Identity'
    BY DEF Tear, End, Idle, Unreachable, FailPending, ident, Identity
  <1>3. Locked'
    BY DEF Tear, End, Idle, Unreachable, FailPending, ident, Shape, CallRecs, Locked
  <1>4. Sockets'
    BY DEF Tear, End, Idle, Unreachable, FailPending, ident, Shape, Locked, Sockets
  <1>5. Awaited'
    BY DEF Tear, End, Idle, Unreachable, FailPending, ident, Callers, Shape, CallRecs, ReqRecs, Awaited, PendingIsAwaited, Waits
  <1>6. PendingIsAwaited'
    BY DEF Tear, End, Idle, Unreachable, FailPending, ident, Shape, CallRecs, ReqRecs, Awaited, PendingIsAwaited, Waits
  <1>7. Answers'
    BY DEF Tear, End, Idle, Unreachable, FailPending, ident, Callers, Shape, CallRecs, ReqRecs, Awaited, PendingIsAwaited, Waits, Answers
  <1> QED
    BY <1>1, <1>2, <1>3, <1>4, <1>5, <1>6, <1>7

LEMMA ReadIInv == ASSUME IInv, NEW i \in Reqs, Read(i) PROVE IInv'
  <1> USE NoneAssumption DEF IInv
  <1>a. req[i] \in ReqRecs
    BY DEF Shape
  <1>b. [req[i] EXCEPT !.read = TRUE] \in ReqRecs
    BY <1>a DEF ReqRecs
  <1>c. req' = [req EXCEPT ![i] = [req[i] EXCEPT !.read = TRUE]]
    BY DEF Read, Shape
  <1>d. req' \in [Reqs -> ReqRecs]
    BY <1>b, <1>c DEF Shape
  <1>e. fut' \in [Reqs -> {"wait", "ok", "error"}] /\ pending' \subseteq Reqs
    BY DEF Read, Shape
  <1>f. UNCHANGED <<boot, ws, sock, reading, lock, call>>
    BY DEF Read, ident
  <1>1. Shape'
    BY <1>d, <1>e, <1>f DEF Shape
  <1>2. Identity'
    BY DEF Read, ident, Identity
  <1>3. Locked'
    BY DEF Read, ident, Shape, CallRecs, Locked
  <1>4. Sockets'
    BY DEF Read, ident, Shape, Locked, Sockets
  <1>5. Awaited'
    BY DEF Read, ident, Callers, Shape, CallRecs, ReqRecs, Awaited, PendingIsAwaited, Waits
  <1>6. PendingIsAwaited'
    BY DEF Read, ident, Shape, CallRecs, ReqRecs, Awaited, PendingIsAwaited, Waits
  <1>7. Answers'
    BY DEF Read, ident, Callers, Shape, CallRecs, ReqRecs, Awaited, PendingIsAwaited, Waits, Answers
  <1> QED
    BY <1>1, <1>2, <1>3, <1>4, <1>5, <1>6, <1>7

LEMMA CloseIInv == ASSUME IInv, NEW s \in Socks, Close(s) PROVE IInv'
  <1> USE NoneAssumption DEF IInv
  <1>a. \A i \in Reqs : req[i] \in ReqRecs /\ [req[i] EXCEPT !.st = "lost"] \in ReqRecs
    BY DEF Shape, ReqRecs
  <1>b. req' \in [Reqs -> ReqRecs]
    BY <1>a DEF Close
  <1>c. sock' \in [Socks -> {"none", "open", "closed"}]
    BY DEF Close, Shape
  <1>d. UNCHANGED <<boot, ws, reading, lock, pending, fut, call>>
    BY DEF Close, ident
  <1>1. Shape'
    BY <1>b, <1>c, <1>d DEF Shape
  <1>2. Identity'
    BY DEF Close, ident, Identity
  <1>3. Locked'
    BY DEF Close, ident, Shape, CallRecs, Locked
  <1>4. Sockets'
    BY DEF Close, ident, Shape, Locked, Sockets
  <1>5. Awaited'
    BY DEF Close, ident, Callers, Shape, CallRecs, ReqRecs, Awaited, PendingIsAwaited, Waits
  <1>6. PendingIsAwaited'
    BY DEF Close, ident, Shape, CallRecs, ReqRecs, Awaited, PendingIsAwaited, Waits
  <1>7. Answers'
    BY DEF Close, ident, Callers, Shape, CallRecs, ReqRecs, Awaited, PendingIsAwaited, Waits, Answers
  <1> QED
    BY <1>1, <1>2, <1>3, <1>4, <1>5, <1>6, <1>7

LEMMA ReaderEndsIInv == ASSUME IInv, NEW s \in Socks, ReaderEnds(s) PROVE IInv'
  <1> USE NoneAssumption DEF IInv
  <1>1. Shape'
    BY DEF ReaderEnds, FailPending, ident, Shape, CallRecs, ReqRecs
  <1>2. Identity'
    BY DEF ReaderEnds, FailPending, ident, Identity
  <1>3. Locked'
    BY DEF ReaderEnds, FailPending, ident, Shape, CallRecs, Locked
  <1>4. Sockets'
    BY DEF ReaderEnds, FailPending, ident, Shape, Locked, Sockets
  <1>5. Awaited'
    BY DEF ReaderEnds, FailPending, ident, Callers, Shape, CallRecs, ReqRecs, Awaited, PendingIsAwaited, Waits
  <1>6. PendingIsAwaited'
    BY DEF ReaderEnds, FailPending, ident, Shape, CallRecs, ReqRecs, Awaited, PendingIsAwaited, Waits
  <1>7. Answers'
    BY DEF ReaderEnds, FailPending, ident, Callers, Shape, CallRecs, ReqRecs, Awaited, PendingIsAwaited, Waits, Answers
  <1> QED
    BY <1>1, <1>2, <1>3, <1>4, <1>5, <1>6, <1>7


-----------------------------------------------------------------------------
(* The requests.                                                           *)

\* A request gets an index that no one waits for.
LEMMA Unawaited ==
    ASSUME IInv, NEW i \in Free
    PROVE  /\ i \in Reqs /\ i \notin pending /\ fut[i] = "wait"
           /\ \A c \in Callers : ~Waits(c, i)
           /\ \A c \in Replies : call[c].pc = "back" /\ call[c].res = "ok" => call[c].req # i
  BY DEF IInv, Free, Awaited, PendingIsAwaited, Waits, Answers

\* _rpc up to its wait, by a caller that waits for nothing yet.
LEMMA Requested ==
    ASSUME IInv, NEW c \in Callers, NEW kind \in {"connect", "send", "skills"},
           NEW pc \in {"hello", "wait"}, Request(c, kind, pc),
           call[c].pc \in {"ensure", "lock", "nonce", "send"},
           pc = "hello" <=> call[c].pc = "nonce",
           c \in Replies /\ pc = "wait" => kind = "send",
           UNCHANGED <<ident, ws, sock, reading, connected, lock>>
    PROVE  IInv'
  <1> USE NoneAssumption DEF IInv
  <1>1. CASE ws # None /\ sock[ws] = "open"
    <2>1. PICK i \in Free :
            /\ req' = [req EXCEPT ![i] = [by |-> c, sock |-> ws, kind |-> kind,
                                          st |-> "sent", read |-> FALSE]]
            /\ pending' = pending \cup {i}
            /\ call' = [call EXCEPT ![c].pc = pc, ![c].req = i]
      BY <1>1 DEF Request
    <2>2. /\ i \in Reqs /\ i \notin pending /\ fut[i] = "wait"
          /\ \A d \in Callers : ~Waits(d, i)
          /\ \A d \in Replies : call[d].pc = "back" /\ call[d].res = "ok" => call[d].req # i
      BY <2>1, Unawaited
    <2>3. fut' = fut /\ UNCHANGED <<boot, file, key, ws, sock, reading, connected, lock>>
      BY DEF Request, ident
    <2>4. PICK new \in ReqRecs : req' = [req EXCEPT ![i] = new]
                               /\ new.by = c /\ new.kind = kind /\ new.st = "sent"
      <3>1. [by |-> c, sock |-> ws, kind |-> kind, st |-> "sent", read |-> FALSE] \in ReqRecs
        BY <1>1 DEF ReqRecs, Shape, Socks
      <3> QED
        BY <2>1, <3>1
    <2>5. PICK to \in CallRecs : call' = [call EXCEPT ![c] = to]
                               /\ to.pc = pc /\ to.req = i
      <3>1. [call[c] EXCEPT !.pc = pc, !.req = i] \in CallRecs
        <4>1. i \in Nat
          BY <2>2 DEF Reqs
        <4> QED
          BY <4>1 DEF Shape, CallRecs
      <3> QED
        BY <2>1, <3>1 DEF Shape, CallRecs
    <2>6. Shape' /\ Identity'
      <3>1. call' \in [Callers -> CallRecs] /\ req' \in [Reqs -> ReqRecs]
        BY <2>4, <2>5 DEF Shape
      <3>2. pending' \subseteq Reqs
        BY <2>1, <2>2 DEF Shape
      <3> QED
        BY <2>3, <3>1, <3>2 DEF Shape, Identity
    <2>7. Locked' /\ Sockets'
      BY <2>3, <2>5 DEF Shape, Locked, Sockets
    <2>8. Awaited'
      BY <2>2, <2>3, <2>4, <2>5 DEF Callers, Shape, Awaited, Waits
    <2>9. PendingIsAwaited'
      <3>1. \A d \in Callers, j \in Reqs : Waits(d, j)' <=> (Waits(d, j) \/ (d = c /\ j = i))
        BY <2>2, <2>5 DEF Shape, Waits
      <3> QED
        BY <2>1, <2>2, <2>3, <3>1 DEF PendingIsAwaited
    <2>10. Answers'
      BY <2>2, <2>3, <2>4, <2>5 DEF Callers, Shape, Answers
    <2> QED
      BY <2>6, <2>7, <2>8, <2>9, <2>10
  <1>2. CASE ~(ws # None /\ sock[ws] = "open")
    <2>1. UNCHANGED <<boot, file, key, ws, sock, reading, connected, lock, fut, req, pending>>
      BY <1>2 DEF Request, ident
    <2>2. PICK to \in CallRecs :
            /\ call' = [call EXCEPT ![c] = to]
            /\ (pc = "hello" /\ to.pc = "tear") \/ (pc = "wait" /\ to.pc = "back" /\ to.res = "error")
      <3>1. [call[c] EXCEPT !.pc = "tear"] \in CallRecs
            /\ [Idle EXCEPT !.pc = "back", !.res = "error"] \in CallRecs
        BY DEF Shape, CallRecs, Idle
      <3> QED
        BY <1>2, <3>1 DEF Request, Goto, End, Idle, Shape, CallRecs
    <2>3. Shape' /\ Identity'
      BY <2>1, <2>2 DEF Shape, Identity
    <2>4. Locked' /\ Sockets'
      BY <2>1, <2>2 DEF Shape, Locked, Sockets
    <2>5. Awaited'
      BY <2>1, <2>2 DEF Callers, Shape, Awaited
    <2>6. PendingIsAwaited'
      BY <2>1, <2>2 DEF Shape, PendingIsAwaited, Waits
    <2>7. Answers'
      BY <2>1, <2>2 DEF Callers, Shape, Answers
    <2> QED
      BY <2>3, <2>4, <2>5, <2>6, <2>7
  <1> QED
    BY <1>1, <1>2

\* A caller that goes on without a request, and without the lock or with it.
LEMMA Moved ==
    ASSUME IInv, NEW c \in Callers,
           call[c].pc \in {"ensure", "lock", "nonce"}, NEW pc \in {"lock", "open", "tear"},
           call' = [call EXCEPT ![c].pc = pc],
           lock' = IF pc = "lock" THEN lock ELSE c,
           pc = "lock" => call[c].pc = "ensure", pc = "tear" => call[c].pc = "nonce",
           pc = "open" => lock = None /\ ~Up,
           UNCHANGED <<ident, ws, sock, reading, connected, pending, fut, req>>
    PROVE  IInv'
  <1> USE NoneAssumption DEF IInv
  <1>1. UNCHANGED <<boot, file, key, ws, sock, reading, connected, fut, req, pending>>
    BY DEF ident
  <1>2. Shape' /\ Identity'
    BY <1>1 DEF Shape, CallRecs, Identity
  <1>3. Locked'
    BY <1>1 DEF Shape, CallRecs, Locked
  <1>4. pc = "open" => \A s \in Socks : sock[s] # "open"
    BY DEF Up, Shape, Sockets
  <1>5. Sockets'
    BY <1>1, <1>4 DEF Shape, CallRecs, Locked, Sockets
  <1>6. Awaited'
    BY <1>1 DEF Callers, Shape, CallRecs, Awaited
  <1>7. PendingIsAwaited'
    BY <1>1 DEF Shape, CallRecs, PendingIsAwaited, Waits
  <1>8. Answers'
    BY <1>1 DEF Callers, Shape, CallRecs, Answers
  <1> QED
    BY <1>2, <1>3, <1>5, <1>6, <1>7, <1>8

LEMMA EnsureIInv == ASSUME IInv, NEW c \in Callers, Ensure(c) PROVE IInv'
  <1>1. CASE Up
    BY <1>1, Requested DEF Ensure, KindOf
  <1>2. CASE ~Up
    BY <1>2, Moved DEF Ensure, Goto
  <1> QED
    BY <1>1, <1>2

LEMMA LockIInv == ASSUME IInv, NEW c \in Callers, Lock(c) PROVE IInv'
  <1>1. CASE Up
    BY <1>1, Requested DEF Lock, KindOf
  <1>2. CASE ~Up
    BY <1>2, Moved DEF Lock, Goto
  <1> QED
    BY <1>1, <1>2

LEMMA HelloIInv == ASSUME IInv, NEW c \in Callers, Hello(c) PROVE IInv'
  <1>1. CASE nonce = "set" /\ Request(c, "connect", "hello")
    BY <1>1, Requested DEF Hello
  <1>2. CASE Goto(c, "tear") /\ UNCHANGED <<req, pending, fut>>
    <2>1. lock = c
      BY DEF IInv, Locked, Hello
    <2> QED
      BY <1>2, <2>1, Moved DEF Hello, Goto
  <1> QED
    BY <1>1, <1>2 DEF Hello

LEMMA SendIInv == ASSUME IInv, NEW c \in Callers, Send(c) PROVE IInv'
  BY Requested DEF Send, KindOf

-----------------------------------------------------------------------------

LEMMA NextIInv == ASSUME IInv, [Next]_vars PROVE IInv'
  <1>1. CASE UNCHANGED vars
    BY <1>1 DEF vars, conn, ident, IInv, Shape, CallRecs, ReqRecs, Identity, Locked, Sockets,
      Awaited, PendingIsAwaited, Waits, Answers
  <1>2. CASE Load \/ Write \/ Crash \/ Expire \/ Challenge
    BY <1>2, LoadIInv, WriteIInv, CrashIInv, ExpireIInv, ChallengeIInv
  <1>3. ASSUME NEW c \in Callers, Start(c) \/ CallerStep(c) PROVE IInv'
    BY <1>3, StartIInv, CacheIInv, EnsureIInv, LockIInv, OpenIInv, OpenFailsIInv, HelloIInv,
      ConnectedIInv, SendIInv, TearIInv, TimeoutIInv, AnsweredIInv, ReturnIInv DEF CallerStep
  <1>4. ASSUME NEW i \in Reqs, Serve(i) \/ Read(i) PROVE IInv'
    BY <1>4, ServeIInv, ReadIInv
  <1>5. ASSUME NEW s \in Socks, Close(s) \/ ReaderEnds(s) PROVE IInv'
    BY <1>5, CloseIInv, ReaderEndsIInv
  <1> QED
    BY <1>1, <1>2, <1>3, <1>4, <1>5 DEF Next

LEMMA Invariant == Spec => []IInv
  BY InitIInv, NextIInv, PTL DEF Spec

\* _pending holds the requests that a caller still waits for, no other and all of them,
\* whatever times out, fails, reconnects or answers late (_rpc, _fail_pending).
THEOREM PendingHolds == Spec => []PendingIsAwaited
  <1>1. IInv => PendingIsAwaited
    BY DEF IInv
  <1> QED BY <1>1, Invariant, PTL

\* Whatever ends a connection, and however many callers find it down together, one
\* socket is open at most (_ensure_connected, _reader_loop).
THEOREM OneSocketHolds == Spec => []OneSocket
  <1>1. ASSUME IInv PROVE OneSocket
    <2> DEFINE up == {s \in Socks : sock[s] = "open"}
    <2>1. CASE up = {}
      BY <2>1, FS_EmptySet DEF OneSocket
    <2>2. CASE up # {}
      <3>1. up = {ws}
        BY <1>1, <2>2 DEF IInv, Sockets
      <3>2. Cardinality({ws}) = 1
        BY FS_Singleton
      <3> QED
        BY <3>1, <3>2 DEF OneSocket
    <2> QED
      BY <2>1, <2>2
  <1> QED BY <1>1, Invariant, PTL

\* A device is told ok only for the very message that the gateway sent on, also when
\* answers come out of order, late, or from an earlier socket (handle_channel_reply).
THEOREM OkHolds == Spec => []OkWasSent
  <1>1. IInv => OkWasSent
    BY DEF IInv, Answers, OkWasSent
  <1> QED BY <1>1, Invariant, PTL

\* No step takes away the key that the gateway has paired, a crash between the
\* reading of the file and its writing included, and the key that signs is the
\* file's (load_or_create_identity).
THEOREM IdentityHolds == Spec => IdentityKept
  <1> DEFINE Kept == /\ boot = "up" => file.key = key
                     /\ file.key # None => file'.key = file.key
  <1>1. IInv /\ [Next]_vars => [Kept]_vars
    <2> SUFFICES ASSUME IInv, Next PROVE Kept
      OBVIOUS
    <2>1. boot = "up" => file.key = key
      BY DEF IInv, Identity
    <2>2. file.key # None => file'.key = file.key
      <3>1. CASE Write
        BY <3>1 DEF Write, IInv, Identity
      <3>2. CASE ~Write
        <4>1. UNCHANGED file
          BY <3>2 DEF Next, CallerStep, Load, Crash, Expire, Challenge, Start, Cache, Ensure, Lock,
            Open, OpenFails, Hello, Connected, Send, Tear, Timeout, Answered, Return, Serve, Read,
            Close, ReaderEnds, ident
        <4> QED BY <4>1
      <3> QED BY <3>1, <3>2
    <2> QED BY <2>1, <2>2
  <1>2. []IInv /\ [][Next]_vars => [][Kept]_vars
    BY <1>1, PTL
  <1> QED BY <1>2, Invariant, PTL DEF Spec, IdentityKept
=============================================================================

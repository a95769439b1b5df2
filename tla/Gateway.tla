------------------------------ MODULE Gateway -------------------------------
(***************************************************************************)
(* The connection to the agent gateway: one WebSocket that channel_reply   *)
(* handlers and the skills catalogue share, opened when a call needs it,   *)
(* one request in flight for each caller, one reader task, and the device  *)
(* identity that the handshake signs with.                                 *)
(*                                                                         *)
(* A socket closes when the client notices it; what was still on the way   *)
(* is lost then.  Its reader task ends some turns of the loop later.       *)
(***************************************************************************)
EXTENDS Integers, FiniteSets, FiniteSetsExt

CONSTANTS
    Replies,    \* connections that send channel_reply
    Pollers,    \* GET /api/v1/agent_skills
    MaxCalls,   \* bound: calls
    MaxSocks,   \* bound: sockets opened
    MaxReqs,    \* bound: requests
    MaxCrashes, \* bound: crashes
    None

Callers == Replies \cup Pollers
Socks == 1..MaxSocks
Reqs == 1..MaxReqs

ASSUME NoneAssumption == None \notin Callers \cup Socks
ASSUME BoundsAssumption == {MaxCalls, MaxSocks, MaxReqs, MaxCrashes} \subseteq Nat

VARIABLES
    boot,      \* how far load_or_create_identity has come
    file,      \* the identity file: the key in it, and whether its id fits
    key,       \* DeviceIdentity in use
    ws,        \* _ws
    sock,      \* the sockets
    reading,   \* the sockets with a reader task
    connected, \* _connected
    lock,      \* _connect_lock
    nonce,     \* _connect_challenge_nonce
    pending,   \* the keys of _pending
    fut,       \* the futures of _pending's entries
    req,       \* the requests sent, with what the gateway did about each
    call,      \* the callers' coroutines
    cache,     \* _gateway_cache["skills"]
    cacheLock, \* _gateway_cache_lock
    calls, crashes

conn == <<ws, sock, reading, connected, lock, nonce, pending, fut, req>>
ident == <<boot, file, key>>
vars == <<ident, conn, call, cache, cacheLock, calls, crashes>>

NoReq == [by |-> None, sock |-> 0, kind |-> "none", st |-> "none", read |-> FALSE]
Idle == [pc |-> "idle", req |-> 0, again |-> FALSE, res |-> None]
Keys == 1..(MaxCrashes + 2)

TypeOK ==
    /\ boot \in {"load", "write", "up"}
    /\ file \in [key : Keys \cup {None}, fits : BOOLEAN]
    /\ key \in Keys \cup {None}
    /\ ws \in Socks \cup {None} /\ sock \in [Socks -> {"none", "open", "closed"}]
    /\ reading \subseteq Socks /\ connected \in BOOLEAN
    /\ lock \in Callers \cup {None}
    /\ nonce \in {"none", "wait", "set", "over"}
    /\ pending \subseteq Reqs /\ fut \in [Reqs -> {"wait", "ok", "error"}]
    /\ req \in [Reqs -> [by : Callers \cup {None}, sock : Socks \cup {0},
                        kind : {"none", "connect", "send", "skills"},
                        st : {"none", "sent", "done", "refused", "lost"}, read : BOOLEAN]]
    /\ call \in [Callers -> [pc : {"idle", "cache", "ensure", "lock", "open", "nonce",
                                  "hello", "send", "tear", "wait", "back"},
                            req : Reqs \cup {0}, again : BOOLEAN,
                            res : {"ok", "error", "raised", None}]]
    /\ cache \in {"fresh", "stale", None} /\ cacheLock \in Pollers \cup {None}
    /\ calls \in 0..MaxCalls /\ crashes \in 0..MaxCrashes

\* A file written by an earlier version may hold an id that is not the key's.
Init ==
    /\ boot = "load" /\ key = None
    /\ file \in {[key |-> None, fits |-> TRUE], [key |-> 1, fits |-> FALSE]}
    /\ ws = None /\ sock = [s \in Socks |-> "none"] /\ reading = {}
    /\ connected = FALSE /\ lock = None /\ nonce = "none"
    /\ pending = {} /\ fut = [i \in Reqs |-> "wait"] /\ req = [i \in Reqs |-> NoReq]
    /\ call = [c \in Callers |-> Idle]
    /\ cache = None /\ cacheLock = None
    /\ calls = 0 /\ crashes = 0

Up == connected /\ ws # None /\ sock[ws] = "open"
Goto(c, pc) == call' = [call EXCEPT ![c].pc = pc]
End(c, res) == call' = [call EXCEPT ![c] = [Idle EXCEPT !.pc = "back", !.res = res]]
Free == {i \in Reqs : req[i].kind = "none"}
NextSock == {s \in Socks : sock[s] = "none" /\ \A o \in 1..(s - 1) : sock[o] # "none"}
KindOf(c) == IF c \in Replies THEN "send" ELSE "skills"

\* _fail_pending
FailPending ==
    /\ fut' = [i \in Reqs |-> IF i \in pending THEN "error" ELSE fut[i]]
    /\ pending' = {}

-----------------------------------------------------------------------------
(* The identity.                                                           *)


\* Mutant: the file is rewritten in place: a crash leaves no key in it.
LoadInPlace ==
    /\ boot = "load"
    /\ key' = IF file.key # None THEN file.key ELSE crashes + 2
    /\ boot' = IF file.key # None /\ file.fits THEN "up" ELSE "write"
    /\ file' = IF file.fits THEN file ELSE [file EXCEPT !.key = None]
    /\ UNCHANGED <<conn, call, cache, cacheLock, calls, crashes>>

\* load_or_create_identity up to the write: the file's key, or a new one.
Load ==
    /\ boot = "load"
    /\ key' = IF file.key # None THEN file.key ELSE crashes + 2
    /\ boot' = IF file.key # None /\ file.fits THEN "up" ELSE "write"
    /\ UNCHANGED <<file, conn, call, cache, cacheLock, calls, crashes>>

\* _write_identity: a temporary file, then os.replace.
Write ==
    /\ boot = "write" /\ boot' = "up"
    /\ file' = [key |-> key, fits |-> TRUE]
    /\ UNCHANGED <<key, conn, call, cache, cacheLock, calls, crashes>>

-----------------------------------------------------------------------------
(* The callers.                                                            *)

\* handle_channel_reply; get_skills waits for the cache's lock first.
Start(c) ==
    /\ boot = "up" /\ call[c].pc = "idle" /\ calls < MaxCalls
    /\ calls' = calls + 1
    /\ Goto(c, IF c \in Pollers THEN "cache" ELSE "ensure")
    /\ UNCHANGED <<ident, conn, cache, cacheLock, crashes>>

\* _fetch_gateway_skills under the lock: a fresh list is returned as it is.
Cache(c) ==
    /\ call[c].pc = "cache" /\ cacheLock = None
    /\ IF cache = "fresh"
       THEN Goto(c, "idle") /\ UNCHANGED cacheLock
       ELSE cacheLock' = c /\ Goto(c, "ensure")
    /\ UNCHANGED <<ident, conn, cache, calls, crashes>>

\* _rpc up to the wait for its future.
Request(c, kind, pc) ==
    /\ IF ws # None /\ sock[ws] = "open"
       THEN \E i \in Free : i = Min(Free)
            /\ req' = [req EXCEPT ![i] = [by |-> c, sock |-> ws, kind |-> kind,
                                         st |-> "sent", read |-> FALSE]]
            /\ pending' = pending \cup {i}
            /\ call' = [call EXCEPT ![c].pc = pc, ![c].req = i]
       ELSE /\ IF pc = "hello" THEN Goto(c, "tear") ELSE End(c, "error")
            /\ UNCHANGED <<req, pending>>
    /\ UNCHANGED fut

\* _ensure_connected when the connection is up: then the request.
Ensure(c) ==
    /\ call[c].pc = "ensure"
    /\ IF Up THEN Request(c, KindOf(c), "wait")
       ELSE Goto(c, "lock") /\ UNCHANGED <<req, pending, fut>>
    /\ UNCHANGED <<ident, ws, sock, reading, connected, lock, nonce, cache, cacheLock,
                   calls, crashes>>

\* Mutant: the connection is not looked at again under the lock.
LockBlind(c) ==
    /\ call[c].pc = "lock" /\ lock = None
    /\ lock' = c /\ nonce' = "wait" /\ Goto(c, "open")
    /\ UNCHANGED <<req, pending, fut, ident, ws, sock, reading, connected, cache,
                   cacheLock, calls, crashes>>

\* The same under _connect_lock; _connect_locked makes a new challenge future.
Lock(c) ==
    /\ call[c].pc = "lock" /\ lock = None
    /\ IF Up THEN Request(c, KindOf(c), "wait") /\ UNCHANGED <<lock, nonce>>
       ELSE /\ lock' = c /\ nonce' = "wait" /\ Goto(c, "open")
            /\ UNCHANGED <<req, pending, fut>>
    /\ UNCHANGED <<ident, ws, sock, reading, connected, cache, cacheLock, calls, crashes>>

\* ws_connect returns, and the reader task is created.  An old reader whose
\* socket is closed has nothing left to wait for, so it ended during ws_connect.
Open(c) ==
    /\ call[c].pc = "open" /\ \A s \in reading : sock[s] = "open"
    /\ \E s \in NextSock :
        /\ ws' = s /\ sock' = [sock EXCEPT ![s] = "open"]
        /\ reading' = reading \cup {s}
    /\ Goto(c, "nonce")
    /\ UNCHANGED <<ident, connected, lock, nonce, pending, fut, req, cache, cacheLock,
                   calls, crashes>>

\* How a failed _ensure_connected ends: send_reply catches the first call's
\* exception, and not that of _rpc's own.
Unreachable(c) == IF call[c].again THEN "raised" ELSE "error"

OpenFails(c) ==
    /\ call[c].pc = "open"
    /\ lock' = None /\ End(c, Unreachable(c))
    /\ UNCHANGED <<ident, ws, sock, reading, connected, nonce, pending, fut, req, cache,
                   cacheLock, calls, crashes>>

\* _handshake with the nonce, or without one in time.
Hello(c) ==
    /\ call[c].pc = "nonce"
    /\ \/ nonce = "set" /\ Request(c, "connect", "hello") /\ UNCHANGED nonce
       \/ /\ nonce = "wait" /\ nonce' = "over" /\ Goto(c, "tear")
          /\ UNCHANGED <<req, pending, fut>>
    /\ UNCHANGED <<ident, ws, sock, reading, connected, lock, cache, cacheLock, calls,
                   crashes>>

\* The answer to connect.  Between it and this step the reader may have ended.
Connected(c) ==
    /\ call[c].pc = "hello" /\ fut[call[c].req] # "wait"
    /\ IF fut[call[c].req] = "ok"
       THEN /\ connected' = TRUE /\ lock' = None
            /\ call' = [call EXCEPT ![c].pc = IF call[c].again THEN "send" ELSE "ensure",
                                   ![c].again = TRUE]
       ELSE Goto(c, "tear") /\ UNCHANGED <<connected, lock>>
    /\ UNCHANGED <<ident, ws, sock, reading, nonce, pending, fut, req, cache, cacheLock,
                   calls, crashes>>

\* _rpc after the connection that its own _ensure_connected made.
Send(c) ==
    /\ call[c].pc = "send" /\ Request(c, KindOf(c), "wait")
    /\ UNCHANGED <<ident, ws, sock, reading, connected, lock, nonce, cache, cacheLock,
                   calls, crashes>>

\* _teardown_after_failure; the lock is released on the way out.
Tear(c) ==
    /\ call[c].pc = "tear"
    /\ reading' = reading \ {ws} /\ ws' = None
    /\ sock' = [s \in Socks |-> IF s = ws THEN "closed" ELSE sock[s]]
    /\ connected' = FALSE /\ FailPending /\ lock' = None
    /\ End(c, Unreachable(c))
    /\ UNCHANGED <<ident, nonce, req, cache, cacheLock, calls, crashes>>

\* Mutant: an entry stays in _pending when its wait times out.
TimeoutKeeps(c) ==
    /\ call[c].pc \in {"hello", "wait"} /\ fut[call[c].req] = "wait"
    /\ UNCHANGED pending
    /\ IF call[c].pc = "hello" THEN Goto(c, "tear") ELSE End(c, "error")
    /\ UNCHANGED <<fut, ident, ws, sock, reading, connected, lock, nonce, req, cache,
                   cacheLock, calls, crashes>>

\* Mutant: a request is awaited without a limit.
TimeoutNever(c) == call[c].pc = "hello" /\ TimeoutKeeps(c)

\* _rpc's wait_for times out.
Timeout(c) ==
    /\ call[c].pc \in {"hello", "wait"} /\ fut[call[c].req] = "wait"
    /\ pending' = pending \ {call[c].req}
    /\ IF call[c].pc = "hello" THEN Goto(c, "tear") ELSE End(c, "error")
    /\ UNCHANGED <<fut, ident, ws, sock, reading, connected, lock, nonce, req, cache,
                   cacheLock, calls, crashes>>

\* _rpc returns its future's result.
Answered(c) ==
    /\ call[c].pc = "wait" /\ fut[call[c].req] # "wait"
    /\ call' = [call EXCEPT ![c].pc = "back", ![c].res = fut[call[c].req]]
    /\ UNCHANGED <<ident, conn, cache, cacheLock, calls, crashes>>

\* The device gets its channel_reply_ack; _fetch_gateway_skills keeps a good
\* list, drops the old one after a failure, and releases its lock.
Return(c) ==
    /\ call[c].pc = "back"
    /\ call' = [call EXCEPT ![c] = Idle]
    /\ IF c \in Pollers
       THEN cache' = (IF call[c].res = "ok" THEN "fresh" ELSE None) /\ cacheLock' = None
       ELSE UNCHANGED <<cache, cacheLock>>
    /\ UNCHANGED <<ident, conn, calls, crashes>>

\* _GATEWAY_CACHE_TTL_S after the fetch began.
Expire ==
    /\ cache = "fresh" /\ cache' = "stale"
    /\ UNCHANGED <<ident, conn, call, cacheLock, calls, crashes>>

-----------------------------------------------------------------------------
(* The gateway and the reader task.                                        *)

\* connect.challenge arrives: _handle_text_frame.
Challenge ==
    /\ nonce = "wait" /\ ws \in reading /\ sock[ws] = "open"
    /\ \E c \in Callers : call[c].pc = "nonce"
    /\ nonce' = "set"
    /\ UNCHANGED <<ident, ws, sock, reading, connected, lock, pending, fut, req, call,
                   cache, cacheLock, calls, crashes>>

\* The gateway does, or refuses, what a request asks.
Serve(i) ==
    /\ req[i].st = "sent" /\ sock[req[i].sock] = "open"
    /\ \E st \in {"done", "refused"} : req' = [req EXCEPT ![i].st = st]
    /\ UNCHANGED <<ident, ws, sock, reading, connected, lock, nonce, pending, fut, call,
                   cache, cacheLock, calls, crashes>>

\* Mutant: the answer goes to the oldest entry, as if answers came in order.
ReadInOrder(i) ==
    /\ req[i].st \in {"done", "refused"} /\ ~req[i].read
    /\ req[i].sock \in reading /\ sock[req[i].sock] = "open"
    /\ req' = [req EXCEPT ![i].read = TRUE]
    /\ IF pending # {}
       THEN /\ pending' = pending \ {Min(pending)}
            /\ fut' = [fut EXCEPT ![Min(pending)] =
                         IF req[i].st = "done" THEN "ok" ELSE "error"]
       ELSE UNCHANGED <<pending, fut>>
    /\ UNCHANGED <<ident, ws, sock, reading, connected, lock, nonce, call, cache,
                   cacheLock, calls, crashes>>

\* The reader reads a res frame: _dispatch_response.
Read(i) ==
    /\ req[i].st \in {"done", "refused"} /\ ~req[i].read
    /\ req[i].sock \in reading /\ sock[req[i].sock] = "open"
    /\ req' = [req EXCEPT ![i].read = TRUE]
    /\ pending' = pending \ {i}
    /\ fut' = IF i \in pending
              THEN [fut EXCEPT ![i] = IF req[i].st = "done" THEN "ok" ELSE "error"]
              ELSE fut
    /\ UNCHANGED <<ident, ws, sock, reading, connected, lock, nonce, call, cache,
                   cacheLock, calls, crashes>>

\* The client notices that a socket is gone, and all that was on the way.
Close(s) ==
    /\ sock[s] = "open" /\ sock' = [sock EXCEPT ![s] = "closed"]
    /\ req' = [i \in Reqs |-> IF req[i].sock = s /\ ~req[i].read
                              THEN [req[i] EXCEPT !.st = "lost"] ELSE req[i]]
    /\ UNCHANGED <<ident, ws, reading, connected, lock, nonce, pending, fut, call,
                   cache, cacheLock, calls, crashes>>

\* The finally of _reader_loop.
ReaderEnds(s) ==
    /\ s \in reading /\ sock[s] = "closed"
    /\ reading' = reading \ {s} /\ connected' = FALSE /\ FailPending
    /\ UNCHANGED <<ident, ws, sock, lock, nonce, req, call, cache, cacheLock, calls,
                   crashes>>

\* The process dies and starts again; the gateway closes its sockets.
Crash ==
    /\ crashes < MaxCrashes /\ crashes' = crashes + 1
    /\ boot' = "load" /\ key' = None
    /\ ws' = None /\ reading' = {} /\ connected' = FALSE /\ lock' = None
    /\ sock' = [s \in Socks |-> "none"] /\ req' = [i \in Reqs |-> NoReq]
    /\ nonce' = "none" /\ pending' = {} /\ fut' = [i \in Reqs |-> "wait"]
    /\ call' = [c \in Callers |-> Idle] /\ cache' = None /\ cacheLock' = None
    /\ UNCHANGED <<file, calls>>

-----------------------------------------------------------------------------
CallerStep(c) ==
    \/ c \in Pollers /\ Cache(c)
    \/ Ensure(c) \/ Lock(c) \/ Open(c) \/ OpenFails(c) \/ Hello(c) \/ Connected(c)
    \/ Send(c) \/ Tear(c) \/ Timeout(c) \/ Answered(c) \/ Return(c)

Next ==
    \/ Load \/ Write \/ Crash \/ Expire \/ Challenge
    \/ \E c \in Callers : Start(c) \/ CallerStep(c)
    \/ \E i \in Reqs : Serve(i) \/ Read(i)
    \/ \E s \in Socks : Close(s) \/ ReaderEnds(s)

Spec == Init /\ [][Next]_vars

\* Timers fire and a ready coroutine runs; the gateway and the network owe nothing.
FairSpec == Spec /\ WF_vars(Load) /\ WF_vars(Write)
                 /\ \A c \in Callers : WF_vars(CallerStep(c))
                 /\ \A s \in Socks : WF_vars(ReaderEnds(s))

-----------------------------------------------------------------------------
(* Properties.                                                             *)

Waits(c, i) == call[c].pc \in {"hello", "wait"} /\ call[c].req = i

\* _pending holds the requests that a caller still waits for, no other and all
\* of them: no timeout, failure, reconnection or late answer leaves an entry
\* behind, and none takes away the entry an answer must find.
PendingIsAwaited ==
    pending = {i \in Reqs : fut[i] = "wait" /\ \E c \in Callers : Waits(c, i)}

\* Whatever ends a connection (a refused hello, a timeout, a lost socket, two
\* callers that find it down together), at most one socket is open.
OneSocket == Cardinality({s \in Socks : sock[s] = "open"}) <= 1

\* A device is told ok only for the very message that the gateway sent on, also
\* when answers come out of order, late, or from an earlier socket.
OkWasSent == \A c \in Replies :
    call[c].pc = "back" /\ call[c].res = "ok"
        => req[call[c].req].by = c /\ req[call[c].req].kind = "send"
           /\ req[call[c].req].st = "done"

\* The gateway has paired the device's key: a crash in the middle of writing the
\* file does not lose it, and what signs is what the next boot will load.
IdentityKept == [][/\ boot = "up" => file.key = key
                   /\ file.key # None => file'.key = file.key]_vars

\* Every call comes back: to the device with an ack, to the poller with a list.
CallsEnd == \A c \in Callers : call[c].pc # "idle" ~> call[c].pc = "idle"
=============================================================================

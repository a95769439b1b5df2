----------------------------- MODULE Backends ------------------------------
(***************************************************************************)
(* Who owns a speech or language backend.  Pipelines of all connections    *)
(* borrow their backends from one pool; config_update (one task for each   *)
(* connection, under its lock) and PUT /api/v1/config exchange the         *)
(* backends of a pipeline and then the language model of the one           *)
(* conversation engine that all connections share.                         *)
(*                                                                         *)
(* Configurations are Python objects and are passed by reference, so they  *)
(* are modelled as a heap: a connection's conn_config is the object named  *)
(* by the connection, and its pipeline holds that name.                    *)
(***************************************************************************)
EXTENDS Integers, FiniteSets, FiniteSetsExt, Functions

CONSTANTS
    Conns,      \* connections
    Kinds,      \* the kinds of backend in this instance, of "stt" "tts" "llm"
    Models,     \* model identifiers
    CloudModels,\* the models whose name contains "cloud"
    Requests,   \* <<mode, model>> that devices ask for
    Bodies,     \* the configurations an operator PUTs
    Boot,       \* the configuration of the boot
    MaxUpdates, \* bound: config_update frames
    MaxPuts,    \* bound: PUT requests
    MaxInsts,   \* bound: backends constructed
    Put,        \* the PUT handler
    None

LlmNames == {"ollama", "openrouter", "tinkerclaw"}
Modes == {"local", "hybrid", "cloud", "tinkerclaw", "onboard", "solo"}
Config == [stt : {"moonshine", "openrouter"}, tts : {"piper", "openrouter"},
           llm : LlmNames, model : [LlmNames -> Models]]

ASSUME ConstantsAssumption ==
    /\ "llm" \in Kinds /\ Kinds \subseteq {"stt", "tts", "llm"}
    /\ CloudModels \subseteq Models
    /\ Requests \subseteq Modes \X (Models \cup {None})
    /\ Bodies \subseteq Config /\ Boot \in Config
    /\ {MaxUpdates, MaxPuts} \subseteq Nat /\ MaxInsts \in Nat \ {0}

VARIABLES
    cfg,     \* the configuration objects
    server,  \* VoiceServer._config
    inst,    \* the backends constructed so far
    pool,    \* VoiceServer._backend_pool: signature -> backend
    pipe,    \* conn_state["pipeline"]
    conv,    \* ConversationEngine._llm
    task,    \* the config task of each connection and the PUT handler
    lock,    \* conn_lock: who holds it
    using,   \* the backend that a text turn streams from
    talking, \* a process task of the pipeline transcribes
    updates, puts

vars == <<cfg, server, inst, pool, pipe, conv, task, lock, using, talking,
          updates, puts>>

Objects == Conns \cup 0..MaxPuts
Ids == 1..MaxInsts
Swappers == Conns \cup {Put}

ASSUME NamesAssumption ==
    Put \notin Conns /\ {None, "text"} \cap Swappers = {} /\ None \notin Ids

\* _stt_sig, _tts_sig, _llm_sig
Sig(k, c) == IF k = "llm" THEN <<k, c.llm, c.model[c.llm]>> ELSE <<k, c[k]>>

\* What swap_backends compares of the two configurations.
Visible(k, c) == IF k = "llm" THEN <<c.llm, c.model["ollama"]>> ELSE <<c[k]>>


Pooled == Range(pool)
WithPooled(f) == [s \in DOMAIN pool \cup DOMAIN f |->
                    IF s \in DOMAIN f THEN f[s] ELSE pool[s]]

Free == {i \in Ids : inst[i] = "free"}
NthFree(n) == CHOOSE i \in Free : Cardinality({j \in Free : j <= i}) = n
Rank(k) == IF k = "stt" THEN 1 ELSE IF k = "tts" THEN 2 ELSE 3
\* The backends constructed for the kinds of ks.
NewFor(ks) == [k \in ks |-> NthFree(Cardinality({j \in ks : Rank(j) <= Rank(k)}))]
Set(is, st) == [i \in Ids |-> IF i \in is THEN st ELSE inst[i]]

TypeOK ==
    /\ cfg \in [Objects -> Config] /\ server \in 0..MaxPuts
    /\ inst \in [Ids -> {"free", "new", "up", "down"}]
    /\ Pooled \subseteq Ids
    /\ pipe \in [Conns -> [pc : {"none", "init", "up", "swap", "shed", "failed",
                                 "gone"},
                           obj : Objects, old : Objects,
                           be : [Kinds -> Ids \cup {None}],
                           own : SUBSET Kinds, fresh : SUBSET Kinds,
                           todo : SUBSET Kinds]]
    /\ conv \in Ids
    /\ task \in [Swappers -> [pc : {"idle", "lock", "check", "store", "cut", "kinds",
                                   "next", "conv", "convInit", "convSet", "ack"},
                              req : Requests \cup {None},
                              at : Conns \cup {None}, left : SUBSET Conns,
                              new : Ids \cup {None}, prev : Ids \cup {None}]]
    /\ lock \in [Conns -> Conns \cup {Put, "text", None}]
    /\ using \in [Conns -> Ids \cup {None}] /\ talking \in [Conns -> BOOLEAN]
    /\ updates \in 0..MaxUpdates /\ puts \in 0..MaxPuts

Rest == [pc |-> "idle", req |-> None, at |-> None, left |-> {},
         new |-> None, prev |-> None]
NoPipe(c) == [pc |-> "none", obj |-> c, old |-> c, be |-> [k \in Kinds |-> None],
              own |-> {}, fresh |-> {}, todo |-> {}]

\* The engine constructs a model of its own at boot, outside the pool.
Init ==
    /\ cfg = [o \in Objects |-> Boot] /\ server = 0
    /\ inst = [i \in Ids |-> IF i = 1 THEN "up" ELSE "free"]
    /\ conv = 1
    /\ pool = <<>>
    /\ pipe = [c \in Conns |-> NoPipe(c)]
    /\ task = [w \in Swappers |-> Rest]
    /\ lock = [c \in Conns |-> None]
    /\ using = [c \in Conns |-> None] /\ talking = [c \in Conns |-> FALSE]
    /\ updates = 0 /\ puts = 0

Held(c) == {pipe[c].be[k] : k \in pipe[c].own} \ {None}
Goto(w, pc) == task' = [task EXCEPT ![w].pc = pc]
Unlock(c) == lock' = [lock EXCEPT ![c] = None]

-----------------------------------------------------------------------------
(* A pipeline is built, and shut down.                                     *)

\* Mutant: a backend enters the pool when it is constructed.
BorrowEarly(c, config) ==
    LET missing == {k \in Kinds : Sig(k, config) \notin DOMAIN pool}
        made == NewFor(missing) IN
    /\ Cardinality(missing) <= Cardinality(Free)
    /\ inst' = Set(Range(made), "new")
    /\ pipe' = [pipe EXCEPT ![c] = [NoPipe(c) EXCEPT
           !.pc = "init", !.own = missing, !.fresh = missing,
           !.be = [k \in Kinds |-> IF k \in missing THEN made[k]
                                   ELSE pool[Sig(k, config)]]]]
    /\ pool' = WithPooled([s \in {Sig(k, config) : k \in missing} |->
                 made[CHOOSE k \in missing : Sig(k, config) = s]])

\* VoicePipeline.initialize up to its gather.
Borrow(c, config) ==
    LET missing == {k \in Kinds : Sig(k, config) \notin DOMAIN pool}
        made == NewFor(missing) IN
    /\ Cardinality(missing) <= Cardinality(Free)
    /\ inst' = Set(Range(made), "new")
    /\ pipe' = [pipe EXCEPT ![c] = [NoPipe(c) EXCEPT
           !.pc = "init", !.own = missing, !.fresh = missing,
           !.be = [k \in Kinds |-> IF k \in missing THEN made[k]
                                   ELSE pool[Sig(k, config)]]]]
    /\ UNCHANGED pool

\* _reset_conn_config_to_local_defaults
LocalDefaults(config) ==
    [config EXCEPT !.stt = "moonshine", !.tts = "piper", !.llm = "ollama"]

\* register; conn_config is a deep copy of the server's configuration.
Register(c) ==
    /\ pipe[c].pc = "none"
    /\ cfg' = [cfg EXCEPT ![c] = LocalDefaults(cfg[server])]
    /\ Borrow(c, cfg'[c])
    /\ UNCHANGED <<server, conv, task, lock, using, talking, updates, puts>>

\* The memory monitor builds the pipeline again that it shed.
Rebuild(c) ==
    /\ pipe[c].pc = "shed"
    /\ Borrow(c, cfg[c])
    /\ UNCHANGED <<cfg, server, conv, task, lock, using, talking, updates, puts>>

\* The fresh backends of c are initialised: they go to the pool, which owns
\* them from now on.
Adopt(c) ==
    LET fresh == pipe[c].fresh
        config == cfg[pipe[c].obj] IN
    /\ inst' = Set({pipe[c].be[k] : k \in fresh}, "up")
    /\ pool' = WithPooled([s \in {Sig(k, config) : k \in fresh} |->
                 pipe[c].be[CHOOSE k \in fresh : Sig(k, config) = s]])
    /\ pipe' = [pipe EXCEPT ![c].pc = "up", ![c].own = @ \ fresh, ![c].fresh = {}]

\* Some initialisations fail; the others are left as they are.
Spoil(c) ==
    \E bad \in SUBSET pipe[c].fresh \ {{}} :
        inst' = Set({pipe[c].be[k] : k \in pipe[c].fresh \ bad}, "up")

InitDone(c) ==
    /\ pipe[c].pc = "init"
    /\ Adopt(c)
    /\ UNCHANGED <<cfg, server, conv, task, lock, using, talking, updates, puts>>

InitFail(c) ==
    /\ pipe[c].pc = "init" /\ Spoil(c)
    /\ pipe' = [pipe EXCEPT ![c] = [NoPipe(c) EXCEPT !.pc = "failed"]]
    /\ UNCHANGED <<cfg, server, pool, conv, task, lock, using, talking, updates,
                   puts>>

\* Mutant: a pipeline shuts down what it borrowed.
ShutdownAll(c) ==
    /\ inst' = Set({pipe[c].be[k] : k \in Kinds} \ {None}, "down")
    /\ talking' = [talking EXCEPT ![c] = FALSE]

\* VoicePipeline.shutdown
Shutdown(c) ==
    /\ inst' = Set(Held(c), "down")
    /\ talking' = [talking EXCEPT ![c] = FALSE]

\* The memory monitor gives up the pipelines above its critical mark.
Shed(c) ==
    /\ pipe[c].pc = "up" /\ task[Put].at # c
    /\ Shutdown(c)
    /\ pipe' = [pipe EXCEPT ![c] = [NoPipe(c) EXCEPT !.pc = "shed"]]
    /\ UNCHANGED <<cfg, server, pool, conv, task, lock, using, updates, puts>>

\* The connection goes: its tasks are cancelled, then its pipeline shuts down.
Drop(c) ==
    /\ pipe[c].pc \in {"up", "swap", "failed"} /\ task[Put].at # c
    /\ Shutdown(c)
    /\ pipe' = [pipe EXCEPT ![c] = [NoPipe(c) EXCEPT !.pc = "gone"]]
    /\ task' = [task EXCEPT ![c] = Rest]
    /\ Unlock(c)
    /\ using' = [using EXCEPT ![c] = None]
    /\ UNCHANGED <<cfg, server, pool, conv, updates, puts>>

-----------------------------------------------------------------------------
(* Turns.  A text turn streams from the engine's model under conn_lock; a  *)
(* voice turn transcribes with the pipeline's backend, without the lock.   *)

TextStart(c) ==
    /\ pipe[c].pc = "up" /\ lock[c] = None
    /\ lock' = [lock EXCEPT ![c] = "text"]
    /\ using' = [using EXCEPT ![c] = conv]
    /\ UNCHANGED <<cfg, server, inst, pool, pipe, conv, task, talking, updates, puts>>

TextEnd(c) ==
    /\ lock[c] = "text"
    /\ Unlock(c)
    /\ using' = [using EXCEPT ![c] = None]
    /\ UNCHANGED <<cfg, server, inst, pool, pipe, conv, task, talking, updates, puts>>

\* feed_audio drops what arrives while the pipeline swaps.
VoiceStart(c) ==
    /\ pipe[c].pc = "up" /\ ~talking[c]
    /\ talking' = [talking EXCEPT ![c] = TRUE]
    /\ UNCHANGED <<cfg, server, inst, pool, pipe, conv, task, lock, using,
                   updates, puts>>

VoiceEnd(c) ==
    /\ talking[c]
    /\ talking' = [talking EXCEPT ![c] = FALSE]
    /\ UNCHANGED <<cfg, server, inst, pool, pipe, conv, task, lock, using,
                   updates, puts>>

-----------------------------------------------------------------------------
(* config_update.                                                          *)

\* select_backends_for_mode: the model's name goes into the configuration
\* before anything is validated.
SttTts(r) ==
    IF \/ r[1] \in {"local", "solo"}
       \/ r[1] = "tinkerclaw" /\ r[2] \notin CloudModels
    THEN [stt |-> "moonshine", tts |-> "piper"]
    ELSE [stt |-> "openrouter", tts |-> "openrouter"]
LlmOf(r) == CASE r[1] = "tinkerclaw" -> "tinkerclaw" [] r[1] = "cloud" -> "openrouter"
              [] OTHER -> "ollama"
Select(config, r) ==
    IF r[2] = None THEN config ELSE [config EXCEPT !.model[LlmOf(r)] = r[2]]

\* apply_swap_config_to_conn
Apply(config, r) ==
    [config EXCEPT !.stt = SttTts(r).stt, !.tts = SttTts(r).tts, !.llm = LlmOf(r)]

\* The config task of c ends where it is: the lock is released, and backends
\* it was initialising stay as they are.
Interrupted(c) ==
    [pipe EXCEPT ![c].pc = IF task[c].pc \in {"cut", "kinds"} /\ @ = "swap" THEN "up" ELSE @,
                 ![c].fresh = IF pipe[c].pc = "init" THEN @ ELSE {}, ![c].todo = {}]

\* A frame is read; a task of the slot that still runs is cancelled first.
Read(c, r) ==
    /\ pipe[c].pc \in {"up", "swap", "shed", "failed"} /\ updates < MaxUpdates
    /\ updates' = updates + 1
    /\ task' = [task EXCEPT ![c] = [Rest EXCEPT !.pc = "lock", !.req = r, !.at = c]]
    /\ IF task[c].pc \in {"idle", "lock"} THEN UNCHANGED <<lock, pipe>>
                                       ELSE Unlock(c) /\ pipe' = Interrupted(c)
    /\ UNCHANGED <<cfg, server, inst, pool, conv, using, talking, puts>>

Enter(c) ==
    /\ task[c].pc = "lock" /\ lock[c] = None
    /\ lock' = [lock EXCEPT ![c] = c]
    /\ cfg' = [cfg EXCEPT ![c] = Select(@, task[c].req)]
    /\ Goto(c, "check")
    /\ UNCHANGED <<server, inst, pool, pipe, conv, using, talking, updates, puts>>

Finish(c) == task' = [task EXCEPT ![c] = Rest] /\ Unlock(c)

\* validate_config_swap_prereqs: gateway, key or token missing.
Reject(c) ==
    /\ task[c].pc = "check" /\ task[c].req[1] \in {"hybrid", "cloud", "tinkerclaw"}
    /\ Finish(c)
    /\ UNCHANGED <<cfg, server, inst, pool, pipe, conv, using, talking, updates, puts>>

Accept(c) ==
    /\ task[c].pc = "check"
    /\ Goto(c, "store")
    /\ UNCHANGED <<cfg, server, inst, pool, pipe, conv, lock, using, talking,
                   updates, puts>>

\* The session row is written; swap_backends starts.
Store(c) ==
    /\ task[c].pc = "store"
    /\ cfg' = [cfg EXCEPT ![c] = Apply(@, task[c].req)]
    /\ IF pipe[c].pc = "up"
       THEN Goto(c, "cut") /\ pipe' = [pipe EXCEPT ![c].pc = "swap"]
       ELSE Goto(c, "conv") /\ UNCHANGED pipe
    /\ UNCHANGED <<server, inst, pool, conv, lock, using, talking, updates, puts>>

\* emit_config_update_ack
Ack(c) ==
    /\ c \in Conns /\ task[c].pc = "ack"
    /\ Finish(c)
    /\ UNCHANGED <<cfg, server, inst, pool, pipe, conv, using, talking, updates, puts>>

-----------------------------------------------------------------------------
(* VoicePipeline.swap_backends, on behalf of w.                            *)

Object(w) == IF w = Put THEN puts ELSE w

\* The utterance in progress is cancelled, then the configuration replaced.
Cut(w) ==
    LET c == task[w].at IN
    /\ task[w].pc = "cut"
    /\ talking' = [talking EXCEPT ![c] = FALSE]
    /\ pipe' = [pipe EXCEPT ![c].old = pipe[c].obj, ![c].obj = Object(w),
                            ![c].todo = Kinds]
    /\ Goto(w, "kinds")
    /\ UNCHANGED <<cfg, server, inst, pool, conv, lock, using, updates, puts>>

First(ks) == CHOOSE k \in ks : \A j \in ks : Rank(k) <= Rank(j)

\* swap_one_backend
SwapOne(w) ==
    LET c == task[w].at
        k == First(pipe[c].todo)
        sig == Sig(k, cfg[pipe[c].obj])
        old == pipe[c].be[k]
        mine == k \in pipe[c].own /\ old # None
        next == [pipe EXCEPT ![c].todo = @ \ {k}]
        end == IF mine THEN {old} ELSE {} IN
    /\ task[w].pc = "kinds" /\ pipe[c].todo # {}
    /\ IF Visible(k, cfg[pipe[c].old]) = Visible(k, cfg[pipe[c].obj])
       THEN pipe' = next /\ UNCHANGED inst
       ELSE IF sig \in DOMAIN pool
       THEN /\ inst' = Set(end, "down")
            /\ pipe' = [next EXCEPT ![c].be[k] = pool[sig], ![c].own = @ \ {k}]
       ELSE /\ Free # {}
            /\ inst' = [Set(end, "down") EXCEPT ![NthFree(1)] = "new"]
            /\ pipe' = [next EXCEPT ![c].be[k] = NthFree(1), ![c].own = @ \cup {k},
                                    ![c].fresh = @ \cup {k}]
    /\ UNCHANGED <<cfg, server, pool, conv, task, lock, using, talking, updates, puts>>

\* After the swap a config task goes on to the engine, the PUT handler to
\* the next connection.
AfterSwap(w, failed) ==
    IF w = Put
    THEN task' = [task EXCEPT ![Put].pc = "next", ![Put].at = None] /\ Unlock(task[w].at)
    ELSE IF failed THEN Finish(w) ELSE Goto(w, "conv") /\ UNCHANGED lock

\* Mutant: the pipeline goes on treating what it gave to the pool as its own.
SwapDoneOwn(w) ==
    LET c == task[w].at
        fresh == pipe[c].fresh IN
    /\ task[w].pc = "kinds" /\ pipe[c].pc = "swap" /\ pipe[c].todo = {}
    /\ inst' = Set({pipe[c].be[k] : k \in fresh}, "up")
    /\ pool' = WithPooled([s \in {Sig(k, cfg[pipe[c].obj]) : k \in fresh} |->
                 pipe[c].be[CHOOSE k \in fresh : Sig(k, cfg[pipe[c].obj]) = s]])
    /\ pipe' = [pipe EXCEPT ![c].pc = "up", ![c].fresh = {}]
    /\ AfterSwap(w, FALSE)
    /\ UNCHANGED <<cfg, server, conv, using, talking, updates, puts>>

SwapDone(w) ==
    LET c == task[w].at IN
    /\ task[w].pc = "kinds" /\ pipe[c].pc = "swap" /\ pipe[c].todo = {}
    /\ Adopt(c)
    /\ AfterSwap(w, FALSE)
    /\ UNCHANGED <<cfg, server, conv, using, talking, updates, puts>>

\* initialize raises: the device is told that the mode is local again.
SwapFail(w) ==
    LET c == task[w].at IN
    /\ task[w].pc = "kinds" /\ pipe[c].pc = "swap" /\ pipe[c].todo = {}
    /\ Spoil(c)
    /\ pipe' = [pipe EXCEPT ![c].pc = "up", ![c].fresh = {}]
    /\ AfterSwap(w, TRUE)
    /\ UNCHANGED <<cfg, server, pool, conv, using, talking, updates, puts>>

-----------------------------------------------------------------------------
(* PUT /api/v1/config: every pipeline in turn, then the engine.            *)

PutStart(body) ==
    /\ task[Put].pc = "idle" /\ puts < MaxPuts
    /\ puts' = puts + 1
    /\ cfg' = [cfg EXCEPT ![puts + 1] = body]
    /\ server' = puts + 1
    /\ task' = [task EXCEPT ![Put] = [Rest EXCEPT !.pc = "next",
                  !.left = {c \in Conns : pipe[c].pc \notin {"none", "gone"}}]]
    /\ UNCHANGED <<inst, pool, pipe, conv, lock, using, talking, updates>>

PutNext ==
    /\ task[Put].pc = "next"
    /\ IF task[Put].left = {}
       THEN Goto(Put, "conv")
       ELSE \E c \in task[Put].left :
            task' = [task EXCEPT
              ![Put].left = @ \ {c},
              ![Put].pc = IF pipe[c].pc \in {"up", "swap"} THEN "lock" ELSE "next",
              ![Put].at = IF pipe[c].pc \in {"up", "swap"} THEN c ELSE None]
    /\ UNCHANGED <<cfg, server, inst, pool, pipe, conv, lock, using, talking,
                   updates, puts>>

PutEnter ==
    LET c == task[Put].at IN
    /\ task[Put].pc = "lock" /\ lock[c] = None
    /\ lock' = [lock EXCEPT ![c] = Put]
    /\ pipe' = [pipe EXCEPT ![c].pc = "swap"]
    /\ Goto(Put, "cut")
    /\ UNCHANGED <<cfg, server, inst, pool, conv, using, talking, updates, puts>>

PutReply ==
    /\ task[Put].pc = "ack"
    /\ task' = [task EXCEPT ![Put] = Rest]
    /\ UNCHANGED <<cfg, server, inst, pool, pipe, conv, lock, using, talking,
                   updates, puts>>

-----------------------------------------------------------------------------
(* ConversationEngine.swap_llm, on behalf of w.                            *)

\* The old model is shut down first, unless the pool still has it, and the
\* new one installed after that.
Settle(w, new, prev) ==
    IF prev # new /\ prev \notin Range(pool')
    THEN /\ inst' = [inst EXCEPT ![prev] = "down", ![new] = "up"]
         /\ task' = [task EXCEPT ![w].pc = "convSet", ![w].new = new]
         /\ UNCHANGED conv
    ELSE /\ inst' = [inst EXCEPT ![new] = "up"]
         /\ Goto(w, "ack")
         /\ conv' = new

Key(w) == Sig("llm", cfg[Object(w)])

ConvLook(w) ==
    /\ task[w].pc = "conv"
    /\ UNCHANGED pool
    /\ IF Key(w) \in DOMAIN pool
       THEN Settle(w, pool[Key(w)], conv)
       ELSE /\ Free # {}
            /\ inst' = [inst EXCEPT ![NthFree(1)] = "new"]
            /\ task' = [task EXCEPT ![w].pc = "convInit", ![w].new = NthFree(1),
                                    ![w].prev = conv]
            /\ UNCHANGED conv
    /\ UNCHANGED <<cfg, server, pipe, lock, using, talking, updates, puts>>

ConvReady(w) ==
    /\ task[w].pc = "convInit"
    /\ pool' = WithPooled([s \in {Key(w)} |-> task[w].new])
    /\ Settle(w, task[w].new, task[w].prev)
    /\ UNCHANGED <<cfg, server, pipe, lock, using, talking, updates, puts>>

\* The failure is logged; the request goes on.
ConvFail(w) ==
    /\ task[w].pc = "convInit"
    /\ Goto(w, "ack")
    /\ UNCHANGED <<cfg, server, inst, pool, pipe, conv, lock, using, talking,
                   updates, puts>>

ConvSet(w) ==
    /\ task[w].pc = "convSet"
    /\ conv' = task[w].new
    /\ Goto(w, "ack")
    /\ UNCHANGED <<cfg, server, inst, pool, pipe, lock, using, talking, updates,
                   puts>>

-----------------------------------------------------------------------------

Step(w) == Cut(w) \/ SwapOne(w) \/ SwapDone(w) \/ SwapFail(w)
           \/ ConvLook(w) \/ ConvReady(w) \/ ConvFail(w) \/ ConvSet(w)
ConfigStep(c) == Enter(c) \/ Reject(c) \/ Accept(c) \/ Store(c) \/ Step(c) \/ Ack(c)
PutStep == PutNext \/ PutEnter \/ Step(Put) \/ PutReply

Next ==
    \/ \E c \in Conns :
         \/ Register(c) \/ Rebuild(c) \/ InitDone(c) \/ InitFail(c)
         \/ Shed(c) \/ Drop(c)
         \/ TextStart(c) \/ TextEnd(c) \/ VoiceStart(c) \/ VoiceEnd(c)
         \/ \E r \in Requests : Read(c, r)
         \/ ConfigStep(c)
    \/ \E body \in Bodies : PutStart(body)
    \/ PutStep

Spec == Init /\ [][Next]_vars

-----------------------------------------------------------------------------
(* Properties.                                                             *)

\* A backend that can be borrowed is initialised and not shut down, whatever
\* registrations, swaps and PUTs construct at the same time
\* (pipeline.py:1634, "a failed init doesn't leave a half-constructed backend
\* in the pool").
PoolReady == \A i \in Pooled : inst[i] = "up"

\* What a pipeline will shut down itself, nobody else can be using: it is not
\* in the pool, not the engine's, and in no other pipeline (pipeline.py:1643).
OwnIsAlone ==
    \A c \in Conns : \A i \in Held(c) :
        /\ i \notin Pooled /\ i # conv
        /\ \A d \in Conns \ {c} : i \notin {pipe[d].be[k] : k \in Kinds}

\* The speech backends that a pipeline has borrowed work, even when two
\* pipelines missed the pool together and one overwrote the entry of the other.
BorrowedIsUp ==
    \A c \in Conns : \A k \in Kinds \ (pipe[c].own \cup {"llm"}) :
        pipe[c].be[k] # None => inst[pipe[c].be[k]] = "up"

\* The swap waits for any inference in flight (server.py:1358): no backend is
\* shut down while a turn streams from it.
SwapWaits == [][\A c \in Conns : using[c] # None /\ using'[c] = using[c]
                    => inst'[using[c]] = "up"]_vars

\* The pipeline uses what the configuration says once the update is answered
\* (config_finalize.py:137, "so the pipeline-swap code below picks them up").
SwapApplies ==
    \A c \in Conns : task[c].pc = "ack" /\ pipe[c].pc = "up" =>
        \A k \in Kinds : LET sig == Sig(k, cfg[c]) IN
            sig \in DOMAIN pool /\ pipe[c].be[k] = pool[sig]
=============================================================================

---------------------------- MODULE Integrations ----------------------------
(***************************************************************************)
(* The Google integrations (Gmail, Calendar), their credential files and   *)
(* OAuth flows.  An integration has two instances in the process: that of  *)
(* the REST routes, which connects, disconnects and chooses the default    *)
(* account, and that of the tools of the model, which use the accounts.    *)
(* Each loads the files once and then trusts its memory; a file is written *)
(* by a thread, and a token that has expired is refreshed on use.          *)
(***************************************************************************)
EXTENDS Integers

CONSTANTS
    Accounts, \* accounts of the user at Google
    Flows,    \* connect requests
    Callers,  \* coroutines: routes and tools
    MaxCalls, \* bound: requests
    Torn,     \* the content of a file that two threads wrote at once
    None

DistinctAssumption == Accounts \cap Flows = {} /\ {None, Torn} \cap Accounts = {}
MaxCallsAssumption == MaxCalls \in Nat

VARIABLES
    mem,     \* _accounts of each instance: the tokens by account id
    default, \* _default_account_id
    loaded,  \* _loaded
    disk,    \* the credential files
    flow,    \* _flows: the account that consents, what poll_status says
    call,    \* the callers
    calls    \* requests begun

vars == <<mem, default, loaded, disk, flow, call, calls>>

Instances == {"rest", "tool"}
\* An account id: an address, or the placeholder of a flow whose address Google
\* did not tell.
Names == Accounts \cup Flows
Tokens == [of : Accounts, fresh : BOOLEAN]
NoTokens == [n \in Names |-> None]

Idle == [pc |-> "idle", inst |-> "rest", asked |-> None, flow |-> None, name |-> None,
         tok |-> None, then |-> None, first |-> FALSE, clash |-> FALSE, todo |-> {}]

TypeOK ==
    /\ mem \in [Instances -> [Names -> Tokens \cup {None}]]
    /\ default \in [Instances -> Names \cup {None}] /\ loaded \in [Instances -> BOOLEAN]
    /\ disk \in [Names -> Accounts \cup {None, Torn}]
    /\ flow \in [Flows -> [by : Accounts \cup {None}, spent : BOOLEAN,
                           told : {"none", "connecting", "error", "connected", "unknown"}]]
    /\ call \in [Callers ->
         [pc : {"idle", "exchange", "name", "save", "refresh", "send", "revoke"},
          inst : Instances, asked : Names \cup {None}, flow : Flows \cup {None},
          name : Names \cup {None}, tok : Tokens \cup {None},
          then : {"connect", "use", "default", "over", None}, first : BOOLEAN,
          clash : BOOLEAN, todo : SUBSET Names]]
    /\ calls \in 0..MaxCalls

Init ==
    /\ mem = [i \in Instances |-> NoTokens] /\ default = [i \in Instances |-> None]
    /\ loaded = [i \in Instances |-> FALSE]
    \* what an earlier process left
    /\ \E some \in SUBSET Accounts : disk = [n \in Names |-> IF n \in some THEN n ELSE None]
    /\ flow = [f \in Flows |-> [by |-> None, spent |-> FALSE, told |-> "none"]]
    /\ call = [h \in Callers |-> Idle] /\ calls = 0

Held(accounts) == {n \in Names : accounts[n] # None}
\* A request begins.
Begin(h) == call[h].pc = "idle" /\ calls < MaxCalls /\ calls' = calls + 1
End(h) == call' = [call EXCEPT ![h] = Idle]

-----------------------------------------------------------------------------
(* CredentialStore.                                                        *)

\* save, in a thread: each call has a store, and a lock, of its own, so that two
\* saves of one account write the same temporary file.
Save(h, task) ==
    LET same == {g \in Callers \ {h} : call[g].pc = "save" /\ call[g].name = task.name} IN
    call' = [g \in Callers |->
        IF g = h THEN [task EXCEPT !.pc = "save", !.clash = same # {}]
        ELSE IF g \in same THEN [call[g] EXCEPT !.clash = TRUE] ELSE call[g]]

\* _ensure_loaded, by the first request that needs the accounts: a file that cannot
\* be read is left out, and the default is the one that says so, or the first.
Load(i) ==
    /\ ~loaded[i] /\ loaded' = [loaded EXCEPT ![i] = TRUE]
    /\ LET found == [n \in Names |->
               IF disk[n] \in Accounts THEN [of |-> disk[n], fresh |-> TRUE] ELSE None] IN
       /\ mem' = [mem EXCEPT ![i] = found]
       /\ \E n \in IF Held(found) = {} THEN {None} ELSE Held(found) :
            default' = [default EXCEPT ![i] = n]
    /\ UNCHANGED <<disk, flow, call, calls>>

Expire(i, n) ==
    /\ mem[i][n] # None /\ mem[i][n].fresh
    /\ mem' = [mem EXCEPT ![i][n].fresh = FALSE]
    /\ UNCHANGED <<default, loaded, disk, flow, call, calls>>

-----------------------------------------------------------------------------
(* Connecting.                                                             *)

\* start_connect; the account is the one the user will choose in the browser.
StartConnect(f) ==
    /\ flow[f].told = "none"
    /\ \E a \in Accounts : flow' = [flow EXCEPT ![f] = [@ EXCEPT !.by = a, !.told = "connecting"]]
    /\ UNCHANGED <<mem, default, loaded, disk, call, calls>>

\* A flow that has its tokens stays connected, whatever fails later.
Failed(f) == flow' = [flow EXCEPT ![f].told = IF @ = "connected" THEN @ ELSE "error"]

\* poll_status, after ten minutes.
Poll(f) ==
    /\ flow[f].told = "connecting" /\ Failed(f)
    /\ UNCHANGED <<mem, default, loaded, disk, call, calls>>

\* oauth_callback, handle_callback: also of a flow that has expired, or was used.
Callback(h, f) ==
    /\ Begin(h) /\ flow[f].told \notin {"none", "unknown"}
    /\ \/ Failed(f) /\ UNCHANGED call
       \/ call' = [call EXCEPT ![h] = [Idle EXCEPT !.pc = "exchange", !.flow = f]]
          /\ UNCHANGED flow
    /\ UNCHANGED <<mem, default, loaded, disk>>

\* Google takes the code of a flow once.
Exchange(h) ==
    /\ call[h].pc = "exchange"
    /\ LET f == call[h].flow IN
       \/ Failed(f) /\ End(h)
       \/ /\ ~flow[f].spent /\ flow' = [flow EXCEPT ![f].spent = TRUE]
          /\ call' = [call EXCEPT ![h].pc = "name",
                                  ![h].tok = [of |-> flow[f].by, fresh |-> TRUE]]
    /\ UNCHANGED <<mem, default, loaded, disk, calls>>

\* _resolve_account_id; then the tokens are saved.
Name(h) ==
    /\ call[h].pc = "name" /\ loaded["rest"]
    /\ \E n \in {call[h].tok.of, call[h].flow} :
         Save(h, [call[h] EXCEPT !.name = n, !.then = "connect",
                                 !.first = Held(mem["rest"]) = {}])
    /\ UNCHANGED <<mem, default, loaded, disk, flow, calls>>

-----------------------------------------------------------------------------
(* Using.                                                                  *)

\* _resolve_target_account.
Target(i, asked) == IF asked = None THEN default[i] ELSE asked

\* _get_access_token: without tokens the call ends.
Get(h, task, accounts, target) ==
    IF target = None \/ target \notin Held(accounts) THEN End(h)
    ELSE call' = [call EXCEPT ![h] =
           [task EXCEPT !.pc = IF accounts[target].fresh THEN "send" ELSE "refresh",
                        !.name = target, !.tok = accounts[target]]]

\* A tool, or a health check.
Use(h, i, asked) ==
    /\ Begin(h) /\ loaded[i]
    /\ Get(h, [Idle EXCEPT !.inst = i, !.asked = asked], mem[i], Target(i, asked))
    /\ call' # call
    /\ UNCHANGED <<mem, default, loaded, disk, flow>>

\* Mutant: the tokens are saved for the account that is the target by then.
RefreshedLate(h) ==
    /\ call[h].pc = "refresh"
    /\ LET n == Target(call[h].inst, call[h].asked) IN
       \/ End(h)
       \/ n # None /\ Save(h, [call[h] EXCEPT !.tok.fresh = TRUE, !.then = "use", !.name = n])
    /\ UNCHANGED <<mem, default, loaded, disk, flow, calls>>

\* Google may refuse, or not answer.
Refreshed(h) ==
    /\ call[h].pc = "refresh"
    /\ \/ End(h)
       \/ Save(h, [call[h] EXCEPT !.tok.fresh = TRUE, !.then = "use"])
    /\ UNCHANGED <<mem, default, loaded, disk, flow, calls>>

\* The answer; a GET that is refused lets the tokens of its target expire and tries
\* once more.
Send(h) ==
    /\ call[h].pc = "send"
    /\ \/ End(h) /\ UNCHANGED mem
       \/ LET i == call[h].inst
              n == Target(i, call[h].asked)
              expired == IF call[h].name \in Held(mem[i])
                         THEN [mem[i] EXCEPT ![call[h].name].fresh = FALSE] ELSE mem[i] IN
          /\ ~call[h].first /\ mem' = [mem EXCEPT ![i] = expired]
          /\ Get(h, [call[h] EXCEPT !.first = TRUE], expired, n)
    /\ UNCHANGED <<default, loaded, disk, flow, calls>>

-----------------------------------------------------------------------------
(* Disconnecting, and the default.                                         *)

\* disconnect: of one account or of all.
Drop(h, names) ==
    /\ Begin(h) /\ loaded["rest"] /\ names # {}
    /\ call' = [call EXCEPT ![h] = [Idle EXCEPT !.pc = "revoke", !.todo = names]]
    /\ UNCHANGED <<mem, default, loaded, disk, flow>>

\* Google was asked to revoke; whatever it says, the file and the tokens go, and at
\* the end a default that went is replaced.
Revoked(h) ==
    /\ call[h].pc = "revoke"
    /\ \E n \in call[h].todo : LET left == [mem["rest"] EXCEPT ![n] = None] IN
       /\ disk' = [disk EXCEPT ![n] = None] /\ mem' = [mem EXCEPT !["rest"] = left]
       /\ IF call[h].todo # {n}
          THEN call' = [call EXCEPT ![h].todo = @ \ {n}] /\ UNCHANGED default
          ELSE IF default["rest"] \in Held(left) \/ Held(left) = {}
          THEN /\ End(h)
               /\ default' = [default EXCEPT !["rest"] = IF Held(left) = {} THEN None ELSE @]
          ELSE \E d \in Held(left) :
               /\ default' = [default EXCEPT !["rest"] = d]
               /\ Save(h, [call[h] EXCEPT !.name = d, !.tok = left[d], !.then = "over"])
    /\ UNCHANGED <<loaded, flow, calls>>

\* set_default_account: the files of the old default and of the new one are saved.
SetDefault(h, n) ==
    /\ Begin(h) /\ loaded["rest"] /\ n \in Held(mem["rest"])
    /\ default' = [default EXCEPT !["rest"] = n]
    /\ LET old == default["rest"] IN
       IF old \in Held(mem["rest"]) \ {n}
       THEN Save(h, [Idle EXCEPT !.name = old, !.tok = mem["rest"][old], !.then = "default",
                                 !.todo = {n}])
       ELSE Save(h, [Idle EXCEPT !.name = n, !.tok = mem["rest"][n], !.then = "over"])
    /\ UNCHANGED <<mem, loaded, disk, flow>>

-----------------------------------------------------------------------------
(* The end of a save.                                                      *)

\* What is left to do with the memory and the caller.
Then(h) ==
    LET c == call[h]
        now == [mem EXCEPT ![c.inst][c.name] = c.tok] IN
    CASE c.then = "connect" ->
           /\ mem' = now /\ End(h)
           /\ default' = [default EXCEPT !["rest"] = IF c.first \/ @ = None THEN c.name ELSE @]
           /\ flow' = [flow EXCEPT ![c.flow].told = "connected"]
      [] c.then = "use" ->
           /\ mem' = now /\ UNCHANGED <<default, flow>>
           /\ call' = [call EXCEPT ![h].pc = "send", ![h].name = Target(c.inst, c.asked)]
      [] c.then = "default" ->
           /\ UNCHANGED <<mem, default, flow>>
           /\ \E n \in c.todo :
              IF n \in Held(mem["rest"])
              THEN Save(h, [c EXCEPT !.name = n, !.tok = mem["rest"][n], !.then = "over"])
              ELSE End(h)
      [] OTHER -> End(h) /\ UNCHANGED <<mem, default, flow>>

Saved(h) ==
    /\ call[h].pc = "save" /\ Then(h) /\ UNCHANGED <<loaded, calls>>
    /\ \E content \in {call[h].tok.of} \cup (IF call[h].clash THEN {Torn} ELSE {}) :
         disk' = [disk EXCEPT ![call[h].name] = content]

\* The disk, or another save that took the temporary file away.
SaveFailed(h) ==
    /\ call[h].pc = "save" /\ End(h)
    /\ UNCHANGED <<mem, default, loaded, disk, flow, calls>>

\* The process restarts: the flows are forgotten.
Restart ==
    /\ mem' = [i \in Instances |-> NoTokens] /\ default' = [i \in Instances |-> None]
    /\ loaded' = [i \in Instances |-> FALSE] /\ call' = [h \in Callers |-> Idle]
    /\ flow' = [f \in Flows |-> IF flow[f].told = "none" THEN flow[f]
                                ELSE [flow[f] EXCEPT !.told = "unknown"]]
    /\ UNCHANGED <<disk, calls>>

CallStep(h) ==
    \/ \E f \in Flows : Callback(h, f)
    \/ \E i \in Instances, asked \in Names \cup {None} : Use(h, i, asked)
    \/ Drop(h, Held(mem["rest"]))
    \/ \E n \in Held(mem["rest"]) : Drop(h, {n}) \/ SetDefault(h, n)
    \/ Exchange(h) \/ Name(h) \/ Refreshed(h) \/ Send(h) \/ Revoked(h)
    \/ Saved(h) \/ SaveFailed(h)

Next ==
    \/ \E i \in Instances : Load(i) \/ \E n \in Names : Expire(i, n)
    \/ \E f \in Flows : StartConnect(f) \/ Poll(f)
    \/ \E h \in Callers : CallStep(h)
    \/ Restart

Spec == Init /\ [][Next]_vars

-----------------------------------------------------------------------------
(* Properties.                                                             *)

Owner(n) == IF n \in Flows THEN flow[n].by ELSE n

\* What is kept under an account is that account's tokens, in both instances and in
\* the files, however flows, refreshes, disconnects and changes of the default
\* interleave: no request reads or writes the mail of the wrong account.
OwnTokens == \A n \in Names :
    /\ disk[n] \in {None, Torn, Owner(n)}
    /\ \A i \in Instances : mem[i][n] # None => mem[i][n].of = Owner(n)

\* When nothing is under way, the routes and the tools know the same accounts
\* ("REST connect/disconnect routes and tool calls share a single in-process
\* instance").
ToolsSeeAccounts ==
    loaded["rest"] /\ loaded["tool"] /\ (\A h \in Callers : call[h].pc = "idle")
        => Held(mem["rest"]) = Held(mem["tool"])

=============================================================================

---------------------------- MODULE Conversation ----------------------------
(***************************************************************************)
(* The conversation engine on one session.  A turn writes the user's       *)
(* message, reads a window of the session's rows back as the context, asks *)
(* the model, and runs the tool the model calls for, up to a limit; each   *)
(* step is a database or network call of its own.  A text turn, a voice    *)
(* turn and POST /chat may run on the same session at the same time, and   *)
(* DELETE /messages may empty it under them.                               *)
(*                                                                         *)
(* A turn takes one of three paths: "prose", where tool calls are markup   *)
(* in the model's text; "native", where the model returns them apart from  *)
(* the text; and "gateway", where an agent runs its own tools.             *)
(***************************************************************************)
EXTENDS Integers, Sequences, FiniteSetsExt

CONSTANTS
    Turns,         \* turns: text, voice or HTTP
    Paths,         \* the paths of this instance
    History,       \* how many rows the session has at first
    MaxToolCalls,  \* MAX_TOOL_CALLS
    FirstWindow,   \* the rows of the first context: 10 with a local model, else 30
    NativeWindow,  \* NATIVE_HISTORY_MSGS
    Window,        \* get_context's default, also the gateway's
    OldWeight,     \* the tokens of an old row; a new row has one
    Budget,        \* CONTEXT_BUDGET_LOCAL or _CLOUD, in the same unit
    Faults,        \* whether an INSERT may fail
    MaxPurges,     \* bound: DELETE /messages
    None

PathsAssumption == Paths \subseteq {"prose", "native", "gateway"}
NumbersAssumption ==
    {History, MaxToolCalls, FirstWindow, NativeWindow, Window, OldWeight, Budget,
     MaxPurges} \subseteq Nat

\* The rows that a first window adds to old ones do not alone exceed the budget.
BudgetAssumption == FirstWindow <= Budget /\ NativeWindow <= Budget

VARIABLES
    log,    \* the session's rows in messages, in the order of created_at
    turn,   \* the turns' coroutines
    purges

vars == <<log, turn, purges>>

Rows == [by : Turns \cup {None}, kind : {"user", "call", "tool", "answer"}]
Row(t, kind) == [by |-> t, kind |-> kind]

Fresh == [path |-> None, pc |-> "idle", made |-> 0, ran |-> 0, total |-> 0,
          ctx |-> <<>>, purged |-> FALSE]

\* Where a turn waits for the database, the model or a tool.
Waiting == {"first", "again", "read", "model", "exec", "call", "tool", "answer"}

TypeOK ==
    /\ log \in Seq(Rows)
    /\ turn \in [Turns ->
         [path : Paths \cup {None}, pc : {"idle", "done", "failed"} \cup Waiting,
          made : 0..MaxToolCalls, ran : 0..MaxToolCalls, total : Nat,
          ctx : Seq(Rows), purged : BOOLEAN]]
    /\ purges \in 0..MaxPurges

Init ==
    /\ log = [i \in 1..History |-> Row(None, IF i % 2 = 1 THEN "user" ELSE "answer")]
    /\ turn = [t \in Turns |-> Fresh] /\ purges = 0

Goto(t, pc) == turn' = [turn EXCEPT ![t].pc = pc]
Insert(t, kind) == log' = Append(log, Row(t, kind))

-----------------------------------------------------------------------------
\* add_message for the user's words.  The gateway path goes on without them
\* when the INSERT fails; the engine's own paths raise.
Ask(t, path) ==
    /\ turn[t].pc = "idle"
    /\ \/ /\ Insert(t, "user")
          /\ turn' = [turn EXCEPT ![t].path = path, ![t].pc = "first"]
       \/ /\ Faults /\ UNCHANGED log
          /\ turn' = [turn EXCEPT ![t].path = path,
                        ![t].pc = IF path = "gateway" THEN "first" ELSE "failed"]
    /\ UNCHANGED purges

\* The window of the next context.
Limit(t) ==
    IF turn[t].path = "native" THEN NativeWindow
    ELSE IF turn[t].path = "gateway" \/ turn[t].made > 0 THEN Window
    ELSE FirstWindow

\* get_context: COUNT, then SELECT ... LIMIT ... OFFSET.
Count(t) ==
    /\ turn[t].pc \in {"first", "again"}
    /\ turn' = [turn EXCEPT ![t].pc = "read", ![t].total = Len(log)]
    /\ UNCHANGED <<log, purges>>

\* Mutant: the oldest rows of the session instead of the newest.
OldestRows(t) == SubSeq(log, 1, Min({Limit(t), Len(log)}))

\* The rows of the window as they were counted.
Selected(t) ==
    LET offset == IF turn[t].total > Limit(t) THEN turn[t].total - Limit(t) ELSE 0 IN
    SubSeq(log, offset + 1, Min({offset + Limit(t), Len(log)}))

\* The estimate: what the old rows and the new rows weigh together.
Tokens(ctx) ==
    LET Old == {i \in DOMAIN ctx : ctx[i].by = None} IN
    OldWeight * Cardinality(Old) + Len(ctx) - Cardinality(Old)

\* trim_context_to_budget: the oldest rows go, the newest stays.
Trim(ctx) ==
    LET Cut(k) == SubSeq(ctx, k + 1, Len(ctx))
        Fits(k) == Tokens(Cut(k)) <= Budget \/ Len(ctx) - k <= 1 IN
    IF ctx = <<>> THEN ctx ELSE Cut(Min({k \in 0..(Len(ctx) - 1) : Fits(k)}))

\* The rows of a set in their order: a list comprehension.
Filter(rows, S) ==
    LET upTo[n \in 0..Len(rows)] ==
            IF n = 0 THEN <<>>
            ELSE IF rows[n] \in S THEN Append(upTo[n - 1], rows[n]) ELSE upTo[n - 1]
    IN  upTo[Len(rows)]

Spoken == {row \in Rows : row.kind \in {"user", "answer"}}

\* _build_context after its read: old tool rows are of no use to a native model.
Build(t) ==
    IF turn[t].path = "gateway" \/ turn[t].made > 0 THEN Selected(t)
    ELSE IF turn[t].path = "native" THEN Trim(Filter(Selected(t), Spoken))
    ELSE Trim(Selected(t))

Read(t) ==
    /\ turn[t].pc = "read"
    /\ turn' = [turn EXCEPT ![t].pc = "model", ![t].ctx = Build(t)]
    /\ UNCHANGED <<log, purges>>

\* The model answers in words: or with a call that does not parse, that names
\* an unknown tool, or that is one more than the limit, which ends the turn too.
Speak(t) ==
    /\ turn[t].pc = "model" /\ Goto(t, "answer")
    /\ UNCHANGED <<log, purges>>

\* The model calls for a tool.
Call(t) ==
    /\ turn[t].pc = "model" /\ turn[t].path # "gateway"
    /\ turn[t].made < MaxToolCalls
    /\ turn' = [turn EXCEPT ![t].pc = "exec", ![t].made = @ + 1]
    /\ UNCHANGED <<log, purges>>

\* ToolRegistry.execute; an error of the tool is a result like another.
Exec(t) ==
    /\ turn[t].pc = "exec"
    /\ turn' = [turn EXCEPT ![t].pc = "call", ![t].ran = @ + 1]
    /\ UNCHANGED <<log, purges>>

AddCall(t) ==
    /\ turn[t].pc = "call" /\ Insert(t, "call") /\ Goto(t, "tool")
    /\ UNCHANGED purges

\* Mutant: the next context is read before the result is written.
AddToolLater(t) ==
    /\ turn[t].pc = "tool"
    /\ turn' = [turn EXCEPT ![t].pc = "model",
         ![t].ctx = IF turn[t].path = "native"
                    THEN @ \o <<Row(t, "call"), Row(t, "tool")>> ELSE Build(t)]
    /\ Insert(t, "tool")
    /\ UNCHANGED purges

\* A native turn keeps its context and appends to it; a prose turn reads the
\* session again.
AddTool(t) ==
    /\ turn[t].pc = "tool" /\ Insert(t, "tool")
    /\ IF turn[t].path = "native"
       THEN turn' = [turn EXCEPT ![t].pc = "model",
                       ![t].ctx = @ \o <<Row(t, "call"), Row(t, "tool")>>]
       ELSE Goto(t, "again")
    /\ UNCHANGED purges

Answer(t) ==
    /\ turn[t].pc = "answer" /\ Insert(t, "answer") /\ Goto(t, "done")
    /\ UNCHANGED purges

\* The task is cancelled at its await, or what it awaits raises.
Break(t) ==
    /\ turn[t].pc \in Waiting /\ Goto(t, "failed")
    /\ UNCHANGED <<log, purges>>

\* delete_messages.
Purge ==
    /\ purges < MaxPurges /\ purges' = purges + 1
    /\ log' = <<>>
    /\ turn' = [t \in Turns |-> [turn[t] EXCEPT
                  !.purged = @ \/ turn[t].pc \in Waiting]]

TurnStep(t) ==
    \/ \E path \in Paths : Ask(t, path)
    \/ Count(t) \/ Read(t) \/ Speak(t) \/ Call(t) \/ Exec(t) \/ AddCall(t)
    \/ AddTool(t) \/ Answer(t) \/ Break(t)

Next == Purge \/ \E t \in Turns : TurnStep(t)

Spec == Init /\ [][Next]_vars

-----------------------------------------------------------------------------
(* Properties.                                                             *)

Own(t, rows) == Filter(rows, {row \in Rows : row.by = t})

\* The rows of t that the model must see: the question, then every call the
\* turn has made with its result.
Story(t) == <<"user">> \o [i \in 1..(2 * turn[t].ran) |->
                             IF i % 2 = 1 THEN "call" ELSE "tool"]

\* The rows since the turn's question when it counted fit its window.
InWindow(t) == \E i \in 1..turn[t].total :
    log[i] = Row(t, "user") /\ turn[t].total - i < Limit(t)

\* Whenever the model is asked, it sees the question of the turn and all that the
\* turn's tools have said, whatever other turns have written to the session in
\* between, unless their rows alone fill the window or the budget (which old rows may
\* exceed, and those of a window of new ones not): the model never calls for a tool again, or
\* answers another turn's question, because it was shown less than the turn has
\* written.
ContextIsComplete == \A t \in Turns :
    turn[t].pc = "model" /\ ~turn[t].purged /\ InWindow(t)
        => [i \in DOMAIN Own(t, turn[t].ctx) |-> Own(t, turn[t].ctx)[i].kind] = Story(t)
=============================================================================

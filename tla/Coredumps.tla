------------------------------ MODULE Coredumps ------------------------------
(***************************************************************************)
(* The coredump scraper.  Each sweep asks every device at once whether it  *)
(* holds a coredump, pulls it and archives it under the second it is       *)
(* written, unless a sidecar file of that device names the same content.   *)
(* The server may be killed between any two writes; a restart goes on from *)
(* the files.                                                              *)
(***************************************************************************)
EXTENDS Integers, FiniteSets

CONSTANTS
    Targets,   \* the configured targets, one for each device
    Dumps,     \* contents of coredumps
    MaxClock,  \* bound: time, in seconds
    MaxCut,    \* bound: archivings of a target that are cut off
    None

DumpsAssumption == None \notin Dumps /\ {MaxClock, MaxCut} \subseteq Nat

VARIABLES
    flash,    \* what each device's coredump partition holds
    archive,  \* the files of each device: dump-<second>.bin with its .sha256
    events,   \* tab5.coredump_pulled rows
    scrape,   \* scrape_target of each target
    results,  \* LAST_RESULTS
    sweep,    \* scraper_loop
    clock,
    cut       \* history: archivings that left a dump without a sidecar

vars == <<flash, archive, events, scrape, results, sweep, clock, cut>>

NoResult == [ok |-> FALSE, present |-> FALSE, path |-> None, sha |-> None, deduped |-> FALSE]
Idle == [pc |-> "idle", body |-> None, result |-> NoResult]

TypeOK ==
    /\ flash \in [Targets -> Dumps \cup {None}]
    /\ \A t \in Targets : archive[t] \subseteq
         [at : 0..MaxClock, dump : Dumps, sha : Dumps \cup {None}]
    /\ \A t \in Targets : scrape[t].pc \in
         {"idle", "probe", "pull", "archive", "mark", "symbolicate", "log", "done"}
    /\ sweep.pc \in {"run", "sleep", "down"} /\ clock \in 0..MaxClock

Init ==
    /\ flash = [t \in Targets |-> None] /\ archive = [t \in Targets |-> {}] /\ events = {}
    /\ scrape = [t \in Targets |-> [Idle EXCEPT !.pc = "probe"]]
    /\ results = [t \in Targets |-> None] /\ sweep = [pc |-> "run", since |-> 0]
    /\ clock = 0 /\ cut = [t \in Targets |-> 0]

-----------------------------------------------------------------------------
(* The environment: a device that crashes overwrites its partition, an     *)
(* operator erases it.                                                     *)

Flash(t) ==
    /\ \E d \in Dumps \cup {None} : flash' = [flash EXCEPT ![t] = d]
    /\ UNCHANGED <<archive, events, scrape, results, sweep, clock, cut>>

\* From the dump's write to its sidecar's there is no await.
Writing == \E t \in Targets : scrape[t].pc = "mark"

Tick ==
    /\ clock < MaxClock /\ ~Writing /\ clock' = clock + 1
    /\ UNCHANGED <<flash, archive, events, scrape, results, sweep, cut>>

-----------------------------------------------------------------------------
(* scrape_target: it never raises, and what it has found so far is its     *)
(* result.                                                                 *)

At(t, pc) == scrape[t].pc = pc /\ (pc = "mark" \/ ~Writing)
Go(t, pc) == scrape' = [scrape EXCEPT ![t].pc = pc]
Disk == <<archive, events, cut>>
Rest == <<flash, results, sweep, clock>>

\* No answer, a status other than 200, or no host: the error is the result.
Unreachable(t) ==
    /\ At(t, "probe") \/ At(t, "pull")
    /\ Go(t, "done") /\ UNCHANGED <<Rest, Disk>>

Probe(t) ==
    /\ At(t, "probe")
    /\ scrape' = [scrape EXCEPT
         ![t].result.ok = TRUE, ![t].result.present = flash[t] # None,
         ![t].pc = IF flash[t] # None THEN "pull" ELSE "done"]
    /\ UNCHANGED <<Rest, Disk>>

Pull(t) ==
    /\ At(t, "pull") /\ flash[t] # None
    /\ scrape' = [scrape EXCEPT ![t].pc = "archive", ![t].body = flash[t]]
    /\ UNCHANGED <<Rest, Disk>>

\* Mutant: what is archived is what this process remembers.
ArchivedInMemory(t, d) ==
    {f \in archive[t] : f.sha = d /\ results[t] # None /\ results[t].sha = d}

\* _dump_already_archived: by the sidecars.
Archived(t, d) == {f \in archive[t] : f.sha = d}

Dedupe(t) ==
    /\ At(t, "archive")
    /\ \E f \in Archived(t, scrape[t].body) :
         scrape' = [scrape EXCEPT ![t].pc = "done", ![t].result.sha = f.sha,
                      ![t].result.path = f.at, ![t].result.deduped = TRUE]
    /\ UNCHANGED <<Rest, Disk>>

\* The temporary file, and os.replace.  A sweep begins a second or more after the
\* one before, so no earlier dump of the device has the name.
Save(t) ==
    /\ At(t, "archive") /\ Archived(t, scrape[t].body) = {}
    /\ archive' = [archive EXCEPT ![t] = {f \in @ : f.at # clock}
         \cup {[at |-> clock, dump |-> scrape[t].body, sha |-> None]}]
    /\ scrape' = [scrape EXCEPT ![t].pc = "mark", ![t].result.sha = scrape[t].body]
    /\ UNCHANGED <<Rest, events, cut>>

\* A directory that may not be written, a full disk: nothing has its name yet.
SaveFails(t) ==
    /\ At(t, "archive") /\ Archived(t, scrape[t].body) = {}
    /\ scrape' = [scrape EXCEPT ![t].pc = "done", ![t].result.sha = scrape[t].body]
    /\ UNCHANGED <<Rest, Disk>>

Mark(t) ==
    /\ At(t, "mark")
    /\ archive' = [archive EXCEPT ![t] =
         {IF f.at = clock THEN [f EXCEPT !.sha = scrape[t].body] ELSE f : f \in @}]
    /\ scrape' = [scrape EXCEPT ![t].pc = "symbolicate", ![t].result.path = clock]
    /\ UNCHANGED <<Rest, events, cut>>

MarkFails(t) ==
    /\ At(t, "mark") /\ cut[t] < MaxCut
    /\ cut' = [cut EXCEPT ![t] = @ + 1]
    /\ Go(t, "done") /\ UNCHANGED <<Rest, archive, events>>

\* A subprocess with a timeout; its failures are logged, except a failing write
\* of its output, which ends the scrape.
Symbolicate(t) ==
    /\ At(t, "symbolicate")
    /\ Go(t, "log") \/ Go(t, "done")
    /\ UNCHANGED <<Rest, Disk>>

\* log_event; its exceptions are suppressed.
Log(t) ==
    /\ At(t, "log")
    /\ \/ events' = events \cup {[device |-> t, path |-> scrape[t].result.path,
                                  sha |-> scrape[t].result.sha]}
       \/ UNCHANGED events
    /\ Go(t, "done") /\ UNCHANGED <<Rest, archive, cut>>

-----------------------------------------------------------------------------
(* scraper_loop: gather waits for all; the results are kept; it sleeps.    *)

Gathered ==
    /\ sweep.pc = "run" /\ \A t \in Targets : scrape[t].pc = "done"
    /\ results' = [t \in Targets |-> scrape[t].result]
    /\ scrape' = [t \in Targets |-> Idle]
    /\ sweep' = [pc |-> "sleep", since |-> clock]
    /\ UNCHANGED <<flash, clock, Disk>>

Wake ==
    /\ sweep.pc = "sleep" /\ clock > sweep.since
    /\ scrape' = [t \in Targets |-> [Idle EXCEPT !.pc = "probe"]]
    /\ sweep' = [pc |-> "run", since |-> clock]
    /\ UNCHANGED <<flash, results, clock, Disk>>

\* The process is killed, or its shutdown cancels the task; LAST_RESULTS is in
\* memory.  It starts again in a later second.
Exit ==
    /\ sweep.pc # "down"
    /\ \A t \in Targets : scrape[t].pc = "mark" => cut[t] < MaxCut
    /\ cut' = [t \in Targets |-> IF scrape[t].pc = "mark" THEN cut[t] + 1 ELSE cut[t]]
    /\ scrape' = [t \in Targets |-> Idle] /\ results' = [t \in Targets |-> None]
    /\ sweep' = [pc |-> "down", since |-> clock]
    /\ UNCHANGED <<flash, archive, events, clock>>

Restart ==
    /\ sweep.pc = "down" /\ clock > sweep.since
    /\ scrape' = [t \in Targets |-> [Idle EXCEPT !.pc = "probe"]]
    /\ sweep' = [pc |-> "run", since |-> clock]
    /\ UNCHANGED <<flash, results, clock, Disk>>

Next ==
    \/ Tick \/ Gathered \/ Wake \/ Exit \/ Restart
    \/ \E t \in Targets :
         \/ Flash(t) \/ Unreachable(t) \/ Probe(t) \/ Pull(t) \/ Dedupe(t)
         \/ Save(t) \/ SaveFails(t) \/ Mark(t) \/ MarkFails(t) \/ Symbolicate(t) \/ Log(t)

Spec == Init /\ [][Next]_vars

-----------------------------------------------------------------------------
(* Properties.                                                             *)

\* get_coredumps: list_archived and LAST_RESULTS.
Items(t) == archive[t]
Told(t) ==
    {[path |-> e.path, sha |-> e.sha] : e \in {e \in events : e.device = t}}
      \cup IF results[t] = None \/ results[t].path = None THEN {}
           ELSE {[path |-> results[t].path, sha |-> results[t].sha]}

\* What a row of the dashboard or a last result names is in the archive, under
\* that name and with that content; and a device's dump, which it offers at every
\* sweep until it crashes again, is kept once, and once more only for each time that
\* a write of it was cut off before its sidecar ("we don't want a new file every
\* minute", coredump_scraper.py 21-23).
ArchiveIsTrue ==
    \A t \in Targets :
      /\ \A told \in Told(t) :
           \E f \in Items(t) : f.at = told.path /\ f.dump = told.sha /\ f.sha = told.sha
      /\ \A d \in Dumps : Cardinality({f \in Items(t) : f.dump = d}) <= 1 + cut[t]
=============================================================================

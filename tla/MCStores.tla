------------------------------ MODULE MCStores ------------------------------
(***************************************************************************)
(* Instances of the modules of what is kept, for TLC: notes, media,        *)
(* memory, the accounts at Google and the archive of coredumps.  They      *)
(* share no state: a behaviour is one of the part that Init chooses, and   *)
(* the variables of the others are None throughout.                        *)
(***************************************************************************)
EXTENDS Integers, Sequences, TLC

CONSTANTS
    Parts, None,
    Notes, Editors, Edits, Retries,
    Ids, Blocks, MaxBlocks, MaxMedia, MaxFiles, MaxAge, Ttl, MaxTime,
    Facts, Docs, NumChunks,
    Accounts, Flows, Callers, MaxCalls, Torn,
    Targets, Dumps, MaxClock, MaxCut

VARIABLES
    part,
    row, writer, lock, last, nopen,
    file, reply, clean, now,
    work, saved, useVec, task, told, deleted,
    mem, default, loaded, disk, flow, call, calls,
    flash, archive, events, scrape, results, sweep, clock, cut

N == INSTANCE Notes WITH open <- nopen
M == INSTANCE Media
F == INSTANCE Memory
I == INSTANCE Integrations
C == INSTANCE Coredumps

ASSUME PartsAssumption ==
    Parts \subseteq {"notes", "media", "memory", "integrations", "coredumps"}
ASSUME NotesAssumption == N!EditsAssumption /\ N!RetriesAssumption /\ None \notin N!Rows
ASSUME MediaAssumption == M!IdsAssumption /\ M!BlocksAssumption /\ M!TimesAssumption
ASSUME MemoryAssumption == F!ConstantsAssumption
ASSUME AccountsAssumption == I!DistinctAssumption /\ I!MaxCallsAssumption
ASSUME CoredumpsAssumption == C!DumpsAssumption

nvars == <<row, writer, lock, last, nopen>>
mvars == <<file, reply, clean, now>>
fvars == <<work, saved, useVec, task, told, deleted>>
ivars == <<mem, default, loaded, disk, flow, call, calls>>
cvars == <<flash, archive, events, scrape, results, sweep, clock, cut>>
vars == <<part, nvars, mvars, fvars, ivars, cvars>>

Init ==
    /\ part \in Parts
    /\ IF part = "notes" THEN N!Init
       ELSE row = None /\ writer = None /\ lock = None /\ last = None /\ nopen = None
    /\ IF part = "media" THEN M!Init
       ELSE file = None /\ reply = None /\ clean = None /\ now = None
    /\ IF part = "memory" THEN F!Init
       ELSE /\ work = None /\ saved = None /\ useVec = None /\ task = None
            /\ told = None /\ deleted = None
    /\ IF part = "integrations" THEN I!Init
       ELSE /\ mem = None /\ default = None /\ loaded = None /\ disk = None
            /\ flow = None /\ call = None /\ calls = None
    /\ IF part = "coredumps" THEN C!Init
       ELSE /\ flash = None /\ archive = None /\ events = None /\ scrape = None
            /\ results = None /\ sweep = None /\ clock = None /\ cut = None

Only(p) == part = p /\ part' = part

Next ==
    \/ Only("notes") /\ N!Next /\ UNCHANGED <<mvars, fvars, ivars, cvars>>
    \/ Only("media") /\ M!Next /\ UNCHANGED <<nvars, fvars, ivars, cvars>>
    \/ Only("memory") /\ F!Next /\ UNCHANGED <<nvars, mvars, ivars, cvars>>
    \/ Only("integrations") /\ I!Next /\ UNCHANGED <<nvars, mvars, fvars, cvars>>
    \/ Only("coredumps") /\ C!Next /\ UNCHANGED <<nvars, mvars, fvars, ivars>>

Spec == Init /\ [][Next]_vars

Sym == Permutations(Accounts) \cup Permutations(Callers) \cup Permutations(Targets)
         \cup Permutations(Dumps)

-----------------------------------------------------------------------------
(* The properties of the parts.                                            *)

\* Each field of a note is what was last written to it on purpose (Notes).
FieldsAreLast == part = "notes" => N!FieldsAreLast

\* A media file is there as long as its URL is valid (Media).
FetchIsServed == part = "media" => M!FetchIsServed

\* What was answered with success is on the disk, whole (Memory).
ToldIsWhole == part = "memory" => F!ToldIsWhole

\* No account's tokens are kept under another (Integrations).
OwnTokens == part = "integrations" => I!OwnTokens

\* What is told of a coredump is in the archive, and none is kept twice (Coredumps).
ArchiveIsTrue == part = "coredumps" => C!ArchiveIsTrue
=============================================================================

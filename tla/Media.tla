-------------------------------- MODULE Media --------------------------------
(***************************************************************************)
(* Images for and from the devices.  A reply's code blocks, table and      *)
(* image links are rendered to files, which the device is told and fetches *)
(* by URL; a device uploads a picture and asks about it by its id.  Files  *)
(* are written by threads, and another one cleans up: it removes what is   *)
(* too old, then the oldest files while the store is too full.             *)
(***************************************************************************)
EXTENDS Integers, Sequences, SequencesExt, FiniteSets

CONSTANTS
    Ids,       \* files that are stored: numbers, drawn in turn
    Blocks,    \* what a reply may hold: "code", "table", "image", "prose"
    MaxBlocks, \* bound: the blocks of a reply
    MaxMedia,  \* MAX_MEDIA_PER_RESPONSE
    MaxFiles,  \* max_total_mb, in files
    MaxAge,    \* max_age_hours
    Ttl,       \* the time a signed URL is valid
    MaxTime,   \* bound: time
    None

IdsAssumption == Ids \subseteq Nat /\ IsFiniteSet(Ids)
BlocksAssumption == Blocks \subseteq {"code", "table", "image", "prose"}
TimesAssumption ==
    {MaxBlocks, MaxMedia, MaxFiles, MaxAge, Ttl, MaxTime} \subseteq Nat /\ Ttl <= MaxAge

VARIABLES
    file,  \* the files: when each was written, how manieth it was, where it is
    reply, \* the reply that is rendered, and the media events made of it
    clean, \* cleanup
    now

vars == <<file, reply, clean, now>>

Present == {i \in Ids : file[i].at = "store"}
NoReply == [pc |-> "idle", blocks |-> <<>>, todo |-> <<>>, shown |-> <<>>, ids |-> <<>>,
            kept |-> <<>>]

TypeOK ==
    /\ file \in [Ids -> [at : {"none", "thread", "store", "gone"}, told : BOOLEAN,
                         stuck : BOOLEAN, by : {"reply", "upload"}, time : 0..MaxTime,
                         nth : 0..Cardinality(Ids)]]
    /\ clean.pc \in {"idle", "old", "survey", "full"} /\ now \in 0..MaxTime
    /\ reply.pc \in {"idle", "render", "store", "told"}

Init ==
    /\ file = [i \in Ids |-> [at |-> "none", told |-> FALSE, stuck |-> FALSE,
                              by |-> "upload", time |-> 0, nth |-> 0]]
    /\ reply = NoReply /\ clean = [pc |-> "idle", todo |-> <<>>, total |-> 0, from |-> 0]
    /\ now = 0

Tick == now < MaxTime /\ now' = now + 1 /\ UNCHANGED <<file, reply, clean>>

-----------------------------------------------------------------------------
(* MediaStore.store.                                                       *)

\* A name is drawn and a thread writes the file.
Store(i, by) ==
    /\ file[i].at = "none" /\ \A j \in Ids : file[j].at = "none" => i <= j
    /\ file' = [file EXCEPT ![i].at = "thread", ![i].by = by]

Written(i) ==
    [file[i] EXCEPT !.at = "store", !.time = now,
        !.nth = 1 + Cardinality({j \in Ids : file[j].nth > 0})]

\* upload_media: an image of at most ten megabytes, decoded and scaled; its id is
\* told when it is written.
Upload(i) == Store(i, "upload") /\ UNCHANGED <<reply, clean, now>>

Uploaded(i) ==
    /\ file[i].at = "thread" /\ file[i].by = "upload"
    /\ file' = [file EXCEPT ![i] = [Written(i) EXCEPT !.told = TRUE]]
    /\ UNCHANGED <<reply, clean, now>>

-----------------------------------------------------------------------------
(* process_response.                                                       *)

Of(kind, blocks) == SelectSeq([k \in DOMAIN blocks |-> [n |-> k, kind |-> blocks[k]]],
                              LAMBDA b : b.kind = kind)
First(blocks) == IF blocks = <<>> THEN <<>> ELSE <<Head(blocks)>>

\* All code blocks, then the first table, then all image links.
Order(blocks) == Of("code", blocks) \o First(Of("table", blocks)) \o Of("image", blocks)

Respond ==
    /\ reply.pc = "idle"
    /\ \E n \in 1..MaxBlocks : \E blocks \in [1..n -> Blocks] :
         reply' = [NoReply EXCEPT !.pc = "render", !.blocks = blocks, !.todo = Order(blocks)]
    /\ UNCHANGED <<file, clean, now>>

\* render_code_block, render_table, proxy_image (no more than some redirects and
\* bytes): a failure is logged and the next block is tried.
Render(i) ==
    /\ reply.pc = "render" /\ reply.todo # <<>> /\ Len(reply.shown) < MaxMedia
    /\ \/ /\ Store(i, "reply")
          /\ reply' = [reply EXCEPT !.pc = "store", !.ids = Append(@, i)]
       \/ reply' = [reply EXCEPT !.todo = Tail(@)] /\ UNCHANGED file
    /\ UNCHANGED <<clean, now>>

Rendered(i) ==
    /\ reply.pc = "store" /\ Last(reply.ids) = i /\ file[i].at = "thread"
    /\ file' = [file EXCEPT ![i] = Written(i)]
    /\ reply' = [reply EXCEPT !.pc = "render", !.todo = Tail(@),
                   !.shown = Append(@, Head(reply.todo).n)]
    /\ UNCHANGED <<clean, now>>

\* The events, with signed URLs; strip_rendered_content and its text_update, if
\* there are events.
Tell ==
    /\ reply.pc = "render" /\ (reply.todo = <<>> \/ Len(reply.shown) = MaxMedia)
    /\ file' = [i \in Ids |-> IF i \in ToSet(reply.ids) THEN [file[i] EXCEPT !.told = TRUE]
                                                        ELSE file[i]]
    /\ reply' = [reply EXCEPT !.pc = "told", !.kept =
         IF reply.shown = <<>> THEN [k \in DOMAIN reply.blocks |-> k]
         ELSE SelectSeq([k \in DOMAIN reply.blocks |-> k],
                        LAMBDA k : reply.blocks[k] \notin {"code", "image"})]
    /\ UNCHANGED <<clean, now>>

-----------------------------------------------------------------------------
(* _cleanup_sync, in a thread: at start and every hour.                    *)

Older(i, j) == file[i].nth < file[j].nth
\* Mutant: the newest files first.
ByAgeReversed(ids) ==
    {s \in [1..Cardinality(ids) -> ids] :
        ToSet(s) = ids /\ \A j, k \in DOMAIN s : j < k => Older(s[k], s[j])}

\* The files, the oldest first.
ByAge(ids) ==
    {s \in [1..Cardinality(ids) -> ids] :
        ToSet(s) = ids /\ \A j, k \in DOMAIN s : j < k => Older(s[j], s[k])}

Remove1(i) == file' = [file EXCEPT ![i].at = "gone"]
Fail1(i) == file' = [file EXCEPT ![i].stuck = TRUE]
Clean(pc, todo, total) ==
    clean' = [clean EXCEPT !.pc = pc, !.todo = todo, !.total = total]

CleanStart ==
    /\ clean.pc = "idle"
    /\ clean' = [pc |-> "old", todo |-> SetToSeq(Present), total |-> 0, from |-> now]
    /\ UNCHANGED <<file, reply, now>>

\* A file that was too old when it all began.  An unlink may fail.
CleanOld ==
    /\ clean.pc = "old" /\ clean.todo # <<>>
    /\ LET i == Head(clean.todo) IN
       IF clean.from - file[i].time > MaxAge THEN Remove1(i) \/ Fail1(i) ELSE UNCHANGED file
    /\ Clean("old", Tail(clean.todo), 0)
    /\ UNCHANGED <<reply, now>>

CleanSurvey ==
    /\ clean.pc = "old" /\ clean.todo = <<>>
    /\ \E todo \in ByAge(Present) : Clean("full", todo, Cardinality(Present))
    /\ UNCHANGED <<file, reply, now>>

\* Mutant: the total is not brought down.
CleanFullKeeps ==
    /\ clean.pc = "full"
    /\ IF clean.todo = <<>> \/ clean.total <= MaxFiles
       THEN Clean("idle", <<>>, 0) /\ UNCHANGED file
       ELSE Remove1(Head(clean.todo)) /\ Clean("full", Tail(clean.todo), clean.total)
    /\ UNCHANGED <<reply, now>>

CleanFull ==
    /\ clean.pc = "full"
    /\ IF clean.todo = <<>> \/ clean.total <= MaxFiles
       THEN Clean("idle", <<>>, 0) /\ UNCHANGED file
       ELSE \/ Remove1(Head(clean.todo)) /\ Clean("full", Tail(clean.todo), clean.total - 1)
            \/ Fail1(Head(clean.todo)) /\ Clean("full", Tail(clean.todo), clean.total)
    /\ UNCHANGED <<reply, now>>

Next ==
    \/ Tick \/ Respond \/ Tell \/ CleanStart \/ CleanOld \/ CleanSurvey \/ CleanFull
    \/ \E i \in Ids : Upload(i) \/ Uploaded(i) \/ Render(i) \/ Rendered(i)

Spec == Init /\ [][Next]_vars

-----------------------------------------------------------------------------
(* Properties.                                                             *)

\* A URL that was signed, and that serve_media still takes; what it then finds.
Valid(i) == file[i].told /\ now - file[i].time <= Ttl
Served(i) == i \in Present

\* The files that were written after i, or could not be removed.
Ahead(i) == {j \in Ids \ {i} : file[j].nth > file[i].nth \/ file[j].stuck}

\* What a device was told of, or has uploaded and will ask about, is there as long
\* as its URL is valid, whatever is stored and cleaned meanwhile, unless newer
\* files alone fill the store.
FetchIsServed == \A i \in Ids :
    Valid(i) => Served(i) \/ Cardinality(Ahead(i)) >= MaxFiles

\* A block is taken out of the text only if its image was sent ("Remove code
\* blocks and image URLs from text that were rendered as media").
StrippedIsShown == reply.pc = "told" => \A k \in DOMAIN reply.blocks :
    k \in ToSet(reply.kept) \cup ToSet(reply.shown)
=============================================================================

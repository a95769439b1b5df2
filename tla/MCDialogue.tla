----------------------------- MODULE MCDialogue -----------------------------
(***************************************************************************)
(* Instances of the modules of a dialogue for TLC.  They share no state:   *)
(* a behaviour is one of the part that Init chooses, and the variables of  *)
(* the others are None throughout.                                         *)
(***************************************************************************)
EXTENDS Integers, Sequences, TLC

CONSTANTS
    Parts, None, Turns,
    History, MaxToolCalls, FirstWindow, NativeWindow, Window, OldWeight, Budget,
    MaxPurges,
    Kinds, Slots, Names, MaxTokens,
    Fleet, Needs, Modes, MaxMakes,
    Pieces, MaxPieces,
    Conns, Agents, Speakers, MaxFails,
    Backends, Ends, MaxUtterances,
    MaxStarts, MaxWords, BufferCap,
    Users, Makes, MaxWarms

VARIABLES
    part,
    log, cturn, purges,
    kind, llm, lturn,
    mode, instances, made, lock, rturn, closing,
    reply, held, pending, shown, done,
    registry, open, fails, tturn, tsaid, agent, turns,
    stt, tts, utask, cancel, flags, usaid, uturns,
    dconn, pipe, loop, post, told, notes, fed, lost,
    fheld, fmade, user, warm, close, warms

cvars == <<log, cturn, purges>>
lvars == <<kind, llm, lturn>>
rvars == <<mode, instances, made, lock, rturn, closing>>
mvars == <<reply, held, pending, shown, done>>
tvars == <<registry, open, fails, tturn, tsaid, agent, turns>>
uvars == <<stt, tts, utask, cancel, flags, usaid, uturns>>
dvars == <<dconn, pipe, loop, post, told, notes, fed, lost>>
fvars == <<fheld, fmade, user, warm, close, warms>>

\* A small local model, one that sees, and one in the cloud; and what is asked of them.
TheFleet ==
    {[id |-> "small", caps |-> {"chat"}, tier |-> "local", priority |-> 1],
     [id |-> "eyes", caps |-> {"chat", "vision"}, tier |-> "local", priority |-> 2],
     [id |-> "cloud", caps |-> {"chat", "vision"}, tier |-> "cloud", priority |-> 0]}
TheNeeds == {{"chat"}, {"chat", "vision"}}

C == INSTANCE Conversation WITH Paths <- {"prose", "native", "gateway"},
         Faults <- FALSE, turn <- cturn
L == INSTANCE Llm WITH turn <- lturn
R == INSTANCE Router WITH turn <- rturn
M == INSTANCE Markup WITH Names <- {"remember"}, MaxToken <- 2
T == INSTANCE TextTurn WITH DeviceOf <- [c \in Conns |-> "device"],
         Paths <- {"local", "gateway", "vision", "background"},
         MaxTools <- 2, MaxTurns <- 1, turn <- tturn, said <- tsaid
U == INSTANCE Utterance WITH Kinds <- Ends, MaxTurns <- MaxUtterances, task <- utask,
         said <- usaid, turns <- uturns
D == INSTANCE Dictation WITH conn <- dconn
F == INSTANCE Fallback WITH held <- fheld, made <- fmade

ASSUME PartsAssumption ==
    Parts \subseteq {"conversation", "llm", "router", "markup", "text turn",
                     "utterance", "dictation", "fallback"}
ASSUME ConversationAssumption ==
    C!PathsAssumption /\ C!NumbersAssumption /\ C!BudgetAssumption
ASSUME LlmAssumption ==
    /\ L!KindsAssumption /\ L!MaxTokensAssumption /\ L!ToolsAssumption
    /\ None \notin {"done", "cut"}
ASSUME RouterAssumption == R!FleetAssumption /\ None \notin Turns
ASSUME MarkupAssumption == M!BoundsAssumption
ASSUME TextTurnAssumption == T!PathsAssumption /\ T!BoundsAssumption
ASSUME UtteranceAssumption ==
    U!BackendsAssumption /\ U!KindsAssumption /\ U!BoundsAssumption
ASSUME DictationAssumption == D!BoundsAssumption /\ None \notin D!Ids
ASSUME FallbackAssumption == F!MaxWarmsAssumption /\ None \notin Makes

Init ==
    /\ part \in Parts
    /\ IF part = "conversation" THEN C!Init ELSE log = None /\ cturn = None /\ purges = None
    /\ IF part = "llm" THEN L!Init ELSE kind = None /\ llm = None /\ lturn = None
    /\ IF part = "router" THEN R!Init
       ELSE /\ mode = None /\ instances = None /\ made = None /\ lock = None
            /\ rturn = None /\ closing = None
    /\ IF part = "markup" THEN M!Init
       ELSE reply = None /\ held = None /\ pending = None /\ shown = None /\ done = None
    /\ IF part = "text turn" THEN T!Init
       ELSE /\ registry = None /\ open = None /\ fails = None /\ tturn = None
            /\ tsaid = None /\ agent = None /\ turns = None
    /\ IF part = "utterance" THEN U!Init
       ELSE /\ stt = None /\ tts = None /\ utask = None /\ cancel = None
            /\ flags = None /\ usaid = None /\ uturns = None
    /\ IF part = "dictation" THEN D!Init
       ELSE /\ dconn = None /\ pipe = None /\ loop = None /\ post = None
            /\ told = None /\ notes = None /\ fed = None /\ lost = None
    /\ IF part = "fallback" THEN F!Init
       ELSE /\ fheld = None /\ fmade = None /\ user = None /\ warm = None
            /\ close = None /\ warms = None

\* The others stay what they are.
Only(p) == part = p /\ part' = part
Rest(p) ==
    /\ IF p = "conversation" THEN TRUE ELSE UNCHANGED cvars
    /\ IF p = "llm" THEN TRUE ELSE UNCHANGED lvars
    /\ IF p = "router" THEN TRUE ELSE UNCHANGED rvars
    /\ IF p = "markup" THEN TRUE ELSE UNCHANGED mvars
    /\ IF p = "text turn" THEN TRUE ELSE UNCHANGED tvars
    /\ IF p = "utterance" THEN TRUE ELSE UNCHANGED uvars
    /\ IF p = "dictation" THEN TRUE ELSE UNCHANGED dvars
    /\ IF p = "fallback" THEN TRUE ELSE UNCHANGED fvars

Next ==
    \/ Only("conversation") /\ C!Next /\ Rest("conversation")
    \/ Only("llm") /\ L!Next /\ Rest("llm")
    \/ Only("router") /\ R!Next /\ Rest("router")
    \/ Only("markup") /\ M!Next /\ Rest("markup")
    \/ Only("text turn") /\ T!Next /\ Rest("text turn")
    \/ Only("utterance") /\ U!Next /\ Rest("utterance")
    \/ Only("dictation") /\ D!Next /\ Rest("dictation")
    \/ Only("fallback") /\ F!Next /\ Rest("fallback")

vars == <<part, cvars, lvars, rvars, mvars, tvars, uvars, dvars, fvars>>

Spec == Init /\ [][Next]_vars

Sym == Permutations(Turns)

-----------------------------------------------------------------------------
(* The properties of the parts.                                            *)

\* Whenever the model is asked, it sees the question of its own turn and all that
\* the turn's tools have said (Conversation).
ContextIsComplete == part = "conversation" => C!ContextIsComplete

\* A reply that ends on its own has been said whole, of one model only, and every
\* tool it showed at work has been shown and ended once (Llm).
ReplyIsWhole == part = "llm" => L!SaidWhole /\ L!SpinnersStop

\* No backend of the fleet runs twice (Router).
OneInstance == part = "router" => R!OneInstance

\* However a reply is cut into tokens, its tool calls are not shown and its words
\* are (Markup).
NothingLost == part = "markup" => M!NothingLost /\ M!NoMarkupShown

\* Whatever fails, a typed turn ends for the device with the one frame it waits for,
\* speech closed, and with words about what its tools have done (TextTurn).
TurnIsTold == part = "text turn" => T!TurnIsTold /\ T!ToolsAreTold

\* What is spoken is what was shown, once and in order, and speech that was begun
\* is ended (Utterance).
SpokenIsShown == part = "utterance" => U!SpokenIsShown /\ U!SpeechCloses

\* The text, the note and the summary of a dictation are its own, and none of an
\* earlier one comes late (Dictation).
TextIsOwn == part = "dictation" => D!TextIsOwn /\ D!SummaryIsOwn /\ D!NoStaleSummary

\* No fallback engine is left running by a shutdown (Fallback).
NoneLeft == part = "fallback" => F!NoneLeft
=============================================================================

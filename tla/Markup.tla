------------------------------- MODULE Markup -------------------------------
(***************************************************************************)
(* What a device is shown of a reply that streams in while it may turn out *)
(* to be a tool call.  The engine holds back what may be the beginning of  *)
(* an opener of a call (_split_at_marker_boundary) and the text path holds *)
(* back and removes what is left of one (stream_local_text_with_tool_      *)
(* filter).  Text is a sequence of pieces as fine as the code tells apart: *)
(* a model's token is any number of them.                                  *)
(***************************************************************************)
EXTENDS Integers, Sequences, SequencesExt, FiniteSets, FiniteSetsExt

CONSTANTS
    Pieces,    \* the pieces replies are made of
    Names,     \* the registered tools, pieces too
    MaxPieces, \* bound: the length of a reply
    MaxToken   \* bound: the pieces in a token

BoundsAssumption == MaxPieces \in Nat /\ MaxToken \in Nat \ {0}

\* _TOOL_MARKER_OPENERS_STATIC.
Openers == {<<"<", "tool", ">">>, <<"[", "tool", ">">>, <<"<", "tool", "]">>,
            <<"[", "tool", "]">>, <<"<", "tool_call", ">">>}
NameOpeners == {<<"[", name, "]">> : name \in Names}
\* _PARTIAL_MARKERS of the text path.
PartialMarkers == {<<"<", "tool">>, <<"</", "tool">>, <<"<", "args">>, <<"</", "args">>}

VARIABLES
    reply,   \* what the model has said: full_response
    held,    \* what the engine holds back
    pending, \* what the text path holds back
    shown,   \* what the device was sent
    done

vars == <<reply, held, pending, shown, done>>

Init == reply = <<>> /\ held = <<>> /\ pending = <<>> /\ shown = <<>> /\ done = FALSE

\* Where op begins in text; how much of text comes before the first of ops.
At(op, text) == {i \in 0..(Len(text) - Len(op)) : SubSeq(text, i + 1, i + Len(op)) = op}
Before(ops, text) == Min({Len(text)} \cup UNION {At(op, text) : op \in ops})

\* The longest beginning of an opener that text ends with begins here.
TailPartial(text) ==
    Min({Len(text)} \cup
        UNION {{Len(text) - k : k \in {k \in 1..(Len(op) - 1) :
                  k <= Len(text) /\ IsSuffix(SubSeq(op, 1, k), text)}} : op \in Openers})

\* Mutant: only complete openers are held back.
SplitComplete(text) == Before(Openers \cup NameOpeners, text)

\* _split_at_marker_boundary: how much of text may be shown now.
Split(text) == Min({Before(Openers \cup NameOpeners, text), TailPartial(text)})

\* The text path holds from the last partial marker on.
HoldAt(text) ==
    LET found == UNION {At(op, text) : op \in PartialMarkers} IN
    IF found = {} THEN Len(text) ELSE Max(found)

\* One token of the model through both filters.
Feed(token) ==
    LET seen == held \o token
        cut == Split(seen)
        text == pending \o SubSeq(seen, 1, cut)
        at == HoldAt(text)
    IN  /\ reply' = reply \o token
        /\ held' = SubSeq(seen, cut + 1, Len(seen))
        /\ pending' = SubSeq(text, at + 1, Len(text))
        /\ shown' = shown \o SubSeq(text, 1, at)
        /\ UNCHANGED done

Token ==
    /\ ~done
    /\ \E n \in 1..MaxToken : \E token \in [1..n -> Pieces] :
         Len(reply) + n <= MaxPieces /\ Feed(token)

\* Mutant: what is held at the end of the reply is forgotten.
EndForgets ==
    /\ ~done /\ done' = TRUE /\ held' = <<>> /\ pending' = <<>>
    /\ UNCHANGED <<reply, shown>>

\* The reply ends and no call was made of it: what is held is shown too (a whole
\* <tool>..</args> block would be cut out of it; no reply here has room for one).
End ==
    /\ ~done /\ done' = TRUE
    /\ shown' = shown \o pending \o held /\ held' = <<>> /\ pending' = <<>>
    /\ UNCHANGED reply

Next == Token \/ End

Spec == Init /\ [][Next]_vars

\* While the reply streams, nothing of an opener of a call is shown, however the
\* model cuts its text into tokens: what is shown comes before the first opener.
NoMarkupShown == ~done => Len(shown) <= Before(Openers, reply)

\* Nothing is lost, repeated or reordered by holding it back: what is shown and
\* what is held make the reply, and when the reply is over nothing is held.
NothingLost ==
    /\ shown \o pending \o held = reply
    /\ done => shown = reply

\* The name of a registered tool in brackets is never shown ("The complete-marker
\* check still catches [NAME] once the close-bracket arrives").
NoNameShown == ~done => Len(shown) <= Before(NameOpeners, reply)
=============================================================================

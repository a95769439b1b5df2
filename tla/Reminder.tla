------------------------------ MODULE Reminder ------------------------------
(***************************************************************************)
(* What the scheduler promises about one reminder, without tasks, queues,  *)
(* connections or a clock.  A reminder is pending from its creation until  *)
(* it is fired, cancelled or failed, and these three are final.  A card    *)
(* leaves the scheduler (to a socket, to the turn gate or to the offline   *)
(* queue) only as the end of an attempt that began while the reminder was  *)
(* pending, and a reminder with a device is fired only after a card left.  *)
(***************************************************************************)
CONSTANTS Notifs,      \* reminder identifiers
          Addressed    \* the reminders that name a device

VARIABLES status,      \* absent, pending, fired, cancelled or failed
          attempts,    \* reminders some attempt to deliver is under way for
          handed       \* reminders a card has left for

vars == <<status, attempts, handed>>

Statuses == {"absent", "pending", "fired", "cancelled", "failed"}
Final == {"fired", "cancelled", "failed"}

Init ==
    /\ status = [n \in Notifs |-> "absent"]
    /\ attempts = {}
    /\ handed = {}

Move(n, from, to) ==
    /\ status[n] = from
    /\ status' = [status EXCEPT ![n] = to]
    /\ UNCHANGED <<attempts, handed>>

Create(n) == Move(n, "absent", "pending")
Cancel(n) == Move(n, "pending", "cancelled")
Fail(n) == Move(n, "pending", "failed")

Fire(n) ==
    /\ n \in Addressed => n \in handed
    /\ Move(n, "pending", "fired")

Begin(n) ==
    /\ status[n] = "pending"
    /\ attempts' = attempts \cup {n}
    /\ UNCHANGED <<status, handed>>

(* The card of an attempt leaves.  A busy gate takes the card in the same  *)
(* step that marks the row, so the hand-over may carry the mark with it.   *)
HandOver(n) ==
    /\ n \in attempts
    /\ handed' = handed \cup {n}
    /\ status' \in {status, [status EXCEPT ![n] = IF @ = "pending"
                                                   THEN "fired" ELSE @]}
    /\ UNCHANGED attempts

(* Attempts end: their task returns, is cancelled, or dies with the        *)
(* process.                                                                *)
End ==
    /\ attempts' \subseteq attempts
    /\ UNCHANGED <<status, handed>>

Next ==
    \/ \E n \in Notifs :
          \/ Create(n) \/ Cancel(n) \/ Fail(n) \/ Fire(n)
          \/ Begin(n) \/ HandOver(n)
    \/ End

Spec == Init /\ [][Next]_vars
=============================================================================

---------------------------- MODULE MCScheduler ----------------------------
(* Instances of Scheduler for TLC. *)
EXTENDS Scheduler, TLC

CONSTANTS n1, n2, n3, d1

OneDevice == [n \in Notifs |-> d1]
OneBroadcast == [n \in Notifs |-> IF n = n2 THEN None ELSE d1]

Sym == Permutations(Tasks) \cup Permutations(Requests) \cup Permutations(Conns)
=============================================================================

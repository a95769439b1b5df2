------------------------------ MODULE MCTurns ------------------------------
(* Instances of Turns for TLC. *)
EXTENDS Turns, TLC

Sym == Permutations(Voices) \cup Permutations(Cards)
=============================================================================

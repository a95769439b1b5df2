--------------------------- MODULE MCConnections ---------------------------
(* Instances of Connections for TLC. *)
EXTENDS Connections, TLC

Sym == Permutations(Conns) \cup Permutations(Sessions)
=============================================================================

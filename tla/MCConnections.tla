---------------------------- MODULE MCConnections ----------------------------
(***************************************************************************)
(* Connections for TLC: isolates are interchangeable.                      *)
(***************************************************************************)
EXTENDS Connections, TLC

Symmetry == Permutations(Isolates)

=============================================================================

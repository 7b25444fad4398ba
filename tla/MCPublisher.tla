----------------------------- MODULE MCPublisher -----------------------------
(* Publisher on small instances: the isolates are interchangeable and so    *)
(* are the lease ids.                                                       *)
EXTENDS Publisher, TLC

Symmetry == Permutations(Workers) \cup Permutations(Leases)

=============================================================================

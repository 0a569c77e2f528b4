--------------------------- MODULE MCCommandLog ----------------------------
(***************************************************************************)
(* Instances of Connection with its history for TLC.                       *)
(***************************************************************************)
EXTENDS CommandLog, TLC

\* Goroutines and descriptors are interchangeable.
Symmetry == Permutations(G) \cup Permutations(Fd)

=============================================================================

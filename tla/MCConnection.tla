--------------------------- MODULE MCConnection ----------------------------
(***************************************************************************)
(* Instances of Connection for TLC.                                        *)
(***************************************************************************)
EXTENDS Connection, TLC

\* Goroutines and descriptors are interchangeable.
Symmetry == Permutations(G) \cup Permutations(Fd)

=============================================================================

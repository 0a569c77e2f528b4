----------------------------- MODULE MCClients -----------------------------
(***************************************************************************)
(* Instances of Clients for TLC.                                           *)
(***************************************************************************)
EXTENDS Clients, TLC

\* Descriptors are interchangeable, and the goroutines of a client are.
Symmetry == Permutations(G) \cup Permutations(H) \cup Permutations(Fd)

=============================================================================

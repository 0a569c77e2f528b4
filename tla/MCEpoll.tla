------------------------------ MODULE MCEpoll ------------------------------
(***************************************************************************)
(* Instances of Epoll for TLC.                                             *)
(***************************************************************************)
EXTENDS Epoll, TLC

\* Descriptors and goroutine names are interchangeable.
Symmetry == Permutations(Fd) \cup Permutations(WaitId)

=============================================================================

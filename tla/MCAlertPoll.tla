------------------------------ MODULE MCAlertPoll ------------------------------
(* Instances of AlertPoll for TLC. *)
EXTENDS AlertPoll, TLC

Symmetry == Permutations(Route)
=============================================================================

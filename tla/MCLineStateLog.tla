---------------------------- MODULE MCLineStateLog ----------------------------
(* Instances of LineStateLog for TLC. *)
EXTENDS LineStateLog, TLC
===============================================================================

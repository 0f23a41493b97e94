----------------------------- MODULE MCLogging -----------------------------
(* Instances of Logging for TLC. *)
EXTENDS Logging

MCLevel == {0, 1}
=============================================================================

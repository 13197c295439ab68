----------------------------- MODULE MCEventLog ----------------------------
(***************************************************************************)
(* Instances of EventLog for model checking.                               *)
(***************************************************************************)
EXTENDS EventLog

=============================================================================

---------------------------- MODULE MCResilient ----------------------------
(***************************************************************************)
(* Instances of Resilient for model checking.                              *)
(***************************************************************************)
EXTENDS Resilient

=============================================================================

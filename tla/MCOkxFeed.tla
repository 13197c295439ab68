----------------------------- MODULE MCOkxFeed -----------------------------
(***************************************************************************)
(* Instances of OkxFeed for model checking.                                *)
(***************************************************************************)
EXTENDS OkxFeed

=============================================================================

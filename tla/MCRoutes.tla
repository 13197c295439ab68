------------------------------ MODULE MCRoutes ------------------------------
(***************************************************************************)
(* An instance of Routes, and so of Oms, for model checking.               *)
(***************************************************************************)
EXTENDS Routes

=============================================================================

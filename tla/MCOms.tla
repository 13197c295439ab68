------------------------------- MODULE MCOms -------------------------------
(***************************************************************************)
(* Instances of Oms for model checking.                                    *)
(***************************************************************************)
EXTENDS Oms, TLC

ClientSymmetry == Permutations(Clients)

=============================================================================

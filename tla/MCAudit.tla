------------------------------- MODULE MCAudit -------------------------------
(***************************************************************************)
(* Instances of Audit for model checking.                                  *)
(***************************************************************************)
EXTENDS Audit, TLC

ClientSymmetry == Permutations(Clients)

=============================================================================

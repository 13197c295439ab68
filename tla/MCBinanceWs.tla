---------------------------- MODULE MCBinanceWs ----------------------------
(***************************************************************************)
(* Instances of BinanceWs for model checking.                              *)
(***************************************************************************)
EXTENDS BinanceWs

=============================================================================

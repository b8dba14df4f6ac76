-------------------------------- MODULE MCVault --------------------------------
(***************************************************************************)
(* Vault for TLC: it has no parameters and its state space is finite.      *)
(***************************************************************************)
EXTENDS Vault
===============================================================================

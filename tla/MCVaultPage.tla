---------------------------- MODULE MCVaultPage ----------------------------
(* Instances of VaultPage for TLC.                                         *)
EXTENDS VaultPage
=============================================================================

--------------------------- MODULE MCVaultProofs ---------------------------
(* Instances of VaultProofs for TLC.                                       *)
EXTENDS VaultProofs, TLC

\* The names of secrets and of challenges are interchangeable.
Interchangeable == Permutations(Secrets) \cup Permutations(Challenges)
=============================================================================

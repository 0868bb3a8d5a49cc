---------------------------- MODULE MCVaultKeys ----------------------------
(* Instances of VaultKeys for TLC.                                         *)
EXTENDS VaultKeys, TLC

\* No definition tells two servers, vaults, data keys or phrases apart.
Interchangeable ==
    UNION {Permutations(S) : S \in {Servers, Vaults, DataKeys, Phrases}}

AllRequests == RequestKinds
=============================================================================

----------------------------- MODULE MCHolders -----------------------------
EXTENDS Holders, TLC

Symmetry == Permutations(Processes) \cup Permutations(Vaults)
=============================================================================

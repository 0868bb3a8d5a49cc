--------------------------- MODULE MCUnlockShare ---------------------------
(* Instances of UnlockShare for TLC.                                       *)
EXTENDS UnlockShare, TLC

\* Processes are interchangeable; used where no liveness is checked.
Interchangeable == Permutations(Processes)
=============================================================================

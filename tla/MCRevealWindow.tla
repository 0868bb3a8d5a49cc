--------------------------- MODULE MCRevealWindow ---------------------------
(* Instances of RevealWindow for TLC.                                      *)
EXTENDS RevealWindow
=============================================================================

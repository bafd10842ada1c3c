--------------------------- MODULE MCLutronHistory --------------------------
(* The same outputs and calls, with the history variables.                 *)
EXTENDS MCLutron, LutronHistory
=============================================================================

------------------------------ MODULE MCLutron ------------------------------
(* Outputs 5 and 59: the digits of the first begin the second.  One light  *)
(* is turned on, the levels of both are asked for.                         *)
EXTENDS Lutron, TLC

CONSTANTS l5, l59, c1, monitor

MCAlike == (l5 :> {l5, l59}) @@ (l59 :> {l59})
MCAsked == {[op |-> "turn_on", light |-> l59, arg |-> 0],
            [op |-> "check_percent", light |-> l5, arg |-> 0],
            [op |-> "check_is_on", light |-> l59, arg |-> 0]}
=============================================================================

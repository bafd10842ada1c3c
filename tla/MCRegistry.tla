----------------------------- MODULE MCRegistry -----------------------------
(* Two owners of a server register two switches, two lights and a name     *)
(* that differs from another one in case only; the last device overflows   *)
(* the port counter.                                                       *)
EXTENDS Registry

CONSTANTS h1, h2, fan, FAN, lamp, spot, tv

MCNames  == {fan, FAN, lamp, spot, tv}
MCLower  == [n \in MCNames |-> IF n = FAN THEN fan ELSE n]
MCUuid   == [n \in MCNames |-> n]
MCScript == (h1 :> <<lamp, fan, FAN, spot, tv>>) @@ (h2 :> <<FAN>>)
=============================================================================

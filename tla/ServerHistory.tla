--------------------------- MODULE ServerHistory ----------------------------
(***************************************************************************)
(* Server with a history variable, for the properties that relate the      *)
(* several calls of a request to each other.                               *)
(***************************************************************************)
EXTENDS Server

VARIABLE
  calm         \* calm[t]: nobody interfered with t's current phase

\* The hardware of a driver below d is moved on behalf of another thread.
Meddled(t, d) == \E e \in Below[d] : MovedByOther(e, t)

\* History: when t's phase started, its devices were at rest, and nobody has
\* meddled with those that it still has to call.
Calm ==
  calm' = [t \in Threads |->
    IF job[t] = None \/ job'[t] = None THEN FALSE
    ELSE IF job[t].todo = <<>>
    THEN \A c \in ToSet(job'[t].todo) : \A e \in Below[c.dev] : Honest(e)
    ELSE calm[t] /\ \A c \in ToSet(job[t].todo) : ~Meddled(t, c.dev)]

HInit == SInit /\ calm = [t \in Threads |-> FALSE]
HNext == SNext /\ Calm
HSpec == HInit /\ [][HNext]_<<svars, calm>>

-----------------------------------------------------------------------------
(* Properties.                                                             *)

\* The last call of a request to device d is about to be answered.
Concluding(d, phases) ==
  /\ act[d].pc = "return" /\ caller[d] = 0 /\ holder[d] # None
  /\ job[holder[d]].phase \in phases /\ calm[holder[d]]
  /\ Below[d] \cap (Faulty \cup Panicky) = {}

\* The percentage and the state that a Hue or WeMo answer reports are two
\* calls, but unless somebody else commands the device in between they fit
\* together: a device, or a group, reports a percentage above 0 iff it is on.
\* A WeMo request is also answered for a group that has members that are not
\* dimmable; one of those may be on while the percentage is 0.
AnswersFitTogether ==
  \A d \in Devices :
    (/\ Concluding(d, {"get", "describe"}) /\ act[d].op = "check_is_on"
     /\ job[holder[d]].phase = "get" => Below[d] \subseteq Dimmable
     /\ job[holder[d]].said # None)
    => (job[holder[d]].said > 0 <=> act[d].val = On)

\* The level that a Hue or WeMo request, one that sets a brightness or turns
\* the device off, asks of a device.
AskedLevel(d, r) ==
  LET percent == IF r.kind = "set" THEN Capped(r.bri, 100)
                 ELSE hue_brightness_to_percent(r.bri) IN
  IF r.bri = None THEN 0
  ELSE IF d \in Dimmable THEN percent
  ELSE IF percent > 0 THEN MaxLevel ELSE 0

\* When a request that sets a brightness or turns off is over and nobody
\* interfered, every dimmable device below it is moving to the brightness that
\* was asked for, also if the request turned the device on or off too, and
\* every device that is not dimmable is on or off accordingly.
LastWordWins ==
  \A d \in Devices :
    LET r == job[holder[d]].req IN
    (/\ Concluding(d, {"put", "set"}) /\ Len(job[holder[d]].todo) = 1
     /\ r.bri # None \/ r.on = Off)
    => \A e \in Below[d] : goal[e] = AskedLevel(e, r)
=============================================================================

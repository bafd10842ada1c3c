--------------------------- MODULE DeviceHistory ----------------------------
(***************************************************************************)
(* VirtualDevices with history variables, for the properties that relate   *)
(* what a call answers to what happened before it or meanwhile.            *)
(***************************************************************************)
EXTENDS VirtualDevices

VARIABLES
  clean,       \* clean[g]: nobody interfered with the group call in progress
  seenOn       \* seenOn[d]: a check since the last command found d's hardware on

hvars == <<vars, clean, seenOn>>

CheckStep(d)   == Leaf(d, "drive") /\ act[d].op = "check_is_on" /\ act'[d] # act[d]

HInit ==
  /\ Init
  /\ clean = [d \in Devices |-> FALSE]
  /\ seenOn = [d \in Devices |-> FALSE]

HNext ==
  /\ Next
  /\ clean' = [g \in Devices |->
       IF holder'[g] = None THEN FALSE
       ELSE IF holder[g] = None THEN \A d \in Below[g] : Honest(d)
       ELSE clean[g] /\ \A d \in Below[g] : ~MovedByOther(d, holder[g])]
  /\ seenOn' = [d \in Devices |->
       IF CommandStep(d) THEN FALSE
       ELSE seenOn[d] \/ (CheckStep(d) /\ level[d] > 0)]

HSpec == HInit /\ [][HNext]_hvars

-----------------------------------------------------------------------------
\* The group call in progress is over and nothing went wrong underneath: it
\* started on honest members at rest, nobody else moved them meanwhile, and no
\* driver fails.
Undisturbed(g) ==
  /\ Kind[g] = "group" /\ act[g].pc = "return" /\ clean[g]
  /\ Below[g] \cap (Faulty \cup Panicky) = {}

Delivered(g) == \A d \in Below[g] : StateOf(goal[d]) = Desired(act[g].op, act[g].arg)

\* An undisturbed turn_off or set_percent has reached every raw driver below
\* the group, also through nested groups and members that occur twice, and an
\* undisturbed turn_on those of a group without groups in it.
GroupDelivers ==
  \A g \in Devices :
    (Undisturbed(g) /\ act[g].op \in Commands /\ (act[g].op = "turn_on" => Flat(g)))
    => Delivered(g)

\* What a command that went well has done to member m of g: the drivers below it
\* are told, but for those whose check may have failed, which counts as Off and
\* saves them from a turn_off; turn_on leaves it at one driver that is on when
\* the member is a group.
Served(g, m) ==
  IF act[g].op = "turn_on" /\ Kind[m] = "group"
  THEN \E d \in Below[m] : goal[d] > 0
  ELSE \A d \in Below[m] : \/ act[g].op = "turn_off" /\ d \in Faulty
                           \/ StateOf(goal[d]) = Desired(act[g].op, act[g].arg)

\* A command of a group that nobody interfered with and that reports no failure
\* has served every member, also those after a member that could not be asked
\* whether it is on (virtual_device.rs:361, 374), and in nested groups.
SuccessIsDelivered ==
  \A g \in Devices :
    (/\ Kind[g] = "group" /\ act[g].pc = "return" /\ clean[g]
     /\ act[g].op \in Commands /\ act[g].val \in {On, Off})
    => \A i \in 1..Len(Members[g]) : Served(g, Members[g][i])

\* virtual_device.rs:350 "allows a list of devices to work together as a
\* single device", :133 "turn the device on": an undisturbed turn_on reaches
\* every raw driver below any group, whatever it is made of.
TurnOnReachesEveryMember ==
  \A g \in Devices : (Undisturbed(g) /\ act[g].op = "turn_on") => Delivered(g)

\* When moreover the hardware follows at once, the answer of an undisturbed
\* command or check agrees with it: On iff some member is on.
GroupAnswersTruly ==
  \A g \in Devices :
    (/\ Undisturbed(g) /\ Below[g] \cap Slow = {}
     /\ act[g].op \in Commands \cup {"check_is_on"})
    => act[g].val = IF \E d \in Below[g] : level[d] > 0 THEN On ELSE Off

\* lib.rs:234-236: check_is_on "will lie and return ON after a call to
\* ::turn_on() until your underlying implementation [...] actually does return
\* ON".  So once a check met hardware that is on, later checks tell the truth:
\* none finds the hardware off and answers On.
LieEndsWhenDeviceIsOn ==
  [][\A d \in Devices : (CheckStep(d) /\ seenOn[d] /\ level[d] = 0)
                            => act'[d].val # On]_hvars
=============================================================================

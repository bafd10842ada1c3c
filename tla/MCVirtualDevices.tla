-------------------------- MODULE MCVirtualDevices --------------------------
(* Instances of VirtualDevices: a house, a single device, and pairs.       *)
EXTENDS VirtualDevices, TLC

CONSTANTS t1, t2

MCThreads == {t1, t2}
Symmetry  == Permutations(MCThreads)

Ask(d, op, p) == [dev |-> d, op |-> op, arg |-> p]

\* A polling, an instant-on and a plain device, a group over the last two, and
\* two groups over that group: with once more the plain device, and with the
\* polling one.
HouseKind     == <<"polling", "instant", "plain", "group", "group", "group">>
HouseMembers  == << <<>>, <<>>, <<>>, <<2, 3>>, <<4, 3>>, <<4, 1, 3>> >>
HouseRequests == {Ask(6, "turn_on", 0), Ask(5, "turn_off", 0), Ask(5, "set_percent", MaxLevel),
                  Ask(4, "turn_on", 0), Ask(2, "check_is_on", 0), Ask(1, "turn_on", 0)}

\* A single InstantOnDevice.
SingleKind     == <<"instant">>
SingleMembers  == << <<>> >>
SingleRequests == {Ask(1, op, 0) : op \in {"turn_on", "turn_off", "check_is_on"}}

\* Two plain devices and their group; an instant-on and a polling device.
PairKind     == <<"plain", "instant", "group", "polling", "group">>
PairMembers  == << <<>>, <<>>, <<1, 2>>, <<>>, <<2, 4>> >>
PairRequests == {Ask(3, "turn_on", 0), Ask(5, "turn_off", 0), Ask(2, "turn_on", 0)}
=============================================================================

------------------------ MODULE DeviceHistoryProofs ------------------------
(***************************************************************************)
(* Proofs about DeviceHistory: what a call into a group delivers and       *)
(* answers when nobody interferes.                                         *)
(***************************************************************************)
EXTENDS DeviceHistory, GroupProofs

\* A call that nobody interfered with goes as it should.
CleanGoes == \A g \in Devices : clean[g] => holder[g] # None /\ Goes(g)

\* The inductive invariant.
GInv == IInv /\ AInv /\ CInv /\ EInv /\ CleanGoes

\* At the start no call is under way.
LEMMA InitGInv == HInit => GInv
<1> SUFFICES ASSUME HInit PROVE GInv
  OBVIOUS
<1>1. IInv /\ AInv /\ CInv /\ EInv
  BY InitIInv, InitAInv, InitCInv, InitEInv DEF HInit
<1>2. CleanGoes
  BY DEF HInit, CleanGoes
<1> QED
  BY <1>1, <1>2 DEF GInv

\* Honest hardware is ready for every call.
LEMMA HonestIsReady ==
  ASSUME NEW g, \A d \in Below[g] : Honest(d)
  PROVE  \A op : Ready(g, op)
BY DEF Honest, Ready

\* The invariant of undisturbed calls is inductive.
LEMMA NextGInv == GInv /\ [HNext]_hvars => GInv'
<1> SUFFICES ASSUME GInv, [HNext]_hvars PROVE GInv'
  OBVIOUS
<1>1. [Next]_vars
  BY DEF HNext, hvars
<1>2. IInv' /\ AInv' /\ CInv' /\ EInv'
  BY <1>1, NextIInv, NextAInv, NextCInv, NextEInv DEF GInv
<1>3. ASSUME NEW g \in Devices, clean'[g] PROVE holder'[g] # None /\ Goes(g)'
  <2>1. CASE HNext /\ holder[g] = None
    <3>1. holder'[g] # None /\ \A d \in Below[g] : Honest(d)
      BY <1>3, <2>1 DEF HNext
    <3>2. Ready(g, act'[g].op)
      BY <3>1, HonestIsReady
    <3> QED
      BY <1>1, <2>1, <3>1, <3>2, GoesStart DEF GInv
  <2>2. CASE HNext /\ holder[g] # None
    <3>1. holder'[g] # None /\ clean[g] /\ \A d \in Below[g] : ~MovedByOther(d, holder[g])
      BY <1>3, <2>2 DEF HNext
    <3> QED
      BY <1>1, <2>2, <3>1, GoesStep DEF GInv, CleanGoes
  <2>3. CASE UNCHANGED hvars
    <3>1. clean[g] /\ holder'[g] = holder[g] /\ holder[g] # None /\ Goes(g)
      BY <1>3, <2>3 DEF hvars, vars, locks, GInv, CleanGoes
    <3>2. \A d \in Below[g] : ~MovedByOther(d, holder[g])
      BY <2>3 DEF hvars, vars, hardware, MovedByOther, CommandStep
    <3> QED
      BY <1>1, <3>1, <3>2, GoesStep DEF GInv
  <2> QED
    BY <2>1, <2>2, <2>3
<1> QED
  BY <1>2, <1>3 DEF GInv, CleanGoes

\* A call into a group that nobody interferes with goes as it should.
THEOREM CallsGo == HSpec => []GInv
<1>1. HInit => GInv
  BY InitGInv
<1>2. GInv /\ [HNext]_hvars => GInv'
  BY NextGInv
<1> QED
  BY <1>1, <1>2, PTL DEF HSpec

\* An undisturbed turn_off or set_percent of a group reaches every raw driver
\* below it, and an undisturbed turn_on those of a group without groups in it.
THEOREM GroupsDeliver == HSpec => []GroupDelivers
<1>1. GInv => GroupDelivers
  <2> SUFFICES ASSUME GInv, NEW g \in Devices, Undisturbed(g), act[g].op \in Commands,
                      act[g].op = "turn_on" => Flat(g)
               PROVE  Delivered(g)
    BY DEF GroupDelivers
  <2>1. /\ holder[g] # None /\ Goes(g) /\ Trusty(g) /\ act[g].pc = "return"
        /\ act[g] \in Activations
    BY DEF Undisturbed, Trusty, GInv, CleanGoes, IInv, Typed
  <2>2. \A d \in Below[g] : Told(act[g], d)
    BY <2>1, GoesTold
  <2> QED
    BY <2>1, <2>2, ToldIsDesired, BelowDrivers DEF Delivered
<1> QED
  BY <1>1, CallsGo, PTL

\* When the hardware below follows at once, the answer of an undisturbed command
\* or check of a group is On iff some driver below is on.
THEOREM GroupsAnswerTruly == HSpec => []GroupAnswersTruly
<1>1. GInv => GroupAnswersTruly
  <2> SUFFICES ASSUME GInv, NEW g \in Devices, Undisturbed(g), Below[g] \cap Slow = {},
                      act[g].op \in Commands \cup {"check_is_on"}
               PROVE  act[g].val = IF \E d \in Below[g] : level[d] > 0 THEN On ELSE Off
    BY DEF GroupAnswersTruly
  <2>1. holder[g] # None /\ Goes(g) /\ Trusty(g) /\ act[g].pc = "return" /\ Kind[g] = "group"
    BY DEF Undisturbed, Trusty, GInv, CleanGoes
  <2>2. Checks(g, act[g]) /\ OffIsTrue(g) /\ OnIsTrue(g)
    BY <2>1 DEF Checks, OffIsTrue, OnIsTrue
  <2>3. act[g].val = IF \E d \in Below[g] : goal[d] > 0 THEN On ELSE Off
    BY <2>1, <2>2, GoesTruly DEF GInv
  <2>4. \A d \in Below[g] : level[d] = goal[d]
    BY BelowDrivers DEF GInv, EInv, EInvAt
  <2> QED
    BY <2>3, <2>4
<1> QED
  BY <1>1, CallsGo, PTL
=============================================================================

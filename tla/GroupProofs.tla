---------------------------- MODULE GroupProofs ----------------------------
(***************************************************************************)
(* Proofs about calls into groups.                                         *)
(***************************************************************************)
EXTENDS VirtualDevicesProofs

\* Members of a group are devices that precede it.
LEMMA MemberIsDevice ==
  ASSUME NEW g \in Devices, NEW i \in 1..Len(Members[g])
  PROVE  Members[g][i] \in Devices /\ Members[g][i] < g
BY MembersAssumption

\* What Below computes from f for device d.
BelowBy(f, d) ==
  IF Kind[d] = "group" THEN UNION {f[Members[d][i]] : i \in 1..Len(Members[d])} ELSE {d}

\* It depends on the members only.
LEMMA BelowByMembers ==
  ASSUME NEW f, NEW e, NEW d \in Devices,
         \A i \in 1..Len(Members[d]) : f[Members[d][i]] = e[Members[d][i]]
  PROVE  BelowBy(f, d) = BelowBy(e, d)
<1>1. {f[Members[d][i]] : i \in 1..Len(Members[d])} = {e[Members[d][i]] : i \in 1..Len(Members[d])}
  OBVIOUS
<1> QED
  BY <1>1 DEF BelowBy

\* The recursion of Below ends, since members precede their groups.
LEMMA BelowExists == \E f : f = [d \in Devices |-> BelowBy(f, d)]
<1> DEFINE P(n) == \E f : f = [d \in 1..n |-> BelowBy(f, d)]
           T == {n \in Nat : n <= N /\ ~P(n)}
<1>1. ASSUME NEW n \in Nat, n + 1 <= N, P(n) PROVE P(n + 1)
  <2>1. PICK f : f = [d \in 1..n |-> BelowBy(f, d)]
    BY <1>1
  <2> DEFINE e == [d \in 1..(n + 1) |-> BelowBy(f, d)]
  <2>2. ASSUME NEW d \in 1..(n + 1) PROVE BelowBy(f, d) = BelowBy(e, d)
    <3>1. d \in Devices
      BY <1>1, BoundsAssumption DEF Devices
    <3>2. ASSUME NEW i \in 1..Len(Members[d]) PROVE f[Members[d][i]] = e[Members[d][i]]
      <4>1. Members[d][i] \in 1..n
        BY <3>1, MemberIsDevice DEF Devices
      <4>2. f[Members[d][i]] = BelowBy(f, Members[d][i])
        BY <2>1, <4>1
      <4>3. e[Members[d][i]] = BelowBy(f, Members[d][i])
        BY <4>1
      <4> QED
        BY <4>2, <4>3
    <3> HIDE DEF e
    <3> QED
      BY <3>1, <3>2, BelowByMembers
  <2>3. e = [d \in 1..(n + 1) |-> BelowBy(e, d)]
    BY <2>2
  <2> QED
    BY <2>3
<1>2. P(0)
  <2> DEFINE f == [d \in 1..0 |-> {}]
  <2>1. f = [d \in 1..0 |-> BelowBy(f, d)]
    OBVIOUS
  <2> QED
    BY <2>1
<1>3. T = {}
  <2> SUFFICES ASSUME T # {} PROVE FALSE
    OBVIOUS
  <2>1. PICK x \in T : \A y \in T : x <= y
    <3>1. T \subseteq Nat
      OBVIOUS
    <3> HIDE DEF T
    <3> QED
      BY <3>1, LeastMember
  <2>2. x # 0
    BY <1>2, <2>1
  <2>3. x - 1 \in Nat /\ x - 1 <= N /\ (x - 1) + 1 = x /\ x - 1 \notin T
    BY <2>1, <2>2, BoundsAssumption
  <2>4. P(x - 1)
    BY <2>3
  <2>5. P((x - 1) + 1)
    <3> HIDE DEF P
    <3> QED
      BY <1>1, <2>1, <2>3, <2>4
  <2> QED
    BY <2>1, <2>3, <2>5
<1>4. P(N)
  BY <1>3, BoundsAssumption
<1> QED
  BY <1>4 DEF Devices

\* Below a group are the drivers below its members, below any other device is
\* the device itself.
LEMMA BelowIs ==
  ASSUME NEW d \in Devices
  PROVE  /\ Kind[d] = "group" =>
              Below[d] = UNION {Below[Members[d][i]] : i \in 1..Len(Members[d])}
         /\ Kind[d] # "group" => Below[d] = {d}
<1>1. Below = [e \in Devices |-> BelowBy(Below, e)]
  BY BelowExists DEF Below, BelowBy
<1>2. Below[d] = BelowBy(Below, d)
  BY <1>1
<1> QED
  BY <1>2 DEF BelowBy

\* What is below a member is below its group.
LEMMA BelowMember ==
  ASSUME NEW g \in Devices, NEW i \in 1..Len(Members[g]), Kind[g] = "group"
  PROVE  Below[Members[g][i]] \subseteq Below[g]
BY BelowIs

\* Everything below a device is a driver.
LEMMA BelowDrivers ==
  ASSUME NEW g \in Devices
  PROVE  \A d \in Below[g] : d \in Devices /\ Kind[d] # "group" /\ Below[d] = {d}
<1> DEFINE Fine(d) == \A e \in Below[d] : e \in Devices /\ Kind[e] # "group"
           T == {d \in Devices : ~Fine(d)}
<1>1. T = {}
  <2> SUFFICES ASSUME T # {} PROVE FALSE
    OBVIOUS
  <2>1. PICK x \in T : \A y \in T : x <= y
    <3>1. T \subseteq Nat
      BY DEF Devices
    <3> HIDE DEF T
    <3> QED
      BY <3>1, LeastMember
  <2>2. ASSUME NEW i \in 1..Len(Members[x]) PROVE Fine(Members[x][i])
    <3>1. Members[x][i] \in Devices /\ Members[x][i] < x
      BY <2>1, MemberIsDevice
    <3>2. Members[x][i] \notin T
      BY <2>1, <3>1 DEF Devices
    <3> QED
      BY <3>1, <3>2
  <2>3. Fine(x)
    BY <2>1, <2>2, BelowIs
  <2> QED
    BY <2>1, <2>3
<1> QED
  BY <1>1, BelowIs

-----------------------------------------------------------------------------
(* A thread's stack: the calls under a call serve it.                      *)

\* The call at h is made on behalf of the one at g.
Under(g, h) == holder[g] # None /\ holder[h] = holder[g] /\ h <= g

SameCommand(a, c) == a.op = c.op /\ (c.op = "set_percent" => a.arg = c.arg)

\* The call a may be made on behalf of the call c: it passes it on, or checks
\* whether a command is needed or has had effect.
Serves(a, c) == SameCommand(a, c) \/ (c.op \in Commands /\ a.op = "check_is_on")

\* A group calls with a call that serves its own.
LEMMA MemberServes ==
  ASSUME IInv, CInv, NEW g \in Devices, AtMember(g)
  PROVE  /\ Serves(MemberCall(g), act[g])
         /\ \A c : Serves(act[g], c) => Serves(MemberCall(g), c)
         /\ MemberCall(g).dev \in Devices /\ MemberCall(g).dev < g
         /\ Kind[g] = "group" /\ act[g].n \in 1..Len(Members[g])
         /\ Below[MemberCall(g).dev] \subseteq Below[g]
<1>1. /\ act[g].pc \in GroupPcs /\ Suited(act[g]) /\ act[g] \in Activations
      /\ Kind[g] = "group" /\ act[g].n \in Nat /\ act[g].n > 0 /\ act[g].n <= Len(Members[g])
  BY DEF AtMember, IInv, CInv, Typed, LockOrder, Activations
<1>2. act[g].n \in 1..Len(Members[g]) /\ MemberCall(g).dev = Members[g][act[g].n]
  BY <1>1, MembersAssumption DEF MemberCall
<1>3. /\ MemberCall(g).op = MemberOp(act[g])
      /\ MemberCall(g).arg = IF act[g].pc = "apply" THEN act[g].arg ELSE 0
  BY DEF MemberCall
<1>4. act[g].op \in Ops
  BY <1>1 DEF Activations
<1>5. /\ Serves(MemberCall(g), act[g])
      /\ \A c : Serves(act[g], c) => Serves(MemberCall(g), c)
  <2>1. CASE act[g].pc \in {"probe", "scan"}
    BY <1>1, <1>3, <2>1 DEF MemberOp, Suited, Serves, SameCommand, Commands
  <2>2. CASE act[g].pc \in {"command", "apply"}
    BY <1>1, <1>3, <2>2 DEF MemberOp, Suited, Serves, SameCommand, Commands
  <2>3. CASE act[g].pc \in {"support", "percents"}
    BY <1>1, <1>3, <2>3 DEF MemberOp, Suited, Serves, SameCommand, Commands
  <2> QED
    BY <1>1, <2>1, <2>2, <2>3 DEF GroupPcs
<1> QED
  BY <1>1, <1>2, <1>5, MemberIsDevice, BelowMember

\* The calls under a call serve what it is asking its member.
LEMMA OnStack ==
  ASSUME IInv, CInv, NEW g \in Devices, NEW h \in Devices, Under(g, h), h # g
  PROVE  /\ AtMember(g) /\ Serves(act[h], MemberCall(g))
         /\ Below[h] \subseteq Below[MemberCall(g).dev]
<1> DEFINE Fine(k) == Serves(act[k], MemberCall(g)) /\ Below[k] \subseteq Below[MemberCall(g).dev]
           T == {n \in Nat : N - n \in Devices /\ Under(g, N - n) /\ N - n # g /\ ~Fine(N - n)}
<1>1. AtMember(g)
  BY DEF Under, IInv, LockOrder, Devices
<1>2. T = {}
  <2> SUFFICES ASSUME T # {} PROVE FALSE
    OBVIOUS
  <2>1. PICK x \in T : \A y \in T : x <= y
    <3>1. T \subseteq Nat
      OBVIOUS
    <3> HIDE DEF T
    <3> QED
      BY <3>1, LeastMember
  <2>2. PICK k \in Devices : k = N - x /\ Under(g, k) /\ k # g /\ ~Fine(k)
    BY <2>1
  <2>3. /\ caller[k] \in Devices /\ k < caller[k] /\ caller[k] <= g
        /\ holder[k] # None /\ holder[caller[k]] = holder[g]
    <3>1. k < g /\ holder[k] # None /\ holder[k] = holder[g]
      BY <2>2 DEF Under, Devices
    <3>2. caller[k] # 0 /\ caller[k] <= g
      BY <3>1 DEF IInv, LockOrder
    <3>3. caller[k] \in 0..N /\ N \in Nat
      BY BoundsAssumption DEF IInv, Typed
    <3>4. caller[k] > k /\ holder[caller[k]] = holder[k]
      BY <3>1, <3>2 DEF IInv, LockOrder
    <3> QED
      BY <3>1, <3>2, <3>3, <3>4 DEF Devices
  <2>4. PICK l \in Devices : l = caller[k]
    BY <2>3
  <2>5. act[k].op = MemberCall(l).op /\ act[k].arg = MemberCall(l).arg /\ k = MemberCall(l).dev
    <3>1. CallOf(k) = MemberCall(l)
      BY <2>3, <2>4 DEF CInv, Matching, Devices
    <3> QED
      BY <3>1 DEF CallOf, MemberCall
  <2>6. Under(g, l) /\ l # top[holder[l]]
    BY <2>2, <2>3, <2>4 DEF Under, IInv, LockOrder, Devices
  <2>7. AtMember(l)
    BY <2>6 DEF Under, IInv, LockOrder
  <2>8. CASE l = g
    BY <2>2, <2>5, <2>8 DEF Serves, SameCommand
  <2>9. CASE l # g
    <3>1. Fine(l)
      <4>1. N - l \in Nat /\ N - (N - l) = l /\ N - l < x
        BY <2>1, <2>2, <2>3, <2>4, BoundsAssumption DEF Devices
      <4>2. N - l \notin T
        BY <2>1, <4>1
      <4> QED
        BY <2>6, <2>9, <4>1, <4>2
    <3>2. Serves(MemberCall(l), MemberCall(g)) /\ Below[k] \subseteq Below[l]
      BY <2>5, <2>7, <3>1, MemberServes
    <3> QED
      BY <2>2, <2>5, <3>1, <3>2 DEF Serves, SameCommand
  <2> QED
    BY <2>8, <2>9
<1>3. N - h \in Nat /\ N - (N - h) = h /\ N - h \notin T
  BY <1>2, BoundsAssumption DEF Devices
<1> QED
  BY <1>1, <1>3

\* What is under a call serves it.
LEMMA UnderServes ==
  ASSUME IInv, CInv, NEW g \in Devices, NEW h \in Devices, Under(g, h)
  PROVE  Serves(act[h], act[g]) /\ Below[h] \subseteq Below[g]
<1>1. CASE h = g
  BY <1>1 DEF Serves, SameCommand
<1>2. CASE h # g
  <2>1. AtMember(g) /\ Serves(act[h], MemberCall(g)) /\ Below[h] \subseteq Below[MemberCall(g).dev]
    BY <1>2, OnStack
  <2>2. Serves(MemberCall(g), act[g]) /\ Below[MemberCall(g).dev] \subseteq Below[g]
    BY <2>1, MemberServes
  <2> QED
    BY <2>1, <2>2 DEF Serves, SameCommand
<1> QED
  BY <1>1, <1>2

-----------------------------------------------------------------------------
(* What a call into a group brings about and finds.                        *)

Trusty(g) == Below[g] \cap (Faulty \cup Panicky) = {}

\* Driver d has been told what the call a asks for.  A turn_on leaves a device
\* alone that is on already.
Told(a, d) ==
  IF a.op = "turn_on" THEN goal[d] > 0 ELSE goal[d] = Wanted(d, a.op, a.arg)

\* The drivers below the members that the call a at group h has been through.
SoFar(h, a) == UNION {Below[Members[h][i]] : i \in {j \in 1..Len(Members[h]) : j < a.n}}

\* What the call a at h has done: whether turn_on reaches the drivers below
\* nested groups is another matter.
Does(h, a) ==
  (a.op \in Commands /\ (a.op = "turn_on" => Flat(h))) =>
    /\ a.pc \in {"probe", "command", "apply"} => \A d \in SoFar(h, a) : Told(a, d)
    /\ a.pc \in {"scan", "store", "poll", "return"} => \A d \in Below[h] : Told(a, d)

\* Under a call at g, the hardware's state and goal may differ only where the
\* goal is what the call asks for; these answers of checks hold of the goal.
OffIsTrue(g) == act[g].op \in {"turn_off", "check_is_on"} \/ Below[g] \cap Slow = {}
OnIsTrue(g)  == act[g].op \in {"turn_on", "check_is_on"} \/ Below[g] \cap Slow = {}

Checks(h, a) == a.op = "check_is_on" \/ (a.op \in Commands /\ Kind[h] = "group")

\* The percentage v is above 0 iff one of the drivers D is.
Bright(v, D) == v \in 1..MaxLevel <=> \E d \in D \cap Dimmable : goal[d] > 0

\* What the call a at h, under one at g, has found.
Finds(g, h, a) ==
  /\ a.pc = "scan" /\ OffIsTrue(g) => \A d \in SoFar(h, a) : goal[d] = 0
  /\ a.pc = "return" /\ Checks(h, a) /\ a.val = Off /\ OffIsTrue(g) =>
       \A d \in Below[h] : goal[d] = 0
  /\ a.pc = "return" /\ Checks(h, a) /\ a.val = On /\ OnIsTrue(g) =>
       \E d \in Below[h] : goal[d] > 0
  /\ a.pc = "percents" => Bright(a.val, SoFar(h, a))
  /\ a.pc = "return" /\ a.op = "check_percent" => Bright(a.val, Below[h])

Fares(g, h, a) == Does(h, a) /\ Finds(g, h, a)

\* The hardware d is where it was told to go or on its way to where the call at
\* g has it, and is not believed to be on without reason.
Settled(g, d) ==
  /\ Belief(d) => goal[d] > 0
  /\ act[g].op # "set_percent" =>
       level[d] = goal[d] \/ (act[g].op \in Commands /\ Told(act[g], d))

\* The call at g goes as it should.
Goes(g) ==
  Trusty(g) => /\ \A d \in Below[g] : Settled(g, d)
               /\ \A h \in Devices : Under(g, h) => Fares(g, h, act[h])

\* The call a at h fails only if a driver below does, and what it found of
\* supports_percent is so, whatever the hardware does.
Sound(h, a) ==
  /\ Trusty(h) => a.val \notin {Err, Panic}
  /\ a.pc = "support" => SoFar(h, a) \subseteq Dimmable
  /\ a.pc = "return" /\ a.op = "supports_percent" /\ a.val = Yes => Below[h] \subseteq Dimmable

EInvAt(d) == (d \notin Slow => level[d] = goal[d]) /\ Sound(d, act[d])

\* Hardware follows at once unless it is slow, failures come from drivers
\* that fail, and supports_percent asks all members.
EInv == \A d \in Devices : EInvAt(d)

-----------------------------------------------------------------------------
\* Calls of the same command tell a driver the same.
LEMMA WantedIsTold ==
  ASSUME NEW a, NEW c, a.op \in Commands, SameCommand(a, c), NEW d
  PROVE  Told(a, d) <=> Told(c, d)
BY DEF SameCommand, Told, Wanted, Desired, Commands

\* What is told to turn off is told 0.
LEMMA ToldOff ==
  ASSUME NEW a, a.op = "turn_off", NEW d
  PROVE  Told(a, d) <=> goal[d] = 0
BY AnswersAssumption DEF Told, Wanted, Desired

\* The drivers below the members visited are below the group.
LEMMA SoFarBelow ==
  ASSUME NEW h \in Devices, NEW a
  PROVE  /\ SoFar(h, a) \subseteq Below[h]
         /\ a.n \in Nat /\ a.n > Len(Members[h]) /\ Kind[h] = "group" => SoFar(h, a) = Below[h]
         /\ a.n = 1 => SoFar(h, a) = {}
<1>1. SoFar(h, a) \subseteq Below[h]
  <2> SUFFICES ASSUME NEW d \in SoFar(h, a) PROVE d \in Below[h]
    OBVIOUS
  <2>1. PICK i \in 1..Len(Members[h]) : d \in Below[Members[h][i]]
    BY DEF SoFar
  <2>2. Kind[h] = "group"
    BY <2>1, MembersAssumption
  <2> QED
    BY <2>1, <2>2, BelowMember
<1>2. ASSUME a.n \in Nat, a.n > Len(Members[h]), Kind[h] = "group"
      PROVE  Below[h] \subseteq SoFar(h, a)
  <2>1. \A j \in 1..Len(Members[h]) : j < a.n
    BY <1>2, MembersAssumption
  <2> QED
    BY <1>2, <2>1, BelowIs DEF SoFar
<1>3. a.n = 1 => SoFar(h, a) = {}
  BY DEF SoFar
<1> QED
  BY <1>1, <1>2, <1>3

\* One member more.
LEMMA SoFarNext ==
  ASSUME NEW h \in Devices, NEW a, NEW b, a.n \in 1..Len(Members[h]), b.n = a.n + 1
  PROVE  SoFar(h, b) = SoFar(h, a) \cup Below[Members[h][a.n]]
<1>1. \A j \in 1..Len(Members[h]) : j < b.n <=> j < a.n \/ j = a.n
  BY MembersAssumption
<1> QED
  BY <1>1 DEF SoFar

\* Members visited depend on the counter only.
LEMMA SoFarSame ==
  ASSUME NEW h, NEW a, NEW b, b.n = a.n
  PROVE  SoFar(h, b) = SoFar(h, a)
BY DEF SoFar

\* How far a call has come depends on the goals below only.
LEMMA SameFares ==
  ASSUME NEW g \in Devices, NEW h \in Devices, NEW a, Fares(g, h, a), act'[g].op = act[g].op,
         \A d \in Below[h] : goal'[d] = goal[d]
  PROVE  Fares(g, h, a)'
<1>1. (OffIsTrue(g)' <=> OffIsTrue(g)) /\ (OnIsTrue(g)' <=> OnIsTrue(g))
  BY DEF OffIsTrue, OnIsTrue
<1>2. SoFar(h, a) \subseteq Below[h]
  BY SoFarBelow
<1>3. \A d \in Below[h] : Told(a, d)' <=> Told(a, d)
  BY DEF Told
<1>4. Does(h, a)'
  BY <1>2, <1>3 DEF Fares, Does
<1>5. \A D \in SUBSET Below[h] : Bright(a.val, D)' <=> Bright(a.val, D)
  BY DEF Bright
<1>6. Finds(g, h, a)'
  BY <1>1, <1>2, <1>5 DEF Fares, Finds
<1> QED
  BY <1>4, <1>6 DEF Fares

-----------------------------------------------------------------------------
(* What the steps of a call make of how it fares.                          *)

\* A call that starts has done and found nothing.
LEMMA StartFares ==
  ASSUME NEW g \in Devices, NEW c \in Calls
  PROVE  Fares(g, c.dev, Start(c))
<1>1. PICK h \in Devices : h = c.dev
  BY DEF Calls
<1>2. /\ Start(c).pc = FirstPc(h, c.op) /\ Start(c).val = None
      /\ Start(c).n = IF Kind[h] = "group" THEN 1 ELSE 0
  BY <1>1 DEF Start
<1>3. /\ FirstPc(h, c.op) \in GroupPcs \cup {"drive"}
      /\ Kind[h] # "group" => FirstPc(h, c.op) = "drive"
  BY <1>1 DEF FirstPc, GroupPcs, Calls, Ops, Commands, Queries
<1>4. Start(c).pc # "drive" => SoFar(h, Start(c)) = {}
  BY <1>2, <1>3, SoFarBelow
<1>5. Start(c).pc \notin {"store", "poll", "return"}
  BY <1>2, <1>3 DEF GroupPcs
<1>6. Does(h, Start(c))
  <2>1. Start(c).op = c.op /\ c.op \in Ops
    BY DEF Start, Calls
  <2>2. FirstPc(h, c.op) = "scan" => c.op \notin Commands
    BY <2>1 DEF FirstPc, Ops, Commands, Queries
  <2> QED
    BY <1>2, <1>4, <1>5, <2>1, <2>2 DEF Does
<1>7. Finds(g, h, Start(c))
  BY <1>2, <1>4, <1>5, AnswersAssumption DEF Finds, Bright, Levels
<1> QED
  BY <1>1, <1>6, <1>7 DEF Fares

\* The fields of a record that finishes or goes on.
LEMMA FinishFields ==
  ASSUME NEW a \in Activations, NEW v
  PROVE  /\ Finish(a, v).op = a.op /\ Finish(a, v).arg = a.arg
         /\ Finish(a, v).pc = "return" /\ Finish(a, v).n = 0 /\ Finish(a, v).val = v
BY DEF Finish, Activations

\* A call that goes on to the next member.
LEMMA NextFields ==
  ASSUME NEW a \in Activations
  PROVE  /\ NextMember(a).op = a.op /\ NextMember(a).arg = a.arg
         /\ NextMember(a).pc = a.pc /\ NextMember(a).n = a.n + 1 /\ NextMember(a).val = a.val
BY DEF NextMember, Activations

\* A group that has been through its members.
LEMMA PhaseFares ==
  ASSUME IInv, CInv, NEW g \in Devices, NEW h \in Devices, GroupPhase(h),
         Fares(g, h, act[h])
  PROVE  Fares(g, h, act'[h]) /\ act'[h].op = act[h].op /\ act'[h].arg = act[h].arg
<1>1. PICK a \in Activations : a = act[h]
  BY DEF IInv, Typed
<1>2. /\ a.pc \in GroupPcs /\ a.n > Len(Members[h]) /\ a.n \in Nat /\ Suited(a)
      /\ Kind[h] = "group" /\ SoFar(h, a) = Below[h]
  BY <1>1, SoFarBelow DEF GroupPhase, IInv, LockOrder, CInv, Activations
<1>3. act'[h] =
        CASE a.pc \in {"probe", "command", "apply"} -> [a EXCEPT !.pc = "scan", !.n = 1]
          [] a.pc = "scan"     -> Finish(a, Off)
          [] a.pc = "support"  -> Finish(a, IF Members[h] = <<>> THEN No ELSE Yes)
          [] a.pc = "percents" -> Finish(a, a.val)
  BY <1>1 DEF GroupPhase, IInv, Typed
<1>4. CASE a.pc \in {"probe", "command", "apply"}
  <2> DEFINE b == [a EXCEPT !.pc = "scan", !.n = 1]
  <2>1. b.op = a.op /\ b.arg = a.arg /\ b.pc = "scan" /\ b.n = 1 /\ b = act'[h]
    BY <1>3, <1>4 DEF Activations
  <2> HIDE DEF b
  <2>2. SoFar(h, b) = {}
    BY <2>1, SoFarBelow
  <2>3. \A d : Told(b, d) <=> Told(a, d)
    BY <2>1 DEF Told
  <2>4. Does(h, b)
    BY <1>1, <1>2, <1>4, <2>1, <2>3 DEF Fares, Does
  <2>5. Finds(g, h, b)
    BY <2>1, <2>2 DEF Finds
  <2> QED
    BY <1>1, <2>1, <2>4, <2>5 DEF Fares
<1>5. CASE a.pc \in {"scan", "support", "percents"}
  <2>1. PICK v, b : /\ b = act'[h] /\ b = Finish(a, v)
                    /\ a.pc = "scan" => v = Off
                    /\ a.pc = "percents" => v = a.val
    BY <1>3, <1>5
  <2>2. b.op = a.op /\ b.arg = a.arg /\ b.pc = "return" /\ b.val = v
    BY <2>1, FinishFields
  <2>3. \A d : Told(b, d) <=> Told(a, d)
    BY <2>2 DEF Told
  <2>4. Does(h, b)
    BY <1>1, <1>2, <1>5, <2>2, <2>3 DEF Fares, Does, Suited, Commands
  <2>5. Finds(g, h, b)
    BY <1>1, <1>2, <1>5, <2>1, <2>2, AnswersAssumption DEF Fares, Finds, Suited, Checks, Commands
  <2> QED
    BY <1>1, <2>1, <2>2, <2>4, <2>5 DEF Fares
<1> QED
  BY <1>2, <1>4, <1>5 DEF GroupPcs

\* The percentage of one more member.
LEMMA BrighterIsBright ==
  ASSUME NEW v \in Levels \cup {None}, NEW r \in Levels \cup {None}, NEW D, NEW E,
         Bright(v, D), Bright(r, E)
  PROVE  Bright(Brighter(v, r), D \cup E)
<1>1. Brighter(v, r) \in 1..MaxLevel <=> v \in 1..MaxLevel \/ r \in 1..MaxLevel
  BY AnswersAssumption, BoundsAssumption DEF Brighter, Levels
<1> QED
  BY <1>1 DEF Bright

\* A group that goes on with a member's answer.
LEMMA ResumeFares ==
  ASSUME IInv, CInv, EInv, NEW g \in Devices, NEW h \in Devices, NEW m \in Devices,
         Trusty(g), Under(g, h), AtMember(h), caller[m] = h, holder[m] # None,
         act[m].pc = "return", Fares(g, h, act[h]), Fares(g, m, act[m])
  PROVE  LET b == Resume(act[h], act[m].val) IN
           Fares(g, h, b) /\ b.op = act[h].op /\ b.arg = act[h].arg
<1>1. PICK a \in Activations : a = act[h]
  BY DEF IInv, Typed
<1>2. PICK r : r = act[m].val
  OBVIOUS
<1>3. /\ a.pc \in GroupPcs /\ a.n \in 1..Len(Members[h]) /\ a.n \in Nat /\ Suited(a)
      /\ Kind[h] = "group" /\ m = Members[h][a.n] /\ m < h /\ Below[m] \subseteq Below[h]
      /\ act[m].op = MemberOp(a) /\ (a.pc = "apply" => act[m].arg = a.arg)
  <2>1. CallOf(m) = MemberCall(h)
    BY DEF CInv, Matching, Devices
  <2>2. /\ m = MemberCall(h).dev /\ act[m].op = MemberCall(h).op
        /\ act[m].arg = MemberCall(h).arg
    BY <2>1 DEF CallOf, MemberCall
  <2> QED
    BY <1>1, <2>2, MemberServes DEF AtMember, CInv, MemberCall, Activations
<1>4. Serves(a, act[g]) /\ Below[h] \subseteq Below[g]
  BY <1>1, UnderServes
<1>5. r \notin {Err, Panic} /\ r \in AnswersOf(MemberOp(a))
  <2>1. Trusty(m)
    BY <1>3, <1>4 DEF Trusty
  <2> QED
    BY <1>2, <1>3, <2>1 DEF EInv, EInvAt, Sound, CInv, Suited
<1>6. ASSUME NEW b, b.op = a.op, b.arg = a.arg, b.n = a.n + 1
      PROVE  /\ SoFar(h, b) = SoFar(h, a) \cup Below[m]
             /\ \A d : Told(b, d) <=> Told(a, d)
  BY <1>3, <1>6, SoFarNext DEF Told
\* A flat group's members are drivers.
<1>7. Flat(h) => Kind[m] # "group" /\ Flat(m) /\ Below[m] = {m}
  <2> SUFFICES ASSUME Flat(h) PROVE Kind[m] # "group" /\ Flat(m) /\ Below[m] = {m}
    OBVIOUS
  <2>1. Kind[m] # "group"
    BY <1>3 DEF Flat
  <2> QED
    BY <2>1, MembersAssumption, BelowIs DEF Flat
<1>8. CASE a.pc = "probe"
  <2>1. a.op \in {"turn_on", "turn_off"} /\ act[m].op = "check_is_on" /\ r \in {On, Off}
        /\ Checks(m, act[m])
    BY <1>3, <1>5, <1>8 DEF Suited, MemberOp, AnswersOf, Checks
  <2>2. act[g].op = a.op
    BY <1>4, <2>1 DEF Serves, SameCommand
  <2>3. CASE Reached(a, r)
    <3>1. PICK b : b = NextMember(a)
      OBVIOUS
    <3>2. b.op = a.op /\ b.arg = a.arg /\ b.pc = "probe" /\ b.n = a.n + 1
      BY <1>8, <3>1, NextFields
    <3>3. r = Desired(a.op, a.arg)
      BY <1>5, <2>3 DEF Reached
    <3>4. (a.op = "turn_on" => Flat(h)) => \A d \in Below[m] : Told(a, d)
      <4>1. CASE a.op = "turn_on"
        BY <1>2, <1>7, <2>1, <2>2, <3>3, <4>1 DEF Fares, Finds, OnIsTrue, Told, Desired
      <4>2. CASE a.op = "turn_off"
        <5>1. r = Off /\ OffIsTrue(g)
          BY <2>2, <3>3, <4>2 DEF Desired, OffIsTrue
        <5>2. \A d \in Below[m] : goal[d] = 0
          BY <1>2, <2>1, <5>1 DEF Fares, Finds
        <5> QED
          BY <4>2, <5>2, ToldOff
      <4> QED
        BY <2>1, <4>1, <4>2
    <3>5. Does(h, b)
      BY <1>1, <1>6, <1>8, <3>2, <3>4 DEF Fares, Does
    <3>6. Finds(g, h, b)
      BY <3>2 DEF Finds
    <3>7. Resume(a, r) = b
      BY <1>5, <1>8, <2>3, <3>1 DEF Resume
    <3> QED
      BY <1>1, <1>2, <3>2, <3>5, <3>6, <3>7 DEF Fares
  <2>4. CASE ~Reached(a, r)
    <3>1. PICK b : b = [a EXCEPT !.pc = "command"]
      OBVIOUS
    <3>2. b.op = a.op /\ b.arg = a.arg /\ b.pc = "command" /\ b.n = a.n
      BY <3>1 DEF Activations
    <3>3. Does(h, b)
      BY <1>1, <1>8, <3>2, SoFarSame DEF Fares, Does, Told
    <3>4. Finds(g, h, b)
      BY <3>2 DEF Finds
    <3>5. Resume(a, r) = b
      BY <1>5, <1>8, <2>4, <3>1 DEF Resume
    <3> QED
      BY <1>1, <1>2, <3>2, <3>3, <3>4, <3>5 DEF Fares
  <2> QED
    BY <2>3, <2>4
<1>9. CASE a.pc \in {"command", "apply"}
  <2>1. a.op \in Commands /\ act[m].op = a.op /\ SameCommand(act[m], a)
    BY <1>3, <1>9 DEF Suited, MemberOp, SameCommand, Commands
  <2>2. PICK b : /\ b = Resume(a, r) /\ b.op = a.op /\ b.arg = a.arg
                 /\ b.pc \in {"probe", "apply"} /\ b.n = a.n + 1
    <3>1. CASE a.pc = "command"
      <4>1. PICK c : c = [a EXCEPT !.pc = "probe"]
        OBVIOUS
      <4>2. c \in Activations /\ c.pc = "probe" /\ c.op = a.op /\ c.arg = a.arg /\ c.n = a.n
        BY <4>1 DEF Activations, Pcs, GroupPcs
      <4>3. Resume(a, r) = NextMember(c)
        BY <1>5, <3>1, <4>1 DEF Resume
      <4>4. PICK b : b = NextMember(c)
        OBVIOUS
      <4>5. b.op = c.op /\ b.arg = c.arg /\ b.pc = c.pc /\ b.n = c.n + 1
        BY <4>2, <4>4, NextFields
      <4> QED
        BY <4>2, <4>3, <4>4, <4>5
    <3>2. CASE a.pc = "apply"
      <4>1. Resume(a, r) = NextMember(a)
        BY <1>5, <3>2 DEF Resume
      <4> QED
        BY <3>2, <4>1, NextFields
    <3> QED
      BY <1>9, <3>1, <3>2
  <2>3. (a.op = "turn_on" => Flat(h)) => \A d \in Below[m] : Told(a, d)
    BY <1>7, <2>1, WantedIsTold DEF Fares, Does
  <2>4. Does(h, b)
    BY <1>1, <1>6, <1>9, <2>2, <2>3 DEF Fares, Does
  <2>5. Finds(g, h, b)
    BY <2>2 DEF Finds
  <2> QED
    BY <1>1, <1>2, <2>2, <2>4, <2>5 DEF Fares
<1>10. CASE a.pc = "scan"
  <2>1. act[m].op = "check_is_on" /\ r \in {On, Off} /\ Checks(m, act[m])
        /\ a.op \in Commands \cup {"check_is_on"} /\ a.op # "check_percent"
    BY <1>3, <1>5, <1>10 DEF Suited, MemberOp, AnswersOf, Checks, Commands
  <2>2. CASE r = On
    <3>1. PICK b : b = Finish(a, On)
      OBVIOUS
    <3>2. b.op = a.op /\ b.arg = a.arg /\ b.pc = "return" /\ b.val = On
      BY <3>1, FinishFields
    <3>3. Does(h, b)
      BY <1>1, <1>10, <3>2 DEF Fares, Does, Told
    <3>4. Finds(g, h, b)
      BY <1>2, <1>3, <2>1, <2>2, <3>2, AnswersAssumption DEF Fares, Finds
    <3>5. Resume(a, r) = b
      BY <1>5, <1>10, <2>2, <3>1 DEF Resume, AfterCheck
    <3> QED
      BY <1>1, <1>2, <3>2, <3>3, <3>4, <3>5 DEF Fares
  <2>3. CASE r # On
    <3>1. PICK b : b = NextMember(a)
      OBVIOUS
    <3>2. b.op = a.op /\ b.arg = a.arg /\ b.pc = "scan" /\ b.n = a.n + 1
      BY <1>10, <3>1, NextFields
    <3>3. Does(h, b)
      BY <1>1, <1>10, <3>2 DEF Fares, Does, Told
    <3>4. Finds(g, h, b)
      BY <1>1, <1>2, <1>6, <1>10, <2>1, <2>3, <3>2 DEF Fares, Finds
    <3>5. Resume(a, r) = b
      BY <1>5, <1>10, <2>3, <3>1 DEF Resume, AfterCheck
    <3> QED
      BY <1>1, <1>2, <3>2, <3>3, <3>4, <3>5 DEF Fares
  <2> QED
    BY <2>2, <2>3
<1>11. CASE a.pc = "support"
  <2>1. PICK b : b = Resume(a, r) /\ b.op = a.op /\ b.arg = a.arg /\ b.pc \in {"support", "return"}
    BY <1>5, <1>11, FinishFields, NextFields DEF Resume
  <2>2. b.op = "supports_percent"
    BY <1>3, <1>11, <2>1 DEF Suited
  <2> QED
    BY <1>1, <1>2, <2>1, <2>2 DEF Fares, Does, Finds, Checks, Commands
<1>12. CASE a.pc = "percents"
  <2>1. /\ a.op = "check_percent" /\ a.val \in Levels \cup {None}
        /\ act[m].op = "check_percent" /\ r \in Levels \cup {None}
    BY <1>3, <1>5, <1>12 DEF Suited, MemberOp, AnswersOf
  <2>2. PICK v : v = Brighter(a.val, r)
    OBVIOUS
  <2>a. PICK c : c = [a EXCEPT !.val = v]
    OBVIOUS
  <2>3. /\ c \in Activations /\ c = [a EXCEPT !.val = v] /\ c.pc = "percents" /\ c.val = v
        /\ c.op = a.op /\ c.arg = a.arg /\ c.n = a.n
    <3>1. v \in Answers
      BY <2>1, <2>2 DEF Brighter, Answers
    <3> QED
      BY <1>12, <2>a, <3>1 DEF Activations
  <2>4. PICK b : b = NextMember(c)
    OBVIOUS
  <2>5. b.op = a.op /\ b.arg = a.arg /\ b.pc = "percents" /\ b.n = a.n + 1 /\ b.val = v
    BY <2>3, <2>4, NextFields
  <2>6. Bright(v, SoFar(h, b))
    <3>1. Bright(a.val, SoFar(h, a)) /\ Bright(r, Below[m])
      BY <1>1, <1>2, <1>12, <2>1 DEF Fares, Finds
    <3> QED
      BY <1>6, <2>1, <2>2, <2>5, <3>1, BrighterIsBright
  <2>7. Resume(a, r) = b
    BY <1>5, <1>12, <2>2, <2>3, <2>4 DEF Resume
  <2> QED
    BY <1>1, <1>2, <2>1, <2>5, <2>6, <2>7 DEF Fares, Does, Finds, Commands
<1> QED
  BY <1>3, <1>8, <1>9, <1>10, <1>11, <1>12 DEF GroupPcs

-----------------------------------------------------------------------------
(* EInv is inductive.                                                      *)

\* A call that starts has answered nothing yet.
LEMMA StartSound ==
  ASSUME NEW c \in Calls
  PROVE  Sound(c.dev, Start(c))
<1>1. PICK h \in Devices : h = c.dev
  BY DEF Calls
<1>2. /\ Start(c).pc = FirstPc(h, c.op) /\ Start(c).val = None
      /\ Start(c).n = IF Kind[h] = "group" THEN 1 ELSE 0
  BY <1>1 DEF Start
<1>3. /\ FirstPc(h, c.op) \in GroupPcs \cup {"drive"}
      /\ Kind[h] # "group" => FirstPc(h, c.op) = "drive"
  BY <1>1 DEF FirstPc, GroupPcs, Calls, Ops, Commands, Queries
<1>4. Start(c).pc # "drive" => SoFar(h, Start(c)) = {}
  BY <1>2, <1>3, SoFarBelow
<1> QED
  BY <1>1, <1>2, <1>3, <1>4, AnswersAssumption DEF Sound, GroupPcs

\* A raw driver that does not fail answers soundly.
LEMMA LeafSound ==
  ASSUME IInv, CInv, EInv, NEW d \in Devices,
         DriverCommand(d) \/ DriverQuery(d) \/ BelievedCheck(d) \/ StoreBelief(d) \/ PollCheck(d)
  PROVE  Sound(d, act'[d])
<1>1. PICK a \in Activations : a = act[d]
  BY DEF IInv, Typed
<1>2. /\ Kind[d] # "group" /\ Sound(d, a) /\ Suited(a) /\ Below[d] = {d}
      /\ a.pc \in {"drive", "store", "poll"} /\ level[d] \in Levels
  BY <1>1, BelowIs
  DEF DriverCommand, DriverQuery, BelievedCheck, StoreBelief, PollCheck, Leaf, EInv, EInvAt,
      CInv, IInv, Typed
<1>3. /\ FailuresOf(d) \subseteq {Err, Panic} /\ (Trusty(d) => FailuresOf(d) = {})
      /\ \A l : StateOf(l) \in {On, Off}
      /\ \A s : Opposite(s) \in {On, Off}
  BY <1>2 DEF FailuresOf, Trusty, StateOf, Opposite
\* A driver's own answer to supports_percent.
<1>4. ASSUME NEW v, v \in {Err, Panic} => ~Trusty(d),
             a.op = "supports_percent" /\ v = Yes => d \in Dimmable,
             act'[d] = Finish(a, v)
      PROVE  Sound(d, act'[d])
  BY <1>2, <1>4, FinishFields DEF Sound
<1>5. CASE DriverCommand(d)
  <2>1. PICK r \in {On, Off} \cup FailuresOf(d) :
          act'[d] = AfterCommand(d, a, r) /\ a.op \in Commands
    BY <1>1, <1>3, <1>5 DEF DriverCommand, IInv, Typed
  <2>2. CASE AfterCommand(d, a, r) = Finish(a, r)
    BY <1>3, <1>4, <2>1, <2>2, AnswersAssumption DEF Commands
  <2>3. CASE AfterCommand(d, a, r) # Finish(a, r)
    <3>1. PICK b : b = [a EXCEPT !.pc = IF Kind[d] = "instant" THEN "store" ELSE "poll", !.val = r]
      OBVIOUS
    <3>2. b.pc \in {"store", "poll"} /\ b.val = r
      BY <3>1 DEF Activations
    <3>3. act'[d] = b
      BY <2>1, <2>3, <3>1 DEF AfterCommand
    <3> QED
      BY <1>3, <2>1, <3>2, <3>3, AnswersAssumption DEF Sound
  <2> QED
    BY <2>2, <2>3
<1>6. CASE DriverQuery(d)
  <2>1. PICK r : /\ act'[d] = Finish(a, r) /\ a.op \in Queries
                 /\ r = DriverAnswer(d) \/ (a.op # "supports_percent" /\ r \in FailuresOf(d))
    BY <1>1, <1>6 DEF DriverQuery, IInv, Typed
  <2>2. /\ a.op = "check_is_on" => DriverAnswer(d) \in {On, Off}
        /\ a.op = "supports_percent" =>
             DriverAnswer(d) \in {Yes, No} /\ (DriverAnswer(d) = Yes => d \in Dimmable)
        /\ a.op = "check_percent" => DriverAnswer(d) \in Levels \cup {None}
    BY <1>1, <1>2, <1>3, AnswersAssumption DEF DriverAnswer
  <2> QED
    BY <1>3, <1>4, <2>1, <2>2, AnswersAssumption DEF Queries
<1>7. CASE BelievedCheck(d)
  BY <1>1, <1>4, <1>7, AnswersAssumption DEF BelievedCheck, Lies, IInv, Typed
<1>8. CASE StoreBelief(d)
  <2>1. act'[d] = Finish(a, a.val) /\ a.pc = "store"
    BY <1>1, <1>8 DEF StoreBelief, Leaf, IInv, Typed
  <2> QED
    BY <1>2, <1>4, <2>1 DEF Sound, Suited, Commands
<1>9. CASE PollCheck(d)
  <2>1. a.pc = "poll" /\ a.op \in Commands
    BY <1>1, <1>2, <1>9 DEF PollCheck, Leaf, Suited
  <2>2. CASE act'[d] = NextMember(a)
    BY <1>2, <2>1, <2>2, NextFields DEF Sound
  <2>3. CASE act'[d] # NextMember(a)
    <3>1. PICK r \in {StateOf(level[d])} \cup FailuresOf(d) :
            act'[d] = Finish(a, IF r = Err THEN Opposite(Desired(a.op, a.arg)) ELSE r)
      BY <1>1, <1>9, <2>3 DEF PollCheck, PollDone, PollAgain, PollSpent, IInv, Typed
    <3> QED
      BY <1>3, <1>4, <2>1, <3>1, AnswersAssumption DEF Commands
  <2> QED
    BY <2>2, <2>3
<1> QED
  BY <1>5, <1>6, <1>7, <1>8, <1>9

\* A group whose members are exhausted answers soundly.
LEMMA PhaseSound ==
  ASSUME IInv, CInv, EInv, NEW h \in Devices, GroupPhase(h)
  PROVE  Sound(h, act'[h])
<1>1. PICK a \in Activations : a = act[h]
  BY DEF IInv, Typed
<1>2. /\ a.pc \in GroupPcs /\ a.n > Len(Members[h]) /\ a.n \in Nat /\ Suited(a)
      /\ Kind[h] = "group" /\ SoFar(h, a) = Below[h] /\ Sound(h, a)
  BY <1>1, SoFarBelow DEF GroupPhase, IInv, LockOrder, CInv, Activations, EInv, EInvAt
<1>3. act'[h] =
        CASE a.pc \in {"probe", "command", "apply"} -> [a EXCEPT !.pc = "scan", !.n = 1]
          [] a.pc = "scan"     -> Finish(a, Off)
          [] a.pc = "support"  -> Finish(a, IF Members[h] = <<>> THEN No ELSE Yes)
          [] a.pc = "percents" -> Finish(a, a.val)
  BY <1>1 DEF GroupPhase, IInv, Typed
<1>4. CASE a.pc \in {"probe", "command", "apply"}
  <2> DEFINE b == [a EXCEPT !.pc = "scan", !.n = 1]
  <2>1. b.pc = "scan" /\ b.val = a.val /\ b = act'[h]
    BY <1>3, <1>4 DEF Activations
  <2> HIDE DEF b
  <2> QED
    BY <1>2, <2>1 DEF Sound
<1>5. CASE a.pc \in {"scan", "support", "percents"}
  <2>1. PICK v : /\ act'[h] = Finish(a, v)
                 /\ a.pc = "scan" => v = Off
                 /\ a.pc = "support" => v \in {Yes, No}
                 /\ a.pc = "percents" => v = a.val
    BY <1>3, <1>5
  <2> QED
    BY <1>2, <1>5, <2>1, FinishFields, AnswersAssumption DEF Sound, Suited, Commands
<1> QED
  BY <1>2, <1>4, <1>5 DEF GroupPcs

\* A group goes on soundly with a sound answer of a member.
LEMMA ResumeSound ==
  ASSUME IInv, CInv, EInv, NEW h \in Devices, NEW m \in Devices,
         AtMember(h), caller[m] = h, holder[m] # None, act[m].pc = "return"
  PROVE  Sound(h, Resume(act[h], act[m].val))
<1>1. PICK a \in Activations : a = act[h]
  BY DEF IInv, Typed
<1>2. PICK r : r = act[m].val
  OBVIOUS
<1>3. /\ a.pc \in GroupPcs /\ a.n \in 1..Len(Members[h]) /\ a.n \in Nat /\ Suited(a)
      /\ Kind[h] = "group" /\ m = Members[h][a.n] /\ Below[m] \subseteq Below[h]
      /\ act[m].op = MemberOp(a)
  <2>1. CallOf(m) = MemberCall(h)
    BY DEF CInv, Matching, Devices
  <2>2. m = MemberCall(h).dev /\ act[m].op = MemberCall(h).op
    BY <2>1 DEF CallOf, MemberCall
  <2> QED
    BY <1>1, <2>2, MemberServes DEF AtMember, CInv, MemberCall, Activations
<1>4. /\ Sound(h, a) /\ Sound(m, act[m]) /\ r \in AnswersOf(MemberOp(a))
      /\ Trusty(h) => Trusty(m) /\ r \notin {Err, Panic}
  BY <1>1, <1>2, <1>3 DEF EInv, EInvAt, CInv, Suited, Sound, Trusty
<1>5. ASSUME NEW v, v \in {Err, Panic} => ~Trusty(h), v # Yes
      PROVE  Sound(h, Finish(a, v))
  <2>1. PICK b : b = Finish(a, v)
    OBVIOUS
  <2>2. b.pc = "return" /\ b.val = v
    BY <2>1, FinishFields
  <2> QED
    BY <1>5, <2>1, <2>2 DEF Sound
<1>6. ASSUME NEW b, b.val = a.val, b.pc \in {"probe", "command", "apply", "scan"}
      PROVE  Sound(h, b)
  BY <1>4, <1>6 DEF Sound
<1>7. CASE r = Panic
  BY <1>1, <1>2, <1>4, <1>5, <1>7, AnswersAssumption DEF Resume
<1>8. CASE r # Panic /\ a.pc = "probe"
  <2>1. PICK b : b = Resume(a, r) /\ b.val = a.val /\ b.pc \in {"probe", "command"}
    <3>1. CASE Reached(a, r)
      BY <1>8, <3>1, NextFields DEF Resume
    <3>2. CASE ~Reached(a, r)
      <4>1. PICK b : b = [a EXCEPT !.pc = "command"]
        OBVIOUS
      <4>2. b.val = a.val /\ b.pc = "command"
        BY <4>1 DEF Activations
      <4> QED
        BY <1>8, <3>2, <4>1, <4>2 DEF Resume
    <3> QED
      BY <3>1, <3>2
  <2> QED
    BY <1>1, <1>2, <1>6, <2>1
<1>9. CASE r # Panic /\ a.pc = "command"
  <2>1. CASE r = Err
    BY <1>1, <1>2, <1>4, <1>5, <1>9, <2>1, AnswersAssumption DEF Resume
  <2>2. CASE r # Err
    <3>1. PICK c : c = [a EXCEPT !.pc = "probe"]
      OBVIOUS
    <3>2. c \in Activations /\ c.pc = "probe" /\ c.val = a.val
      BY <3>1 DEF Activations, Pcs, GroupPcs
    <3>3. PICK b : b = NextMember(c)
      OBVIOUS
    <3>4. b.pc = "probe" /\ b.val = a.val
      BY <3>2, <3>3, NextFields
    <3>5. Resume(a, r) = b
      BY <1>9, <2>2, <3>1, <3>3 DEF Resume
    <3> QED
      BY <1>1, <1>2, <1>6, <3>4, <3>5
  <2> QED
    BY <2>1, <2>2
<1>10. CASE r # Panic /\ a.pc = "apply"
  <2>1. CASE r = Err
    BY <1>1, <1>2, <1>4, <1>5, <1>10, <2>1, AnswersAssumption DEF Resume
  <2>2. CASE r # Err
    BY <1>1, <1>2, <1>6, <1>10, <2>2, NextFields DEF Resume
  <2> QED
    BY <2>1, <2>2
<1>11. CASE r # Panic /\ a.pc = "scan"
  <2>1. PICK v : v = On
    OBVIOUS
  <2>2. CASE r = On
    <3>1. PICK b : b = Finish(a, On)
      OBVIOUS
    <3>2. b.pc = "return" /\ b.val = On /\ b.op = a.op
      BY <3>1, FinishFields
    <3>3. Sound(h, b)
      BY <1>3, <1>11, <3>2, AnswersAssumption DEF Sound, Suited, Commands
    <3> QED
      BY <1>1, <1>2, <1>11, <2>2, <3>1, <3>3 DEF Resume, AfterCheck
  <2>3. CASE r # On
    BY <1>1, <1>2, <1>6, <1>11, <2>3, NextFields DEF Resume, AfterCheck
  <2> QED
    BY <2>2, <2>3
<1>12. CASE r # Panic /\ a.pc = "support"
  <2>1. CASE r = No
    BY <1>1, <1>2, <1>5, <1>12, <2>1, AnswersAssumption DEF Resume
  <2>2. CASE r # No
    <3>1. act[m].op = "supports_percent" /\ r = Yes
      BY <1>3, <1>4, <1>12, <2>2 DEF MemberOp, AnswersOf
    <3>2. Below[m] \subseteq Dimmable
      BY <1>2, <1>4, <3>1 DEF Sound
    <3>3. PICK b : b = NextMember(a)
      OBVIOUS
    <3>4. b.pc = "support" /\ b.val = a.val /\ b.n = a.n + 1
      BY <1>12, <3>3, NextFields
    <3>5. SoFar(h, b) \subseteq Dimmable
      BY <1>3, <1>4, <1>12, <3>2, <3>4, SoFarNext DEF Sound
    <3>6. Sound(h, b)
      BY <1>4, <3>4, <3>5 DEF Sound
    <3> QED
      BY <1>1, <1>2, <1>12, <2>2, <3>3, <3>6 DEF Resume
  <2> QED
    BY <2>1, <2>2
<1>13. CASE r # Panic /\ a.pc = "percents"
  <2>1. a.val \in Levels \cup {None} /\ r \in Levels \cup {None, Err}
    BY <1>3, <1>4, <1>13 DEF Suited, AnswersOf, MemberOp
  <2>2. CASE r = Err
    BY <1>1, <1>2, <1>4, <1>5, <1>13, <2>2, AnswersAssumption DEF Resume
  <2>3. CASE r # Err
    <3>1. PICK v : v = Brighter(a.val, r)
      OBVIOUS
    <3>2. v \in Levels \cup {None} /\ v \in Answers
      BY <2>1, <2>3, <3>1 DEF Brighter, Answers
    <3>3. PICK c : c = [a EXCEPT !.val = v]
      OBVIOUS
    <3>4. c \in Activations /\ c.pc = "percents" /\ c.val = v
      BY <1>13, <3>2, <3>3 DEF Activations
    <3>5. PICK b : b = NextMember(c)
      OBVIOUS
    <3>6. b.pc = "percents" /\ b.val = v
      BY <3>4, <3>5, NextFields
    <3>7. Sound(h, b)
      BY <3>2, <3>6, AnswersAssumption DEF Sound
    <3> QED
      BY <1>1, <1>2, <1>13, <2>3, <3>1, <3>3, <3>5, <3>7 DEF Resume
  <2> QED
    BY <2>2, <2>3
<1> QED
  BY <1>3, <1>7, <1>8, <1>9, <1>10, <1>11, <1>12, <1>13 DEF GroupPcs

\* At the start hardware is where it was told to go.
LEMMA InitEInv == Init => EInv
<1> SUFFICES ASSUME Init, NEW d \in Devices PROVE EInvAt(d)
  BY DEF EInv
<1>1. level[d] = goal[d] /\ act[d] = Idle
  BY DEF Init
<1>2. Idle.pc = "idle" /\ Idle.val = None
  BY DEF Idle
<1> QED
  BY <1>1, <1>2, AnswersAssumption DEF EInvAt, Sound

\* Hardware that is not slow follows at once.
LEMMA PromptStep ==
  ASSUME IInv, [Next]_vars, NEW d \in Devices, d \notin Slow, level[d] = goal[d]
  PROVE  level'[d] = goal'[d]
<1>1. ASSUME NEW e \in Devices, DriverCommand(e) PROVE level'[d] = goal'[d]
  <2>1. PICK l : Effect(e, l) \/ UNCHANGED hardware
    BY <1>1 DEF DriverCommand
  <2> QED
    BY <2>1 DEF Effect, hardware, IInv, Typed
<1>2. ASSUME NEW e \in Devices, Settle(e) \/ ByHand(e) PROVE level'[d] = goal'[d]
  BY <1>2 DEF Settle, ByHand, IInv, Typed
<1>3. ASSUME UNCHANGED hardware PROVE level'[d] = goal'[d]
  BY <1>3 DEF hardware
<1>4. ASSUME NEW t \in Threads, Call(t) \/ Acquire(t) PROVE level'[d] = goal'[d]
  BY <1>3, <1>4 DEF Call, Acquire
<1>5. ASSUME NEW e \in Devices, DriverQuery(e) \/ PollCheck(e) \/ LocalStep(e)
      PROVE  level'[d] = goal'[d]
  BY <1>3, <1>5 DEF DriverQuery, PollCheck, LocalStep, BelievedCheck, StoreBelief, GroupPhase,
                    Return
<1>6. CASE UNCHANGED vars
  BY <1>3, <1>6 DEF vars, hardware
<1> QED
  BY <1>1, <1>2, <1>4, <1>5, <1>6 DEF Next, DriverStep

\* The devices whose calls a return changes.
LEMMA ReturnTo ==
  ASSUME IInv, NEW d \in Devices, Return(d)
  PROVE  /\ act[d].pc = "return" /\ holder[d] # None /\ act'[d] = Idle
         /\ caller[d] # 0 => /\ caller[d] \in Devices /\ AtMember(caller[d]) /\ d < caller[d]
                             /\ holder[caller[d]] = holder[d]
                             /\ act'[caller[d]] = Resume(act[caller[d]], act[d].val)
         /\ \A e \in Devices : e # d /\ e # caller[d] => act'[e] = act[e]
         /\ UNCHANGED <<believed, level, goal>> /\ top[holder[d]] = d
<1>1. act[d].pc = "return" /\ ~AtMember(d) /\ holder[d] # None /\ top[holder[d]] = d
  BY DEF Return, AtMember, GroupPcs, IInv, Typed, LockOrder
<1>2. caller[d] # 0 => /\ caller[d] > d /\ holder[caller[d]] = holder[d] /\ caller[d] \in Devices
  BY <1>1, BoundsAssumption DEF IInv, Typed, LockOrder, Devices
<1>3. caller[d] # 0 => AtMember(caller[d])
  BY <1>1, <1>2 DEF IInv, LockOrder, Devices
<1>4. caller[d] # 0 => act'[caller[d]] = Resume(act[caller[d]], act[d].val)
  BY <1>2 DEF Return, IInv, Typed, Devices
<1>5. act'[d] = Idle /\ \A e \in Devices : e # d /\ e # caller[d] => act'[e] = act[e]
  BY <1>2 DEF Return, IInv, Typed, Devices
<1> QED
  BY <1>1, <1>2, <1>3, <1>4, <1>5 DEF Return, Devices, hardware

\* Answers stay sound, and prompt hardware stays where it was told to go.
LEMMA NextEInv == IInv /\ CInv /\ EInv /\ [Next]_vars => EInv'
<1> SUFFICES ASSUME IInv, CInv, EInv, [Next]_vars, NEW d \in Devices PROVE EInvAt(d)'
  BY DEF EInv
<1>1. d \notin Slow => level'[d] = goal'[d]
  BY PromptStep DEF EInv, EInvAt
<1>2. ASSUME act'[d] = act[d] PROVE Sound(d, act'[d])
  BY <1>2 DEF EInv, EInvAt
<1>3. ASSUME NEW t \in Threads, Call(t) \/ Acquire(t) PROVE Sound(d, act'[d])
  <2>1. CASE Call(t)
    BY <1>2, <2>1 DEF Call
  <2>2. CASE Acquire(t)
    <3>1. PICK c : c = Pending(t) /\ c \in Calls /\ act' = [act EXCEPT ![c.dev] = Start(c)]
      BY <2>2, PendingBelow DEF Acquire
    <3>2. c.dev = d => act'[d] = Start(c)
      BY <3>1 DEF IInv, Typed
    <3>3. c.dev # d => act'[d] = act[d]
      BY <3>1 DEF IInv, Typed
    <3> QED
      BY <1>2, <3>1, <3>2, <3>3, StartSound
  <2> QED
    BY <1>3, <2>1, <2>2
<1>4. ASSUME NEW e \in Devices, DriverStep(e) \/ BelievedCheck(e) \/ StoreBelief(e) \/ GroupPhase(e)
      PROVE  Sound(d, act'[d])
  <2>1. e # d => act'[d] = act[d]
    BY <1>4 DEF DriverStep, DriverCommand, DriverQuery, PollCheck, BelievedCheck, StoreBelief,
                GroupPhase, IInv, Typed
  <2> QED
    BY <1>2, <1>4, <2>1, LeafSound, PhaseSound DEF DriverStep
<1>5. ASSUME NEW e \in Devices, Return(e) PROVE Sound(d, act'[d])
  <2>1. Sound(e, Idle)
    <3>1. Idle.pc = "idle" /\ Idle.val = None
      BY DEF Idle
    <3> QED
      BY <3>1, AnswersAssumption DEF Sound
  <2>2. CASE d = e
    BY <1>5, <2>1, <2>2, ReturnTo
  <2>3. CASE d # e /\ d = caller[e]
    <3>1. d # 0
      BY DEF Devices
    <3> QED
      BY <1>5, <2>3, <3>1, ReturnTo, ResumeSound
  <2>4. CASE d # e /\ d # caller[e]
    BY <1>2, <1>5, <2>4, ReturnTo
  <2> QED
    BY <2>2, <2>3, <2>4
<1>6. ASSUME UNCHANGED act PROVE Sound(d, act'[d])
  BY <1>2, <1>6
<1>7. ASSUME NEW e \in Devices, Settle(e) \/ ByHand(e) PROVE Sound(d, act'[d])
  BY <1>6, <1>7 DEF Settle, ByHand
<1>8. Sound(d, act'[d])
  BY <1>3, <1>4, <1>5, <1>6, <1>7 DEF Next, LocalStep, vars
<1> QED
  BY <1>1, <1>8 DEF EInvAt, Sound

-----------------------------------------------------------------------------
(* A step of anybody, as a call that goes as it should sees it.            *)

\* A driver that does not fail is commanded, operated by hand, or at most gets
\* to where it was told to go.
LEMMA DriverMoves ==
  ASSUME IInv, AInv, [Next]_vars, NEW d \in Devices, Kind[d] # "group",
         d \notin Faulty \cup Panicky
  PROVE  \/ /\ goal'[d] = goal[d] /\ (level'[d] = level[d] \/ level'[d] = goal[d])
            /\ Belief(d)' => Belief(d)
         \/ /\ CommandStep(d) /\ goal'[d] = Wanted(d, act[d].op, act[d].arg)
            /\ Belief(d)' => goal'[d] > 0
         \/ goal'[d] # goal[d] /\ ~CommandStep(d)
<1> DEFINE Stays == /\ goal'[d] = goal[d] /\ (level'[d] = level[d] \/ level'[d] = goal[d])
                    /\ Belief(d)' => Belief(d)
<1>1. ASSUME act'[d] = act[d], believed'[d] = believed[d] PROVE Belief(d)' => Belief(d)
  BY <1>1 DEF Belief, NewBelief
<1>2. ASSUME act[d].pc # "store", act'[d].pc # "store", believed'[d] = believed[d]
      PROVE  Belief(d)' => Belief(d)
  BY <1>2 DEF Belief
<1>3. ASSUME NEW t \in Threads, Call(t) PROVE Stays
  BY <1>1, <1>3 DEF Call, hardware
<1>4. ASSUME NEW t \in Threads, Acquire(t) PROVE Stays
  <2>1. PICK c : c = Pending(t) /\ c \in Calls /\ act' = [act EXCEPT ![c.dev] = Start(c)]
                 /\ UNCHANGED <<believed, level, goal>> /\ holder[c.dev] = None
    BY <1>4, PendingBelow DEF Acquire, hardware, Free
  <2>2. CASE c.dev = d
    <3>1. act[d].pc = "idle" /\ act'[d] = Start(c)
      BY <2>1, <2>2 DEF IInv, LockOrder, Typed
    <3>2. Start(c).pc = "drive"
      BY <2>2 DEF Start, FirstPc
    <3> QED
      BY <1>2, <2>1, <3>1, <3>2
  <2>3. CASE c.dev # d
    BY <1>1, <2>1, <2>3 DEF IInv, Typed
  <2> QED
    BY <2>2, <2>3
<1>5. ASSUME NEW e \in Devices, e # d,
             \/ DriverStep(e) \/ BelievedCheck(e) \/ StoreBelief(e) \/ GroupPhase(e)
             \/ Settle(e) \/ ByHand(e)
      PROVE  Stays
  <2>1. act'[d] = act[d] /\ believed'[d] = believed[d] /\ level'[d] = level[d] /\ goal'[d] = goal[d]
    <3>1. CASE DriverCommand(e)
      <4>1. PICK l : Effect(e, l) \/ UNCHANGED hardware
        BY <3>1 DEF DriverCommand
      <4> QED
        BY <1>5, <3>1, <4>1 DEF DriverCommand, Effect, hardware, IInv, Typed
    <3>2. CASE DriverQuery(e) \/ PollCheck(e) \/ BelievedCheck(e) \/ GroupPhase(e)
      BY <1>5, <3>2
      DEF DriverQuery, PollCheck, BelievedCheck, GroupPhase, hardware, IInv, Typed
    <3>3. CASE StoreBelief(e) \/ Settle(e) \/ ByHand(e)
      BY <1>5, <3>3 DEF StoreBelief, Settle, ByHand, hardware, IInv, Typed
    <3> QED
      BY <1>5, <3>1, <3>2, <3>3 DEF DriverStep
  <2> QED
    BY <1>1, <2>1
<1>6. ASSUME NEW e \in Devices, Return(e) PROVE Stays
  <2>1. caller[e] # d
    <3>1. caller[e] = d => AtMember(d)
      BY <1>6, ReturnTo DEF Devices
    <3> QED
      BY <3>1 DEF AtMember, IInv, LockOrder
  <2>2. CASE e = d
    <3>1. act[d].pc = "return" /\ act'[d].pc = "idle" /\ UNCHANGED <<believed, level, goal>>
      BY <1>6, <2>2, ReturnTo DEF Idle
    <3> QED
      BY <1>2, <3>1
  <2>3. CASE e # d
    BY <1>1, <1>6, <2>1, <2>3, ReturnTo
  <2> QED
    BY <2>2, <2>3
<1>7. ASSUME DriverQuery(d) \/ PollCheck(d) \/ BelievedCheck(d) PROVE Stays
  <2>1. /\ act[d].pc \in {"drive", "poll"} /\ act[d] \in Activations
        /\ UNCHANGED <<believed, level, goal>>
        /\ act'[d] = NextMember(act[d]) \/ \E v : act'[d] = Finish(act[d], v)
    BY <1>7 DEF DriverQuery, PollCheck, PollDone, PollAgain, PollSpent, BelievedCheck, Leaf, hardware,
                IInv, Typed
  <2>2. act'[d].pc # "store"
    BY <2>1, FinishFields, NextFields
  <2> QED
    BY <1>2, <2>1, <2>2
<1>8. ASSUME StoreBelief(d) PROVE Stays
  <2>1. PICK b : b = NewBelief(d)
    OBVIOUS
  <2>2. /\ act[d].pc = "store" /\ act[d] \in Activations /\ UNCHANGED <<level, goal>>
        /\ act'[d] = Finish(act[d], act[d].val) /\ believed'[d] = b
    BY <1>8, <2>1 DEF StoreBelief, Leaf, hardware, IInv, Typed
  <2>3. act'[d].pc = "return"
    BY <2>2, FinishFields
  <2> QED
    BY <2>1, <2>2, <2>3 DEF Belief
<1>9. ASSUME Settle(d) PROVE Stays
  BY <1>1, <1>9 DEF Settle, IInv, Typed
<1>10. ASSUME ByHand(d) PROVE Stays \/ (goal'[d] # goal[d] /\ ~CommandStep(d))
  <2>1. act'[d] = act[d] /\ believed'[d] = believed[d] /\ level'[d] = goal'[d]
    BY <1>10 DEF ByHand, IInv, Typed
  <2> QED
    BY <1>1, <2>1 DEF CommandStep
<1>11. ASSUME DriverCommand(d)
       PROVE  /\ CommandStep(d) /\ goal'[d] = Wanted(d, act[d].op, act[d].arg)
              /\ Belief(d)' => goal'[d] > 0
  <2>1. PICK a, l : a = act[d] /\ l = Wanted(d, a.op, a.arg)
    OBVIOUS
  <2>2. a \in Activations /\ a.pc = "drive" /\ a.op \in Commands
    BY <1>11, <2>1 DEF DriverCommand, Leaf, IInv, Typed
  <2>3. /\ act'[d] = AfterCommand(d, a, StateOf(l)) /\ goal'[d] = l /\ believed'[d] = believed[d]
    <3>1. FailuresOf(d) = {} /\ StateOf(l) \notin {Err, Panic}
      BY AnswersAssumption DEF FailuresOf, StateOf
    <3> QED
      BY <1>11, <2>1, <3>1 DEF DriverCommand, Effect, IInv, Typed
  <2>4. StateOf(l) = Desired(a.op, a.arg) /\ StateOf(l) \notin {Err, Panic}
    BY <2>1, <2>2, WantedIsDesired, AnswersAssumption DEF Activations, StateOf
  <2>5. CASE Kind[d] = "instant"
    <3>1. PICK b : b = [a EXCEPT !.pc = "store", !.val = StateOf(l)]
      OBVIOUS
    <3>2. b.pc = "store" /\ b.op = a.op /\ b.arg = a.arg
      BY <2>2, <3>1 DEF Activations
    <3>3. act'[d] = b
      BY <2>3, <2>4, <2>5, <3>1 DEF AfterCommand
    <3>4. Belief(d)' => StateOf(l) = On
      BY <2>4, <3>2, <3>3 DEF Belief, NewBelief
    <3> QED
      BY <1>11, <2>1, <2>2, <2>3, <3>2, <3>3, <3>4, AnswersAssumption
      DEF CommandStep, StateOf, DriverCommand
  <2>6. CASE Kind[d] # "instant"
    <3>1. act'[d].pc \in {"poll", "return"}
      <4>1. CASE Kind[d] = "plain"
        BY <2>2, <2>3, <4>1, FinishFields DEF AfterCommand
      <4>2. CASE Kind[d] # "plain"
        <5>1. PICK b : b = [a EXCEPT !.pc = "poll", !.val = StateOf(l)]
          OBVIOUS
        <5>2. b.pc = "poll"
          BY <2>2, <5>1 DEF Activations
        <5> QED
          BY <2>3, <2>4, <2>6, <4>2, <5>1, <5>2 DEF AfterCommand
      <4> QED
        BY <4>1, <4>2
    <3>2. ~believed[d]
      BY <2>6 DEF AInv, AInvAt, FollowUp
    <3> QED
      BY <1>11, <2>1, <2>2, <2>3, <3>1, <3>2 DEF CommandStep, Belief, DriverCommand
  <2> QED
    BY <2>5, <2>6
<1>12. ASSUME UNCHANGED vars PROVE Stays
  BY <1>1, <1>12 DEF vars, hardware
<1>13. ~GroupPhase(d)
  BY DEF GroupPhase, IInv, LockOrder
<1> HIDE DEF Stays
<1>14. Stays \/ (CommandStep(d) /\ goal'[d] = Wanted(d, act[d].op, act[d].arg)
                 /\ (Belief(d)' => goal'[d] > 0))
             \/ (goal'[d] # goal[d] /\ ~CommandStep(d))
  <2>1. CASE \E t \in Threads : Call(t) \/ Acquire(t)
    BY <1>3, <1>4, <2>1
  <2>2. ASSUME NEW e \in Devices, DriverStep(e) \/ LocalStep(e) \/ Settle(e) \/ ByHand(e)
        PROVE  Stays \/ (CommandStep(d) /\ goal'[d] = Wanted(d, act[d].op, act[d].arg)
                         /\ (Belief(d)' => goal'[d] > 0))
                     \/ (goal'[d] # goal[d] /\ ~CommandStep(d))
    <3>1. CASE e # d
      BY <1>5, <1>6, <2>2, <3>1 DEF LocalStep
    <3>2. CASE e = d
      BY <1>6, <1>7, <1>8, <1>9, <1>10, <1>11, <1>13, <2>2, <3>2 DEF LocalStep, DriverStep
    <3> QED
      BY <3>1, <3>2
  <2> QED
    BY <1>12, <2>1, <2>2 DEF Next
<1> QED
  BY <1>14 DEF Stays


\* A driver takes a step on its own: of the call in progress, only.
LEMMA LeafCall ==
  ASSUME IInv, NEW x \in Devices,
         DriverCommand(x) \/ DriverQuery(x) \/ BelievedCheck(x) \/ StoreBelief(x) \/ PollCheck(x)
  PROVE  /\ act'[x].op = act[x].op /\ act'[x].arg = act[x].arg
         /\ act'[x].pc \in {"store", "poll", "return"}
         /\ act[x].pc \in {"drive", "store", "poll"} /\ Kind[x] # "group" /\ UNCHANGED locks
         /\ \A e \in Devices : e # x => act'[e] = act[e]
<1>1. PICK a \in Activations : a = act[x]
  BY DEF IInv, Typed
<1>2. /\ a.pc \in {"drive", "store", "poll"} /\ Kind[x] # "group" /\ UNCHANGED locks
      /\ \A e \in Devices : e # x => act'[e] = act[e]
  BY <1>1 DEF DriverCommand, DriverQuery, BelievedCheck, StoreBelief, PollCheck, Leaf, IInv, Typed
<1>3. \/ \E v : act'[x] = Finish(a, v)
      \/ \E r : act'[x] = [a EXCEPT !.pc = IF Kind[x] = "instant" THEN "store" ELSE "poll",
                                    !.val = r]
      \/ a.pc = "poll" /\ act'[x] = NextMember(a)
  <2>1. CASE DriverCommand(x)
    <3>1. PICK r : act'[x] = AfterCommand(x, a, r)
      BY <1>1, <2>1 DEF DriverCommand, IInv, Typed
    <3> QED
      BY <3>1 DEF AfterCommand
  <2>2. CASE DriverQuery(x)
    BY <1>1, <2>2 DEF DriverQuery, IInv, Typed
  <2>3. CASE BelievedCheck(x) \/ StoreBelief(x)
    BY <1>1, <2>3 DEF BelievedCheck, StoreBelief, IInv, Typed
  <2>4. CASE PollCheck(x)
    BY <1>1, <2>4 DEF PollCheck, PollDone, PollAgain, PollSpent, Leaf, IInv, Typed
  <2> QED
    BY <2>1, <2>2, <2>3, <2>4
<1>4. ASSUME NEW v, act'[x] = Finish(a, v)
      PROVE  act'[x].op = a.op /\ act'[x].arg = a.arg /\ act'[x].pc = "return"
  BY <1>4, FinishFields
<1>5. ASSUME NEW r,
             act'[x] = [a EXCEPT !.pc = IF Kind[x] = "instant" THEN "store" ELSE "poll", !.val = r]
      PROVE  act'[x].op = a.op /\ act'[x].arg = a.arg /\ act'[x].pc \in {"store", "poll"}
  <2>1. PICK b : b = [a EXCEPT !.pc = IF Kind[x] = "instant" THEN "store" ELSE "poll", !.val = r]
    OBVIOUS
  <2>2. b.op = a.op /\ b.arg = a.arg /\ b.pc \in {"store", "poll"}
    BY <2>1 DEF Activations
  <2> QED
    BY <1>5, <2>1, <2>2
<1>6. ASSUME a.pc = "poll", act'[x] = NextMember(a)
      PROVE  act'[x].op = a.op /\ act'[x].arg = a.arg /\ act'[x].pc = "poll"
  BY <1>6, NextFields
<1> QED
  BY <1>1, <1>2, <1>3, <1>4, <1>5, <1>6

\* A call that goes on remains the call it is.
LEMMA HeldCall ==
  ASSUME IInv, CInv, [Next]_vars, NEW g \in Devices, holder[g] # None, holder'[g] # None
  PROVE  holder'[g] = holder[g] /\ act'[g].op = act[g].op /\ act'[g].arg = act[g].arg
<1>1. ASSUME holder'[g] = holder[g], act'[g] = act[g]
      PROVE  holder'[g] = holder[g] /\ act'[g].op = act[g].op /\ act'[g].arg = act[g].arg
  BY <1>1
<1>2. ASSUME NEW t \in Threads, Call(t)
      PROVE  holder'[g] = holder[g] /\ act'[g].op = act[g].op /\ act'[g].arg = act[g].arg
  BY <1>2 DEF Call
<1>3. ASSUME NEW t \in Threads, Acquire(t)
      PROVE  holder'[g] = holder[g] /\ act'[g].op = act[g].op /\ act'[g].arg = act[g].arg
  <2>1. PICK c : c = Pending(t) /\ c \in Calls /\ act' = [act EXCEPT ![c.dev] = Start(c)]
                 /\ holder[c.dev] = None /\ holder' = [holder EXCEPT ![c.dev] = t]
    BY <1>3, PendingBelow DEF Acquire, Free
  <2>2. c.dev # g
    BY <2>1
  <2> QED
    BY <2>1, <2>2 DEF IInv, Typed
<1>4. ASSUME NEW x \in Devices,
             \/ DriverCommand(x) \/ DriverQuery(x) \/ BelievedCheck(x)
             \/ StoreBelief(x) \/ PollCheck(x)
      PROVE  holder'[g] = holder[g] /\ act'[g].op = act[g].op /\ act'[g].arg = act[g].arg
  BY <1>4, LeafCall DEF locks
<1>5. ASSUME NEW x \in Devices, GroupPhase(x)
      PROVE  holder'[g] = holder[g] /\ act'[g].op = act[g].op /\ act'[g].arg = act[g].arg
  <2>1. PICK a \in Activations : a = act[x]
    BY DEF IInv, Typed
  <2>2. UNCHANGED locks /\ \A e \in Devices : e # x => act'[e] = act[e]
    BY <1>5 DEF GroupPhase, IInv, Typed
  <2>3. act'[x].op = a.op /\ act'[x].arg = a.arg
    <3>1. act'[x] = [a EXCEPT !.pc = "scan", !.n = 1] \/ \E v : act'[x] = Finish(a, v)
      BY <1>5, <2>1 DEF GroupPhase, GroupPcs, IInv, Typed
    <3>2. CASE act'[x] = [a EXCEPT !.pc = "scan", !.n = 1]
      <4>1. PICK b : b = [a EXCEPT !.pc = "scan", !.n = 1]
        OBVIOUS
      <4>2. b.op = a.op /\ b.arg = a.arg
        BY <4>1 DEF Activations
      <4> QED
        BY <3>2, <4>1, <4>2
    <3> QED
      BY <3>1, <3>2, FinishFields
  <2> QED
    BY <2>1, <2>2, <2>3 DEF locks
<1>6. ASSUME NEW x \in Devices, Return(x)
      PROVE  holder'[g] = holder[g] /\ act'[g].op = act[g].op /\ act'[g].arg = act[g].arg
  <2>1. x # g /\ holder'[g] = holder[g]
    BY <1>6 DEF Return, Unlocked, IInv, Typed
  <2>2. CASE g = caller[x]
    <3>1. /\ AtMember(g) /\ act'[g] = Resume(act[g], act[x].val) /\ act[x].pc = "return"
          /\ holder[x] # None /\ caller[x] # 0
      BY <1>6, <2>2, ReturnTo DEF Devices
    <3>2. CallOf(x) = MemberCall(g)
      BY <2>2, <3>1 DEF CInv, Matching
    <3>3. act[x].val \in AnswersOf(MemberOp(act[g]))
      BY <3>1, <3>2 DEF CallOf, MemberCall, CInv, Suited
    <3>4. act[g] \in Activations /\ Suited(act[g]) /\ act[g].pc \in GroupPcs
      BY <3>1 DEF AtMember, CInv, IInv, Typed
    <3> QED
      BY <2>1, <3>1, <3>3, <3>4, ResumeSuited
  <2>3. CASE g # caller[x]
    BY <1>6, <2>1, <2>3, ReturnTo
  <2> QED
    BY <2>2, <2>3
<1>7. ASSUME NEW x \in Devices, Settle(x) \/ ByHand(x)
      PROVE  holder'[g] = holder[g] /\ act'[g].op = act[g].op /\ act'[g].arg = act[g].arg
  BY <1>7 DEF Settle, ByHand, locks
<1>8. CASE UNCHANGED vars
  BY <1>8 DEF vars, locks
<1> QED
  BY <1>2, <1>3, <1>4, <1>5, <1>6, <1>7, <1>8 DEF Next, DriverStep, LocalStep


\* A driver's state and goal agree on whether it is on, as far as the answers
\* that a call relies on go.
LEMMA SettledIs ==
  ASSUME IInv, EInv, NEW g \in Devices, NEW x \in Devices, x \in Below[g], Settled(g, x)
  PROVE  /\ OffIsTrue(g) /\ level[x] = 0 => goal[x] = 0
         /\ OnIsTrue(g) /\ level[x] > 0 => goal[x] > 0
         /\ act[g].op \in {"check_is_on", "check_percent"} => level[x] = goal[x]
<1>1. x \notin Slow => level[x] = goal[x]
  BY DEF EInv, EInvAt
<1>2. act[g].op \in {"check_is_on", "check_percent"} => level[x] = goal[x]
  BY DEF Settled, Commands
<1>3. act[g].op = "turn_off" => level[x] = goal[x] \/ goal[x] = 0
  BY ToldOff DEF Settled
<1>4. act[g].op = "turn_on" => level[x] = goal[x] \/ goal[x] > 0
  BY DEF Settled, Told
<1> QED
  BY <1>1, <1>2, <1>3, <1>4 DEF OffIsTrue, OnIsTrue

\* A driver, or the wrapper's belief, answers a query.
LEMMA QueryFares ==
  ASSUME IInv, CInv, EInv, NEW g \in Devices, NEW x \in Devices, Trusty(g), Under(g, x),
         DriverQuery(x) \/ BelievedCheck(x), x \in Below[g], Settled(g, x)
  PROVE  Fares(g, x, act'[x])
<1>1. PICK a, b \in Activations : a = act[x] /\ b = act'[x]
  <2>1. act'[x] \in Activations
    BY QueryIInv DEF IInv, Typed
  <2> QED
    BY <2>1 DEF IInv, Typed
<1>2. /\ b.op = a.op /\ a.pc = "drive" /\ Kind[x] # "group" /\ Below[x] = {x}
      /\ a.op \in Queries
  BY <1>1, LeafCall, BelowIs DEF DriverQuery, BelievedCheck, Leaf, Lies, Queries
<1>3. PICK r : /\ b = Finish(a, r)
               /\ (a.op = "check_is_on" /\ r = On /\ believed[x]) \/ r = DriverAnswer(x)
  <2>1. FailuresOf(x) = {}
    BY DEF Trusty, FailuresOf
  <2> QED
    BY <1>1, <2>1 DEF DriverQuery, BelievedCheck, Lies, IInv, Typed
<1>4. b.val = r /\ b.pc = "return"
  BY <1>3, FinishFields
<1>5. /\ believed[x] => goal[x] > 0
      /\ level[x] \in Levels
  BY <1>1, <1>2 DEF Settled, Belief, IInv, Typed
<1>6. Does(x, b)
  BY <1>2 DEF Does, Commands, Queries
<1>7. CASE a.op = "check_is_on"
  <2>1. (r = On /\ believed[x]) \/ r = StateOf(level[x])
    BY <1>1, <1>3, <1>7 DEF DriverAnswer
  <2>2. r = Off => level[x] = 0
    BY <1>5, <2>1, AnswersAssumption DEF StateOf, Levels
  <2>3. r = On => level[x] > 0 \/ goal[x] > 0
    BY <1>5, <2>1, AnswersAssumption DEF StateOf
  <2>4. Finds(g, x, b)
    BY <1>2, <1>4, <1>7, <2>2, <2>3, SettledIs DEF Finds
  <2> QED
    BY <1>1, <1>6, <2>4 DEF Fares
<1>8. CASE a.op = "check_percent"
  <2>1. r = IF x \in Dimmable THEN level[x] ELSE None
    BY <1>1, <1>3, <1>8 DEF DriverAnswer
  <2>2. act[g].op = "check_percent"
    BY <1>1, <1>8, UnderServes DEF Serves, SameCommand
  <2>3. level[x] = goal[x]
    BY <2>2, SettledIs
  <2>4. Bright(r, {x})
    BY <1>5, <2>1, <2>3, AnswersAssumption, BoundsAssumption DEF Bright, Levels
  <2>5. Finds(g, x, b)
    BY <1>2, <1>4, <1>8, <2>4 DEF Finds, Checks, Commands
  <2> QED
    BY <1>1, <1>6, <2>5 DEF Fares
<1>9. CASE a.op = "supports_percent"
  <2>1. Finds(g, x, b)
    BY <1>2, <1>4, <1>9 DEF Finds, Checks, Commands
  <2> QED
    BY <1>1, <1>6, <2>1 DEF Fares
<1> QED
  BY <1>2, <1>7, <1>8, <1>9 DEF Queries

\* A wrapper follows a command up.
LEMMA FollowFares ==
  ASSUME IInv, CInv, NEW g \in Devices, NEW x \in Devices,
         StoreBelief(x) \/ PollCheck(x), Fares(g, x, act[x])
  PROVE  Fares(g, x, act'[x])
<1>1. PICK a, b : a = act[x] /\ b = act'[x]
  OBVIOUS
<1>2. /\ b.op = a.op /\ b.arg = a.arg /\ b.pc \in {"store", "poll", "return"}
      /\ Kind[x] # "group" /\ a.pc \in {"store", "poll"} /\ a.op \in Commands
  BY <1>1, LeafCall DEF StoreBelief, PollCheck, Leaf, CInv, Suited
<1>3. \A d : Told(b, d) <=> Told(a, d)
  BY <1>2 DEF Told
<1>4. Does(x, b)
  BY <1>1, <1>2, <1>3 DEF Fares, Does
<1>5. Finds(g, x, b)
  BY <1>2 DEF Finds, Checks, Commands
<1> QED
  BY <1>1, <1>4, <1>5 DEF Fares

\* What has been said of a record is said of the call that it is.
LEMMA FaresAs ==
  ASSUME NEW g \in Devices, NEW h \in Devices, NEW b, b = act'[h], Fares(g, h, b)'
  PROVE  Fares(g, h, act[h])'
<1>1. SoFar(h, act[h])' = SoFar(h, b)
  BY DEF SoFar
<1>2. \A d : Told(act[h], d)' <=> Told(b, d)'
  BY DEF Told
<1>3. Does(h, act[h])'
  <2>1. Does(h, b)'
    BY DEF Fares
  <2> QED
    BY <1>1, <1>2, <2>1 DEF Does, SoFar
<1>4. Finds(g, h, act[h])'
  <2>1. Finds(g, h, b)'
    BY DEF Fares
  <2> QED
    BY <1>1, <2>1 DEF Finds, SoFar, Bright, Checks
<1> QED
  BY <1>3, <1>4 DEF Fares


\* A driver below executes a command of the call.
LEMMA CommandFares ==
  ASSUME IInv, CInv, NEW g \in Devices, NEW x \in Devices, NEW h \in Devices, Trusty(g),
         Under(g, x), Under(g, h), DriverCommand(x), Fares(g, h, act[h]),
         act'[g].op = act[g].op, goal'[x] = Wanted(x, act[x].op, act[x].arg),
         \A d \in Below[g] : d # x => goal'[d] = goal[d]
  PROVE  Fares(g, h, act[h])'
<1>1. PICK a, b : a = act[h] /\ b = act'[h]
  OBVIOUS
<1>2. /\ act[x].pc = "drive" /\ act[x].op \in Commands /\ Kind[x] # "group" /\ Below[x] = {x}
      /\ x = top[holder[x]]
  BY BelowIs DEF DriverCommand, Leaf, AtMember, GroupPcs, Under, IInv, LockOrder
<1>3. ASSUME NEW c, SameCommand(act[x], c) PROVE Told(c, x)'
  BY <1>2, <1>3, BoundsAssumption DEF Told, SameCommand, Wanted, Desired, Commands
<1>4. Below[h] \subseteq Below[g]
  BY UnderServes
<1>5. CASE h = x
  <2>1. b.op = a.op /\ b.arg = a.arg /\ b.pc \in {"store", "poll", "return"}
    BY <1>1, <1>5, LeafCall
  <2>2. Told(b, x)'
    BY <1>1, <1>3, <1>5, <2>1 DEF SameCommand
  <2>3. Does(h, b)'
    BY <1>2, <1>5, <2>1, <2>2 DEF Does
  <2>4. Finds(g, h, b)'
    BY <1>1, <1>2, <1>5, <2>1 DEF Finds, Checks, Commands
  <2>5. Fares(g, h, b)'
    BY <2>3, <2>4 DEF Fares
  <2> QED
    BY <1>1, <2>5, FaresAs
<1>6. CASE h # x
  <2>1. b = a
    BY <1>1, <1>6, LeafCall
  <2>2. Under(h, x)
    BY <1>2 DEF Under, IInv, LockOrder
  <2>3. AtMember(h) /\ Serves(act[x], MemberCall(h)) /\ Serves(act[x], a)
    BY <1>1, <1>6, <2>2, OnStack, UnderServes
  <2>4. act[h].pc \in {"command", "apply"}
    <3>1. MemberCall(h).op \in Commands
      BY <1>2, <2>3 DEF Serves, SameCommand, Commands
    <3>2. MemberOp(act[h]) \in Commands
      BY <3>1 DEF MemberCall
    <3> QED
      BY <2>3, <3>2 DEF MemberOp, AtMember, GroupPcs, Commands
  <2>5. SameCommand(act[x], a)
    BY <1>2, <2>3 DEF Serves, Commands
  <2>6. ASSUME NEW d \in Below[h], Told(a, d) PROVE Told(a, d)'
    <3>1. CASE d = x
      BY <1>3, <2>5, <3>1
    <3>2. CASE d # x
      BY <1>4, <2>6, <3>2 DEF Told
    <3> QED
      BY <3>1, <3>2
  <2>7. SoFar(h, a) \subseteq Below[h]
    BY SoFarBelow
  <2>8. Does(h, a)
    BY <1>1 DEF Fares
  <2>9. Does(h, a)'
    BY <1>1, <2>4, <2>6, <2>7, <2>8 DEF Does
  <2>10. Finds(g, h, a)'
    BY <1>1, <2>4 DEF Finds
  <2>11. Fares(g, h, a)'
    BY <2>9, <2>10 DEF Fares
  <2> QED
    BY <1>1, <2>1, <2>11, FaresAs
<1> QED
  BY <1>5, <1>6


\* What is below a call in progress goes where it was told to go, or where the
\* call has it.
LEMMA GoesSettled ==
  ASSUME IInv, AInv, CInv, [Next]_vars, NEW g \in Devices, holder[g] # None, holder'[g] # None,
         Trusty(g), NEW d \in Below[g], Settled(g, d), ~MovedByOther(d, holder[g])
  PROVE  /\ Settled(g, d)'
         /\ goal'[d] = goal[d] \/ (CommandStep(d) /\ Under(g, d)
                                   /\ goal'[d] = Wanted(d, act[d].op, act[d].arg))
<1>1. d \in Devices /\ Kind[d] # "group" /\ d \notin Faulty \cup Panicky
  BY BelowDrivers DEF Trusty
<1>2. act'[g].op = act[g].op /\ act'[g].arg = act[g].arg
  BY HeldCall
<1>3. CASE /\ goal'[d] = goal[d] /\ (level'[d] = level[d] \/ level'[d] = goal[d])
           /\ (Belief(d)' => Belief(d))
  BY <1>2, <1>3 DEF Settled, Told
<1>4. CASE /\ CommandStep(d) /\ goal'[d] = Wanted(d, act[d].op, act[d].arg)
           /\ (Belief(d)' => goal'[d] > 0)
  <2>1. act[d].pc = "drive" /\ act[d].op \in Commands /\ holder[d] = holder[g]
    BY <1>4 DEF CommandStep, MovedByOther, Leaf
  <2>2. Under(g, d)
    <3>1. d = top[holder[d]]
      BY <1>1, <2>1 DEF AtMember, GroupPcs, IInv, LockOrder
    <3> QED
      BY <2>1, <3>1 DEF Under, IInv, LockOrder
  <2>3. SameCommand(act[d], act[g]) /\ act[g].op \in Commands
    BY <1>1, <2>1, <2>2, UnderServes DEF Serves, SameCommand, Commands
  <2>4. Told(act[g], d)'
    BY <1>2, <1>4, <2>1, <2>3, BoundsAssumption DEF Told, SameCommand, Wanted, Desired, Commands
  <2> QED
    BY <1>2, <1>4, <2>2, <2>3, <2>4 DEF Settled
<1>5. ~(goal'[d] # goal[d] /\ ~CommandStep(d))
  BY DEF MovedByOther
<1> QED
  BY <1>1, <1>3, <1>4, <1>5, DriverMoves

\* A call that nobody else disturbs goes on as it should.
LEMMA GoesStep ==
  ASSUME IInv, AInv, CInv, EInv, [Next]_vars, NEW g \in Devices,
         holder[g] # None, holder'[g] # None, Goes(g),
         \A d \in Below[g] : ~MovedByOther(d, holder[g])
  PROVE  Goes(g)'
<1> SUFFICES ASSUME Trusty(g), NEW h \in Devices, Under(g, h)' PROVE Fares(g, h, act[h])'
  <2>1. Trusty(g)' => Trusty(g)
    BY DEF Trusty
  <2>2. Trusty(g) => \A d \in Below[g] : Settled(g, d)'
    BY GoesSettled DEF Goes
  <2> QED
    BY <2>1, <2>2 DEF Goes
<1>1. /\ holder'[g] = holder[g] /\ act'[g].op = act[g].op
      /\ \A d \in Below[g] : Settled(g, d)
      /\ \A k \in Devices : Under(g, k) => Fares(g, k, act[k])
  BY HeldCall DEF Goes
<1>2. \A d \in Below[g] : goal'[d] = goal[d] \/ (CommandStep(d) /\ Under(g, d)
                                   /\ goal'[d] = Wanted(d, act[d].op, act[d].arg))
  BY <1>1, GoesSettled
<1>3. CASE \E x \in Devices :
             DriverCommand(x) /\ Under(g, x) /\ x \in Below[g] /\ goal'[x] # goal[x]
  <2>1. PICK x \in Devices : DriverCommand(x) /\ Under(g, x) /\ x \in Below[g] /\ goal'[x] # goal[x]
    BY <1>3
  <2>2. Under(g, h)
    BY <2>1 DEF Under, DriverCommand, locks
  <2>3. \A d \in Below[g] : d # x => goal'[d] = goal[d]
    <3>1. PICK l : Effect(x, l) \/ UNCHANGED hardware
      BY <2>1 DEF DriverCommand
    <3> QED
      BY <3>1, BelowDrivers DEF Effect, hardware, IInv, Typed
  <2> QED
    BY <1>1, <1>2, <2>1, <2>2, <2>3, CommandFares
<1>4. CASE ~\E x \in Devices :
             DriverCommand(x) /\ Under(g, x) /\ x \in Below[g] /\ goal'[x] # goal[x]
  <2>1. \A d \in Below[g] : goal'[d] = goal[d]
    <3> SUFFICES ASSUME NEW d \in Below[g], goal'[d] # goal[d] PROVE FALSE
      OBVIOUS
    <3>1. CommandStep(d) /\ Under(g, d) /\ d \in Devices
      BY <1>2, BelowDrivers
    <3>2. ~DriverCommand(d)
      BY <1>4, <3>1
    <3>3. \A e \in Devices : DriverCommand(e) => e # d /\ goal'[d] = goal[d]
      <4> SUFFICES ASSUME NEW e \in Devices, DriverCommand(e) PROVE e # d /\ goal'[d] = goal[d]
        OBVIOUS
      <4>1. PICK l : Effect(e, l) \/ UNCHANGED hardware
        BY DEF DriverCommand
      <4> QED
        BY <3>1, <3>2, <4>1 DEF Effect, hardware, IInv, Typed
    <3>4. ASSUME UNCHANGED act PROVE FALSE
      BY <3>1, <3>4 DEF CommandStep
    <3>5. ASSUME UNCHANGED goal PROVE FALSE
      BY <3>5
    <3> QED
      BY <3>3, <3>4, <3>5
      DEF Next, Call, Acquire, DriverStep, DriverQuery, PollCheck, LocalStep, BelievedCheck,
          StoreBelief,
          GroupPhase, Return, Settle, ByHand, vars, hardware
\* It is enough to know how the call fares before the hardware moves.
  <2>2. ASSUME Fares(g, h, act'[h]), Below[h] \subseteq Below[g] PROVE Fares(g, h, act[h])'
    <3>1. PICK b : b = act'[h]
      OBVIOUS
    <3>2. Fares(g, h, b)'
      BY <1>1, <2>1, <2>2, <3>1, SameFares
    <3> QED
      BY <3>1, <3>2, FaresAs
  <2>3. ASSUME Under(g, h), act'[h] = act[h] PROVE Fares(g, h, act[h])'
    BY <1>1, <2>2, <2>3, UnderServes
  <2>4. ASSUME Under(g, h), Fares(g, h, act'[h]) PROVE Fares(g, h, act[h])'
    BY <2>2, <2>4, UnderServes
  <2>5. ASSUME NEW t \in Threads, Call(t) PROVE Fares(g, h, act[h])'
    BY <2>3, <2>5 DEF Call, Under
  <2>6. ASSUME NEW t \in Threads, Acquire(t) PROVE Fares(g, h, act[h])'
    <3>1. PICK c : c = Pending(t) /\ c \in Calls /\ act' = [act EXCEPT ![c.dev] = Start(c)]
                   /\ holder[c.dev] = None /\ holder' = [holder EXCEPT ![c.dev] = t]
      BY <2>6, PendingBelow DEF Acquire, Free
    <3>2. CASE h = c.dev
      <4>1. act'[h] = Start(c)
        BY <3>1, <3>2 DEF IInv, Typed
      <4>2. Fares(g, h, act'[h])
        BY <3>1, <3>2, <4>1, StartFares
      <4>3. holder[g] = t /\ top[t] \in 1..g
        BY <1>1, <3>1, <3>2 DEF Under, IInv, Typed, LockOrder
      <4>4. PICK k \in Devices : k = top[t] /\ AtMember(k) /\ Under(g, k) /\ h = MemberCall(k).dev
        <5>1. top[t] \in Devices /\ top[t] # 0
          BY <4>3, BoundsAssumption DEF Devices
        <5>2. AtMember(top[t]) /\ c = MemberCall(top[t])
          BY <2>6, <3>1, <5>1 DEF Acquire, Calling, Pending
        <5>3. holder[top[t]] = t /\ top[t] <= g
          BY <4>3, <5>1 DEF IInv, LockOrder
        <5> QED
          BY <3>2, <4>3, <5>1, <5>2, <5>3 DEF Under
      <4>5. Below[h] \subseteq Below[g]
        BY <4>4, MemberServes, UnderServes
      <4> QED
        BY <2>2, <4>2, <4>5
    <3>3. CASE h # c.dev
      <4>1. act'[h] = act[h] /\ holder'[h] = holder[h]
        BY <3>1, <3>3 DEF IInv, Typed
      <4> QED
        BY <1>1, <2>3, <4>1 DEF Under
    <3> QED
      BY <3>2, <3>3
  <2>7. ASSUME NEW x \in Devices, DriverStep(x) \/ BelievedCheck(x) \/ StoreBelief(x)
        PROVE  Fares(g, h, act[h])'
    <3>1. Under(g, h) /\ (h # x => act'[h] = act[h])
      BY <2>7, LeafCall DEF DriverStep, Under, locks
    <3>2. CASE h # x
      BY <2>3, <3>1, <3>2
    <3>3. CASE h = x
      <4>1. h \in Below[g]
        <5>1. h \in Below[h]
          BY <2>7, <3>3, LeafCall, BelowIs DEF DriverStep
        <5> QED
          BY <3>1, <5>1, UnderServes
      <4>2. CASE DriverCommand(x)
        <5>1. goal'[x] = Wanted(x, act[x].op, act[x].arg)
          <6>1. FailuresOf(x) = {}
            BY <3>3, <4>1 DEF Trusty, FailuresOf
          <6>2. PICK l : \/ StateOf(l) \in {Err, Panic}
                         \/ Effect(x, l) /\ l = Wanted(x, act[x].op, act[x].arg)
            BY <4>2, <6>1 DEF DriverCommand
          <6>3. \A k : StateOf(k) \notin {Err, Panic}
            BY AnswersAssumption DEF StateOf
          <6> QED
            BY <6>2, <6>3 DEF Effect, IInv, Typed
        <5> QED
          BY <1>1, <2>1, <3>1, <3>3, <4>2, <5>1, CommandFares
      <4>3. CASE DriverQuery(x) \/ BelievedCheck(x)
        BY <1>1, <2>4, <3>1, <3>3, <4>1, <4>3, QueryFares
      <4>4. CASE PollCheck(x) \/ StoreBelief(x)
        BY <1>1, <2>4, <3>1, <3>3, <4>4, FollowFares
      <4> QED
        BY <2>7, <4>2, <4>3, <4>4 DEF DriverStep
    <3> QED
      BY <3>2, <3>3
  <2>8. ASSUME NEW x \in Devices, GroupPhase(x) PROVE Fares(g, h, act[h])'
    <3>1. Under(g, h) /\ (h # x => act'[h] = act[h])
      BY <2>8 DEF GroupPhase, Under, locks, IInv, Typed
    <3> QED
      BY <1>1, <2>3, <2>4, <2>8, <3>1, PhaseFares
  <2>9. ASSUME NEW x \in Devices, Return(x) PROVE Fares(g, h, act[h])'
    <3>1. x # g /\ x # h /\ Under(g, h)
      BY <1>1, <2>9 DEF Return, Unlocked, Under, IInv, Typed
    <3>2. CASE h = caller[x]
      <4>1. /\ AtMember(h) /\ act'[h] = Resume(act[h], act[x].val) /\ act[x].pc = "return"
            /\ holder[x] # None /\ x < h /\ holder[h] = holder[x]
        BY <2>9, <3>2, ReturnTo DEF Devices
      <4>2. Under(g, x)
        BY <3>1, <4>1 DEF Under, Devices
      <4>3. Fares(g, h, act'[h])
        BY <1>1, <3>1, <3>2, <4>1, <4>2, ResumeFares
      <4> QED
        BY <2>4, <3>1, <4>3
    <3>3. CASE h # caller[x]
      BY <2>3, <2>9, <3>1, <3>3, ReturnTo
    <3> QED
      BY <3>2, <3>3
  <2>10. ASSUME NEW x \in Devices, Settle(x) \/ ByHand(x) PROVE Fares(g, h, act[h])'
    BY <2>3, <2>10 DEF Settle, ByHand, Under, locks
  <2>11. CASE UNCHANGED vars
    BY <2>3, <2>11 DEF vars, Under, locks
  <2> QED
    BY <2>5, <2>6, <2>7, <2>8, <2>9, <2>10, <2>11 DEF Next, LocalStep
<1> QED
  BY <1>3, <1>4


\* The hardware below a device is ready for the call op.
Ready(g, op) ==
  \A d \in Below[g] : (Belief(d) => goal[d] > 0) /\ (op # "set_percent" => level[d] = goal[d])

\* A call that starts on hardware that is ready goes as it should.
LEMMA GoesStart ==
  ASSUME IInv, AInv, CInv, [Next]_vars, NEW g \in Devices, holder[g] = None, holder'[g] # None,
         Ready(g, act'[g].op)
  PROVE  Goes(g)'
<1>1. PICK t \in Threads : Acquire(t) /\ Pending(t).dev = g
  <2>1. ASSUME NEW t \in Threads, Acquire(t) PROVE Pending(t).dev = g
    BY <2>1 DEF Acquire, IInv, Typed
  <2>2. ASSUME UNCHANGED holder PROVE FALSE
    BY <2>2
  <2>3. ASSUME NEW x \in Devices, Return(x) PROVE FALSE
    BY <2>3 DEF Return, Unlocked, IInv, Typed
  <2> QED
    BY <2>1, <2>2, <2>3
    DEF Next, Call, DriverStep, DriverCommand, DriverQuery, PollCheck, LocalStep, BelievedCheck,
        StoreBelief, GroupPhase, Settle, ByHand, vars, locks
<1>2. PICK c : c = Pending(t) /\ c \in Calls /\ c.dev = g
  BY <1>1, PendingBelow DEF Acquire
<1>3. /\ act'[g] = Start(c) /\ holder'[g] = t /\ \A e \in Devices : e # g => act'[e] = act[e]
      /\ top'[t] = g
      /\ UNCHANGED <<believed, level, goal>>
  BY <1>1, <1>2 DEF Acquire, hardware, IInv, Typed
<1>4. /\ Start(c).pc = FirstPc(g, c.op) /\ Start(c).val = None
      /\ Start(c).n = IF Kind[g] = "group" THEN 1 ELSE 0
      /\ Start(c).op = c.op /\ c.op \in Ops
  BY <1>2 DEF Start, Calls
<1>5. /\ FirstPc(g, c.op) \in GroupPcs \cup {"drive"}
      /\ Kind[g] # "group" => FirstPc(g, c.op) = "drive"
      /\ FirstPc(g, c.op) = "scan" => c.op \notin Commands
  BY <1>4 DEF FirstPc, GroupPcs, Ops, Commands, Queries
<1>6. Start(c).pc # "drive" => SoFar(g, Start(c)) = {}
  BY <1>4, <1>5, SoFarBelow
<1>7. PICK b : b = Start(c)
  OBVIOUS
<1>8. Fares(g, g, b)'
  <2>1. Does(g, b)'
    BY <1>4, <1>5, <1>6, <1>7 DEF Does, GroupPcs
  <2>2. Finds(g, g, b)'
    BY <1>4, <1>5, <1>6, <1>7, AnswersAssumption DEF Finds, Bright, Levels, GroupPcs
  <2> QED
    BY <2>1, <2>2 DEF Fares
<1>9. Fares(g, g, act[g])'
  BY <1>3, <1>7, <1>8, FaresAs
<1>10. ASSUME NEW h \in Devices, Under(g, h)' PROVE h = g
  <2>1. IInv'
    BY NextIInv
  <2>2. top'[t] \in 1..h
    BY <1>3, <1>10, <2>1 DEF IInv, LockOrder, Under
  <2> QED
    BY <1>3, <1>10, <2>2, BoundsAssumption DEF Under, Devices
<1>11. ASSUME NEW d \in Below[g] PROVE Settled(g, d)'
  <2>1. d \in Devices /\ Kind[d] # "group"
    BY BelowDrivers
  <2>2. Belief(d)' => Belief(d)
    <3>1. CASE d = g
      <4>1. act'[d].pc = "drive" /\ act[d].pc = "idle"
        BY <1>3, <1>4, <1>5, <2>1, <3>1 DEF IInv, LockOrder
      <4> QED
        BY <1>3, <4>1 DEF Belief
    <3>2. CASE d # g
      BY <1>3, <2>1, <3>2 DEF Belief, NewBelief
    <3> QED
      BY <3>1, <3>2
  <2> QED
    BY <1>3, <2>2 DEF Settled, Ready
<1> QED
  BY <1>9, <1>10, <1>11 DEF Goes


-----------------------------------------------------------------------------
(* What a call that went as it should has brought about and answers.       *)

\* The drivers below have been told what the call asked for.
LEMMA GoesTold ==
  ASSUME NEW g \in Devices, holder[g] # None, Trusty(g), Goes(g), act[g].pc = "return",
         act[g].op \in Commands, act[g].op = "turn_on" => Flat(g)
  PROVE  \A d \in Below[g] : Told(act[g], d)
<1>1. Under(g, g)
  BY DEF Under, Devices
<1>2. Does(g, act[g])
  BY <1>1 DEF Goes, Fares
<1> QED
  BY <1>2 DEF Does

\* Told is to move to the desired state.
LEMMA ToldIsDesired ==
  ASSUME NEW a \in Activations, a.op \in Commands, NEW d \in Devices, Told(a, d)
  PROVE  StateOf(goal[d]) = Desired(a.op, a.arg)
<1>1. CASE a.op = "turn_on"
  BY <1>1 DEF Told, StateOf, Desired
<1>2. CASE a.op # "turn_on"
  BY <1>2, WantedIsDesired DEF Told, Activations
<1> QED
  BY <1>1, <1>2

\* A check, or a group's answer to a command, is true of the goals.
LEMMA GoesTruly ==
  ASSUME CInv, EInv, NEW g \in Devices, holder[g] # None, Trusty(g), Goes(g),
         act[g].pc = "return", Checks(g, act[g]), OffIsTrue(g), OnIsTrue(g)
  PROVE  act[g].val = IF \E d \in Below[g] : goal[d] > 0 THEN On ELSE Off
<1>1. Under(g, g)
  BY DEF Under, Devices
<1>2. Finds(g, g, act[g])
  BY <1>1 DEF Goes, Fares
<1>3. act[g].op \in Commands \cup {"check_is_on"}
  BY DEF Checks
<1>4. act[g].val \in {On, Off}
  BY <1>3 DEF CInv, Suited, EInv, EInvAt, Sound, AnswersOf, Commands
<1> QED
  BY <1>2, <1>4 DEF Finds
=============================================================================

----------------------- MODULE VirtualDevicesProofs -------------------------
(***************************************************************************)
(* Proofs about VirtualDevices, for any number of threads, any devices and *)
(* any nesting of groups: the mutexes, and then what a device answers      *)
(* while its mutex is held and what InstantOnDevice believes.              *)
(***************************************************************************)
EXTENDS VirtualDevices, TLAPS, WellFoundedInduction

\* The answers a member may give are handled within the type of activations.
LEMMA ActivationTypes ==
  ASSUME NEW a \in Activations, NEW v \in Answers
  PROVE  /\ Finish(a, v) \in Activations
         /\ NextMember(a) \in Activations
         /\ [a EXCEPT !.val = v] \in Activations
         /\ \A p \in Pcs : [a EXCEPT !.pc = p] \in Activations
<1>1. Finish(a, v) \in Activations
  BY DEF Activations, Finish, Pcs
<1>2. NextMember(a) \in Activations
  BY DEF Activations, NextMember
<1>3. [a EXCEPT !.val = v] \in Activations
  BY DEF Activations
<1>4. \A p \in Pcs : [a EXCEPT !.pc = p] \in Activations
  BY DEF Activations
<1> QED
  BY <1>1, <1>2, <1>3, <1>4

\* A call that starts has a well-typed activation record.
LEMMA StartType ==
  ASSUME NEW c \in Calls
  PROVE  Start(c) \in Activations
<1> FirstPc(c.dev, c.op) \in Pcs
  BY MembersAssumption DEF Calls, FirstPc, Pcs, GroupPcs, Ops, Commands, Queries
<1> QED
  BY DEF Start, Activations, Calls, Answers

\* A group that resumes has a well-typed activation record, and is either at a
\* member or about to return.
LEMMA ResumeType ==
  ASSUME NEW a \in Activations, NEW r \in Answers, a.pc \in GroupPcs, a.n > 0
  PROVE  /\ Resume(a, r) \in Activations
         /\ Resume(a, r).pc \in GroupPcs \cup {"return"}
         /\ Resume(a, r).pc \in GroupPcs => Resume(a, r).n > 0
<1>1. a.val \in Answers /\ a.n \in Nat
  BY DEF Activations
<1>2. {On, Off, Err, Panic, No} \subseteq Answers /\ GroupPcs \subseteq Pcs
  BY DEF Answers, Pcs
<1>3. Brighter(a.val, r) \in Answers
  BY <1>1 DEF Brighter
<1>4. \A v \in Answers : Finish(a, v) \in Activations /\ Finish(a, v).pc = "return"
  <2> TAKE v \in Answers
  <2>1. Finish(a, v) \in Activations
    BY ActivationTypes
  <2>2. Finish(a, v).pc = "return"
    BY DEF Finish, Activations
  <2> QED
    BY <2>1, <2>2
<1>5. \A b \in Activations : b.pc \in GroupPcs /\ b.n > 0
        => /\ NextMember(b) \in Activations
           /\ NextMember(b).pc \in GroupPcs /\ NextMember(b).n > 0
  <2> TAKE b \in Activations
  <2>1. NextMember(b) \in Activations
    BY ActivationTypes, <1>2, <1>1
  <2>2. NextMember(b).pc = b.pc /\ NextMember(b).n = b.n + 1 /\ b.n \in Nat
    BY DEF NextMember, Activations
  <2> QED
    BY <2>1, <2>2
<1>6. \A p \in GroupPcs : /\ [a EXCEPT !.pc = p] \in Activations
                          /\ [a EXCEPT !.pc = p].pc = p /\ [a EXCEPT !.pc = p].n = a.n
  BY <1>2 DEF Activations
<1>7. LET b == [a EXCEPT !.val = Brighter(a.val, r)]
      IN  b \in Activations /\ b.pc = a.pc /\ b.n = a.n
  BY <1>3 DEF Activations
<1>8. "command" \in GroupPcs /\ "probe" \in GroupPcs /\ "return" \notin GroupPcs
  BY DEF GroupPcs
<1>9. CASE r = Panic
  BY <1>9, <1>2, <1>4, <1>8 DEF Resume
<1>10. CASE r # Panic
  <2>1. CASE a.pc = "probe"
    BY <2>1, <1>10, <1>5, <1>6, <1>8 DEF Resume, Reached
  <2>2. CASE a.pc = "command"
    BY <2>2, <1>10, <1>2, <1>4, <1>5, <1>6, <1>8 DEF Resume
  <2>3. CASE a.pc = "apply"
    BY <2>3, <1>10, <1>2, <1>4, <1>5, <1>8 DEF Resume
  <2>4. CASE a.pc = "scan"
    BY <2>4, <1>10, <1>2, <1>4, <1>5, <1>8 DEF Resume, AfterCheck
  <2>5. CASE a.pc = "support"
    BY <2>5, <1>10, <1>2, <1>4, <1>5, <1>8 DEF Resume
  <2>6. CASE a.pc = "percents"
    BY <2>6, <1>10, <1>2, <1>4, <1>5, <1>7, <1>8 DEF Resume
  <2> QED
    BY <2>1, <2>2, <2>3, <2>4, <2>5, <2>6 DEF GroupPcs
<1> QED
  BY <1>9, <1>10

-----------------------------------------------------------------------------
(* The inductive invariant: types and the order in which mutexes are held. *)

IInv == Typed /\ LockOrder

\* A device has one call in progress that may take a step of its own: a group
\* at a member waits for that member.
LEMMA ActStep ==
  ASSUME IInv, NEW d \in Devices, NEW b \in Activations,
         act[d].pc # "idle", ~AtMember(d), b.pc # "idle",
         b.pc \in GroupPcs => Kind[d] = "group" /\ b.n > 0,
         act' = [act EXCEPT ![d] = b], UNCHANGED locks
  PROVE  act' \in [Devices -> Activations] /\ LockOrder'
<1> USE DEF IInv, Typed, locks
<1>1. act' \in [Devices -> Activations] /\ act'[d] = b
      /\ \A e \in Devices \ {d} : act'[e] = act[e]
  OBVIOUS
<1>2. \A e \in Devices \ {d} : AtMember(e)' <=> AtMember(e)
  BY <1>1 DEF AtMember
<1>3. holder[d] # None /\ d = top[holder[d]]
  BY DEF LockOrder
<1>4. \A t \in Threads : top'[t] # 0 => holder'[top'[t]] = t /\ ask'[t] # None
  BY DEF LockOrder
<1>5. \A e \in Devices : holder'[e] = None <=> act'[e].pc = "idle"
  BY <1>1, <1>3 DEF LockOrder
<1>6. \A e \in Devices : act'[e].pc \in GroupPcs => Kind[e] = "group" /\ act'[e].n > 0
  BY <1>1 DEF LockOrder
<1>7. \A e \in Devices : holder'[e] # None =>
        /\ top'[holder'[e]] \in 1..e
        /\ e # top'[holder'[e]] => AtMember(e)'
        /\ caller'[e] # 0 => caller'[e] > e /\ holder'[caller'[e]] = holder'[e]
  BY <1>2, <1>3 DEF LockOrder
<1>8. \A e, f \in Devices :
       (holder'[e] # None /\ holder'[e] = holder'[f] /\ e < f)
       => caller'[e] # 0 /\ caller'[e] <= f
  BY DEF LockOrder
<1> QED
  BY <1>1, <1>4, <1>5, <1>6, <1>7, <1>8 DEF LockOrder

\* The initial states.
LEMMA InitIInv == Init => IInv
<1> SUFFICES ASSUME Init PROVE IInv
  OBVIOUS
<1>1. Idle \in Activations /\ Idle.pc = "idle"
  BY BoundsAssumption DEF Idle, Activations, Ops, Queries, Levels, Pcs, Answers
<1>2. Typed
  BY <1>1, BoundsAssumption DEF Init, Typed, Levels
<1>3. \A d \in Devices : holder[d] = None /\ act[d].pc = "idle"
  BY <1>1 DEF Init
<1>4. \A t \in Threads : top[t] = 0
  BY DEF Init
<1>5. LockOrder
  BY <1>3, <1>4 DEF LockOrder, GroupPcs
<1> QED
  BY <1>2, <1>5 DEF IInv

\* A thread asks for a call: it holds nothing, and no mutex changes hands.
LEMMA CallIInv ==
  ASSUME IInv, NEW t \in Threads, Call(t)
  PROVE  IInv'
<1>1. Typed'
  BY BoundsAssumption DEF IInv, Typed, Call, hardware
<1>2. ask'[t] # None /\ \A u \in Threads \ {t} : ask'[u] = ask[u]
  BY BoundsAssumption, NoneAssumption DEF IInv, Typed, Call
<1>3. LockOrder'
  BY <1>2 DEF IInv, LockOrder, Call, AtMember, hardware
<1> QED
  BY <1>1, <1>3 DEF IInv

\* What a thread is about to lock is a device, and one below those it holds.
LEMMA PendingBelow ==
  ASSUME IInv, NEW t \in Threads, Calling(t)
  PROVE  /\ Pending(t) \in Calls
         /\ top[t] # 0 => Pending(t).dev < top[t] /\ AtMember(top[t])
         /\ ask[t] # None
<1>1. CASE top[t] = 0
  BY <1>1 DEF IInv, Typed, Calling, Pending
<1>2. CASE top[t] # 0
  <2> DEFINE g == top[t]
  <2>1. g \in Devices /\ AtMember(g) /\ holder[g] = t /\ ask[t] # None
    BY <1>2 DEF IInv, Typed, LockOrder, Calling, Devices
  <2>2. act[g] \in Activations /\ Kind[g] = "group" /\ act[g].n > 0 /\ act[g].n \in Nat
    BY <2>1 DEF IInv, Typed, LockOrder, AtMember, Activations
  <2>3. Members[g] \in Seq(Devices) /\ act[g].n \in 1..Len(Members[g])
    BY <2>1, <2>2, MembersAssumption DEF AtMember
  <2>4. Members[g][act[g].n] \in Devices /\ Members[g][act[g].n] < g
    BY <2>1, <2>3, MembersAssumption
  <2>5. MemberOp(act[g]) \in Ops
    BY <2>1, <2>2 DEF AtMember, MemberOp, GroupPcs, Ops, Commands, Queries, Activations
  <2>6. act[g].arg \in Levels /\ 0 \in Levels
    BY <2>2, BoundsAssumption DEF Activations, Levels
  <2>7. MemberCall(g) \in Calls /\ MemberCall(g).dev < g
    BY <2>4, <2>5, <2>6 DEF MemberCall, Calls
  <2> QED
    BY <1>2, <2>1, <2>7 DEF Pending
<1> QED
  BY <1>1, <1>2

\* A thread locks a mutex: the new device is below everything it holds.
LEMMA AcquireIInv ==
  ASSUME IInv, NEW t \in Threads, Acquire(t)
  PROVE  IInv'
<1> DEFINE c == Pending(t)
           d == c.dev
<1>1. /\ c \in Calls /\ d \in Devices /\ holder[d] = None
      /\ top[t] # 0 => d < top[t] /\ AtMember(top[t]) /\ holder[top[t]] = t
                       /\ top[t] \in Devices
      /\ ask[t] # None
  BY PendingBelow DEF Acquire, Free, Calls, IInv, LockOrder, Typed, Devices
<1>2. Start(c) \in Activations /\ Start(c).pc # "idle"
      /\ (Start(c).pc \in GroupPcs => Kind[d] = "group" /\ Start(c).n > 0)
  <2>1. Start(c) \in Activations
    BY <1>1, StartType
  <2>2. Start(c).pc = FirstPc(d, c.op) /\ Start(c).n = IF Kind[d] = "group" THEN 1 ELSE 0
    BY DEF Start
  <2>3. c.op \in Ops
    BY <1>1 DEF Calls
  <2>4. FirstPc(d, c.op) \in GroupPcs \cup {"drive"}
        /\ (Kind[d] # "group" => FirstPc(d, c.op) = "drive")
    BY <2>3 DEF FirstPc, GroupPcs, Ops, Commands, Queries
  <2> QED
    BY <2>1, <2>2, <2>4 DEF GroupPcs
<1>3. /\ holder' = [holder EXCEPT ![d] = t] /\ caller' = [caller EXCEPT ![d] = top[t]]
      /\ top' = [top EXCEPT ![t] = d] /\ act' = [act EXCEPT ![d] = Start(c)]
      /\ UNCHANGED <<ask, believed, level, goal>>
  BY DEF Acquire, hardware
<1>4. Typed'
  BY <1>1, <1>2, <1>3 DEF IInv, Typed, Devices
<1>5. /\ holder'[d] = t /\ caller'[d] = top[t] /\ top'[t] = d /\ act'[d] = Start(c)
      /\ \A e \in Devices \ {d} : /\ holder'[e] = holder[e] /\ caller'[e] = caller[e]
                                 /\ act'[e] = act[e]
      /\ \A u \in Threads \ {t} : top'[u] = top[u]
  BY <1>1, <1>3 DEF IInv, Typed
<1>6. \A e \in Devices \ {d} : AtMember(e)' <=> AtMember(e)
  BY <1>5 DEF AtMember
<1>7. None \notin Threads /\ N \in Nat
  BY NoneAssumption, BoundsAssumption
<1>8. LockOrder'
  <2>1. \A u \in Threads : top'[u] # 0 => holder'[top'[u]] = u /\ ask'[u] # None
    BY <1>1, <1>3, <1>5, <1>7 DEF IInv, LockOrder, Typed, Devices
  <2>2. \A e \in Devices : holder'[e] = None <=> act'[e].pc = "idle"
    BY <1>2, <1>5, <1>7 DEF IInv, LockOrder
  <2>3. \A e \in Devices : act'[e].pc \in GroupPcs => Kind[e] = "group" /\ act'[e].n > 0
    BY <1>2, <1>5 DEF IInv, LockOrder
  <2>4. ASSUME NEW e \in Devices, holder'[e] # None
        PROVE  /\ top'[holder'[e]] \in 1..e
               /\ e # top'[holder'[e]] => AtMember(e)'
               /\ caller'[e] # 0 => caller'[e] > e /\ holder'[caller'[e]] = holder'[e]
    <3>1. CASE e = d
      BY <3>1, <1>1, <1>5, <1>7 DEF Devices
    <3>2. CASE e # d /\ holder[e] # t
      BY <3>2, <2>4, <1>1, <1>5, <1>6 DEF IInv, LockOrder, Typed, Devices
    <3>3. CASE e # d /\ holder[e] = t
      <4>1. holder[e] # None /\ top[t] \in 1..e /\ (e # top[t] => AtMember(e))
            /\ (caller[e] # 0 => caller[e] > e /\ holder[caller[e]] = t)
        BY <3>3, <1>7 DEF IInv, LockOrder
      <4>2. d < e /\ AtMember(e)
        BY <4>1, <1>1 DEF Devices
      <4>3. caller[e] # 0 => caller[e] \in Devices /\ caller[e] # d
        BY <4>1, <1>1, <1>7 DEF IInv, Typed, Devices
      <4> QED
        BY <3>3, <4>1, <4>2, <4>3, <1>1, <1>5, <1>6 DEF Devices
    <3> QED
      BY <3>1, <3>2, <3>3
  <2>5. ASSUME NEW e \in Devices, NEW f \in Devices,
               holder'[e] # None, holder'[e] = holder'[f], e < f
        PROVE  caller'[e] # 0 /\ caller'[e] <= f
    <3>1. CASE e # d /\ f # d
      BY <3>1, <2>5, <1>5 DEF IInv, LockOrder
    <3>2. CASE e = d
      <4>1. f # d /\ holder[f] = t
        BY <3>2, <2>5, <1>5 DEF Devices
      <4>2. top[t] \in 1..f
        BY <4>1, <1>7 DEF IInv, LockOrder
      <4> QED
        BY <3>2, <4>2, <1>5
    <3>3. CASE f = d
      <4>1. e # d /\ holder[e] = t
        BY <3>3, <2>5, <1>5 DEF Devices
      <4>2. top[t] \in 1..e
        BY <4>1, <1>7 DEF IInv, LockOrder
      <4> QED
        BY <3>3, <4>2, <2>5, <1>1 DEF Devices
    <3> QED
      BY <3>1, <3>2, <3>3
  <2> QED
    BY <2>1, <2>2, <2>3, <2>4, <2>5 DEF LockOrder
<1> QED
  BY <1>4, <1>8 DEF IInv

\* A call returns: it is the innermost one of its thread, and the next device
\* of the thread is the caller.
LEMMA ReturnIInv ==
  ASSUME IInv, NEW d \in Devices, Return(d)
  PROVE  IInv'
<1> DEFINE t == holder[d]
           g == caller[d]
<1>1. "return" \notin GroupPcs /\ "idle" \notin GroupPcs
  BY DEF GroupPcs
<1>2. None \notin Threads /\ N \in Nat
  BY NoneAssumption, BoundsAssumption
<1>3. act[d].pc = "return" /\ ~AtMember(d) /\ act[d].val \in Answers
  BY <1>1 DEF Return, AtMember, IInv, Typed, Activations
<1>4. t \in Threads /\ t # None /\ top[t] = d
  BY <1>3 DEF IInv, Typed, LockOrder
<1>5. g # 0 => g \in Devices /\ g > d /\ holder[g] = t /\ AtMember(g)
  BY <1>2, <1>4 DEF IInv, Typed, LockOrder, Devices
<1>6. Idle \in Activations /\ Idle.pc = "idle"
  BY BoundsAssumption DEF Idle, Activations, Ops, Queries, Levels, Pcs, Answers
<1> DEFINE b == Resume(act[g], act[d].val)
<1>7. g # 0 => /\ b \in Activations /\ b.pc \in GroupPcs \cup {"return"}
               /\ b.pc \in GroupPcs => b.n > 0
               /\ Kind[g] = "group"
  BY <1>3, <1>5, ResumeType DEF IInv, Typed, LockOrder, AtMember
<1>8. /\ holder' = [holder EXCEPT ![d] = None] /\ caller' = [caller EXCEPT ![d] = 0]
      /\ top' = [top EXCEPT ![t] = g] /\ UNCHANGED <<believed, level, goal>>
      /\ ask' = (IF g = 0 THEN [ask EXCEPT ![t] = None] ELSE ask)
      /\ act' = (IF g = 0 THEN [act EXCEPT ![d] = Idle]
                 ELSE [act EXCEPT ![d] = Idle, ![g] = b])
  BY <1>5 DEF Return, Unlocked, hardware, IInv, Typed
<1>9. Typed'
  <2>1. act' \in [Devices -> Activations]
    BY <1>5, <1>6, <1>7, <1>8 DEF IInv, Typed
  <2>2. g \in 0..N /\ 0 \in 0..N
    BY <1>2 DEF IInv, Typed
  <2>3. ask' \in [Threads -> Calls \cup {None}] /\ top' \in [Threads -> 0..N]
    BY <1>4, <1>8, <2>2 DEF IInv, Typed
  <2>4. holder' \in [Devices -> Threads \cup {None}] /\ caller' \in [Devices -> 0..N]
    BY <1>8, <2>2 DEF IInv, Typed
  <2> QED
    BY <2>1, <2>3, <2>4, <1>8 DEF IInv, Typed
<1>10. /\ holder'[d] = None /\ act'[d] = Idle /\ top'[t] = g
       /\ g # 0 => act'[g] = b /\ ask' = ask
       /\ \A e \in Devices \ {d} : holder'[e] = holder[e] /\ caller'[e] = caller[e]
                                  /\ (e # g => act'[e] = act[e])
       /\ \A u \in Threads \ {t} : top'[u] = top[u] /\ ask'[u] = ask[u]
  BY <1>4, <1>5, <1>8 DEF IInv, Typed, Devices
<1>11. \A e \in Devices \ {d, g} : AtMember(e)' <=> AtMember(e)
  BY <1>10 DEF AtMember
\* Everything else the thread holds is at or above the caller.
<1>12. \A e \in Devices \ {d} : holder[e] = t => d < e /\ g # 0 /\ g <= e /\ AtMember(e)
  <2> SUFFICES ASSUME NEW e \in Devices \ {d}, holder[e] = t
               PROVE  d < e /\ g # 0 /\ g <= e /\ AtMember(e)
    OBVIOUS
  <2>1. d < e /\ AtMember(e)
    BY <1>4 DEF IInv, LockOrder, Devices
  <2> QED
    BY <2>1, <1>4 DEF IInv, LockOrder
<1>13. LockOrder'
  <2>1. \A u \in Threads : top'[u] # 0 => holder'[top'[u]] = u /\ ask'[u] # None
    <3> SUFFICES ASSUME NEW u \in Threads, top'[u] # 0
                 PROVE  holder'[top'[u]] = u /\ ask'[u] # None
      OBVIOUS
    <3>1. CASE u = t
      BY <3>1, <1>4, <1>5, <1>10 DEF IInv, LockOrder, Devices
    <3>2. CASE u # t
      BY <3>2, <1>4, <1>10 DEF IInv, LockOrder, Typed, Devices
    <3> QED
      BY <3>1, <3>2
  <2> HIDE DEF b
  <2>a. g # 0 => g # d /\ act'[g].pc # "idle" /\ holder'[g] # None
    BY <1>1, <1>4, <1>5, <1>7, <1>10 DEF Devices
  <2>2. ASSUME NEW e \in Devices
        PROVE  holder'[e] = None <=> act'[e].pc = "idle"
    <3>1. CASE e = d
      BY <3>1, <1>6, <1>10
    <3>2. CASE e = g
      BY <3>2, <2>a, <1>2 DEF Devices
    <3>3. CASE e # d /\ e # g
      BY <3>3, <1>10 DEF IInv, LockOrder
    <3> QED
      BY <3>1, <3>2, <3>3
  <2>3. ASSUME NEW e \in Devices, act'[e].pc \in GroupPcs
        PROVE  Kind[e] = "group" /\ act'[e].n > 0
    <3>1. CASE e = d
      BY <3>1, <2>3, <1>1, <1>6, <1>10
    <3>2. CASE e = g
      BY <3>2, <2>3, <2>a, <1>7, <1>10, <1>2 DEF Devices
    <3>3. CASE e # d /\ e # g
      BY <3>3, <2>3, <1>10 DEF IInv, LockOrder
    <3> QED
      BY <3>1, <3>2, <3>3
  <2>4. ASSUME NEW e \in Devices, holder'[e] # None
        PROVE  /\ top'[holder'[e]] \in 1..e
               /\ e # top'[holder'[e]] => AtMember(e)'
               /\ caller'[e] # 0 => caller'[e] > e /\ holder'[caller'[e]] = holder'[e]
    <3>1. e # d /\ holder'[e] = holder[e] /\ caller'[e] = caller[e] /\ holder[e] # None
      BY <2>4, <1>10
    <3>2. caller[e] # 0 => /\ caller[e] > e /\ holder[caller[e]] = holder[e]
                           /\ caller[e] \in Devices
      <4>1. caller[e] \in 0..N
        BY DEF IInv, Typed
      <4>2. caller[e] # 0 => caller[e] > e /\ holder[caller[e]] = holder[e]
        BY <3>1 DEF IInv, LockOrder
      <4> QED
        BY <4>1, <4>2, <1>2 DEF Devices
    <3>3. caller[e] # 0 => caller[e] # d
      BY <3>1, <3>2, <1>12 DEF Devices
    <3>4. CASE holder[e] = t
      BY <3>1, <3>2, <3>3, <3>4, <1>5, <1>10, <1>11, <1>12 DEF Devices
    <3>5. CASE holder[e] # t
      <4>1. e # g
        BY <3>5, <1>5, <3>1 DEF Devices
      <4> QED
        BY <3>1, <3>2, <3>3, <3>5, <4>1, <1>10, <1>11 DEF IInv, LockOrder, Typed
    <3> QED
      BY <3>4, <3>5
  <2>5. \A e, f \in Devices :
         (holder'[e] # None /\ holder'[e] = holder'[f] /\ e < f)
         => caller'[e] # 0 /\ caller'[e] <= f
    BY <1>10 DEF IInv, LockOrder
  <2> QED
    BY <2>1, <2>2, <2>3, <2>4, <2>5 DEF LockOrder
<1> QED
  BY <1>9, <1>13 DEF IInv

\* A leaf's call goes on to a later program counter of its own.
LEMMA LeafStepIInv ==
  ASSUME IInv, NEW d \in Devices, Kind[d] # "group",
         act[d].pc \in {"drive", "store", "poll"},
         NEW b \in Activations, b.pc \in {"store", "poll", "return"},
         act' = [act EXCEPT ![d] = b], UNCHANGED locks,
         believed' \in [Devices -> BOOLEAN],
         level' \in [Devices -> Levels], goal' \in [Devices -> Levels]
  PROVE  IInv'
<1>1. act[d].pc # "idle" /\ ~AtMember(d) /\ b.pc # "idle" /\ b.pc \notin GroupPcs
  BY DEF AtMember, GroupPcs
<1>2. act' \in [Devices -> Activations] /\ LockOrder'
  BY <1>1, ActStep
<1> QED
  BY <1>2 DEF IInv, Typed, locks

\* The answers a leaf may give, and its activation record afterwards.
LEMMA LeafTypes ==
  ASSUME IInv, NEW d \in Devices
  PROVE  /\ act[d] \in Activations /\ act[d].val \in Answers
         /\ \A v \in Answers : /\ Finish(act[d], v) \in Activations
                              /\ Finish(act[d], v).pc = "return"
         /\ level[d] \in Levels /\ level[d] \in Answers
         /\ FailuresOf(d) \subseteq {Err, Panic}
         /\ Wanted(d, act[d].op, act[d].arg) \in Levels
         /\ \A l : StateOf(l) \in {On, Off}
<1>1. act[d] \in Activations /\ act[d].val \in Answers /\ act[d].arg \in Levels
  BY DEF IInv, Typed, Activations
<1>2. ASSUME NEW v \in Answers
      PROVE  Finish(act[d], v) \in Activations /\ Finish(act[d], v).pc = "return"
  <2>1. Finish(act[d], v) \in Activations
    BY <1>1, ActivationTypes
  <2>2. Finish(act[d], v).pc = "return"
    BY <1>1 DEF Finish, Activations
  <2> QED
    BY <2>1, <2>2
<1>3. level[d] \in Levels /\ level[d] \in Answers
  BY DEF IInv, Typed, Answers
<1>4. FailuresOf(d) \subseteq {Err, Panic}
  BY DEF FailuresOf
<1>5. Wanted(d, act[d].op, act[d].arg) \in Levels
  BY <1>1, BoundsAssumption DEF Wanted, Levels
<1>6. \A l : StateOf(l) \in {On, Off}
  BY DEF StateOf
<1> QED
  BY <1>1, <1>2, <1>3, <1>4, <1>5, <1>6

\* A raw driver executes a command.
LEMMA DriverCommandIInv ==
  ASSUME IInv, NEW d \in Devices, DriverCommand(d)
  PROVE  IInv'
<1> DEFINE a == act[d]
           l == Wanted(d, a.op, a.arg)
<1>1. PICK r \in {StateOf(l)} \cup FailuresOf(d) :
        /\ act' = [act EXCEPT ![d] = AfterCommand(d, a, r)]
        /\ Effect(d, l) \/ UNCHANGED hardware
  BY DEF DriverCommand
<1>2. Kind[d] # "group" /\ a.pc = "drive" /\ UNCHANGED <<locks, believed>>
  BY DEF DriverCommand, Leaf
<1>3. r \in Answers
  BY LeafTypes DEF Answers
<1>4. AfterCommand(d, a, r) \in Activations
      /\ AfterCommand(d, a, r).pc \in {"store", "poll", "return"}
  <2>1. CASE r = Panic \/ Kind[d] = "plain" \/ (Kind[d] = "polling" /\ r = Err)
    BY <2>1, <1>3, LeafTypes DEF AfterCommand
  <2>2. CASE ~(r = Panic \/ Kind[d] = "plain" \/ (Kind[d] = "polling" /\ r = Err))
    <3>1. a \in Activations
      BY LeafTypes
    <3>2. AfterCommand(d, a, r) =
            [a EXCEPT !.pc = IF Kind[d] = "instant" THEN "store" ELSE "poll", !.val = r]
      BY <2>2 DEF AfterCommand
    <3> QED
      BY <3>1, <3>2, <1>3 DEF Activations, Pcs
  <2> QED
    BY <2>1, <2>2
<1>5. level' \in [Devices -> Levels] /\ goal' \in [Devices -> Levels]
  BY ZenonT(30), <1>1, LeafTypes DEF Effect, hardware, IInv, Typed
<1>6. believed' \in [Devices -> BOOLEAN]
  BY <1>2 DEF IInv, Typed
<1> QED
  BY <1>1, <1>2, <1>4, <1>5, <1>6, LeafStepIInv

\* A raw driver answers a query, or an InstantOnDevice does in its place.
LEMMA QueryIInv ==
  ASSUME IInv, NEW d \in Devices, DriverQuery(d) \/ BelievedCheck(d)
  PROVE  IInv'
<1>1. DriverAnswer(d) \in Answers \/ act[d].op \notin Queries
  BY LeafTypes DEF DriverAnswer, Answers, Queries
<1>2. \E r \in Answers : act' = [act EXCEPT ![d] = Finish(act[d], r)]
  BY <1>1, LeafTypes DEF DriverQuery, BelievedCheck, Answers
<1>3. Kind[d] # "group" /\ act[d].pc = "drive" /\ UNCHANGED <<locks, believed, level, goal>>
  BY DEF DriverQuery, BelievedCheck, Leaf, hardware
<1> QED
  BY <1>2, <1>3, LeafTypes, LeafStepIInv DEF IInv, Typed

\* An InstantOnDevice stores its belief.
LEMMA StoreIInv ==
  ASSUME IInv, NEW d \in Devices, StoreBelief(d)
  PROVE  IInv'
<1>1. /\ Kind[d] # "group" /\ act[d].pc = "store" /\ UNCHANGED <<locks, level, goal>>
      /\ act' = [act EXCEPT ![d] = Finish(act[d], act[d].val)]
      /\ believed' = [believed EXCEPT ![d] = (Desired(act[d].op, act[d].arg) = On)]
  BY DEF StoreBelief, NewBelief, Leaf, hardware
<1> QED
  BY <1>1, LeafTypes, LeafStepIInv DEF IInv, Typed

\* A PollingDevice checks once more.
LEMMA PollIInv ==
  ASSUME IInv, NEW d \in Devices, PollCheck(d)
  PROVE  IInv'
<1> DEFINE want == Desired(act[d].op, act[d].arg)
<1>1. PICK r \in {StateOf(level[d])} \cup FailuresOf(d) :
        act' = [act EXCEPT ![d] =
                  IF (IF r = Err THEN Opposite(want) ELSE r) \in {want, Panic}
                     \/ act[d].n = PollLimit
                  THEN Finish(act[d], IF r = Err THEN Opposite(want) ELSE r)
                  ELSE NextMember(act[d])]
  BY DEF PollCheck, PollAgain, PollDone, PollSpent
<1>2. Kind[d] # "group" /\ act[d].pc = "poll" /\ UNCHANGED <<locks, believed, level, goal>>
  BY DEF PollCheck, Leaf, hardware
<1>3. (IF r = Err THEN Opposite(want) ELSE r) \in Answers
  BY LeafTypes DEF Answers, Opposite
<1>4. NextMember(act[d]) \in Activations /\ NextMember(act[d]).pc = "poll"
  <2>1. act[d] \in Activations
    BY LeafTypes
  <2> QED
    BY <2>1, <1>2 DEF NextMember, Activations
<1> QED
  BY <1>1, <1>2, <1>3, <1>4, LeafTypes, LeafStepIInv DEF IInv, Typed

\* A group has been through its members.
LEMMA PhaseIInv ==
  ASSUME IInv, NEW g \in Devices, GroupPhase(g)
  PROVE  IInv'
<1> DEFINE a == act[g]
<1>1. /\ a.pc \in GroupPcs /\ a.n > Len(Members[g]) /\ UNCHANGED <<locks, believed, level, goal>>
      /\ act' = [act EXCEPT ![g] =
           CASE a.pc \in {"probe", "command", "apply"} -> [a EXCEPT !.pc = "scan", !.n = 1]
             [] a.pc = "scan"     -> Finish(a, Off)
             [] a.pc = "support"  -> Finish(a, IF Members[g] = <<>> THEN No ELSE Yes)
             [] a.pc = "percents" -> Finish(a, a.val)]
  BY DEF GroupPhase, hardware
<1>2. PICK b : act' = [act EXCEPT ![g] = b]
               /\ \/ b = [a EXCEPT !.pc = "scan", !.n = 1]
                  \/ \E v \in Answers : b = Finish(a, v)
  BY <1>1, LeafTypes DEF GroupPcs, Answers
<1>3. b \in Activations /\ ((b.pc = "scan" /\ b.n = 1) \/ b.pc = "return")
  <2>1. a \in Activations
    BY LeafTypes
  <2>2. [a EXCEPT !.pc = "scan", !.n = 1] \in Activations
        /\ [a EXCEPT !.pc = "scan", !.n = 1].pc = "scan"
        /\ [a EXCEPT !.pc = "scan", !.n = 1].n = 1
    BY <2>1 DEF Activations, Pcs, GroupPcs
  <2> QED
    BY <2>2, <1>2, LeafTypes
<1>4. a.pc # "idle" /\ b.pc # "idle" /\ ~AtMember(g) /\ Kind[g] = "group"
      /\ (b.pc \in GroupPcs => b.n > 0)
  <2>1. a.n \in Nat /\ Len(Members[g]) \in Nat
    BY MembersAssumption DEF IInv, Typed, Activations
  <2> QED
    BY <1>1, <1>3, <2>1 DEF IInv, LockOrder, AtMember, GroupPcs
<1>5. act' \in [Devices -> Activations] /\ LockOrder'
  BY <1>1, <1>2, <1>3, <1>4, ActStep
<1> QED
  BY <1>1, <1>5 DEF IInv, Typed, locks

\* The hardware moves.
LEMMA HardwareIInv ==
  ASSUME IInv, NEW d \in Devices, Settle(d) \/ ByHand(d)
  PROVE  IInv'
<1>1. UNCHANGED <<locks, act, believed>>
  BY DEF Settle, ByHand
<1>2. level' \in [Devices -> Levels] /\ goal' \in [Devices -> Levels]
  BY DEF Settle, ByHand, IInv, Typed
<1>3. Typed'
  BY <1>1, <1>2 DEF IInv, Typed, locks
<1>4. LockOrder'
  BY <1>1 DEF IInv, LockOrder, AtMember, locks
<1> QED
  BY <1>3, <1>4 DEF IInv

\* IInv is inductive.
LEMMA NextIInv == IInv /\ [Next]_vars => IInv'
<1> SUFFICES ASSUME IInv, [Next]_vars PROVE IInv'
  OBVIOUS
<1>1. ASSUME NEW t \in Threads, Call(t) PROVE IInv'
  BY <1>1, CallIInv
<1>2. ASSUME NEW t \in Threads, Acquire(t) PROVE IInv'
  BY <1>2, AcquireIInv
<1>3. ASSUME NEW d \in Devices, DriverStep(d) PROVE IInv'
  BY <1>3, DriverCommandIInv, QueryIInv, PollIInv DEF DriverStep
<1>4. ASSUME NEW d \in Devices, LocalStep(d) PROVE IInv'
  BY <1>4, QueryIInv, StoreIInv, PhaseIInv, ReturnIInv DEF LocalStep
<1>5. ASSUME NEW d \in Devices, Settle(d) \/ ByHand(d) PROVE IInv'
  BY <1>5, HardwareIInv
<1>6. CASE UNCHANGED vars
  BY <1>6 DEF vars, IInv, Typed, LockOrder, AtMember
<1> QED
  BY <1>1, <1>2, <1>3, <1>4, <1>5, <1>6 DEF Next

-----------------------------------------------------------------------------
\* A call starts at the first member, or before the first poll.
LEMMA StartBounded ==
  ASSUME IInv, StepsBounded, NEW t \in Threads, Acquire(t)
  PROVE  StepsBounded'
<1>1. PICK d \in Devices, c \in Calls : c.dev = d /\ act' = [act EXCEPT ![d] = Start(c)]
  BY PendingBelow DEF Acquire, Calls
<1>2. Start(c).n <= IF Kind[d] = "group" THEN Len(Members[d]) + 1 ELSE PollLimit
  BY <1>1, MembersAssumption, BoundsAssumption DEF Start
<1> QED
  BY <1>1, <1>2 DEF StepsBounded, IInv, Typed

\* A step of a call itself counts no further than the member list or the poll
\* limit goes.
LEMMA StepBounded ==
  ASSUME IInv, StepsBounded, NEW d \in Devices, NEW b,
         act' = [act EXCEPT ![d] = b],
         b.n <= IF Kind[d] = "group" THEN Len(Members[d]) + 1 ELSE PollLimit
  PROVE  StepsBounded'
  BY DEF StepsBounded, IInv, Typed

\* A call that is over, or starts to store or to poll, has not counted further.
LEMMA FinishBounded ==
  ASSUME IInv, NEW d \in Devices, NEW v
  PROVE  Finish(act[d], v).n = 0
         /\ 0 <= IF Kind[d] = "group" THEN Len(Members[d]) + 1 ELSE PollLimit
<1>1. act[d] \in Activations
  BY LeafTypes
<1>2. Finish(act[d], v).n = 0
  BY <1>1 DEF Finish, Activations
<1>3. Len(Members[d]) \in Nat
  BY MembersAssumption
<1> QED
  BY <1>2, <1>3, BoundsAssumption

\* Drivers, wrappers and the ends of a group's loops.
LEMMA CallBounded ==
  ASSUME IInv, StepsBounded, NEW d \in Devices,
         DriverStep(d) \/ BelievedCheck(d) \/ StoreBelief(d) \/ GroupPhase(d)
  PROVE  StepsBounded'
<1> DEFINE Bound == IF Kind[d] = "group" THEN Len(Members[d]) + 1 ELSE PollLimit
<1>1. act[d] \in Activations /\ act[d].n <= Bound
  BY LeafTypes DEF StepsBounded
<1>2. \A v : Finish(act[d], v).n <= Bound
  BY FinishBounded, MembersAssumption, BoundsAssumption
<1>3. CASE DriverCommand(d)
  <2>1. PICK r : act' = [act EXCEPT ![d] = AfterCommand(d, act[d], r)]
    BY <1>3 DEF DriverCommand
  <2>2. AfterCommand(d, act[d], r).n <= Bound
    BY <1>1, <1>2 DEF AfterCommand, Activations
  <2> QED
    BY <2>1, <2>2, StepBounded
<1>4. CASE DriverQuery(d) \/ BelievedCheck(d) \/ StoreBelief(d)
  <2>1. PICK v : act' = [act EXCEPT ![d] = Finish(act[d], v)]
    BY <1>4 DEF DriverQuery, BelievedCheck, StoreBelief
  <2> QED
    BY <2>1, <1>2, StepBounded
<1>5. CASE PollCheck(d)
  <2>1. PICK s : act' = [act EXCEPT ![d] =
                   IF s \in {Desired(act[d].op, act[d].arg), Panic} \/ PollSpent(act[d])
                   THEN Finish(act[d], s) ELSE NextMember(act[d])]
    BY <1>5 DEF PollCheck, PollDone, PollAgain
  <2>2. CASE ~PollSpent(act[d])
    <3>1. Kind[d] # "group" /\ act[d].n # PollLimit
      BY <1>5, <2>2 DEF PollCheck, Leaf, PollSpent
    <3>2. NextMember(act[d]).n <= Bound
      BY <3>1, <1>1, BoundsAssumption DEF NextMember, Activations
    <3> QED
      BY <2>1, <3>2, <1>2, StepBounded
  <2>3. CASE PollSpent(act[d])
    BY <2>1, <2>3, <1>2, StepBounded
  <2> QED
    BY <2>2, <2>3
<1>6. CASE GroupPhase(d)
  <2>1. PICK b : /\ act' = [act EXCEPT ![d] = b]
                 /\ \/ b = [act[d] EXCEPT !.pc = "scan", !.n = 1]
                    \/ \E v : b = Finish(act[d], v)
    BY <1>6 DEF GroupPhase, GroupPcs
  <2>2. Kind[d] = "group" /\ [act[d] EXCEPT !.pc = "scan", !.n = 1].n = 1
    BY <1>6, <1>1 DEF GroupPhase, Activations, IInv, LockOrder
  <2>3. 1 <= Len(Members[d]) + 1
    BY MembersAssumption
  <2>4. b.n <= Bound
    BY <2>1, <2>2, <2>3, <1>2
  <2> QED
    BY <2>1, <2>4, StepBounded
<1> QED
  BY <1>3, <1>4, <1>5, <1>6 DEF DriverStep

\* A group that waits for a member has not come to the end of its list, so the
\* answer takes it at most one past the last member.
LEMMA ReturnBounded ==
  ASSUME IInv, StepsBounded, NEW d \in Devices, Return(d)
  PROVE  StepsBounded'
<1> DEFINE g == caller[d]
           Bound(e) == IF Kind[e] = "group" THEN Len(Members[e]) + 1 ELSE PollLimit
<1>1. holder[d] # None /\ g \in 0..N
  BY DEF Return, IInv, Typed, LockOrder
<1>2. Idle.n <= Bound(d)
  BY FinishBounded DEF Idle
<1>3. CASE g = 0
  BY <1>2, <1>3, StepBounded DEF Return
<1>4. CASE g # 0
  <2>1. g \in Devices /\ g > d /\ holder[g] = holder[d] /\ top[holder[d]] \in 1..d
    BY <1>1, <1>4, BoundsAssumption DEF IInv, LockOrder, Typed, Devices
  <2>2. AtMember(g) /\ Kind[g] = "group" /\ act[g] \in Activations
    BY <1>1, <2>1 DEF IInv, LockOrder, Typed, AtMember, Devices
  <2>3. act[g].n + 1 <= Bound(g) /\ act[g].n <= Bound(g) /\ 0 <= Bound(g)
    BY <2>2, <2>1, MembersAssumption DEF AtMember, Activations
  <2>4. \A v : Finish(act[g], v).n <= Bound(g)
    BY <2>1, <2>3, FinishBounded
  <2>5. \A a \in {act[g], [act[g] EXCEPT !.pc = "probe"]} : NextMember(a).n <= Bound(g)
    BY <2>2, <2>3 DEF NextMember, Activations
  <2>6. [act[g] EXCEPT !.pc = "command"].n <= Bound(g)
    BY <2>2, <2>3 DEF Activations
  <2>7. \A v : NextMember([act[g] EXCEPT !.val = v]).n <= Bound(g)
    BY <2>2, <2>3 DEF NextMember, Activations
  <2>8. Resume(act[g], act[d].val).n <= Bound(g)
    BY <2>2, <2>4, <2>5, <2>6, <2>7 DEF Resume, AfterCheck, AtMember, GroupPcs
  <2>9. act' = [act EXCEPT ![d] = Idle, ![g] = Resume(act[g], act[d].val)]
    BY <1>4, <2>1 DEF Return, Devices
  <2> QED
    BY <2>1, <2>8, <2>9, <1>2 DEF StepsBounded, IInv, Typed
<1> QED
  BY <1>3, <1>4

\* The counters keep their bounds.
LEMMA NextBounded == IInv /\ StepsBounded /\ [Next]_vars => StepsBounded'
<1> SUFFICES ASSUME IInv, StepsBounded, [Next]_vars PROVE StepsBounded'
  OBVIOUS
<1>1. ASSUME NEW t \in Threads, Call(t) PROVE StepsBounded'
  BY <1>1 DEF Call, StepsBounded
<1>2. ASSUME NEW t \in Threads, Acquire(t) PROVE StepsBounded'
  BY <1>2, StartBounded
<1>3. ASSUME NEW d \in Devices, DriverStep(d) \/ LocalStep(d) PROVE StepsBounded'
  BY <1>3, CallBounded, ReturnBounded DEF LocalStep
<1>4. ASSUME NEW d \in Devices, Settle(d) \/ ByHand(d) PROVE StepsBounded'
  BY <1>4 DEF Settle, ByHand, StepsBounded
<1>5. CASE UNCHANGED vars
  BY <1>5 DEF vars, StepsBounded
<1> QED
  BY <1>1, <1>2, <1>3, <1>4, <1>5 DEF Next

\* The variables keep their types, groups count no further than one past their
\* last member and wait loops no further than their limit, in every reachable
\* state.
THEOREM TypeCorrect == Spec => []TypeOK
<1>1. Init => StepsBounded
  BY MembersAssumption, BoundsAssumption DEF Init, Idle, StepsBounded
<1>2. Spec => [](IInv /\ StepsBounded)
  BY <1>1, InitIInv, NextIInv, NextBounded, PTL DEF Spec
<1>3. IInv /\ StepsBounded => TypeOK
  BY DEF IInv, TypeOK
<1> QED
  BY <1>2, <1>3, PTL

\* Threads take mutexes in descending order, whatever groups are nested in
\* whatever groups and however calls fail or panic.
THEOREM LocksOrdered == Spec => []LockOrder
<1>1. Spec => []IInv
  BY InitIInv, NextIInv, PTL DEF Spec
<1>2. IInv => LockOrder
  BY DEF IInv
<1> QED
  BY <1>1, <1>2, PTL

\* A thread between two calls holds no mutex.
THEOREM NothingLeaks == Spec => []NoLeakedLock
<1>1. Spec => []IInv
  BY InitIInv, NextIInv, PTL DEF Spec
<1>2. IInv => NoLeakedLock
  <2> SUFFICES ASSUME IInv, NEW t \in Threads, NEW d \in Devices, holder[d] = t
               PROVE  ask[t] # None
    BY DEF NoLeakedLock
  <2>1. top[t] \in 1..d
    BY NoneAssumption DEF IInv, LockOrder
  <2> QED
    BY <2>1 DEF IInv, LockOrder
<1> QED
  BY <1>1, <1>2, PTL

\* A set of natural numbers has a least member.
LEMMA LeastMember ==
  ASSUME NEW T, T \subseteq Nat, T # {}
  PROVE  \E x \in T : \A y \in T : x <= y
<1>1. PICK x \in T : \A y \in T : <<y, x>> \notin OpToRel(<, Nat)
  BY NatLessThanWellFounded, WFMin
<1>2. \A y \in T : ~(y < x)
  BY <1>1 DEF OpToRel
<1> QED
  BY <1>2

\* In a set of waiting threads, the one that waits for the lowest device waits
\* for a thread that itself waits for nothing in the set.
LEMMA WaitsForNoCircle == IInv => NoCircularWait
<1> SUFFICES ASSUME IInv, NEW S \in (SUBSET Threads) \ {{}},
                    ~ \E t \in S : Calling(t) => holder[Pending(t).dev] \notin S
             PROVE  FALSE
  BY Zenon DEF NoCircularWait
<1>0. S \subseteq Threads /\ S # {}
      /\ \A t \in S : Calling(t) /\ holder[Pending(t).dev] \in S
  OBVIOUS
<1> DEFINE T == {Pending(t).dev : t \in S}
<1>1. T \subseteq Nat /\ T # {}
  BY <1>0, PendingBelow DEF Calls, Devices
<1>2. PICK t \in S : \A u \in S : Pending(t).dev <= Pending(u).dev
  <2>1. PICK x \in T : \A y \in T : x <= y
    <3> HIDE DEF T
    <3> QED BY <1>1, LeastMember
  <2> QED
    BY <2>1
<1> DEFINE d == Pending(t).dev
           u == holder[d]
<1>3. d \in Devices /\ u \in S /\ u # None
  BY <1>0, PendingBelow, NoneAssumption DEF Calls
<1>4. top[u] \in 1..d
  BY <1>3 DEF IInv, LockOrder
<1>5. Pending(u).dev < top[u] /\ Pending(u).dev \in Devices
  BY <1>0, <1>3, <1>4, PendingBelow DEF Calls
<1> QED
  BY <1>2, <1>3, <1>4, <1>5 DEF Devices

\* No deadlock among the threads that share the devices.
THEOREM NoDeadlock == Spec => []NoCircularWait
<1>1. Spec => []IInv
  BY InitIInv, NextIInv, PTL DEF Spec
<1> QED
  BY <1>1, WaitsForNoCircle, PTL

-----------------------------------------------------------------------------
(* What a device answers, and what InstantOnDevice believes.               *)

Harmless(d) == d \notin Handled \cup Faulty \cup Panicky

\* The desired state of the call in progress is where the hardware is going.
OnItsWay(d) == StateOf(goal[d]) = Desired(act[d].op, act[d].arg)

\* Only commands are followed up, by the wrapper that does so.
FollowUp(d) ==
  /\ act[d].pc = "store" => Kind[d] = "instant"
  /\ act[d].pc = "poll" => Kind[d] = "polling"
  /\ act[d].pc \in {"store", "poll"} => act[d].op \in Commands
  /\ believed[d] => Kind[d] = "instant"

\* An answer is that of the hardware, which stays where it is or is on its way
\* to where the answer has it.
Current(d) ==
  /\ d \notin Slow => level[d] = goal[d]
  /\ act[d].pc = "poll" => OnItsWay(d)
  /\ FreshAnswer(d) => /\ act[d].val = StateOf(level[d])
                       /\ act[d].op \in Commands => act[d].val = StateOf(goal[d])

Warranted(d) ==
  /\ act[d].pc = "store" => OnItsWay(d)
  /\ believed[d] /\ act[d].pc # "store" => goal[d] > 0

AInvAt(d) ==
  /\ FollowUp(d)
  /\ d \notin Handled => Current(d)
  /\ Harmless(d) => Warranted(d)

\* The inductive invariant, on top of IInv.
AInv == \A d \in Devices : AInvAt(d)

-----------------------------------------------------------------------------
\* A driver drives its hardware to the desired state.
LEMMA WantedIsDesired ==
  ASSUME NEW d \in Devices, NEW op \in Commands, NEW arg \in Levels
  PROVE  /\ StateOf(Wanted(d, op, arg)) = Desired(op, arg)
         /\ Wanted(d, op, arg) \in Levels
BY BoundsAssumption DEF StateOf, Wanted, Desired, Commands, Levels

\* A device whose call, belief and hardware do not change.
LEMMA SameAt ==
  ASSUME NEW d \in Devices, AInvAt(d), act'[d] = act[d], believed'[d] = believed[d],
         level'[d] = level[d], goal'[d] = goal[d]
  PROVE  AInvAt(d)'
BY DEF AInvAt, FollowUp, Current, Warranted, FreshAnswer, OnItsWay, Leaf, Lies

\* A call that starts, ends or is one of a group answers nothing by itself.
LEMMA QuietAt ==
  ASSUME NEW d \in Devices, AInvAt(d), act[d].pc # "store", act'[d].pc \notin {"store", "poll"},
         act'[d].pc = "return" => Kind[d] = "group",
         believed'[d] = believed[d], level'[d] = level[d], goal'[d] = goal[d]
  PROVE  AInvAt(d)'
BY DEF AInvAt, FollowUp, Current, Warranted, FreshAnswer, OnItsWay, Leaf

\* Only device d takes part in the step.
LEMMA OneDevice ==
  ASSUME IInv, AInv, NEW d \in Devices, NEW b, act' = [act EXCEPT ![d] = b],
         \A e \in Devices \ {d} : /\ believed'[e] = believed[e]
                                 /\ level'[e] = level[e] /\ goal'[e] = goal[e],
         AInvAt(d)'
  PROVE  AInv'
<1> SUFFICES ASSUME NEW e \in Devices \ {d} PROVE AInvAt(e)'
  BY DEF AInv
<1>1. act'[e] = act[e]
  BY DEF IInv, Typed
<1> QED
  BY <1>1, SameAt DEF AInv

\* At the start every device is at rest.
LEMMA InitAInv == Init => AInv
<1> SUFFICES ASSUME Init, NEW d \in Devices PROVE AInvAt(d)
  BY DEF AInv
<1> QED
  BY DEF Init, Idle, AInvAt, FollowUp, Current, Warranted, FreshAnswer, Leaf

\* A lock taken, or a call begun, disturbs no answer.
LEMMA AcquireAInv == ASSUME IInv, AInv, NEW t \in Threads, Acquire(t) PROVE AInv'
<1> DEFINE c == Pending(t)
<1>1. /\ c \in Calls /\ holder[c.dev] = None /\ act' = [act EXCEPT ![c.dev] = Start(c)]
      /\ UNCHANGED <<believed, level, goal>>
  BY PendingBelow DEF Acquire, Free, hardware
<1>2. c.dev \in Devices /\ c.op \in Ops /\ act[c.dev].pc = "idle"
  BY <1>1 DEF Calls, IInv, LockOrder
<1> HIDE DEF c
<1>3. act'[c.dev].pc = FirstPc(c.dev, c.op)
  BY <1>1, <1>2 DEF Start, IInv, Typed
<1>4. FirstPc(c.dev, c.op) \in GroupPcs \cup {"drive"}
  BY <1>2 DEF FirstPc, GroupPcs, Ops, Commands, Queries
<1>5. PICK d \in Devices : d = c.dev
  BY <1>2
<1>6. AInvAt(d)'
  BY <1>1, <1>2, <1>3, <1>4, <1>5, QuietAt DEF AInv, GroupPcs
<1> QED
  BY <1>1, <1>5, <1>6, OneDevice

\* A command of a raw driver leads where its answer says.
LEMMA CommandAInv == ASSUME IInv, AInv, NEW d \in Devices, DriverCommand(d) PROVE AInv'
<1> DEFINE a == act[d]
           l == Wanted(d, a.op, a.arg)
<1>1. a \in Activations /\ a.op \in Commands /\ a.pc = "drive" /\ Kind[d] # "group"
      /\ UNCHANGED <<locks, believed>>
  BY DEF DriverCommand, Leaf, IInv, Typed
<1>2. PICK r \in {StateOf(l)} \cup FailuresOf(d) :
        /\ act' = [act EXCEPT ![d] = AfterCommand(d, a, r)]
        /\ Effect(d, l) \/ (r \in {Err, Panic} /\ UNCHANGED hardware)
  BY DEF DriverCommand
<1>3. StateOf(l) = Desired(a.op, a.arg) /\ StateOf(l) \in {On, Off} /\ l \in Levels
  BY <1>1, WantedIsDesired DEF Activations, StateOf
<1>4. act'[d] = AfterCommand(d, a, r)
  BY <1>2 DEF IInv, Typed
<1>5. (\A e \in Devices \ {d} : level'[e] = level[e] /\ goal'[e] = goal[e])
      /\ (d \notin Slow /\ d \notin Handled => level'[d] = goal'[d])
      /\ (r \notin {Err, Panic} => goal'[d] = l)
  BY <1>2 DEF Effect, hardware, IInv, Typed, AInv, AInvAt, Current
<1>6. (r \in {Err, Panic} \/ r = StateOf(l)) /\ (Harmless(d) => r = StateOf(l))
  BY <1>2 DEF FailuresOf, Harmless
<1>7. Kind[d] \in {"plain", "instant", "polling"} /\ (believed[d] => Kind[d] = "instant")
  BY <1>1, MembersAssumption DEF Kinds, AInv, AInvAt, FollowUp
<1> HIDE DEF a, l
<1>8. CASE r = Panic \/ Kind[d] = "plain" \/ (Kind[d] = "polling" /\ r = Err)
  <2>1. act'[d].pc = "return" /\ act'[d].op = a.op /\ act'[d].val = r
    BY <1>1, <1>4, <1>8 DEF AfterCommand, Finish, Activations
  <2>2. ~FreshAnswer(d)'
    BY <1>1, <1>8, <2>1, AnswersAssumption DEF FreshAnswer, Leaf, Commands
  <2>3. Harmless(d) => ~believed[d]
    BY <1>3, <1>6, <1>7, <1>8, AnswersAssumption
  <2>4. AInvAt(d)'
    BY <1>1, <1>5, <1>7, <2>1, <2>2, <2>3
    DEF AInvAt, FollowUp, Current, Warranted, Harmless
  <2> QED
    BY <1>1, <1>2, <1>5, <2>4, OneDevice
<1>9. CASE ~(r = Panic \/ Kind[d] = "plain" \/ (Kind[d] = "polling" /\ r = Err))
  <2>1. act'[d].pc = (IF Kind[d] = "instant" THEN "store" ELSE "poll")
        /\ act'[d].op = a.op /\ act'[d].arg = a.arg
    BY <1>1, <1>4, <1>9 DEF AfterCommand, Activations
  <2>2. Kind[d] = "polling" \/ Harmless(d) => OnItsWay(d)'
    BY <1>3, <1>5, <1>6, <1>9, <2>1, AnswersAssumption DEF OnItsWay
  <2>3. AInvAt(d)'
    BY <1>1, <1>5, <1>7, <1>9, <2>1, <2>2
    DEF AInvAt, FollowUp, Current, Warranted, Harmless, FreshAnswer, Leaf
  <2> QED
    BY <1>1, <1>2, <1>5, <2>3, OneDevice
<1> QED
  BY <1>8, <1>9

\* A check answers what the hardware does, or what is believed.
LEMMA QueryAInv ==
  ASSUME IInv, AInv, NEW d \in Devices, DriverQuery(d) \/ BelievedCheck(d)
  PROVE  AInv'
<1>1. /\ act[d] \in Activations /\ act[d].pc = "drive" /\ Kind[d] # "group"
      /\ UNCHANGED <<believed, level, goal>>
  BY DEF DriverQuery, BelievedCheck, Leaf, hardware, IInv, Typed
<1>2. PICK r : act' = [act EXCEPT ![d] = Finish(act[d], r)]
               /\ (Lies(d) \/ r = DriverAnswer(d) \/ r \in FailuresOf(d))
  BY DEF DriverQuery, BelievedCheck
<1>3. act'[d].pc = "return" /\ act'[d].op = act[d].op /\ act'[d].val = r /\ act[d].op \in Queries
  BY <1>1, <1>2 DEF DriverQuery, BelievedCheck, Lies, Queries, Finish, Activations, IInv, Typed
<1>4. Lies(d)' <=> Lies(d)
  BY <1>1, <1>3 DEF Lies
<1>5. FreshAnswer(d)' => r = StateOf(level[d]) /\ act'[d].op \notin Commands
  BY <1>2, <1>3, <1>4, AnswersAssumption
  DEF FreshAnswer, Leaf, Queries, Commands, FailuresOf, DriverAnswer
<1>6. AInvAt(d)'
  BY <1>1, <1>3, <1>5 DEF AInv, AInvAt, FollowUp, Current, Warranted
<1> QED
  BY <1>1, <1>2, <1>6, OneDevice

\* What is stored as the belief is on its way.
LEMMA StoreAInv == ASSUME IInv, AInv, NEW d \in Devices, StoreBelief(d) PROVE AInv'
<1>1. /\ act[d] \in Activations /\ act[d].pc = "store" /\ UNCHANGED <<level, goal>>
      /\ act' = [act EXCEPT ![d] = Finish(act[d], act[d].val)]
      /\ believed' = [believed EXCEPT ![d] = (Desired(act[d].op, act[d].arg) = On)]
  BY DEF StoreBelief, NewBelief, Leaf, hardware, IInv, Typed
<1>2. Kind[d] = "instant" /\ act[d].op \in Commands
  BY <1>1 DEF AInv, AInvAt, FollowUp
<1>3. act'[d].pc = "return" /\ act'[d].op = act[d].op
  BY <1>1 DEF Finish, Activations, IInv, Typed
<1>4. ~FreshAnswer(d)'
  BY <1>2, <1>3 DEF FreshAnswer, Commands
<1>5. Harmless(d) /\ believed'[d] => goal'[d] > 0
  BY <1>1, AnswersAssumption DEF AInv, AInvAt, Warranted, OnItsWay, StateOf, IInv, Typed
<1>6. AInvAt(d)'
  BY <1>1, <1>2, <1>3, <1>4, <1>5 DEF AInv, AInvAt, FollowUp, Current, Warranted, Harmless
<1>7. \A e \in Devices \ {d} : believed'[e] = believed[e]
  BY <1>1 DEF IInv, Typed
<1> QED
  BY <1>1, <1>6, <1>7, OneDevice

\* The wait loop ends with a state it has observed.
LEMMA PollAInv == ASSUME IInv, AInv, NEW d \in Devices, PollCheck(d) PROVE AInv'
<1> DEFINE want == Desired(act[d].op, act[d].arg)
<1>1. /\ act[d] \in Activations /\ act[d].pc = "poll" /\ UNCHANGED <<believed, level, goal>>
      /\ Kind[d] = "polling" /\ act[d].op \in Commands
  BY DEF PollCheck, Leaf, hardware, IInv, Typed, AInv, AInvAt, FollowUp
<1>2. PICK r \in {StateOf(level[d])} \cup FailuresOf(d) :
        act' = [act EXCEPT ![d] =
                  IF (IF r = Err THEN Opposite(want) ELSE r) \in {want, Panic}
                     \/ act[d].n = PollLimit
                  THEN Finish(act[d], IF r = Err THEN Opposite(want) ELSE r)
                  ELSE NextMember(act[d])]
  BY DEF PollCheck, PollAgain, PollDone, PollSpent
<1>3. want \in {On, Off} /\ Opposite(want) # want
  BY AnswersAssumption DEF Desired, Opposite
<1>4. CASE act' = [act EXCEPT ![d] = NextMember(act[d])]
  <2>1. act'[d].pc = "poll" /\ act'[d].op = act[d].op /\ act'[d].arg = act[d].arg
    BY <1>1, <1>4 DEF NextMember, Activations, IInv, Typed
  <2>2. AInvAt(d)'
    BY <1>1, <2>1 DEF AInv, AInvAt, FollowUp, Current, Warranted, OnItsWay, FreshAnswer, Leaf
  <2> QED
    BY <1>1, <1>4, <2>2, OneDevice
<1>5. CASE act' = [act EXCEPT ![d] = Finish(act[d], IF r = Err THEN Opposite(want) ELSE r)]
  <2>1. /\ act'[d].pc = "return" /\ act'[d].op = act[d].op /\ act'[d].arg = act[d].arg
        /\ act'[d].val = IF r = Err THEN Opposite(want) ELSE r
    BY <1>1, <1>5 DEF Finish, Activations, IInv, Typed
  <2>2. FreshAnswer(d)' => r = want /\ act'[d].val = want
    BY <1>1, <1>3, <2>1 DEF FreshAnswer, Commands
  <2>3. FreshAnswer(d)' => act'[d].val = StateOf(level[d])
    BY <1>2, <1>3, <2>2, AnswersAssumption DEF FailuresOf
  <2>4. d \notin Handled => StateOf(goal[d]) = want
    BY <1>1 DEF AInv, AInvAt, Current, OnItsWay
  <2>5. AInvAt(d)'
    BY <1>1, <2>1, <2>2, <2>3, <2>4 DEF AInv, AInvAt, FollowUp, Current, Warranted
  <2> QED
    BY <1>1, <1>5, <2>5, OneDevice
<1> QED
  BY <1>2, <1>4, <1>5

\* A group that goes on moves no hardware.
LEMMA PhaseAInv == ASSUME IInv, AInv, NEW g \in Devices, GroupPhase(g) PROVE AInv'
<1>1. act[g] \in Activations /\ act[g].pc \in GroupPcs /\ UNCHANGED <<believed, level, goal>>
  BY DEF GroupPhase, hardware, IInv, Typed
<1>2. Kind[g] = "group"
  BY <1>1 DEF IInv, LockOrder
<1>3. PICK b : act' = [act EXCEPT ![g] = b]
               /\ \/ b = [act[g] EXCEPT !.pc = "scan", !.n = 1]
                  \/ \E v : b = Finish(act[g], v)
  BY <1>1 DEF GroupPhase, GroupPcs
<1>4. act'[g].pc \in {"scan", "return"}
  BY <1>1, <1>3 DEF Finish, Activations, IInv, Typed
<1>5. AInvAt(g)'
  BY <1>1, <1>2, <1>4, QuietAt DEF AInv, GroupPcs
<1> QED
  BY <1>1, <1>3, <1>5, OneDevice

\* An answer that is passed on changes neither hardware nor belief.
LEMMA ReturnAInv == ASSUME IInv, AInv, NEW d \in Devices, Return(d) PROVE AInv'
<1> DEFINE g == caller[d]
           b == Resume(act[g], act[d].val)
<1>1. act[d].pc = "return" /\ act[d] \in Activations /\ holder[d] # None
      /\ UNCHANGED <<believed, level, goal>>
  BY DEF Return, hardware, IInv, Typed, LockOrder
<1>2. g # 0 => /\ g \in Devices /\ g # d /\ AtMember(g) /\ g # top[holder[g]]
  <2> SUFFICES ASSUME g # 0 PROVE g \in Devices /\ g # d /\ AtMember(g) /\ g # top[holder[g]]
    OBVIOUS
  <2>1. g \in 0..N /\ g > d /\ holder[g] = holder[d] /\ top[holder[d]] \in 1..d /\ N \in Nat
    BY <1>1, BoundsAssumption DEF IInv, Typed, LockOrder
  <2>2. g \in Devices /\ g # top[holder[g]] /\ holder[g] # None
    BY <1>1, <2>1 DEF Devices
  <2> QED
    BY <2>1, <2>2 DEF IInv, LockOrder, Devices
<1>3. g # 0 => /\ act[g].pc \in GroupPcs /\ act[g].n > 0 /\ Kind[g] = "group"
               /\ act[g] \in Activations
  BY <1>2 DEF AtMember, IInv, LockOrder, Typed
<1>4. g # 0 => b.pc \in GroupPcs \cup {"return"}
  BY <1>1, <1>3, ResumeType DEF Activations
<1>5. /\ act'[d] = Idle /\ (g # 0 => act'[g] = b)
      /\ \A e \in Devices \ {d, g} : act'[e] = act[e]
  BY <1>2 DEF Return, IInv, Typed
<1> HIDE DEF b
<1>6. AInvAt(d)'
  BY <1>1, <1>5, QuietAt DEF AInv, Idle
<1>7. ASSUME NEW e \in Devices, e = g PROVE AInvAt(e)'
  <2>1. g # 0
    BY <1>7 DEF Devices
  <2>2. /\ AInvAt(e) /\ act[e].pc # "store" /\ act'[e].pc \notin {"store", "poll"}
        /\ Kind[e] = "group" /\ UNCHANGED <<believed, level, goal>>
    BY <1>1, <1>3, <1>4, <1>5, <1>7, <2>1 DEF AInv, GroupPcs
  <2> QED
    BY <2>2, QuietAt
<1>8. \A e \in Devices : e # g /\ e # d => AInvAt(e)'
  BY <1>1, <1>5, SameAt DEF AInv
<1> QED
  BY <1>6, <1>7, <1>8 DEF AInv

\* Hardware that settles, or that a hand moves, keeps what is said of the others.
LEMMA HardwareAInv ==
  ASSUME IInv, AInv, NEW d \in Devices, Settle(d) \/ ByHand(d)
  PROVE  AInv'
<1>1. UNCHANGED <<act, believed>> /\ level[d] \in Nat /\ goal[d] \in Nat
  BY DEF Settle, ByHand, IInv, Typed, Levels
<1>2. \A e \in Devices \ {d} : level'[e] = level[e] /\ goal'[e] = goal[e]
  BY DEF Settle, ByHand, IInv, Typed
<1>3. AInvAt(d)'
  <2>1. CASE Settle(d)
    <3>1. level'[d] = goal[d] /\ goal'[d] = goal[d] /\ level[d] # goal[d]
      BY <2>1 DEF Settle, IInv, Typed
    <3>2. d \notin Handled => d \in Slow
      BY <3>1 DEF AInv, AInvAt, Current
    <3> QED
      BY <1>1, <3>1, <3>2
      DEF AInv, AInvAt, FollowUp, Current, Warranted, FreshAnswer, OnItsWay, Leaf, Lies
  <2>2. CASE ByHand(d)
    BY <1>1, <2>2 DEF ByHand, AInv, AInvAt, FollowUp, Harmless
  <2> QED
    BY <2>1, <2>2
<1>4. \A e \in Devices \ {d} : AInvAt(e)'
  BY <1>1, <1>2, SameAt DEF AInv
<1> QED
  BY <1>3, <1>4 DEF AInv

\* The invariant of the answers is inductive.
LEMMA NextAInv == IInv /\ AInv /\ [Next]_vars => AInv'
<1> SUFFICES ASSUME IInv, AInv, [Next]_vars PROVE AInv'
  OBVIOUS
<1>1. ASSUME UNCHANGED <<act, believed, level, goal>> PROVE AInv'
  BY <1>1, SameAt DEF AInv
<1>2. ASSUME NEW t \in Threads, Call(t) \/ Acquire(t) PROVE AInv'
  BY <1>1, <1>2, AcquireAInv DEF Call, hardware
<1>3. ASSUME NEW d \in Devices, DriverStep(d) \/ LocalStep(d) PROVE AInv'
  BY <1>3, CommandAInv, QueryAInv, PollAInv, StoreAInv, PhaseAInv, ReturnAInv
  DEF DriverStep, LocalStep
<1>4. ASSUME NEW d \in Devices, Settle(d) \/ ByHand(d) PROVE AInv'
  BY <1>4, HardwareAInv
<1>5. CASE UNCHANGED vars
  BY <1>1, <1>5 DEF vars
<1> QED
  BY <1>2, <1>3, <1>4, <1>5 DEF Next

-----------------------------------------------------------------------------
(* The calls on a thread's stack and their answers fit together.           *)

CallOf(d) == [dev |-> d, op |-> act[d].op, arg |-> act[d].arg]

\* The call in progress at d is the one its thread or its group makes.
Matching ==
  \A d \in Devices : holder[d] # None =>
    CallOf(d) = IF caller[d] = 0 THEN ask[holder[d]] ELSE MemberCall(caller[d])

AnswersOf(op) ==
  IF op = "check_percent" THEN Levels \cup {None, Err, Panic}
  ELSE IF op = "supports_percent" THEN {Yes, No, Panic} ELSE {On, Off, Err, Panic}

Suited(a) ==
  /\ a.pc \in {"store", "return"} => a.val \in AnswersOf(a.op)
  /\ a.pc \in {"store", "poll"} => a.op \in Commands
  /\ a.pc \in {"probe", "command"} => a.op \in {"turn_on", "turn_off"}
  /\ a.pc = "apply" => a.op = "set_percent"
  /\ a.pc = "scan" => a.op \in Commands \cup {"check_is_on"}
  /\ a.pc = "support" => a.op = "supports_percent"
  /\ a.pc = "percents" => a.op = "check_percent" /\ a.val \in Levels \cup {None}

CInv == Matching /\ \A d \in Devices : Suited(act[d])

\* What a group asks depends on its call only.
LEMMA SameMemberCall ==
  ASSUME NEW g, act'[g] = act[g]
  PROVE  MemberCall(g)' = MemberCall(g)
<1>1. MemberOp(act[g])' = MemberOp(act[g])
  BY DEF MemberOp
<1> QED
  BY <1>1 DEF MemberCall

\* At the start no call is under way.
LEMMA InitCInv == Init => CInv
BY DEF Init, CInv, Matching, Suited, Idle

\* The call in progress at d goes on, or is about to return.
LEMMA GoOnCInv ==
  ASSUME IInv, CInv, NEW d \in Devices, act[d].pc # "idle", ~AtMember(d), UNCHANGED locks,
         NEW b, act' = [act EXCEPT ![d] = b], b.op = act[d].op, b.arg = act[d].arg, Suited(b)
  PROVE  CInv'
<1>1. act'[d] = b /\ \A e \in Devices \ {d} : act'[e] = act[e]
  BY DEF IInv, Typed
<1>2. \A e \in Devices : CallOf(e)' = CallOf(e)
  BY <1>1 DEF CallOf
<1>3. ASSUME NEW e \in Devices, holder[e] # None, caller[e] # 0
      PROVE  caller[e] \in Devices /\ caller[e] # d
  <2>1. top[holder[e]] \in 1..e /\ caller[e] > e /\ holder[caller[e]] = holder[e]
        /\ caller[e] \in 0..N /\ N \in Nat
    BY <1>3, BoundsAssumption DEF IInv, LockOrder, Typed
  <2>2. caller[e] \in Devices /\ caller[e] # top[holder[e]]
    BY <1>3, <2>1 DEF Devices
  <2>3. AtMember(caller[e])
    BY <1>3, <2>1, <2>2 DEF IInv, LockOrder
  <2> QED
    BY <2>2, <2>3
<1>4. ASSUME NEW e \in Devices, holder[e] # None, caller[e] # 0
      PROVE  MemberCall(caller[e])' = MemberCall(caller[e])
  <2>1. PICK g \in Devices : g = caller[e] /\ g = caller'[e] /\ act'[g] = act[g]
    BY <1>1, <1>3, <1>4 DEF locks
  <2>2. MemberCall(g)' = MemberCall(g)
    BY <2>1, SameMemberCall
  <2> QED
    BY <2>1, <2>2 DEF MemberCall
<1>5. Matching'
  BY <1>2, <1>4 DEF CInv, Matching, locks
<1>6. \A e \in Devices : Suited(act'[e])
  BY <1>1 DEF CInv
<1> QED
  BY <1>5, <1>6 DEF CInv

\* A new call matches nothing yet.
LEMMA CallCInv == ASSUME IInv, CInv, NEW t \in Threads, Call(t) PROVE CInv'
<1>1. ask[t] = None /\ (\A u \in Threads \ {t} : ask'[u] = ask[u])
      /\ UNCHANGED <<holder, act, caller>>
  BY DEF Call, IInv, Typed
<1>2. \A d \in Devices : holder[d] # t
  BY <1>1, NoneAssumption DEF IInv, LockOrder
<1>3. \A d \in Devices : holder[d] # None => ask'[holder[d]] = ask[holder[d]]
  BY <1>1, <1>2 DEF IInv, Typed
<1>4. Matching'
  BY ZenonT(60), <1>1, <1>3 DEF CInv, Matching, CallOf, MemberCall, MemberOp
<1> QED
  BY <1>1, <1>4 DEF CInv

\* The call that starts is the one that was asked for.
LEMMA AcquireCInv == ASSUME IInv, CInv, NEW t \in Threads, Acquire(t) PROVE CInv'
<1> DEFINE c == Pending(t)
<1>1. c \in Calls /\ c.dev \in Devices /\ holder[c.dev] = None
  BY PendingBelow DEF Acquire, Free, Calls
<1>2. PICK d \in Devices : d = c.dev
  BY <1>1
<1>3. /\ holder' = [holder EXCEPT ![d] = t] /\ caller' = [caller EXCEPT ![d] = top[t]]
      /\ act' = [act EXCEPT ![d] = Start(c)] /\ UNCHANGED ask
  BY <1>2 DEF Acquire
<1>4. /\ holder'[d] = t /\ caller'[d] = top[t] /\ act'[d] = Start(c)
      /\ \A e \in Devices \ {d} : /\ holder'[e] = holder[e] /\ caller'[e] = caller[e]
                                 /\ act'[e] = act[e]
  BY <1>3 DEF IInv, Typed
<1>5. c = [dev |-> d, op |-> c.op, arg |-> c.arg] /\ c.op \in Ops
  BY <1>1, <1>2 DEF Calls
<1>6. CallOf(d)' = c
  BY <1>4, <1>5 DEF CallOf, Start
<1>7. Suited(Start(c))
  BY <1>5, Zenon DEF Suited, Start, FirstPc, Ops, Commands, Queries
<1>8. \A e \in Devices : caller[e] # 0 /\ holder[e] # None => caller[e] # d
  BY <1>1, <1>2 DEF IInv, LockOrder
<1>9. \A e \in Devices : e # d /\ holder[e] # None /\ caller[e] # 0
        => MemberCall(caller[e])' = MemberCall(caller[e])
  <2> TAKE e \in Devices
  <2> HAVE e # d /\ holder[e] # None /\ caller[e] # 0
  <2>1. caller[e] \in Devices /\ caller[e] # d
    BY <1>8, BoundsAssumption DEF IInv, Typed, Devices
  <2> QED
    BY ZenonT(30), <1>4, <2>1 DEF MemberCall, MemberOp
<1>10. top[t] # 0 => top[t] \in Devices /\ top[t] # d /\ c = MemberCall(top[t])
  BY <1>1, <1>2, PendingBelow, BoundsAssumption DEF Acquire, Pending, IInv, Typed, Devices
<1>11. \A g : g = top[t] /\ g # 0 => MemberCall(g)' = MemberCall(g)
  BY <1>4, <1>10 DEF MemberCall, MemberOp
<1>12. top[t] = 0 => c = ask[t]
  BY DEF Pending
<1> HIDE DEF c
<1>13. \A g : g = top[t] => CallOf(d)' = IF g = 0 THEN ask'[t] ELSE MemberCall(g)'
  BY <1>3, <1>6, <1>10, <1>11, <1>12
<1>14. CallOf(d)' = IF caller'[d] = 0 THEN ask'[holder'[d]] ELSE MemberCall(caller[d])'
  BY <1>4, <1>13
<1>15. \A e \in Devices \ {d} : CallOf(e)' = CallOf(e)
  BY <1>4 DEF CallOf
<1>16. Matching'
  BY <1>3, <1>4, <1>9, <1>14, <1>15 DEF CInv, Matching
<1>17. \A e \in Devices : Suited(act'[e])
  BY <1>4, <1>7 DEF CInv
<1> QED
  BY <1>16, <1>17 DEF CInv

\* A raw driver, or its wrapper, goes on with the call it has.
LEMMA LeafCInv ==
  ASSUME IInv, CInv, NEW d \in Devices,
         DriverCommand(d) \/ DriverQuery(d) \/ BelievedCheck(d) \/ StoreBelief(d) \/ PollCheck(d)
  PROVE  CInv'
<1> DEFINE a == act[d]
<1>1. /\ a \in Activations /\ Suited(a) /\ a.pc \in {"drive", "store", "poll"}
      /\ Kind[d] # "group" /\ UNCHANGED locks
  BY DEF DriverCommand, DriverQuery, BelievedCheck, StoreBelief, PollCheck, Leaf,
         IInv, Typed, CInv
<1>2. a.pc # "idle" /\ ~AtMember(d)
  BY <1>1 DEF AtMember, GroupPcs
<1>3. ASSUME NEW v \in AnswersOf(a.op)
      PROVE  /\ Finish(a, v).op = a.op /\ Finish(a, v).arg = a.arg /\ Suited(Finish(a, v))
  BY <1>1 DEF Finish, Activations, Suited
<1>4. FailuresOf(d) \subseteq {Err, Panic} /\ (\A l : StateOf(l) \in {On, Off})
      /\ level[d] \in Levels /\ (\A s : Opposite(s) \in {On, Off})
  BY DEF FailuresOf, StateOf, Opposite, IInv, Typed
<1>5. a.op \in Commands \cup {"check_is_on"} => AnswersOf(a.op) = {On, Off, Err, Panic}
  BY DEF AnswersOf, Commands
<1> HIDE DEF a
<1>6. ASSUME NEW v \in AnswersOf(a.op), act' = [act EXCEPT ![d] = Finish(a, v)]
      PROVE  CInv'
  BY <1>1, <1>2, <1>3, <1>6, GoOnCInv DEF a
<1>7. CASE DriverCommand(d)
  <2>1. PICK r : /\ r \in {On, Off, Err, Panic} /\ a.op \in Commands
                 /\ act' = [act EXCEPT ![d] = AfterCommand(d, a, r)]
    BY <1>4, <1>7 DEF DriverCommand, a
  <2>2. r \in AnswersOf(a.op)
    BY <1>5, <2>1
  <2>3. CASE AfterCommand(d, a, r) = Finish(a, r)
    BY <1>6, <2>1, <2>2, <2>3
  <2>4. CASE AfterCommand(d, a, r) # Finish(a, r)
    <3> DEFINE b == [a EXCEPT !.pc = IF Kind[d] = "instant" THEN "store" ELSE "poll", !.val = r]
    <3>1. AfterCommand(d, a, r) = b
      BY <2>4 DEF AfterCommand
    <3>2. b.op = a.op /\ b.arg = a.arg /\ b.pc \in {"store", "poll"} /\ b.val = r
      BY <1>1 DEF Activations
    <3> HIDE DEF b
    <3>3. Suited(b)
      BY <2>1, <2>2, <3>2 DEF Suited
    <3> QED
      BY <1>1, <1>2, <2>1, <3>1, <3>2, <3>3, GoOnCInv DEF a
  <2> QED
    BY <2>3, <2>4
<1>8. CASE DriverQuery(d)
  <2>1. PICK r : /\ act' = [act EXCEPT ![d] = Finish(a, r)] /\ a.op \in Queries
                 /\ r = DriverAnswer(d) \/ (a.op # "supports_percent" /\ r \in {Err, Panic})
    BY <1>4, <1>8 DEF DriverQuery, a
  <2>2. DriverAnswer(d) \in AnswersOf(a.op)
    BY <1>4, <2>1 DEF DriverAnswer, AnswersOf, Queries, a
  <2>3. r \in AnswersOf(a.op)
    BY <2>1, <2>2 DEF AnswersOf
  <2> QED
    BY <1>6, <2>1, <2>3
<1>9. CASE BelievedCheck(d)
  <2>1. act' = [act EXCEPT ![d] = Finish(a, On)] /\ a.op = "check_is_on"
    BY <1>9 DEF BelievedCheck, Lies, a
  <2> QED
    BY <1>5, <1>6, <2>1
<1>10. CASE StoreBelief(d)
  <2>1. act' = [act EXCEPT ![d] = Finish(a, a.val)] /\ a.val \in AnswersOf(a.op)
    BY <1>1, <1>10 DEF StoreBelief, Leaf, a, Suited
  <2> QED
    BY <1>6, <2>1
<1>11. CASE PollCheck(d)
  <2>1. a.pc = "poll" /\ a.op \in Commands
    BY <1>1, <1>11 DEF PollCheck, Leaf, Suited, a
  <2>2. CASE act' = [act EXCEPT ![d] = NextMember(a)]
    <3>1. /\ NextMember(a).op = a.op /\ NextMember(a).arg = a.arg
          /\ NextMember(a).pc = "poll"
      BY <1>1 , <2>1 DEF NextMember, Activations
    <3>2. Suited(NextMember(a))
      BY <2>1, <3>1 DEF Suited
    <3> QED
      BY <1>1, <1>2, <2>2, <3>1, <3>2, GoOnCInv DEF a
  <2>3. CASE act' # [act EXCEPT ![d] = NextMember(a)]
    <3>1. PICK r \in {StateOf(level[d])} \cup FailuresOf(d) :
            act' = [act EXCEPT ![d] =
                      Finish(a, IF r = Err THEN Opposite(Desired(a.op, a.arg)) ELSE r)]
      BY <1>11, <2>3 DEF PollCheck, PollDone, PollAgain, PollSpent, a
    <3>2. (IF r = Err THEN Opposite(Desired(a.op, a.arg)) ELSE r) \in AnswersOf(a.op)
      BY <1>4, <1>5, <2>1
    <3> QED
      BY <1>6, <3>1, <3>2
  <2> QED
    BY <2>2, <2>3
<1> QED
  BY <1>7, <1>8, <1>9, <1>10, <1>11

\* A group goes on with the call it has.
LEMMA PhaseCInv == ASSUME IInv, CInv, NEW g \in Devices, GroupPhase(g) PROVE CInv'
<1> DEFINE a == act[g]
<1>1. /\ a \in Activations /\ Suited(a) /\ a.pc \in GroupPcs /\ a.n > Len(Members[g])
      /\ UNCHANGED locks /\ a.n \in Nat /\ Len(Members[g]) \in Nat
      /\ act' = [act EXCEPT ![g] =
           CASE a.pc \in {"probe", "command", "apply"} -> [a EXCEPT !.pc = "scan", !.n = 1]
             [] a.pc = "scan"     -> Finish(a, Off)
             [] a.pc = "support"  -> Finish(a, IF Members[g] = <<>> THEN No ELSE Yes)
             [] a.pc = "percents" -> Finish(a, a.val)]
  BY MembersAssumption DEF GroupPhase, IInv, Typed, CInv, Activations
<1>2. a.pc # "idle" /\ ~AtMember(g)
  BY <1>1 DEF AtMember, GroupPcs
<1>3. CASE a.pc \in {"probe", "command", "apply"}
  <2> DEFINE b == [a EXCEPT !.pc = "scan", !.n = 1]
  <2>1. b.op = a.op /\ b.arg = a.arg /\ b.pc = "scan" /\ act' = [act EXCEPT ![g] = b]
    BY <1>1, <1>3 DEF Activations
  <2>2. a.op \in Commands
    BY <1>1, <1>3 DEF Suited, Commands
  <2> HIDE DEF b
  <2>3. Suited(b)
    BY <2>1, <2>2 DEF Suited
  <2> QED
    BY <1>1, <1>2, <2>1, <2>3, GoOnCInv
<1>4. CASE a.pc \notin {"probe", "command", "apply"}
  <2>1. PICK v \in AnswersOf(a.op) : act' = [act EXCEPT ![g] = Finish(a, v)]
    <3>1. CASE a.pc = "scan"
      BY <1>1, <3>1 DEF Suited, AnswersOf, Commands
    <3>2. CASE a.pc = "support"
      BY <1>1, <3>2 DEF Suited, AnswersOf
    <3>3. CASE a.pc = "percents"
      BY <1>1, <3>3 DEF Suited, AnswersOf
    <3> QED
      BY <1>1, <1>4, <3>1, <3>2, <3>3 DEF GroupPcs
  <2>2. Finish(a, v).op = a.op /\ Finish(a, v).arg = a.arg /\ Suited(Finish(a, v))
    BY <1>1 DEF Finish, Activations, Suited
  <2> QED
    BY <1>1, <1>2, <2>1, <2>2, GoOnCInv
<1> QED
  BY <1>3, <1>4

\* A group goes on with a member's answer to what it asked.
LEMMA ResumeSuited ==
  ASSUME NEW a \in Activations, Suited(a), a.pc \in GroupPcs, NEW r \in AnswersOf(MemberOp(a))
  PROVE  Suited(Resume(a, r)) /\ Resume(a, r).op = a.op /\ Resume(a, r).arg = a.arg
<1>1. ASSUME NEW v \in AnswersOf(a.op)
      PROVE  Suited(Finish(a, v)) /\ Finish(a, v).op = a.op /\ Finish(a, v).arg = a.arg
  BY DEF Finish, Activations, Suited
<1>2. Suited(NextMember(a)) /\ NextMember(a).op = a.op /\ NextMember(a).arg = a.arg
  BY DEF NextMember, Activations, Suited
<1>3. Panic \in AnswersOf(a.op)
  BY DEF AnswersOf
<1>4. CASE r = Panic
  BY <1>1, <1>3, <1>4 DEF Resume
<1>5. CASE r # Panic /\ a.pc = "probe"
  <2>1. [a EXCEPT !.pc = "command"].op = a.op /\ [a EXCEPT !.pc = "command"].arg = a.arg
        /\ Suited([a EXCEPT !.pc = "command"])
    BY <1>5 DEF Suited, Activations
  <2> QED
    BY <1>2, <1>5, <2>1 DEF Resume
<1>6. CASE r # Panic /\ a.pc = "command"
  <2> DEFINE b == NextMember([a EXCEPT !.pc = "probe"])
  <2>1. b.op = a.op /\ b.arg = a.arg /\ b.pc = "probe"
    BY DEF NextMember, Activations
  <2> HIDE DEF b
  <2>2. Suited(b)
    BY <1>6, <2>1 DEF Suited
  <2> QED
    BY <1>1, <1>3, <1>6, <2>1, <2>2 DEF Resume, b
<1>7. CASE r # Panic /\ a.pc = "apply"
  <2>1. Err \in AnswersOf(a.op)
    BY <1>7 DEF Suited, AnswersOf
  <2> QED
    BY <1>1, <1>2, <1>7, <2>1 DEF Resume
<1>8. CASE r # Panic /\ a.pc = "scan"
  <2>1. On \in AnswersOf(a.op)
    BY <1>8 DEF Suited, AnswersOf, Commands
  <2> QED
    BY <1>1, <1>2, <1>8, <2>1 DEF Resume, AfterCheck
<1>9. CASE r # Panic /\ a.pc = "support"
  <2>1. No \in AnswersOf(a.op)
    BY <1>9 DEF Suited, AnswersOf
  <2> QED
    BY <1>1, <1>2, <1>9, <2>1 DEF Resume
<1>10. CASE r # Panic /\ a.pc = "percents"
  <2>1. a.op = "check_percent" /\ a.val \in Levels \cup {None} /\ Err \in AnswersOf(a.op)
    BY <1>10 DEF Suited, AnswersOf
  <2>2. CASE r = Err
    BY <1>1, <1>10, <2>1, <2>2 DEF Resume
  <2>3. CASE r # Err
    <3>1. r \in Levels \cup {None}
      BY <1>10, <2>3 DEF AnswersOf, MemberOp
    <3>2. Brighter(a.val, r) \in Levels \cup {None}
      BY <2>1, <3>1 DEF Brighter
    <3> DEFINE b == NextMember([a EXCEPT !.val = Brighter(a.val, r)])
    <3>3. b.op = a.op /\ b.arg = a.arg /\ b.pc = a.pc /\ b.val = Brighter(a.val, r)
      BY DEF NextMember, Activations
    <3>4. Resume(a, r) = b
      BY <1>10, <2>3 DEF Resume, NextMember, Activations
    <3> HIDE DEF b
    <3>5. Suited(b)
      BY <1>10, <2>1, <3>2, <3>3 DEF Suited
    <3> QED
      BY <3>3, <3>4, <3>5
  <2> QED
    BY <2>2, <2>3
<1> QED
  BY <1>4, <1>5, <1>6, <1>7, <1>8, <1>9, <1>10 DEF GroupPcs

\* A call returns to the call that made it.
LEMMA ReturnCInv == ASSUME IInv, CInv, NEW d \in Devices, Return(d) PROVE CInv'
<1> DEFINE t == holder[d]
           g == caller[d]
           b == Resume(act[g], act[d].val)
<1>1. /\ act[d].pc = "return" /\ act[d] \in Activations /\ holder[d] # None
      /\ t \in Threads /\ top[t] = d /\ N \in Nat
  <2>1. act[d].pc = "return" /\ ~AtMember(d) /\ act[d] \in Activations
    BY DEF Return, AtMember, GroupPcs, IInv, Typed
  <2> QED
    BY <2>1, BoundsAssumption DEF IInv, Typed, LockOrder
<1>2. g # 0 => /\ g \in Devices /\ g > d /\ holder[g] = t /\ AtMember(g)
               /\ act[g] \in Activations /\ act[g].pc \in GroupPcs
  BY <1>1 DEF IInv, Typed, LockOrder, Devices, AtMember
\* No other call was made by the thread itself or by that group.
<1>3. ASSUME NEW e \in Devices, e # d, holder[e] # None
      PROVE  /\ caller[e] # d /\ (g # 0 => caller[e] # g)
             /\ caller[e] = 0 => g # 0 \/ holder[e] # t
  <2>1. caller[e] # 0 => caller[e] > e /\ holder[caller[e]] = holder[e]
    BY <1>3 DEF IInv, LockOrder
  <2>2. holder[e] = t => top[t] \in 1..e
    BY <1>3 DEF IInv, LockOrder
  <2>3. holder[e] = t => d < e
    BY <1>1, <1>3, <2>2 DEF Devices
  <2>4. holder[e] = t => g # 0 /\ g <= e
    BY <1>1, <2>3 DEF IInv, LockOrder
  <2>5. e \in Nat /\ d \in Nat /\ g \in Nat /\ caller[e] \in Nat /\ d # 0
    BY <1>1 DEF Devices, IInv, Typed
  <2> QED
    BY <1>2, <2>1, <2>3, <2>4, <2>5
<1>4. g # 0 => act[d].op = MemberOp(act[g]) /\ act[d].val \in AnswersOf(MemberOp(act[g]))
  <2>1. g # 0 => CallOf(d) = MemberCall(g)
    BY <1>1 DEF CInv, Matching
  <2>2. act[d].val \in AnswersOf(act[d].op)
    BY <1>1 DEF CInv, Suited
  <2> QED
    BY <2>1, <2>2 DEF CallOf, MemberCall
<1>5. g # 0 => Suited(b) /\ b.op = act[g].op /\ b.arg = act[g].arg
  BY <1>2, <1>4, ResumeSuited DEF CInv
<1>6. /\ act'[d] = Idle /\ (g # 0 => act'[g] = b)
      /\ \A e \in Devices : e # d /\ e # g => act'[e] = act[e]
  BY <1>1, <1>2 DEF Return, IInv, Typed, Devices
<1>7. /\ holder'[d] = None
      /\ \A e \in Devices : e # d => holder'[e] = holder[e] /\ caller'[e] = caller[e]
      /\ \A u : u # t \/ g # 0 => ask'[u] = ask[u]
  BY <1>1 DEF Return, Unlocked, IInv, Typed
<1> HIDE DEF b
<1>8. \A e \in Devices : e # d => CallOf(e)' = CallOf(e)
  <2> TAKE e \in Devices
  <2> HAVE e # d
  <2>1. act'[e].op = act[e].op /\ act'[e].arg = act[e].arg
    <3>1. e = g => g # 0
      BY DEF Devices
    <3> QED
      BY <1>5, <1>6, <3>1
  <2> QED
    BY <2>1 DEF CallOf
<1>9. ASSUME NEW e \in Devices, e # d, holder'[e] # None
      PROVE  CallOf(e)' = IF caller'[e] = 0 THEN ask'[holder'[e]] ELSE MemberCall(caller[e])'
  <2>1. holder'[e] = holder[e] /\ caller'[e] = caller[e] /\ holder[e] # None
    BY <1>7, <1>9
  <2>2. CallOf(e) = IF caller[e] = 0 THEN ask[holder[e]] ELSE MemberCall(caller[e])
    BY <2>1 DEF CInv, Matching
  <2>3. CASE caller[e] = 0
    BY <1>3, <1>7, <1>8, <1>9, <2>1, <2>2, <2>3
  <2>4. CASE caller[e] # 0
    <3>1. PICK f \in Devices : f = caller[e] /\ f = caller'[e] /\ act'[f] = act[f]
      <4>1. caller[e] \in Devices
        BY <1>1, <2>4 DEF IInv, Typed, Devices
      <4>2. caller[e] # g
        BY <1>3, <1>9, <2>1, <2>4
      <4> QED
        BY <1>3, <1>6, <1>9, <2>1, <4>1, <4>2
    <3>2. MemberCall(f)' = MemberCall(f)
      BY <3>1, SameMemberCall
    <3> QED
      BY <1>8, <1>9, <2>2, <2>4, <3>1, <3>2 DEF MemberCall
  <2> QED
    BY <2>3, <2>4
<1>10. Matching'
  BY <1>7, <1>9 DEF Matching
<1>11. \A e \in Devices : Suited(act'[e])
  <2>1. Suited(Idle)
    BY DEF Idle, Suited
  <2> QED
    BY <1>1, <1>5, <1>6, <2>1 DEF CInv, Devices
<1> QED
  BY <1>10, <1>11 DEF CInv

\* The invariant of the calls is inductive.
LEMMA NextCInv == IInv /\ CInv /\ [Next]_vars => CInv'
<1> SUFFICES ASSUME IInv, CInv, [Next]_vars PROVE CInv'
  OBVIOUS
<1>1. ASSUME NEW t \in Threads, Call(t) \/ Acquire(t) PROVE CInv'
  BY <1>1, CallCInv, AcquireCInv
<1>2. ASSUME NEW d \in Devices, DriverStep(d) \/ LocalStep(d) PROVE CInv'
  BY <1>2, LeafCInv, PhaseCInv, ReturnCInv DEF DriverStep, LocalStep
<1>3. ASSUME UNCHANGED <<locks, act>> PROVE CInv'
  BY ZenonT(30), <1>3 DEF CInv, Matching, CallOf, MemberCall, MemberOp, locks
<1>4. CASE (\E d \in Devices : Settle(d) \/ ByHand(d)) \/ UNCHANGED vars
  BY <1>3, <1>4 DEF Settle, ByHand, vars, locks
<1> QED
  BY <1>1, <1>2, <1>4 DEF Next

-----------------------------------------------------------------------------
\* The inductive invariant: the mutexes are held in order, and answers are
\* those of the hardware and of the calls they belong to.
THEOREM Answering == Spec => [](IInv /\ AInv /\ CInv)
<1>1. Init => IInv /\ AInv /\ CInv
  BY InitIInv, InitAInv, InitCInv
<1>2. IInv /\ AInv /\ CInv /\ [Next]_vars => (IInv /\ AInv /\ CInv)'
  BY NextIInv, NextAInv, NextCInv
<1> QED
  BY <1>1, <1>2, PTL DEF Spec

\* What a check found, and a PollingDevice's word that the desired state is
\* reached, is still so when the call returns, whoever else wants the device.
THEOREM CurrentAnswers == Spec => []AnswersAreCurrent
<1>1. IInv /\ AInv /\ CInv => AnswersAreCurrent
  BY DEF AInv, AInvAt, Current, AnswersAreCurrent
<1> QED
  BY <1>1, Answering, PTL

\* Hardware that InstantOnDevice believes to be on is on its way to be.
THEOREM WarrantedBelief == Spec => []BeliefIsWarranted
<1>1. IInv /\ AInv /\ CInv => BeliefIsWarranted
  BY DEF AInv, AInvAt, Warranted, Harmless, BeliefIsWarranted
<1> QED
  BY <1>1, Answering, PTL
=============================================================================

--------------------------- MODULE VirtualDevices ---------------------------
(***************************************************************************)
(* The devices of virtual_device.rs as the threads of the server use them. *)
(*                                                                         *)
(* Every registered device is a SynchronizedDevice: a mutex around a raw   *)
(* driver ("plain", which stands for FunctionalDevice too), around an      *)
(* InstantOnDevice or a PollingDevice that wraps a raw driver, or around a *)
(* CompositeDevice ("group") whose members are SynchronizedDevices.  A     *)
(* call locks the device's mutex and keeps it until the call has returned, *)
(* so a call into a group holds the group's mutex while it locks its       *)
(* members one after the other.                                            *)
(*                                                                         *)
(* The call that holds device d's mutex is the activation record act[d];   *)
(* caller[d] is the group that made the call (0: the thread itself), so    *)
(* the call stack of a thread is the chain of callers that starts at       *)
(* top[t], the innermost device it holds.                                  *)
(***************************************************************************)
EXTENDS Naturals, Sequences

CONSTANTS
  Threads,     \* the threads that call into devices (HTTP handlers, user code)
  N,           \* number of devices, numbered in the order they were created
  Kind,        \* Kind[d]: "plain", "instant", "polling" or "group"
  Members,     \* Members[d]: the members of a group, in order
  Dimmable,    \* raw drivers that implement set_percent and check_percent
  Slow,        \* raw drivers whose commands take effect after they returned
  Faulty,      \* raw drivers whose calls may return Err
  Panicky,     \* raw drivers whose calls may panic
  Handled,     \* hardware that is also operated by hand (a remote, a knob)
  Hangs,       \* raw drivers that may never return from a call
  Requests,    \* the calls threads make: records [dev, op, arg]
  MaxLevel,    \* brightness levels are 0 .. MaxLevel, 0 is off
  PollLimit    \* bound of PollingDevice's wait loop (10 in the code)

CONSTANTS
  On, Off,     \* VirtualDeviceState
  Err,         \* Err(VirtualDeviceError)
  Panic,       \* the call unwinds
  Yes, No,     \* the answers of supports_percent
  None         \* no holder, no request, no value

Devices == 1..N
Levels  == 0..MaxLevel
Kinds   == {"plain", "instant", "polling", "group"}
Commands == {"turn_on", "turn_off", "set_percent"}
Queries  == {"check_is_on", "supports_percent", "check_percent"}
Ops      == Commands \cup Queries
Calls    == [dev : Devices, op : Ops, arg : Levels]

ASSUME BoundsAssumption ==
  /\ N \in Nat
  /\ MaxLevel \in Nat \ {0}
  /\ PollLimit \in Nat
  /\ Requests \subseteq Calls

ASSUME NoneAssumption == None \notin Threads /\ None \notin Calls

\* The answers are variants of enums: nothing else is a failure, and to report
\* no percentage is not to report one.
ASSUME AnswersAssumption ==
  /\ On # Off /\ Yes # No /\ None \notin Levels
  /\ (Levels \cup {On, Off, Yes, No, None}) \cap {Err, Panic} = {}

\* A group is built from handles that earlier add_xxx_device calls returned,
\* and its member list never changes, so its members precede it.
ASSUME MembersAssumption ==
  /\ Kind \in [Devices -> Kinds]
  /\ Members \in [Devices -> Seq(Devices)]
  /\ \A g \in Devices : \A i \in 1..Len(Members[g]) : Members[g][i] < g
  /\ \A d \in Devices : Kind[d] # "group" => Members[d] = <<>>

VARIABLES
  ask,         \* ask[t]: the call thread t is making, None between calls
  top,         \* top[t]: the innermost device whose mutex t holds, 0 if none
  holder,      \* holder[d]: the thread that holds d's mutex
  act,         \* act[d]: the call that holds d's mutex
  caller,      \* caller[d]: the group that made that call, 0 if the thread did
  believed,    \* believed[d]: InstantOnDevice::believed_on
  level,       \* level[d]: what the hardware does now
  goal         \* goal[d]: the level the hardware is moving to

locks    == <<ask, top, holder, caller>>
hardware == <<level, goal>>
vars     == <<ask, top, holder, act, caller, believed, level, goal>>

-----------------------------------------------------------------------------
(* Activation records.  n counts members visited or polls made.            *)

GroupPcs == {"probe", "command", "apply", "scan", "support", "percents"}
Pcs      == {"idle", "drive", "store", "poll", "return"} \cup GroupPcs
Answers  == {On, Off, Err, Panic, Yes, No, None} \cup Levels

Idle == [op |-> "check_is_on", arg |-> 0, pc |-> "idle", n |-> 0, val |-> None]

Finish(a, v) == [a EXCEPT !.pc = "return", !.n = 0, !.val = v]
NextMember(a) == [a EXCEPT !.n = @ + 1]

StateOf(l) == IF l > 0 THEN On ELSE Off
Opposite(s) == IF s = On THEN Off ELSE On

\* The state a command is meant to bring about.
Desired(op, arg) ==
  IF op = "turn_on" \/ (op = "set_percent" /\ arg > 0) THEN On ELSE Off

\* The level a raw driver drives its hardware to; the default set_percent of
\* the trait turns a device that is not dimmable on or off.
Wanted(d, op, arg) ==
  IF op = "set_percent" /\ d \in Dimmable THEN arg
  ELSE IF Desired(op, arg) = On THEN MaxLevel ELSE 0

\* Where a call starts once it holds the mutex.
FirstPc(d, op) ==
  IF Kind[d] # "group" THEN "drive"
  ELSE CASE op \in {"turn_on", "turn_off"} -> "probe"
         [] op = "set_percent"             -> "apply"
         [] op = "check_is_on"             -> "scan"
         [] op = "supports_percent"        -> "support"
         [] op = "check_percent"           -> "percents"

Start(c) ==
  [op |-> c.op, arg |-> c.arg, pc |-> FirstPc(c.dev, c.op),
   n |-> IF Kind[c.dev] = "group" THEN 1 ELSE 0, val |-> None]

-----------------------------------------------------------------------------
(* Calls and the mutex of SynchronizedDevice.                              *)

\* The group call g wants a member to answer.
AtMember(g) == act[g].pc \in GroupPcs /\ act[g].n <= Len(Members[g])

MemberOp(a) ==
  CASE a.pc \in {"probe", "scan"} -> "check_is_on"
    [] a.pc = "command"           -> a.op
    [] a.pc = "apply"             -> "set_percent"
    [] a.pc = "support"           -> "supports_percent"
    [] a.pc = "percents"          -> "check_percent"

\* Mutant: the group checks itself through its own mutex instead of asking
\* its members.
MemberCallOnSelf(g) ==
  [dev |-> IF act[g].pc = "scan" THEN g ELSE Members[g][act[g].n],
   op |-> MemberOp(act[g]), arg |-> IF act[g].pc = "apply" THEN act[g].arg ELSE 0]

MemberCall(g) ==
  [dev |-> Members[g][act[g].n], op |-> MemberOp(act[g]),
   arg |-> IF act[g].pc = "apply" THEN act[g].arg ELSE 0]

\* Thread t stands at a lock(): at the device it asks for, or at the next
\* member of the group it is in.
Calling(t) == IF top[t] = 0 THEN ask[t] # None ELSE AtMember(top[t])
Pending(t) == IF top[t] = 0 THEN ask[t] ELSE MemberCall(top[t])

\* Mutant: SynchronizedDevice without a mutex.
AlwaysFree(d) == d \in Devices

Free(d) == holder[d] = None

Call(t) ==
  /\ ask[t] = None
  /\ \E c \in Requests : ask' = [ask EXCEPT ![t] = c]
  /\ UNCHANGED <<top, holder, act, caller, believed, hardware>>

Acquire(t) ==
  /\ Calling(t)
  /\ LET c == Pending(t) IN
       /\ Free(c.dev)
       /\ holder' = [holder EXCEPT ![c.dev] = t]
       /\ caller' = [caller EXCEPT ![c.dev] = top[t]]
       /\ top'    = [top EXCEPT ![t] = c.dev]
       /\ act'    = [act EXCEPT ![c.dev] = Start(c)]
  /\ UNCHANGED <<ask, believed, hardware>>

-----------------------------------------------------------------------------
(* Raw drivers, and the wrappers around them.                              *)

Leaf(d, pc) == Kind[d] # "group" /\ act[d].pc = pc

FailuresOf(d) == (IF d \in Faulty THEN {Err} ELSE {})
                   \cup (IF d \in Panicky THEN {Panic} ELSE {})

\* A command reaches the hardware: at once, or later (see Settle).
Effect(d, l) ==
  /\ goal'  = [goal EXCEPT ![d] = l]
  /\ level' = IF d \in Slow THEN level ELSE [level EXCEPT ![d] = l]

\* What the wrapper does with the answer r of the wrapped driver's command:
\* PollingDevice passes an error on (`?`) and else starts to poll,
\* InstantOnDevice stores its belief whatever the answer.
AfterCommand(d, a, r) ==
  IF r = Panic \/ Kind[d] = "plain" \/ (Kind[d] = "polling" /\ r = Err)
  THEN Finish(a, r)
  ELSE [a EXCEPT !.pc = IF Kind[d] = "instant" THEN "store" ELSE "poll",
                 !.val = r]

\* A raw driver executes turn_on, turn_off or set_percent.  When it fails the
\* command may or may not have reached the hardware.
DriverCommand(d) ==
  /\ Leaf(d, "drive") /\ act[d].op \in Commands
  /\ LET a == act[d]
         l == Wanted(d, a.op, a.arg) IN
       \E r \in {StateOf(l)} \cup FailuresOf(d) :
         /\ act' = [act EXCEPT ![d] = AfterCommand(d, a, r)]
         /\ Effect(d, l) \/ (r \in {Err, Panic} /\ UNCHANGED hardware)
  /\ UNCHANGED <<locks, believed>>

\* InstantOnDevice lies while it believes the device is on.
Lies(d) == Kind[d] = "instant" /\ act[d].op = "check_is_on" /\ believed[d]

\* What a raw driver answers when nothing fails.
DriverAnswer(d) ==
  CASE act[d].op = "check_is_on"      -> StateOf(level[d])
    [] act[d].op = "supports_percent" -> IF d \in Dimmable THEN Yes ELSE No
    [] act[d].op = "check_percent"    -> IF d \in Dimmable THEN level[d] ELSE None

DriverQuery(d) ==
  /\ Leaf(d, "drive") /\ act[d].op \in Queries
  /\ ~Lies(d)
  /\ \E r \in {DriverAnswer(d)}
                \cup (IF act[d].op = "supports_percent" THEN {} ELSE FailuresOf(d)) :
       act' = [act EXCEPT ![d] = Finish(@, r)]
  /\ UNCHANGED <<locks, believed, hardware>>

BelievedCheck(d) ==
  /\ Leaf(d, "drive") /\ Lies(d)
  /\ act' = [act EXCEPT ![d] = Finish(@, On)]
  /\ UNCHANGED <<locks, believed, hardware>>

\* Mutant: turn_off does not take the belief back.
StickyBelief(d) == believed[d] \/ Desired(act[d].op, act[d].arg) = On

NewBelief(d) == Desired(act[d].op, act[d].arg) = On

StoreBelief(d) ==
  /\ Leaf(d, "store")
  /\ believed' = [believed EXCEPT ![d] = NewBelief(d)]
  /\ act' = [act EXCEPT ![d] = Finish(@, @.val)]
  /\ UNCHANGED <<locks, hardware>>

\* Mutant: the wait loop does not count.
PollUncounted(a) == a

PollAgain(a) == NextMember(a)

\* Mutant: the wait loop reports what it was waiting for.
PollDesired(a, s) ==
  Finish(a, IF s = Panic THEN Panic ELSE Desired(a.op, a.arg))

PollDone(a, s) == Finish(a, s)

\* Mutant: the wait loop makes one more poll.
PollOneMore(a) == a.n > PollLimit

PollSpent(a) == a.n = PollLimit

\* One check of PollingDevice's loop; an error counts as "not there yet".
PollCheck(d) ==
  /\ Leaf(d, "poll")
  /\ LET want == Desired(act[d].op, act[d].arg) IN
       \E r \in {StateOf(level[d])} \cup FailuresOf(d) :
         LET s == IF r = Err THEN Opposite(want) ELSE r IN
         act' = [act EXCEPT ![d] =
                   IF s \in {want, Panic} \/ PollSpent(@)
                   THEN PollDone(@, s) ELSE PollAgain(@)]
  /\ UNCHANGED <<locks, believed, hardware>>

-----------------------------------------------------------------------------
(* CompositeDevice.                                                        *)

\* The members are exhausted: go on to the closing check_is_on, or answer.
GroupPhase(g) ==
  /\ act[g].pc \in GroupPcs /\ act[g].n > Len(Members[g])
  /\ act' = [act EXCEPT ![g] =
       CASE @.pc \in {"probe", "command", "apply"} -> [@ EXCEPT !.pc = "scan", !.n = 1]
         [] @.pc = "scan"     -> Finish(@, Off)
         [] @.pc = "support"  -> Finish(@, IF Members[g] = <<>> THEN No ELSE Yes)
         [] @.pc = "percents" -> Finish(@, @.val)]
  /\ UNCHANGED <<locks, believed, hardware>>

\* Mutant: the members' percentages are added up.
BrighterSum(v, r) == IF v = None THEN r ELSE IF r = None THEN v ELSE v + r

\* The brightest of the members that report a percentage.
Brighter(v, r) == IF v = None THEN r ELSE IF r = None THEN v
                  ELSE IF r > v THEN r ELSE v

\* Mutant: turn_off skips the members that are on, as turn_on does.
ReachedIfOn(a, r) == r = On

\* Mutant: a check that fails counts as the desired state.
ReachedOrFailed(a, r) == r \in {Err, Desired(a.op, a.arg)}

\* The probed member is already in the desired state; a check that fails
\* counts as Off.
Reached(a, r) == (IF r = Err THEN Off ELSE r) = Desired(a.op, a.arg)

\* Mutant: a group is on when all its members are.
AfterCheckAll(a, r) == IF r = Off THEN Finish(a, Off) ELSE NextMember(a)

AfterCheck(a, r) == IF r = On THEN Finish(a, On) ELSE NextMember(a)

\* The group goes on with a member's answer r.  A command that fails makes the
\* group panic (`.ok().unwrap()`).
Resume(a, r) ==
  IF r = Panic THEN Finish(a, Panic) ELSE
  CASE a.pc = "probe" ->
         IF Reached(a, r) THEN NextMember(a) ELSE [a EXCEPT !.pc = "command"]
    [] a.pc = "command" ->
         IF r = Err THEN Finish(a, Panic)
         ELSE NextMember([a EXCEPT !.pc = "probe"])
    [] a.pc = "apply" ->
         IF r = Err THEN Finish(a, Err) ELSE NextMember(a)
    [] a.pc = "scan" -> AfterCheck(a, r)
    [] a.pc = "support" ->
         IF r = No THEN Finish(a, No) ELSE NextMember(a)
    [] a.pc = "percents" ->
         IF r = Err THEN Finish(a, Err)
         ELSE NextMember([a EXCEPT !.val = Brighter(@, r)])

\* Mutant: a panic unwinds without unlocking.
UnlockedUnlessPanic(d) ==
  IF act[d].val = Panic THEN holder ELSE [holder EXCEPT ![d] = None]

Unlocked(d) == [holder EXCEPT ![d] = None]

\* The call returns or unwinds: the guard unlocks the mutex, and the answer
\* (or the panic) goes to the caller.
Return(d) ==
  /\ act[d].pc = "return"
  /\ LET t == holder[d]
         g == caller[d] IN
       /\ holder' = Unlocked(d)
       /\ caller' = [caller EXCEPT ![d] = 0]
       /\ top'    = [top EXCEPT ![t] = g]
       /\ ask'    = IF g = 0 THEN [ask EXCEPT ![t] = None] ELSE ask
       /\ act'    = IF g = 0 THEN [act EXCEPT ![d] = Idle]
                    ELSE [act EXCEPT ![d] = Idle, ![g] = Resume(@, act[d].val)]
  /\ UNCHANGED <<believed, hardware>>

-----------------------------------------------------------------------------
(* The hardware itself.                                                    *)

Settle(d) ==
  /\ level[d] # goal[d]
  /\ level' = [level EXCEPT ![d] = goal[d]]
  /\ UNCHANGED <<locks, act, believed, goal>>

ByHand(d) ==
  /\ d \in Handled
  /\ \E l \in Levels \ {level[d]} :
       level' = [level EXCEPT ![d] = l] /\ goal' = [goal EXCEPT ![d] = l]
  /\ UNCHANGED <<locks, act, believed>>

-----------------------------------------------------------------------------
Init ==
  /\ ask      = [t \in Threads |-> None]
  /\ top      = [t \in Threads |-> 0]
  /\ holder   = [d \in Devices |-> None]
  /\ act      = [d \in Devices |-> Idle]
  /\ caller   = [d \in Devices |-> 0]
  /\ believed = [d \in Devices |-> FALSE]
  /\ level    \in [Devices -> {0, MaxLevel}]
  /\ goal     = level

DriverStep(d) == DriverCommand(d) \/ DriverQuery(d) \/ PollCheck(d)
LocalStep(d)  == BelievedCheck(d) \/ StoreBelief(d) \/ GroupPhase(d) \/ Return(d)

Next ==
  \/ \E t \in Threads : Call(t) \/ Acquire(t)
  \/ \E d \in Devices : DriverStep(d) \/ LocalStep(d) \/ Settle(d) \/ ByHand(d)

Spec == Init /\ [][Next]_vars

\* Code that can run does run, and drivers that do not hang answer.  A thread
\* that waits for a mutex which is free again and again gets it: parking_lot's
\* mutexes are eventually fair.  Nothing forces anyone to make a call.
Fairness ==
  /\ \A t \in Threads : SF_vars(Acquire(t))
  /\ \A d \in Devices : WF_vars(LocalStep(d)) /\ WF_vars(Settle(d))
  /\ \A d \in Devices \ Hangs : WF_vars(DriverStep(d))

FairSpec == Spec /\ Fairness

-----------------------------------------------------------------------------
(* Properties.                                                             *)

Activations == [op : Ops, arg : Levels, pc : Pcs, n : Nat, val : Answers]

Typed ==
  /\ ask \in [Threads -> Calls \cup {None}]
  /\ top \in [Threads -> 0..N]
  /\ holder \in [Devices -> Threads \cup {None}]
  /\ act \in [Devices -> Activations]
  /\ caller \in [Devices -> 0..N]
  /\ believed \in [Devices -> BOOLEAN]
  /\ level \in [Devices -> Levels]
  /\ goal \in [Devices -> Levels]

\* What a call counts: the members of a group it has come to, one past the
\* last when it is through with them, or the polls it has made.
StepsBounded ==
  \A d \in Devices :
    act[d].n <= IF Kind[d] = "group" THEN Len(Members[d]) + 1 ELSE PollLimit

\* The variables have their types; a group never counts past the end of its
\* member list, and the wait loop of a PollingDevice never polls more often than
\* its limit allows, whatever the members answer.
TypeOK == Typed /\ StepsBounded

\* The mutexes a thread holds are the devices on its call stack, in ascending
\* order from the innermost, top[t]; every device but the innermost is a group
\* that waits for a member.  Since members precede their groups, threads take
\* the mutexes in descending order.
LockOrder ==
  /\ \A t \in Threads : top[t] # 0 => holder[top[t]] = t /\ ask[t] # None
  /\ \A d \in Devices : holder[d] = None <=> act[d].pc = "idle"
  /\ \A d \in Devices :
       act[d].pc \in GroupPcs => Kind[d] = "group" /\ act[d].n > 0
  /\ \A d \in Devices : holder[d] # None =>
       /\ top[holder[d]] \in 1..d
       /\ d # top[holder[d]] => AtMember(d)
       /\ caller[d] # 0 => caller[d] > d /\ holder[caller[d]] = holder[d]
  /\ \A d, e \in Devices :
       (holder[d] # None /\ holder[d] = holder[e] /\ d < e)
       => caller[d] # 0 /\ caller[d] <= e

\* No set of threads waits for one another: in every set of threads there is
\* one that can go on without a mutex held in the set.  A thread waiting for
\* a mutex it holds itself would be such a set, so no call ever locks a
\* device twice (parking_lot's Mutex is not reentrant).
NoCircularWait ==
  \A S \in (SUBSET Threads) \ {{}} :
    \E t \in S : Calling(t) => holder[Pending(t).dev] \notin S

\* A thread that is not in a call holds no mutex, also when its last call
\* panicked inside nested groups.
NoLeakedLock ==
  \A t \in Threads : ask[t] = None => \A d \in Devices : holder[d] # t

\* The answer of a raw driver's check, and a PollingDevice's word that the
\* desired state is reached.
FreshAnswer(d) ==
  /\ Leaf(d, "return") /\ act[d].val \in {On, Off}
  /\ \/ act[d].op = "check_is_on" /\ ~Lies(d) /\ d \notin Slow
     \/ Kind[d] = "polling" /\ act[d].val = Desired(act[d].op, act[d].arg)
                             /\ act[d].op \in Commands

\* While a call holds a device no other call's command gets in between, so
\* what it observed is still so when it returns, unless somebody operates the
\* hardware by hand.
AnswersAreCurrent ==
  \A d \in Devices \ Handled : FreshAnswer(d) => act[d].val = StateOf(level[d])

\* What InstantOnDevice believes comes true (lib.rs:231: the change is
\* "guaranteed" to eventually happen): hardware that neither fails nor is
\* operated by hand is moving to On whenever the belief is On and no command
\* is under way.
BeliefIsWarranted ==
  \A d \in Devices \ (Handled \cup Faulty \cup Panicky) :
    (believed[d] /\ act[d].pc # "store") => goal[d] > 0

\* The raw drivers a call into d may reach.
Below[d \in Devices] ==
  IF Kind[d] = "group" THEN UNION {Below[Members[d][i]] : i \in 1..Len(Members[d])}
  ELSE {d}

\* A group without groups in it.
Flat(g) == \A i \in 1..Len(Members[g]) : Kind[Members[g][i]] # "group"

-----------------------------------------------------------------------------
(* What the history variables of DeviceHistory and ServerHistory note.     *)

\* What InstantOnDevice believes once it has stored what it is about to store.
Belief(d) == IF act[d].pc = "store" THEN NewBelief(d) ELSE believed[d]

\* d's hardware is where it was told to go, and nobody is told otherwise.
Honest(d) == level[d] = goal[d] /\ (Belief(d) => level[d] > 0)

CommandStep(d) == Leaf(d, "drive") /\ act[d].op \in Commands /\ act'[d] # act[d]

\* In this step, d's hardware is moved on behalf of somebody else than thread t.
MovedByOther(d, t) ==
  \/ CommandStep(d) /\ holder[d] # t
  \/ goal'[d] # goal[d] /\ ~CommandStep(d)

-----------------------------------------------------------------------------
\* Every call returns, however threads compete for the mutexes, unless a driver
\* below the called device hangs: polling is bounded, nobody starves, and a
\* group never sits on the mutex of one member while another member hangs.
HangsAreContained ==
  \A t \in Threads :
    (ask[t] # None /\ Below[ask[t].dev] \cap Hangs = {}) ~> ask[t] = None

\* The answer "On" of InstantOnDevice is never more than early.
LiesComeTrue ==
  \A d \in Devices \ (Handled \cup Faulty \cup Panicky) :
    believed[d] ~> (level[d] > 0 \/ ~believed[d])
=============================================================================

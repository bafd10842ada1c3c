------------------------------- MODULE Server -------------------------------
(***************************************************************************)
(* The server at work: the threads that answer searches (ssdp.rs), Hue and *)
(* WeMo requests (upnp.rs) and add devices (lib.rs), over the devices of   *)
(* VirtualDevices.  The list of devices is behind a read-write lock; a     *)
(* handler of the Hue bridge and the SSDP listener keep the read lock      *)
(* while they call into devices.  The handler of a device's own port       *)
(* does not use the list.                                                  *)
(*                                                                         *)
(* A request is served in phases: taking and leaving the lock, and phases  *)
(* that consist of calls into devices, made one after the other.           *)
(***************************************************************************)
EXTENDS VirtualDevices, Brightness, SequencesExt

CONSTANTS
  Work         \* Work[t]: the requests that thread t may be given

\* Requests [kind, at, on, bri].  at is the device of a request that comes in
\* at the device's own port, and the light id of one to the bridge.  own_info
\* is a request whose route depends on supports_percent (/description.xml, /api
\* answered with a constant, an unknown path); own_events is /eventservice.xml,
\* or /description.xml of a device that is no light.
SearchKinds == {"search_hue", "search_belkin", "search_all"}
OwnKinds    == {"own_light", "own_state", "own_info", "own_events", "get", "set"}
Kinds_      == SearchKinds \cup OwnKinds \cup {"lights", "light", "state", "add"}
Work_       == {r \in [kind : Kinds_, at : Devices \cup {0}, on : {On, Off, None},
                        bri : 0..255 \cup {None}] :
                  r.kind \in OwnKinds => r.at # 0}

ASSUME WorkAssumption == Work \in [Threads -> SUBSET Work_]

Asked(d, op) == [dev |-> d, op |-> op, arg |-> 0]

\* The calls that requests consist of.
HandlerCalls ==
  {Asked(d, op) : d \in Devices, op \in Ops \ {"set_percent"}}
    \cup [dev : Devices, op : {"set_percent"}, arg : 0..100]

CallPhases == {"any", "each", "lights", "describe", "put", "get", "set"}
PhaseNames == CallPhases \cup {"lock", "unlock", "write", "send", "dead"}

\* A request being served: the phase it is in, those to come, the calls of the
\* phase that are to be made, the lights selected, the percentage heard.
Jobs == [req : Work_, phase : CallPhases \cup {"start"}, phases : Seq(PhaseNames),
         todo : Seq(HandlerCalls), lights : Seq(Devices), said : Answers]

ASSUME CallsAssumption == HandlerCalls \subseteq Requests
ASSUME NobodyAssumption == None \notin Jobs

VARIABLES
  list,        \* the registered devices
  readers,     \* the threads that hold the read lock
  writer,      \* the thread that holds or waits for the write lock, or None
  job,         \* job[t]: the request t serves, None between requests
  hung         \* the devices whose drivers have stopped answering

listLock == <<list, readers, writer>>
svars    == <<vars, listLock, job, hung>>

-----------------------------------------------------------------------------
(* What a request consists of.                                             *)

Phases(r) ==
  CASE r.kind = "search_hue"    -> <<"lock", "any", "send", "unlock">>
    [] r.kind = "search_belkin" -> <<"lock", "each", "send", "unlock">>
    [] r.kind = "search_all"    -> <<"lock", "any", "each", "send", "unlock">>
    [] r.kind = "lights"        -> <<"lock", "each", "unlock", "lock", "lights", "describe", "unlock">>
    [] r.kind = "light"         -> <<"lock", "lights", "describe", "unlock">>
    [] r.kind = "state"         -> <<"lock", "lights", "put", "unlock">>
    [] r.kind = "own_light"     -> <<"lights", "describe">>
    [] r.kind = "own_state"     -> <<"lights", "put">>
    [] r.kind = "own_info"      -> <<"any">>
    [] r.kind = "own_events"    -> <<"any", "any">>
    [] r.kind = "get"           -> <<"get">>
    [] r.kind = "set"           -> <<"set">>
    [] r.kind = "add"           -> <<"write">>

Scope(r) == IF r.kind \in OwnKinds THEN <<r.at>> ELSE list
Id(r)    == IF r.kind \in OwnKinds THEN 1 ELSE r.at

\* BinaryState::percent, and what handle_basicevent makes of it.
SetCall(r) ==
  IF r.bri # None THEN [dev |-> r.at, op |-> "set_percent", arg |-> Capped(r.bri, 100)]
  ELSE Asked(r.at, IF r.on = On THEN "turn_on" ELSE "turn_off")

\* Each light's percentage and then its state.
Described(ds) ==
  [i \in 1..(2 * Len(ds)) |->
     Asked(ds[(i + 1) \div 2], IF i % 2 = 1 THEN "check_percent" ELSE "check_is_on")]

\* Mutant: the brightness is set first.
PutBriFirst(d, r) ==
  (IF r.bri = None THEN <<>>
   ELSE <<[dev |-> d, op |-> "set_percent", arg |-> hue_brightness_to_percent(r.bri)]>>)
  \o (IF r.on = None THEN <<>>
      ELSE <<Asked(d, IF r.on = On THEN "turn_on" ELSE "turn_off")>>)

\* handle_hue_set_state.
Put(d, r) ==
  (IF r.on = None THEN <<>>
   ELSE <<Asked(d, IF r.on = On THEN "turn_on" ELSE "turn_off")>>)
  \o (IF r.bri = None THEN <<>>
      ELSE <<[dev |-> d, op |-> "set_percent", arg |-> hue_brightness_to_percent(r.bri)]>>)

\* The lights that a request is about.
Chosen(j) ==
  IF j.req.kind = "lights" THEN j.lights
  ELSE IF Id(j.req) \in 1..Len(j.lights) THEN <<j.lights[Id(j.req)]>> ELSE <<>>

CallsOf(j, phase) ==
  CASE phase \in {"any", "each", "lights"} ->
         [i \in 1..Len(Scope(j.req)) |-> Asked(Scope(j.req)[i], "supports_percent")]
    [] phase = "describe" -> Described(Chosen(j))
    [] phase = "put"      -> IF Chosen(j) = <<>> THEN <<>> ELSE Put(Chosen(j)[1], j.req)
    [] phase = "get"      -> Described(<<j.req.at>>)
    [] phase = "set"      -> <<SetCall(j.req)>>

\* Mutant: the handler keeps the guard of the first count of the lights.
AfterPhasesKept(j) ==
  IF j.req.kind = "lights" /\ Head(j.phases) = "each" THEN Tail(Tail(j.phases)) ELSE Tail(j.phases)

AfterPhases(j) == Tail(j.phases)

-----------------------------------------------------------------------------
Set(t, j) == job' = [job EXCEPT ![t] = j]
Pass(t)   == Set(t, [job[t] EXCEPT !.phases = Tail(@)])

\* t stands between two phases, and phase is the next one.
Before(t, phase) ==
  /\ job[t] # None /\ ask[t] = None /\ job[t].todo = <<>>
  /\ job[t].phases # <<>> /\ Head(job[t].phases) = phase

\* Mutant: a panic leaves the read lock behind.
LeavingGuard(t) == IF job[t].req.kind \in SearchKinds THEN <<"dead">> ELSE <<>>

\* What remains to be done when thread t unwinds: the guard is dropped.  The
\* threads of an HTTP server are replaced, the SSDP listener is not.
Unwinding(t) ==
  (IF t \in readers THEN <<"unlock">> ELSE <<>>)
  \o (IF job[t].req.kind \in SearchKinds THEN <<"dead">> ELSE <<>>)

Receive(t) ==
  /\ job[t] = None
  /\ \E r \in Work[t] :
       /\ r.kind \in OwnKinds => r.at <= Len(list)
       /\ r.kind = "add" => Len(list) < N
       /\ Set(t, [req |-> r, phase |-> "start", phases |-> Phases(r), todo |-> <<>>,
                  lights |-> <<>>, said |-> None])
  /\ UNCHANGED <<vars, listLock, hung>>

\* Mutant: readers do not let a waiting writer pass.
ReadableAlways(t) == writer = None \/ readers # {}

\* A reader waits while a writer holds the lock or waits for it.
Readable(t) == writer = None

TakeReadLock(t) ==
  /\ Before(t, "lock") /\ Readable(t)
  /\ readers' = readers \cup {t}
  /\ Pass(t)
  /\ UNCHANGED <<vars, list, writer, hung>>

LeaveReadLock(t) ==
  /\ Before(t, "unlock")
  /\ readers' = readers \ {t}
  /\ Pass(t)
  /\ UNCHANGED <<vars, list, writer, hung>>

\* The answers are sent under the lock; one that cannot be sent is a panic.
SendAnswers(t) ==
  /\ Before(t, "send")
  /\ Pass(t) \/ Set(t, [job[t] EXCEPT !.phases = Unwinding(t)])
  /\ UNCHANGED <<vars, listLock, hung>>

\* add_xxx_device: the writer keeps new readers out, and waits for the others.
\* N is the model's bound on devices.
AnnounceWrite(t) ==
  /\ Before(t, "write") /\ writer = None /\ Len(list) < N
  /\ writer' = t
  /\ UNCHANGED <<vars, list, readers, job, hung>>

AddDevice(t) ==
  /\ writer = t /\ readers = {}
  /\ list' = Append(list, Len(list) + 1)
  /\ writer' = None
  /\ Pass(t)
  /\ UNCHANGED <<vars, readers, hung>>

EnterPhase(t) ==
  /\ \E phase \in CallPhases :
       /\ Before(t, phase)
       /\ Set(t, [job[t] EXCEPT !.phase = phase, !.phases = AfterPhases(job[t]),
                                !.todo = CallsOf(job[t], phase)])
  /\ UNCHANGED <<vars, listLock, hung>>

AskDevice(t) ==
  /\ job[t] # None /\ ask[t] = None /\ job[t].todo # <<>>
  /\ ask' = [ask EXCEPT ![t] = Head(job[t].todo)]
  /\ UNCHANGED <<top, holder, act, caller, believed, hardware, listLock, job, hung>>

Respond(t) ==
  /\ job[t] # None /\ ask[t] = None /\ job[t].todo = <<>> /\ job[t].phases = <<>>
  /\ Set(t, None)
  /\ UNCHANGED <<vars, listLock, hung>>

-----------------------------------------------------------------------------
(* Devices, as they answer to requests.                                    *)

\* What the handler makes of the answer v of device d.
Heard(t, d, v) ==
  LET j == job[t]
      rest == [j EXCEPT !.todo = Tail(@)] IN
  IF v = Panic THEN [j EXCEPT !.todo = <<>>, !.phases = Unwinding(t)]
  ELSE IF j.phase = "any" /\ v = Yes THEN [j EXCEPT !.todo = <<>>]
  ELSE IF j.phase = "lights" /\ v = Yes THEN [rest EXCEPT !.lights = Append(@, d)]
  ELSE IF Head(j.todo).op = "check_percent" THEN [rest EXCEPT !.said = IF v = Err THEN None ELSE v]
  ELSE rest

\* Mutant: the handler keeps the guard of the device's mutex.
AnswerKeepingGuard(d) ==
  /\ act[d].pc = "return" /\ caller[d] = 0
  /\ act' = [act EXCEPT ![d] = Idle]
  /\ ask' = [ask EXCEPT ![holder[d]] = None]
  /\ top' = [top EXCEPT ![holder[d]] = 0]
  /\ Set(holder[d], Heard(holder[d], d, act[d].val))
  /\ UNCHANGED <<holder, caller, believed, hardware, listLock, hung>>

Answer(d) ==
  /\ caller[d] = 0 /\ Return(d)
  /\ Set(holder[d], Heard(holder[d], d, act[d].val))
  /\ UNCHANGED <<listLock, hung>>

\* A driver answers.  A hung one only answers supports_percent, which is a
\* constant in every driver.
Responsive(d) == d \notin hung \/ act[d].op = "supports_percent"
DriverRuns(d) == Responsive(d) /\ DriverStep(d) /\ UNCHANGED <<listLock, job, hung>>

LocalRuns(d) ==
  /\ BelievedCheck(d) \/ StoreBelief(d) \/ GroupPhase(d) \/ (caller[d] # 0 /\ Return(d))
  /\ UNCHANGED <<listLock, job, hung>>

Acquires(t) == Acquire(t) /\ UNCHANGED <<listLock, job, hung>>

\* The hardware of d on its own: it gets to where it was told to go, or a
\* call of its driver never returns from now on.
Hardware(d) ==
  /\ \/ Settle(d) /\ UNCHANGED hung
     \/ d \in Hangs \ hung /\ hung' = hung \cup {d} /\ UNCHANGED vars
  /\ UNCHANGED <<listLock, job>>

-----------------------------------------------------------------------------
SInit ==
  /\ Init
  /\ list = <<>> /\ readers = {} /\ writer = None
  /\ job = [t \in Threads |-> None]
  /\ hung = {}

Handler(t) ==
  \/ EnterPhase(t) \/ AskDevice(t) \/ SendAnswers(t)
  \/ LeaveReadLock(t) \/ AddDevice(t) \/ Respond(t)

SNext ==
  \/ \E t \in Threads :
       Receive(t) \/ TakeReadLock(t) \/ AnnounceWrite(t) \/ Handler(t) \/ Acquires(t)
  \/ \E d \in Devices :
       DriverRuns(d) \/ LocalRuns(d) \/ Answer(d) \/ Hardware(d)

SSpec == SInit /\ [][SNext]_svars

\* Thread t takes its next step, one that waits for no lock.
Runs(t) ==
  \/ Handler(t)
  \/ \E d \in Devices : holder[d] = t /\ (DriverRuns(d) \/ LocalRuns(d) \/ Answer(d))

\* Thread t gets a lock.
GetsLock(t) == Acquires(t) \/ TakeReadLock(t) \/ AnnounceWrite(t)

\* Threads that can run do run, and drivers that have not hung answer.  The
\* locks are eventually fair.  Nobody has to send a request or to hang.
SFairness == \A t \in Threads : WF_svars(Runs(t)) /\ SF_svars(GetsLock(t))

SFairSpec == SSpec /\ SFairness

-----------------------------------------------------------------------------
(* Properties.                                                             *)

\* The devices of the list are registered in order; readers and writer are
\* threads that serve a request, and what they still have to do is well formed.
ServerTypeOK ==
  /\ TypeOK
  /\ list = [i \in 1..Len(list) |-> i] /\ Len(list) <= N
  /\ readers \subseteq Threads /\ writer \in Threads \cup {None}
  /\ job \in [Threads -> Jobs \cup {None}]
  /\ \A t \in Threads : job[t] # None => job[t].said \in Levels \cup {None}
  /\ hung \subseteq Devices

\* Whatever the handlers do, in whatever order, the devices see nothing but
\* calls: the server is an environment that VirtualDevices allows for, and what
\* is checked and proved of VirtualDevices holds in the server.
DevicesAreOnlyCalled == Spec

\* A thread that holds the read lock is serving a request and is going to
\* leave the lock, also when a device's panic cuts the request short.
ReadersLeave ==
  \A t \in readers : job[t] # None /\ "unlock" \in ToSet(job[t].phases)

\* t cannot go on before u does something: t wants a device that u holds, the
\* read lock while u writes or waits to, or the write lock while u reads.
WaitsFor(t, u) ==
  \/ Calling(t) /\ holder[Pending(t).dev] = u
  \/ (Before(t, "lock") \/ Before(t, "write")) /\ writer = u /\ (u = t => readers = {t})
  \/ writer = t /\ u \in readers

\* The list lock and the mutexes together never make threads wait in a circle.
NoCircle ==
  \A S \in (SUBSET Threads) \ {{}} : \E t \in S : \A u \in S : ~WaitsFor(t, u)

\* A controller that reads a light's brightness over the Hue API and sets it
\* again leaves the light at the level it has.
PercentSurvives ==
  \A d \in Devices :
    hue_brightness_to_percent(percent_to_hue_brightness(level[d])) = Capped(level[d], 100)

\* The thread t of the SSDP listener has ended.
Dead(t) == job[t] # None /\ job[t].phases = <<"dead">>

\* The devices a request may have to wait for.
Concerned(j) ==
  IF j.req.kind \in OwnKinds THEN Below[j.req.at] ELSE Devices

\* Every request is answered, and every device added, unless a driver that it
\* may have to wait for hangs: writers are not starved by readers, nor readers
\* by writers, and requests at a device's own port do not suffer from
\* other devices that hang, whoever is stuck at those with the list locked.
\* Only the SSDP listener ends for good when it cannot send an answer.
RequestsAreServed ==
  \A t \in Threads :
    (job[t] # None /\ ~Dead(t)) ~> (job[t] = None \/ Dead(t) \/ Concerned(job[t]) \cap hung # {})

\* ssdp.rs:20-22: the list is guarded "so that users of this listener can
\* add/remove devices while we're listening": adding a device ends.
AddWhileListening ==
  \A t \in Threads : (job[t] # None /\ job[t].req.kind = "add") ~> job[t] = None
=============================================================================

--------------------------- MODULE ServerProofs -----------------------------
(***************************************************************************)
(* Proofs about Server and ServerHistory, for any threads, devices, groups *)
(* and requests: the server is an environment of VirtualDevices, panics    *)
(* leave no read lock behind, the list lock and the mutexes never close a  *)
(* circle, and the calls of a request that nobody interferes with fit      *)
(* together.                                                               *)
(***************************************************************************)
EXTENDS ServerHistory, GroupProofs, SequenceTheorems

(* The conversions of upnp.rs, for every value that fits the code's u8.     *)

\* A brightness that the Hue API reports is one that it may report.
LEMMA BrightnessInRange ==
  ASSUME NEW p \in Nat
  PROVE  percent_to_hue_brightness(p) \in 1..254
BY DEF percent_to_hue_brightness, Rounded, Capped

\* A percentage that is reported as a brightness and set again is the same one.
THEOREM RoundTrip ==
  ASSUME NEW p \in 0..100
  PROVE  hue_brightness_to_percent(percent_to_hue_brightness(p)) = p
BY DEF hue_brightness_to_percent, percent_to_hue_brightness, Rounded, Capped

\* Every brightness of the API stands for a percentage, and a brighter one for
\* no smaller percentage.
THEOREM Monotone ==
  ASSUME NEW a \in Nat, NEW b \in Nat, a <= b
  PROVE  /\ hue_brightness_to_percent(a) \in 0..100
         /\ hue_brightness_to_percent(a) <= hue_brightness_to_percent(b)
BY DEF hue_brightness_to_percent, Rounded, Capped

\* A brightness turns a light off iff it is below 2, the least one above the
\* bound of 1 that a light that is on must have.
THEOREM OffBelowTwo ==
  ASSUME NEW b \in Nat
  PROVE  hue_brightness_to_percent(b) = 0 <=> b < 2
BY DEF hue_brightness_to_percent, Rounded, Capped

-----------------------------------------------------------------------------
\* A sequence of phases that leaves the read lock before it takes a lock.
Leaves(p) ==
  \E i \in 1..Len(p) : p[i] = "unlock" /\ \A j \in 1..i : p[j] \notin {"lock", "write"}

\* Every read lock that p takes is left before p takes the next lock.
Nested(p) ==
  \A h \in 1..Len(p) : p[h] = "lock" =>
    \E i \in h + 1..Len(p) :
      p[i] = "unlock" /\ \A j \in h + 1..i : p[j] \notin {"lock", "write"}

\* The phases of a device's own port belong to a request there.
Own(j) ==
  \A i \in 1..Len(j.phases) : j.phases[i] \in {"get", "set"} => j.req.kind \in OwnKinds

\* A thread in a call makes it for its request; one that holds the read lock
\* is on its way to leave it, and one that writes or waits to does just that.
Fits(t) ==
  /\ job[t] # None => Nested(job[t].phases) /\ Own(job[t])
  /\ ask[t] # None => job[t] # None /\ job[t].todo # <<>>
  /\ t \in readers => job[t] # None /\ Leaves(job[t].phases)
  /\ writer = t => Before(t, "write")

JobsFit ==
  /\ job \in [Threads -> Jobs \cup {None}]
  /\ list \in Seq(Devices) /\ (writer # None => Len(list) < N)
  /\ readers \subseteq Threads /\ writer \in Threads \cup {None}
  /\ \A t \in Threads : Fits(t)

\* The inductive invariant.
SInv == IInv /\ JobsFit

-----------------------------------------------------------------------------
(* The phases of a request.                                                *)

\* Phases with one section that is left at the end are nested.
LEMMA OneSection ==
  ASSUME NEW p \in Seq(PhaseNames), NEW i \in 2..Len(p), p[i] = "unlock",
         \A j \in 2..Len(p) : p[j] \notin {"lock", "write"}
  PROVE  Nested(p)
BY DEF Nested

\* Phases without a lock are nested.
LEMMA NoSection ==
  ASSUME NEW p \in Seq(PhaseNames), \A j \in 1..Len(p) : p[j] # "lock"
  PROVE  Nested(p)
BY DEF Nested

\* Every request leaves the read lock before it takes it again.
LEMMA PhasesNested ==
  ASSUME NEW r \in Work_
  PROVE  /\ Phases(r) \in Seq(PhaseNames) /\ Nested(Phases(r))
         /\ \A i \in 1..Len(Phases(r)) : Phases(r)[i] \in {"get", "set"} => r.kind \in OwnKinds
<1> DEFINE p == Phases(r)
           G == \A i \in 1..Len(p) : p[i] \notin {"get", "set"}
<1>0. PhaseNames = {"any", "each", "lights", "describe", "put", "get", "set",
                    "lock", "unlock", "write", "send", "dead"}
  BY DEF PhaseNames, CallPhases
<1>1. ASSUME NEW b \in PhaseNames \ {"lock", "write", "get", "set"},
             NEW c \in PhaseNames \ {"lock", "write", "get", "set"},
             p = <<"lock", b, c, "unlock">>
      PROVE  p \in Seq(PhaseNames) /\ Nested(p) /\ G
  <2>1. p \in Seq(PhaseNames)
    BY <1>0, <1>1
  <2>2. Len(p) = 4 /\ p[1] = "lock" /\ p[2] = b /\ p[3] = c /\ p[4] = "unlock"
    BY <1>1
  <2>3. \A j \in 2..4 : p[j] \notin {"lock", "write"}
    BY <1>1, <2>2
  <2>4. 4 \in 2..Len(p)
    BY <2>2
  <2>5. G
    BY <1>1, <2>2
  <2> HIDE DEF p
  <2> QED
    BY <2>1, <2>2, <2>3, <2>4, <2>5, OneSection
<1>2. CASE r.kind = "search_all"
  <2>1. p = <<"lock", "any", "each", "send", "unlock">>
    BY <1>2 DEF Phases
  <2>2. p \in Seq(PhaseNames)
    BY <1>0, <2>1
  <2>3. Len(p) = 5 /\ p[1] = "lock" /\ p[2] = "any" /\ p[3] = "each" /\ p[4] = "send" /\ p[5] = "unlock"
    BY <2>1
  <2>4. \A j \in 2..5 : p[j] \notin {"lock", "write"}
    BY <2>3
  <2>5. G
    BY <2>3
  <2> HIDE DEF p
  <2> QED
    BY <2>2, <2>3, <2>4, <2>5, OneSection DEF p
<1>3. CASE r.kind = "lights"
  <2>1. p = <<"lock", "each", "unlock", "lock", "lights", "describe", "unlock">>
    BY <1>3 DEF Phases
  <2>2. p \in Seq(PhaseNames)
    BY <1>0, <2>1, SMTT(60)
  <2>3. Len(p) = 7 /\ p[1] = "lock" /\ p[2] = "each" /\ p[3] = "unlock" /\ p[4] = "lock"
        /\ p[5] = "lights" /\ p[6] = "describe" /\ p[7] = "unlock"
    BY <2>1
  <2> HIDE DEF p
  <2>4. \A h \in 1..7 : p[h] = "lock" => h \in {1, 4}
    BY <2>3
  <2>5. \A j \in 2..3 : p[j] \notin {"lock", "write"}
    BY <2>3
  <2>6. \A j \in 5..7 : p[j] \notin {"lock", "write"}
    BY <2>3
  <2>7. Nested(p)
    BY <2>3, <2>4, <2>5, <2>6 DEF Nested
  <2>8. G
    BY <2>3
  <2> QED
    BY <2>2, <2>7, <2>8 DEF p
<1>4. ASSUME NEW b \in PhaseNames \ {"lock"}, NEW c \in PhaseNames \ {"lock"}, p = <<b, c>>
      PROVE  p \in Seq(PhaseNames) /\ Nested(p)
  <2>1. p \in Seq(PhaseNames) /\ Len(p) = 2 /\ p[1] # "lock" /\ p[2] # "lock"
    BY <1>4
  <2> QED
    BY <2>1, NoSection
<1>5. ASSUME NEW b \in PhaseNames \ {"lock"}, p = <<b>>
      PROVE  p \in Seq(PhaseNames) /\ Nested(p)
  <2>1. p \in Seq(PhaseNames) /\ Len(p) = 1 /\ p[1] # "lock"
    BY <1>5
  <2> QED
    BY <2>1, NoSection
<1>6. CASE r.kind = "search_hue"
  BY <1>0, <1>1, <1>6 DEF Phases
<1>7. CASE r.kind = "search_belkin"
  BY <1>0, <1>1, <1>7 DEF Phases
<1>8. CASE r.kind = "light"
  BY <1>0, <1>1, <1>8 DEF Phases
<1>9. CASE r.kind = "state"
  BY <1>0, <1>1, <1>9 DEF Phases
<1>10. CASE r.kind = "own_light"
  BY <1>0, <1>4, <1>10 DEF Phases
<1>11. CASE r.kind = "own_state"
  BY <1>0, <1>4, <1>11 DEF Phases
<1>12. CASE r.kind = "get"
  BY <1>0, <1>5, <1>12 DEF Phases, OwnKinds
<1>13. CASE r.kind = "set"
  BY <1>0, <1>5, <1>13 DEF Phases, OwnKinds
<1>14. CASE r.kind = "add"
  BY <1>0, <1>5, <1>14 DEF Phases
<1>15. CASE r.kind = "own_info"
  BY <1>0, <1>5, <1>15 DEF Phases, OwnKinds
<1>16. CASE r.kind = "own_events"
  BY <1>0, <1>4, <1>16 DEF Phases, OwnKinds
<1> QED
  BY <1>2, <1>3, <1>6, <1>7, <1>8, <1>9, <1>10, <1>11, <1>12, <1>13, <1>14, <1>15, <1>16
     DEF Work_, Kinds_, SearchKinds, OwnKinds

\* The next phase takes nothing away from what follows it.
LEMMA TailOfPhases ==
  ASSUME NEW p \in Seq(PhaseNames), p # <<>>, Nested(p)
  PROVE  /\ Tail(p) \in Seq(PhaseNames) /\ Nested(Tail(p))
         /\ Head(p) = "lock" => Leaves(Tail(p))
         /\ Leaves(p) /\ Head(p) # "unlock" => Leaves(Tail(p))
         /\ Leaves(p) => Head(p) \notin {"lock", "write"}
<1> DEFINE q == Tail(p)
<1>1. q \in Seq(PhaseNames) /\ Len(q) = Len(p) - 1 /\ Len(p) \in Nat \ {0}
      /\ \A i \in 1..Len(q) : q[i] = p[i + 1]
  OBVIOUS
<1>2. Head(p) = p[1]
  OBVIOUS
<1> HIDE DEF q
<1>3. Nested(q)
  <2> SUFFICES ASSUME NEW h \in 1..Len(q), q[h] = "lock"
               PROVE  \E i \in h + 1..Len(q) :
                        q[i] = "unlock" /\ \A j \in h + 1..i : q[j] \notin {"lock", "write"}
    BY DEF Nested
  <2>1. h + 1 \in 1..Len(p) /\ p[h + 1] = "lock"
    BY <1>1
  <2>2. PICK i \in h + 2..Len(p) :
          p[i] = "unlock" /\ \A j \in h + 2..i : p[j] \notin {"lock", "write"}
    BY <2>1 DEF Nested
  <2>3. i - 1 \in h + 1..Len(q) /\ q[i - 1] = "unlock"
    BY <1>1, <2>2
  <2>4. \A j \in h + 1..i - 1 : q[j] \notin {"lock", "write"}
    BY <1>1, <2>2, <2>3
  <2> QED
    BY <2>3, <2>4
<1>4. ASSUME NEW i \in 2..Len(p), p[i] = "unlock", \A j \in 2..i : p[j] \notin {"lock", "write"}
      PROVE  Leaves(q)
  <2>1. i - 1 \in 1..Len(q) /\ q[i - 1] = "unlock"
    BY <1>1, <1>4
  <2>2. \A j \in 1..i - 1 : q[j] \notin {"lock", "write"}
    BY <1>1, <1>4, <2>1
  <2> QED
    BY <2>1, <2>2 DEF Leaves
<1>5. Head(p) = "lock" => Leaves(q)
  BY <1>1, <1>2, <1>4 DEF Nested
<1>6. Leaves(p) /\ Head(p) # "unlock" => Leaves(q)
  BY <1>1, <1>2, <1>4 DEF Leaves
<1>7. Leaves(p) => Head(p) \notin {"lock", "write"}
  BY <1>1, <1>2 DEF Leaves
<1> QED
  BY <1>1, <1>3, <1>5, <1>6, <1>7 DEF q

\* What a thread does when it unwinds.
LEMMA UnwindingFits ==
  ASSUME NEW t
  PROVE  /\ Unwinding(t) \in Seq(PhaseNames) /\ Nested(Unwinding(t))
         /\ t \in readers => Leaves(Unwinding(t))
         /\ \A i \in 1..Len(Unwinding(t)) : Unwinding(t)[i] \notin {"get", "set"}
<1> DEFINE p == Unwinding(t)
           a == IF t \in readers THEN <<"unlock">> ELSE <<>>
           b == IF job[t].req.kind \in SearchKinds THEN <<"dead">> ELSE <<>>
           D == {"unlock", "dead"}
<1>1. p \in Seq(D) /\ (t \in readers => Len(p) \in Nat \ {0} /\ p[1] = "unlock")
  <2>1. a \in Seq(D) /\ b \in Seq(D)
    OBVIOUS
  <2>3. t \in readers => Len(a) = 1 /\ a[1] = "unlock"
    OBVIOUS
  <2>2. p = a \o b
    BY DEF Unwinding
  <2> QED
    <3> HIDE DEF a, b, p, D
    <3> QED
      BY <2>1, <2>2, <2>3
<1>0. {"unlock", "dead"} \subseteq PhaseNames
  BY DEF PhaseNames
<1> HIDE DEF p
<1>2. p \in Seq(PhaseNames) /\ Nested(p)
  BY <1>0, <1>1, NoSection
<1>3. t \in readers => Leaves(p)
  BY <1>1 DEF Leaves
<1>4. \A i \in 1..Len(p) : p[i] \notin {"get", "set"}
  BY <1>1
<1> QED
  BY <1>2, <1>3, <1>4 DEF p

-----------------------------------------------------------------------------
(* The calls of a request.                                                 *)

\* A question is a call of a handler.
LEMMA AskedFits ==
  ASSUME NEW d \in Devices, NEW op \in Ops \ {"set_percent"}
  PROVE  Asked(d, op) \in HandlerCalls
BY DEF HandlerCalls

\* A percentage to be set is a call of a handler.
LEMMA SetFits ==
  ASSUME NEW d \in Devices, NEW p \in 0..100
  PROVE  [dev |-> d, op |-> "set_percent", arg |-> p] \in HandlerCalls
BY DEF HandlerCalls

\* The calls that describe lights are calls of a handler.
LEMMA DescribedFits ==
  ASSUME NEW ds \in Seq(Devices)
  PROVE  Described(ds) \in Seq(HandlerCalls)
<1>1. ASSUME NEW i \in 1..(2 * Len(ds)) PROVE Described(ds)[i] \in HandlerCalls
  <2>1. (i + 1) \div 2 \in 1..Len(ds)
    OBVIOUS
  <2>2. ds[(i + 1) \div 2] \in Devices
    BY <2>1
  <2>3. {"check_percent", "check_is_on"} \subseteq Ops \ {"set_percent"}
    BY DEF Ops, Queries
  <2> QED
    BY <2>2, <2>3, AskedFits DEF Described
<1>2. Described(ds) \in [1..(2 * Len(ds)) -> HandlerCalls]
  BY <1>1 DEF Described
<1> QED
  BY <1>2

\* The calls of a Hue command are calls of a handler.
LEMMA PutFits ==
  ASSUME NEW d \in Devices, NEW r \in Work_
  PROVE  Put(d, r) \in Seq(HandlerCalls)
<1>1. {"turn_on", "turn_off"} \subseteq Ops \ {"set_percent"}
  BY DEF Ops, Commands
<1>2. Asked(d, IF r.on = On THEN "turn_on" ELSE "turn_off") \in HandlerCalls
  BY <1>1, AskedFits
<1>3. r.bri # None => r.bri \in Nat
  BY DEF Work_
<1>4. r.bri # None => hue_brightness_to_percent(r.bri) \in 0..100
  BY <1>3, Monotone
<1>5. r.bri # None => [dev |-> d, op |-> "set_percent",
                       arg |-> hue_brightness_to_percent(r.bri)] \in HandlerCalls
  BY <1>4, SetFits
<1> QED
  BY <1>2, <1>5 DEF Put

\* The call of a WeMo command is a call of a handler.
LEMMA SetCallFits ==
  ASSUME NEW r \in Work_, r.at \in Devices
  PROVE  SetCall(r) \in HandlerCalls
<1>1. {"turn_on", "turn_off"} \subseteq Ops \ {"set_percent"}
  BY DEF Ops, Commands
<1>2. r.bri # None => Capped(r.bri, 100) \in 0..100
  BY DEF Work_, Capped
<1> QED
  BY <1>1, <1>2, AskedFits, SetFits DEF SetCall

\* The handlers only ever make calls of HandlerCalls.
LEMMA CallsFit ==
  ASSUME list \in Seq(Devices), NEW j \in Jobs, NEW phase \in CallPhases,
         phase \in {"get", "set"} => j.req.kind \in OwnKinds
  PROVE  CallsOf(j, phase) \in Seq(HandlerCalls)
<1>1. j.req \in Work_ /\ j.lights \in Seq(Devices)
  BY DEF Jobs
<1>2. j.req.kind \in OwnKinds => j.req.at \in Devices
  BY <1>1 DEF Work_
<1>3. Scope(j.req) \in Seq(Devices)
  BY <1>2 DEF Scope
<1>4. Chosen(j) \in Seq(Devices)
  BY <1>1 DEF Chosen
<1>5. CASE phase \in {"any", "each", "lights"}
  <2>1. "supports_percent" \in Ops \ {"set_percent"}
    BY DEF Ops, Queries
  <2>2. \A i \in 1..Len(Scope(j.req)) : Asked(Scope(j.req)[i], "supports_percent") \in HandlerCalls
    BY <1>3, <2>1, AskedFits
  <2>3. CallsOf(j, phase) = [i \in 1..Len(Scope(j.req)) |-> Asked(Scope(j.req)[i], "supports_percent")]
    BY <1>5 DEF CallsOf
  <2> QED
    BY <1>3, <2>2, <2>3
<1>6. CASE phase = "describe"
  BY <1>4, <1>6, DescribedFits DEF CallsOf
<1>7. CASE phase = "put"
  <2>1. Chosen(j) # <<>> => Chosen(j)[1] \in Devices
    BY <1>4
  <2>2. Chosen(j) # <<>> => Put(Chosen(j)[1], j.req) \in Seq(HandlerCalls)
    BY <1>1, <2>1, PutFits
  <2> QED
    BY <1>7, <2>2 DEF CallsOf
<1>8. CASE phase = "get"
  <2>1. <<j.req.at>> \in Seq(Devices)
    BY <1>2, <1>8
  <2> QED
    BY <1>8, <2>1, DescribedFits DEF CallsOf
<1>9. CASE phase = "set"
  <2>1. SetCall(j.req) \in HandlerCalls
    BY <1>1, <1>2, <1>9, SetCallFits
  <2> QED
    BY <1>9, <2>1 DEF CallsOf
<1> QED
  BY <1>5, <1>6, <1>7, <1>8, <1>9 DEF CallPhases

-----------------------------------------------------------------------------
(* Every step preserves JobsFit.                                           *)

\* A step of thread t changes nothing that the other threads' fits are about.
LEMMA OneThread ==
  ASSUME JobsFit, NEW t \in Threads, NEW j \in Jobs \cup {None},
         job' = [job EXCEPT ![t] = j],
         \A u \in Threads \ {t} : ask'[u] = ask[u] /\ (u \in readers' => u \in readers)
                                  /\ (writer' = u => writer = u),
         list' \in Seq(Devices), writer' # None => Len(list') < N,
         readers' \subseteq Threads, writer' \in Threads \cup {None},
         Fits(t)'
  PROVE  JobsFit'
<1>1. job' \in [Threads -> Jobs \cup {None}] /\ \A u \in Threads \ {t} : job'[u] = job[u]
  BY DEF JobsFit
<1>2. ASSUME NEW u \in Threads \ {t} PROVE Fits(u)'
  BY <1>1, <1>2 DEF JobsFit, Fits, Before, Own
<1>3. \A u \in Threads : Fits(u)'
  BY <1>2
<1> QED
  BY <1>1, <1>3 DEF JobsFit

\* A step that leaves requests and the list alone, and makes nobody ask.
LEMMA Elsewhere ==
  ASSUME JobsFit, UNCHANGED <<listLock, job>>, ask' = ask
  PROVE  JobsFit'
BY DEF JobsFit, Fits, Before, Own, listLock

\* What t is left with when it goes on to the next phase.
LEMMA NextPhase ==
  ASSUME JobsFit, NEW t \in Threads, job[t] # None, job[t].phases # <<>>
  PROVE  /\ job[t] \in Jobs
         /\ Head(job[t].phases) \in PhaseNames
         /\ Head(job[t].phases) \in {"get", "set"} => job[t].req.kind \in OwnKinds
         /\ [job[t] EXCEPT !.phases = Tail(@)] \in Jobs
         /\ Nested(Tail(job[t].phases))
         /\ \A i \in 1..Len(Tail(job[t].phases)) :
              Tail(job[t].phases)[i] \in {"get", "set"} => job[t].req.kind \in OwnKinds
<1> DEFINE p == job[t].phases
<1>1. job[t] \in Jobs /\ Nested(p) /\ Own(job[t])
  BY DEF JobsFit, Fits
<1>2. p \in Seq(PhaseNames)
  BY <1>1 DEF Jobs
<1>3. Tail(p) \in Seq(PhaseNames) /\ Nested(Tail(p))
  BY <1>1, <1>2, TailOfPhases
<1>4. [job[t] EXCEPT !.phases = Tail(@)] \in Jobs
  BY <1>1, <1>3 DEF Jobs
<1>5. Head(p) = p[1] /\ 1 \in 1..Len(p) /\ Head(p) \in PhaseNames
      /\ \A i \in 1..Len(Tail(p)) : i + 1 \in 1..Len(p) /\ Tail(p)[i] = p[i + 1]
  BY <1>2
<1> QED
  BY <1>1, <1>3, <1>4, <1>5 DEF Own

\* A request that is received fits.
LEMMA ReceiveFits ==
  ASSUME SInv, NEW t \in Threads, Receive(t)
  PROVE  JobsFit'
<1>1. PICK r \in Work[t] :
        job' = [job EXCEPT ![t] = [req |-> r, phase |-> "start", phases |-> Phases(r),
                                   todo |-> <<>>, lights |-> <<>>, said |-> None]]
  BY DEF Receive, Set
<1> DEFINE j == [req |-> r, phase |-> "start", phases |-> Phases(r),
                 todo |-> <<>>, lights |-> <<>>, said |-> None]
<1>2. r \in Work_
  BY WorkAssumption
<1>3. j \in Jobs /\ Nested(j.phases) /\ Own(j)
  BY <1>2, PhasesNested DEF Jobs, Own, Answers
<1>4. /\ job[t] = None /\ ask[t] = None /\ t \notin readers /\ writer # t
      /\ UNCHANGED <<ask, list, readers, writer>>
  BY DEF Receive, SInv, JobsFit, Fits, Before, vars, listLock
<1>5. job'[t] = j
  BY <1>1 DEF SInv, JobsFit
<1>6. Fits(t)'
  <2> HIDE DEF j
  <2> QED
    BY <1>3, <1>4, <1>5 DEF Fits, Own
<1> QED
  <2> HIDE DEF j
  <2>1. job' = [job EXCEPT ![t] = j]
    BY <1>1 DEF j
  <2> QED
    BY <1>3, <1>4, <1>6, <2>1, OneThread DEF SInv, JobsFit

\* Taking and leaving the read lock keep the phases nested.
LEMMA ReadLockFits ==
  ASSUME SInv, NEW t \in Threads, TakeReadLock(t) \/ LeaveReadLock(t)
  PROVE  JobsFit'
<1> DEFINE j == [job[t] EXCEPT !.phases = Tail(@)]
<1>1. /\ job[t] # None /\ job[t].phases # <<>> /\ ask[t] = None
      /\ job' = [job EXCEPT ![t] = j] /\ UNCHANGED <<ask, list, writer>>
  BY DEF TakeReadLock, LeaveReadLock, Before, Pass, Set, vars
<1>2. job[t] \in Jobs /\ j \in Jobs /\ j.phases = Tail(job[t].phases)
      /\ Nested(j.phases) /\ Own(j)
  BY <1>1, NextPhase DEF SInv, Own, Jobs
<1>3. job'[t] = j
  BY <1>1 DEF SInv, JobsFit
<1>4. writer # t
  BY DEF TakeReadLock, LeaveReadLock, Readable, Before, SInv, JobsFit, Fits
<1>5. /\ readers' \subseteq Threads
      /\ \A u \in Threads \ {t} : u \in readers' => u \in readers
      /\ t \in readers' => TakeReadLock(t)
  BY DEF TakeReadLock, LeaveReadLock, SInv, JobsFit
<1>6. TakeReadLock(t) => Leaves(j.phases)
  <2> SUFFICES ASSUME TakeReadLock(t) PROVE Leaves(j.phases)
    OBVIOUS
  <2>1. Head(job[t].phases) = "lock"
    BY DEF TakeReadLock, Before
  <2>2. job[t].phases \in Seq(PhaseNames) /\ Nested(job[t].phases)
    BY <1>1, <1>2 DEF Jobs, SInv, JobsFit, Fits
  <2> QED
    BY <1>1, <1>2, <2>1, <2>2, TailOfPhases
<1>7. Fits(t)'
  <2> HIDE DEF j
  <2> QED
    BY <1>1, <1>2, <1>3, <1>4, <1>5, <1>6, NobodyAssumption DEF Fits, Own
<1> QED
  <2> HIDE DEF j
  <2> QED
    BY <1>1, <1>2, <1>5, <1>7, OneThread DEF SInv, JobsFit

\* An answer sent, or one that cannot be sent, keeps the phases nested.
LEMMA SendFits ==
  ASSUME SInv, NEW t \in Threads, SendAnswers(t)
  PROVE  JobsFit'
<1>1. /\ job[t] # None /\ job[t].phases # <<>> /\ ask[t] = None
      /\ Head(job[t].phases) = "send" /\ UNCHANGED <<ask, list, readers, writer>>
  BY DEF SendAnswers, Before, vars, listLock
<1>2. job[t] \in Jobs /\ job[t].phases \in Seq(PhaseNames) /\ Nested(job[t].phases)
  BY <1>1 DEF SInv, JobsFit, Fits, Jobs
<1>3. writer # t
  BY <1>1 DEF SInv, JobsFit, Fits, Before
<1>4. ASSUME NEW p \in Seq(PhaseNames), Nested(p), t \in readers => Leaves(p),
             \A i \in 1..Len(p) : p[i] \in {"get", "set"} => job[t].req.kind \in OwnKinds,
             Set(t, [job[t] EXCEPT !.phases = p])
      PROVE  JobsFit'
  <2> DEFINE j == [job[t] EXCEPT !.phases = p]
  <2>1. j \in Jobs /\ j.phases = p /\ j.req = job[t].req
    BY <1>2 DEF Jobs
  <2>2. job' = [job EXCEPT ![t] = j] /\ job'[t] = j
    BY <1>4 DEF Set, SInv, JobsFit
  <2> HIDE DEF j
  <2>4. Own(j) /\ Nested(j.phases) /\ (t \in readers => Leaves(j.phases))
    BY <1>4, <2>1 DEF Own
  <2>5. ask'[t] = None /\ writer' # t /\ (t \in readers' => t \in readers)
    BY <1>1, <1>3
  <2>3. Fits(t)'
    BY <1>1, <2>1, <2>2, <2>4, <2>5, NobodyAssumption DEF Fits, Own
  <2> QED
    BY <1>1, <2>1, <2>2, <2>3, OneThread DEF SInv, JobsFit
<1>5. CASE Pass(t)
  <2>1. /\ Tail(job[t].phases) \in Seq(PhaseNames) /\ Nested(Tail(job[t].phases))
        /\ t \in readers => Leaves(Tail(job[t].phases))
    BY <1>1, <1>2, TailOfPhases DEF SInv, JobsFit, Fits
  <2>2. \A i \in 1..Len(Tail(job[t].phases)) :
          Tail(job[t].phases)[i] \in {"get", "set"} => job[t].req.kind \in OwnKinds
    BY <1>1, NextPhase DEF SInv
  <2>3. Set(t, [job[t] EXCEPT !.phases = Tail(job[t].phases)])
    BY <1>5 DEF Pass
  <2> QED
    BY <1>4, <2>1, <2>2, <2>3
<1>6. CASE Set(t, [job[t] EXCEPT !.phases = Unwinding(t)])
  BY <1>4, <1>6, UnwindingFits
<1> QED
  BY <1>5, <1>6 DEF SendAnswers

\* A writer has its device still to add.
LEMMA WriteFits ==
  ASSUME SInv, NEW t \in Threads, AnnounceWrite(t) \/ AddDevice(t)
  PROVE  JobsFit'
<1>1. CASE AnnounceWrite(t)
  <2>1. /\ Before(t, "write") /\ Len(list) < N /\ writer = None /\ writer' = t
        /\ UNCHANGED <<ask, list, readers, job>>
    BY <1>1 DEF AnnounceWrite, vars
  <2>2. job' = [job EXCEPT ![t] = job[t]] /\ job[t] \in Jobs \cup {None}
    BY <2>1 DEF SInv, JobsFit
  <2>3. Fits(t)'
    BY <2>1 DEF SInv, JobsFit, Fits, Before, Own
  <2> QED
    BY <2>1, <2>2, <2>3, OneThread, NoneAssumption DEF SInv, JobsFit
<1>2. CASE AddDevice(t)
  <2> DEFINE j == [job[t] EXCEPT !.phases = Tail(@)]
  <2>1. /\ writer = t /\ readers = {} /\ list' = Append(list, Len(list) + 1)
        /\ writer' = None /\ UNCHANGED <<ask, readers>> /\ job' = [job EXCEPT ![t] = j]
    BY <1>2 DEF AddDevice, vars, Pass, Set
  <2>2. Before(t, "write") /\ Len(list) < N /\ list \in Seq(Devices)
    BY <2>1, NoneAssumption DEF SInv, JobsFit, Fits
  <2>3. job[t] # None /\ job[t].phases # <<>> /\ ask[t] = None
    BY <2>2 DEF Before
  <2>4. j \in Jobs /\ Nested(j.phases) /\ Own(j)
    BY <2>3, NextPhase DEF SInv, Own, Jobs
  <2>5. list' \in Seq(Devices)
    BY <2>1, <2>2, BoundsAssumption DEF Devices
  <2>6. job'[t] = j
    BY <2>1 DEF SInv, JobsFit
  <2> HIDE DEF j
  <2>7. Fits(t)'
    BY <2>1, <2>3, <2>4, <2>6, NoneAssumption DEF Fits, Own
  <2> QED
    BY <2>1, <2>4, <2>5, <2>7, OneThread, NoneAssumption DEF SInv, JobsFit
<1> QED
  BY <1>1, <1>2

\* A phase that begins has calls of a handler to make.
LEMMA EnterFits ==
  ASSUME SInv, NEW t \in Threads, EnterPhase(t)
  PROVE  JobsFit'
<1>1. PICK phase \in CallPhases :
        /\ Before(t, phase)
        /\ Set(t, [job[t] EXCEPT !.phase = phase, !.phases = AfterPhases(job[t]),
                                 !.todo = CallsOf(job[t], phase)])
  BY DEF EnterPhase
<1> DEFINE todo == CallsOf(job[t], phase)
           j == [job[t] EXCEPT !.phase = phase, !.phases = Tail(job[t].phases), !.todo = todo]
<1>2. /\ job[t] # None /\ job[t].phases # <<>> /\ ask[t] = None /\ Head(job[t].phases) = phase
      /\ UNCHANGED <<ask, list, readers, writer>>
  BY <1>1 DEF EnterPhase, Before, vars, listLock
<1>3. /\ job[t] \in Jobs /\ Nested(Tail(job[t].phases))
      /\ [job[t] EXCEPT !.phases = Tail(@)] \in Jobs
      /\ phase \in {"get", "set"} => job[t].req.kind \in OwnKinds
      /\ \A i \in 1..Len(Tail(job[t].phases)) :
           Tail(job[t].phases)[i] \in {"get", "set"} => job[t].req.kind \in OwnKinds
  BY <1>2, NextPhase DEF SInv
<1>4. todo \in Seq(HandlerCalls)
  BY <1>3, CallsFit DEF SInv, JobsFit
<1>5. job[t].phases \in Seq(PhaseNames) /\ Tail(job[t].phases) \in Seq(PhaseNames)
  BY <1>2, <1>3 DEF Jobs
<1>6. job' = [job EXCEPT ![t] = j] /\ job'[t] = j
  BY <1>1 DEF Set, AfterPhases, SInv, JobsFit
<1> HIDE DEF todo
<1>7. j \in Jobs /\ j.phases = Tail(job[t].phases) /\ j.req = job[t].req
  BY <1>3, <1>4, <1>5 DEF Jobs
<1>8. "unlock" \notin CallPhases /\ "write" \notin CallPhases
  BY DEF CallPhases
<1>9. t \in readers => Leaves(j.phases)
  BY <1>2, <1>5, <1>7, <1>8, TailOfPhases DEF SInv, JobsFit, Fits
<1>10. writer # t
  BY <1>1, <1>2, <1>8 DEF SInv, JobsFit, Fits, Before
<1> HIDE DEF j
<1>11. Nested(j.phases) /\ Own(j)
  BY <1>3, <1>7 DEF Own
<1>12. Fits(t)'
  BY <1>2, <1>6, <1>7, <1>9, <1>10, <1>11, NobodyAssumption DEF Fits, Own
<1> QED
  BY <1>2, <1>6, <1>7, <1>12, OneThread DEF SInv, JobsFit

\* A handler that asks a device makes a call that the devices allow.
LEMMA AskFits ==
  ASSUME SInv, NEW t \in Threads, AskDevice(t)
  PROVE  JobsFit' /\ Call(t)
<1>1. /\ job[t] # None /\ job[t].todo # <<>> /\ ask[t] = None
      /\ ask' = [ask EXCEPT ![t] = Head(job[t].todo)]
      /\ UNCHANGED <<list, readers, writer, job, top, holder, act, caller, believed, hardware>>
  BY DEF AskDevice, listLock
<1>2. job[t] \in Jobs /\ job' = [job EXCEPT ![t] = job[t]]
  BY <1>1 DEF SInv, JobsFit
<1>3. Head(job[t].todo) \in Requests
  BY <1>1, <1>2, CallsAssumption DEF Jobs
<1>4. Call(t)
  BY <1>1, <1>3 DEF Call
<1>5. \A u \in Threads \ {t} : ask'[u] = ask[u]
  BY <1>1 DEF SInv, IInv, Typed
<1>6. writer # t
  BY <1>1 DEF SInv, JobsFit, Fits, Before
<1>7. Fits(t)'
  BY <1>1, <1>6 DEF SInv, JobsFit, Fits, Own
<1> QED
  BY <1>1, <1>2, <1>4, <1>5, <1>7, OneThread DEF SInv, JobsFit

\* A thread that has responded has nothing left to do.
LEMMA RespondFits ==
  ASSUME SInv, NEW t \in Threads, Respond(t)
  PROVE  JobsFit'
<1>1. /\ job[t] # None /\ ask[t] = None /\ job[t].phases = <<>>
      /\ job' = [job EXCEPT ![t] = None] /\ job'[t] = None
      /\ UNCHANGED <<ask, list, readers, writer>>
  BY DEF Respond, Set, vars, listLock, SInv, JobsFit
<1>2. t \notin readers
  BY <1>1 DEF SInv, JobsFit, Fits, Leaves
<1>3. writer # t
  BY <1>1 DEF SInv, JobsFit, Fits, Before
<1>4. Fits(t)'
  BY <1>1, <1>2, <1>3 DEF Fits
<1> QED
  BY <1>1, <1>4, OneThread DEF SInv, JobsFit

\* A handler that has an answer goes on or unwinds.
LEMMA HeardFits ==
  ASSUME SInv, NEW t \in Threads, NEW d \in Devices, NEW v \in Answers,
         job[t] # None, job[t].todo # <<>>
  PROVE  /\ Heard(t, d, v) \in Jobs
         /\ Nested(Heard(t, d, v).phases) /\ Own(Heard(t, d, v))
         /\ t \in readers => Leaves(Heard(t, d, v).phases)
<1> DEFINE j == job[t]
           h == Heard(t, d, v)
<1>1. j \in Jobs /\ Nested(j.phases) /\ Own(j) /\ (t \in readers => Leaves(j.phases))
  BY DEF SInv, JobsFit, Fits
<1>2. Tail(j.todo) \in Seq(HandlerCalls) /\ Append(j.lights, d) \in Seq(Devices)
      /\ <<>> \in Seq(HandlerCalls) /\ None \in Answers
  BY <1>1 DEF Jobs, Answers
<1>3. CASE v = Panic
  <2>1. h = [j EXCEPT !.todo = <<>>, !.phases = Unwinding(t)]
    BY <1>3 DEF Heard
  <2> HIDE DEF h
  <2>2. h \in Jobs /\ h.phases = Unwinding(t) /\ h.req = j.req
    <3>1. Unwinding(t) \in Seq(PhaseNames)
      BY UnwindingFits
    <3> QED
      BY <1>1, <1>2, <2>1, <3>1 DEF Jobs
  <2>3. Own(h)
    BY <2>2, UnwindingFits DEF Own
  <2> QED
    BY <2>2, <2>3, UnwindingFits DEF h
<1>4. CASE v # Panic
  <2>1. h \in {[j EXCEPT !.todo = <<>>], [j EXCEPT !.todo = Tail(@)],
               [j EXCEPT !.todo = Tail(@), !.lights = Append(@, d)],
               [j EXCEPT !.todo = Tail(@), !.said = None],
               [j EXCEPT !.todo = Tail(@), !.said = v]}
    BY <1>1, <1>4 DEF Heard, Jobs
  <2>2. h \in Jobs /\ h.phases = j.phases /\ h.req = j.req
    BY <1>1, <1>2, <2>1 DEF Jobs
  <2> HIDE DEF h
  <2>3. Own(h)
    BY <1>1, <2>2 DEF Own
  <2> QED
    BY <1>1, <2>2, <2>3 DEF h
<1> QED
  BY <1>3, <1>4

\* An answer is a return of the device, and its handler goes on or unwinds.
LEMMA AnswerFits ==
  ASSUME SInv, NEW d \in Devices, Answer(d)
  PROVE  JobsFit' /\ Return(d)
<1> DEFINE t == holder[d]
           j == Heard(t, d, act[d].val)
<1>1. act[d].pc = "return" /\ act[d].val \in Answers /\ Return(d)
  BY DEF Answer, Return, SInv, IInv, Typed, Activations
<1>2. t \in Threads /\ ask[t] # None
  BY <1>1 DEF SInv, IInv, Typed, LockOrder
<1>3. job[t] # None /\ job[t].todo # <<>> /\ writer # t
  BY <1>2 DEF SInv, JobsFit, Fits, Before
<1>4. /\ job' = [job EXCEPT ![t] = j] /\ job'[t] = j
      /\ ask' = [ask EXCEPT ![t] = None] /\ UNCHANGED <<list, readers, writer>>
  BY <1>2 DEF Answer, Return, Set, listLock, SInv, JobsFit
<1>5. ask'[t] = None /\ \A u \in Threads \ {t} : ask'[u] = ask[u]
  BY <1>2, <1>4 DEF SInv, IInv, Typed
<1>6. /\ j \in Jobs /\ Nested(j.phases) /\ Own(j) /\ (t \in readers => Leaves(j.phases))
  BY <1>1, <1>2, <1>3, HeardFits
<1>7. ASSUME NEW u \in Threads, u = t PROVE Fits(u)' /\ JobsFit'
  <2>1. /\ job' = [job EXCEPT ![u] = j] /\ job'[u] = j /\ ask'[u] = None
        /\ \A w \in Threads \ {u} : ask'[w] = ask[w]
        /\ writer # u /\ (u \in readers => Leaves(j.phases))
    BY <1>3, <1>4, <1>5, <1>6, <1>7
  <2> HIDE DEF j, t
  <2>2. Fits(u)'
    BY <1>4, <1>6, <2>1, NobodyAssumption DEF Fits, Own
  <2> QED
    BY <1>4, <1>6, <2>1, <2>2, OneThread DEF SInv, JobsFit
<1> QED
  BY <1>1, <1>2, <1>7

\* What the devices do by themselves does not concern the handlers.
LEMMA ElsewhereFits ==
  ASSUME SInv,
         \/ \E t \in Threads : Acquires(t)
         \/ \E d \in Devices : DriverRuns(d) \/ LocalRuns(d) \/ Hardware(d)
  PROVE  JobsFit'
<1>1. UNCHANGED <<listLock, job>>
  BY DEF Acquires, DriverRuns, LocalRuns, Hardware, listLock
<1>2. ASSUME NEW t \in Threads, Acquires(t) PROVE ask' = ask
  BY <1>2 DEF Acquires, Acquire
<1>3. ASSUME NEW d \in Devices, DriverRuns(d) PROVE ask' = ask
  BY SMTT(30), <1>3 DEF DriverRuns, DriverStep, DriverCommand, DriverQuery, PollCheck, locks
<1>4. ASSUME NEW d \in Devices, LocalRuns(d) PROVE ask' = ask
  BY Zenon, <1>4 DEF LocalRuns, BelievedCheck, StoreBelief, GroupPhase, Return, locks
<1>5. ASSUME NEW d \in Devices, Hardware(d) PROVE ask' = ask
  BY <1>5 DEF Hardware, Settle, locks, vars
<1> QED
  BY <1>1, <1>2, <1>3, <1>4, <1>5, Elsewhere DEF SInv

\* Every step of the server is a step of the devices, or none.
LEMMA StepOfDevices ==
  ASSUME SInv, [SNext]_svars
  PROVE  [Next]_vars
<1>1. ASSUME NEW t \in Threads, AskDevice(t) PROVE Next
  BY <1>1, AskFits DEF Next
<1>2. ASSUME NEW t \in Threads, Acquires(t) PROVE Next
  BY <1>2 DEF Next, Acquires
<1>3. ASSUME NEW t \in Threads,
             Receive(t) \/ TakeReadLock(t) \/ AnnounceWrite(t) \/ EnterPhase(t)
               \/ SendAnswers(t) \/ LeaveReadLock(t) \/ AddDevice(t) \/ Respond(t)
      PROVE  UNCHANGED vars
  BY <1>3 DEF Receive, TakeReadLock, AnnounceWrite, EnterPhase, SendAnswers,
              LeaveReadLock, AddDevice, Respond
<1>4. ASSUME NEW d \in Devices, DriverRuns(d) PROVE Next
  BY <1>4 DEF Next, DriverRuns
<1>5. ASSUME NEW d \in Devices, LocalRuns(d) PROVE Next
  BY <1>5 DEF Next, LocalRuns, LocalStep
<1>6. ASSUME NEW d \in Devices, Answer(d) PROVE Next
  BY <1>6, AnswerFits DEF Next, LocalStep
<1>7. ASSUME NEW d \in Devices, Hardware(d) PROVE [Next]_vars
  BY <1>7 DEF Next, Hardware
<1>8. CASE UNCHANGED svars
  BY <1>8 DEF svars
<1> QED
  BY <1>1, <1>2, <1>3, <1>4, <1>5, <1>6, <1>7, <1>8 DEF SNext, Handler

\* At the start nobody serves a request.
LEMMA SInitSInv == SInit => SInv
<1> SUFFICES ASSUME SInit PROVE SInv
  OBVIOUS
<1>1. IInv
  BY InitIInv DEF SInit
<1>2. list \in Seq(Devices) /\ Threads = DOMAIN job
  BY DEF SInit
<1>3. JobsFit
  BY <1>2, NoneAssumption DEF SInit, Init, JobsFit, Fits
<1> QED
  BY <1>1, <1>3 DEF SInv

\* SInv is inductive.
LEMMA SNextSInv == SInv /\ [SNext]_svars => SInv'
<1> SUFFICES ASSUME SInv, [SNext]_svars PROVE SInv'
  OBVIOUS
<1>1. IInv'
  BY StepOfDevices, NextIInv DEF SInv
<1>2. CASE UNCHANGED svars
  <2>1. UNCHANGED vars /\ UNCHANGED <<listLock, job>>
    BY <1>2 DEF svars
  <2>2. ask' = ask
    BY <2>1 DEF vars
  <2>3. JobsFit'
    BY <2>1, <2>2, Elsewhere DEF SInv
  <2> QED
    BY <1>1, <2>3 DEF SInv
<1>3. ASSUME NEW t \in Threads,
             Receive(t) \/ TakeReadLock(t) \/ AnnounceWrite(t) \/ Handler(t) \/ Acquires(t)
      PROVE  JobsFit'
  BY <1>3, ReceiveFits, ReadLockFits, WriteFits, EnterFits, AskFits, SendFits,
     RespondFits, ElsewhereFits DEF Handler
<1>4. ASSUME NEW d \in Devices, DriverRuns(d) \/ LocalRuns(d) \/ Answer(d) \/ Hardware(d)
      PROVE  JobsFit'
  BY <1>4, AnswerFits, ElsewhereFits
<1> QED
  BY <1>1, <1>2, <1>3, <1>4 DEF SNext, SInv

-----------------------------------------------------------------------------
\* Whatever requests come in and however they interleave, panic and hang, the
\* server makes calls into devices as VirtualDevices allows for, each thread
\* one at a time: what is proved of VirtualDevices holds in the server.
THEOREM DevicesOnlyCalled == SSpec => DevicesAreOnlyCalled
<1>1. SSpec => []SInv
  BY SInitSInv, SNextSInv, PTL DEF SSpec
<1>2. SInit => Init
  BY DEF SInit
<1>3. SInv /\ [SNext]_svars => [Next]_vars
  BY StepOfDevices
<1> QED
  BY <1>1, <1>2, <1>3, PTL DEF SSpec, Spec, DevicesAreOnlyCalled

\* No panic and no early end of a request leaves the read lock behind.
THEOREM ReadersAlwaysLeave == SSpec => []ReadersLeave
<1>1. SSpec => []SInv
  BY SInitSInv, SNextSInv, PTL DEF SSpec
<1>2. SInv => ReadersLeave
  <2> SUFFICES ASSUME SInv, NEW t \in readers
               PROVE  job[t] # None /\ "unlock" \in ToSet(job[t].phases)
    BY DEF ReadersLeave
  <2>1. job[t] # None /\ job[t].phases \in Seq(PhaseNames) /\ Leaves(job[t].phases)
    BY DEF SInv, JobsFit, Fits, Jobs
  <2>2. PICK i \in 1..Len(job[t].phases) : job[t].phases[i] = "unlock"
    BY <2>1 DEF Leaves
  <2>3. i \in DOMAIN job[t].phases
    BY <2>1, <2>2
  <2> QED
    BY <2>1, <2>2, <2>3 DEF ToSet
<1> QED
  BY <1>1, <1>2, PTL

\* The list lock and the mutexes never close a circle.  A thread that waits
\* for a mutex held in the set waits for one that, being in a call, can only
\* wait for a mutex too, and these do not close a circle (NoCircularWait).
\* Otherwise all wait for the list: a writer, for readers; but readers are
\* not at a lock.
THEOREM NoCircleEver == SSpec => []NoCircle
<1>1. SSpec => []SInv
  BY SInitSInv, SNextSInv, PTL DEF SSpec
<1>2. SInv => NoCircularWait
  BY WaitsForNoCircle DEF SInv
<1>3. SInv /\ NoCircularWait => NoCircle
  <2> SUFFICES ASSUME SInv, NoCircularWait, NEW S \in (SUBSET Threads) \ {{}},
                      \A t \in S : \E u \in S : WaitsFor(t, u)
               PROVE  FALSE
    BY Zenon DEF NoCircle
  <2>1. S \subseteq Threads /\ S # {}
    OBVIOUS
  <2> DEFINE M == {t \in S : Calling(t) /\ holder[Pending(t).dev] \in S}
  <2>2. ASSUME NEW t \in S, ask[t] # None PROVE t \in M
    <3>1. PICK u \in S : WaitsFor(t, u)
      OBVIOUS
    <3>2. ~Before(t, "lock") /\ ~Before(t, "write")
      BY <2>2 DEF Before
    <3>3. writer # t
      BY <2>1, <3>2 DEF SInv, JobsFit, Fits
    <3> QED
      BY <3>1, <3>2, <3>3 DEF WaitsFor
  <2>3. M = {}
    <3> SUFFICES ASSUME M # {} PROVE FALSE
      OBVIOUS
    <3>1. PICK t \in M : Calling(t) => holder[Pending(t).dev] \notin M
      <4> HIDE DEF M
      <4>1. M \in (SUBSET Threads) \ {{}}
        BY <2>1 DEF M
      <4> QED
        BY <4>1 DEF NoCircularWait
    <3> DEFINE d == Pending(t).dev
               u == holder[d]
    <3>2. u \in S /\ u \notin M /\ d \in Devices /\ u # None
      BY <2>1, <3>1, PendingBelow, NoneAssumption DEF SInv, Calls
    <3>3. top[u] \in 1..d
      BY <3>2 DEF SInv, IInv, LockOrder
    <3>4. ask[u] # None
      BY <2>1, <3>2, <3>3 DEF SInv, IInv, LockOrder
    <3> QED
      BY <2>2, <3>2, <3>4
  <2>4. ASSUME NEW t \in S PROVE ask[t] = None /\ ~Calling(t)
    BY <2>1, <2>2, <2>3, PendingBelow DEF SInv
  <2>5. ASSUME NEW u \in readers PROVE ~Before(u, "lock") /\ ~Before(u, "write")
    <3>1. job[u] # None /\ job[u].phases \in Seq(PhaseNames) /\ Nested(job[u].phases)
          /\ Leaves(job[u].phases)
      BY DEF SInv, JobsFit, Fits, Jobs
    <3> QED
      BY <3>1, TailOfPhases DEF Before
  <2>6. ASSUME NEW u \in S PROVE writer # u
    <3> SUFFICES ASSUME writer = u PROVE FALSE
      OBVIOUS
    <3>1. PICK w \in S : WaitsFor(u, w)
      OBVIOUS
    <3>2. Before(u, "write")
      BY <2>1 DEF SInv, JobsFit, Fits
    <3>3. CASE w \in readers
      <4>1. ~Before(w, "lock") /\ ~Before(w, "write")
        BY <2>5, <3>3
      <4>2. writer # w
        BY <3>2, <4>1
      <4>3. \A v \in S : ~WaitsFor(w, v)
        BY <2>4, <4>1, <4>2 DEF WaitsFor
      <4> QED
        BY <4>3
    <3>4. CASE w \notin readers
      <4>1. w = u /\ readers = {u}
        BY <2>4, <3>1, <3>4 DEF WaitsFor
      <4> QED
        BY <3>4, <4>1
    <3> QED
      BY <3>3, <3>4
  <2>7. PICK t \in S : \E u \in S : WaitsFor(t, u)
    BY <2>1
  <2> QED
    BY <2>4, <2>6, <2>7 DEF WaitsFor
<1> QED
  BY <1>1, <1>2, <1>3, PTL

-----------------------------------------------------------------------------
(* The list, and what requests heard of the devices.                       *)

Listed ==
  /\ Len(list) \in Nat /\ Len(list) <= N /\ list = [i \in 1..Len(list) |-> i]
  /\ hung \subseteq Devices

\* A call in progress is the next one of its request; a percentage heard is one.
Heeds(t) ==
  /\ ask[t] # None => ask[t] = Head(job[t].todo)
  /\ job[t] # None => job[t].said \in Levels \cup {None}

LInv == Listed /\ \A t \in Threads : Heeds(t)

\* The server's inductive invariant.
TInv == SInv /\ CInv /\ LInv

\* At the start no device is listed.
LEMMA SInitLInv == SInit => LInv
BY BoundsAssumption DEF SInit, Init, LInv, Listed, Heeds

\* A step of thread t, after which it does not ask or asks the next call.
LEMMA OneHeeds ==
  ASSUME SInv, LInv, NEW t \in Threads, NEW j, job' = [job EXCEPT ![t] = j],
         \A u \in Threads \ {t} : ask'[u] = ask[u],
         ask'[t] # None => ask'[t] = Head(j.todo),
         j # None => j.said \in Levels \cup {None}
  PROVE  \A u \in Threads : Heeds(u)'
<1>1. job'[t] = j /\ \A u \in Threads \ {t} : job'[u] = job[u]
  BY DEF SInv, JobsFit
<1>2. \A u \in Threads \ {t} : Heeds(u)'
  BY <1>1 DEF LInv, Heeds
<1>3. Heeds(t)'
  BY <1>1 DEF Heeds
<1> QED
  BY <1>2, <1>3

\* Handlers that add no device leave the list as it is.
LEMMA HandlerLInv ==
  ASSUME SInv, LInv, NEW t \in Threads,
         \/ Receive(t) \/ TakeReadLock(t) \/ LeaveReadLock(t) \/ SendAnswers(t)
         \/ EnterPhase(t) \/ Respond(t)
  PROVE  LInv'
<1>1. UNCHANGED <<ask, list, hung>> /\ ask[t] = None
  BY DEF Receive, TakeReadLock, LeaveReadLock, SendAnswers, EnterPhase, Respond, Before,
         vars, listLock, SInv, JobsFit, Fits
<1>2. PICK j : /\ job' = [job EXCEPT ![t] = j]
               /\ j # None => j.said \in Levels \cup {None}
  <2>1. CASE Receive(t)
    BY <2>1 DEF Receive, Set
  <2>2. CASE Respond(t)
    BY <2>2 DEF Respond, Set
  <2>3. CASE ~Receive(t) /\ ~Respond(t)
    <3>1. job[t] # None
      BY <2>3 DEF TakeReadLock, LeaveReadLock, SendAnswers, EnterPhase, Before
    <3>2. job[t] \in Jobs /\ job[t].said \in Levels \cup {None}
      BY <3>1 DEF SInv, JobsFit, LInv, Heeds
    <3>3. ASSUME NEW p, Set(t, [job[t] EXCEPT !.phases = p])
          PROVE  \E j : job' = [job EXCEPT ![t] = j] /\ j.said = job[t].said
      <4> DEFINE j == [job[t] EXCEPT !.phases = p]
      <4>1. j.said = job[t].said
        BY <3>2 DEF Jobs
      <4>2. job' = [job EXCEPT ![t] = j]
        BY <3>3 DEF Set
      <4> HIDE DEF j
      <4> QED
        BY <4>1, <4>2
    <3>4. ASSUME NEW p, NEW q, NEW c,
                 Set(t, [job[t] EXCEPT !.phase = q, !.phases = p, !.todo = c])
          PROVE  \E j : job' = [job EXCEPT ![t] = j] /\ j.said = job[t].said
      <4> DEFINE j == [job[t] EXCEPT !.phase = q, !.phases = p, !.todo = c]
      <4>1. j.said = job[t].said
        BY <3>2 DEF Jobs
      <4>2. job' = [job EXCEPT ![t] = j]
        BY <3>4 DEF Set
      <4> HIDE DEF j
      <4> QED
        BY <4>1, <4>2
    <3>5. CASE EnterPhase(t)
      BY <3>2, <3>4, <3>5 DEF EnterPhase
    <3>6. CASE ~EnterPhase(t)
      <4>1. \E p : Set(t, [job[t] EXCEPT !.phases = p])
        BY <2>3, <3>6 DEF TakeReadLock, LeaveReadLock, SendAnswers, Pass
      <4> QED
        BY <3>2, <3>3, <4>1
    <3> QED
      BY <3>5, <3>6
  <2> QED
    BY <2>1, <2>2, <2>3
<1>3. \A u \in Threads : Heeds(u)'
  BY <1>1, <1>2, OneHeeds
<1> QED
  BY <1>1, <1>3 DEF LInv, Listed

\* A writer appends the next device.
LEMMA WriterLInv ==
  ASSUME SInv, LInv, NEW t \in Threads, AnnounceWrite(t) \/ AddDevice(t)
  PROVE  LInv'
<1>1. CASE AnnounceWrite(t)
  BY <1>1 DEF AnnounceWrite, vars, LInv, Listed, Heeds
<1>2. CASE AddDevice(t)
  <2>1. /\ writer = t /\ list' = Append(list, Len(list) + 1) /\ UNCHANGED <<ask, hung>>
        /\ job' = [job EXCEPT ![t] = [job[t] EXCEPT !.phases = Tail(@)]]
    BY <1>2 DEF AddDevice, Pass, Set, vars
  <2>2. Before(t, "write") /\ Len(list) < N /\ N \in Nat
    BY <2>1, NoneAssumption, BoundsAssumption DEF SInv, JobsFit, Fits
  <2>3. job[t] \in Jobs /\ job[t] # None /\ ask[t] = None /\ job[t].said \in Levels \cup {None}
    BY <2>2 DEF Before, SInv, JobsFit, LInv, Heeds
  <2>4. [job[t] EXCEPT !.phases = Tail(@)].said = job[t].said
    BY <2>3 DEF Jobs
  <2>5. \A u \in Threads : Heeds(u)'
    BY <2>1, <2>3, <2>4, OneHeeds
  <2>6. Listed'
    <3>1. Len(list) \in Nat /\ list = [i \in 1..Len(list) |-> i]
      BY DEF LInv, Listed
    <3>2. list \in Seq(Nat)
      BY <3>1
    <3>3. Len(list') = Len(list) + 1 /\ list' = [i \in 1..(Len(list) + 1) |-> i]
      BY <2>1, <3>1, <3>2
    <3> QED
      BY <2>1, <2>2, <3>1, <3>3 DEF LInv, Listed
  <2> QED
    BY <2>5, <2>6 DEF LInv
<1> QED
  BY <1>1, <1>2

\* A thread asks for the first call that is left.
LEMMA AskLInv == ASSUME SInv, LInv, NEW t \in Threads, AskDevice(t) PROVE LInv'
<1>1. /\ job[t] # None /\ ask' = [ask EXCEPT ![t] = Head(job[t].todo)]
      /\ UNCHANGED <<list, job, hung>>
  BY DEF AskDevice, listLock
<1>2. ask'[t] = Head(job[t].todo) /\ \A u \in Threads \ {t} : ask'[u] = ask[u]
  BY <1>1 DEF SInv, IInv, Typed
<1>3. \A u \in Threads : Heeds(u)'
  BY <1>1, <1>2 DEF LInv, Heeds
<1> QED
  BY <1>1, <1>3 DEF LInv, Listed

\* The answer is one to the call the request made.
LEMMA AnswerLInv == ASSUME TInv, NEW d \in Devices, Answer(d) PROVE LInv'
<1> USE DEF TInv
<1>1. /\ act[d].pc = "return" /\ act[d].val \in Answers /\ Return(d) /\ caller[d] = 0
      /\ UNCHANGED <<list, hung>>
  BY DEF Answer, Return, SInv, IInv, Typed, Activations, listLock
<1>2. PICK t \in Threads : t = holder[d] /\ ask[t] # None
  BY <1>1 DEF SInv, IInv, Typed, LockOrder
<1>3. job[t] # None /\ job[t] \in Jobs /\ job[t].said \in Levels \cup {None}
  BY <1>2 DEF SInv, JobsFit, Fits, LInv, Heeds
<1>4. Head(job[t].todo).op = "check_percent" => act[d].val \in Levels \cup {None, Err, Panic}
  <2>1. CallOf(d) = Head(job[t].todo)
    BY <1>1, <1>2, NoneAssumption DEF CInv, Matching, LInv, Heeds
  <2>2. act[d].val \in AnswersOf(act[d].op)
    BY <1>1 DEF CInv, Suited
  <2> QED
    BY <2>1, <2>2 DEF CallOf, AnswersOf
<1> DEFINE j == Heard(t, d, act[d].val)
<1>5. j.said \in Levels \cup {None}
  <2>1. CASE act[d].val = Panic
    BY <1>3, <2>1 DEF Heard, Jobs
  <2>2. CASE act[d].val # Panic
    BY <1>3, <1>4, <2>2 DEF Heard, Jobs
  <2> QED
    BY <2>1, <2>2
<1>6. job' = [job EXCEPT ![t] = j] /\ ask'[t] = None
      /\ \A u \in Threads \ {t} : ask'[u] = ask[u]
  BY <1>1, <1>2 DEF Answer, Return, Set, SInv, IInv, Typed
<1> HIDE DEF j
<1>7. \A u \in Threads : Heeds(u)'
  BY <1>5, <1>6, OneHeeds
<1> QED
  BY <1>1, <1>7 DEF LInv, Listed

\* What the devices do by themselves leaves the list as it is.
LEMMA DeviceLInv ==
  ASSUME SInv, LInv,
         \/ \E t \in Threads : Acquires(t)
         \/ \E d \in Devices : DriverRuns(d) \/ LocalRuns(d) \/ Hardware(d)
  PROVE  LInv'
<1>1. UNCHANGED <<list, job>>
  BY DEF Acquires, DriverRuns, LocalRuns, Hardware, listLock
<1>2. ask' = ask /\ hung' \subseteq Devices
  <2>1. ASSUME NEW t \in Threads, Acquires(t) PROVE ask' = ask /\ hung' = hung
    BY <2>1 DEF Acquires, Acquire
  <2>2. ASSUME NEW d \in Devices, DriverRuns(d) PROVE ask' = ask /\ hung' = hung
    BY SMTT(30), <2>2 DEF DriverRuns, DriverStep, DriverCommand, DriverQuery, PollCheck, locks
  <2>3. ASSUME NEW d \in Devices, LocalRuns(d) PROVE ask' = ask /\ hung' = hung
    BY Zenon, <2>3 DEF LocalRuns, BelievedCheck, StoreBelief, GroupPhase, Return, locks
  <2>4. ASSUME NEW d \in Devices, Hardware(d) PROVE ask' = ask /\ hung' \subseteq hung \cup {d}
    BY <2>4 DEF Hardware, Settle, locks, vars
  <2> QED
    BY <2>1, <2>2, <2>3, <2>4 DEF LInv, Listed
<1> QED
  BY <1>1, <1>2 DEF LInv, Listed, Heeds

\* The invariant of the server is inductive.
LEMMA SNextTInv == TInv /\ [SNext]_svars => TInv'
<1> SUFFICES ASSUME TInv, [SNext]_svars PROVE TInv'
  OBVIOUS
<1>1. SInv' /\ CInv'
  BY SNextSInv, StepOfDevices, NextCInv DEF TInv, SInv
<1>2. CASE UNCHANGED svars
  BY <1>1, <1>2 DEF TInv, LInv, Listed, Heeds, svars, vars, listLock
<1>3. ASSUME NEW t \in Threads,
             Receive(t) \/ TakeReadLock(t) \/ AnnounceWrite(t) \/ Handler(t) \/ Acquires(t)
      PROVE  LInv'
  BY <1>3, HandlerLInv, WriterLInv, AskLInv, DeviceLInv DEF Handler, TInv
<1>4. ASSUME NEW d \in Devices, DriverRuns(d) \/ LocalRuns(d) \/ Answer(d) \/ Hardware(d)
      PROVE  LInv'
  BY <1>4, AnswerLInv, DeviceLInv DEF TInv
<1> QED
  BY <1>1, <1>2, <1>3, <1>4 DEF SNext, TInv

\* Lists, locks and requests keep their types; in particular nothing but a
\* percentage is ever taken for one.
THEOREM ServerTypes == SSpec => []ServerTypeOK
<1>1. SInit => TInv
  BY SInitSInv, SInitLInv, InitCInv DEF TInv, SInit
<1>2. TInv /\ TypeOK => ServerTypeOK
  BY DEF TInv, SInv, JobsFit, LInv, Listed, Heeds, ServerTypeOK
<1>3. SSpec => Spec
  BY DevicesOnlyCalled DEF DevicesAreOnlyCalled
<1> QED
  BY <1>1, <1>2, <1>3, SNextTInv, TypeCorrect, PTL DEF SSpec

\* A brightness that is read and set again leaves each light as it is.
THEOREM PercentsSurvive == SSpec => []PercentSurvives
<1>1. SSpec => []SInv
  BY SInitSInv, SNextSInv, PTL DEF SSpec
<1>2. SInv => PercentSurvives
  <2> SUFFICES ASSUME SInv, NEW d \in Devices
               PROVE  hue_brightness_to_percent(percent_to_hue_brightness(level[d]))
                        = Capped(level[d], 100)
    BY DEF PercentSurvives
  <2>1. level[d] \in Nat
    BY BoundsAssumption DEF SInv, IInv, Typed, Levels
  <2>2. Capped(level[d], 100) \in 0..100
        /\ percent_to_hue_brightness(level[d]) = percent_to_hue_brightness(Capped(level[d], 100))
    BY <2>1 DEF Capped, percent_to_hue_brightness
  <2> QED
    BY <2>2, RoundTrip
<1> QED
  BY <1>1, <1>2, PTL

\* In the server, too, answers are current and beliefs warranted.
THEOREM ServerAnswers == SSpec => [](AnswersAreCurrent /\ BeliefIsWarranted)
<1>1. SSpec => Spec
  BY DevicesOnlyCalled DEF DevicesAreOnlyCalled
<1> QED
  BY <1>1, CurrentAnswers, WarrantedBelief, PTL

-----------------------------------------------------------------------------
(* What a request does in which phase.                                     *)

Reading == {"any", "each", "lights", "describe", "get"}
Setting == {"put", "set"}

\* The last command of a request, if it sets a brightness or turns off.
Closes(r, c) ==
  /\ r.bri # None => /\ c.op = "set_percent"
                     /\ c.arg = IF r.kind = "set" THEN Capped(r.bri, 100)
                                ELSE hue_brightness_to_percent(r.bri)
  /\ r.bri = None /\ r.on = Off => c.op = "turn_off"

\* The calls todo of a request r in a phase.
Fitting(phase, r, todo) ==
  /\ phase = "start" => todo = <<>>
  /\ phase \in {"any", "each", "lights"} => \A i \in 1..Len(todo) : todo[i].op = "supports_percent"
  /\ phase \in {"describe", "get"} => \A i \in 1..Len(todo) :
       /\ todo[i].op \in {"check_percent", "check_is_on"}
       /\ todo[i].op = "check_percent" =>
            /\ i < Len(todo) /\ todo[i + 1].op = "check_is_on" /\ todo[i + 1].dev = todo[i].dev
       /\ todo[i].op = "check_is_on" /\ i < Len(todo) => todo[i + 1].op = "check_percent"
  /\ phase = "describe" => \A i \in 1..Len(todo) : Below[todo[i].dev] \subseteq Dimmable
  /\ phase \in Setting => \A i \in 1..Len(todo) :
       /\ todo[i].op \in Commands /\ todo[i].dev = todo[1].dev
       /\ i > 1 => todo[i].op = "set_percent"
       /\ i = Len(todo) => Closes(r, todo[i])

\* A request, its lights and the calls it makes.
Formed(j) ==
  /\ \A i \in 1..Len(j.phases) :
       j.phases[i] = "set" <=> j.phases[i] \in Setting /\ j.req.kind = "set"
  /\ \A i \in 1..Len(j.lights) : Below[j.lights[i]] \subseteq Dimmable
  /\ Fitting(j.phase, j.req, j.todo)

\* What is left of the calls of a phase fits too.
LEMMA TailFitting ==
  ASSUME NEW todo \in Seq(HandlerCalls), todo # <<>>, NEW phase, NEW r, Fitting(phase, r, todo)
  PROVE  Fitting(phase, r, Tail(todo)) /\ Fitting(phase, r, <<>>)
<1> DEFINE s == Tail(todo)
<1>1. /\ Len(todo) \in Nat /\ Len(s) = Len(todo) - 1
      /\ \A i \in 1..Len(s) : s[i] = todo[i + 1] /\ i + 1 \in 1..Len(todo)
      /\ \A i \in 1..Len(s) : i < Len(s) => s[i + 1] = todo[i + 2] /\ i + 2 \in 1..Len(todo)
  OBVIOUS
<1>2. Len(s) > 0 => s[1] = todo[2] /\ 1 \in 1..Len(todo) /\ 2 \in 1..Len(todo)
  BY <1>1
<1>3. phase # "start"
  BY DEF Fitting
<1> HIDE DEF s
<1>4. Fitting(phase, r, s)
  <2>1. phase \in {"any", "each", "lights"} => \A i \in 1..Len(s) : s[i].op = "supports_percent"
    BY <1>1 DEF Fitting
  <2>2. phase \in {"describe", "get"} => \A i \in 1..Len(s) :
       /\ s[i].op \in {"check_percent", "check_is_on"}
       /\ s[i].op = "check_percent" =>
            /\ i < Len(s) /\ s[i + 1].op = "check_is_on" /\ s[i + 1].dev = s[i].dev
       /\ s[i].op = "check_is_on" /\ i < Len(s) => s[i + 1].op = "check_percent"
    <3> SUFFICES ASSUME phase \in {"describe", "get"}, NEW i \in 1..Len(s)
                 PROVE  /\ s[i].op \in {"check_percent", "check_is_on"}
                        /\ s[i].op = "check_percent" =>
                             /\ i < Len(s) /\ s[i + 1].op = "check_is_on" /\ s[i + 1].dev = s[i].dev
                        /\ s[i].op = "check_is_on" /\ i < Len(s) => s[i + 1].op = "check_percent"
      OBVIOUS
    <3>1. PICK k \in 1..Len(todo) : k = i + 1
      BY <1>1
    <3>2. /\ todo[k].op \in {"check_percent", "check_is_on"}
          /\ todo[k].op = "check_percent" =>
               /\ k < Len(todo) /\ todo[k + 1].op = "check_is_on" /\ todo[k + 1].dev = todo[k].dev
          /\ todo[k].op = "check_is_on" /\ k < Len(todo) => todo[k + 1].op = "check_percent"
      BY DEF Fitting
    <3>3. s[i] = todo[k] /\ (k < Len(todo) <=> i < Len(s)) /\ (i < Len(s) => s[i + 1] = todo[k + 1])
      BY <1>1, <3>1
    <3> QED
      BY <3>2, <3>3
  <2>3. phase = "describe" => \A i \in 1..Len(s) : Below[s[i].dev] \subseteq Dimmable
    BY <1>1 DEF Fitting
  <2>4. phase \in Setting => \A i \in 1..Len(s) :
       /\ s[i].op \in Commands /\ s[i].dev = s[1].dev
       /\ i > 1 => s[i].op = "set_percent"
       /\ i = Len(s) => Closes(r, s[i])
    <3> SUFFICES ASSUME phase \in Setting, NEW i \in 1..Len(s)
                 PROVE  /\ s[i].op \in Commands /\ s[i].dev = s[1].dev
                        /\ i > 1 => s[i].op = "set_percent"
                        /\ i = Len(s) => Closes(r, s[i])
      OBVIOUS
    <3>1. PICK k \in 1..Len(todo) : k = i + 1
      BY <1>1
    <3>2. \A n \in 1..Len(todo) :
            /\ todo[n].op \in Commands /\ todo[n].dev = todo[1].dev
            /\ n > 1 => todo[n].op = "set_percent"
            /\ n = Len(todo) => Closes(r, todo[n])
      BY DEF Fitting
    <3>3. s[i] = todo[k] /\ k > 1 /\ (k = Len(todo) <=> i = Len(s))
      BY <1>1, <3>1
    <3>4. s[1] = todo[2] /\ 2 \in 1..Len(todo)
      BY <1>1, <1>2, <3>1
    <3> QED
      BY <3>2, <3>3, <3>4
  <2> QED
    BY <1>3, <2>1, <2>2, <2>3, <2>4 DEF Fitting
<1>5. Fitting(phase, r, <<>>)
  BY DEF Fitting
<1> QED
  BY <1>4, <1>5 DEF s


\* Each percentage is asked for just before the state of the same device.
LEMMA DescribedFitting ==
  ASSUME NEW ds \in Seq(Devices), NEW r
  PROVE  /\ Fitting("get", r, Described(ds))
         /\ (\A k \in 1..Len(ds) : Below[ds[k]] \subseteq Dimmable) =>
              Fitting("describe", r, Described(ds))
<1> DEFINE s == Described(ds)
<1>1. Len(s) = 2 * Len(ds) /\ Len(ds) \in Nat
  BY DEF Described
<1>2. ASSUME NEW i \in 1..Len(s)
      PROVE  /\ s[i].dev = ds[(i + 1) \div 2] /\ (i + 1) \div 2 \in 1..Len(ds)
             /\ s[i].op = IF i % 2 = 1 THEN "check_percent" ELSE "check_is_on"
  <2>1. i \in 1..(2 * Len(ds))
    BY <1>1
  <2>2. s[i] = Asked(ds[(i + 1) \div 2], IF i % 2 = 1 THEN "check_percent" ELSE "check_is_on")
    BY <2>1 DEF Described
  <2> QED
    BY <1>1, <2>1, <2>2 DEF Asked
<1> HIDE DEF s
<1>3. ASSUME NEW i \in 1..Len(s)
      PROVE  /\ s[i].op \in {"check_percent", "check_is_on"}
             /\ s[i].op = "check_percent" =>
                  /\ i < Len(s) /\ s[i + 1].op = "check_is_on" /\ s[i + 1].dev = s[i].dev
             /\ s[i].op = "check_is_on" /\ i < Len(s) => s[i + 1].op = "check_percent"
  <2>1. CASE i % 2 = 1
    <3>1. i < Len(s) /\ i + 1 \in 1..Len(s) /\ (i + 1) % 2 # 1 /\ (i + 2) \div 2 = (i + 1) \div 2
      BY <1>1, <2>1
    <3>2. s[i + 1].dev = ds[(i + 2) \div 2] /\ s[i + 1].op = "check_is_on"
      BY <1>2, <3>1
    <3> QED
      BY <1>2, <2>1, <3>1, <3>2
  <2>2. CASE i % 2 # 1
    <3>1. i < Len(s) => i + 1 \in 1..Len(s) /\ (i + 1) % 2 = 1
      BY <1>1, <2>2
    <3> QED
      BY <1>2, <2>2, <3>1
  <2> QED
    BY <2>1, <2>2
<1>4. (\A k \in 1..Len(ds) : Below[ds[k]] \subseteq Dimmable) =>
        \A i \in 1..Len(s) : Below[s[i].dev] \subseteq Dimmable
  BY <1>2
<1>5. Fitting("get", r, s) /\ ((\A k \in 1..Len(ds) : Below[ds[k]] \subseteq Dimmable) =>
                                Fitting("describe", r, s))
  BY <1>3, <1>4 DEF Fitting, Setting
<1> QED
  BY <1>5 DEF s

\* What concatenation makes of at most one call and another.
LEMMA OneAndOne ==
  ASSUME NEW a, NEW b
  PROVE  /\ <<>> \o <<b>> = <<b>> /\ <<a>> \o <<>> = <<a>> /\ <<>> \o <<>> = <<>>
         /\ <<a>> \o <<b>> = <<a, b>>
<1>1. PICK S : S = {a, b}
  OBVIOUS
<1>2. <<a>> \in Seq(S) /\ <<b>> \in Seq(S) /\ <<>> \in Seq(S) /\ <<a, b>> \in Seq(S)
  BY <1>1
<1>3. <<>> \o <<b>> = <<b>> /\ <<a>> \o <<>> = <<a>> /\ <<>> \o <<>> = <<>>
  BY <1>2, ConcatEmptySeq
<1>4. \A s1, s2 \in Seq(S) :
        /\ s1 \o s2 \in Seq(S) /\ Len(s1 \o s2) = Len(s1) + Len(s2)
        /\ \A i \in 1..Len(s1) + Len(s2) :
             (s1 \o s2)[i] = IF i <= Len(s1) THEN s1[i] ELSE s2[i - Len(s1)]
  BY ConcatProperties
<1>5. PICK s : s = <<a>> \o <<b>>
  OBVIOUS
<1>6. s \in Seq(S) /\ Len(s) = 2 /\ s[1] = a /\ s[2] = b
  BY <1>2, <1>4, <1>5
<1>7. s = <<a, b>>
  BY <1>6
<1> QED
  BY <1>3, <1>5, <1>7

\* The brightness is the last word.
LEMMA PutFitting ==
  ASSUME NEW d \in Devices, NEW r \in Work_, r.kind # "set"
  PROVE  Fitting("put", r, Put(d, r))
<1>1. PICK a : a = Asked(d, IF r.on = On THEN "turn_on" ELSE "turn_off")
  OBVIOUS
<1>2. PICK b : b = [dev |-> d, op |-> "set_percent", arg |-> hue_brightness_to_percent(r.bri)]
  OBVIOUS
<1>3. /\ a.dev = d /\ a.op \in Commands /\ (r.on = Off => a.op = "turn_off")
      /\ b.dev = d /\ b.op = "set_percent" /\ b.arg = hue_brightness_to_percent(r.bri)
      /\ b.op \in Commands
  BY <1>1, <1>2, AnswersAssumption DEF Asked, Commands
<1>0. /\ <<>> \o <<b>> = <<b>> /\ <<a>> \o <<>> = <<a>> /\ <<>> \o <<>> = <<>>
      /\ <<a>> \o <<b>> = <<a, b>>
  BY OneAndOne
<1>4. \A s : Fitting("put", r, s) <=>
        \A i \in 1..Len(s) : /\ s[i].op \in Commands /\ s[i].dev = s[1].dev
                             /\ i > 1 => s[i].op = "set_percent"
                             /\ i = Len(s) => Closes(r, s[i])
  BY Zenon DEF Fitting, Setting
<1>5. CASE r.on = None /\ r.bri = None
  <2>1. Put(d, r) = <<>>
    BY <1>0, <1>5 DEF Put
  <2> QED
    BY <1>4, <2>1
<1>6. CASE r.on = None /\ r.bri # None
  <2>1. PICK s : s = Put(d, r) /\ s = <<b>>
    BY <1>0, <1>2, <1>6 DEF Put
  <2>2. Len(s) = 1 /\ s[1] = b
    BY <2>1
  <2>3. Closes(r, b)
    BY <1>3, <1>6 DEF Closes
  <2>4. \A i \in 1..Len(s) : /\ s[i].op \in Commands /\ s[i].dev = s[1].dev
                             /\ i > 1 => s[i].op = "set_percent"
                             /\ i = Len(s) => Closes(r, s[i])
    BY <1>3, <2>2, <2>3
  <2>5. Fitting("put", r, s)
    BY <1>4, <2>4, Zenon
  <2> QED
    BY <2>1, <2>5
<1>7. CASE r.on # None /\ r.bri = None
  <2>1. PICK s : s = Put(d, r) /\ s = <<a>>
    BY <1>0, <1>1, <1>7 DEF Put
  <2>2. Len(s) = 1 /\ s[1] = a
    BY <2>1
  <2>3. Closes(r, a)
    BY <1>3, <1>7 DEF Closes
  <2>4. \A i \in 1..Len(s) : /\ s[i].op \in Commands /\ s[i].dev = s[1].dev
                             /\ i > 1 => s[i].op = "set_percent"
                             /\ i = Len(s) => Closes(r, s[i])
    BY <1>3, <2>2, <2>3
  <2>5. Fitting("put", r, s)
    BY <1>4, <2>4, Zenon
  <2> QED
    BY <2>1, <2>5
<1>8. CASE r.on # None /\ r.bri # None
  <2>1. PICK s : s = Put(d, r) /\ s = <<a, b>>
    BY <1>0, <1>1, <1>2, <1>8 DEF Put
  <2>2. Len(s) = 2 /\ s[1] = a /\ s[2] = b
    BY <2>1
  <2>3. Closes(r, b)
    BY <1>3, <1>8 DEF Closes
  <2>4. \A i \in 1..Len(s) : /\ s[i].op \in Commands /\ s[i].dev = s[1].dev
                             /\ i > 1 => s[i].op = "set_percent"
                             /\ i = Len(s) => Closes(r, s[i])
    BY <1>3, <2>2, <2>3
  <2>5. Fitting("put", r, s)
    BY <1>4, <2>4, Zenon
  <2> QED
    BY <2>1, <2>5
<1> QED
  BY <1>5, <1>6, <1>7, <1>8

\* The call of a WeMo command fits.
LEMMA SetFitting ==
  ASSUME NEW r \in Work_, r.kind = "set"
  PROVE  Fitting("set", r, <<SetCall(r)>>)
<1>1. PICK c : c = SetCall(r)
  OBVIOUS
<1>2. c.op \in Commands /\ Closes(r, c)
  BY <1>1, AnswersAssumption DEF SetCall, Asked, Closes, Commands
<1>3. PICK s : s = <<c>>
  OBVIOUS
<1>4. Len(s) = 1 /\ s[1] = c
  BY <1>3
<1>5. Fitting("set", r, s)
  BY <1>2, <1>4 DEF Fitting, Setting
<1> QED
  BY <1>1, <1>3, <1>5

\* Every request starts well formed.
LEMMA PhasesFormed ==
  ASSUME NEW r \in Work_
  PROVE  \A i \in 1..Len(Phases(r)) :
           Phases(r)[i] = "set" <=> Phases(r)[i] \in Setting /\ r.kind = "set"
<1>1. ASSUME r.kind \notin {"state", "own_state", "set"}
      PROVE  \A i \in 1..Len(Phases(r)) : Phases(r)[i] \notin Setting
  <2>1. CASE r.kind = "lights"
    <3>1. PICK p : /\ p = Phases(r)
                   /\ p = <<"lock", "each", "unlock", "lock", "lights", "describe", "unlock">>
      BY <2>1 DEF Phases
    <3>2. Len(p) = 7 /\ p[1] = "lock" /\ p[2] = "each" /\ p[3] = "unlock" /\ p[4] = "lock"
          /\ p[5] = "lights" /\ p[6] = "describe" /\ p[7] = "unlock"
      BY <3>1
    <3> QED
      BY <3>1, <3>2 DEF Setting
  <2>2. CASE r.kind \in {"search_hue", "search_belkin", "search_all"}
    BY <2>2 DEF Phases, Setting
  <2>3. CASE r.kind \in {"light", "own_light", "own_info", "own_events", "get", "add"}
    BY <2>3 DEF Phases, Setting
  <2> QED
    BY <1>1, <2>1, <2>2, <2>3 DEF Work_, Kinds_, SearchKinds, OwnKinds
<1>2. CASE r.kind = "state"
  BY <1>2 DEF Phases, Setting
<1>3. CASE r.kind = "own_state"
  BY <1>3 DEF Phases, Setting
<1>4. CASE r.kind = "set"
  BY <1>4 DEF Phases, Setting
<1> QED
  BY <1>1, <1>2, <1>3, <1>4 DEF Setting


\* The calls that a request makes in a phase fit.
LEMMA CallsFitting ==
  ASSUME list \in Seq(Devices), NEW j \in Jobs, Formed(j), NEW phase \in CallPhases,
         j.phases # <<>>, phase = Head(j.phases),
         phase \in {"get", "set"} => j.req.kind \in OwnKinds
  PROVE  Fitting(phase, j.req, CallsOf(j, phase))
<1>1. /\ j.phases \in Seq(PhaseNames) /\ j.lights \in Seq(Devices) /\ j.req \in Work_
      /\ j.req.at \in Devices \cup {0} /\ (phase \in {"get", "set"} => j.req.at \in Devices)
  BY DEF Jobs, Work_
<1>2. phase = "set" <=> phase \in Setting /\ j.req.kind = "set"
  <2>1. 1 \in 1..Len(j.phases) /\ j.phases[1] = phase
    BY <1>1
  <2> QED
    BY <2>1 DEF Formed
<1>3. CASE phase \in {"any", "each", "lights"}
  <2>1. PICK s : s = CallsOf(j, phase)
    OBVIOUS
  <2>2. \A i \in 1..Len(s) : s[i].op = "supports_percent"
    BY <1>3, <2>1 DEF CallsOf, Asked
  <2> QED
    BY <1>3, <2>1, <2>2 DEF Fitting, Setting
<1>4. CASE phase = "describe"
  <2>1. PICK ds : ds = Chosen(j)
    OBVIOUS
  <2>2. ds \in Seq(Devices) /\ \A k \in 1..Len(ds) : Below[ds[k]] \subseteq Dimmable
    <3>1. CASE j.req.kind = "lights"
      BY <1>1, <2>1, <3>1 DEF Chosen, Formed
    <3>2. CASE j.req.kind # "lights" /\ Id(j.req) \in 1..Len(j.lights)
      <4>1. PICK k : k = Id(j.req)
        OBVIOUS
      <4>2. ds = <<j.lights[k]>> /\ k \in 1..Len(j.lights)
        BY <2>1, <3>2, <4>1 DEF Chosen
      <4> QED
        BY <1>1, <4>2 DEF Formed
    <3>3. CASE j.req.kind # "lights" /\ Id(j.req) \notin 1..Len(j.lights)
      BY <2>1, <3>3 DEF Chosen
    <3> QED
      BY <3>1, <3>2, <3>3
  <2>3. CallsOf(j, phase) = Described(ds)
    BY <1>4, <2>1 DEF CallsOf
  <2> QED
    BY <1>4, <2>2, <2>3, DescribedFitting
<1>5. CASE phase = "put"
  <2>1. j.req.kind # "set"
    BY <1>2, <1>5 DEF Setting
  <2>2. CASE Chosen(j) = <<>>
    <3>1. PICK s : s = CallsOf(j, phase) /\ s = <<>>
      BY <1>5, <2>2 DEF CallsOf
    <3>2. Fitting(phase, j.req, s)
      BY <1>5, <3>1 DEF Fitting, Setting
    <3> QED
      BY <3>1, <3>2
  <2>3. CASE Chosen(j) # <<>>
    <3>1. Chosen(j)[1] \in Devices
      <4>1. CASE j.req.kind = "lights"
        BY <1>1, <2>3, <4>1 DEF Chosen
      <4>2. CASE j.req.kind # "lights"
        <5>1. PICK k : k = Id(j.req)
          OBVIOUS
        <5>2. Chosen(j) = <<j.lights[k]>> /\ k \in 1..Len(j.lights)
          BY <2>3, <4>2, <5>1 DEF Chosen
        <5> QED
          BY <1>1, <5>2
      <4> QED
        BY <4>1, <4>2
    <3>2. CallsOf(j, phase) = Put(Chosen(j)[1], j.req)
      BY <1>5, <2>3 DEF CallsOf
    <3> QED
      BY <1>1, <1>5, <2>1, <3>1, <3>2, PutFitting
  <2> QED
    BY <2>2, <2>3
<1>6. CASE phase = "get"
  <2>0. PICK c \in Devices : c = j.req.at
    BY <1>1, <1>6
  <2>9. <<c>> \in Seq(Devices)
    OBVIOUS
  <2>1. PICK ds : ds = <<c>>
    OBVIOUS
  <2>2. CallsOf(j, phase) = Described(ds)
    BY <1>6, <2>0, <2>1 DEF CallsOf
  <2> QED
    BY <1>6, <2>1, <2>2, <2>9, DescribedFitting
<1>7. CASE phase = "set"
  <2>1. CallsOf(j, phase) = <<SetCall(j.req)>>
    BY <1>7 DEF CallsOf
  <2> QED
    BY <1>1, <1>2, <1>7, <2>1, SetFitting
<1> QED
  BY <1>3, <1>4, <1>5, <1>6, <1>7 DEF CallPhases

\* Nothing that sets a device remains to be done when a thread unwinds.
LEMMA UnwindingSets ==
  ASSUME NEW t
  PROVE  \A i \in 1..Len(Unwinding(t)) : Unwinding(t)[i] \notin Setting
<1>1. PICK a, b : a = "unlock" /\ b = "dead"
  OBVIOUS
<1>2. PICK p : p = Unwinding(t)
  OBVIOUS
<1>3. p \in {<<>>, <<a>>, <<b>>, <<a, b>>}
  BY <1>1, <1>2, OneAndOne DEF Unwinding
<1> QED
  BY <1>1, <1>2, <1>3 DEF Setting


\* What is asked of devices, as the handlers and the devices know it.
FInv == TInv /\ EInv /\ \A t \in Threads : job[t] # None => Formed(job[t])

\* The call that a thread makes is that of the outermost device it holds.
Root(t) == ask[t].dev

\* It is held by the thread, and everything else the thread holds is held under it.
LEMMA RootHeld ==
  TInv => \A t \in Threads : top[t] # 0 =>
            /\ job[t] # None /\ job[t].todo # <<>> /\ ask[t] = Head(job[t].todo)
            /\ Root(t) \in Devices /\ holder[Root(t)] = t /\ caller[Root(t)] = 0
            /\ CallOf(Root(t)) = ask[t]
            /\ \A x \in Devices : holder[x] = t => Under(Root(t), x)
<1> SUFFICES ASSUME TInv, NEW t \in Threads, top[t] # 0
             PROVE  /\ job[t] # None /\ job[t].todo # <<>> /\ ask[t] = Head(job[t].todo)
                    /\ Root(t) \in Devices /\ holder[Root(t)] = t /\ caller[Root(t)] = 0
                    /\ CallOf(Root(t)) = ask[t]
                    /\ \A x \in Devices : holder[x] = t => Under(Root(t), x)
  OBVIOUS
<1>1. Typed /\ LockOrder /\ Matching /\ N \in Nat /\ t # None
  BY BoundsAssumption, NoneAssumption DEF TInv, SInv, IInv, CInv
<1>2. ask[t] # None /\ top[t] \in Devices /\ holder[top[t]] = t
  BY <1>1 DEF LockOrder, Typed, Devices
<1>3. job[t] # None /\ job[t].todo # <<>> /\ ask[t] = Head(job[t].todo)
  BY <1>2 DEF TInv, SInv, JobsFit, Fits, LInv, Heeds
<1> DEFINE T == {N - d : d \in {e \in Devices : holder[e] = t}}
<1>4. PICK m \in T : \A y \in T : m <= y
  <2>1. T \subseteq Nat /\ T # {}
    BY <1>1, <1>2 DEF Devices
  <2> HIDE DEF T
  <2> QED
    BY <2>1, LeastMember
<1>5. PICK D \in Devices : holder[D] = t /\ m = N - D
  OBVIOUS
<1>6. \A x \in Devices : holder[x] = t => x <= D
  <2> SUFFICES ASSUME NEW x \in Devices, holder[x] = t PROVE x <= D
    OBVIOUS
  <2>1. N - x \in T
    OBVIOUS
  <2>2. N - D <= N - x
    BY <1>4, <1>5, <2>1
  <2> QED
    BY <1>1, <2>2 DEF Devices
<1>7. caller[D] = 0
  <2>1. caller[D] # 0 => caller[D] > D /\ holder[caller[D]] = holder[D]
    BY <1>1, <1>5 DEF LockOrder
  <2>2. caller[D] \in 0..N
    BY <1>1 DEF Typed
  <2> QED
    BY <1>1, <1>5, <1>6, <2>1, <2>2 DEF Devices
<1>8. CallOf(D) = ask[t]
  BY <1>1, <1>5, <1>7 DEF Matching
<1>9. D = Root(t)
  BY <1>8 DEF CallOf, Root
<1> QED
  BY <1>1, <1>3, <1>5, <1>6, <1>7, <1>8, <1>9 DEF Under


\* t goes on between two phases, or gives up what it still had to do.
Moves(t) ==
  /\ job[t] # None /\ ask[t] = None /\ job[t].todo = <<>> /\ UNCHANGED vars
  /\ \/ job'[t] = None
     \/ job[t].phases # <<>> /\ job'[t] = [job[t] EXCEPT !.phases = Tail(@)]
     \/ job'[t] = [job[t] EXCEPT !.phases = Unwinding(t)]

\* What a step means for the request that thread t serves.
LEMMA StepOfThread ==
  ASSUME SInv, [SNext]_svars, NEW t \in Threads
  PROVE  \/ Receive(t) \/ Moves(t) \/ EnterPhase(t)
         \/ \E d \in Devices : Answer(d) /\ holder[d] = t
         \/ job'[t] = job[t] /\ (top[t] # 0 => top'[t] # 0)
<1> DEFINE Same == job'[t] = job[t] /\ (top[t] # 0 => top'[t] # 0)
           Goal == \/ Receive(t) \/ Moves(t) \/ EnterPhase(t)
                   \/ \E d \in Devices : Answer(d) /\ holder[d] = t
                   \/ Same
<1>1. job \in [Threads -> Jobs \cup {None}] /\ top \in [Threads -> 0..N]
  BY DEF SInv, JobsFit, IInv, Typed
<1>2. CASE UNCHANGED svars
  BY <1>2 DEF svars, vars
<1>3. ASSUME NEW u \in Threads, Receive(u) PROVE Goal
  BY <1>1, <1>3 DEF Receive, Set, vars
<1>4. ASSUME NEW u \in Threads, TakeReadLock(u) \/ LeaveReadLock(u) \/ SendAnswers(u) \/ Respond(u)
      PROVE  Goal
  <2>1. UNCHANGED vars
    BY <1>4 DEF TakeReadLock, LeaveReadLock, SendAnswers, Respond
  <2>2. CASE u # t
    <3>1. job'[t] = job[t]
      BY <1>1, <1>4, <2>2 DEF TakeReadLock, LeaveReadLock, SendAnswers, Respond, Set, Pass
    <3> QED
      BY <2>1, <3>1 DEF vars
  <2>3. CASE u = t
    <3>1. job[t] # None /\ ask[t] = None /\ job[t].todo = <<>>
      BY <1>4, <2>3 DEF TakeReadLock, LeaveReadLock, SendAnswers, Respond, Before
    <3>2. \/ job'[t] = None
          \/ job[t].phases # <<>> /\ job'[t] = [job[t] EXCEPT !.phases = Tail(@)]
          \/ job'[t] = [job[t] EXCEPT !.phases = Unwinding(t)]
      BY <1>1, <1>4, <2>3 DEF TakeReadLock, LeaveReadLock, SendAnswers, Respond, Before, Set, Pass
    <3> QED
      BY <2>1, <3>1, <3>2 DEF Moves
  <2> QED
    BY <2>2, <2>3
<1>5. ASSUME NEW u \in Threads, AnnounceWrite(u) PROVE Goal
  BY <1>5 DEF AnnounceWrite, vars
<1>6. ASSUME NEW u \in Threads, AddDevice(u) PROVE Goal
  <2>1. UNCHANGED vars /\ Before(u, "write")
    BY <1>6 DEF AddDevice, SInv, JobsFit, Fits
  <2>2. CASE u # t
    <3>1. job'[t] = job[t]
      BY <1>1, <1>6, <2>2 DEF AddDevice, Set, Pass
    <3> QED
      BY <2>1, <3>1 DEF vars
  <2>3. CASE u = t
    BY <1>1, <1>6, <2>1, <2>3 DEF AddDevice, Set, Pass, Before, Moves
  <2> QED
    BY <2>2, <2>3
<1>7. ASSUME NEW u \in Threads, EnterPhase(u) PROVE Goal
  BY <1>1, <1>7 DEF EnterPhase, Set, vars
<1>8. ASSUME NEW u \in Threads, AskDevice(u) PROVE Goal
  BY <1>8 DEF AskDevice
<1>9. ASSUME NEW u \in Threads, Acquires(u) PROVE Goal
  <2>1. Pending(u).dev \in Devices /\ top' = [top EXCEPT ![u] = Pending(u).dev] /\ job' = job
    BY <1>9, PendingBelow DEF Acquires, Acquire, Calls, SInv
  <2>2. Pending(u).dev # 0
    BY <2>1 DEF Devices
  <2> QED
    BY <1>1, <2>1, <2>2
<1>10. ASSUME NEW d \in Devices, DriverRuns(d) \/ Hardware(d) PROVE Goal
  BY <1>10 DEF DriverRuns, DriverStep, DriverCommand, DriverQuery, PollCheck, Hardware, Settle,
               vars, locks
<1>11. ASSUME NEW d \in Devices, LocalRuns(d) PROVE Goal
  <2>1. CASE BelievedCheck(d) \/ StoreBelief(d) \/ GroupPhase(d)
    BY <1>11, <2>1 DEF LocalRuns, BelievedCheck, StoreBelief, GroupPhase, locks
  <2>2. CASE caller[d] # 0 /\ Return(d)
    BY <1>1, <1>11, <2>2 DEF LocalRuns, Return
  <2> QED
    BY <1>11, <2>1, <2>2 DEF LocalRuns
<1>12. ASSUME NEW d \in Devices, Answer(d) PROVE Goal
  <2>1. CASE holder[d] # t
    BY <1>1, <1>12, <2>1 DEF Answer, Return, Set
  <2> QED
    BY <1>12, <2>1
<1> QED
  <2>1. CASE SNext
    BY <1>3, <1>4, <1>5, <1>6, <1>7, <1>8, <1>9, <1>10, <1>11, <1>12, <2>1 DEF SNext, Handler
  <2> QED
    BY <1>2, <2>1


\* The thread of an answer made the call that is answered.
LEMMA AnsweredCall ==
  ASSUME TInv, NEW d \in Devices, Answer(d)
  PROVE  /\ holder[d] \in Threads /\ top[holder[d]] = d /\ Root(holder[d]) = d
         /\ act[d].pc = "return" /\ act[d] \in Activations
         /\ CallOf(d) = Head(job[holder[d]].todo)
         /\ job[holder[d]] \in Jobs /\ job[holder[d]].todo # <<>> /\ job[holder[d]] # None
         /\ job'[holder[d]] = Heard(holder[d], d, act[d].val)
         /\ \A e \in Devices : e # d => act'[e] = act[e]
         /\ UNCHANGED <<believed, level, goal>>
<1>1. IInv /\ Return(d) /\ caller[d] = 0
  BY DEF Answer, TInv, SInv
<1>2. /\ act[d].pc = "return" /\ holder[d] # None /\ top[holder[d]] = d
      /\ \A e \in Devices : e # d => act'[e] = act[e]
      /\ UNCHANGED <<believed, level, goal>>
  BY <1>1, ReturnTo DEF Devices
<1>3. holder[d] \in Threads /\ act[d] \in Activations
  BY <1>1, <1>2 DEF IInv, Typed
<1>4. top[holder[d]] # 0
  BY <1>2 DEF Devices
<1>5. /\ job[holder[d]] # None /\ job[holder[d]].todo # <<>>
      /\ ask[holder[d]] = Head(job[holder[d]].todo)
  BY <1>3, <1>4, RootHeld
<1>6. CallOf(d) = ask[holder[d]]
  BY <1>1, <1>2 DEF TInv, CInv, Matching
<1>7. job \in [Threads -> Jobs \cup {None}]
  BY DEF TInv, SInv, JobsFit
<1>8. job'[holder[d]] = Heard(holder[d], d, act[d].val)
  BY <1>3, <1>7 DEF Answer, Set
<1> QED
  BY <1>2, <1>3, <1>5, <1>6, <1>7, <1>8 DEF CallOf, Root

\* What a handler makes of an answer leaves its request well formed.
LEMMA HeardFormed ==
  ASSUME FInv, NEW d \in Devices, Answer(d)
  PROVE  Formed(job'[holder[d]])
<1>1. PICK j : j = job[holder[d]]
  OBVIOUS
<1>2. PICK k : k = job'[holder[d]]
  OBVIOUS
<1>3. /\ holder[d] \in Threads /\ act[d].pc = "return" /\ act[d] \in Activations
      /\ CallOf(d) = Head(j.todo) /\ j \in Jobs /\ j.todo # <<>> /\ j # None
      /\ k = Heard(holder[d], d, act[d].val)
  BY <1>1, <1>2, AnsweredCall DEF FInv
<1>4. Formed(j) /\ EInvAt(d)
  BY <1>1, <1>3 DEF FInv, EInv
<1>5. /\ j.todo \in Seq(HandlerCalls) /\ j.phases \in Seq(PhaseNames) /\ j.lights \in Seq(Devices)
  BY <1>3 DEF Jobs
<1>6. k.req = j.req /\ k.phase = j.phase /\ k.todo \in {Tail(j.todo), <<>>}
  BY <1>1, <1>3 DEF Heard, Jobs
<1>7. k.phases = j.phases \/ k.phases = Unwinding(holder[d])
  BY <1>1, <1>3 DEF Heard, Jobs
<1>8. k.lights = j.lights \/ (k.lights = Append(j.lights, d) /\ Below[d] \subseteq Dimmable)
  <2>1. \/ k.lights = j.lights
        \/ k.lights = Append(j.lights, d) /\ j.phase = "lights" /\ act[d].val = Yes
    BY <1>1, <1>3 DEF Heard, Jobs
  <2>2. j.phase = "lights" => act[d].op = "supports_percent"
    <3>1. 1 \in 1..Len(j.todo) /\ Head(j.todo) = j.todo[1]
      BY <1>3, <1>5
    <3>2. act[d].op = Head(j.todo).op
      BY <1>3 DEF CallOf
    <3> QED
      BY <1>4, <3>1, <3>2 DEF Formed, Fitting
  <2> QED
    BY <1>3, <1>4, <2>1, <2>2 DEF EInvAt, Sound
<1>9. Fitting(k.phase, k.req, k.todo)
  BY <1>3, <1>4, <1>5, <1>6, TailFitting DEF Formed
<1>10. \A i \in 1..Len(k.phases) :
         k.phases[i] = "set" <=> k.phases[i] \in Setting /\ k.req.kind = "set"
  <2>1. CASE k.phases = j.phases
    BY <1>4, <1>6, <2>1 DEF Formed
  <2>2. CASE k.phases = Unwinding(holder[d])
    BY <2>2, UnwindingSets DEF Setting
  <2> QED
    BY <1>7, <2>1, <2>2
<1>11. \A i \in 1..Len(k.lights) : Below[k.lights[i]] \subseteq Dimmable
  <2> SUFFICES ASSUME NEW i \in 1..Len(k.lights)
               PROVE  Below[k.lights[i]] \subseteq Dimmable
    OBVIOUS
  <2>1. \A m \in 1..Len(j.lights) : Below[j.lights[m]] \subseteq Dimmable
    BY <1>4 DEF Formed
  <2>2. CASE k.lights = j.lights
    BY <2>1, <2>2
  <2>3. CASE k.lights = Append(j.lights, d) /\ Below[d] \subseteq Dimmable
    <3>1. j.lights \in Seq(Devices)
      BY <1>5 DEF Jobs
    <3>2. i = Len(j.lights) + 1 \/ i \in 1..Len(j.lights)
      BY <2>3, <3>1
    <3>3. /\ i = Len(j.lights) + 1 => k.lights[i] = d
          /\ i \in 1..Len(j.lights) => k.lights[i] = j.lights[i]
      BY <2>3, <3>1
    <3> QED
      BY <2>1, <2>3, <3>2, <3>3
  <2> QED
    BY <1>8, <2>2, <2>3
<1> QED
  BY <1>2, <1>9, <1>10, <1>11 DEF Formed

\* Requests stay well formed.
LEMMA NextFormed ==
  ASSUME FInv, [SNext]_svars, NEW t \in Threads, job'[t] # None
  PROVE  Formed(job'[t])
<1>1. SInv /\ job \in [Threads -> Jobs \cup {None}] /\ (job[t] # None => Formed(job[t]))
  BY DEF FInv, TInv, SInv, JobsFit
<1>2. PICK j : j = job[t]
  OBVIOUS
<1>3. PICK k : k = job'[t]
  OBVIOUS
<1>4. CASE Receive(t)
  <2>1. PICK r \in Work[t] : k = [req |-> r, phase |-> "start", phases |-> Phases(r), todo |-> <<>>,
                                  lights |-> <<>>, said |-> None]
    BY <1>1, <1>3, <1>4 DEF Receive, Set
  <2>2. r \in Work_
    BY <2>1, WorkAssumption
  <2>3. k.req = r /\ k.phase = "start" /\ k.phases = Phases(r) /\ k.todo = <<>> /\ k.lights = <<>>
    BY <2>1
  <2>4. Fitting("start", r, <<>>)
    BY DEF Fitting, Setting
  <2> QED
    BY <1>3, <2>2, <2>3, <2>4, PhasesFormed DEF Formed
<1>5. CASE Moves(t)
  <2>1. j \in Jobs /\ Formed(j)
    BY <1>1, <1>2, <1>5 DEF Moves
  <2>2. \/ j.phases # <<>> /\ k = [j EXCEPT !.phases = Tail(@)]
        \/ k = [j EXCEPT !.phases = Unwinding(t)]
    BY <1>2, <1>3, <1>5 DEF Moves
  <2>3. k.req = j.req /\ k.phase = j.phase /\ k.todo = j.todo /\ k.lights = j.lights
        /\ (k.phases = Unwinding(t) \/ (j.phases # <<>> /\ k.phases = Tail(j.phases)))
    BY <2>1, <2>2 DEF Jobs
  <2>4. \A i \in 1..Len(k.phases) :
          k.phases[i] = "set" <=> k.phases[i] \in Setting /\ k.req.kind = "set"
    <3>1. CASE k.phases = Unwinding(t)
      BY <3>1, UnwindingSets DEF Setting
    <3>2. CASE j.phases # <<>> /\ k.phases = Tail(j.phases)
      <4>1. j.phases \in Seq(PhaseNames)
        BY <2>1 DEF Jobs
      <4>2. \A i \in 1..Len(k.phases) : i + 1 \in 1..Len(j.phases) /\ k.phases[i] = j.phases[i + 1]
        BY <3>2, <4>1
      <4> QED
        BY <2>1, <2>3, <4>2 DEF Formed
    <3> QED
      BY <2>3, <3>1, <3>2
  <2> QED
    BY <1>3, <2>1, <2>3, <2>4 DEF Formed
<1>6. CASE EnterPhase(t)
  <2>1. PICK phase \in CallPhases :
          Before(t, phase) /\ Set(t, [job[t] EXCEPT !.phase = phase, !.phases = AfterPhases(job[t]),
                                                    !.todo = CallsOf(job[t], phase)])
    BY <1>6 DEF EnterPhase
  <2>2. j \in Jobs /\ Formed(j) /\ j.phases # <<>> /\ phase = Head(j.phases) /\ j # None
    BY <1>1, <1>2, <2>1 DEF Before
  <2>3. k = [j EXCEPT !.phase = phase, !.phases = Tail(j.phases), !.todo = CallsOf(j, phase)]
    BY <1>1, <1>2, <1>3, <2>1 DEF Set, AfterPhases
  <2>4. k.req = j.req /\ k.phase = phase /\ k.todo = CallsOf(j, phase) /\ k.lights = j.lights
        /\ k.phases = Tail(j.phases)
    BY <2>2, <2>3 DEF Jobs
  <2>5. list \in Seq(Devices) /\ (phase \in {"get", "set"} => j.req.kind \in OwnKinds)
    BY <1>1, <1>2, <2>2, NextPhase DEF SInv, JobsFit
  <2>6. Fitting(k.phase, k.req, k.todo)
    BY <2>2, <2>4, <2>5, CallsFitting
  <2>7. \A i \in 1..Len(k.phases) :
          k.phases[i] = "set" <=> k.phases[i] \in Setting /\ k.req.kind = "set"
    <3>1. j.phases \in Seq(PhaseNames)
      BY <2>2 DEF Jobs
    <3>2. \A i \in 1..Len(k.phases) : i + 1 \in 1..Len(j.phases) /\ k.phases[i] = j.phases[i + 1]
      BY <2>2, <2>4, <3>1
    <3> QED
      BY <2>2, <2>4, <3>2 DEF Formed
  <2> QED
    BY <1>3, <2>2, <2>4, <2>6, <2>7 DEF Formed
<1>7. CASE \E d \in Devices : Answer(d) /\ holder[d] = t
  BY <1>7, HeardFormed
<1>8. CASE job'[t] = job[t]
  BY <1>1, <1>8
<1> QED
  BY <1>1, <1>4, <1>5, <1>6, <1>7, <1>8, StepOfThread


-----------------------------------------------------------------------------
(* What a phase may rely on while nobody meddles.                          *)

Telling == {"describe", "get"}

\* The device of the next call is at rest, or its call goes as it should; in a
\* phase that describes devices all of them are at rest, and the percentage
\* heard is that of the device that is asked for its state next.
Prepared(t) ==
  LET j == job[t]
      c == Head(j.todo) IN
  (calm[t] /\ j # None /\ j.phase \in Telling \cup Setting /\ j.todo # <<>>) =>
    /\ top[t] = 0 /\ Trusty(c.dev) => Ready(c.dev, c.op)
    /\ top[t] # 0 => Goes(c.dev)
    /\ j.phase \in Telling =>
         /\ \A b \in ToSet(j.todo) : Trusty(b.dev) => Ready(b.dev, b.op)
         /\ c.op = "check_is_on" /\ Trusty(c.dev) => Bright(j.said, Below[c.dev])

\* Trustworthy hardware that nobody commands stays ready.
LEMMA ReadyStep ==
  ASSUME IInv, AInv, [Next]_vars, NEW g \in Devices, Trusty(g), NEW op, Ready(g, op),
         \A d \in Below[g] : ~CommandStep(d) /\ goal'[d] = goal[d]
  PROVE  Ready(g, op)'
<1> SUFFICES ASSUME NEW d \in Below[g]
             PROVE  (Belief(d)' => goal'[d] > 0) /\ (op # "set_percent" => level'[d] = goal'[d])
  BY DEF Ready
<1>1. d \in Devices /\ Kind[d] # "group" /\ d \notin Faulty \cup Panicky
  BY BelowDrivers DEF Trusty
<1>2. /\ goal'[d] = goal[d] /\ (level'[d] = level[d] \/ level'[d] = goal[d])
      /\ (Belief(d)' => Belief(d))
  BY <1>1, DriverMoves
<1>3. (Belief(d) => goal[d] > 0) /\ (op # "set_percent" => level[d] = goal[d])
  BY DEF Ready
<1> QED
  BY <1>2, <1>3

\* A thread commands nothing unless it has made a call to do so.
LEMMA OwnCommands ==
  ASSUME TInv, NEW t \in Threads, NEW x \in Devices, CommandStep(x), holder[x] = t
  PROVE  top[t] # 0 /\ Head(job[t].todo).op \in Commands
<1>1. IInv /\ CInv /\ act[x].pc = "drive" /\ act[x].op \in Commands
  BY DEF CommandStep, Leaf, TInv, SInv
<1>2. top[t] # 0
  BY <1>1, NoneAssumption DEF IInv, LockOrder
<1>3. /\ Under(Root(t), x) /\ Root(t) \in Devices /\ CallOf(Root(t)) = Head(job[t].todo)
  BY <1>2, RootHeld
<1>4. Serves(act[x], act[Root(t)])
  BY <1>1, <1>3, UnderServes
<1>5. act[Root(t)].op \in Commands
  BY <1>1, <1>4 DEF Serves, SameCommand, Commands
<1> QED
  BY <1>2, <1>3, <1>5 DEF CallOf

\* In a calm phase the hardware of a device that is still to be called moves
\* only on behalf of the thread.
LEMMA CalmStep ==
  ASSUME Calm, NEW t \in Threads, calm'[t], job[t] # None, job[t].todo # <<>>,
         NEW c \in ToSet(job[t].todo)
  PROVE  calm[t] /\ \A d \in Below[c.dev] : ~MovedByOther(d, t)
BY DEF Calm, Meddled

\* The inductive invariant of the requests.
HInv == FInv /\ AInv /\ \A t \in Threads : Prepared(t)

\* t's phase stays calm in a step.
StaysCalm(t) ==
  calm[t] /\ \A c \in ToSet(job[t].todo) : \A d \in Below[c.dev] : ~MovedByOther(d, t)

\* The outermost device is the one called in the next state too.
LEMMA RootHeldNext ==
  TInv' => (\A t \in Threads : top[t] # 0 =>
            /\ job[t] # None /\ job[t].todo # <<>> /\ ask[t] = Head(job[t].todo)
            /\ Root(t) \in Devices /\ holder[Root(t)] = t /\ caller[Root(t)] = 0
            /\ CallOf(Root(t)) = ask[t]
            /\ \A x \in Devices : holder[x] = t => Under(Root(t), x))'
BY RootHeld, PTL

\* A thread that goes on with its call, or waits, stays prepared.
LEMMA StayPrepared ==
  ASSUME HInv, TInv', [SNext]_svars, NEW t \in Threads, job'[t] = job[t],
         top[t] # 0 => top'[t] # 0, calm'[t] /\ job[t] # None /\ job[t].todo # <<>> => StaysCalm(t)
  PROVE  Prepared(t)'
<1> SUFFICES ASSUME calm'[t], job[t] # None, job[t].phase \in Telling \cup Setting,
                    job[t].todo # <<>>
             PROVE  LET c == Head(job[t].todo) IN
                    /\ top'[t] = 0 /\ Trusty(c.dev) => Ready(c.dev, c.op)'
                    /\ top'[t] # 0 => Goes(c.dev)'
                    /\ job[t].phase \in Telling =>
                         /\ \A b \in ToSet(job[t].todo) : Trusty(b.dev) => Ready(b.dev, b.op)'
                         /\ c.op = "check_is_on" /\ Trusty(c.dev) =>
                              Bright(job[t].said, Below[c.dev])'
  BY Zenon DEF Prepared, Trusty
<1>1. /\ TInv /\ EInv /\ AInv /\ IInv /\ CInv /\ Formed(job[t]) /\ Prepared(t) /\ [Next]_vars
      /\ StaysCalm(t) /\ calm[t]
  BY StepOfDevices DEF HInv, FInv, TInv, SInv, StaysCalm
<1>2. PICK c : c = Head(job[t].todo)
  OBVIOUS
<1>3. /\ job[t].todo \in Seq(HandlerCalls) /\ c \in ToSet(job[t].todo)
      /\ \A b \in ToSet(job[t].todo) : b \in HandlerCalls
  <2>1. job[t] \in Jobs
    BY <1>1 DEF TInv, SInv, JobsFit
  <2>2. job[t].todo \in Seq(HandlerCalls)
    BY <2>1 DEF Jobs
  <2>3. 1 \in 1..Len(job[t].todo) /\ c = job[t].todo[1]
    BY <1>2, <2>2
  <2> QED
    BY <2>2, <2>3 DEF ToSet
<1>4. \A b \in ToSet(job[t].todo) : b.dev \in Devices
  BY <1>3 DEF HandlerCalls, Asked
<1>5. \A b \in ToSet(job[t].todo) : \A d \in Below[b.dev] : ~MovedByOther(d, t)
  BY <1>1 DEF StaysCalm
<1>6. ASSUME c.op \notin Commands \/ top[t] = 0, NEW b \in ToSet(job[t].todo),
             NEW d \in Below[b.dev]
      PROVE  ~CommandStep(d) /\ goal'[d] = goal[d]
  <2>1. d \in Devices /\ ~MovedByOther(d, t)
    BY <1>4, <1>5, BelowDrivers
  <2>2. ~CommandStep(d)
    BY <1>1, <1>2, <1>6, <2>1, OwnCommands DEF MovedByOther
  <2> QED
    BY <2>1, <2>2 DEF MovedByOther
<1>7. ASSUME c.op \notin Commands \/ top[t] = 0, NEW b \in ToSet(job[t].todo), Trusty(b.dev),
             NEW op, Ready(b.dev, op)
      PROVE  Ready(b.dev, op)'
  BY <1>1, <1>4, <1>6, <1>7, ReadyStep
<1>8. ASSUME top'[t] = 0, Trusty(c.dev) PROVE Ready(c.dev, c.op)'
  BY <1>1, <1>2, <1>3, <1>7, <1>8 DEF Prepared
<1>9. ASSUME top'[t] # 0 PROVE Goes(c.dev)'
  <2>1. /\ ask'[t] = c /\ Root(t)' = c.dev /\ holder'[c.dev] = t /\ CallOf(c.dev)' = c
    <3>1. ask'[t] = c /\ holder'[Root(t)'] = t /\ CallOf(Root(t))' = ask'[t]
      BY <1>2, <1>9, RootHeldNext
    <3>2. Root(t)' = c.dev
      BY <3>1 DEF Root
    <3> QED
      BY <3>1, <3>2 DEF CallOf
  <2>2. c.dev \in Devices /\ act'[c.dev].op = c.op /\ t # None
    BY <1>3, <1>4, <2>1, NoneAssumption DEF CallOf
  <2>3. CASE holder[c.dev] = None
    <3>1. top[t] = 0
      <4>1. top[t] # 0 => holder[c.dev] = t
        BY <1>1, <1>2, RootHeld DEF Root
      <4> QED
        BY <2>2, <2>3, <4>1
    <3>2. Trusty(c.dev) => Ready(c.dev, c.op)
      BY <1>1, <1>2, <3>1 DEF Prepared
    <3>3. CASE Trusty(c.dev)
      BY <1>1, <2>1, <2>2, <2>3, <3>2, <3>3, GoesStart
    <3>4. CASE ~Trusty(c.dev)
      BY <3>4 DEF Goes, Trusty
    <3> QED
      BY <3>3, <3>4
  <2>4. CASE holder[c.dev] # None
    <3>1. holder[c.dev] = t
      BY <1>1, <2>1, <2>2, <2>4, HeldCall
    <3>2. top[t] # 0
      BY <1>1, <2>2, <3>1 DEF IInv, LockOrder
    <3>3. Goes(c.dev)
      BY <1>1, <1>2, <3>2 DEF Prepared
    <3>4. \A d \in Below[c.dev] : ~MovedByOther(d, holder[c.dev])
      BY <1>3, <1>5, <3>1
    <3> QED
      BY <1>1, <2>1, <2>2, <2>4, <3>3, <3>4, GoesStep
  <2> QED
    BY <2>3, <2>4
<1>10. ASSUME job[t].phase \in Telling PROVE c.op \notin Commands
  <2>1. 1 \in 1..Len(job[t].todo) /\ c = job[t].todo[1]
    BY <1>2, <1>3
  <2>2. c.op \in {"check_percent", "check_is_on"}
    BY <1>1, <1>10, <2>1 DEF Formed, Fitting, Telling
  <2> QED
    BY <2>2 DEF Commands
<1>11. ASSUME job[t].phase \in Telling, NEW b \in ToSet(job[t].todo), Trusty(b.dev)
       PROVE  Ready(b.dev, b.op)'
  BY <1>1, <1>7, <1>10, <1>11 DEF Prepared
<1>12. ASSUME job[t].phase \in Telling, c.op = "check_is_on", Trusty(c.dev)
       PROVE  Bright(job[t].said, Below[c.dev])'
  <2>1. Bright(job[t].said, Below[c.dev])
    BY <1>1, <1>2, <1>12 DEF Prepared
  <2>2. \A d \in Below[c.dev] : goal'[d] = goal[d]
    BY <1>3, <1>6, <1>10, <1>12
  <2> QED
    BY <2>1, <2>2 DEF Bright
<1> QED
  BY <1>2, <1>8, <1>9, <1>11, <1>12


\* A described light is asked for its percentage first.
LEMMA PercentFirst ==
  ASSUME NEW ds \in Seq(Devices), Described(ds) # <<>>
  PROVE  Head(Described(ds)).op = "check_percent"
<1>1. PICK s : s = Described(ds)
  OBVIOUS
<1>2. Len(s) = 2 * Len(ds) /\ Len(ds) \in Nat /\ (Len(s) = 0 => s = <<>>)
  BY <1>1 DEF Described
<1>3. 1 \in 1..(2 * Len(ds))
  BY <1>1, <1>2
<1>4. s[1] = Asked(ds[(1 + 1) \div 2], IF 1 % 2 = 1 THEN "check_percent" ELSE "check_is_on")
  BY <1>1, <1>3 DEF Described
<1>5. Head(s) = s[1]
  BY <1>1, <1>2 DEF Described
<1> QED
  BY <1>1, <1>4, <1>5 DEF Asked

\* A phase that starts calm finds every device at rest.
LEMMA EnterPrepared ==
  ASSUME HInv, NEW t \in Threads, EnterPhase(t), Calm
  PROVE  Prepared(t)'
<1>1. job \in [Threads -> Jobs \cup {None}] /\ list \in Seq(Devices)
  BY DEF HInv, FInv, TInv, SInv, JobsFit
<1>2. PICK j : j = job[t]
  OBVIOUS
<1>3. PICK k : k = job'[t]
  OBVIOUS
<1>4. PICK phase \in CallPhases :
        Before(t, phase) /\ Set(t, [job[t] EXCEPT !.phase = phase, !.phases = AfterPhases(job[t]),
                                                  !.todo = CallsOf(job[t], phase)])
  BY DEF EnterPhase
<1>5. j \in Jobs /\ j # None /\ j.todo = <<>> /\ ask[t] = None /\ UNCHANGED vars
  BY <1>1, <1>2, <1>4 DEF Before, EnterPhase
<1>6. k = [j EXCEPT !.phase = phase, !.phases = Tail(j.phases), !.todo = CallsOf(j, phase)]
  BY <1>1, <1>2, <1>3, <1>4 DEF Set, AfterPhases
<1>7. k.phase = phase /\ k.todo = CallsOf(j, phase)
  BY <1>5, <1>6 DEF Jobs
<1>8. top'[t] = 0
  BY <1>5, NoneAssumption DEF vars, HInv, FInv, TInv, SInv, IInv, LockOrder
<1>9. ASSUME calm'[t], k # None, NEW b \in ToSet(k.todo)
      PROVE  Ready(b.dev, b.op)'
  <2>1. \A e \in Below[b.dev] : Honest(e)
    BY <1>2, <1>3, <1>5, <1>9 DEF Calm
  <2> QED
    BY <1>5, <2>1 DEF vars, Honest, Ready, Belief, NewBelief
<1>10. ASSUME phase \in Telling, k.todo # <<>> PROVE Head(k.todo).op = "check_percent"
  <2>1. CASE phase = "describe"
    <3>1. k.todo = Described(Chosen(j))
      BY <1>7, <2>1 DEF CallsOf
    <3>2. Chosen(j) \in Seq(Devices)
      <4>1. j.lights \in Seq(Devices)
        BY <1>5 DEF Jobs
      <4>2. CASE j.req.kind = "lights"
        BY <4>1, <4>2 DEF Chosen
      <4>3. CASE j.req.kind # "lights" /\ Id(j.req) \in 1..Len(j.lights)
        <5>1. PICK d \in Devices : d = j.lights[Id(j.req)]
          BY <4>1, <4>3
        <5>2. <<d>> \in Seq(Devices)
          OBVIOUS
        <5> QED
          BY <4>3, <5>1, <5>2 DEF Chosen
      <4>4. CASE j.req.kind # "lights" /\ Id(j.req) \notin 1..Len(j.lights)
        BY <4>4 DEF Chosen
      <4> QED
        BY <4>2, <4>3, <4>4
    <3> QED
      BY <1>10, <3>1, <3>2, PercentFirst
  <2>2. CASE phase = "get"
    <3>1. j.req.at \in Devices
      <4>1. j.req.kind \in OwnKinds
        BY <1>2, <1>4, <2>2, <1>5, NextPhase DEF Before, HInv, FInv, TInv, SInv
      <4> QED
        BY <1>5, <4>1 DEF Jobs, Work_
    <3>2. PICK d \in Devices : d = j.req.at
      BY <3>1
    <3>3. <<d>> \in Seq(Devices) /\ k.todo = Described(<<d>>)
      BY <1>7, <2>2, <3>2 DEF CallsOf
    <3> QED
      BY <1>10, <3>3, PercentFirst
  <2> QED
    BY <1>10, <2>1, <2>2 DEF Telling
<1>11. ASSUME calm'[t], k # None, k.phase \in Telling \cup Setting, k.todo # <<>>
       PROVE  LET c == Head(k.todo) IN
                /\ top'[t] = 0 /\ Trusty(c.dev) => Ready(c.dev, c.op)'
                /\ top'[t] # 0 => Goes(c.dev)'
                /\ k.phase \in Telling =>
                     /\ \A b \in ToSet(k.todo) : Trusty(b.dev) => Ready(b.dev, b.op)'
                     /\ c.op = "check_is_on" /\ Trusty(c.dev) => Bright(k.said, Below[c.dev])'
  <2>1. k.todo \in Seq(HandlerCalls)
    <3>1. phase \in {"get", "set"} => j.req.kind \in OwnKinds
      BY <1>2, <1>4, <1>5, NextPhase DEF Before, HInv, FInv, TInv, SInv
    <3> QED
      BY <1>1, <1>5, <1>7, <3>1, CallsFit
  <2>2. PICK c : c = Head(k.todo)
    OBVIOUS
  <2>3. c \in ToSet(k.todo)
    <3>1. 1 \in 1..Len(k.todo) /\ c = k.todo[1]
      BY <1>11, <2>1, <2>2
    <3> QED
      BY <3>1 DEF ToSet
  <2>4. k.phase \in Telling => c.op # "check_is_on"
    BY <1>7, <1>10, <1>11, <2>2
  <2> QED
    BY <1>8, <1>9, <1>11, <2>2, <2>3, <2>4
<1> QED
  BY <1>3, <1>11 DEF Prepared, Trusty


\* After an answer the next call finds what it relies on.
LEMMA AnswerPrepared ==
  ASSUME HInv, [SNext]_svars, NEW d \in Devices, Answer(d), NEW t \in Threads, t = holder[d],
         calm'[t] => StaysCalm(t)
  PROVE  Prepared(t)'
<1>1. PICK j : j = job[t]
  OBVIOUS
<1>2. PICK k : k = job'[t]
  OBVIOUS
<1>3. PICK c : c = Head(j.todo)
  OBVIOUS
<1>4. /\ TInv /\ EInv /\ AInv /\ IInv /\ CInv /\ Prepared(t) /\ [Next]_vars
  BY StepOfDevices DEF HInv, FInv, TInv, SInv
<1>5. /\ top[t] = d /\ act[d].pc = "return" /\ act[d] \in Activations /\ CallOf(d) = c
      /\ j \in Jobs /\ j.todo # <<>> /\ j # None /\ k = Heard(t, d, act[d].val)
      /\ \A e \in Devices : e # d => act'[e] = act[e]
      /\ UNCHANGED <<believed, level, goal>>
  BY <1>1, <1>2, <1>3, <1>4, AnsweredCall
<1>6. Formed(j) /\ Sound(d, act[d]) /\ top[t] # 0 /\ holder[d] # None
  BY <1>1, <1>4, <1>5, NoneAssumption DEF HInv, FInv, EInv, EInvAt, Devices
<1>7. /\ j.todo \in Seq(HandlerCalls) /\ c.dev = d /\ act[d].op = c.op /\ act[d].arg = c.arg
  BY <1>5 DEF Jobs, CallOf
<1>8. /\ k.phase = j.phase /\ k.todo \in {Tail(j.todo), <<>>}
  BY <1>1, <1>5 DEF Heard, Jobs
<1>9. top'[t] = 0
  <2>1. caller[d] = 0 /\ top' = [top EXCEPT ![holder[d]] = caller[d]] /\ top \in [Threads -> 0..N]
    BY <1>4 DEF Answer, Return, IInv, Typed
  <2> QED
    BY <2>1
<1>10. \A e \in Devices : ~CommandStep(e) /\ goal'[e] = goal[e]
  <2>1. goal' = goal
    BY <1>5
  <2>2. \A e \in Devices : ~CommandStep(e)
    BY <1>5 DEF CommandStep, Leaf
  <2> QED
    BY <2>1, <2>2
<1>11. ASSUME NEW g \in Devices, Trusty(g), NEW op, Ready(g, op)
       PROVE  Ready(g, op)'
  BY <1>4, <1>10, <1>11, BelowDrivers, ReadyStep
<1>12. ASSUME calm'[t], j.phase \in Telling \cup Setting, k.todo # <<>>
       PROVE  LET b == Head(k.todo) IN
                /\ Trusty(b.dev) => Ready(b.dev, b.op)'
                /\ j.phase \in Telling =>
                     /\ \A e \in ToSet(k.todo) : Trusty(e.dev) => Ready(e.dev, e.op)'
                     /\ b.op = "check_is_on" /\ Trusty(b.dev) => Bright(k.said, Below[b.dev])'
  <2>1. PICK b : b = Head(k.todo)
    OBVIOUS
  <2>2. k.todo = Tail(j.todo) /\ Tail(j.todo) # <<>>
    BY <1>8, <1>12
  <2>3. /\ 2 \in 1..Len(j.todo) /\ b = j.todo[2] /\ c = j.todo[1] /\ 1 \in 1..Len(j.todo)
        /\ 1 < Len(j.todo)
    BY <1>3, <1>5, <1>7, <2>1, <2>2
  <2>4. b \in ToSet(j.todo) /\ ToSet(k.todo) \subseteq ToSet(j.todo) /\ b \in ToSet(k.todo)
    <3>1. Len(k.todo) = Len(j.todo) - 1 /\ \A i \in 1..Len(k.todo) : k.todo[i] = j.todo[i + 1]
                                               /\ i + 1 \in 1..Len(j.todo)
      BY <1>7, <2>2
    <3>2. 1 \in 1..Len(k.todo) /\ k.todo[1] = b
      BY <1>7, <2>3, <3>1
    <3>3. DOMAIN j.todo = 1..Len(j.todo) /\ DOMAIN k.todo = 1..Len(k.todo)
      BY <1>7, <2>2
    <3>4. ToSet(j.todo) = {j.todo[i] : i \in 1..Len(j.todo)}
      BY <3>3 DEF ToSet
    <3>5. ToSet(k.todo) = {k.todo[i] : i \in 1..Len(k.todo)}
      BY <3>3 DEF ToSet
    <3>6. b \in ToSet(j.todo) /\ b \in ToSet(k.todo)
      BY <2>3, <3>2, <3>4, <3>5
    <3>7. ToSet(k.todo) \subseteq ToSet(j.todo)
      BY <3>1, <3>4, <3>5
    <3> QED
      BY <3>6, <3>7
  <2>5. \A e \in ToSet(j.todo) : e.dev \in Devices
    <3>1. \A e \in ToSet(j.todo) : e \in HandlerCalls
      BY <1>7 DEF ToSet
    <3> QED
      BY <3>1 DEF HandlerCalls, Asked
  <2>6. calm[t] /\ Goes(d)
    BY <1>1, <1>3, <1>4, <1>5, <1>6, <1>7, <1>12 DEF StaysCalm, Prepared
  <2>7. CASE j.phase \in Telling
    <3>1. \A e \in ToSet(k.todo) : Trusty(e.dev) => Ready(e.dev, e.op)'
      <4>1. \A e \in ToSet(j.todo) : Trusty(e.dev) => Ready(e.dev, e.op)
        BY <1>1, <1>4, <1>5, <1>12, <2>6, <2>7 DEF Prepared
      <4> QED
        BY <1>11, <2>4, <2>5, <4>1
    <3>2. ASSUME b.op = "check_is_on", Trusty(b.dev) PROVE Bright(k.said, Below[b.dev])'
      <4>1. c.op = "check_percent" /\ b.dev = d
        <5>1. /\ c.op \in {"check_percent", "check_is_on"}
              /\ c.op = "check_percent" => b.dev = c.dev
              /\ c.op = "check_is_on" => b.op = "check_percent"
          BY <1>6, <2>3, <2>7 DEF Formed, Fitting, Telling
        <5> QED
          BY <1>7, <3>2, <5>1
      <4>2. act[d].val \notin {Err, Panic}
        BY <1>6, <3>2, <4>1 DEF Sound
      <4>3. k.said = act[d].val
        BY <1>1, <1>3, <1>5, <2>7, <4>1, <4>2 DEF Heard, Jobs, Telling
      <4>4. Bright(act[d].val, Below[d])
        <5>1. Fares(d, d, act[d])
          BY <1>6, <2>6, <3>2, <4>1 DEF Goes, Under, Devices
        <5> QED
          BY <1>5, <1>7, <4>1, <5>1 DEF Fares, Finds
      <4> QED
        BY <1>5, <4>1, <4>3, <4>4 DEF Bright
    <3> QED
      BY <2>1, <2>4, <3>1, <3>2
  <2>8. CASE j.phase \in Setting
    <3>1. b.dev = d /\ b.op = "set_percent"
      <4>1. b.dev = c.dev /\ b.op = "set_percent"
        BY <1>6, <2>3, <2>8 DEF Formed, Fitting
      <4> QED
        BY <1>7, <4>1
    <3>2. Trusty(d) => Ready(d, "set_percent")
      BY <2>6 DEF Goes, Settled, Ready
    <3> QED
      BY <1>11, <2>1, <2>8, <3>1, <3>2 DEF Telling, Setting
  <2> QED
    BY <1>12, <2>7, <2>8
<1> QED
  BY <1>2, <1>8, <1>9, <1>12 DEF Prepared, Trusty


\* At the start nobody serves a request.
LEMMA HInitHInv == HInit => HInv
<1> SUFFICES ASSUME HInit PROVE HInv
  OBVIOUS
<1>1. TInv
  BY SInitSInv, SInitLInv, InitCInv DEF HInit, SInit, TInv
<1>2. AInv /\ EInv
  BY InitAInv, InitEInv DEF HInit, SInit
<1>3. \A t \in Threads : job[t] = None /\ ~calm[t]
  BY DEF HInit, SInit
<1> QED
  BY <1>1, <1>2, <1>3 DEF HInv, FInv, Prepared

\* The invariant of undisturbed requests is inductive.
LEMMA HNextHInv == HInv /\ [HNext]_<<svars, calm>> => HInv'
<1> SUFFICES ASSUME HInv, [HNext]_<<svars, calm>> PROVE HInv'
  OBVIOUS
<1>1. [SNext]_svars /\ SInv /\ IInv /\ AInv /\ CInv /\ EInv /\ TInv /\ FInv
  BY DEF HNext, HInv, FInv, TInv, SInv
<1>2. [Next]_vars
  BY <1>1, StepOfDevices
<1>3. TInv'
  BY <1>1, SNextTInv
<1>4. AInv' /\ EInv'
  BY <1>1, <1>2, NextAInv, NextEInv
<1>5. \A t \in Threads : job'[t] # None => Formed(job'[t])
  BY <1>1, NextFormed
<1>6. ASSUME NEW t \in Threads PROVE Prepared(t)'
  <2>1. CASE HNext
    <3>1. Calm
      BY <2>1 DEF HNext
    <3>2. calm'[t] /\ job[t] # None /\ job[t].todo # <<>> => StaysCalm(t)
      BY <3>1, CalmStep DEF StaysCalm, Calm
    <3>3. CASE Receive(t)
      <4>1. ~calm'[t]
        BY <3>1, <3>3 DEF Calm, Receive
      <4> QED
        BY <4>1 DEF Prepared
    <3>4. CASE Moves(t)
      <4>1. job'[t] = None \/ job'[t].todo = <<>>
        <5>1. job[t] \in Jobs /\ job[t].todo = <<>>
          BY <1>1, <3>4 DEF SInv, JobsFit, Moves
        <5> QED
          BY <3>4, <5>1 DEF Moves, Jobs
      <4> QED
        BY <4>1 DEF Prepared
    <3>5. CASE EnterPhase(t)
      BY <3>1, <3>5, EnterPrepared
    <3>6. ASSUME NEW d \in Devices, Answer(d), holder[d] = t PROVE Prepared(t)'
      <4>1. job[t] # None /\ job[t].todo # <<>>
        BY <1>1, <3>6, AnsweredCall
      <4> QED
        BY <1>1, <3>2, <3>6, <4>1, AnswerPrepared
    <3>7. CASE job'[t] = job[t] /\ (top[t] # 0 => top'[t] # 0)
      BY <1>1, <1>3, <3>2, <3>7, StayPrepared
    <3> QED
      BY <1>1, <3>3, <3>4, <3>5, <3>6, <3>7, StepOfThread
  <2>2. CASE UNCHANGED <<svars, calm>>
    <3>1. job'[t] = job[t] /\ top' = top /\ calm' = calm
      BY <2>2 DEF svars, vars
    <3>2. CASE calm[t] /\ job[t] # None /\ job[t].todo # <<>>
      <4>1. \A d : ~MovedByOther(d, t)
        BY <2>2 DEF svars, vars, MovedByOther, CommandStep
      <4>2. StaysCalm(t)
        BY <3>2, <4>1 DEF StaysCalm
      <4> QED
        BY <1>1, <1>3, <3>1, <4>2, StayPrepared
    <3>3. CASE ~(calm[t] /\ job[t] # None /\ job[t].todo # <<>>)
      BY <3>1, <3>3 DEF Prepared
    <3> QED
      BY <3>2, <3>3
  <2> QED
    BY <2>1, <2>2
<1> QED
  BY <1>3, <1>4, <1>5, <1>6 DEF HInv, FInv

\* Whatever a request still has to call, it finds as it should.
THEOREM RequestsPrepared == HSpec => []HInv
<1>1. HInit => HInv
  BY HInitHInv
<1>2. HInv /\ [HNext]_<<svars, calm>> => HInv'
  BY HNextHInv
<1> QED
  BY <1>1, <1>2, PTL DEF HSpec


\* The last call of a request that is about to be answered went as it should.
LEMMA ConcludingCall ==
  ASSUME HInv, NEW d \in Devices, NEW phases, phases \subseteq Telling \cup Setting,
         Concluding(d, phases)
  PROVE  LET j == job[holder[d]] IN
           /\ Goes(d) /\ Trusty(d) /\ act[d] \in Activations
           /\ j \in Jobs /\ Formed(j) /\ j.todo # <<>> /\ CallOf(d) = Head(j.todo)
           /\ j.said \in Levels \cup {None}
           /\ j.phase \in Telling /\ act[d].op = "check_is_on" => Bright(j.said, Below[d])
<1>1. TInv /\ IInv /\ CInv /\ Typed
  BY DEF HInv, FInv, TInv, SInv, IInv
<1>2. /\ act[d].pc = "return" /\ caller[d] = 0 /\ holder[d] # None /\ Trusty(d)
      /\ job[holder[d]].phase \in Telling \cup Setting /\ calm[holder[d]]
  BY DEF Concluding, Trusty
<1>3. PICK t : t = holder[d]
  OBVIOUS
<1>4. t \in Threads /\ act[d] \in Activations
  BY <1>1, <1>2, <1>3 DEF Typed
<1>5. top[t] # 0
  BY <1>1, <1>2, <1>3 DEF IInv, LockOrder
<1>6. job[t] # None /\ job[t].todo # <<>> /\ ask[t] = Head(job[t].todo)
  BY <1>1, <1>4, <1>5, RootHeld
<1>7. CallOf(d) = ask[t]
  BY <1>1, <1>2, <1>3 DEF CInv, Matching
<1>8. Head(job[t].todo).dev = d /\ Head(job[t].todo).op = act[d].op
  BY <1>6, <1>7 DEF CallOf
<1>9. job[t] \in Jobs /\ Formed(job[t]) /\ job[t].said \in Levels \cup {None}
  BY <1>1, <1>4, <1>6 DEF HInv, FInv, TInv, SInv, JobsFit, LInv, Heeds
<1>10. Prepared(t)
  BY <1>4 DEF HInv
<1>11. /\ Goes(d)
       /\ job[t].phase \in Telling /\ act[d].op = "check_is_on" => Bright(job[t].said, Below[d])
  BY <1>2, <1>3, <1>5, <1>6, <1>8, <1>10 DEF Prepared
<1> QED
  BY <1>2, <1>3, <1>4, <1>6, <1>7, <1>9, <1>11

\* A request that sets a brightness or turns off, and that nobody interfered
\* with, leaves every driver below its device moving to what it asked for.
THEOREM LastWords == HSpec => []LastWordWins
<1>1. HInv => LastWordWins
  <2> SUFFICES ASSUME HInv, NEW d \in Devices, Concluding(d, {"put", "set"}),
                      Len(job[holder[d]].todo) = 1,
                      job[holder[d]].req.bri # None \/ job[holder[d]].req.on = Off,
                      NEW e \in Below[d]
               PROVE  goal[e] = AskedLevel(e, job[holder[d]].req)
    BY DEF LastWordWins
  <2>1. PICK j : j = job[holder[d]]
    OBVIOUS
  <2>2. PICK r : r = j.req
    OBVIOUS
  <2>3. {"put", "set"} \subseteq Telling \cup Setting
    BY DEF Setting
  <2>4. /\ Goes(d) /\ Trusty(d) /\ act[d] \in Activations
        /\ act[d].pc = "return" /\ holder[d] # None
        /\ j \in Jobs /\ Formed(j) /\ j.todo # <<>> /\ CallOf(d) = Head(j.todo)
        /\ j.phase \in Setting /\ Len(j.todo) = 1
    BY <2>1, <2>3, ConcludingCall DEF Concluding, Setting
  <2>5. j.todo \in Seq(HandlerCalls)
    BY <2>4 DEF Jobs
  <2>6. PICK c : c = j.todo[1]
    OBVIOUS
  <2>7. Closes(r, c) /\ c.op \in Commands /\ act[d].op = c.op /\ act[d].arg = c.arg
    <3>1. 1 \in 1..Len(j.todo) /\ Head(j.todo) = c
      BY <2>4, <2>5, <2>6
    <3>2. Closes(r, c) /\ c.op \in Commands
      BY <2>2, <2>4, <2>6, <3>1 DEF Formed, Fitting
    <3> QED
      BY <2>4, <3>1, <3>2 DEF CallOf
  <2>8. act[d].op # "turn_on"
    BY <2>1, <2>2, <2>7 DEF Closes
  <2>9. goal[e] = Wanted(e, act[d].op, act[d].arg)
    BY <2>4, <2>7, <2>8, GoesTold DEF Told
  <2>10. r.bri # None \/ r.on = Off
    BY <2>1, <2>2
  <2>11. goal[e] = AskedLevel(e, r)
    <3>1. CASE r.bri = None
      BY <2>7, <2>9, <2>10, <3>1, AnswersAssumption DEF Closes, Wanted, Desired, AskedLevel
    <3>2. CASE r.bri # None
      BY <2>7, <2>9, <3>2, AnswersAssumption DEF Closes, Wanted, Desired, AskedLevel
    <3> QED
      BY <3>1, <3>2
  <2> QED
    BY <2>1, <2>2, <2>11
<1> QED
  BY <1>1, RequestsPrepared, PTL

\* The percentage and the state that an answer reports fit together.
THEOREM AnswersFit == HSpec => []AnswersFitTogether
<1>1. HInv => AnswersFitTogether
  <2> SUFFICES ASSUME HInv, NEW d \in Devices, Concluding(d, {"get", "describe"}),
                      act[d].op = "check_is_on",
                      job[holder[d]].phase = "get" => Below[d] \subseteq Dimmable,
                      job[holder[d]].said # None
               PROVE  job[holder[d]].said > 0 <=> act[d].val = On
    BY DEF AnswersFitTogether
  <2>1. PICK j : j = job[holder[d]]
    OBVIOUS
  <2>2. {"get", "describe"} \subseteq Telling \cup Setting
    BY DEF Telling
  <2>3. /\ Goes(d) /\ Trusty(d) /\ act[d] \in Activations
        /\ act[d].pc = "return" /\ holder[d] # None
        /\ j \in Jobs /\ Formed(j) /\ j.todo # <<>> /\ CallOf(d) = Head(j.todo)
        /\ j.phase \in Telling /\ j.said \in Levels /\ Bright(j.said, Below[d])
    BY <2>1, <2>2, ConcludingCall DEF Concluding, Telling
  <2>4. Below[d] \subseteq Dimmable
    <3>1. CASE j.phase = "describe"
      <4>1. j.todo \in Seq(HandlerCalls)
        BY <2>3 DEF Jobs
      <4>2. 1 \in 1..Len(j.todo) /\ Head(j.todo) = j.todo[1]
        BY <2>3, <4>1
      <4>3. Below[Head(j.todo).dev] \subseteq Dimmable
        BY <2>3, <3>1, <4>2 DEF Formed, Fitting
      <4> QED
        BY <2>3, <4>3 DEF CallOf
    <3>2. CASE j.phase = "get"
      BY <2>1, <3>2
    <3> QED
      BY <2>3, <3>1, <3>2 DEF Telling
  <2>5. CInv /\ EInv
    BY DEF HInv, FInv, TInv
  <2>6. act[d].val = IF \E e \in Below[d] : goal[e] > 0 THEN On ELSE Off
    BY <2>3, <2>5, GoesTruly DEF Checks, OffIsTrue, OnIsTrue
  <2>7. j.said > 0 <=> j.said \in 1..MaxLevel
    BY <2>3, BoundsAssumption DEF Levels
  <2>8. j.said > 0 <=> \E e \in Below[d] : goal[e] > 0
    BY <2>3, <2>4, <2>7 DEF Bright
  <2> QED
    BY <2>1, <2>6, <2>8, AnswersAssumption
<1> QED
  BY <1>1, RequestsPrepared, PTL
=============================================================================

---------------------------- MODULE DriversProofs ----------------------------
(***************************************************************************)
(* Proofs about Drivers: its inductive invariant, from what ExchangesProofs*)
(* says of the drivers; that the drivers implement RawDriver; and that a   *)
(* call fails only when something comes between.                           *)
(*                                                                         *)
(* An answer is true because a call keeps nothing but what lines told it,  *)
(* and a line that it may still read was true when the device wrote it:    *)
(* the invariant has to follow lines from the device to the record of the  *)
(* call, past lines about other people's changes, lines that a dropped     *)
(* reader took with it, and commands that are executed after their         *)
(* connection is gone.                                                     *)
(*                                                                         *)
(* A call during which nothing comes between does not fail because what it *)
(* reads next is there, in full and in order, or will be by the one step   *)
(* that executes its command.                                              *)
(***************************************************************************)
EXTENDS ExchangesProofs, SequenceTheorems

-----------------------------------------------------------------------------
(* The inductive invariant.                                                *)

Typed ==
  /\ driver \in DriverNames
  /\ dev \in States
  /\ call = [c \in Clients |-> call[c]] /\ conn = [k \in Keys |-> conn[k]]
  /\ times \in [Clients -> Nat] /\ seen = [c \in Clients |-> seen[c]]

\* What a call has seen: at least what its device is like now.
Saw(a, S) == a.pc \notin {"idle", "return"} => Reading(RequestOf(a), dev) \in S

\* Each call has a record that is worth what ExchangesProofs says.
Records == \A c \in Clients : Good(call[c], seen[c], times[c] > 0) /\ Saw(call[c], seen[c])

\* A connection carries such a command, or none, and lines.
Wire(k, w) ==
  /\ w = [up |-> w.up, cmd |-> w.cmd, by |-> w.by, lines |-> w.lines]
  /\ w.up \in {"none", "open", "cut"}
  /\ w.lines \in Seq(Lines)
  /\ w.cmd # None => Known(w.cmd)
  /\ w.by # None => w.by \in Clients /\ Conn(w.by) = k

Wires ==
  \A k \in Keys : Wire(k, conn[k]) /\ (conn[k].by # None => call[conn[k].by].pc # "idle")

\* Late commands take effect when they are executed at last.
Belated(x) ==
  /\ x = [cmd |-> x.cmd, by |-> x.by]
  /\ Known(x.cmd) /\ x.cmd.name \in Acting
  /\ x.by # None => x.by \in Clients

Links ==
  \A c \in Clients : call[c].pc \in {"send", "read"} =>
    Hears(c, call[c], seen[c], times[c] > 0, conn[Conn(c)])

\* The command of c is under way, or late.
OnWire(c, w) == w.by = c /\ w.cmd # None /\ (w.cmd # None => w.cmd.name \in Acting)
LateFor(c, L) == \E x \in L : x.by = c

\* Each sending is executed, under way, late or lost.
CountedFor(c, t, a, w, L) == t + Bit01(OnWire(c, w)) + Bit01(LateFor(c, L)) <= Sendings(a)

\* A late command of a call is the only one, or like the one it sends again.
LateOnce(c, cmd, L) ==
  /\ \A x, y \in L : x.by = c /\ y.by = c => x = y
  /\ driver \in {"appletv", "envy"} => \A x \in L : x.by = c => x.cmd = cmd

Alike(c, cmd, w) ==
  driver \in {"appletv", "envy"} /\ w.by = c /\ w.cmd # None => w.cmd = cmd

Counting ==
  \A c \in Clients :
    /\ CountedFor(c, times[c], call[c], conn[Conn(c)], late)
    /\ LateOnce(c, call[c].cmd, late)
    /\ Alike(c, call[c].cmd, conn[Conn(c)])

DInv ==
  /\ Typed
  /\ Records
  /\ Wires
  /\ \A x \in late : Belated(x)
  /\ Locked
  /\ Links
  /\ Counting
-----------------------------------------------------------------------------
(* A step leaves the driver as it is, so what depends on it only is as     *)
(* good after the step.                                                    *)

\* Operators that depend on the driver alone.
LEMMA SameDriver ==
  ASSUME driver' = driver
  PROVE  /\ \A a, S, T : Good(a, S, T)' <=> Good(a, S, T)
         /\ \A k, w : Wire(k, w)' <=> Wire(k, w)
         /\ \A x : Belated(x)' <=> Belated(x)
         /\ \A c, a, S, T, w : Hears(c, a, S, T, w)' <=> Hears(c, a, S, T, w)
         /\ \A c, t, a, w, L : CountedFor(c, t, a, w, L)' <=> CountedFor(c, t, a, w, L)
         /\ \A c, cmd, L : LateOnce(c, cmd, L)' <=> LateOnce(c, cmd, L)
         /\ \A c, cmd, w : Alike(c, cmd, w)' <=> Alike(c, cmd, w)
         /\ States' = States /\ Acting' = Acting
         /\ \A c : Conn(c)' = Conn(c)
         /\ \A a : RequestOf(a)' = RequestOf(a)
<1>1. \A a, S, T : Good(a, S, T)' <=> Good(a, S, T)
  <2>1. \A a, S : Knows(a, S)' <=> Knows(a, S)
    BY DEF Knows
  <2>2. \A a, S, T : Kept(RequestOf(a), S, T, a.ans)' <=> Kept(RequestOf(a), S, T, a.ans)
    BY DEF Kept, RequestOf
  <2> QED
    BY <2>1, <2>2 DEF Good
<1>2. \A cmd : Known(cmd)' <=> Known(cmd)
  BY DEF Known
<1>3. /\ \A k, w : Wire(k, w)' <=> Wire(k, w)
      /\ \A c : Conn(c)' = Conn(c)
  BY <1>2 DEF Wire, Conn
<1>4. Acting' = Acting
  BY DEF Acting
<1>5. \A x : Belated(x)' <=> Belated(x)
  BY <1>2, <1>4 DEF Belated
<1>6. \A c, a, S, T, w : Hears(c, a, S, T, w)' <=> Hears(c, a, S, T, w)
  <2>1. \A op, name, l, S, T : Says(op, name, l, S, T)' <=> Says(op, name, l, S, T)
    BY DEF Says
  <2> QED
    BY <2>1 DEF Hears
<1>7. \A c, t, a, w, L : CountedFor(c, t, a, w, L)' <=> CountedFor(c, t, a, w, L)
  <2>1. \A a : Sendings(a)' = Sendings(a)
    BY <1>4 DEF Sendings, Unsent
  <2>2. \A c, w : OnWire(c, w)' <=> OnWire(c, w)
    BY <1>4 DEF OnWire
  <2> QED
    BY <2>1, <2>2 DEF CountedFor, Bit01
<1>8. /\ \A c, cmd, L : LateOnce(c, cmd, L)' <=> LateOnce(c, cmd, L)
      /\ \A c, cmd, w : Alike(c, cmd, w)' <=> Alike(c, cmd, w)
      /\ States' = States
      /\ \A a : RequestOf(a)' = RequestOf(a)
  BY DEF LateOnce, Alike, States, RequestOf
<1> QED
  BY <1>1, <1>3, <1>4, <1>5, <1>6, <1>7, <1>8

-----------------------------------------------------------------------------
(* What a call sees grows.                                                 *)

\* The nearest ratio is a known one, or there is none (a panic).
LEMMA NearestIs ==
  ASSUME NEW v \in Nat
  PROVE  Mvr!nearest_aspect_ratio_int(v) \in Mvr!KnownRatios \cup {Panic}
<1> DEFINE below == {r \in Mvr!KnownRatios : r <= v}
<1>1. CASE below = {}
  BY <1>1 DEF Mvr!nearest_aspect_ratio_int
<1>2. CASE below # {}
  <2>1. \E x \in below : \A y \in below : x >= y
    BY <1>2 DEF Mvr!KnownRatios
  <2>2. Mvr!Max(below) \in below
    BY <2>1 DEF Mvr!Max
  <2> QED
    BY <1>2, <2>2 DEF Mvr!nearest_aspect_ratio_int
<1> QED
  BY <1>1, <1>2

\* What a question reads off a device is an answer to it.
LEMMA ReadingIs ==
  ASSUME driver \in DriverNames, NEW op, NEW arg, NEW s \in States
  PROVE  MaySee(op, {Reading([driver |-> driver, op |-> op, arg |-> arg], s)})
<1> DEFINE q == [driver |-> driver, op |-> op, arg |-> arg]
           v == Reading(q, s)
<1>1. q.op = op
  OBVIOUS
<1>2. /\ s.power \in {On, Off} /\ s.aux \in {0, 1} /\ s.set \in Settings[driver]
      /\ s.set \in Nat /\ PowerOf(s.aux) \in {On, Off}
  BY RequestsAssumption DEF States, PowerOf
<1>3. {On, Off, Ok, Panic, s.set} \cup Mvr!KnownRatios \subseteq RawAnswers
  BY <1>2 DEF RawAnswers
<1> HIDE DEF q
<1>4. v \in {On, Off, Ok, Panic, s.set} \cup Mvr!KnownRatios \/ (op = "set_cec" /\ v \in {0, 1})
  <2>1. CASE op = "get_nearest_aspect_ratio"
    BY <1>1, <1>2, <2>1, NearestIs DEF Reading
  <2>2. CASE op # "get_nearest_aspect_ratio"
    BY <1>1, <1>2, <2>2 DEF Reading
  <2> QED
    BY <2>1, <2>2
<1> QED
  BY <1>3, <1>4 DEF MaySee, q

\* What a line says stays true when the call sees more.
LEMMA SaysMore ==
  ASSUME NEW op, NEW name, NEW l, NEW S, NEW T, Says(op, name, l, S, T),
         NEW S2, NEW T2, S \subseteq S2, T => T2, driver \in DOMAIN Methods
  PROVE  Says(op, name, l, S2, T2)
BY DEF Says, Methods, AvmSays, AtvSays, KscpSays, EnvySays, OppoSays, PjSays, StrSays

\* And so does what the call knows,
LEMMA KnowsMore ==
  ASSUME NEW a, NEW S, Knows(a, S), NEW S2, S \subseteq S2, driver \in DOMAIN Methods
  PROVE  Knows(a, S2)
<1>1. \A got, op, name : EnvyGot(got, op, name, S) => EnvyGot(got, op, name, S2)
  BY DEF EnvyGot, EnvySays
<1>2. CASE driver = "envy"
  BY <1>1, <1>2 DEF Knows, EnvyKnows
<1>3. CASE driver = "kscp"
  BY <1>3 DEF Knows, KscpKnows
<1>4. CASE driver \notin {"envy", "kscp"}
  BY <1>4 DEF Knows, Methods, AvmKnows, AtvKnows, OppoKnows, PjKnows, StrKnows
<1> QED
  BY <1>2, <1>3, <1>4

\* and whatever its record says.
LEMMA SeesMore ==
  ASSUME driver \in DOMAIN Methods, NEW a, NEW S, NEW T, Good(a, S, T),
         a.pc \notin {"idle", "return"},
         NEW S2, NEW T2, S \subseteq S2, MaySee(a.op, S2)
  PROVE  Good(a, S2, T2)
BY KnowsMore DEF Good
-----------------------------------------------------------------------------
(* What ExchangesProofs says of the drivers one by one, of all of them.    *)

\* A method's first command.
LEMMA FirstIs ==
  ASSUME driver \in DriverNames, NEW op, NEW arg, Asked(op, arg), NEW S, MaySee(op, S)
  PROVE  /\ Begun(First(Start(op, arg)), op, arg, S)
         /\ driver = "appletv" => First(Start(op, arg)).pc = "lock"
<1>1. Begun(First(Start(op, arg)), op, arg, S)
  BY IsDriver, AvmFirst, AtvFirst, KscpFirst, EnvyFirst, OppoFirst, PjFirst, StrFirst DEF First
<1>2. ASSUME driver = "appletv" PROVE First(Start(op, arg)).pc = "lock"
  <2> DEFINE a == Start(op, arg)
  <2>1. Shape(a)
    BY StartIs, AskedIs DEF Shape
  <2>2. First(a) = [a EXCEPT !.pc = "lock"]
    BY <1>2 DEF First, Atv!First
  <2> HIDE DEF a
  <2>3. First(a).pc = "lock"
    BY <2>1, <2>2 DEF Shape
  <2> QED
    BY <2>3 DEF a
<1> QED
  BY <1>1, <1>2

\* After writing.
LEMMA SentIs ==
  ASSUME driver \in DriverNames, NEW a, NEW S, NEW T \in BOOLEAN, Good(a, S, T), a.pc = "send"
  PROVE  Written(a, Sent(a), S, T)
BY IsDriver, AvmSent, AtvSent, KscpSent, EnvySent, OppoSent, PjSent, StrSent DEF Sent

\* A call whose exchange fails ends or, with the Apple TV, connects once more;
\* an Envy's may read on when its stream ends.
LEMMA BrokenIs ==
  ASSUME driver \in DriverNames, NEW a, NEW S, NEW T \in BOOLEAN, Good(a, S, T),
         a.pc \in {"connect", "send", "read"}, NEW how, how = "eof" => a.pc = "read"
  PROVE  /\ Onward(a, Broken(a, how), S, T)
         /\ \/ Broken(a, how).pc \in {"connect", "return"}
            \/ driver = "envy" /\ how = "eof" /\ EnvyHeard(a, Broken(a, how), S, T)
<1>1. CASE driver = "envy"
  BY <1>1, EnvyBroken DEF Broken, EnvyHeard
<1>2. CASE driver = "appletv"
  BY <1>2, AtvBroken DEF Broken
<1>3. CASE driver \notin {"envy", "appletv"}
  BY <1>3, IsDriver, AvmBroken, KscpBroken, OppoBroken, PjBroken, StrBroken DEF Broken
<1> QED
  BY <1>1, <1>2, <1>3

\* What becomes of a call that hears a line.
HeardBy(a, b, S, T) ==
  CASE driver = "kscp" -> KscpHeard(a, b, S, T)
    [] driver = "envy" -> EnvyHeard(a, b, S, T)
    [] OTHER -> Heard(a, b, S, T)

\* After reading a line.
LEMMA HearIs ==
  ASSUME driver \in DriverNames, NEW a, NEW S, NEW T \in BOOLEAN, Good(a, S, T), a.pc = "read",
         NEW l, Says(a.op, a.cmd.name, l, S, T), driver = "kscp" => DetailsLine(a, l),
         driver = "envy" /\ a.m # 0 => l.tag # "welcome"
  PROVE  HeardBy(a, Hear(a, l), S, T)
<1>1. CASE driver = "envy"
  BY <1>1, EnvyHear DEF Hear, Says, HeardBy
<1>2. CASE driver = "kscp"
  BY <1>2, KscpHear DEF Hear, Says, HeardBy
<1>3. CASE driver \notin {"envy", "kscp"}
  BY <1>3, IsDriver, AvmHear, AtvHear, OppoHear, PjHear, StrHear DEF Hear, Says, HeardBy
<1> QED
  BY <1>1, <1>2, <1>3

-----------------------------------------------------------------------------
(* Commands under way and late.                                            *)

\* The connection of a client: its own, or the session.
LEMMA ConnIs ==
  ASSUME NEW c \in Clients
  PROVE  /\ Conn(c) \in Keys /\ c # None /\ Session # None
         /\ driver # "appletv" => Conn(c) = c /\ Conn(c) # Session
         /\ driver = "appletv" => Conn(c) = Session
BY LimitsAssumption, NoneAssumption DEF Conn, Keys

\* What DInv says of a call.
LEMMA CountIs ==
  ASSUME DInv, NEW c \in Clients
  PROVE  /\ times[c] \in Nat /\ Sendings(call[c]) \in Nat /\ Shape(call[c])
         /\ driver \in DriverNames /\ driver \in DOMAIN Methods
         /\ Good(call[c], seen[c], times[c] > 0) /\ (times[c] > 0) \in BOOLEAN
         /\ times[c] + Bit01(OnWire(c, conn[Conn(c)])) + Bit01(LateFor(c, late))
              <= Sendings(call[c])
         /\ driver \notin {"appletv", "envy"} => Sendings(call[c]) <= 1
<1>1. /\ times[c] \in Nat /\ Shape(call[c]) /\ Good(call[c], seen[c], times[c] > 0)
      /\ driver \in DriverNames /\ driver \in DOMAIN Methods
  BY IsDriver DEF DInv, Typed, Records, Good
<1>2. Sendings(call[c]) \in Nat
  BY <1>1, SendingsNat
<1>3. driver \notin {"appletv", "envy"} => Sendings(call[c]) <= 1
  BY DEF Sendings
<1> QED
  BY <1>1, <1>2, <1>3 DEF DInv, Counting, CountedFor

\* What is left of a connection that goes away: it is late then, and still
\* the only one of its call that is.
LEMMA StrandedIs ==
  ASSUME DInv, NEW k \in Keys, NEW L \in Stranded(k)
  PROVE  /\ \A x \in L : Belated(x) /\ x.by = conn[k].by
         /\ L # {} => conn[k].cmd # None
         /\ \A d \in Clients :
              /\ LateFor(d, late \cup L) => LateFor(d, late) \/ (OnWire(d, conn[k]) /\ Conn(d) = k)
              /\ LateOnce(d, call[d].cmd, late \cup L)
<1> DEFINE z == [cmd |-> conn[k].cmd, by |-> conn[k].by]
<1>1. Wire(k, conn[k])
  BY DEF DInv, Wires
<1>2. L = {} \/ (L = {z} /\ conn[k].cmd # None /\ conn[k].cmd.name \in Acting)
  BY DEF Stranded
<1>3. \A d \in Clients : LateOnce(d, call[d].cmd, late) /\ Alike(d, call[d].cmd, conn[Conn(d)])
  BY DEF DInv, Counting
<1>4. CASE L = {}
  <2>1. late \cup L = late
    BY <1>4
  <2> QED
    BY <1>3, <1>4, <2>1
<1>5. CASE L = {z} /\ conn[k].cmd # None /\ conn[k].cmd.name \in Acting
  <2>1. z = [cmd |-> z.cmd, by |-> z.by] /\ z.cmd = conn[k].cmd /\ z.by = conn[k].by
    OBVIOUS
  <2> HIDE DEF z
  <2>2. Belated(z)
    BY <1>1, <1>5, <2>1 DEF Belated, Wire
  <2>3. \A d \in Clients : z.by = d => OnWire(d, conn[k]) /\ Conn(d) = k
    BY <1>1, <1>5, <2>1, ConnIs DEF OnWire, Wire
  <2>4. ASSUME NEW d \in Clients
        PROVE  LateFor(d, late \cup L) => LateFor(d, late) \/ (OnWire(d, conn[k]) /\ Conn(d) = k)
    BY <1>5, <2>3 DEF LateFor
  <2>5. ASSUME NEW d \in Clients, NEW x \in late, x.by = d, z.by = d
        PROVE  x = z
    <3>1. OnWire(d, conn[k]) /\ Conn(d) = k /\ LateFor(d, late)
      BY <2>3, <2>5 DEF LateFor
    <3>2. driver \in {"appletv", "envy"}
      BY <3>1, CountIs DEF Bit01
    <3>3. x.cmd = call[d].cmd /\ z.cmd = call[d].cmd
      BY <1>3, <1>5, <2>1, <2>5, <3>1, <3>2 DEF LateOnce, Alike, OnWire
    <3>4. x = [cmd |-> x.cmd, by |-> x.by]
      BY DEF DInv, Belated
    <3> QED
      BY <2>1, <2>5, <3>3, <3>4
  <2>6. ASSUME NEW d \in Clients
        PROVE  LateOnce(d, call[d].cmd, late \cup L)
    <3>1. \A x, y \in late \cup L : x.by = d /\ y.by = d => x = y
      BY <1>3, <1>5, <2>5 DEF LateOnce
    <3>2. ASSUME driver \in {"appletv", "envy"}, z.by = d PROVE z.cmd = call[d].cmd
      BY <1>3, <1>5, <2>1, <2>3, <3>2 DEF Alike, OnWire
    <3> QED
      BY <1>3, <1>5, <3>1, <3>2 DEF LateOnce
  <2> QED
    BY <1>5, <2>1, <2>2, <2>4, <2>6
<1> QED
  BY <1>2, <1>4, <1>5

-----------------------------------------------------------------------------
(* The steps of a call.                                                    *)

Stepped(c, b, w) ==
  /\ driver' = driver /\ dev' = dev /\ times' = times /\ seen' = seen
  /\ call' = [call EXCEPT ![c] = b] /\ conn' = [conn EXCEPT ![Conn(c)] = w]

\* What a call and its connection have to be like after its step.
Fits(c, b, w, L) ==
  /\ Onward(call[c], b, seen[c], times[c] > 0)
  /\ Wire(Conn(c), w) /\ w.by \in {c, None}
  /\ b.pc \in {"send", "read"} => Hears(c, b, seen[c], times[c] > 0, w)
  /\ CountedFor(c, times[c], b, w, L) /\ LateOnce(c, b.cmd, L) /\ Alike(c, b.cmd, w)

\* What others see of the step: the call goes on.
Moved(c) ==
  /\ driver' = driver /\ dev' = dev /\ times' = times /\ seen' = seen
  /\ call[c].pc \notin {"idle", "return"} /\ call' = [call EXCEPT ![c] = call'[c]]
  /\ Onward(call[c], call'[c], seen[c], times[c] > 0)

\* A step of a client preserves DInv if it does so for its own call and connection.
LEMMA ClientStep ==
  ASSUME DInv, NEW c \in Clients, NEW b, NEW w, Stepped(c, b, w), Fits(c, b, w, late'),
         call[c].pc \notin {"idle", "return"},
         \A x \in late' : x \in late \/ (Belated(x) /\ x.by \in {c, None}),
         IF driver = "appletv"
         THEN /\ holder' = c /\ holder \in {c, None}
              /\ b.pc \in {"connect", "send", "read", "return"}
         ELSE holder' = holder
  PROVE  DInv' /\ Moved(c)
<1>1. /\ driver' = driver /\ dev' = dev /\ times' = times /\ seen' = seen
      /\ call' = [d \in Clients |-> call'[d]] /\ conn' = [k \in Keys |-> conn'[k]]
      /\ call'[c] = b /\ conn'[Conn(c)] = w
      /\ \A d \in Clients \ {c} : call'[d] = call[d]
      /\ \A k \in Keys \ {Conn(c)} : conn'[k] = conn[k]
  BY ConnIs DEF Stepped, DInv, Typed
<1>2. Typed'
  BY <1>1, SameDriver DEF DInv, Typed
<1>3. Records'
  <2>1. ASSUME NEW d \in Clients
        PROVE  Good(call'[d], seen[d], times[d] > 0)
    BY <1>1 DEF DInv, Records, Fits, Onward
  <2>2. ASSUME NEW d \in Clients, call'[d].pc \notin {"idle", "return"}
        PROVE  Reading(RequestOf(call'[d]), dev) \in seen[d]
    <3>1. CASE d = c
      <4>1. RequestOf(call'[d]) = RequestOf(call[d])
        BY <1>1, <3>1 DEF Fits, Onward, RequestOf
      <4> QED
        BY <3>1, <4>1 DEF DInv, Records, Saw
    <3>2. CASE d # c
      BY <1>1, <2>2, <3>2 DEF DInv, Records, Saw
    <3> QED
      BY <3>1, <3>2
  <2> QED
    BY <1>1, <2>1, <2>2, SameDriver DEF Records, Saw
<1>4. Wires'
  <2>1. ASSUME NEW k \in Keys
        PROVE  Wire(k, conn'[k]) /\ (conn'[k].by # None => call'[conn'[k].by].pc # "idle")
    <3>1. CASE k = Conn(c)
      BY <1>1, <3>1 DEF Fits, Onward
    <3>2. CASE k # Conn(c)
      <4>1. conn'[k] = conn[k] /\ Wire(k, conn[k])
        BY <1>1, <3>2 DEF DInv, Wires
      <4>2. conn[k].by # None => conn[k].by \in Clients \ {c} /\ call[conn[k].by].pc # "idle"
        BY <3>2, <4>1 DEF DInv, Wires, Wire
      <4> QED
        BY <1>1, <4>1, <4>2
    <3> QED
      BY <3>1, <3>2
  <2> QED
    BY <1>1, <2>1, SameDriver DEF Wires
<1>5. \A x \in late' : Belated(x)'
  BY <1>1, SameDriver DEF DInv
<1>6. Locked'
  <2>1. CASE driver = "appletv"
    <3>1. \A d \in Clients : call'[d].pc \in {"connect", "send", "read", "return"} <=> holder' = d
      BY <1>1, <2>1, ConnIs DEF DInv, Locked
    <3>2. conn'[Session].by \in {holder', None}
      BY <1>1, <2>1, ConnIs DEF Fits
    <3> QED
      BY <1>1, <2>1, <3>1, <3>2 DEF Locked
  <2>2. CASE driver # "appletv"
    BY <1>1, <2>2 DEF DInv, Locked
  <2> QED
    BY <2>1, <2>2
<1>7. Links'
  <2>1. ASSUME NEW d \in Clients, call'[d].pc \in {"send", "read"}
        PROVE  Hears(d, call'[d], seen[d], times[d] > 0, conn'[Conn(d)])
    <3>1. CASE d = c
      BY <1>1, <2>1, <3>1 DEF Fits
    <3>2. CASE d # c
      <4>1. driver # "appletv"
        BY <1>1, <2>1, <3>2, ConnIs DEF DInv, Locked
      <4>2. conn'[Conn(d)] = conn[Conn(d)]
        BY <1>1, <3>2, <4>1, ConnIs
      <4> QED
        BY <1>1, <2>1, <3>2, <4>2 DEF DInv, Links
    <3> QED
      BY <3>1, <3>2
  <2> QED
    BY <1>1, <2>1, SameDriver DEF Links
<1>8. Counting'
  <2>1. ASSUME NEW d \in Clients
        PROVE  /\ CountedFor(d, times[d], call'[d], conn'[Conn(d)], late')
               /\ LateOnce(d, call'[d].cmd, late')
               /\ Alike(d, call'[d].cmd, conn'[Conn(d)])
    <3>1. CASE d = c
      BY <1>1, <3>1 DEF Fits
    <3>2. CASE d # c
      <4>1. LateFor(d, late') => LateFor(d, late)
        BY <3>2, ConnIs DEF LateFor
      <4>2. conn'[Conn(d)] = conn[Conn(d)] \/ conn'[Conn(d)].by # d
        BY <1>1, <3>2, ConnIs DEF Fits
      <4>3. OnWire(d, conn'[Conn(d)]) => OnWire(d, conn[Conn(d)])
        BY <4>2 DEF OnWire
      <4>4. CountedFor(d, times[d], call[d], conn'[Conn(d)], late')
        BY <4>1, <4>3, CountIs DEF CountedFor, Bit01
      <4>5. LateOnce(d, call[d].cmd, late) /\ Alike(d, call[d].cmd, conn[Conn(d)])
        BY DEF DInv, Counting
      <4>6. LateOnce(d, call[d].cmd, late')
        BY <3>2, <4>5, ConnIs DEF LateOnce
      <4>7. Alike(d, call[d].cmd, conn'[Conn(d)])
        BY <4>2, <4>5 DEF Alike
      <4> QED
        BY <1>1, <3>2, <4>4, <4>6, <4>7
    <3> QED
      BY <3>1, <3>2
  <2> QED
    BY <1>1, <2>1, SameDriver DEF Counting
<1>9. Moved(c)
  <2>1. call' = [call EXCEPT ![c] = call'[c]]
    BY <1>1 DEF Stepped
  <2> QED
    BY <1>1, <2>1 DEF Moved, Fits
<1> QED
  BY <1>2, <1>3, <1>4, <1>5, <1>6, <1>7, <1>8, <1>9 DEF DInv

\* A call's connection is its own; the Apple TV's session, the holder's.
LEMMA ByIs ==
  ASSUME DInv, NEW c \in Clients,
         driver = "appletv" => call[c].pc \in {"connect", "send", "read", "return"}
  PROVE  /\ Wire(Conn(c), conn[Conn(c)]) /\ conn[Conn(c)].by \in {c, None}
         /\ driver = "appletv" => holder = c
         /\ conn = [conn EXCEPT ![Conn(c)] = conn[Conn(c)]]
<1>1. Wire(Conn(c), conn[Conn(c)])
  BY ConnIs DEF DInv, Wires
<1>2. driver = "appletv" => holder = c /\ conn[Conn(c)].by \in {c, None}
  BY ConnIs DEF DInv, Locked
<1>3. driver # "appletv" => conn[Conn(c)].by \in {c, None}
  BY <1>1, ConnIs DEF Wire
<1>4. conn = [conn EXCEPT ![Conn(c)] = conn[Conn(c)]]
  BY ConnIs DEF DInv, Typed
<1> QED
  BY <1>1, <1>2, <1>3, <1>4

\* The call goes on where it is.
LEMMA StayStep ==
  ASSUME DInv, NEW c \in Clients, NEW b,
         UNCHANGED <<driver, dev, conn, holder, late, times, seen>>,
         call' = [call EXCEPT ![c] = b],
         call[c].pc \in {"connect", "send", "read"}, b.pc \in {"connect", "send", "read", "return"},
         Onward(call[c], b, seen[c], times[c] > 0),
         b.pc \in {"send", "read"} => Hears(c, b, seen[c], times[c] > 0, conn[Conn(c)])
  PROVE  DInv' /\ Moved(c)
<1> DEFINE w == conn[Conn(c)]
<1>1. Wire(Conn(c), w) /\ w.by \in {c, None} /\ (driver = "appletv" => holder = c)
  BY ByIs
<1>2. Stepped(c, b, w)
  BY ByIs DEF Stepped
<1>3. Sendings(b) \in Nat /\ Sendings(b) >= Sendings(call[c])
  BY SendingsNat DEF Onward, Good
<1>4. CountedFor(c, times[c], b, w, late)
  BY <1>3, CountIs DEF CountedFor, Bit01
<1>5. driver \in {"appletv", "envy"} => b.cmd = call[c].cmd
  BY DEF Onward
<1>6. LateOnce(c, b.cmd, late) /\ Alike(c, b.cmd, w)
  BY <1>5 DEF DInv, Counting, LateOnce, Alike
<1> HIDE DEF w
<1>7. Fits(c, b, w, late')
  BY <1>1, <1>4, <1>6 DEF Fits, w
<1> QED
  BY <1>1, <1>2, <1>7, ClientStep

\* An exchange that fails.
LEMMA BrokenStep ==
  ASSUME DInv, NEW c \in Clients, call[c].pc \in {"connect", "send", "read"},
         NEW how, how = "eof" => call[c].pc = "read"
  PROVE  /\ Onward(call[c], Broken(call[c], how), seen[c], times[c] > 0)
         /\ \/ Broken(call[c], how).pc \in {"connect", "return"}
            \/ /\ driver = "envy" /\ how = "eof"
               /\ EnvyHeard(call[c], Broken(call[c], how), seen[c], times[c] > 0)
<1> DEFINE T == times[c] > 0
<1>1. driver \in DriverNames /\ T \in BOOLEAN /\ Good(call[c], seen[c], T)
  BY CountIs
<1> HIDE DEF T
<1>2. /\ Onward(call[c], Broken(call[c], how), seen[c], T)
      /\ \/ Broken(call[c], how).pc \in {"connect", "return"}
         \/ driver = "envy" /\ how = "eof" /\ EnvyHeard(call[c], Broken(call[c], how), seen[c], T)
  BY <1>1, BrokenIs
<1> QED
  BY <1>2 DEF T

\* No connection.
LEMMA CannotConnectStep ==
  ASSUME DInv, NEW c \in Clients, CannotConnect(c)
  PROVE  DInv' /\ Moved(c)
<1>1. PICK how : how = "refused" /\ how # "eof"
  OBVIOUS
<1>2. /\ call[c].pc = "connect" /\ call' = [call EXCEPT ![c] = Broken(call[c], how)]
      /\ UNCHANGED <<driver, dev, conn, holder, late, times, seen>>
  BY <1>1 DEF CannotConnect, Becomes, history
<1>3. /\ Onward(call[c], Broken(call[c], how), seen[c], times[c] > 0)
      /\ Broken(call[c], how).pc \in {"connect", "return"}
  BY <1>1, <1>2, BrokenStep
<1> QED
  BY <1>2, <1>3, StayStep

\* A write that fails.
LEMMA SendFailsStep ==
  ASSUME DInv, NEW c \in Clients, SendFails(c)
  PROVE  DInv' /\ Moved(c)
<1>1. PICK how : how = "reset" /\ how # "eof"
  OBVIOUS
<1>2. /\ call[c].pc = "send" /\ call' = [call EXCEPT ![c] = Broken(call[c], how)]
      /\ UNCHANGED <<driver, dev, conn, holder, late, times, seen>>
  BY <1>1 DEF SendFails, Becomes, history
<1>3. /\ Onward(call[c], Broken(call[c], how), seen[c], times[c] > 0)
      /\ Broken(call[c], how).pc \in {"connect", "return"}
  BY <1>1, <1>2, BrokenStep
<1> QED
  BY <1>2, <1>3, StayStep

\* The Envy's calls may read on at the end of the stream.
LEMMA SilenceStep ==
  ASSUME DInv, NEW c \in Clients, Silence(c)
  PROVE  DInv' /\ Moved(c)
<1> DEFINE a == call[c]
           w == conn[Conn(c)]
<1>1. PICK how \in {"timeout", "eof", "reset"} : call' = [call EXCEPT ![c] = Broken(a, how)]
  BY DEF Silence, Becomes
<1>2. UNCHANGED <<driver, dev, conn, holder, late, times, seen>> /\ a.pc = "read" /\ w.lines = <<>>
  BY DEF Silence
<1> DEFINE b == Broken(a, how)
<1>3. /\ Onward(a, b, seen[c], times[c] > 0)
      /\ \/ b.pc \in {"connect", "return"}
         \/ driver = "envy" /\ how = "eof" /\ EnvyHeard(a, b, seen[c], times[c] > 0)
  BY <1>2, BrokenStep
<1> HIDE DEF b
<1>4. CASE b.pc \in {"connect", "return"}
  BY <1>1, <1>2, <1>3, <1>4, StayStep DEF b
<1>5. CASE driver = "envy" /\ EnvyHeard(a, b, seen[c], times[c] > 0)
      /\ b.pc \notin {"connect", "return"}
  <2>1. Hears(c, a, seen[c], times[c] > 0, w)
    BY <1>2 DEF DInv, Links
  <2>2. b.op = a.op /\ b.cmd = a.cmd
    BY <1>2, <1>3, <1>5 DEF Onward
  <2>3. (b.pc = "send" /\ a.m = 0 /\ b.m = 1) \/ (b.pc = "read" /\ a.m # 0 /\ b.m # 0)
    BY <1>5 DEF EnvyHeard
  <2>4. Hears(c, b, seen[c], times[c] > 0, w)
    BY <1>2, <1>5, <2>1, <2>2, <2>3 DEF Hears, EnvyHears
  <2> QED
    BY <1>1, <1>2, <1>3, <2>3, <2>4, StayStep DEF b
<1> QED
  BY <1>3, <1>4, <1>5

\* Where a call can stand.
LEMMA WhoseIs ==
  ASSUME driver \in DOMAIN Methods, NEW a, NEW S, NEW T, Good(a, S, T)
  PROVE  /\ a.pc \in {"idle", "lock", "connect", "wake", "send", "read", "return"}
         /\ a.pc = "lock" => driver = "appletv"
         /\ a.pc = "wake" => driver = "envy" /\ a.op = "turn_on"
         /\ driver = "appletv" => a.pc # "wake"
<1>1. CASE a.pc = "idle"
  BY <1>1
<1>2. CASE a.pc # "idle"
  <2>1. Knows(a, S)
    BY <1>2 DEF Good
  <2> QED
    BY <2>1 DEF Knows, Methods, AvmKnows, AtvKnows, KscpKnows, EnvyKnows, OppoKnows, PjKnows,
       StrKnows
<1> QED
  BY <1>1, <1>2

\* The Apple TV's session is taken.
LEMMA LockStep ==
  ASSUME DInv, NEW c \in Clients, Lock(c)
  PROVE  DInv' /\ Moved(c)
<1> DEFINE a == call[c]
           w == conn[Session]
           up == w.up # "none"
           T == times[c] > 0
<1>1. driver = "appletv" /\ Good(a, seen[c], T) /\ a.pc = "lock" /\ holder = None /\ holder' = c
  BY CountIs, WhoseIs DEF Lock
<1>2. PICK b : b = Atv!Locked(a, up)
  OBVIOUS
<1> HIDE DEF up, T
<1>3. Onward(a, b, seen[c], T) /\ b.pc = IF up THEN "send" ELSE "connect"
  BY <1>1, <1>2, AtvLocked DEF up
<1>4. /\ UNCHANGED <<driver, dev, conn, late, times, seen>>
      /\ call' = [call EXCEPT ![c] = b]
  BY <1>2 DEF Lock, Becomes, history, up
<1>5. Wire(Conn(c), w) /\ w.by = None /\ Conn(c) = Session
  BY <1>1, ConnIs DEF DInv, Wires, Locked
<1>6. Stepped(c, b, w)
  BY <1>4, <1>5, ConnIs DEF DInv, Typed, Stepped
<1>7. ~OnWire(c, w) /\ ~LateFor(c, late) /\ times[c] = 0
  BY <1>1, <1>5, CountIs, ConnIs DEF Sendings, OnWire, Bit01
<1>8. CountedFor(c, times[c], b, w, late)
  BY <1>3, <1>7, SendingsNat DEF CountedFor, Bit01, Onward, Good
<1>9. LateOnce(c, b.cmd, late) /\ Alike(c, b.cmd, w)
  BY <1>5, <1>7, ConnIs DEF LateOnce, Alike, LateFor
<1>10. b.pc \in {"send", "read"} => Hears(c, b, seen[c], T, w)
  BY <1>1, <1>3 DEF Hears
<1>11. Fits(c, b, w, late')
  BY <1>3, <1>4, <1>5, <1>8, <1>9, <1>10 DEF Fits, T
<1> QED
  BY <1>1, <1>3, <1>4, <1>6, <1>11, ClientStep

\* A connection is made; the Envy speaks first.
LEMMA ConnectStep ==
  ASSUME DInv, NEW c \in Clients, Connect(c)
  PROVE  DInv' /\ Moved(c)
<1> DEFINE a == call[c]
           k == Conn(c)
           S == seen[c]
           T == times[c] > 0
<1>0. PICK w : w = [NoConn EXCEPT !.up = "open", !.lines = Greeting]
  OBVIOUS
<1>1. w = [up |-> "open", cmd |-> None, by |-> None, lines |-> Greeting]
  BY <1>0 DEF NoConn
<1>2. PICK L \in Stranded(k) : late' = late \cup L
  BY DEF Connect
<1>3. a.pc = "connect" /\ (driver = "envy" => dev.power = On)
  BY DEF Connect
<1>4. UNCHANGED <<driver, dev, holder, times, seen>> /\ call' = [call EXCEPT ![c] = Connected(a)]
  BY DEF Connect, Becomes, history
<1>5. conn' = [conn EXCEPT ![k] = w]
  BY <1>0 DEF Connect
<1>6. Good(a, S, T) /\ driver \in DriverNames /\ T \in BOOLEAN
  BY CountIs
<1>7. driver = "envy" /\ a.op = "check_is_on" => On \in S
  BY <1>3 DEF DInv, Records, Saw, Reading, RequestOf
<1>8. PICK b : b = Connected(a)
  OBVIOUS
<1> HIDE DEF T
<1>9. /\ Onward(a, b, S, T) /\ Passed(a, b, IF driver = "envy" THEN "read" ELSE "send")
  BY <1>3, <1>6, <1>7, <1>8, ConnectedIs, PassesOn DEF Good
<1>10. Wire(k, w) /\ w.by = None /\ w.cmd = None /\ w.up = "open"
       /\ w.lines = Greeting
  <2>1. Line("welcome", 0) \in Lines
    BY LinesAre DEF Tags
  <2>2. Greeting \in Seq(Lines)
    BY <2>1 DEF Greeting
  <2> QED
    BY <1>1, <2>2 DEF Wire
<1>11. b.cmd = a.cmd /\ b.op = a.op /\ b.m = a.m
      /\ b.pc = IF driver = "envy" THEN "read" ELSE "send"
  BY <1>9 DEF Passed
<1>12. Hears(c, b, S, T, w)
  <2>1. CASE driver = "envy"
    <3>1. a.m = 0
      BY <1>3, <1>6, <2>1, EnvyIs DEF Good, Knows, EnvyKnows
    <3>2. w.lines = <<Line("welcome", 0)>> /\ Len(w.lines) = 1 /\ w.lines[1].tag = "welcome"
      BY <1>10, <2>1 DEF Greeting, Line
    <3>3. EnvySays(b.op, b.cmd.name, w.lines[1], S, T)
      BY <3>2 DEF EnvySays
    <3> QED
      BY <1>10, <1>11, <2>1, <3>1, <3>2, <3>3 DEF Hears, EnvyHears, Says
  <2>2. CASE driver # "envy"
    <3>1. w.lines = <<>> /\ Len(w.lines) = 0
      BY <1>10, <2>2 DEF Greeting
    <3> QED
      BY <1>10, <1>11, <2>2, <3>1 DEF Hears, KscpHears
  <2> QED
    BY <2>1, <2>2
<1>13. Stepped(c, b, w)
  BY <1>4, <1>5, <1>8 DEF Stepped
<1>14. \A x \in L : Belated(x) /\ x.by = conn[k].by
  BY <1>2, ConnIs, StrandedIs
<1>15. conn[k].by \in {c, None} /\ (driver = "appletv" => holder = c)
  BY <1>3, ByIs
<1>16. ~OnWire(c, w)
  BY <1>10 DEF OnWire
<1>17. LateFor(c, late \cup L) => LateFor(c, late) \/ OnWire(c, conn[k])
  BY <1>2, ConnIs, StrandedIs
<1>18. CountedFor(c, times[c], b, w, late')
  BY <1>2, <1>9, <1>16, <1>17, CountIs, SendingsNat DEF CountedFor, Bit01, Onward, Good
<1>19. LateOnce(c, b.cmd, late')
  BY <1>2, <1>11, ConnIs, StrandedIs
<1>20. Fits(c, b, w, late')
  BY <1>9, <1>10, <1>12, <1>18, <1>19 DEF Fits, T, Alike
<1> QED
  BY <1>2, <1>3, <1>4, <1>11, <1>13, <1>14, <1>15, <1>20, ClientStep

\* A connection that is changed in some of its fields.
LEMMA Rewired ==
  ASSUME NEW f, f = [j \in Keys |-> f[j]], NEW k \in Keys, NEW g, g = [j \in Keys |-> g[j]],
         \A j \in Keys \ {k} : g[j] = f[j], NEW w, g[k] = w
  PROVE  g = [f EXCEPT ![k] = w]
OBVIOUS

\* The connections when a command is written on k.
LEMMA SentOn ==
  ASSUME NEW f, f = [j \in Keys |-> f[j]], NEW k \in Keys,
         f[k] = [up |-> f[k].up, cmd |-> f[k].cmd, by |-> f[k].by, lines |-> f[k].lines],
         NEW x, NEW y, NEW g,
         g = [f EXCEPT ![k].cmd = x, ![k].by = y, ![k].lines = IF k = Session THEN <<>> ELSE @]
  PROVE  /\ g = [j \in Keys |-> g[j]] /\ \A j \in Keys \ {k} : g[j] = f[j]
         /\ g[k] = [up |-> f[k].up, cmd |-> x, by |-> y,
                    lines |-> IF k = Session THEN <<>> ELSE f[k].lines]
OBVIOUS

\* A command is written.
LEMMA SendStep ==
  ASSUME DInv, NEW c \in Clients, Send(c)
  PROVE  DInv' /\ Moved(c)
<1> DEFINE a == call[c]
           k == Conn(c)
           S == seen[c]
           T == times[c] > 0
           v == conn[k]
           open == v.up = "open"
<1>1. PICK w : w = [up |-> v.up, cmd |-> IF open THEN a.cmd ELSE None,
                    by |-> IF open THEN c ELSE None,
                    lines |-> IF k = Session THEN <<>> ELSE v.lines]
  OBVIOUS
<1>2. PICK L \in Stranded(k) : late' = late \cup L
  BY DEF Send
<1>3. PICK b : b = Sent(a)
  OBVIOUS
<1>4. UNCHANGED <<driver, dev, holder, times, seen>> /\ call' = [call EXCEPT ![c] = b]
      /\ a.pc = "send"
  BY <1>3 DEF Send, Becomes, history
<1>5. /\ Wire(k, v) /\ v.by \in {c, None} /\ (driver = "appletv" => holder = c)
      /\ k \in Keys /\ conn = [j \in Keys |-> conn[j]]
  BY <1>4, ByIs, ConnIs DEF DInv, Typed
<1>6. conn' = [conn EXCEPT ![k] = w]
  <2>1. PICK x, y : x = (IF open THEN a.cmd ELSE None) /\ y = IF open THEN c ELSE None
    OBVIOUS
  <2>2. conn' = [conn EXCEPT ![k].cmd = x, ![k].by = y,
        ![k].lines = IF k = Session THEN <<>> ELSE @]
    BY <2>1 DEF Send
  <2>3. v = [up |-> v.up, cmd |-> v.cmd, by |-> v.by, lines |-> v.lines]
    BY <1>5 DEF Wire
  <2>4. /\ conn' = [j \in Keys |-> conn'[j]] /\ \A j \in Keys \ {k} : conn'[j] = conn[j]
        /\ conn'[k] = [up |-> v.up, cmd |-> x, by |-> y,
                       lines |-> IF k = Session THEN <<>> ELSE v.lines]
    BY <1>5, <2>2, <2>3, SentOn
  <2>5. conn'[k] = w
    BY <1>1, <2>1, <2>4
  <2> QED
    BY ONLY <1>5, <2>4, <2>5, Rewired
<1> HIDE DEF T
<1>7. Good(a, S, T) /\ driver \in DriverNames /\ T \in BOOLEAN /\ Shape(a)
  BY CountIs DEF T
<1>8. /\ Written(a, b, S, T) /\ Onward(a, b, S, T)
      /\ b.pc = "return" \/ Passed(a, b, "read")
  BY <1>3, <1>4, <1>7, SentIs, PassesOn DEF Written
<1>9. driver # "appletv" => v.cmd = None /\ Hears(c, a, S, T, v) /\ k # Session
  BY <1>4, ConnIs DEF DInv, Links, Hears, T
<1>10. w.up = v.up /\ (w.cmd # None => w.cmd = a.cmd /\ w.by = c) /\ w.by \in {c, None}
       /\ w.lines = IF k = Session THEN <<>> ELSE v.lines
  BY <1>1
<1>11. Known(a.cmd)
  BY <1>4, <1>7, CommandIs
<1>12. Wire(k, w)
  <2>1. w = [up |-> w.up, cmd |-> w.cmd, by |-> w.by, lines |-> w.lines]
    BY <1>1
  <2>2. w.lines \in Seq(Lines)
    BY <1>5, <1>10 DEF Wire
  <2> QED
    BY <1>5, <1>10, <1>11, <2>1, <2>2 DEF Wire
<1>13. ASSUME b.pc \in {"send", "read"}
       PROVE  Hears(c, b, S, T, w)
  <2>1. b.cmd = a.cmd /\ b.op = a.op /\ b.m = a.m /\ b.pc = "read"
    BY <1>8, <1>13 DEF Passed
  <2>2. CASE driver = "appletv"
    <3>1. w.lines = <<>>
      BY <1>10, <2>2, ConnIs
    <3> QED
      BY <1>10, <2>1, <2>2, <3>1 DEF Hears
  <2>3. CASE driver # "appletv"
    <3>1. w.lines = v.lines /\ Hears(c, a, S, T, v)
      BY <1>9, <1>10, <2>3
    <3>2. driver = "kscp" => KscpHears(b, w)
      <4>1. a.cmd.name = "GET_CONTENT_DETAILS" /\ driver = "kscp" => a.m = 0
            /\ v.lines = <<>>
        BY <1>4, <1>7, <3>1 DEF Good, Knows, KscpKnows, Details, Listing, Hears, KscpHears
      <4> QED
        BY <2>1, <3>1, <4>1 DEF KscpHears
    <3>3. driver = "envy" => EnvyHears(b, w)
      <4>1. driver = "envy" => a.m = 1
        BY <1>4, <1>7 DEF Good, Knows, EnvyKnows
      <4> QED
        BY <2>1, <3>1, <4>1 DEF EnvyHears, Hears
    <3> QED
      BY <1>10, <2>1, <2>3, <3>1, <3>2, <3>3 DEF Hears
  <2> QED
    BY <2>2, <2>3
<1>14. Stepped(c, b, w)
  BY <1>4, <1>6 DEF Stepped
<1>15. \A x \in L : Belated(x) /\ x.by = v.by
  BY <1>2, <1>5, StrandedIs
<1>16. LateFor(c, late \cup L) => LateFor(c, late) \/ OnWire(c, v)
  BY <1>2, <1>5, StrandedIs
<1>17. CountedFor(c, times[c], b, w, late')
  <2>1. OnWire(c, w) => a.cmd.name \in Acting
    BY <1>10 DEF OnWire
  <2>2. Sendings(b) >= Sendings(a) + Bit01(a.cmd.name \in Acting) /\ Sendings(b) \in Nat
    BY <1>8, SendingsNat DEF Written, Onward, Good
  <2> QED
    BY <1>2, <1>16, <2>1, <2>2, CountIs DEF CountedFor, Bit01
<1>18. driver \in {"appletv", "envy"} => b.cmd = a.cmd
  BY <1>4, <1>8 DEF Onward
<1>19. LateOnce(c, b.cmd, late')
  <2>1. LateOnce(c, a.cmd, late')
    BY <1>2, <1>5, StrandedIs
  <2> QED
    BY <1>18, <2>1 DEF LateOnce
<1>20. Alike(c, b.cmd, w)
  BY <1>10, <1>18 DEF Alike
<1>21. Fits(c, b, w, late')
  BY <1>8, <1>10, <1>12, <1>13, <1>17, <1>19, <1>20 DEF Fits, T
<1>22. b.pc \in {"read", "return"}
  BY <1>8 DEF Passed
<1> QED
  BY <1>2, <1>4, <1>5, <1>14, <1>15, <1>21, <1>22, ClientStep

\* What is left when a line has been read, and some after it lost.
LEMMA Rest ==
  ASSUME NEW s \in Seq(Lines), s # <<>>, NEW n \in Nat, n <= Len(s) - 1,
         NEW t, t = SubSeq(s, 2 + n, Len(s))
  PROVE  /\ t \in Seq(Lines) /\ Len(t) = Len(s) - 1 - n /\ Len(t) \in Nat
         /\ \A i \in 1..Len(t) : t[i] = s[i + 1 + n] /\ i + 1 + n \in 2..Len(s)
         /\ Head(s) = s[1] /\ Len(s) >= 1 /\ Len(s) \in Nat
OBVIOUS

\* A call that has read goes on with what is left.
LEMMA ReadOn ==
  ASSUME NEW f, f = [j \in Keys |-> f[j]], NEW k \in Keys,
         f[k] = [up |-> f[k].up, cmd |-> f[k].cmd, by |-> f[k].by, lines |-> f[k].lines],
         NEW n, NEW g, g = [f EXCEPT ![k].lines = SubSeq(@, 2 + n, Len(@))]
  PROVE  /\ g = [j \in Keys |-> g[j]] /\ \A j \in Keys \ {k} : g[j] = f[j]
         /\ g[k] = [up |-> f[k].up, cmd |-> f[k].cmd, by |-> f[k].by,
                    lines |-> SubSeq(f[k].lines, 2 + n, Len(f[k].lines))]
OBVIOUS

\* A call has read a line l of v, and w is left.
LEMMA HeardStep ==
  ASSUME NEW c \in Clients, NEW a, NEW b, NEW S, NEW T, NEW v, NEW w, NEW n \in Nat,
         Hears(c, a, S, T, v), a.pc = "read", v.lines \in Seq(Lines), v.lines # <<>>,
         n <= Len(v.lines) - 1, w.lines = SubSeq(v.lines, 2 + n, Len(v.lines)),
         w.cmd = v.cmd, w.by = v.by, Good(a, S, T), Shape(a),
         HeardBy(a, b, S, T), b.pc \in {"send", "read"}
  PROVE  Hears(c, b, S, T, w)
<1> DEFINE s == v.lines
           t == w.lines
<1>1. /\ t \in Seq(Lines) /\ Len(t) = Len(s) - 1 - n /\ Len(s) \in Nat /\ Len(t) \in Nat
      /\ \A i \in 1..Len(t) : t[i] = s[i + 1 + n] /\ i + 1 + n \in 2..Len(s)
  BY Rest
<1> HIDE DEF s, t
<1>2. \A i \in 1..Len(s) : Says(a.op, a.cmd.name, s[i], S, T)
  BY DEF Hears, s
<1>3. \A i \in 1..Len(t) : Says(a.op, a.cmd.name, t[i], S, T)
  <2>1. \A i \in 2..Len(s) : Says(a.op, a.cmd.name, s[i], S, T)
    BY ONLY <1>1, <1>2
  <2> QED
    BY ONLY <1>1, <2>1, n \in Nat
<1>4. CASE driver = "kscp"
  <2>1. /\ b.op = a.op
        /\ a.op \in {"movie_details", "list_movies"}
        /\ \/ b.pc = "send" /\ a.m = 1 /\ b.m = 0
           \/ b.pc = "read" /\ b.cmd = a.cmd /\ b.m = IF a.m = 0 THEN DetailLines ELSE a.m - 1
    BY <1>4 DEF HeardBy, KscpHeard, Onward
  <2>0. /\ a.m \in Nat /\ DetailLines \in Nat \ {0} /\ Knows(b, S) /\ Knows(a, S)
        /\ b.pc # "idle" /\ a.op \in {"movie_details", "list_movies"}
    BY <1>4, <2>1, LimitsAssumption DEF Shape, HeardBy, KscpHeard, Onward, Good
  <2>8. a.cmd.name = "GET_CONTENT_DETAILS"
    <3>1. \/ Details(a)
          \/ a.m = 0 /\ Details(b)
      BY <1>4, <2>0, <2>1 DEF Knows, KscpKnows, Listing
    <3>2. a.m = 0 => b.pc = "read" /\ b.cmd = a.cmd
      BY <2>1
    <3> QED
      BY <3>1, <3>2 DEF Details
  <2>2. KscpHears(a, v) /\ a.m \in Nat /\ DetailLines \in Nat \ {0} /\ Knows(b, S)
    BY <1>4, <2>0 DEF Hears
  <2>3. v.cmd = None /\ w.cmd = None
    BY <2>1, <2>2, <2>8 DEF KscpHears
  <2>4. a.m > 0 => Len(s) <= a.m /\ \A i \in 1..Len(s) : s[i] = Line("detail", a.cmd.arg)
    BY <2>1, <2>2, <2>8 DEF KscpHears, s
  <2>5. a.m = 0 => \/ Len(s) = 1
                   \/ /\ Len(s) = DetailLines + 1
                      /\ \A i \in 2..Len(s) : s[i] = Line("detail", a.cmd.arg)
    <3>1. PICK z : z = <<Line("standby", 0)>>
      OBVIOUS
    <3>2. Len(z) = 1
      BY ONLY <3>1
    <3>3. a.m = 0 =>
            \/ s = z
            \/ /\ Len(s) = DetailLines + 1
               /\ \A i \in 2..Len(s) : s[i] = Line("detail", a.cmd.arg)
      BY <2>1, <2>2, <2>8, <3>1 DEF KscpHears, s
    <3> QED
      BY ONLY <3>2, <3>3
  <2>6. CASE b.pc = "send"
    <3>1. t = <<>> /\ Len(t) = 0
      BY <1>1, <2>1, <2>4, <2>6
    <3> QED
      BY <1>4, <2>1, <2>3, <2>6, <3>1 DEF Hears, KscpHears, t
  <2>7. CASE b.pc = "read"
    <3>1. Len(t) <= b.m /\ b.m \in Nat
      <4>1. CASE a.m > 0
        BY <1>1, <2>1, <2>2, <2>4, <2>7, <4>1
      <4>2. CASE a.m = 0
        <5>1. b.m = DetailLines
          BY <2>1, <2>7, <4>2
        <5>2. Len(s) <= DetailLines + 1
          <6>1. Len(s) = 1 \/ Len(s) = DetailLines + 1
            BY <2>5, <4>2
          <6>2. DetailLines \in Nat
            BY <2>2
          <6> QED
            BY ONLY <6>1, <6>2
        <5> QED
          BY ONLY <1>1, <2>2, <5>1, <5>2, n \in Nat
      <4> QED
        BY <2>2, <4>1, <4>2
    <3>2. \A i \in 1..Len(t) : t[i] = Line("detail", b.cmd.arg)
      <4>1. CASE a.m > 0
        <5>1. b.cmd = a.cmd
          BY <2>1, <2>7, <4>1
        <5>2. \A i \in 2..Len(s) : s[i] = Line("detail", a.cmd.arg)
          BY ONLY <1>1, <2>4, <4>1
        <5> QED
          BY ONLY <1>1, <5>1, <5>2, n \in Nat
      <4>2. CASE a.m = 0
        <5>1. b.cmd = a.cmd
          BY <2>1, <2>7, <4>2
        <5>2. \A i \in 2..Len(s) : s[i] = Line("detail", a.cmd.arg)
          BY ONLY <1>1, <2>5, <4>2
        <5> QED
          BY ONLY <1>1, <5>1, <5>2, n \in Nat
      <4> QED
        BY <2>2, <4>1, <4>2
    <3>3. b.m = 0 => t = <<>>
      BY <1>1, <3>1
    <3>4. KscpHears(b, w)
      BY ONLY <2>1, <2>3, <2>7, <3>1, <3>2, <3>3 DEF KscpHears, t
    <3>5. b.op = a.op /\ b.cmd = a.cmd
      BY <2>1, <2>7
    <3>6. \A i \in 1..Len(w.lines) : Says(b.op, b.cmd.name, w.lines[i], S, T)
      BY <1>3, <3>5 DEF t
    <3> QED
      BY ONLY <1>4, <2>3, <2>7, <3>4, <3>6 DEF Hears
  <2> QED
    BY ONLY <2>1, <2>6, <2>7
<1>5. CASE driver = "envy"
  <2>1. /\ b.op = a.op /\ b.cmd = a.cmd
        /\ (b.pc = "send" /\ a.m = 0 /\ b.m = 1) \/ (b.pc = "read" /\ a.m # 0 /\ b.m # 0)
    BY <1>5 DEF HeardBy, EnvyHeard, Onward
  <2>2. /\ a.m = 0 => v.cmd = None
        /\ \A i \in 1..Len(s) : s[i].tag = "welcome" => i = 1
    BY <1>5 DEF Hears, EnvyHears, s
  <2>3. \A i \in 1..Len(t) : t[i].tag # "welcome"
    <3>1. \A i \in 2..Len(s) : s[i].tag # "welcome"
      BY ONLY <1>1, <2>2
    <3> QED
      BY ONLY <1>1, <3>1, n \in Nat
  <2>4. EnvyHears(b, w)
    BY ONLY <2>1, <2>3 DEF EnvyHears, t
  <2>5. w.cmd # None => w.cmd = b.cmd /\ w.by = c
    BY <2>1 DEF Hears
  <2>6. \A i \in 1..Len(w.lines) : Says(b.op, b.cmd.name, w.lines[i], S, T)
    BY <1>3, <2>1 DEF t
  <2>7. b.pc = "send" => w.cmd = None
    BY <2>1, <2>2
  <2> QED
    BY ONLY <1>5, <2>4, <2>5, <2>6, <2>7 DEF Hears
<1>6. CASE driver \notin {"kscp", "envy"}
  <2>1. b.op = a.op /\ b.cmd = a.cmd /\ b.pc = "read"
    BY <1>6 DEF HeardBy, Heard, Onward
  <2>2. v.cmd # None => v.cmd = a.cmd /\ v.by = c
    BY DEF Hears
  <2> QED
    BY <1>3, <1>6, <2>1, <2>2 DEF Hears, t
<1> QED
  BY <1>4, <1>5, <1>6

\* What is read of a line.
LEMMA PartsAre ==
  ASSUME NEW h, NEW l \in Parts(h)
  PROVE  \/ l = h
         \/ driver \in {"udp203", "pj_talk"} /\ l = Line("part", 0)
         \/ driver = "udp203" /\ h.tag = "@OK" /\ l = Line("@OK", 0)
BY SameWords DEF Parts, Oppo!Parts, Pj!Parts

\* A line is read, and some of the next ones may be lost.
LEMMA ReadStep ==
  ASSUME DInv, NEW c \in Clients, Read(c)
  PROVE  DInv' /\ Moved(c)
<1> DEFINE a == call[c]
           k == Conn(c)
           S == seen[c]
           T == times[c] > 0
           v == conn[k]
           ls == v.lines
<1>1. a.pc = "read" /\ ls # <<>> /\ UNCHANGED <<driver, dev, holder, late, times, seen>>
  BY DEF Read
<1>2. /\ Wire(k, v) /\ v.by \in {c, None} /\ (driver = "appletv" => holder = c)
      /\ k \in Keys /\ conn = [j \in Keys |-> conn[j]]
  BY <1>1, ByIs, ConnIs DEF DInv, Typed
<1>3. ls \in Seq(Lines) /\ Len(ls) >= 1 /\ Len(ls) \in Nat /\ Head(ls) = ls[1]
  <2>1. ls \in Seq(Lines)
    BY <1>2 DEF Wire
  <2> QED
    BY <1>1, <2>1
<1>4. PICK n \in Nat, l \in Parts(Head(ls)) :
        /\ n <= Len(ls) - 1
        /\ conn' = [conn EXCEPT ![k].lines = SubSeq(@, 2 + n, Len(@))]
        /\ call' = [call EXCEPT ![c] = Hear(a, l)]
  <2>1. PICK loses \in BOOLEAN : loses <=> driver = "kscp" /\ Kscp!DropsReader(a)
    OBVIOUS
  <2>2. PICK n \in 0 .. (IF loses THEN Len(ls) - 1 ELSE 0), l \in Parts(Head(ls)) :
          /\ conn' = [conn EXCEPT ![k].lines = SubSeq(@, 2 + n, Len(@))]
          /\ call' = [call EXCEPT ![c] = Hear(a, l)]
    BY ONLY <2>1, Read(c) DEF Read, Becomes
  <2>3. n \in Nat /\ n <= Len(ls) - 1
    BY ONLY <1>3, <2>1, n \in 0 .. (IF loses THEN Len(ls) - 1 ELSE 0)
  <2> QED
    BY <2>2, <2>3
<1>21. \/ l = Head(ls)
       \/ driver \in {"udp203", "pj_talk"} /\ l = Line("part", 0)
       \/ driver = "udp203" /\ Head(ls).tag = "@OK" /\ l = Line("@OK", 0)
  BY PartsAre
<1>5. PICK w : w = [up |-> v.up, cmd |-> v.cmd, by |-> v.by, lines |-> SubSeq(ls, 2 + n, Len(ls))]
  OBVIOUS
<1>6. conn' = [conn EXCEPT ![k] = w]
  <2>1. v = [up |-> v.up, cmd |-> v.cmd, by |-> v.by, lines |-> v.lines]
    BY <1>2 DEF Wire
  <2>2. /\ conn' = [j \in Keys |-> conn'[j]] /\ \A j \in Keys \ {k} : conn'[j] = conn[j]
        /\ conn'[k] = w
    BY <1>2, <1>4, <1>5, <2>1, ReadOn
  <2> QED
    BY ONLY <1>2, <2>2, Rewired
<1> HIDE DEF T
<1>7. Good(a, S, T) /\ driver \in DriverNames /\ T \in BOOLEAN /\ Shape(a)
  BY CountIs DEF T
<1>8. Hears(c, a, S, T, v)
  BY <1>1 DEF DInv, Links, T
<1>9. Says(a.op, a.cmd.name, l, S, T)
  <2>1. Says(a.op, a.cmd.name, ls[1], S, T)
    BY <1>1, <1>3, <1>8 DEF Hears
  <2>2. CASE l = Head(ls)
    BY <1>3, <2>1, <2>2
  <2>3. CASE driver \in {"udp203", "pj_talk"} /\ l = Line("part", 0)
    <3>1. l.tag = "part"
      BY <2>3 DEF Line
    <3> QED
      BY <2>3, <3>1 DEF Says, OppoSays, PjSays
  <2>4. CASE driver = "udp203" /\ Head(ls).tag = "@OK" /\ l = Line("@OK", 0)
    <3>1. l.tag = "@OK" /\ l.val = 0 /\ ls[1].tag = "@OK"
      BY <1>3, <2>4 DEF Line
    <3> QED
      BY <2>1, <2>4, <3>1 DEF Says, OppoSays
  <2> QED
    BY <1>21, <2>2, <2>3, <2>4
<1>10. driver = "kscp" => DetailsLine(a, l)
  <2>1. ASSUME driver = "kscp", a.cmd.name = "GET_CONTENT_DETAILS"
        PROVE  IF a.m > 0 THEN l = Line("detail", a.cmd.arg)
               ELSE l.tag = "standby" \/ l = Line("overview", DetailLines)
    <3>1. l = ls[1] /\ KscpHears(a, v)
      BY <1>3, <1>8, <1>21, <2>1 DEF Hears
    <3>2. a.m > 0 => ls[1] = Line("detail", a.cmd.arg)
      BY <1>1, <1>3, <2>1, <3>1 DEF KscpHears
    <3>3. ~(a.m > 0) => ls = <<Line("standby", 0)>> \/ ls[1] = Line("overview", DetailLines)
      BY <1>1, <2>1, <3>1 DEF KscpHears
    <3>4. ls = <<Line("standby", 0)>> => ls[1].tag = "standby"
      BY DEF Line
    <3> QED
      BY <3>1, <3>2, <3>3, <3>4
  <2> QED
    BY <2>1 DEF DetailsLine
<1>11. driver = "envy" /\ a.m # 0 => l.tag # "welcome"
  <2>1. driver = "envy" => l = ls[1] /\ EnvyHears(a, v)
    BY <1>3, <1>8, <1>21 DEF Hears
  <2>2. 1 \in 1..Len(ls)
    BY ONLY <1>3
  <2> QED
    BY ONLY <2>1, <2>2 DEF EnvyHears
<1>12. PICK b : b = Hear(a, l)
  OBVIOUS
<1>13. HeardBy(a, b, S, T)
  BY <1>1, <1>7, <1>9, <1>10, <1>11, <1>12, HearIs
<1>14. Onward(a, b, S, T) /\ b.pc \in {"connect", "send", "read", "return"}
  <2>1. CASE driver = "kscp"
    BY <1>13, <2>1 DEF HeardBy, KscpHeard
  <2>2. CASE driver = "envy"
    BY <1>13, <2>2 DEF HeardBy, EnvyHeard
  <2>3. CASE driver \notin {"kscp", "envy"}
    BY <1>13, <2>3 DEF HeardBy, Heard
  <2> QED
    BY <2>1, <2>2, <2>3
<1>15. w.lines = SubSeq(ls, 2 + n, Len(ls)) /\ w.cmd = v.cmd /\ w.by = v.by /\ w.up = v.up
  BY <1>5
<1>16. b.pc \in {"send", "read"} => Hears(c, b, S, T, w)
  BY <1>1, <1>3, <1>4, <1>7, <1>8, <1>13, <1>15, HeardStep
<1>17. Wire(k, w)
  <2>1. w.lines \in Seq(Lines)
    BY <1>1, <1>3, <1>4, <1>15, Rest
  <2> QED
    BY <1>2, <1>5, <2>1 DEF Wire
<1>18. CountedFor(c, times[c], b, w, late) /\ LateOnce(c, b.cmd, late) /\ Alike(c, b.cmd, w)
  <2>1. Sendings(b) \in Nat /\ Sendings(b) >= Sendings(a)
    BY <1>14, SendingsNat DEF Onward, Good
  <2>2. driver \in {"appletv", "envy"} => b.cmd = a.cmd
    BY <1>1, <1>14 DEF Onward
  <2>3. OnWire(c, w) = OnWire(c, v)
    BY <1>15 DEF OnWire
  <2>4. CountedFor(c, times[c], b, w, late)
    BY <2>1, <2>3, CountIs DEF CountedFor, Bit01
  <2>5. LateOnce(c, a.cmd, late) /\ Alike(c, a.cmd, v)
    BY DEF DInv, Counting
  <2> QED
    BY <1>15, <2>2, <2>4, <2>5 DEF LateOnce, Alike
<1>19. Stepped(c, b, w)
  BY <1>1, <1>4, <1>6, <1>12 DEF Stepped
<1>20. Fits(c, b, w, late')
  BY <1>1, <1>2, <1>14, <1>15, <1>16, <1>17, <1>18 DEF Fits, T
<1> QED
  BY <1>1, <1>2, <1>14, <1>19, <1>20, ClientStep

\* A datagram of the Wake-on-LAN burst.
LEMMA WakeStep ==
  ASSUME DInv, NEW c \in Clients, Wake(c)
  PROVE  DInv' /\ Moved(c)
<1> DEFINE a == call[c]
           k == Conn(c)
           S == seen[c]
           T == times[c] > 0
           v == conn[k]
           z == [cmd |-> a.cmd, by |-> c]
<1>1. PICK sent \in BOOLEAN, L \in {{}, {z}} :
        late' = late \cup L /\ call' = [call EXCEPT ![c] = Mvr!Woken(a, sent)]
  BY DEF Wake, Becomes
<1>2. a.pc = "wake" /\ UNCHANGED <<driver, dev, conn, holder, times, seen>>
  BY DEF Wake
<1>3. PICK b : b = Mvr!Woken(a, sent)
  OBVIOUS
<1> HIDE DEF T
<1>4. /\ Good(a, S, T) /\ driver \in DriverNames /\ T \in BOOLEAN /\ Shape(a)
      /\ driver = "envy" /\ a.op = "turn_on"
  BY <1>2, CountIs, WhoseIs DEF T
<1>5. /\ Onward(a, b, S, T) /\ b.pc \in {"wake", "return"} /\ Sendings(b) >= Sendings(a) + 1
      /\ b.cmd = a.cmd
  BY <1>2, <1>3, <1>4, EnvyWoken DEF Onward
<1>6. Wire(k, v) /\ v.by \in {c, None} /\ conn = [conn EXCEPT ![k] = v]
  BY <1>4, ByIs
<1>7. z = [cmd |-> z.cmd, by |-> z.by] /\ z.cmd = a.cmd /\ z.by = c
  OBVIOUS
<1> HIDE DEF z
<1>8. Belated(z)
  <2>0. Known(a.cmd)
    BY <1>2, <1>4, CommandIs
  <2>1. a.cmd.name = "WAKE"
    <3>1. Knows(a, S)
      BY <1>2, <1>4 DEF Good
    <3>2. a.cmd = Command("WAKE", 0)
      BY <1>4, <3>1 DEF Knows, EnvyKnows
    <3> QED
      BY <3>2 DEF Command
  <2>2. a.cmd.name \in Acting
    BY <1>4, <2>1 DEF Acting, Mvr!Acting
  <2> QED
    BY <1>7, <2>0, <2>2 DEF Belated
<1>9. CountedFor(c, times[c], b, v, late')
  <2>1. Sendings(b) \in Nat
    BY <1>5, SendingsNat DEF Onward, Good
  <2> QED
    BY <1>5, <2>1, CountIs DEF CountedFor, Bit01
<1>10. LateOnce(c, b.cmd, late') /\ Alike(c, b.cmd, v)
  <2>1. LateOnce(c, a.cmd, late) /\ Alike(c, a.cmd, v)
    BY DEF DInv, Counting
  <2>2. \A x \in late : x = [cmd |-> x.cmd, by |-> x.by]
    BY DEF DInv, Belated
  <2>3. \A x \in late' : x.by = c => x = z
    BY <1>1, <1>4, <1>7, <2>1, <2>2 DEF LateOnce
  <2> QED
    BY <1>5, <1>7, <2>1, <2>3 DEF LateOnce, Alike
<1>11. Stepped(c, b, v)
  BY <1>1, <1>2, <1>3, <1>6 DEF Stepped
<1>12. Fits(c, b, v, late')
  BY <1>5, <1>6, <1>9, <1>10 DEF Fits, T
<1> QED
  BY <1>1, <1>2, <1>4, <1>7, <1>8, <1>11, <1>12, ClientStep

-----------------------------------------------------------------------------
(* A call begins and returns.                                              *)

\* Between calls a client owes nothing and is owed nothing.
LEMMA IdleIs ==
  ASSUME DInv, NEW c \in Clients, call[c].pc = "idle"
  PROVE  /\ times[c] = 0 /\ ~LateFor(c, late) /\ \A k \in Keys : conn[k].by # c
         /\ holder # c \/ driver # "appletv"
<1>1. Good(call[c], seen[c], times[c] > 0) /\ times[c] \in Nat
  BY CountIs
<1>2. times[c] = 0
  BY <1>1 DEF Good
<1>3. \A k \in Keys : conn[k].by # c
  BY ConnIs DEF DInv, Wires
<1>4. ~LateFor(c, late)
  <2>1. call[c].pc = "idle" /\ call[c].op = "none"
    BY <1>1 DEF Good, Start
  <2>2. Sendings(call[c]) = 0
    BY <2>1 DEF Sendings, Unsent
  <2>3. times[c] + Bit01(OnWire(c, conn[Conn(c)])) + Bit01(LateFor(c, late)) <= Sendings(call[c])
    BY CountIs
  <2> QED
    BY <1>2, <2>2, <2>3 DEF Bit01
<1>5. holder # c \/ driver # "appletv"
  BY DEF DInv, Locked
<1> QED
  BY <1>2, <1>3, <1>4, <1>5

\* A call begins.
LEMMA BeginStep ==
  ASSUME DInv, NEW c \in Clients, Begin(c)
  PROVE  DInv'
<1>1. PICK q \in Requests[driver] :
        /\ call' = [call EXCEPT ![c] = First(Start(q.op, q.arg))]
        /\ seen' = [seen EXCEPT ![c] =
                      {Reading([driver |-> driver, op |-> q.op, arg |-> q.arg], dev)}]
  BY DEF Begin, Becomes
<1>2. UNCHANGED <<driver, dev, conn, holder, late, times>> /\ call[c].pc = "idle"
  BY DEF Begin
<1>3. driver \in DriverNames /\ dev \in States
  BY DEF DInv, Typed
<1>4. Asked(q.op, q.arg)
  <2>1. q = [op |-> q.op, arg |-> q.arg]
    BY <1>3, RequestsAssumption
  <2> QED
    BY <2>1 DEF Asked
<1> DEFINE r == Reading([driver |-> driver, op |-> q.op, arg |-> q.arg], dev)
           S == {r}
<1>5. MaySee(q.op, S)
  BY <1>3, ReadingIs
<1>6. PICK b : b = First(Start(q.op, q.arg))
  OBVIOUS
<1> HIDE DEF r
<1>7. Begun(b, q.op, q.arg, S) /\ (driver = "appletv" => b.pc = "lock")
  BY <1>3, <1>4, <1>5, <1>6, FirstIs
<1>8. /\ times[c] = 0 /\ ~LateFor(c, late) /\ \A k \in Keys : conn[k].by # c
      /\ holder # c \/ driver # "appletv"
  BY <1>2, IdleIs
<1>9. /\ call' = [d \in Clients |-> call'[d]] /\ seen' = [d \in Clients |-> seen'[d]]
      /\ call'[c] = b /\ seen'[c] = S
      /\ \A d \in Clients \ {c} : call'[d] = call[d] /\ seen'[d] = seen[d]
  BY <1>1, <1>6 DEF DInv, Typed, r
<1>10. Typed'
  BY <1>2, <1>9, SameDriver DEF DInv, Typed
<1>11. b.pc \in {"lock", "connect", "wake"} /\ b.op = q.op /\ b.arg = q.arg
  BY <1>7 DEF Begun
<1>12. Records'
  <2>1. ASSUME NEW d \in Clients
        PROVE  Good(call'[d], seen'[d], times[d] > 0)
    <3>1. CASE d = c
      <4> DEFINE T == times[c] > 0
      <4>1. T = FALSE
        BY <1>8
      <4> HIDE DEF T
      <4>2. Good(b, S, T)
        BY <1>7, <4>1 DEF Begun
      <4> QED
        BY <1>9, <3>1, <4>2 DEF T
    <3>2. CASE d # c
      BY <1>9, <3>2 DEF DInv, Records
    <3> QED
      BY <3>1, <3>2
  <2>2. ASSUME NEW d \in Clients, call'[d].pc \notin {"idle", "return"}
        PROVE  Reading(RequestOf(call'[d]), dev) \in seen'[d]
    <3>1. CASE d = c
      BY <1>9, <1>11, <3>1 DEF RequestOf, r
    <3>2. CASE d # c
      BY <1>9, <2>2, <3>2 DEF DInv, Records, Saw
    <3> QED
      BY <3>1, <3>2
  <2> QED
    BY <1>2, <2>1, <2>2, SameDriver DEF Records, Saw
<1>13. Wires'
  <2>1. ASSUME NEW k \in Keys
        PROVE  Wire(k, conn[k]) /\ (conn[k].by # None => call'[conn[k].by].pc # "idle")
    <3>1. conn[k].by # None => conn[k].by \in Clients \ {c} /\ call[conn[k].by].pc # "idle"
      BY <1>8 DEF DInv, Wires, Wire
    <3> QED
      BY <1>9, <3>1 DEF DInv, Wires
  <2> QED
    BY <1>2, <2>1, SameDriver DEF Wires
<1>14. \A x \in late' : Belated(x)'
  BY <1>2, SameDriver DEF DInv
<1>15. Locked'
  BY <1>2, <1>7, <1>8, <1>9 DEF DInv, Locked
<1>16. Links'
  <2>1. ASSUME NEW d \in Clients, call'[d].pc \in {"send", "read"}
        PROVE  Hears(d, call'[d], seen'[d], times[d] > 0, conn[Conn(d)])
    <3>1. d # c
      BY <1>9, <1>11, <2>1
    <3> QED
      BY <1>9, <2>1, <3>1 DEF DInv, Links
  <2> QED
    BY <1>2, <2>1, SameDriver DEF Links
<1>17. Counting'
  <2>1. ASSUME NEW d \in Clients
        PROVE  /\ CountedFor(d, times[d], call'[d], conn[Conn(d)], late)
               /\ LateOnce(d, call'[d].cmd, late)
               /\ Alike(d, call'[d].cmd, conn[Conn(d)])
    <3>1. CASE d = c
      <4>1. ~OnWire(c, conn[Conn(c)]) /\ conn[Conn(c)].by # c
        BY <1>8, ConnIs DEF OnWire
      <4>2. Sendings(b) >= 0 /\ Sendings(b) \in Nat
        BY <1>7, SendingsNat DEF Begun, Good
      <4>3. CountedFor(c, times[c], b, conn[Conn(c)], late)
        BY <1>8, <4>1, <4>2 DEF CountedFor, Bit01
      <4>4. LateOnce(c, b.cmd, late) /\ Alike(c, b.cmd, conn[Conn(c)])
        BY <1>8, <4>1 DEF LateOnce, Alike, LateFor
      <4> QED
        BY <1>9, <3>1, <4>3, <4>4
    <3>2. CASE d # c
      BY <1>9, <3>2 DEF DInv, Counting
    <3> QED
      BY <3>1, <3>2
  <2> QED
    BY <1>2, <2>1, SameDriver DEF Counting
<1> QED
  BY <1>10, <1>12, <1>13, <1>14, <1>15, <1>16, <1>17 DEF DInv

\* A late command whose call has returned is nobody's.
LEMMA OrphanIs ==
  ASSUME NEW x, NEW c, c # None, x = [cmd |-> x.cmd, by |-> x.by], NEW y, y = Orphan(x, c)
  PROVE  /\ y = [cmd |-> y.cmd, by |-> y.by] /\ y.cmd = x.cmd /\ y.by # c
         /\ y.by = None \/ y = x
BY DEF Orphan

\* A call returns; what it has left behind is nobody's.
LEMMA ReturnStep ==
  ASSUME DInv, NEW c \in Clients, Return(c)
  PROVE  DInv'
<1> DEFINE k == Conn(c)
           v == conn[k]
<1>1. PICK b : b = Start("none", 0)
  OBVIOUS
<1>2. /\ call[c].pc = "return" /\ driver' = driver /\ dev' = dev
      /\ call' = [call EXCEPT ![c] = b] /\ seen' = [seen EXCEPT ![c] = {}]
      /\ times' = [times EXCEPT ![c] = 0]
      /\ holder' = IF holder = c THEN None ELSE holder
  BY <1>1 DEF Return, Becomes
<1>3. /\ Wire(k, v) /\ v.by \in {c, None} /\ (driver = "appletv" => holder = c)
      /\ k \in Keys /\ conn = [j \in Keys |-> conn[j]]
  BY <1>2, ByIs, ConnIs DEF DInv, Typed
<1>4. PICK w, L :
        /\ L \in Stranded(k)
        /\ conn' = [conn EXCEPT ![k] = w] /\ late' = {Orphan(x, c) : x \in late \cup L}
        /\ driver = "appletv" => L = {}
        /\ Wire(k, w) /\ w.by = None
  <2>1. CASE driver = "appletv"
    <3>1. PICK w : w = [up |-> v.up, cmd |-> v.cmd, by |-> None, lines |-> v.lines]
      OBVIOUS
    <3>2. Orphan(v, c) = w
      BY <1>3, <3>1 DEF Orphan, Wire
    <3>3. conn' = [conn EXCEPT ![k] = w] /\ late' = {Orphan(x, c) : x \in late \cup {}}
      BY <2>1, <3>2, ConnIs DEF Return
    <3>4. Wire(k, w) /\ w.by = None
      BY <1>3, <3>1 DEF Wire
    <3>5. {} \in Stranded(k)
      BY DEF Stranded
    <3> QED
      BY <3>3, <3>4, <3>5
  <2>2. CASE driver # "appletv"
    <3>1. k = c
      BY <2>2, ConnIs
    <3>2. Wire(k, NoConn) /\ NoConn.by = None
      BY DEF Wire, NoConn
    <3>3. PICK L \in Stranded(k) : late' = {Orphan(x, c) : x \in late \cup L}
      BY <2>2, <3>1 DEF Return
    <3>4. conn' = [conn EXCEPT ![k] = NoConn]
      BY <2>2, <3>1 DEF Return
    <3> QED
      BY <2>2, <3>2, <3>3, <3>4
  <2> QED
    BY <2>1, <2>2
<1>5. /\ call' = [d \in Clients |-> call'[d]] /\ seen' = [d \in Clients |-> seen'[d]]
      /\ conn' = [j \in Keys |-> conn'[j]] /\ times' \in [Clients -> Nat]
      /\ call'[c] = b /\ seen'[c] = {} /\ times'[c] = 0 /\ conn'[k] = w
      /\ \A d \in Clients \ {c} :
           call'[d] = call[d] /\ seen'[d] = seen[d] /\ times'[d] = times[d]
      /\ \A j \in Keys \ {k} : conn'[j] = conn[j]
  BY <1>2, <1>3, <1>4 DEF DInv, Typed
<1>6. Typed'
  BY <1>2, <1>5, SameDriver DEF DInv, Typed
<1>7. b.pc = "idle" /\ b.op = "none" /\ b.arg = 0 /\ Shape(b) /\ b.cmd = None
  BY <1>1 DEF Start, Shape
<1>8. Records'
  <2>1. ASSUME NEW d \in Clients
        PROVE  Good(call'[d], seen'[d], times'[d] > 0)
    <3>1. CASE d = c
      <4> DEFINE T == times'[c] > 0
      <4>1. T = FALSE
        BY <1>5
      <4> HIDE DEF T
      <4>2. Good(b, {}, T)
        BY <1>1, <1>7, <4>1 DEF Good, MaySee
      <4> QED
        BY <1>5, <3>1, <4>2 DEF T
    <3>2. CASE d # c
      BY <1>5, <3>2 DEF DInv, Records
    <3> QED
      BY <3>1, <3>2
  <2>2. ASSUME NEW d \in Clients, call'[d].pc \notin {"idle", "return"}
        PROVE  Reading(RequestOf(call'[d]), dev) \in seen'[d]
    <3>1. d # c
      BY <1>5, <1>7, <2>2
    <3> QED
      BY <1>5, <2>2, <3>1 DEF DInv, Records, Saw
  <2> QED
    BY <1>2, <2>1, <2>2, SameDriver DEF Records, Saw
<1>9. Wires'
  <2>1. ASSUME NEW j \in Keys
        PROVE  Wire(j, conn'[j]) /\ (conn'[j].by # None => call'[conn'[j].by].pc # "idle")
    <3>1. CASE j = k
      BY <1>4, <1>5, <3>1
    <3>2. CASE j # k
      <4>1. conn'[j] = conn[j] /\ Wire(j, conn[j])
        BY <1>5, <3>2 DEF DInv, Wires
      <4>2. conn[j].by # None => conn[j].by \in Clients \ {c} /\ call[conn[j].by].pc # "idle"
        BY <3>2, <4>1 DEF DInv, Wires, Wire
      <4> QED
        BY <1>5, <4>1, <4>2
    <3> QED
      BY <3>1, <3>2
  <2> QED
    BY <1>2, <2>1, SameDriver DEF Wires
<1>10. \A x \in late \cup L : Belated(x) /\ x = [cmd |-> x.cmd, by |-> x.by]
  <2>1. \A x \in late \cup L : Belated(x)
    BY <1>3, <1>4, StrandedIs DEF DInv
  <2> QED
    BY <2>1 DEF Belated
<1>11. \A y \in late' : /\ Belated(y) /\ y.by # c
                        /\ y.by # None => y \in late \cup L
  <2>1. ASSUME NEW y \in late'
        PROVE  Belated(y) /\ y.by # c /\ (y.by # None => y \in late \cup L)
    <3>1. PICK x \in late \cup L : y = Orphan(x, c)
      BY <1>4
    <3>2. /\ y = [cmd |-> y.cmd, by |-> y.by] /\ y.cmd = x.cmd /\ y.by # c
          /\ y.by = None \/ y = x
      BY <1>10, <3>1, ConnIs, OrphanIs
    <3> QED
      BY <1>10, <3>2 DEF Belated
  <2> QED
    BY <2>1
<1>12. \A x \in late' : Belated(x)'
  BY <1>2, <1>11, SameDriver
<1>13. Locked'
  <2>1. CASE driver = "appletv"
    <3>1. holder = c /\ holder' = None /\ k = Session
      BY <1>2, <1>3, <2>1, ConnIs
    <3>2. \A d \in Clients : call'[d].pc \notin {"connect", "send", "read", "return"}
      BY <1>5, <1>7, <2>1, <3>1 DEF DInv, Locked
    <3> QED
      BY <1>2, <1>4, <1>5, <3>1, <3>2, ConnIs DEF Locked
  <2>2. CASE driver # "appletv"
    BY <1>2, <2>2 DEF DInv, Locked
  <2> QED
    BY <2>1, <2>2
<1>14. \A d \in Clients \ {c} : driver # "appletv" => conn'[Conn(d)] = conn[Conn(d)]
  BY <1>5, ConnIs
<1>15. Links'
  <2>1. ASSUME NEW d \in Clients, call'[d].pc \in {"send", "read"}
        PROVE  Hears(d, call'[d], seen'[d], times'[d] > 0, conn'[Conn(d)])
    <3>1. d # c
      BY <1>5, <1>7, <2>1
    <3>2. driver # "appletv"
      BY <1>3, <1>5, <2>1, <3>1 DEF DInv, Locked
    <3> QED
      BY <1>5, <1>14, <2>1, <3>1, <3>2 DEF DInv, Links
  <2> QED
    BY <1>2, <2>1, SameDriver DEF Links
<1>16. Counting'
  <2>1. ASSUME NEW d \in Clients
        PROVE  /\ CountedFor(d, times'[d], call'[d], conn'[Conn(d)], late')
               /\ LateOnce(d, call'[d].cmd, late')
               /\ Alike(d, call'[d].cmd, conn'[Conn(d)])
    <3>1. CASE d = c
      <4>1. ~OnWire(c, w) /\ ~LateFor(c, late') /\ w.by # c
        BY <1>4, <1>11, ConnIs DEF OnWire, LateFor
      <4>2. CountedFor(c, 0, b, w, late')
        BY <1>7, <4>1, SendingsNat DEF CountedFor, Bit01
      <4>3. LateOnce(c, b.cmd, late') /\ Alike(c, b.cmd, w)
        BY <4>1 DEF LateOnce, Alike, LateFor
      <4> QED
        BY <1>5, <3>1, <4>2, <4>3
    <3>2. CASE d # c
      <4>1. LateFor(d, late') => LateFor(d, late)
        <5>1. LateFor(d, late') => LateFor(d, late \cup L)
          BY <1>11, ConnIs DEF LateFor
        <5>2. LateFor(d, late \cup L) => LateFor(d, late) \/ Conn(d) = k
          BY <1>3, <1>4, StrandedIs
        <5>3. Conn(d) = k => late \cup L = late
          BY <1>4, <3>2, ConnIs
        <5> QED
          BY <5>1, <5>2, <5>3
      <4>2. conn'[Conn(d)] = conn[Conn(d)] \/ conn'[Conn(d)].by # d
        BY <1>4, <1>5, <3>2, ConnIs
      <4>3. OnWire(d, conn'[Conn(d)]) => OnWire(d, conn[Conn(d)])
        BY <4>2 DEF OnWire
      <4>4. CountedFor(d, times[d], call[d], conn'[Conn(d)], late')
        BY <4>1, <4>3, CountIs DEF CountedFor, Bit01
      <4>5. LateOnce(d, call[d].cmd, late \cup L) /\ Alike(d, call[d].cmd, conn[Conn(d)])
        BY <1>3, <1>4, StrandedIs DEF DInv, Counting
      <4>6. LateOnce(d, call[d].cmd, late')
        BY <1>11, <4>5, ConnIs DEF LateOnce
      <4>7. Alike(d, call[d].cmd, conn'[Conn(d)])
        BY <4>2, <4>5 DEF Alike
      <4> QED
        BY <1>5, <3>2, <4>4, <4>6, <4>7
    <3> QED
      BY <3>1, <3>2
  <2> QED
    BY <1>2, <2>1, SameDriver DEF Counting
<1> QED
  BY <1>6, <1>8, <1>9, <1>12, <1>13, <1>15, <1>16 DEF DInv

-----------------------------------------------------------------------------
(* What devices do: they reply truly, and tell others truly.               *)

\* The lines ls are some of X.
Among(ls, X) == ls \in Seq(Lines) /\ \A i \in 1..Len(ls) : ls[i] \in X

\* No line, one, or two.
LEMMA AmongIs ==
  /\ \A X : Among(<<>>, X)
  /\ \A l \in Lines : Among(<<l>>, {l})
  /\ \A l, m \in Lines : Among(<<l, m>>, {l, m})
<1>1. \A X : Among(<<>>, X)
  BY DEF Among
<1>2. ASSUME NEW l \in Lines PROVE Among(<<l>>, {l})
  BY DEF Among
<1>3. ASSUME NEW l \in Lines, NEW m \in Lines PROVE Among(<<l, m>>, {l, m})
  <2>1. /\ <<l, m>> \in Seq(Lines) /\ Len(<<l, m>>) = 2
        /\ <<l, m>>[1] = l /\ <<l, m>>[2] = m
    OBVIOUS
  <2>2. \A i \in 1..2 : i = 1 \/ i = 2
    OBVIOUS
  <2> QED
    BY <2>1, <2>2 DEF Among
<1> QED
  BY <1>1, <1>2, <1>3

\* The values of a state that lines report.
LEMMA Settings01 ==
  ASSUME NEW s \in States
  PROVE  /\ s.aux \in Nat /\ 1 - s.aux \in {0, 1} /\ Bit(s) \in Nat /\ 1 - Bit(s) \in {0, 1}
         /\ \A n : PowerOf(n) \in {On, Off}
         /\ PowerOf(1) = On /\ PowerOf(0) = Off
<1>1. s.aux \in {0, 1} /\ Bit(s) \in {0, 1}
  BY DEF States, Bit
<1> QED
  BY <1>1 DEF PowerOf

\* Devices that are switched, or set.
LEMMA Switching ==
  ASSUME NEW s \in States, NEW p \in {On, Off}, NEW z, z = [s EXCEPT !.power = p]
  PROVE  z \in States /\ z.power = p /\ z.set = s.set /\ z.aux = s.aux
<1>1. z = [power |-> p, set |-> s.set, aux |-> s.aux]
  BY StatesAre
<1>2. z \in States
  BY ONLY s \in States, p \in {On, Off}, <1>1 DEF States
<1> QED
  BY ONLY <1>1, <1>2

\* A setting is changed.
LEMMA Setting ==
  ASSUME NEW s \in States, NEW v \in Settings[driver], NEW z, z = [s EXCEPT !.set = v]
  PROVE  z \in States /\ z.power = s.power /\ z.set = v /\ z.aux = s.aux
<1>1. z = [power |-> s.power, set |-> v, aux |-> s.aux]
  BY StatesAre
<1>2. z \in States
  BY ONLY s \in States, v \in Settings[driver], <1>1 DEF States
<1> QED
  BY ONLY <1>1, <1>2

\* The second one is toggled.
LEMMA Toggling ==
  ASSUME NEW s \in States, NEW z, z = [s EXCEPT !.aux = 1 - @]
  PROVE  z \in States /\ z.power = s.power /\ z.set = s.set
<1>1. z = [power |-> s.power, set |-> s.set, aux |-> 1 - s.aux]
  BY StatesAre
<1>2. 1 - s.aux \in {0, 1}
  BY Settings01
<1>3. z \in States
  BY ONLY s \in States, <1>1, <1>2 DEF States
<1> QED
  BY ONLY <1>1, <1>3

\* What r replies to the call a.
Replying(a, r, S, T) == \A i \in 1..Len(r.reply) : Says(a.op, a.cmd.name, r.reply[i], S, T)

\* What it tells every call that sees the state it leads to.
Telling(r) ==
  \A op, arg, name, S, T :
    Reading([driver |-> driver, op |-> op, arg |-> arg], r.state) \in S =>
      \A i \in 1..Len(r.tell) : Says(op, name, r.tell[i], S, T)

Reacts(r) ==
  /\ r.state \in States /\ r.reply \in Seq(Lines) /\ r.tell \in Seq(Lines)
  /\ r.close \in BOOLEAN /\ r.heeded \in BOOLEAN
  /\ Telling(r)
  /\ driver = "kscp" => r.tell = <<>>
  /\ driver = "envy" => /\ \A i \in 1..Len(r.reply) : r.reply[i].tag # "welcome"
                        /\ \A i \in 1..Len(r.tell) : r.tell[i].tag # "welcome"

\* The reply to a command that a call reads.
Serves(r, cmd) ==
  \A a, S, T :
    /\ a.cmd = cmd /\ a.pc = "read" /\ Knows(a, S) /\ Reading(RequestOf(a), r.state) \in S
    /\ r.heeded /\ cmd.name \in Acting => T
    => Replying(a, r, S, T)
-----------------------------------------------------------------------------
\* What the receiver's line says of its state.
AvmTrue(l, s) ==
  /\ l.tag = "Z1POW" => PowerOf(l.val) = s.power
  /\ l.tag = "Z1INP" => l.val = s.set
  /\ l.tag = "GCCECC" => l.val = s.aux

AvmTruths(s) == {l \in Lines : AvmTrue(l, s)}

\* What the receiver's lines say is true.
LEMMA AvmTruth ==
  ASSUME driver = "avm70", NEW s, NEW op, NEW arg, NEW name, NEW S, NEW T,
         Reading([driver |-> driver, op |-> op, arg |-> arg], s) \in S, NEW l \in AvmTruths(s)
  PROVE  Says(op, name, l, S, T)
<1> DEFINE q == [driver |-> driver, op |-> op, arg |-> arg]
<1>1. q.op = op
  OBVIOUS
<1> HIDE DEF q
<1>2. /\ op = "check_is_on" => Reading(q, s) = s.power
      /\ op = "current_input" => Reading(q, s) = s.set
      /\ op = "set_cec" => Reading(q, s) = s.aux
  BY <1>1 DEF Reading
<1>3. Reading(q, s) \in S
  BY DEF q
<1> QED
  BY <1>2, <1>3 DEF Says, AvmSays, AvmTruths, AvmTrue

\* The receiver's reactions, by the command.
LEMMA AvmReacts ==
  ASSUME driver = "avm70", NEW s \in States, NEW ls, Among(ls, AvmTruths(s)), NEW r,
         NEW h \in BOOLEAN, NEW t, t \in {<<>>, ls}, Is(r, s, ls, t, FALSE, h)
  PROVE  Reacts(r) /\ \A cmd : Serves(r, cmd)
<1>1. Among(t, AvmTruths(s))
  BY AmongIs
<1>2. /\ r.state = s /\ r.reply = ls /\ r.tell = t /\ r.close \in BOOLEAN /\ r.heeded \in BOOLEAN
  BY DEF Is
<1>3. Telling(r)
  BY <1>1, <1>2, AvmTruth DEF Telling, Among
<1>4. Reacts(r)
  BY <1>1, <1>2, <1>3 DEF Reacts, Among
<1>5. ASSUME NEW cmd, NEW a, NEW S, NEW T, Reading(RequestOf(a), r.state) \in S
      PROVE  Replying(a, r, S, T)
  BY <1>2, <1>5, AvmTruth DEF Replying, Among, RequestOf
<1> QED
  BY <1>4, <1>5 DEF Serves

\* Its lines are lines.
LEMMA AvmLines ==
  ASSUME NEW s \in States
  PROVE  /\ \A v \in Nat : PowerOf(v) = s.power => Line("Z1POW", v) \in AvmTruths(s)
         /\ s.set \in Nat => Line("Z1INP", s.set) \in AvmTruths(s)
         /\ Line("GCCECC", s.aux) \in AvmTruths(s)
         /\ \A t \in {"Z1PVOL", "Z1VOL", "!"} : \A v \in Nat : Line(t, v) \in AvmTruths(s)
<1>1. \A t \in {"Z1POW", "Z1INP", "GCCECC", "Z1PVOL", "Z1VOL", "!"}, v \in Nat :
        Line(t, v) \in Lines /\ Line(t, v).tag = t /\ Line(t, v).val = v
  <2>1. \A t, v : Line(t, v).tag = t /\ Line(t, v).val = v
    BY DEF Line
  <2> QED
    BY <2>1, LinesAre DEF Tags
<1>2. s.aux \in Nat
  BY Settings01
<1>3. \A l \in Lines : AvmTrue(l, s) => l \in AvmTruths(s)
  BY DEF AvmTruths
<1>4. ASSUME NEW v \in Nat, PowerOf(v) = s.power PROVE Line("Z1POW", v) \in AvmTruths(s)
  BY <1>1, <1>3, <1>4 DEF AvmTrue
<1>5. ASSUME s.set \in Nat PROVE Line("Z1INP", s.set) \in AvmTruths(s)
  BY <1>1, <1>3, <1>5 DEF AvmTrue
<1>6. Line("GCCECC", s.aux) \in AvmTruths(s)
  BY <1>1, <1>2, <1>3 DEF AvmTrue
<1>7. ASSUME NEW t \in {"Z1PVOL", "Z1VOL", "!"}, NEW v \in Nat
      PROVE  Line(t, v) \in AvmTruths(s)
  BY <1>1, <1>3, <1>7 DEF AvmTrue
<1> QED
  BY <1>4, <1>5, <1>6, <1>7

\* A command of the receiver is served.
LEMMA AvmDo ==
  ASSUME driver = "avm70", NEW s \in States, NEW l \in AvmTruths(s), NEW b \in BOOLEAN
  PROVE  /\ Reacts(Avm!React(s, <<l>>)) /\ \A cmd : Serves(Avm!React(s, <<l>>), cmd)
         /\ Reacts(Avm!Announce(s, <<l>>)) /\ \A cmd : Serves(Avm!Announce(s, <<l>>), cmd)
         /\ Reacts(Avm!Refuse(s, <<l>>)) /\ \A cmd : Serves(Avm!Refuse(s, <<l>>), cmd)
<1>1. /\ Avm!React(s, <<l>>) = React(s, <<l>>) /\ Avm!Announce(s, <<l>>) = Announce(s, <<l>>)
      /\ Avm!Refuse(s, <<l>>) = Refuse(s, <<l>>)
  BY DEF Avm!React, React, Avm!Announce, Announce, Avm!Refuse, Refuse
<1> DEFINE ls == <<l>>
<1>2. Among(ls, AvmTruths(s))
  BY AmongIs DEF AvmTruths, Among
<1> HIDE DEF ls
<1>3. /\ Is(React(s, ls), s, ls, <<>>, FALSE, TRUE) /\ Is(Announce(s, ls), s, ls, ls, FALSE, TRUE)
      /\ Is(Refuse(s, ls), s, ls, <<>>, FALSE, FALSE)
  BY ReactIs
<1>4. /\ Reacts(React(s, ls)) /\ \A cmd : Serves(React(s, ls), cmd)
      /\ Reacts(Announce(s, ls)) /\ \A cmd : Serves(Announce(s, ls), cmd)
      /\ Reacts(Refuse(s, ls)) /\ \A cmd : Serves(Refuse(s, ls), cmd)
  BY <1>2, <1>3, AvmReacts
<1> QED
  BY <1>1, <1>4 DEF ls

\* The list of the inputs is an answer to the call of inputs only.
LEMMA AvmLists ==
  ASSUME driver = "avm70", NEW s \in States, NEW cmd, cmd.name = "ICN?",
         NEW r, r = Avm!React(s, <<Avm!Line("ICN", Inputs)>>
                                   \o [i \in 1..Inputs |-> Avm!Line(Avm!InputTag[i], 0)])
  PROVE  Reacts(r) /\ Serves(r, cmd)
<1> DEFINE x == <<Line("ICN", Inputs)>>
           y == [i \in 1..Inputs |-> Line(Avm!InputTag[i], 0)]
<1>1. r = React(s, x \o y)
  BY DEF Avm!React, React, Avm!Line, Line
<1>2. x \in Seq(Lines) /\ y \in Seq(Lines)
  <2>1. Inputs \in Nat
    BY LimitsAssumption
  <2>2. Line("ICN", Inputs) \in Lines
    BY <2>1, LinesAre DEF Tags
  <2>3. \A i \in 1..Inputs : Line(Avm!InputTag[i], 0) \in Lines
    BY LinesAre DEF Tags
  <2> QED
    BY <2>1, <2>2, <2>3
<1> HIDE DEF x, y
<1> DEFINE ls == x \o y
<1>3. ls \in Seq(Lines)
  BY ONLY <1>2
<1> HIDE DEF ls
<1>4. Is(r, s, ls, <<>>, FALSE, TRUE)
  BY <1>1, ReactIs DEF ls
<1>5. Reacts(r)
  <2>1. /\ r.state = s /\ r.reply = ls /\ r.tell = <<>> /\ Len(r.tell) = 0
        /\ r.close \in BOOLEAN /\ r.heeded \in BOOLEAN
    BY <1>4 DEF Is
  <2>2. Telling(r)
    BY <2>1 DEF Telling
  <2>3. <<>> \in Seq(Lines)
    BY AmongIs DEF Among
  <2> QED
    BY ONLY driver = "avm70", s \in States, <1>3, <2>1, <2>2, <2>3 DEF Reacts
<1>6. ASSUME NEW a, NEW S, NEW T, a.cmd = cmd, Knows(a, S)
      PROVE  Replying(a, r, S, T)
  <2>1. a.op \in DOMAIN Avm!CommandFor /\ a.cmd.name \in {Avm!CommandFor[a.op], "Z1PVOL?"}
    BY <1>6 DEF Knows, AvmKnows, Command
  <2>2. a.op = "inputs"
    BY <1>6, <2>1 DEF Avm!CommandFor
  <2> QED
    BY <2>2 DEF Replying, Says, AvmSays
<1> QED
  BY <1>5, <1>6 DEF Serves

\* The receiver serves whatever its callers may send.
LEMMA AvmDoes ==
  ASSUME driver = "avm70", driver \in DriverNames, NEW cmd, Known(cmd), NEW s \in States,
         NEW r \in Avm!Does(cmd, s)
  PROVE  Reacts(r) /\ Serves(r, cmd)
<1>1. /\ cmd.name \in {Avm!CommandFor[op] : op \in DOMAIN Avm!CommandFor} \cup {"Z1PVOL?"}
      /\ cmd.name = "Z1INP" => cmd.arg \in Settings[driver]
      /\ cmd.name = "GCCECC" => cmd.arg \in {0, 1}
  BY DEF Known
<1>2. \A t, v : Avm!Line(t, v) = Line(t, v)
  BY DEF Avm!Line, Line
<1>3. Settings[driver] \subseteq Nat
  BY RequestsAssumption
<1>4. \A v : Avm!Bit(s) = Bit(s) /\ PowerOf(1) = On /\ PowerOf(0) = Off
  BY DEF Avm!Bit, Bit, PowerOf
<1>5. CASE r = Avm!Refuse(s, <<Avm!Line("!", 0)>>)
  BY <1>2, <1>5, AvmLines, AvmDo
<1>6. CASE r = Avm!Reaction(cmd, s)
  <2>1. CASE cmd.name \in {"Z1POW1", "Z1POW0"}
    <3> DEFINE n == IF cmd.name = "Z1POW1" THEN 1 ELSE 0
               z == [power |-> PowerOf(n), set |-> s.set, aux |-> s.aux]
               ls == <<Line("Z1POW", n)>>
    <3>1. r = Avm!Changed(s, z, ls)
      <4>1. z = IF n = 1 THEN [s EXCEPT !.power = On] ELSE [s EXCEPT !.power = Off]
        <5>1. [s EXCEPT !.power = On] = [power |-> On, set |-> s.set, aux |-> s.aux]
          BY StatesAre
        <5>2. [s EXCEPT !.power = Off] = [power |-> Off, set |-> s.set, aux |-> s.aux]
          BY StatesAre
        <5> QED
          BY <1>4, <5>1, <5>2
      <4>2. CASE cmd.name = "Z1POW1"
        BY <1>2, <1>6, <4>1, <4>2 DEF Avm!Reaction
      <4>3. CASE cmd.name = "Z1POW0"
        BY <1>2, <1>6, <4>1, <4>3 DEF Avm!Reaction
      <4> QED
        BY <2>1, <4>2, <4>3
    <3>2. z \in States /\ n \in Nat /\ PowerOf(n) = z.power
      BY <1>4, StatesAre
    <3> HIDE DEF z, n
    <3>3. Line("Z1POW", n) \in AvmTruths(z)
      BY <3>2, AvmLines
    <3>4. r = Avm!React(z, ls) \/ r = Avm!Announce(z, ls)
      BY <3>1 DEF Avm!Changed
    <3> QED
      BY <3>2, <3>3, <3>4, AvmDo
  <2>2. CASE cmd.name = "Z1POW?"
    <3>1. r = Avm!React(s, <<Line("Z1POW", Bit(s))>>)
      BY <1>2, <1>4, <1>6, <2>2 DEF Avm!Reaction
    <3>2. Line("Z1POW", Bit(s)) \in AvmTruths(s)
      BY StatesAre, AvmLines
    <3> QED
      BY <3>1, <3>2, AvmDo
  <2>3. CASE cmd.name = "Z1INP"
    <3> DEFINE z == [power |-> s.power, set |-> cmd.arg, aux |-> s.aux]
    <3>1. CASE s.set = cmd.arg
      <4>1. r = Avm!Refuse(s, <<>>)
        BY <1>6, <2>3, <3>1 DEF Avm!Reaction
      <4>2. r = Refuse(s, <<>>)
        BY <4>1 DEF Avm!Refuse, Refuse, Avm!React, React
      <4>3. Is(r, s, <<>>, <<>>, FALSE, FALSE)
        BY <4>2, ReactIs
      <4> QED
        BY <4>3, AmongIs, AvmReacts
    <3>2. CASE s.set # cmd.arg
      <4>1. r = Avm!Announce(z, <<Line("Z1INP", z.set)>>)
        BY <1>2, <1>6, <2>3, <3>2, StatesAre DEF Avm!Reaction
      <4>2. z \in States /\ z.set \in Nat
        BY <1>1, <1>3, <2>3, StatesAre
      <4> HIDE DEF z
      <4>3. Line("Z1INP", z.set) \in AvmTruths(z)
        BY <4>2, AvmLines
      <4> QED
        BY <4>1, <4>2, <4>3, AvmDo
    <3> QED
      BY <3>1, <3>2
  <2>4. CASE cmd.name = "Z1INP?"
    <3>1. r = Avm!React(s, <<Line("Z1INP", s.set)>>)
      BY <1>2, <1>6, <2>4 DEF Avm!Reaction
    <3>2. Line("Z1INP", s.set) \in AvmTruths(s)
      BY <1>3, StatesAre, AvmLines
    <3> QED
      BY <3>1, <3>2, AvmDo
  <2>5. CASE cmd.name = "GCCECC"
    <3> DEFINE z == [power |-> s.power, set |-> s.set, aux |-> cmd.arg]
    <3>1. r = Avm!React(z, <<Line("GCCECC", z.aux)>>)
      BY <1>2, <1>6, <2>5, StatesAre DEF Avm!Reaction
    <3>2. z \in States
      BY <1>1, <2>5, StatesAre
    <3> HIDE DEF z
    <3>3. Line("GCCECC", z.aux) \in AvmTruths(z)
      BY <3>2, AvmLines
    <3> QED
      BY <3>1, <3>2, <3>3, AvmDo
  <2>6. CASE cmd.name = "Z1PVOL"
    <3> DEFINE ls == <<Line("Z1PVOL", 0), Line("Z1VOL", 0)>>
    <3>1. r = Avm!Announce(s, ls)
      BY <1>2, <1>6, <2>6 DEF Avm!Reaction
    <3>2. r = Announce(s, ls)
      BY <3>1 DEF Avm!Announce, Announce, Avm!React, React
    <3>3. {Line("Z1PVOL", 0), Line("Z1VOL", 0)} \subseteq AvmTruths(s)
      BY AvmLines
    <3>4. Among(ls, AvmTruths(s))
      <4>1. Among(ls, {Line("Z1PVOL", 0), Line("Z1VOL", 0)})
        BY <3>3, AmongIs DEF AvmTruths
      <4> QED
        BY <3>3, <4>1 DEF Among
    <3> HIDE DEF ls
    <3>5. Is(r, s, ls, ls, FALSE, TRUE)
      BY <3>2, ReactIs
    <3> QED
      BY <3>4, <3>5, AvmReacts
  <2>7. CASE cmd.name \in {"Z1VUP", "Z1PVOL?", "Z1VOL?"}
    <3>1. PICK t \in {"Z1PVOL", "Z1VOL"} :
            r = Avm!Announce(s, <<Line(t, 0)>>) \/ r = Avm!React(s, <<Line(t, 0)>>)
      BY <1>2, <1>6, <2>7 DEF Avm!Reaction
    <3>2. Line(t, 0) \in AvmTruths(s)
      BY AvmLines
    <3> QED
      BY <3>1, <3>2, AvmDo
  <2>8. CASE cmd.name = "ICN?"
    <3>1. r = Avm!React(s, <<Avm!Line("ICN", Inputs)>>
                             \o [i \in 1..Inputs |-> Avm!Line(Avm!InputTag[i], 0)])
      BY <1>6, <2>8 DEF Avm!Reaction
    <3> QED
      BY <2>8, <3>1, AvmLists
  <2> QED
    BY <1>1, <2>1, <2>2, <2>3, <2>4, <2>5, <2>6, <2>7, <2>8 DEF Avm!CommandFor
<1> QED
  BY <1>5, <1>6 DEF Avm!Does

\* The receiver operated by hand.
LEMMA AvmTouched ==
  ASSUME driver = "avm70", driver \in DriverNames, NEW s \in States, NEW r \in Avm!Touched(s)
  PROVE  Reacts(r)
<1>1. \A t, v : Avm!Line(t, v) = Line(t, v)
  BY DEF Avm!Line, Line
<1>2. Avm!Bit(s) = Bit(s) /\ Avm!PowerOf(1 - Bit(s)) = PowerOf(1 - Bit(s))
  BY DEF Avm!Bit, Bit, Avm!PowerOf, PowerOf
<1>3. CASE r = Avm!Announce([s EXCEPT !.power = PowerOf(1 - Bit(s))], <<Line("Z1POW", 1 - Bit(s))>>)
  <2> DEFINE n == 1 - Bit(s)
             z == [power |-> PowerOf(n), set |-> s.set, aux |-> s.aux]
  <2>1. n \in Nat /\ PowerOf(n) \in {On, Off}
    BY Settings01
  <2>2. r = Avm!Announce(z, <<Line("Z1POW", n)>>)
    BY <1>3, StatesAre
  <2> HIDE DEF n
  <2>3. z \in States /\ z.power = PowerOf(n)
    BY <2>1, StatesAre
  <2> HIDE DEF z
  <2>4. Line("Z1POW", n) \in AvmTruths(z)
    BY <2>1, <2>3, AvmLines
  <2> QED
    BY <2>2, <2>3, <2>4, AvmDo
<1>4. ASSUME NEW i \in 1..Inputs, r = Avm!Announce([s EXCEPT !.set = i], <<Line("Z1INP", i)>>)
      PROVE  Reacts(r)
  <2> DEFINE z == [power |-> s.power, set |-> i, aux |-> s.aux]
  <2>1. r = Avm!Announce(z, <<Line("Z1INP", z.set)>>)
    BY <1>4, StatesAre
  <2>2. i \in Settings[driver] /\ i \in Nat
    BY RequestsAssumption
  <2>3. z \in States /\ z.set \in Nat
    BY <2>2, StatesAre
  <2> HIDE DEF z
  <2>4. Line("Z1INP", z.set) \in AvmTruths(z)
    BY <2>3, AvmLines
  <2> QED
    BY <2>1, <2>3, <2>4, AvmDo
<1>5. CASE r = Avm!React([s EXCEPT !.aux = 1 - @], <<>>)
  <2> DEFINE z == [power |-> s.power, set |-> s.set, aux |-> 1 - s.aux]
  <2>1. r = React(z, <<>>)
    BY <1>5, StatesAre DEF Avm!React, React
  <2>2. z \in States
    <3>1. 1 - s.aux \in {0, 1}
      BY Settings01
    <3> QED
      BY <3>1, StatesAre
  <2> HIDE DEF z
  <2>3. Is(r, z, <<>>, <<>>, FALSE, TRUE)
    BY <2>1, ReactIs
  <2> QED
    BY <2>2, <2>3, AmongIs, AvmReacts
<1> QED
  BY <1>1, <1>2, <1>3, <1>4, <1>5 DEF Avm!Touched

-----------------------------------------------------------------------------
\* What the true answers are.
LEMMA ReadingsAre ==
  ASSUME NEW op, NEW arg, NEW s
  PROVE  LET q == [driver |-> driver, op |-> op, arg |-> arg] IN
         /\ op = "check_is_on" => Reading(q, s) = s.power
         /\ op \in {"highlighted_section", "current_input", "picture_position", "aspect_ratio",
                    "get_video_input", "set_video_input", "play_movie"} => Reading(q, s) = s.set
         /\ op = "get_nearest_aspect_ratio" => Reading(q, s) = Mvr!nearest_aspect_ratio_int(s.set)
         /\ op \in {"check_is_muted", "toggle_mute"} =>
              Reading(q, s) = IF s.power = On THEN PowerOf(s.aux) ELSE Off
<1> DEFINE q == [driver |-> driver, op |-> op, arg |-> arg]
<1>1. q.op = op
  OBVIOUS
<1> HIDE DEF q
<1>2. /\ op = "check_is_on" => Reading(q, s) = s.power
      /\ op \in {"highlighted_section", "current_input", "picture_position", "aspect_ratio",
                 "get_video_input", "set_video_input", "play_movie"} => Reading(q, s) = s.set
      /\ op = "get_nearest_aspect_ratio" => Reading(q, s) = Mvr!nearest_aspect_ratio_int(s.set)
      /\ op \in {"check_is_muted", "toggle_mute"} =>
           Reading(q, s) = IF s.power = On THEN PowerOf(s.aux) ELSE Off
  BY <1>1 DEF Reading
<1> QED
  BY <1>2 DEF q

\* What the Envy's line says of its state.
EnvyTruths(s) ==
  {l \in Lines : l.tag \in {"OK", "ERROR", "ratio"} /\ (l.tag = "ratio" => l.val = s.set)}

\* What the Envy's lines say is true.
LEMMA EnvyTruth ==
  ASSUME driver = "envy", NEW s, s.set \in Nat, NEW op, NEW arg, NEW name, NEW S, NEW T,
         Reading([driver |-> driver, op |-> op, arg |-> arg], s) \in S, NEW l \in EnvyTruths(s)
  PROVE  Says(op, name, l, S, T) /\ l.tag # "welcome"
BY ReadingsAre DEF Says, EnvySays, EnvyTruths

\* The Envy's reactions, by the command.
LEMMA EnvyReacts ==
  ASSUME driver = "envy", driver \in DriverNames, NEW s \in States, NEW ls,
         Among(ls, EnvyTruths(s)), NEW r, NEW h \in BOOLEAN, NEW close \in BOOLEAN,
         NEW t, t \in {<<>>, ls}, Is(r, s, ls, t, close, h)
  PROVE  Reacts(r) /\ \A cmd : Serves(r, cmd)
<1>1. Among(t, EnvyTruths(s))
  BY AmongIs
<1>2. /\ r.state = s /\ r.reply = ls /\ r.tell = t /\ r.close \in BOOLEAN /\ r.heeded \in BOOLEAN
  BY DEF Is
<1>3. s.set \in Nat
  BY RequestsAssumption, StatesAre
<1>4. Telling(r)
  BY <1>1, <1>2, <1>3, EnvyTruth DEF Telling, Among
<1>5. \A l \in EnvyTruths(s) : l.tag # "welcome"
  BY DEF EnvyTruths
<1>6. Reacts(r)
  BY <1>1, <1>2, <1>4, <1>5 DEF Reacts, Among
<1>7. ASSUME NEW cmd, NEW a, NEW S, NEW T, Reading(RequestOf(a), r.state) \in S
      PROVE  Replying(a, r, S, T)
  BY <1>2, <1>3, <1>7, EnvyTruth DEF Replying, Among, RequestOf
<1> QED
  BY <1>6, <1>7 DEF Serves

\* Its lines are lines.
LEMMA EnvyLines ==
  ASSUME NEW s \in States, s.set \in Nat
  PROVE  /\ Among(<<>>, EnvyTruths(s))
         /\ \A t \in {"OK", "ERROR"} : Among(<<Line(t, 0)>>, EnvyTruths(s))
         /\ Among(<<Line("ratio", s.set)>>, EnvyTruths(s))
         /\ Among(<<Line("OK", 0), Line("ratio", s.set)>>, EnvyTruths(s))
<1>1. \A t \in {"OK", "ERROR", "ratio"}, v \in Nat :
        Line(t, v) \in Lines /\ Line(t, v).tag = t /\ Line(t, v).val = v
  <2>1. \A t, v : Line(t, v).tag = t /\ Line(t, v).val = v
    BY DEF Line
  <2> QED
    BY <2>1, LinesAre DEF Tags
<1> DEFINE r == Line("ratio", s.set)
           o == Line("OK", 0)
<1>2. /\ \A t \in {"OK", "ERROR"} : Line(t, 0) \in EnvyTruths(s)
      /\ r \in EnvyTruths(s)
  BY <1>1 DEF EnvyTruths
<1>3. \A l \in EnvyTruths(s) : l \in Lines
  BY DEF EnvyTruths
<1>4. ASSUME NEW l \in EnvyTruths(s) PROVE Among(<<l>>, EnvyTruths(s))
  BY <1>3, AmongIs DEF Among
<1>5. ASSUME NEW l \in EnvyTruths(s), NEW m \in EnvyTruths(s)
      PROVE  Among(<<l, m>>, EnvyTruths(s))
  <2>1. Among(<<l, m>>, {l, m})
    BY <1>3, AmongIs
  <2> QED
    BY <2>1 DEF Among
<1> HIDE DEF r, o
<1>6. o \in EnvyTruths(s)
  BY <1>2 DEF o
<1>7. Among(<<r>>, EnvyTruths(s)) /\ Among(<<o, r>>, EnvyTruths(s))
  BY <1>2, <1>4, <1>5, <1>6
<1> QED
  BY <1>2, <1>4, <1>7, AmongIs DEF r, o

\* The Envy serves whatever its callers may send.
LEMMA EnvyDoes ==
  ASSUME driver = "envy", driver \in DriverNames, NEW cmd, NEW s \in States,
         NEW r \in Mvr!Does(cmd, s)
  PROVE  Reacts(r) /\ Serves(r, cmd)
<1>1. PICK z, ls, close, h :
        /\ z \in States /\ close \in BOOLEAN /\ h \in BOOLEAN
        /\ Is(r, z, ls, <<>>, close, h) /\ Among(ls, EnvyTruths(z))
  <2>1. s.set \in Nat
    BY RequestsAssumption, StatesAre
  <2>2. ASSUME NEW p \in {On, Off}, NEW z, z = [s EXCEPT !.power = p]
        PROVE  z \in States /\ z.set \in Nat
    BY <2>1, <2>2, Switching
  <2>3. CASE cmd.name = "WAKE"
    <3>1. PICK z : z = [s EXCEPT !.power = On]
      OBVIOUS
    <3>2. r = React(z, <<>>)
      BY <2>3, <3>1, EnvyWords DEF Mvr!Does
    <3>3. Is(r, z, <<>>, <<>>, FALSE, TRUE)
      BY <3>2, ReactIs
    <3> QED
      BY <2>2, <3>1, <3>3, EnvyLines
  <2>4. CASE cmd.name \in {"PowerOff", "Standby"}
    <3>1. PICK z : z = [s EXCEPT !.power = Off]
      OBVIOUS
    <3>2. PICK ls \in {<<>>, <<Line("OK", 0)>>} : r = HangUp(z, ls)
      BY <2>4, <3>1, EnvyWords DEF Mvr!Does
    <3>3. Is(r, z, ls, <<>>, TRUE, TRUE)
      BY <3>2, ReactIs
    <3>4. Among(ls, EnvyTruths(z)) /\ z \in States
      BY <2>2, <3>1, EnvyLines
    <3> QED
      BY <3>3, <3>4
  <2>5. CASE cmd.name = "GetAspectRatio"
    <3>1. r = React(s, <<Line("OK", 0), Line("ratio", s.set)>>)
      BY <2>5, EnvyWords DEF Mvr!Does
    <3>2. PICK ls : ls = <<Line("OK", 0), Line("ratio", s.set)>> /\ Among(ls, EnvyTruths(s))
      BY <2>1, EnvyLines
    <3>3. Is(r, s, ls, <<>>, FALSE, TRUE)
      BY <3>1, <3>2, ReactIs
    <3> QED
      BY <3>2, <3>3
  <2>6. CASE cmd.name \notin {"WAKE", "PowerOff", "Standby", "GetAspectRatio"}
    <3>1. r \in {React(s, <<Line("OK", 0)>>), Refuse(s, <<Line("ERROR", 0)>>)}
      BY <2>6, EnvyWords DEF Mvr!Does
    <3>2. CASE r = React(s, <<Line("OK", 0)>>)
      <4>1. PICK ls : ls = <<Line("OK", 0)>> /\ Among(ls, EnvyTruths(s))
        BY <2>1, EnvyLines
      <4>2. Is(r, s, ls, <<>>, FALSE, TRUE)
        BY <3>2, <4>1, ReactIs
      <4> QED
        BY <4>1, <4>2
    <3>3. CASE r = Refuse(s, <<Line("ERROR", 0)>>)
      <4>1. PICK ls : ls = <<Line("ERROR", 0)>> /\ Among(ls, EnvyTruths(s))
        BY <2>1, EnvyLines
      <4>2. Is(r, s, ls, <<>>, FALSE, FALSE)
        BY <3>3, <4>1, ReactIs
      <4> QED
        BY <4>1, <4>2
    <3> QED
      BY <3>1, <3>2, <3>3
  <2> QED
    BY <2>3, <2>4, <2>5, <2>6
<1> QED
  BY <1>1, EnvyReacts

-----------------------------------------------------------------------------
\* The other devices tell nobody but whom they answer.
LEMMA QuietReacts ==
  ASSUME driver \in DriverNames, driver # "envy", NEW s \in States, NEW ls \in Seq(Lines),
         NEW r, NEW close \in BOOLEAN, NEW h \in BOOLEAN, Is(r, s, ls, <<>>, close, h)
  PROVE  Reacts(r)
<1>1. /\ r.state = s /\ r.reply = ls /\ r.tell = <<>> /\ Len(r.tell) = 0
      /\ r.close \in BOOLEAN /\ r.heeded \in BOOLEAN
  BY DEF Is
<1>2. Telling(r)
  BY <1>1 DEF Telling
<1>3. <<>> \in Seq(Lines)
  BY AmongIs DEF Among
<1> QED
  BY ONLY driver # "envy", s \in States, ls \in Seq(Lines), <1>1, <1>2, <1>3 DEF Reacts

\* A reply of one line, which answers the call.
LEMMA OneLine ==
  ASSUME driver \in DriverNames, driver # "envy", NEW s \in States, NEW l \in Lines, NEW cmd,
         NEW r, NEW h \in BOOLEAN, Is(r, s, <<l>>, <<>>, FALSE, h),
         \A a, S, T :
           /\ a.cmd = cmd /\ a.pc = "read" /\ Knows(a, S) /\ Reading(RequestOf(a), s) \in S
           /\ h /\ cmd.name \in Acting => T
           => Says(a.op, a.cmd.name, l, S, T)
  PROVE  Reacts(r) /\ Serves(r, cmd)
<1> DEFINE ls == <<l>>
<1>1. Among(ls, {l})
  BY AmongIs
<1> HIDE DEF ls
<1>2. Is(r, s, ls, <<>>, FALSE, h)
  BY DEF ls
<1>3. Reacts(r)
  BY <1>1, <1>2, QuietReacts DEF Among
<1>4. r.state = s /\ r.reply = ls /\ r.heeded = h
  BY <1>2 DEF Is
<1>5. ASSUME NEW a, NEW S, NEW T, Says(a.op, a.cmd.name, l, S, T)
      PROVE  Replying(a, r, S, T)
  BY <1>1, <1>4, <1>5 DEF Replying, Among
<1>6. Serves(r, cmd)
  BY <1>4, <1>5 DEF Serves
<1> QED
  BY <1>3, <1>6

\* The player's and the other devices' lines.
LEMMA TheirLines ==
  \A t \in {"ok", "refused", "standby", "power", "error", "ui", "selection", "@OK", "@ER",
            "empty", "done", "mute", "input", "other", "full", "bare", "movies", "status"},
     v \in Nat :
    Line(t, v) \in Lines /\ Line(t, v).tag = t /\ Line(t, v).val = v
<1>1. \A t, v : Line(t, v).tag = t /\ Line(t, v).val = v
  BY DEF Line
<1> QED
  BY <1>1, LinesAre DEF Tags

\* What the Udp203 says in its usual mode, with the state z.
OppoOne(r, cmd, z, h, t, v) ==
  /\ z \in States /\ h \in BOOLEAN /\ t \in {"@OK", "@ER", "full"} /\ v \in Nat
  /\ Is(r, z, <<Line(t, v)>>, <<>>, FALSE, h)
  /\ t = "@OK" => IF cmd.name = "#QPW" THEN v = 1 => z.power = On ELSE h

LEMMA OppoAnswers ==
  ASSUME driver = "udp203", driver \in DriverNames, NEW cmd, Known(cmd), NEW s \in States,
         NEW r, r = Oppo!Response(cmd, s)
  PROVE  \E z, h, t, v : OppoOne(r, cmd, z, h, t, v)
<1> USE Settings01
<1>0. cmd.name \in {"#PON", "#POF", "#QPW", "#SEL"}
  BY DEF Known, Oppo!CommandFor
<1>1. PICK z, h, t, v :
        /\ z \in States /\ h \in BOOLEAN /\ t \in {"@OK", "@ER"} /\ v \in Nat
        /\ Is(r, z, <<Line(t, v)>>, <<>>, FALSE, h)
        /\ t = "@OK" => IF cmd.name = "#QPW" THEN v = 1 => z.power = On ELSE h
  <2>1. /\ \A z, ls : Oppo!React(z, ls) = React(z, ls) /\ Oppo!Refuse(z, ls) = Refuse(z, ls)
        /\ \A t, v : Oppo!Line(t, v) = Line(t, v)
        /\ Oppo!Bit(s) = Bit(s)
    BY DEF Oppo!React, React, Oppo!Refuse, Refuse, Oppo!Line, Line, Oppo!Bit, Bit
  <2>2. ASSUME NEW p \in {On, Off}, NEW z, z = [s EXCEPT !.power = p]
        PROVE  z \in States
    BY <2>2, Switching
  <2>3. CASE cmd.name = "#PON"
    <3>1. PICK z : z = [s EXCEPT !.power = On]
      OBVIOUS
    <3>2. r = React(z, <<Line("@OK", 1)>>)
      BY <2>1, <2>3, <3>1 DEF Oppo!Response
    <3> QED
      BY <2>2, <2>3, <3>1, <3>2, ReactIs
  <2>4. CASE cmd.name = "#POF"
    <3>1. PICK z : z = [s EXCEPT !.power = Off]
      OBVIOUS
    <3>2. r = React(z, <<Line("@OK", 0)>>)
      BY <2>1, <2>4, <3>1 DEF Oppo!Response
    <3> QED
      BY <2>2, <2>4, <3>1, <3>2, ReactIs
  <2>5. CASE cmd.name = "#QPW"
    <3>1. r = React(s, <<Line("@OK", Bit(s))>>)
      BY <2>1, <2>5 DEF Oppo!Response
    <3>2. Bit(s) = 1 => s.power = On
      BY DEF Bit
    <3>3. Is(r, s, <<Line("@OK", Bit(s))>>, <<>>, FALSE, TRUE)
      BY <3>1, ReactIs
    <3>4. Bit(s) \in Nat
      OBVIOUS
    <3>5. PICK b : b = Bit(s)
      OBVIOUS
    <3> QED
      BY ONLY s \in States, <3>2, <3>3, <3>4, <3>5, <2>5
  <2>6. CASE cmd.name = "#SEL"
    <3>1. r = React(s, <<Line("@OK", 0)>>) \/ r = Refuse(s, <<Line("@ER", 0)>>)
      BY <2>1, <2>6 DEF Oppo!Response
    <3>2. CASE r = React(s, <<Line("@OK", 0)>>)
      <4>1. Is(r, s, <<Line("@OK", 0)>>, <<>>, FALSE, TRUE)
        BY <3>2, ReactIs
      <4> QED
        BY <2>6, <4>1
    <3>3. CASE r = Refuse(s, <<Line("@ER", 0)>>)
      <4>1. Is(r, s, <<Line("@ER", 0)>>, <<>>, FALSE, FALSE)
        BY <3>3, ReactIs
      <4>2a. PICK t : t = "@ER" /\ t # "@OK"
        OBVIOUS
      <4>2. PICK h \in BOOLEAN : h = FALSE
        OBVIOUS
      <4>3. Is(r, s, <<Line(t, 0)>>, <<>>, FALSE, h) /\ h \in BOOLEAN /\ t \in {"@OK", "@ER"}
        BY <4>1, <4>2, <4>2a
      <4> QED
        BY ONLY s \in States, <4>2, <4>2a, <4>3
    <3> QED
      BY <3>1, <3>2, <3>3
  <2> QED
    BY <1>0, <2>3, <2>4, <2>5, <2>6
<1> QED
  BY ONLY <1>1 DEF OppoOne

\* So does the Udp203,
LEMMA OppoDoes ==
  ASSUME driver = "udp203", driver \in DriverNames, NEW cmd, Known(cmd), NEW s \in States,
         NEW r \in Oppo!Does(cmd, s)
  PROVE  Reacts(r) /\ Serves(r, cmd)
<1>1. PICK z, h, t, v : OppoOne(r, cmd, z, h, t, v)
  <2>1. PICK q, ls : q = Oppo!Response(cmd, s) /\ ls = <<Line("full", 0)>>
    OBVIOUS
  <2>2. r = q \/ r = [q EXCEPT !.reply = ls]
    BY <2>1, SameWords DEF Oppo!Does
  <2>3. PICK z, h, t, v : OppoOne(q, cmd, z, h, t, v)
    BY <2>1, OppoAnswers
  <2>4. CASE r = [q EXCEPT !.reply = ls]
    <3>1. PICK y, more : q = React(y, more) \/ q = Refuse(y, more)
      BY <2>1, OppoResponse
    <3>2. Is(r, y, ls, <<>>, FALSE, q.heeded)
      BY <2>4, <3>1, OtherReply
    <3>3. y = q.state
      <4>1. CASE q = React(y, more)
        <5>1. Is(q, y, more, <<>>, FALSE, TRUE)
          BY <4>1, ReactIs
        <5> QED
          BY ONLY <5>1 DEF Is
      <4>2. CASE q = Refuse(y, more)
        <5>1. Is(q, y, more, <<>>, FALSE, FALSE)
          BY <4>2, ReactIs
        <5> QED
          BY ONLY <5>1 DEF Is
      <4> QED
        BY <3>1, <4>1, <4>2
    <3>4. q.state = z /\ q.heeded = h
      BY <2>3 DEF OppoOne, Is
    <3>5. PICK x : x = "full" /\ x # "@OK"
      OBVIOUS
    <3>6. Is(r, z, <<Line(x, 0)>>, <<>>, FALSE, h)
      BY ONLY <2>1, <3>2, <3>3, <3>4, <3>5
    <3>7. OppoOne(r, cmd, z, h, x, 0)
      BY ONLY <2>3, <3>5, <3>6 DEF OppoOne
    <3> QED
      BY <3>7
  <2> QED
    BY <2>2, <2>3, <2>4
<1> USE DEF OppoOne
<1> DEFINE l == Line(t, v)
<1>2. l \in Lines /\ l.tag = t /\ l.val = v
  BY <1>1, TheirLines
<1> HIDE DEF l
<1>3. ASSUME NEW a, NEW S, NEW T, a.cmd = cmd, Knows(a, S), Reading(RequestOf(a), z) \in S,
             h /\ cmd.name \in Acting => T
      PROVE  Says(a.op, a.cmd.name, l, S, T)
  <2>1. cmd.name = Oppo!CommandFor[a.op] /\ a.op \in DOMAIN Oppo!CommandFor
    BY <1>3 DEF Knows, OppoKnows, Command
  <2>2. /\ a.op = "check_is_on" => cmd.name = "#QPW"
        /\ a.op # "check_is_on" => cmd.name \in {"#PON", "#POF", "#SEL"}
    BY <2>1 DEF Oppo!CommandFor
  <2>3. cmd.name \in {"#PON", "#POF", "#SEL"} => cmd.name \in Acting
    BY DEF Acting, Oppo!Acting
  <2>4. a.op = "check_is_on" => z.power \in S
    BY <1>3, ReadingsAre DEF RequestOf
  <2> QED
    BY <1>1, <1>2, <1>3, <2>2, <2>3, <2>4 DEF Says, OppoSays
<1>4. Is(r, z, <<l>>, <<>>, FALSE, h)
  BY <1>1 DEF l
<1> QED
  BY <1>1, <1>2, <1>3, <1>4, OneLine

\* the Apple TV,
LEMMA AtvDoes ==
  ASSUME driver = "appletv", driver \in DriverNames, NEW cmd, Known(cmd), NEW s \in States,
         NEW r \in Atv!Does(cmd, s)
  PROVE  Reacts(r) /\ Serves(r, cmd)
<1> USE Settings01
<1>0. cmd.name \in {"turn_on", "turn_off", "power_state", "next"}
  BY DEF Known, Atv!CommandFor
<1>1. PICK z, h, t, v :
        /\ z \in States /\ h \in BOOLEAN /\ t \in {"ok", "refused"} /\ v \in Nat
        /\ Is(r, z, <<Line(t, v)>>, <<>>, FALSE, h)
        /\ t # "refused" => IF cmd.name = "power_state" THEN PowerOf(v) = z.power ELSE h
  <2>1. /\ \A z, ls : Atv!React(z, ls) = React(z, ls) /\ Atv!Refuse(z, ls) = Refuse(z, ls)
        /\ \A t, v : Atv!Line(t, v) = Line(t, v)
        /\ Atv!Bit(s) = Bit(s)
    BY DEF Atv!React, React, Atv!Refuse, Refuse, Atv!Line, Line, Atv!Bit, Bit
  <2>2. ASSUME NEW p \in {On, Off}, NEW z, z = [s EXCEPT !.power = p]
        PROVE  z \in States
    BY <2>2, Switching
  <2>3. CASE r = Refuse(s, <<Line("refused", 0)>>)
    BY <2>3, ReactIs
  <2>4. CASE cmd.name = "turn_on" /\ r # Refuse(s, <<Line("refused", 0)>>)
    <3>1. PICK z : z = [s EXCEPT !.power = On]
      OBVIOUS
    <3>2. r = React(z, <<Line("ok", 0)>>)
      BY <2>1, <2>4, <3>1 DEF Atv!Does
    <3> QED
      BY <2>2, <2>4, <3>1, <3>2, ReactIs
  <2>5. CASE cmd.name = "turn_off" /\ r # Refuse(s, <<Line("refused", 0)>>)
    <3>1. PICK z : z = [s EXCEPT !.power = Off]
      OBVIOUS
    <3>2. r = React(z, <<Line("ok", 0)>>)
      BY <2>1, <2>5, <3>1 DEF Atv!Does
    <3> QED
      BY <2>2, <2>5, <3>1, <3>2, ReactIs
  <2>6. CASE cmd.name = "power_state" /\ r # Refuse(s, <<Line("refused", 0)>>)
    <3>1. r = React(s, <<Line("ok", Bit(s))>>)
      BY <2>1, <2>6 DEF Atv!Does
    <3>2. PowerOf(Bit(s)) = s.power
      BY StatesAre
    <3> QED
      BY <3>1, <3>2, <2>6, ReactIs
  <2>7. CASE cmd.name = "next" /\ r # Refuse(s, <<Line("refused", 0)>>)
    <3>1. r = React(s, <<Line("ok", 0)>>)
      BY <2>1, <2>7 DEF Atv!Does
    <3> QED
      BY <2>7, <3>1, ReactIs
  <2> QED
    BY <1>0, <2>3, <2>4, <2>5, <2>6, <2>7
<1> DEFINE l == Line(t, v)
<1>2. l \in Lines /\ l.tag = t /\ l.val = v
  BY <1>1, TheirLines
<1> HIDE DEF l
<1>3. ASSUME NEW a, NEW S, NEW T, a.cmd = cmd, a.pc = "read", Knows(a, S),
             Reading(RequestOf(a), z) \in S, h /\ cmd.name \in Acting => T
      PROVE  Says(a.op, a.cmd.name, l, S, T)
  <2>1. cmd.name = Atv!CommandFor[a.op] /\ a.op \in DOMAIN Atv!CommandFor
    BY <1>3 DEF Knows, AtvKnows, Command
  <2>2. /\ a.op = "check_is_on" => cmd.name = "power_state"
        /\ a.op # "check_is_on" => cmd.name \in {"turn_on", "turn_off", "next"}
    BY <2>1 DEF Atv!CommandFor
  <2>3. cmd.name \in {"turn_on", "turn_off", "next"} => cmd.name \in Acting
    BY DEF Acting, Atv!Acting
  <2>4. a.op = "check_is_on" => z.power \in S
    BY <1>3, ReadingsAre DEF RequestOf
  <2> QED
    BY <1>1, <1>2, <1>3, <2>2, <2>3, <2>4 DEF Says, AtvSays
<1>4. Is(r, z, <<l>>, <<>>, FALSE, h)
  BY <1>1 DEF l
<1> QED
  BY <1>1, <1>2, <1>3, <1>4, OneLine

\* the projector,
LEMMA PjDoes ==
  ASSUME driver = "pj_talk", driver \in DriverNames, NEW cmd, Known(cmd), NEW s \in States,
         NEW r \in Pj!Does(cmd, s)
  PROVE  Reacts(r) /\ Serves(r, cmd)
<1> USE Settings01
<1>0. s.set \in Nat /\ (cmd.name = "POSITION" => cmd.arg \in Settings[driver])
  BY RequestsAssumption, StatesAre DEF Known
<1>1. PICK z, h, t, v :
        /\ z \in States /\ h \in BOOLEAN /\ t \in {"ok", "error", "bare"} /\ v \in Nat
        /\ Is(r, z, <<Line(t, v)>>, <<>>, FALSE, h)
        /\ t = "bare" => cmd.name = "ITEM"
        /\ t = "ok" /\ cmd.name = "POWER?" => (IF Pj!StatusIsOn(v) THEN On ELSE Off) = z.power
        /\ t = "ok" /\ cmd.name = "POSITION?" => v = z.set
  <2>1. /\ \A z, ls : Pj!React(z, ls) = React(z, ls) /\ Pj!Refuse(z, ls) = Refuse(z, ls)
        /\ \A t, v : Pj!Line(t, v) = Line(t, v)
        /\ \A n : Pj!PowerOf(n) = PowerOf(n)
    BY DEF Pj!React, React, Pj!Refuse, Refuse, Pj!Line, Line, Pj!PowerOf, PowerOf
  <2>2. CASE cmd.name = "POWER?"
    <3>1. PICK v \in Pj!Statuses(s) : r = React(s, <<Line("ok", v)>>)
      BY <2>1, <2>2 DEF Pj!Does
    <3>2. v \in Nat /\ (IF Pj!StatusIsOn(v) THEN On ELSE Off) = s.power
      <4>1. s.power \in {On, Off} /\ s.aux \in {0, 1}
        BY DEF States
      <4> QED
        BY <3>1, <4>1 DEF Pj!Statuses, Pj!StatusIsOn
    <3>3. Is(r, s, <<Line("ok", v)>>, <<>>, FALSE, TRUE)
      BY <3>1, ReactIs
    <3> QED
      BY <2>2, <3>2, <3>3
  <2>3. CASE r = Refuse(s, <<Line("error", 0)>>)
    <3>1. Is(r, s, <<Line("error", 0)>>, <<>>, FALSE, FALSE)
      BY <2>3, ReactIs
    <3>2a. PICK t : t = "error" /\ t # "ok" /\ t # "bare"
      OBVIOUS
    <3>2. PICK h \in BOOLEAN : h = FALSE
      OBVIOUS
    <3>3. Is(r, s, <<Line(t, 0)>>, <<>>, FALSE, h) /\ h \in BOOLEAN
          /\ t \in {"ok", "error", "bare"}
      BY <3>1, <3>2, <3>2a
    <3> QED
      BY ONLY s \in States, <3>2, <3>2a, <3>3
  <2>4. CASE cmd.name = "POWER" /\ r # Refuse(s, <<Line("error", 0)>>)
    <3>1. PICK z : z = Pj!Switched(s, PowerOf(cmd.arg))
      OBVIOUS
    <3>2. r = React(z, <<Line("ok", 0)>>)
      BY <2>1, <2>4, <3>1 DEF Pj!Does
    <3>3. z \in States
      <4>1. PICK p, x : p = PowerOf(cmd.arg) /\ x = IF p = s.power THEN 0 ELSE 1
        OBVIOUS
      <4>2. z = [s EXCEPT !.power = p, !.aux = x]
        BY <3>1, <4>1 DEF Pj!Switched
      <4>3. z = [power |-> p, set |-> s.set, aux |-> x]
        BY <4>2 DEF States
      <4>4. p \in {On, Off} /\ x \in {0, 1}
        BY <4>1
      <4> QED
        BY ONLY s \in States, <4>3, <4>4 DEF States
    <3>4. Is(r, z, <<Line("ok", 0)>>, <<>>, FALSE, TRUE)
      BY <3>2, ReactIs
    <3> QED
      BY <2>4, <3>3, <3>4
  <2>5. CASE cmd.name = "POSITION" /\ r # Refuse(s, <<Line("error", 0)>>)
    <3>1. PICK z : z = [s EXCEPT !.set = cmd.arg]
      OBVIOUS
    <3>2. r = React(z, <<Line("ok", 0)>>)
      BY <2>1, <2>5, <3>1 DEF Pj!Does
    <3>3. z \in States
      BY <1>0, <2>5, <3>1, Setting
    <3>4. Is(r, z, <<Line("ok", 0)>>, <<>>, FALSE, TRUE)
      BY <3>2, ReactIs
    <3> QED
      BY <2>5, <3>3, <3>4
  <2>6. CASE cmd.name = "POSITION?" /\ r # Refuse(s, <<Line("error", 0)>>)
    <3>1. r = React(s, <<Line("ok", s.set)>>)
      BY <2>1, <2>6 DEF Pj!Does
    <3>2. Is(r, s, <<Line("ok", s.set)>>, <<>>, FALSE, TRUE)
      BY <3>1, ReactIs
    <3> QED
      BY <1>0, <2>6, <3>2
  <2>8. CASE cmd.name = "ITEM" /\ r # Refuse(s, <<Line("error", 0)>>)
    <3>1. PICK t \in {"ok", "bare"} : r = React(s, <<Line(t, 0)>>)
      BY <2>1, <2>8 DEF Pj!Does
    <3>2. Is(r, s, <<Line(t, 0)>>, <<>>, FALSE, TRUE)
      BY <3>1, ReactIs
    <3> QED
      BY <2>8, <3>2
  <2>7. CASE /\ cmd.name \notin {"POWER?", "POWER", "POSITION", "POSITION?", "ITEM"}
             /\ r # Refuse(s, <<Line("error", 0)>>)
    <3>1. r = React(s, <<Line("ok", 0)>>)
      BY <2>1, <2>7 DEF Pj!Does
    <3>2. Is(r, s, <<Line("ok", 0)>>, <<>>, FALSE, TRUE)
      BY <3>1, ReactIs
    <3> QED
      BY <2>7, <3>2
  <2> QED
    BY <2>2, <2>3, <2>4, <2>5, <2>6, <2>7, <2>8
<1> DEFINE l == Line(t, v)
<1>2. l \in Lines /\ l.tag = t /\ l.val = v
  BY <1>1, TheirLines
<1> HIDE DEF l
<1>3. ASSUME NEW a, NEW S, NEW T, a.cmd = cmd, Knows(a, S), Reading(RequestOf(a), z) \in S
      PROVE  Says(a.op, a.cmd.name, l, S, T)
  <2>1. cmd.name = Pj!CommandFor[a.op] /\ a.op \in DOMAIN Pj!CommandFor
    BY <1>3 DEF Knows, PjKnows, Command
  <2>2. /\ a.op = "check_is_on" => cmd.name = "POWER?"
        /\ a.op = "picture_position" => cmd.name = "POSITION?"
        /\ cmd.name = "ITEM" => a.op = "set"
    BY <2>1 DEF Pj!CommandFor
  <2>3. /\ a.op = "check_is_on" => z.power \in S
        /\ a.op = "picture_position" => z.set \in S
    BY <1>3, ReadingsAre DEF RequestOf
  <2> QED
    BY <1>1, <1>2, <2>2, <2>3 DEF Says, PjSays
<1>4. Is(r, z, <<l>>, <<>>, FALSE, h)
  BY <1>1 DEF l
<1> QED
  BY <1>1, <1>2, <1>3, <1>4, OneLine

\* the StrZa5000,
LEMMA StrDoes ==
  ASSUME driver = "za5000", driver \in DriverNames, NEW cmd, Known(cmd), NEW s \in States,
         NEW r \in Str!Does(cmd, s)
  PROVE  Reacts(r) /\ Serves(r, cmd)
<1> USE Settings01
<1>0. s.set \in Nat /\ (cmd.name = "set_input" => cmd.arg \in Settings[driver] \cup {0})
  BY RequestsAssumption, StatesAre DEF Known
<1>1. PICK z, h, t, v :
        /\ z \in States /\ h \in BOOLEAN /\ v \in Nat
        /\ t \in {"empty", "done", "mute", "input", "other"}
        /\ Is(r, z, <<Line(t, v)>>, <<>>, FALSE, h)
        /\ cmd.name = "power?" => (IF t = "empty" THEN Off ELSE On) = z.power
        /\ cmd.name \in {"power_on", "power_off"} => h
        /\ cmd.name = "input?" /\ t = "input" => v = z.set
        /\ cmd.name = "mute?" /\ t = "mute" => v = z.aux /\ z.power = On
  <2>1. /\ \A z, ls : Str!React(z, ls) = React(z, ls) /\ Str!Refuse(z, ls) = Refuse(z, ls)
        /\ \A t, v : Str!Line(t, v) = Line(t, v)
    BY DEF Str!React, React, Str!Refuse, Refuse, Str!Line, Line
  <2>2. CASE s.power = Off /\ cmd.name \notin {"power_on", "power_off"}
    <3>1. r = Refuse(s, <<Line("empty", 0)>>)
      BY <2>1, <2>2, AnswersAssumption DEF Str!Does
    <3>2. Is(r, s, <<Line("empty", 0)>>, <<>>, FALSE, FALSE)
      BY <3>1, ReactIs
    <3>3a. PICK t : t = "empty" /\ t # "input" /\ t # "mute"
      OBVIOUS
    <3>3. PICK h \in BOOLEAN : h = FALSE
      OBVIOUS
    <3>4. /\ Is(r, s, <<Line(t, 0)>>, <<>>, FALSE, h) /\ h \in BOOLEAN
          /\ t \in {"empty", "done", "mute", "input", "other"}
      BY <3>2, <3>3, <3>3a
    <3> QED
      BY ONLY s \in States, <2>2, <3>3, <3>3a, <3>4
  <2>3. CASE cmd.name \in {"power_on", "power_off"}
    <3>1. PICK p \in {On, Off} : p = IF cmd.name = "power_on" THEN On ELSE Off
      OBVIOUS
    <3>2. PICK z : z = [s EXCEPT !.power = p]
      OBVIOUS
    <3>3. r = React(z, <<Line("done", 0)>>)
      BY <2>1, <2>3, <3>1, <3>2 DEF Str!Does
    <3>4. z \in States
      BY <3>2, Switching
    <3>5. Is(r, z, <<Line("done", 0)>>, <<>>, FALSE, TRUE)
      BY <3>3, ReactIs
    <3> QED
      BY <2>3, <3>4, <3>5
  <2>4. CASE s.power = On /\ cmd.name = "set_input" /\ On # Off
    <3>1. PICK z : z = [s EXCEPT !.set = IF cmd.arg = 0 THEN @ ELSE cmd.arg]
      OBVIOUS
    <3>2. r = React(z, <<Line("done", 0)>>)
      BY <2>1, <2>4, <3>1 DEF Str!Does
    <3>3. z \in States
      <4>1. PICK x : x = IF cmd.arg = 0 THEN s.set ELSE cmd.arg
        OBVIOUS
      <4>2. x \in Settings[driver]
        BY <1>0, <2>4, <4>1 DEF States
      <4> QED
        BY <3>1, <4>1, <4>2, Setting
    <3>4. Is(r, z, <<Line("done", 0)>>, <<>>, FALSE, TRUE)
      BY <3>2, ReactIs
    <3> QED
      BY <2>4, <3>3, <3>4
  <2>5. CASE s.power = On /\ cmd.name = "muting" /\ On # Off
    <3>1. PICK z : z = [s EXCEPT !.aux = 1 - @]
      OBVIOUS
    <3>2. r = React(z, <<Line("done", 0)>>)
      BY <2>1, <2>5, <3>1 DEF Str!Does
    <3>3. z \in States
      BY <3>1, Toggling
    <3>4. Is(r, z, <<Line("done", 0)>>, <<>>, FALSE, TRUE)
      BY <3>2, ReactIs
    <3> QED
      BY <2>5, <3>3, <3>4
  <2>10. CASE r = React(s, <<Line("other", 0)>>) /\ s.power = On
              /\ cmd.name \in {"power?", "input?", "mute?"}
    <3>1. PICK t : t = "other" /\ t # "empty" /\ t # "input" /\ t # "mute"
      OBVIOUS
    <3>2. Is(r, s, <<Line(t, 0)>>, <<>>, FALSE, TRUE)
      BY <2>10, <3>1, ReactIs
    <3> QED
      BY ONLY s \in States, <2>10, <3>1, <3>2
  <2>6. CASE /\ s.power = On /\ cmd.name = "mute?" /\ On # Off
             /\ r # React(s, <<Line("other", 0)>>)
    <3>1. r = React(s, <<Line("mute", s.aux)>>)
      BY <2>1, <2>6 DEF Str!Does
    <3>2. Is(r, s, <<Line("mute", s.aux)>>, <<>>, FALSE, TRUE)
      BY <3>1, ReactIs
    <3> QED
      BY <2>6, <3>2
  <2>7. CASE s.power = On /\ cmd.name = "volume" /\ On # Off
    <3>1. r = React(s, <<Line("done", 0)>>)
      BY <2>1, <2>7 DEF Str!Does
    <3>2. Is(r, s, <<Line("done", 0)>>, <<>>, FALSE, TRUE)
      BY <3>1, ReactIs
    <3> QED
      BY <2>7, <3>2
  <2>8. CASE /\ s.power = On /\ On # Off
             /\ r # React(s, <<Line("other", 0)>>) \/ cmd.name \notin {"power?", "input?"}
             /\ cmd.name \notin {"power_on", "power_off", "set_input", "muting", "mute?", "volume"}
    <3>1. r = React(s, <<Line("input", s.set)>>)
      BY <2>1, <2>8 DEF Str!Does
    <3>2. Is(r, s, <<Line("input", s.set)>>, <<>>, FALSE, TRUE)
      BY <3>1, ReactIs
    <3> QED
      BY <1>0, <2>8, <3>2
  <2>9. s.power \in {On, Off}
    BY StatesAre
  <2> QED
    BY <2>2, <2>3, <2>4, <2>5, <2>6, <2>7, <2>8, <2>9, <2>10, AnswersAssumption
<1> DEFINE l == Line(t, v)
<1>2. l \in Lines /\ l.tag = t /\ l.val = v
  BY <1>1, TheirLines
<1> HIDE DEF l
<1>3. ASSUME NEW a, NEW S, NEW T, a.cmd = cmd, Knows(a, S), Reading(RequestOf(a), z) \in S,
             h /\ cmd.name \in Acting => T
      PROVE  Says(a.op, a.cmd.name, l, S, T)
  <2>1. a.op \in DOMAIN Str!CommandFor /\ StrKnows(a, S)
    BY <1>3 DEF Knows, StrKnows
  <2>2. /\ a.op = "check_is_on" => cmd.name = "power?"
        /\ a.op \in {"turn_on", "turn_off"} => cmd.name \in {"power_on", "power_off"}
        /\ cmd.name = "input?" => a.op \in {"get_video_input", "set_video_input"}
        /\ cmd.name = "mute?" => a.op \in {"check_is_muted", "toggle_mute"}
    BY <1>3, <2>1 DEF StrKnows, Str!CommandFor
  <2>3. {"power_on", "power_off"} \subseteq Acting
    BY DEF Acting, Str!Acting
  <2>4. /\ a.op = "check_is_on" => z.power \in S
        /\ a.op \in {"get_video_input", "set_video_input"} => z.set \in S
        /\ a.op \in {"check_is_muted", "toggle_mute"} =>
             (IF z.power = On THEN PowerOf(z.aux) ELSE Off) \in S
    BY <1>3, ReadingsAre DEF RequestOf
  <2> QED
    BY <1>1, <1>2, <1>3, <2>2, <2>3, <2>4 DEF Says, StrSays
<1>4. Is(r, z, <<l>>, <<>>, FALSE, h)
  BY <1>1 DEF l
<1> QED
  BY <1>1, <1>2, <1>3, <1>4, OneLine

\* The details of a movie: an overview, and as many lines as it says.
Detailing(r, cmd) ==
  \/ r.reply = <<Line("standby", 0)>>
  \/ /\ Len(r.reply) = DetailLines + 1
     /\ r.reply[1] = Line("overview", DetailLines)
     /\ \A i \in 2..Len(r.reply) : r.reply[i] = Line("detail", cmd.arg)

\* The details of a movie are a reply that its call may hear.
LEMMA KscpDetailed ==
  ASSUME driver = "kscp", driver \in DriverNames, NEW cmd, cmd.arg \in Nat, NEW s \in States,
         cmd.name = "GET_CONTENT_DETAILS",
         NEW r, r = React(s, <<Line("overview", DetailLines)>>
                               \o [i \in 1..DetailLines |-> Line("detail", cmd.arg)])
  PROVE  Reacts(r) /\ Serves(r, cmd) /\ Detailing(r, cmd)
<1> DEFINE o == Line("overview", DetailLines)
           d == Line("detail", cmd.arg)
           x == <<o>>
           y == [i \in 1..DetailLines |-> d]
           ls == x \o y
<1>1. o \in Lines /\ d \in Lines /\ DetailLines \in Nat
  BY LimitsAssumption, LinesAre DEF Tags
<1> HIDE DEF o, d
<1>2. /\ ls \in Seq(Lines) /\ Len(ls) = DetailLines + 1 /\ ls[1] = o
      /\ \A i \in 2..Len(ls) : ls[i] = d
  <2>1. x \in Seq(Lines) /\ Len(x) = 1 /\ x[1] = o
    BY <1>1
  <2>2. y \in Seq(Lines) /\ Len(y) = DetailLines /\ \A i \in 1..DetailLines : y[i] = d
    BY <1>1
  <2> HIDE DEF x, y
  <2>3. /\ Len(x \o y) = DetailLines + 1 /\ x \o y \in Seq(Lines)
        /\ \A i \in 1..Len(x \o y) : (x \o y)[i] = IF i <= Len(x) THEN x[i] ELSE y[i - Len(x)]
        /\ (x \o y)[1] = o
    <3>1. Len(x \o y) = DetailLines + 1 /\ x \o y \in Seq(Lines)
      <4>1. x \o y \in Seq(Lines) /\ Len(x \o y) = Len(x) + Len(y)
        BY ONLY <2>1, <2>2, ConcatProperties
      <4> QED
        BY ONLY <1>1, <2>1, <2>2, <4>1
    <3>2. \A i \in 1..Len(x \o y) : (x \o y)[i] = IF i <= Len(x) THEN x[i] ELSE y[i - Len(x)]
      BY ONLY <2>1, <2>2, <3>1, <1>1, ConcatProperties
    <3>3. 1 \in 1..Len(x \o y) /\ 1 <= Len(x)
      BY ONLY <1>1, <2>1, <3>1
    <3> QED
      BY ONLY <2>1, <3>1, <3>2, <3>3
  <2>4. ASSUME NEW i \in 2..Len(x \o y) PROVE (x \o y)[i] = d
    <3>1. i \in Nat /\ i > 1 /\ i - 1 \in 1..DetailLines
      BY ONLY <1>1, <2>3, i \in 2..Len(x \o y)
    <3>2. (x \o y)[i] = y[i - 1]
      BY ONLY <2>1, <2>3, <2>4, <3>1
    <3> QED
      BY ONLY <2>2, <3>1, <3>2
  <2> QED
    BY <2>3, <2>4
<1>3. r = React(s, ls)
  BY DEF o, d
<1> HIDE DEF ls
<1>4. Is(r, s, ls, <<>>, FALSE, TRUE)
  BY <1>3, ReactIs
<1>5. Reacts(r)
  BY <1>2, <1>4, QuietReacts
<1>6. r.reply = ls
  BY <1>4 DEF Is
<1>7. Detailing(r, cmd)
  BY <1>2, <1>6 DEF Detailing, o, d
<1>8. ASSUME NEW a, NEW S, NEW T, a.cmd = cmd, Knows(a, S)
      PROVE  Replying(a, r, S, T)
  <2>1. a.op \notin {"check_is_on", "turn_on", "turn_off"}
    BY <1>8 DEF Knows, KscpKnows, Command, Kscp!CommandFor
  <2> QED
    BY <1>8, <2>1 DEF Replying, Says, KscpSays
<1> QED
  BY <1>5, <1>7, <1>8 DEF Serves

\* Any other reply is one line, which is true of the state z.
KscpOne(r, cmd, z, h, t, v) ==
  /\ z \in States /\ h \in BOOLEAN /\ v \in Nat
  /\ t \in {"standby", "ok", "power", "error", "ui", "selection", "movies", "status"}
  /\ Is(r, z, <<Line(t, v)>>, <<>>, FALSE, h)
  /\ t = "standby" => v = 0 /\ z.power = Off
  /\ t # "standby" => /\ cmd.name \in {"LEAVE_STANDBY", "ENTER_STANDBY"} => h
                      /\ cmd.name = "GET_HIGHLIGHTED_SELECTION" => v = z.set
                      /\ cmd.name # "GET_CONTENT_DETAILS"
  /\ t = "power" => PowerOf(v) = z.power

\* and the Kaleidescape.
LEMMA KscpDoes ==
  ASSUME driver = "kscp", driver \in DriverNames, NEW cmd, Known(cmd), NEW s \in States,
         NEW r \in Kscp!Does(cmd, s)
  PROVE  /\ Reacts(r) /\ Serves(r, cmd)
         /\ cmd.name = "GET_CONTENT_DETAILS" => Detailing(r, cmd)
<1> USE Settings01
<1>0. /\ s.set \in Nat /\ (cmd.name = "SHOW_CONTROLLER_DETAILS" => cmd.arg \in Settings[driver])
      /\ cmd.arg \in Nat
  BY RequestsAssumption, StatesAre DEF Known
<1>1. /\ \A z, ls : Kscp!React(z, ls) = React(z, ls) /\ Kscp!Refuse(z, ls) = Refuse(z, ls)
      /\ \A t, v : Kscp!Line(t, v) = Line(t, v)
  BY DEF Kscp!React, React, Kscp!Refuse, Refuse, Kscp!Line, Line
<1>2. CASE /\ cmd.name = "GET_CONTENT_DETAILS" /\ s.power = On
           /\ r # Refuse(s, <<Line("standby", 0)>>)
  <2>1. r = React(s, <<Line("overview", DetailLines)>>
                       \o [i \in 1..DetailLines |-> Line("detail", cmd.arg)])
    BY <1>1, <1>2 DEF Kscp!Does, Kscp!Replies
  <2> QED
    BY <1>0, <1>2, <2>1, KscpDetailed
<1>3. CASE ~(/\ cmd.name = "GET_CONTENT_DETAILS" /\ s.power = On
             /\ r # Refuse(s, <<Line("standby", 0)>>))
  <2>1. PICK z, h, t, v : KscpOne(r, cmd, z, h, t, v)
    <3>1. CASE r = Refuse(s, <<Line("standby", 0)>>) /\ s.power = Off
      <4>1. Is(r, s, <<Line("standby", 0)>>, <<>>, FALSE, FALSE)
        BY <3>1, ReactIs
      <4>2. PICK t : t = "standby"
        OBVIOUS
      <4>3. PICK h \in BOOLEAN : h = FALSE
        OBVIOUS
      <4>4. Is(r, s, <<Line(t, 0)>>, <<>>, FALSE, h)
        BY <4>1, <4>2, <4>3
      <4>5. KscpOne(r, cmd, s, h, t, 0)
        BY <3>1, <4>2, <4>3, <4>4 DEF KscpOne
      <4> QED
        BY <4>5
    <3>2. CASE r = React(s, <<Line("power", 0)>>) /\ s.power = Off
          /\ cmd.name = "GET_DEVICE_POWER_STATE"
      <4>1. Is(r, s, <<Line("power", 0)>>, <<>>, FALSE, TRUE)
        BY <3>2, ReactIs
      <4>2. PICK t : t = "power"
        OBVIOUS
      <4>3. PICK h \in BOOLEAN : h = TRUE
        OBVIOUS
      <4>4. Is(r, s, <<Line(t, 0)>>, <<>>, FALSE, h)
        BY <4>1, <4>2, <4>3
      <4>5. KscpOne(r, cmd, s, h, t, 0)
        BY <3>2, <4>2, <4>3, <4>4 DEF KscpOne, PowerOf
      <4> QED
        BY <4>5
    <3>3. CASE r = React(s, <<Line("power", 1)>>) /\ s.power = On
          /\ cmd.name = "GET_DEVICE_POWER_STATE"
      <4>1. Is(r, s, <<Line("power", 1)>>, <<>>, FALSE, TRUE)
        BY <3>3, ReactIs
      <4>2. PICK t : t = "power"
        OBVIOUS
      <4>3. PICK h \in BOOLEAN : h = TRUE
        OBVIOUS
      <4>4. Is(r, s, <<Line(t, 1)>>, <<>>, FALSE, h)
        BY <4>1, <4>2, <4>3
      <4>5. KscpOne(r, cmd, s, h, t, 1)
        BY <3>3, <4>2, <4>3, <4>4 DEF KscpOne, PowerOf
      <4> QED
        BY <4>5
    <3>4. CASE /\ cmd.name \in {"LEAVE_STANDBY", "ENTER_STANDBY"}
               /\ r \in {React([s EXCEPT !.power = p], <<Line("ok", 0)>>) : p \in {On, Off}}
      <4>1. PICK p \in {On, Off} : r = React([s EXCEPT !.power = p], <<Line("ok", 0)>>)
        BY <3>4
      <4>2. PICK z : z = [s EXCEPT !.power = p]
        OBVIOUS
      <4>3. z \in States
        BY <4>2, Switching
      <4>4. Is(r, z, <<Line("ok", 0)>>, <<>>, FALSE, TRUE)
        BY <4>1, <4>2, ReactIs
      <4>5. PICK t : t = "ok"
        OBVIOUS
      <4>6. PICK h \in BOOLEAN : h = TRUE
        OBVIOUS
      <4>7. Is(r, z, <<Line(t, 0)>>, <<>>, FALSE, h)
        BY <4>4, <4>5, <4>6
      <4>8. KscpOne(r, cmd, z, h, t, 0)
        BY <3>4, <4>3, <4>5, <4>6, <4>7 DEF KscpOne
      <4> QED
        BY <4>8
    <3>5. CASE /\ cmd.name = "SHOW_CONTROLLER_DETAILS"
               /\ r = Kscp!React([s EXCEPT !.set = cmd.arg, !.aux = 1], <<Line("ok", 0)>>)
      <4>1. PICK z : z = [s EXCEPT !.set = cmd.arg, !.aux = 1]
        OBVIOUS
      <4>2. z = [power |-> s.power, set |-> cmd.arg, aux |-> 1]
        BY <4>1 DEF States
      <4>3. cmd.arg \in Settings[driver]
        BY <1>0, <3>5
      <4>4. z \in States
        BY ONLY s \in States, <4>2, <4>3 DEF States
      <4>5. r = React(z, <<Line("ok", 0)>>)
        BY <1>1, <3>5, <4>1
      <4>6. Is(r, z, <<Line("ok", 0)>>, <<>>, FALSE, TRUE)
        BY <4>5, ReactIs
      <4>7. PICK t : t = "ok"
        OBVIOUS
      <4>8. PICK h \in BOOLEAN : h = TRUE
        OBVIOUS
      <4>9. Is(r, z, <<Line(t, 0)>>, <<>>, FALSE, h)
        BY <4>6, <4>7, <4>8
      <4>10. KscpOne(r, cmd, z, h, t, 0)
        BY <3>5, <4>4, <4>7, <4>8, <4>9 DEF KscpOne
      <4> QED
        BY <4>10
    <3>6. CASE /\ r = Refuse(s, <<Line("error", 0)>>)
               /\ cmd.name \notin {"LEAVE_STANDBY", "ENTER_STANDBY", "GET_CONTENT_DETAILS",
                                   "GET_HIGHLIGHTED_SELECTION"}
      <4>1. Is(r, s, <<Line("error", 0)>>, <<>>, FALSE, FALSE)
        BY <3>6, ReactIs
      <4>2. PICK t : t = "error"
        OBVIOUS
      <4>3. PICK h \in BOOLEAN : h = FALSE
        OBVIOUS
      <4>4. Is(r, s, <<Line(t, 0)>>, <<>>, FALSE, h)
        BY <4>1, <4>2, <4>3
      <4>5. KscpOne(r, cmd, s, h, t, 0)
        BY <3>6, <4>2, <4>3, <4>4 DEF KscpOne
      <4> QED
        BY <4>5
    <3>7. CASE r = React(s, <<Line("ui", s.aux)>>) /\ cmd.name = "GET_UI_STATE"
      <4>1. Is(r, s, <<Line("ui", s.aux)>>, <<>>, FALSE, TRUE)
        BY <3>7, ReactIs
      <4>2. PICK t : t = "ui"
        OBVIOUS
      <4>3. PICK h \in BOOLEAN : h = TRUE
        OBVIOUS
      <4>4. Is(r, s, <<Line(t, s.aux)>>, <<>>, FALSE, h)
        BY <4>1, <4>2, <4>3
      <4>5. KscpOne(r, cmd, s, h, t, s.aux)
        BY <3>7, <4>2, <4>3, <4>4 DEF KscpOne
      <4> QED
        BY <4>5
    <3>8. CASE r = React(s, <<Line("selection", s.set)>>) /\ cmd.name = "GET_HIGHLIGHTED_SELECTION"
      <4>1. Is(r, s, <<Line("selection", s.set)>>, <<>>, FALSE, TRUE)
        BY <3>8, ReactIs
      <4>2. PICK t : t = "selection"
        OBVIOUS
      <4>3. PICK h \in BOOLEAN : h = TRUE
        OBVIOUS
      <4>4. Is(r, s, <<Line(t, s.set)>>, <<>>, FALSE, h)
        BY <4>1, <4>2, <4>3
      <4>5. KscpOne(r, cmd, s, h, t, s.set)
        BY <1>0, <3>8, <4>2, <4>3, <4>4 DEF KscpOne
      <4> QED
        BY <4>5
    <3>9. CASE /\ r = React(s, <<Line("ok", 0)>>)
               /\ cmd.name \notin {"GET_CONTENT_DETAILS", "GET_HIGHLIGHTED_SELECTION"}
      <4>1. Is(r, s, <<Line("ok", 0)>>, <<>>, FALSE, TRUE)
        BY <3>9, ReactIs
      <4>2. PICK t : t = "ok"
        OBVIOUS
      <4>3. PICK h \in BOOLEAN : h = TRUE
        OBVIOUS
      <4>4. Is(r, s, <<Line(t, 0)>>, <<>>, FALSE, h)
        BY <4>1, <4>2, <4>3
      <4>5. KscpOne(r, cmd, s, h, t, 0)
        BY <3>9, <4>2, <4>3, <4>4 DEF KscpOne
      <4> QED
        BY <4>5
    <3>10. s.power \in {On, Off}
      BY StatesAre
    <3>13. CASE cmd.name = "GET_MOVIES"
      <4>1. PICK t, h : /\ t \in {"movies", "status"} /\ h \in BOOLEAN
                        /\ Is(r, s, <<Line(t, 0)>>, <<>>, FALSE, h)
        <5>1. r = React(s, <<Line("movies", 0)>>) \/ r = Refuse(s, <<Line("status", 0)>>)
          BY <1>1, <3>13 DEF Kscp!Does
        <5> QED
          BY <5>1, ReactIs
      <4>2. KscpOne(r, cmd, s, h, t, 0)
        BY ONLY <3>13, <4>1, s \in States DEF KscpOne
      <4> QED
        BY <4>2
    <3>11. CASE (s.power = On \/ cmd.name = "LEAVE_STANDBY") /\ cmd.name # "GET_MOVIES"
      <4>1. r \in Kscp!Replies(cmd, s) \/ r \in Kscp!Does(cmd, s) \ Kscp!Replies(cmd, s)
        OBVIOUS
      <4>2. r \in Kscp!Replies(cmd, s)
        BY <3>11 DEF Kscp!Does
      <4>3. CASE cmd.name = "LEAVE_STANDBY"
        BY <1>1, <3>4, <4>2, <4>3 DEF Kscp!Replies
      <4>4. CASE cmd.name = "ENTER_STANDBY"
        BY <1>1, <3>4, <4>2, <4>4 DEF Kscp!Replies
      <4>5. CASE cmd.name = "GET_DEVICE_POWER_STATE"
        BY <1>1, <3>3, <3>11, <4>2, <4>5 DEF Kscp!Replies
      <4>6. CASE cmd.name = "SHOW_CONTROLLER_DETAILS"
        BY <1>1, <3>5, <3>6, <4>2, <4>6 DEF Kscp!Replies
      <4>7. CASE cmd.name = "GET_UI_STATE"
        BY <1>1, <3>7, <4>2, <4>7 DEF Kscp!Replies
      <4>8. CASE cmd.name = "GET_HIGHLIGHTED_SELECTION"
        BY <1>1, <3>8, <4>2, <4>8 DEF Kscp!Replies
      <4>9. CASE cmd.name = "GET_CONTENT_DETAILS"
        <5>0. s.power = On
          BY <3>11, <4>9
        <5>1. Is(r, s, <<Line("standby", 0)>>, <<>>, FALSE, FALSE)
          BY <1>3, <4>9, <5>0, ReactIs
        <5>2. r = React(s, <<Line("overview", DetailLines)>>
                             \o [i \in 1..DetailLines |-> Line("detail", cmd.arg)])
          BY <1>1, <4>2, <4>9 DEF Kscp!Replies
        <5>3. r.heeded = FALSE
          BY ONLY <5>1 DEF Is
        <5> DEFINE ls == <<Line("overview", DetailLines)>>
                            \o [i \in 1..DetailLines |-> Line("detail", cmd.arg)]
        <5>4. r = React(s, ls)
          BY <5>2
        <5> HIDE DEF ls
        <5>5. r.heeded = TRUE
          BY ONLY <5>4 DEF React
        <5> QED
          BY <5>3, <5>5
      <4>10. CASE cmd.name \notin {"LEAVE_STANDBY", "ENTER_STANDBY", "GET_DEVICE_POWER_STATE",
                                  "SHOW_CONTROLLER_DETAILS", "GET_UI_STATE",
                                  "GET_HIGHLIGHTED_SELECTION", "GET_CONTENT_DETAILS"}
        BY <1>1, <3>6, <3>9, <4>2, <4>10 DEF Kscp!Replies
      <4> QED
        BY <4>3, <4>4, <4>5, <4>6, <4>7, <4>8, <4>9, <4>10
    <3>12. CASE ~(s.power = On \/ cmd.name = "LEAVE_STANDBY") /\ cmd.name # "GET_MOVIES"
      <4>1. \/ r = Refuse(s, <<Line("standby", 0)>>)
            \/ r = React(s, <<Line("power", 0)>>) /\ cmd.name = "GET_DEVICE_POWER_STATE"
        BY <1>1, <3>12 DEF Kscp!Does
      <4> QED
        BY <3>1, <3>2, <3>10, <3>12, <4>1
    <3> QED
      BY <3>11, <3>12, <3>13
  <2> DEFINE l == Line(t, v)
  <2>2. l \in Lines /\ l.tag = t /\ l.val = v
    BY <2>1, TheirLines DEF KscpOne
  <2> HIDE DEF l
  <2> USE DEF KscpOne
  <2>3. ASSUME NEW a, NEW S, NEW T, a.cmd = cmd, Knows(a, S), Reading(RequestOf(a), z) \in S,
               h /\ cmd.name \in Acting => T
        PROVE  Says(a.op, a.cmd.name, l, S, T)
    <3>1. KscpKnows(a, S) /\ a.op \in DOMAIN Kscp!CommandFor
      BY <2>3 DEF Knows, KscpKnows
    <3>2. /\ a.op \in {"turn_on", "turn_off"} => cmd.name \in {"LEAVE_STANDBY", "ENTER_STANDBY"}
          /\ a.op = "check_is_on" => cmd.name = "GET_DEVICE_POWER_STATE"
          /\ cmd.name = "GET_HIGHLIGHTED_SELECTION" =>
               a.op \in {"highlighted_section", "play_movie"}
      BY <2>3, <3>1 DEF KscpKnows, Kscp!CommandFor, Command, Details, Listing
    <3>3. {"LEAVE_STANDBY", "ENTER_STANDBY"} \subseteq Acting
      BY DEF Acting, Kscp!Acting
    <3>4. /\ a.op = "check_is_on" => z.power \in S
          /\ a.op \in {"highlighted_section", "play_movie"} => z.set \in S
      BY <2>3, ReadingsAre DEF RequestOf
    <3> QED
      BY <2>1, <2>2, <2>3, <3>2, <3>3, <3>4 DEF Says, KscpSays
  <2>4. Is(r, z, <<l>>, <<>>, FALSE, h)
    BY <2>1 DEF l
  <2>5. Reacts(r) /\ Serves(r, cmd)
    BY <2>1, <2>2, <2>3, <2>4, OneLine
  <2>6. cmd.name = "GET_CONTENT_DETAILS" => Detailing(r, cmd)
    BY <2>1 DEF Detailing, Is
  <2> QED
    BY <2>5, <2>6
<1> QED
  BY <1>2, <1>3

-----------------------------------------------------------------------------
(* The devices, all of them.                                               *)

\* Every device serves what its callers may send.
LEMMA DoesIs ==
  ASSUME driver \in DriverNames, NEW cmd, Known(cmd), NEW s \in States, NEW r \in Does(cmd, s)
  PROVE  /\ Reacts(r) /\ Serves(r, cmd)
         /\ driver = "kscp" /\ cmd.name = "GET_CONTENT_DETAILS" => Detailing(r, cmd)
<1>1. CASE driver = "avm70"
  <2>1. r \in Avm!Does(cmd, s)
    BY <1>1 DEF Does
  <2> QED
    BY <1>1, <2>1, AvmDoes
<1>2. CASE driver = "appletv"
  <2>1. r \in Atv!Does(cmd, s)
    BY <1>2 DEF Does
  <2> QED
    BY <1>2, <2>1, AtvDoes
<1>3. CASE driver = "kscp"
  <2>1. r \in Kscp!Does(cmd, s)
    BY <1>3 DEF Does
  <2> QED
    BY <1>3, <2>1, KscpDoes
<1>4. CASE driver = "envy"
  <2>1. r \in Mvr!Does(cmd, s)
    BY <1>4 DEF Does
  <2> QED
    BY <1>4, <2>1, EnvyDoes
<1>5. CASE driver = "udp203"
  <2>1. r \in Oppo!Does(cmd, s)
    BY <1>5 DEF Does
  <2> QED
    BY <1>5, <2>1, OppoDoes
<1>6. CASE driver = "pj_talk"
  <2>1. r \in Pj!Does(cmd, s)
    BY <1>6 DEF Does
  <2> QED
    BY <1>6, <2>1, PjDoes
<1>7. CASE driver = "za5000"
  <2>1. r \in Str!Does(cmd, s)
    BY <1>7 DEF Does
  <2> QED
    BY <1>7, <2>1, StrDoes
<1> QED
  BY <1>1, <1>2, <1>3, <1>4, <1>5, <1>6, <1>7, IsDriver

\* A device that somebody operates.
LEMMA TouchedQuietly ==
  ASSUME driver \in DriverNames, driver # "envy", NEW z \in States, NEW r, r = React(z, <<>>)
  PROVE  Reacts(r)
<1> DEFINE ls == <<>>
<1>1. ls \in Seq(Lines)
  BY AmongIs DEF Among
<1>2. Is(r, z, ls, <<>>, FALSE, TRUE)
  BY ReactIs
<1> HIDE DEF ls
<1>3. PICK x \in BOOLEAN : x = FALSE
  OBVIOUS
<1>4. PICK h \in BOOLEAN : h = TRUE
  OBVIOUS
<1>5. Is(r, z, ls, <<>>, x, h)
  BY <1>2, <1>3, <1>4
<1> QED
  BY <1>1, <1>5, QuietReacts

\* An Envy that somebody operates.
LEMMA EnvyTouched ==
  ASSUME driver = "envy", driver \in DriverNames, NEW z \in States, NEW r,
         r = HangUp(z, <<>>) \/ r = Announce(z, <<Line("ratio", z.set)>>)
  PROVE  Reacts(r)
<1>1. PICK x \in BOOLEAN : x = FALSE
  OBVIOUS
<1>2. PICK h \in BOOLEAN : h = TRUE
  OBVIOUS
<1>3. CASE r = HangUp(z, <<>>)
  <2> DEFINE ls == <<>>
  <2>1. Is(r, z, ls, <<>>, h, h)
    BY <1>2, <1>3, ReactIs
  <2>2. Among(ls, EnvyTruths(z)) /\ <<>> \in {<<>>, ls}
    BY AmongIs
  <2> HIDE DEF ls
  <2> QED
    BY <2>1, <2>2, EnvyReacts
<1>4. CASE r = Announce(z, <<Line("ratio", z.set)>>)
  <2> DEFINE l == Line("ratio", z.set)
             ls == <<l>>
  <2>1. z.set \in Nat
    BY RequestsAssumption, StatesAre
  <2>2. l \in Lines /\ l.tag = "ratio" /\ l.val = z.set
    BY <2>1, LinesAre DEF Tags, Line
  <2> HIDE DEF l
  <2>3. l \in EnvyTruths(z)
    BY <2>2 DEF EnvyTruths
  <2>4. Among(ls, {l})
    BY <2>2, AmongIs
  <2>5. r = Announce(z, ls)
    BY <1>4 DEF l
  <2> HIDE DEF ls
  <2>6. Among(ls, EnvyTruths(z))
    BY <2>3, <2>4 DEF Among
  <2>7. Is(r, z, ls, ls, x, h)
    BY <1>1, <1>2, <2>5, ReactIs
  <2> QED
    BY <2>6, <2>7, EnvyReacts
<1> QED
  BY <1>3, <1>4

\* Any device that somebody operates tells the truth.
LEMMA TouchedIs ==
  ASSUME driver \in DriverNames, NEW s \in States, NEW r \in Touched(s)
  PROVE  Reacts(r)
<1> USE Settings01
<1>0. PICK f : f = [s EXCEPT !.power = PowerOf(1 - Bit(s))]
  OBVIOUS
<1>1. PowerOf(1 - Bit(s)) \in {On, Off} /\ f \in States /\ f.power = PowerOf(1 - Bit(s))
  BY <1>0, Switching
<1> DEFINE moved == {[s EXCEPT !.set = v] : v \in Settings[driver] \ {s.set}}
<1>2. ASSUME NEW t \in moved PROVE t \in States
  <2>1. PICK v \in Settings[driver] : t = [s EXCEPT !.set = v]
    BY <1>2
  <2> QED
    BY <2>1, Setting
<1> HIDE DEF moved
<1>3. CASE driver = "avm70"
  BY <1>3, AvmTouched DEF Touched
<1>4. CASE driver = "envy"
  <2>1. r = HangUp(f, <<>>) \/ \E t \in moved : r = Announce(t, <<Line("ratio", t.set)>>)
    BY <1>0, <1>4 DEF Touched, moved
  <2> QED
    BY <1>1, <1>2, <1>4, <2>1, EnvyTouched
<1>5. CASE driver = "pj_talk"
  <2>1. \/ r = React(Pj!Switched(s, f.power), <<>>)
        \/ r = React([s EXCEPT !.aux = 0], <<>>)
        \/ \E t \in moved : r = React(t, <<>>)
    BY <1>0, <1>5 DEF Touched, moved
  <2>2. PICK z : z = Pj!Switched(s, f.power)
    OBVIOUS
  <2>3. z \in States
    <3>1. PICK p, x : p = f.power /\ x = IF p = s.power THEN 0 ELSE 1
      OBVIOUS
    <3>2. z = [s EXCEPT !.power = p, !.aux = x]
      BY <2>2, <3>1 DEF Pj!Switched
    <3>3. z = [power |-> p, set |-> s.set, aux |-> x]
      BY <3>2 DEF States
    <3>4. p \in {On, Off} /\ x \in {0, 1}
      BY <1>1, <3>1
    <3> QED
      BY ONLY s \in States, <3>3, <3>4 DEF States
  <2>4. PICK y : y = [s EXCEPT !.aux = 0]
    OBVIOUS
  <2>5. y \in States
    <3>1. y = [power |-> s.power, set |-> s.set, aux |-> 0]
      BY <2>4 DEF States
    <3> QED
      BY ONLY s \in States, <3>1 DEF States
  <2> QED
    BY <1>2, <1>5, <2>1, <2>2, <2>3, <2>4, <2>5, TouchedQuietly
<1>6. CASE driver \in {"udp203", "appletv"}
  <2>1. r = React(f, <<>>)
    BY <1>0, <1>6 DEF Touched
  <2> QED
    BY <1>1, <1>6, <2>1, TouchedQuietly
<1>7. CASE driver \notin {"avm70", "envy", "pj_talk", "udp203", "appletv"}
  <2>1. PICK y : y = [s EXCEPT !.aux = 1 - @]
    OBVIOUS
  <2>2. \E t \in moved \cup {f, y} : r = React(t, <<>>)
    BY <1>0, <1>7, <2>1 DEF Touched, moved
  <2>3. y \in States
    BY <2>1, Toggling
  <2> QED
    BY <1>1, <1>2, <1>7, <2>2, <2>3, TouchedQuietly
<1> QED
  BY <1>3, <1>4, <1>5, <1>6, <1>7

-----------------------------------------------------------------------------
(* A step of the device: calls stay where they are, and see more.          *)

Onlooking ==
  /\ driver' = driver /\ call' = call /\ holder' = holder /\ dev' \in States
  /\ conn' = [k \in Keys |-> conn'[k]] /\ times' \in [Clients -> Nat]
  /\ seen' = [c \in Clients |-> seen'[c]]
  /\ \A c \in Clients :
       IF Busy(c) THEN times'[c] >= times[c] /\ seen'[c] = seen[c] \cup {Reading(Request(c), dev')}
       ELSE times'[c] = times[c] /\ seen'[c] = seen[c]

\* At most one of the calls, that of by, has its command executed.
Struck ==
  /\ Onlooking
  /\ \E by \in Clients \cup {None} :
       \A c \in Clients : Busy(c) => (times'[c] > 0 <=> times[c] > 0 \/ c = by)

\* Calls see the state that a device comes to.
LEMMA SeenIs ==
  ASSUME DInv, Onlooking, NEW c \in Clients
  PROVE  /\ seen[c] \subseteq seen'[c] /\ (times[c] > 0 => times'[c] > 0)
         /\ Busy(c) => Reading(RequestOf(call[c]), dev') \in seen'[c]
         /\ Good(call[c], seen'[c], times'[c] > 0)
<1>1. times[c] \in Nat /\ times'[c] \in Nat /\ times'[c] >= times[c]
  BY DEF DInv, Typed, Onlooking
<1>2. seen[c] \subseteq seen'[c] /\ (Busy(c) => Reading(Request(c), dev') \in seen'[c])
  BY DEF Onlooking
<1>3. Request(c) = RequestOf(call[c])
  BY DEF Request, RequestOf
<1>4. times[c] > 0 => times'[c] > 0
  BY <1>1
<1>5. Good(call[c], seen[c], times[c] > 0) /\ driver \in DriverNames /\ driver \in DOMAIN Methods
  BY CountIs
<1>6. CASE Busy(c)
  <2> DEFINE v == Reading(Request(c), dev')
             T == times[c] > 0
             T2 == times'[c] > 0
  <2>1. MaySee(call[c].op, {v})
    BY <1>5, ReadingIs DEF Onlooking, Request
  <2>2. MaySee(call[c].op, seen[c])
    BY <1>5 DEF Good
  <2> HIDE DEF v
  <2>3. seen'[c] = seen[c] \cup {v}
    BY <1>6 DEF Onlooking, v
  <2>4. MaySee(call[c].op, seen'[c])
    BY <2>1, <2>2, <2>3 DEF MaySee
  <2>5. call[c].pc \notin {"idle", "return"}
    BY <1>6 DEF Busy
  <2>6. Good(call[c], seen[c], T)
    BY <1>5
  <2> HIDE DEF T, T2
  <2>7. Good(call[c], seen'[c], T2)
    BY <1>2, <1>5, <2>4, <2>5, <2>6, SeesMore
  <2> QED
    BY <1>2, <1>3, <1>4, <2>7 DEF T2
<1>7. CASE ~Busy(c)
  BY <1>2, <1>4, <1>5, <1>7 DEF Onlooking
<1> QED
  BY <1>6, <1>7

\* A step of the device preserves DInv if each connection does its part.
LEMMA DeviceStep ==
  ASSUME DInv, Onlooking,
         \A k \in Keys : Wire(k, conn'[k]) /\ conn'[k].by \in {conn[k].by, None},
         \A x \in late' : Belated(x),
         \A c \in Clients : call[c].pc \in {"send", "read"} =>
           Hears(c, call[c], seen'[c], times'[c] > 0, conn'[Conn(c)]),
         \A c \in Clients :
           /\ CountedFor(c, times'[c], call[c], conn'[Conn(c)], late')
           /\ LateOnce(c, call[c].cmd, late') /\ Alike(c, call[c].cmd, conn'[Conn(c)])
  PROVE  DInv'
<1>1. driver' = driver /\ call' = call /\ holder' = holder /\ dev' \in States
  BY DEF Onlooking
<1>2. Typed'
  BY <1>1, SameDriver DEF DInv, Typed, Onlooking
<1>3. Records'
  <2>1. ASSUME NEW c \in Clients
        PROVE  Good(call[c], seen'[c], times'[c] > 0)
               /\ (call[c].pc \notin {"idle", "return"} =>
                    Reading(RequestOf(call[c]), dev') \in seen'[c])
    BY SeenIs DEF Busy
  <2> QED
    BY <1>1, <2>1, SameDriver DEF Records, Saw
<1>4. Wires'
  BY <1>1, SameDriver DEF DInv, Wires
<1>5. \A x \in late' : Belated(x)'
  BY <1>1, SameDriver
<1>6. Locked'
  BY <1>1, LimitsAssumption DEF DInv, Locked, Keys
<1>7. Links'
  BY <1>1, SameDriver DEF Links
<1>8. Counting'
  BY <1>1, SameDriver DEF Counting
<1> QED
  BY <1>2, <1>3, <1>4, <1>5, <1>6, <1>7, <1>8 DEF DInv

\* A command of c that is executed was under way, or late.
LEMMA Recounted ==
  ASSUME DInv, NEW c \in Clients, NEW t \in Nat, NEW w, NEW L,
         t + Bit01(OnWire(c, w)) + Bit01(LateFor(c, L))
           <= times[c] + Bit01(OnWire(c, conn[Conn(c)])) + Bit01(LateFor(c, late))
  PROVE  CountedFor(c, t, call[c], w, L)
<1>1. /\ Bit01(OnWire(c, w)) \in Nat /\ Bit01(LateFor(c, L)) \in Nat
      /\ Bit01(OnWire(c, conn[Conn(c)])) \in Nat /\ Bit01(LateFor(c, late)) \in Nat
  BY DEF Bit01
<1> QED
  BY <1>1, CountIs DEF CountedFor

\* More comes on the connection of a call.
LEMMA MoreLines ==
  ASSUME DInv, Onlooking, NEW c \in Clients, call[c].pc \in {"send", "read"},
         NEW w, w = conn[Conn(c)], NEW v, NEW more \in Seq(Lines),
         v.lines = w.lines \o more, v.up \in {w.up, "cut"}, w.up # "open" => more = <<>>,
         (v.cmd = w.cmd /\ v.by = w.by) \/ v.cmd = None,
         call[c].pc = "read" \/ driver # "appletv" =>
           \A i \in 1..Len(more) :
             Says(call[c].op, call[c].cmd.name, more[i], seen'[c], times'[c] > 0),
         driver = "kscp" =>
           \/ more = <<>>
           \/ /\ call[c].pc = "read" /\ w.cmd # None /\ v.cmd = None
              /\ \A r : r.reply = more /\ call[c].cmd.name = "GET_CONTENT_DETAILS" =>
                   Detailing(r, call[c].cmd),
         driver = "envy" => \A i \in 1..Len(more) : more[i].tag # "welcome"
  PROVE  Hears(c, call[c], seen'[c], times'[c] > 0, v)
<1> DEFINE a == call[c]
           old == w.lines
           T == times[c] > 0
           T2 == times'[c] > 0
<1>1. Hears(c, a, seen[c], T, w) /\ old \in Seq(Lines)
  BY ConnIs DEF DInv, Links, Wires, Wire
<1>2. seen[c] \subseteq seen'[c] /\ (T => T2) /\ driver \in DOMAIN Methods
  BY SeenIs, CountIs
<1>3. /\ Len(old) \in Nat /\ Len(more) \in Nat /\ Len(v.lines) = Len(old) + Len(more)
      /\ \A i \in 1..Len(v.lines) : v.lines[i] =
           IF i <= Len(old) THEN old[i] ELSE more[i - Len(old)]
  BY ONLY <1>1, more \in Seq(Lines), v.lines = w.lines \o more, ConcatProperties, LenProperties
<1>4. \A i \in 1..Len(v.lines) :
        \/ i \in 1..Len(old) /\ v.lines[i] = old[i]
        \/ \E j \in 1..Len(more) : v.lines[i] = more[j] /\ i > Len(old)
  <2>1. SUFFICES ASSUME NEW i \in 1..Len(v.lines), ~(i <= Len(old))
                 PROVE  i - Len(old) \in 1..Len(more) /\ i > Len(old)
    BY ONLY <1>3, <2>1
  <2> QED
    BY ONLY <1>3, <2>1
<1> HIDE DEF T, T2, old
<1>5. a.pc = "read" \/ driver # "appletv" =>
        \A i \in 1..Len(v.lines) : Says(a.op, a.cmd.name, v.lines[i], seen'[c], T2)
  <2>1. SUFFICES ASSUME a.pc = "read" \/ driver # "appletv", NEW i \in 1..Len(v.lines)
                 PROVE  Says(a.op, a.cmd.name, v.lines[i], seen'[c], T2)
    OBVIOUS
  <2>2. CASE i \in 1..Len(old) /\ v.lines[i] = old[i]
    <3>1. Says(a.op, a.cmd.name, old[i], seen[c], T)
      BY <1>1, <2>1, <2>2 DEF Hears, old
    <3> QED
      BY <1>2, <2>2, <3>1, SaysMore
  <2>3. CASE \E j \in 1..Len(more) : v.lines[i] = more[j]
    BY <2>1, <2>3 DEF T2
  <2> QED
    BY <1>4, <2>2, <2>3
<1>6. /\ a.pc = "send" /\ driver # "appletv" => v.cmd = None
      /\ a.pc = "read" /\ v.cmd # None => v.cmd = a.cmd /\ v.by = c
  BY <1>1 DEF Hears
<1>7. ASSUME driver = "kscp" PROVE KscpHears(a, v)
  <2>1. KscpHears(a, w)
    BY <1>1, <1>7 DEF Hears
  <2>2. CASE more = <<>>
    <3>1. v.lines = w.lines
      BY ONLY <1>1, <2>2, v.lines = w.lines \o more DEF old
    <3> QED
      BY <2>1, <3>1 DEF KscpHears
  <2>3. CASE more # <<>> /\ a.cmd.name = "GET_CONTENT_DETAILS"
    <3>1. a.pc = "read" /\ w.cmd # None /\ v.cmd = None
      BY <1>7, <2>3
    <3>2. ~(a.m > 0) /\ w.lines = <<>>
      BY <2>1, <2>3, <3>1 DEF KscpHears
    <3>3. v.lines = more
      BY ONLY <3>2, more \in Seq(Lines), v.lines = w.lines \o more
    <3>5. PICK r : r = [reply |-> more]
      OBVIOUS
    <3>6. r.reply = more
      BY <3>5
    <3>7. Detailing(r, a.cmd)
      BY <1>7, <2>3, <3>6
    <3>8. \/ more = <<Line("standby", 0)>>
          \/ /\ Len(more) = DetailLines + 1
             /\ more[1] = Line("overview", DetailLines)
             /\ \A i \in 2..Len(more) : more[i] = Line("detail", a.cmd.arg)
      BY <3>6, <3>7 DEF Detailing
    <3> QED
      BY <3>1, <3>2, <3>3, <3>8 DEF KscpHears
  <2>4. CASE a.cmd.name # "GET_CONTENT_DETAILS"
    BY <2>4 DEF KscpHears
  <2> QED
    BY <2>2, <2>3, <2>4
<1>8. ASSUME driver = "envy" PROVE EnvyHears(a, v)
  <2>1. EnvyHears(a, w)
    BY <1>1, <1>8 DEF Hears
  <2>2. \A i \in 1..Len(v.lines) : v.lines[i].tag = "welcome" =>
          i \in 1..Len(old) /\ v.lines[i] = old[i]
    BY <1>4, <1>8
  <2>3. ASSUME a.m = 0
        PROVE  /\ v.cmd = None
               /\ v.up = "open" => v.lines # <<>>
               /\ v.lines # <<>> => v.lines[1].tag = "welcome"
    <3>1. v.cmd = None /\ (w.up = "open" => old # <<>>) /\ (old # <<>> => old[1].tag = "welcome")
      BY <2>1, <2>3 DEF EnvyHears, old
    <3>2. CASE old # <<>>
      <4>1. Len(old) > 0
        BY ONLY <1>1, <3>2
      <4>2. 1 \in 1..Len(v.lines) /\ 1 <= Len(old)
        BY ONLY <1>3, <4>1
      <4>3. v.lines[1] = old[1]
        BY ONLY <1>3, <4>2
      <4>4. v.lines # <<>>
        BY ONLY <1>3, <4>1
      <4> QED
        BY <3>1, <3>2, <4>3, <4>4
    <3>3. CASE old = <<>>
      <4>1. w.up # "open" /\ more = <<>>
        BY <3>1, <3>3
      <4>2. v.lines = <<>>
        BY ONLY <3>3, <4>1, v.lines = w.lines \o more DEF old
      <4>3. v.up # "open"
        BY <4>1
      <4> QED
        BY <3>1, <4>2, <4>3
    <3> QED
      BY <3>2, <3>3
  <2>4. \A i \in 1..Len(v.lines) : v.lines[i].tag = "welcome" => i = 1 /\ a.m = 0
    BY <2>1, <2>2 DEF EnvyHears, old
  <2> QED
    BY <2>3, <2>4 DEF EnvyHears
<1>9. Hears(c, a, seen'[c], T2, v)
  BY <1>5, <1>6, <1>7, <1>8 DEF Hears
<1> QED
  BY <1>9 DEF T2

\* What comes on connection j when the device does r.
Coming(j, k, r) == IF conn[j].up # "open" THEN <<>> ELSE IF j = k THEN r.reply ELSE r.tell

\* The connections without the command that is executed.
Stripped(cs) ==
  \A j \in Keys :
    /\ cs[j] = [up |-> conn[j].up, cmd |-> cs[j].cmd, by |-> cs[j].by, lines |-> conn[j].lines]
    /\ \/ cs[j].cmd = conn[j].cmd /\ cs[j].by = conn[j].by
       \/ cs[j].cmd = None /\ cs[j].by = None

\* A connection gets the lines that come on it, and keeps the ones it has.
LEMMA ToldIs ==
  ASSUME DInv, NEW cs, Stripped(cs), NEW k, NEW r, Reacts(r), NEW j \in Keys
  PROVE  LET w == Told(cs, k, r)[j] IN
         /\ w = [up |-> w.up, cmd |-> cs[j].cmd, by |-> cs[j].by, lines |-> w.lines]
         /\ w.up \in {conn[j].up, "cut"}
         /\ Coming(j, k, r) \in Seq(Lines) /\ w.lines = conn[j].lines \o Coming(j, k, r)
<1>1. PICK w : w = Told(cs, k, r)[j]
  OBVIOUS
<1>2. PICK x : x = cs[j]
  OBVIOUS
<1>3. /\ x = [up |-> conn[j].up, cmd |-> x.cmd, by |-> x.by, lines |-> conn[j].lines]
      /\ x.up = conn[j].up /\ x.lines = conn[j].lines
  BY <1>2 DEF Stripped
<1>4. conn[j].lines \in Seq(Lines)
  BY DEF DInv, Wires, Wire
<1>5. Coming(j, k, r) \in Seq(Lines)
  BY AmongIs DEF Coming, Reacts, Among
<1>6. CASE conn[j].up # "open"
  <2>1. w = x
    BY <1>1, <1>2, <1>3, <1>6 DEF Told
  <2>2. Coming(j, k, r) = <<>>
    BY <1>6 DEF Coming
  <2>3. w.lines = conn[j].lines \o <<>>
    BY ONLY <1>3, <1>4, <2>1
  <2> QED
    BY <1>1, <1>2, <1>3, <1>5, <2>1, <2>2, <2>3
<1>7. CASE conn[j].up = "open"
  <2>1. PICK ls, u : /\ ls = conn[j].lines \o Coming(j, k, r)
                     /\ u = IF r.close THEN "cut" ELSE conn[j].up
    OBVIOUS
  <2>2. Coming(j, k, r) = IF j = k THEN r.reply ELSE r.tell
    BY <1>7 DEF Coming
  <2>3. w = [x EXCEPT !.lines = @ \o (IF j = k THEN r.reply ELSE r.tell),
                      !.up = IF r.close THEN "cut" ELSE @]
    BY <1>1, <1>2, <1>3, <1>7 DEF Told
  <2>4. w = [x EXCEPT !.lines = ls, !.up = u]
    BY <1>3, <2>1, <2>2, <2>3
  <2>5. w = [up |-> u, cmd |-> x.cmd, by |-> x.by, lines |-> ls]
    BY ONLY <1>3, <2>4
  <2>6. u \in {conn[j].up, "cut"}
    BY <2>1
  <2> QED
    BY ONLY <1>1, <1>2, <1>5, <2>1, <2>5, <2>6
<1> QED
  BY <1>6, <1>7

\* Whose command is executed gets the reply.
Serving(k, cs, r) ==
  k \in Keys =>
    /\ conn[k].cmd # None /\ cs[k].cmd = None
    /\ Serves(r, conn[k].cmd)
    /\ driver = "kscp" /\ conn[k].cmd.name = "GET_CONTENT_DETAILS" => Detailing(r, conn[k].cmd)
    /\ \A c \in Clients : Busy(c) /\ conn[k].by = c /\ r.heeded /\ conn[k].cmd.name \in Acting
         => times'[c] > 0

\* What a call counts as executed was under way, or late.
Recounting(cs) ==
  /\ times' \in [Clients -> Nat]
  /\ \A c \in Clients :
       /\ IF Busy(c) THEN times'[c] >= times[c] ELSE times'[c] = times[c]
       /\ times'[c] + Bit01(OnWire(c, cs[Conn(c)])) + Bit01(LateFor(c, late'))
            <= times[c] + Bit01(OnWire(c, conn[Conn(c)])) + Bit01(LateFor(c, late))

\* What comes on a call's connection is true for it.
LEMMA ServedIs ==
  ASSUME DInv, Onlooking, NEW cs, Stripped(cs), NEW k, NEW r, Reacts(r), dev' = r.state,
         Serving(k, cs, r), NEW c \in Clients, call[c].pc \in {"send", "read"},
         call[c].pc = "read" \/ driver # "appletv",
         NEW i \in 1..Len(Coming(Conn(c), k, r))
  PROVE  Says(call[c].op, call[c].cmd.name, Coming(Conn(c), k, r)[i], seen'[c], times'[c] > 0)
<1> DEFINE a == call[c]
           T2 == times'[c] > 0
<1>1. Busy(c)
  BY DEF Busy
<1>2. Reading(RequestOf(a), r.state) \in seen'[c] /\ Good(a, seen'[c], T2) /\ Conn(c) \in Keys
  BY <1>1, SeenIs, ConnIs
<1> HIDE DEF T2
<1>3. CASE Conn(c) = k
  <2>1. conn[k].cmd # None /\ Serves(r, conn[k].cmd)
    BY <1>2, <1>3 DEF Serving
  <2>2. Hears(c, a, seen[c], times[c] > 0, conn[k])
    BY <1>3 DEF DInv, Links
  <2>3. a.pc = "read" /\ conn[k].cmd = a.cmd /\ conn[k].by = c
    BY <2>1, <2>2 DEF Hears
  <2>4. r.heeded /\ a.cmd.name \in Acting => T2
    BY <1>1, <1>2, <1>3, <2>3 DEF Serving, T2
  <2>5. Knows(a, seen'[c])
    BY <1>2, <2>3 DEF Good
  <2>6. Replying(a, r, seen'[c], T2)
    BY <1>2, <2>1, <2>3, <2>4, <2>5 DEF Serves
  <2>7. Coming(Conn(c), k, r) = r.reply \/ Coming(Conn(c), k, r) = <<>>
    BY <1>3 DEF Coming
  <2> QED
    BY <2>6, <2>7 DEF Replying, T2
<1>4. CASE Conn(c) # k
  <2>1. Coming(Conn(c), k, r) = r.tell \/ Coming(Conn(c), k, r) = <<>>
    BY <1>4 DEF Coming
  <2>2. Telling(r)
    BY DEF Reacts
  <2>3. \A n \in 1..Len(r.tell) : Says(a.op, a.cmd.name, r.tell[n], seen'[c], T2)
    BY <1>2, <2>2 DEF Telling, RequestOf
  <2> QED
    BY <2>1, <2>3 DEF T2
<1> QED
  BY <1>3, <1>4

\* A device that takes a command preserves DInv.
LEMMA TakesStep ==
  ASSUME DInv, NEW r, Reacts(r), NEW k, NEW by, NEW cs, Takes(r, cs, k, by), Stripped(cs),
         UNCHANGED <<driver, call, holder>>, Serving(k, cs, r), late' \subseteq late, Recounting(cs)
  PROVE  DInv' /\ Onlooking
<1>1. /\ Onlooking /\ dev' = r.state /\ conn' = Told(cs, k, r)
  BY DEF Onlooking, Takes, Reacts, Recounting, Told
<1>2. ASSUME NEW j \in Keys
      PROVE  /\ conn'[j] = [up |-> conn'[j].up, cmd |-> cs[j].cmd, by |-> cs[j].by,
                            lines |-> conn'[j].lines]
             /\ conn'[j].cmd = cs[j].cmd /\ conn'[j].by = cs[j].by
             /\ conn'[j].up \in {conn[j].up, "cut"} /\ conn'[j].by \in {conn[j].by, None}
             /\ Coming(j, k, r) \in Seq(Lines) /\ conn'[j].lines = conn[j].lines \o Coming(j, k, r)
             /\ \/ conn'[j].cmd = conn[j].cmd /\ conn'[j].by = conn[j].by
                \/ conn'[j].cmd = None /\ conn'[j].by = None
  <2>1. /\ conn'[j] = [up |-> conn'[j].up, cmd |-> cs[j].cmd, by |-> cs[j].by,
                       lines |-> conn'[j].lines]
        /\ conn'[j].up \in {conn[j].up, "cut"}
        /\ Coming(j, k, r) \in Seq(Lines) /\ conn'[j].lines = conn[j].lines \o Coming(j, k, r)
    BY <1>1, ToldIs
  <2>2. conn'[j].cmd = cs[j].cmd /\ conn'[j].by = cs[j].by
    BY <2>1
  <2> QED
    BY <2>1, <2>2 DEF Stripped
<1>3. ASSUME NEW j \in Keys PROVE Wire(j, conn'[j])
  <2>1. Wire(j, conn[j])
    BY DEF DInv, Wires
  <2>2. conn'[j].lines \in Seq(Lines)
    <3>1. conn[j].lines \in Seq(Lines)
      BY <2>1 DEF Wire
    <3> QED
      BY <1>2, <3>1, ConcatProperties
  <2> QED
    BY <1>2, <2>1, <2>2 DEF Wire
<1>4. ASSUME NEW c \in Clients, call[c].pc \in {"send", "read"}
      PROVE  Hears(c, call[c], seen'[c], times'[c] > 0, conn'[Conn(c)])
  <2> DEFINE j == Conn(c)
             more == Coming(j, k, r)
  <2>1. j \in Keys
    BY ConnIs
  <2>2. call[c].pc = "read" \/ driver # "appletv" =>
          \A i \in 1..Len(more) :
            Says(call[c].op, call[c].cmd.name, more[i], seen'[c], times'[c] > 0)
    BY <1>1, <1>4, ServedIs
  <2>3. conn[j].up # "open" => more = <<>>
    BY DEF Coming
  <2>4. ASSUME driver = "kscp", more # <<>>
        PROVE  /\ call[c].pc = "read" /\ conn[j].cmd # None /\ conn'[j].cmd = None
               /\ \A x : x.reply = more /\ call[c].cmd.name = "GET_CONTENT_DETAILS" =>
                    Detailing(x, call[c].cmd)
    <3>1. j = k /\ more = r.reply
      BY <2>4 DEF Coming, Reacts
    <3>2. conn[k].cmd # None /\ cs[k].cmd = None
      BY <2>1, <3>1 DEF Serving
    <3>3. Hears(c, call[c], seen[c], times[c] > 0, conn[k])
      BY <1>4, <3>1 DEF DInv, Links
    <3>4. call[c].pc = "read" /\ conn[k].cmd = call[c].cmd
      BY <1>4, <2>4, <3>2, <3>3 DEF Hears
    <3>5. call[c].cmd.name = "GET_CONTENT_DETAILS" => Detailing(r, call[c].cmd)
      BY <2>1, <2>4, <3>1, <3>4 DEF Serving
    <3>6. \A x : x.reply = r.reply /\ Detailing(r, call[c].cmd) => Detailing(x, call[c].cmd)
      BY DEF Detailing
    <3> QED
      BY <1>2, <2>1, <3>1, <3>2, <3>4, <3>5, <3>6
  <2>5. driver = "envy" => \A i \in 1..Len(more) : more[i].tag # "welcome"
    BY DEF Coming, Reacts
  <2> HIDE DEF more, j
  <2>6. /\ more \in Seq(Lines) /\ conn'[j].lines = conn[j].lines \o more
        /\ conn'[j].up \in {conn[j].up, "cut"}
        /\ (conn'[j].cmd = conn[j].cmd /\ conn'[j].by = conn[j].by) \/ conn'[j].cmd = None
    BY <1>2, <2>1 DEF more
  <2>7. PICK v, w : v = conn'[j] /\ w = conn[j]
    OBVIOUS
  <2>8. Hears(c, call[c], seen'[c], times'[c] > 0, v)
    BY <1>1, <1>4, <2>2, <2>3, <2>4, <2>5, <2>6, <2>7, MoreLines DEF j
  <2> QED
    BY <2>7, <2>8 DEF j
<1>5. ASSUME NEW c \in Clients
      PROVE  /\ CountedFor(c, times'[c], call[c], conn'[Conn(c)], late')
             /\ LateOnce(c, call[c].cmd, late') /\ Alike(c, call[c].cmd, conn'[Conn(c)])
  <2>1. conn'[Conn(c)].cmd = cs[Conn(c)].cmd /\ conn'[Conn(c)].by = cs[Conn(c)].by
    BY <1>2, ConnIs
  <2>2. OnWire(c, conn'[Conn(c)]) <=> OnWire(c, cs[Conn(c)])
    BY <2>1 DEF OnWire
  <2>3. times'[c] + Bit01(OnWire(c, conn'[Conn(c)])) + Bit01(LateFor(c, late'))
          <= times[c] + Bit01(OnWire(c, conn[Conn(c)])) + Bit01(LateFor(c, late))
    BY <2>2 DEF Recounting, Bit01
  <2>4. CountedFor(c, times'[c], call[c], conn'[Conn(c)], late')
    BY <2>3, Recounted DEF Recounting
  <2>5. LateOnce(c, call[c].cmd, late) /\ Alike(c, call[c].cmd, conn[Conn(c)])
    BY DEF DInv, Counting
  <2>6. LateOnce(c, call[c].cmd, late')
    BY <2>5 DEF LateOnce
  <2>7. Alike(c, call[c].cmd, conn'[Conn(c)])
    BY <1>2, <2>5, ConnIs DEF Alike
  <2> QED
    BY <2>4, <2>6, <2>7
<1>6. \A x \in late' : Belated(x)
  BY DEF DInv
<1>7. \A j \in Keys : conn'[j].by \in {conn[j].by, None}
  BY <1>2
<1> QED
  BY <1>1, <1>3, <1>4, <1>5, <1>6, <1>7, DeviceStep

\* The history of a step of the device.
LEMMA StruckIs ==
  ASSUME Onlooking, times \in [Clients -> Nat], NEW by, NEW h,
         times' = [c \in Clients |->
           IF c = by /\ Busy(c) /\ h THEN times[c] + 1 ELSE times[c]]
  PROVE  Struck
<1>0. None \notin Clients
  BY NoneAssumption
<1>1. CASE by \in Clients /\ Busy(by) /\ h
  <2>1. \A c \in Clients : Busy(c) => (times'[c] > 0 <=> times[c] > 0 \/ c = by)
    BY <1>1
  <2> QED
    BY <1>1, <2>1 DEF Struck
<1>2. CASE ~(by \in Clients /\ Busy(by) /\ h)
  <2>1. \A c \in Clients : Busy(c) => (times'[c] > 0 <=> times[c] > 0 \/ c = None)
    BY <1>0, <1>2
  <2> QED
    BY <2>1 DEF Struck
<1> QED
  BY <1>1, <1>2

\* A command that a device has executed is not under way any more.
LEMMA TakenOff ==
  ASSUME NEW f, f = [j \in Keys |-> f[j]], NEW k \in Keys,
         f[k] = [up |-> f[k].up, cmd |-> f[k].cmd, by |-> f[k].by, lines |-> f[k].lines],
         NEW g, g = [f EXCEPT ![k].cmd = None, ![k].by = None]
  PROVE  /\ g = [j \in Keys |-> g[j]] /\ \A j \in Keys \ {k} : g[j] = f[j]
         /\ g[k] = [up |-> f[k].up, cmd |-> None, by |-> None, lines |-> f[k].lines]
OBVIOUS

\* A command under way is executed.
LEMMA ExecuteStep ==
  ASSUME DInv, NEW k \in Keys, Execute(k)
  PROVE  DInv' /\ Struck
<1> DEFINE cmd == conn[k].cmd
           by == conn[k].by
<1>1. PICK cs : cs = [conn EXCEPT ![k].cmd = None, ![k].by = None]
  OBVIOUS
<1>2. PICK r : r \in Does(cmd, dev) /\ Takes(r, cs, k, by) /\ Counted(r, cmd, by)
  BY <1>1 DEF Execute
<1>3. /\ UNCHANGED <<driver, call, holder, late>> /\ cmd # None /\ driver \in DriverNames
      /\ dev \in States /\ conn = [j \in Keys |-> conn[j]] /\ times \in [Clients -> Nat]
  BY DEF Execute, DInv, Typed
<1>4. \A j \in Keys : Wire(j, conn[j])
  BY DEF DInv, Wires
<1>5. Known(cmd)
  BY <1>3, <1>4 DEF Wire
<1>6. /\ Reacts(r) /\ Serves(r, cmd)
      /\ driver = "kscp" /\ cmd.name = "GET_CONTENT_DETAILS" => Detailing(r, cmd)
  BY <1>2, <1>3, <1>5, DoesIs
<1>7. /\ \A j \in Keys \ {k} : cs[j] = conn[j]
      /\ cs[k] = [up |-> conn[k].up, cmd |-> None, by |-> None, lines |-> conn[k].lines]
  <2>1. conn[k] = [up |-> conn[k].up, cmd |-> conn[k].cmd, by |-> conn[k].by,
        lines |-> conn[k].lines]
    BY <1>4 DEF Wire
  <2> QED
    BY <1>1, <1>3, <2>1, TakenOff
<1>8. Stripped(cs)
  BY <1>4, <1>7 DEF Stripped, Wire
<1>9. times' = [c \in Clients |->
        IF c = by /\ Busy(c) /\ r.heeded /\ cmd.name \in Acting THEN times[c] + 1 ELSE times[c]]
  BY <1>2 DEF Counted
<1>10. Serving(k, cs, r)
  <2>1. cs[k].cmd = None
    BY <1>7
  <2>2. ASSUME NEW c \in Clients, Busy(c), by = c, r.heeded, cmd.name \in Acting
        PROVE  times'[c] > 0
    BY <1>3, <1>9, <2>2
  <2> QED
    BY <1>3, <1>6, <2>1, <2>2 DEF Serving
<1>11. Recounting(cs)
  <2>1. times' \in [Clients -> Nat]
    BY <1>3, <1>9
  <2>2. ASSUME NEW c \in Clients
        PROVE  /\ IF Busy(c) THEN times'[c] >= times[c] ELSE times'[c] = times[c]
               /\ times'[c] + Bit01(OnWire(c, cs[Conn(c)])) + Bit01(LateFor(c, late'))
                    <= times[c] + Bit01(OnWire(c, conn[Conn(c)])) + Bit01(LateFor(c, late))
    <3>1. LateFor(c, late') = LateFor(c, late) /\ times[c] \in Nat
      BY <1>3
    <3>2. CASE c = by /\ Busy(c) /\ r.heeded /\ cmd.name \in Acting
      <4>1. Conn(c) = k
        BY <1>4, <3>2, ConnIs DEF Wire
      <4>2. OnWire(c, conn[k])
        BY <1>3, <3>2 DEF OnWire
      <4>3. ~OnWire(c, cs[k])
        BY <1>7 DEF OnWire
      <4>4. times'[c] = times[c] + 1
        BY <1>9, <3>2
      <4>5. IF Busy(c) THEN times'[c] >= times[c] ELSE times'[c] = times[c]
        BY <3>1, <3>2, <4>4
      <4> QED
        BY <3>1, <4>1, <4>2, <4>3, <4>4, <4>5 DEF Bit01
    <3>3. CASE ~(c = by /\ Busy(c) /\ r.heeded /\ cmd.name \in Acting)
      <4>1. times'[c] = times[c]
        BY <1>9, <3>3
      <4>2. OnWire(c, cs[Conn(c)]) => OnWire(c, conn[Conn(c)])
        BY <1>7, ConnIs DEF OnWire
      <4> QED
        BY <3>1, <4>1, <4>2 DEF Bit01
    <3> QED
      BY <3>2, <3>3
  <2> QED
    BY <2>1, <2>2 DEF Recounting
<1>12. DInv' /\ Onlooking
  BY <1>2, <1>3, <1>6, <1>8, <1>10, <1>11, TakesStep
<1>13. Struck
  <2>1. PICK h \in BOOLEAN : h <=> r.heeded /\ cmd.name \in Acting
    OBVIOUS
  <2>2. times' = [c \in Clients |-> IF c = by /\ Busy(c) /\ h THEN times[c] + 1 ELSE times[c]]
    BY <1>9, <2>1
  <2> QED
    BY <1>3, <1>12, <2>2, StruckIs
<1> QED
  BY <1>12, <1>13

\* Connections that no command is executed for stay as they are.
LEMMA Unserved ==
  ASSUME DInv, NEW r
  PROVE  Stripped(conn) /\ Serving(None, conn, r)
<1>1. None \notin Keys
  BY LimitsAssumption, NoneAssumption DEF Keys
<1> QED
  BY <1>1 DEF DInv, Wires, Wire, Stripped, Serving

\* A late command is executed.
LEMMA ExecuteLateStep ==
  ASSUME DInv, ExecuteLate
  PROVE  DInv' /\ Struck
<1>1. PICK x \in late : \E r \in Does(x.cmd, dev) :
        Takes(r, conn, None, x.by) /\ Counted(r, x.cmd, x.by) /\ late' = late \ {x}
  BY DEF ExecuteLate
<1>2. PICK r \in Does(x.cmd, dev) :
        Takes(r, conn, None, x.by) /\ Counted(r, x.cmd, x.by) /\ late' = late \ {x}
  BY <1>1
<1>3. /\ UNCHANGED <<driver, call, holder>> /\ driver \in DriverNames
      /\ dev \in States /\ times \in [Clients -> Nat]
  BY DEF ExecuteLate, DInv, Typed
<1>4. Reacts(r)
  <2>1. Known(x.cmd)
    BY DEF DInv, Belated
  <2> QED
    BY <1>2, <1>3, <2>1, DoesIs
<1>5. Stripped(conn) /\ Serving(None, conn, r)
  BY Unserved
<1>6. times' = [c \in Clients |-> IF c = x.by /\ Busy(c) /\ r.heeded /\ x.cmd.name \in Acting
                                  THEN times[c] + 1 ELSE times[c]]
  BY <1>2 DEF Counted
<1>7. Recounting(conn)
  <2>1. times' \in [Clients -> Nat]
    BY <1>3, <1>6
  <2>2. ASSUME NEW c \in Clients
        PROVE  /\ IF Busy(c) THEN times'[c] >= times[c] ELSE times'[c] = times[c]
               /\ times'[c] + Bit01(OnWire(c, conn[Conn(c)])) + Bit01(LateFor(c, late'))
                    <= times[c] + Bit01(OnWire(c, conn[Conn(c)])) + Bit01(LateFor(c, late))
    <3>1. /\ LateFor(c, late') => LateFor(c, late)
          /\ times[c] \in Nat
      BY <1>2, <1>3 DEF LateFor
    <3>2. CASE c = x.by /\ Busy(c) /\ r.heeded /\ x.cmd.name \in Acting
      <4>1. LateOnce(c, call[c].cmd, late)
        BY DEF DInv, Counting
      <4>2. LateFor(c, late) /\ ~LateFor(c, late')
        BY <1>2, <3>2, <4>1 DEF LateFor, LateOnce
      <4>3. times'[c] = times[c] + 1
        BY <1>6, <3>2
      <4>4. IF Busy(c) THEN times'[c] >= times[c] ELSE times'[c] = times[c]
        BY <3>1, <3>2, <4>3
      <4> QED
        BY <3>1, <4>2, <4>3, <4>4 DEF Bit01
    <3>3. CASE ~(c = x.by /\ Busy(c) /\ r.heeded /\ x.cmd.name \in Acting)
      <4>1. times'[c] = times[c]
        BY <1>6, <3>3
      <4> QED
        BY <3>1, <4>1 DEF Bit01
    <3> QED
      BY <3>2, <3>3
  <2> QED
    BY <2>1, <2>2 DEF Recounting
<1>8. late' \subseteq late
  BY <1>2
<1>9. DInv' /\ Onlooking
  BY <1>2, <1>3, <1>4, <1>5, <1>7, <1>8, TakesStep
<1>10. Struck
  <2>1. PICK h \in BOOLEAN : h <=> r.heeded /\ x.cmd.name \in Acting
    OBVIOUS
  <2>2. PICK by : by = x.by
    OBVIOUS
  <2>3. times' = [c \in Clients |-> IF c = by /\ Busy(c) /\ h THEN times[c] + 1 ELSE times[c]]
    BY <1>6, <2>1, <2>2
  <2> QED
    BY <1>3, <1>9, <2>3, StruckIs
<1> QED
  BY <1>9, <1>10

\* Somebody operates the device.
LEMMA ByHandStep ==
  ASSUME DInv, ByHand
  PROVE  DInv' /\ Struck
<1>1. PICK r \in Touched(dev) : Takes(r, conn, None, None)
  BY DEF ByHand
<1>2. /\ UNCHANGED <<driver, call, holder, late, times>> /\ driver \in DriverNames
      /\ dev \in States /\ times \in [Clients -> Nat]
  BY DEF ByHand, DInv, Typed
<1>3. Reacts(r)
  BY <1>1, <1>2, TouchedIs
<1>4. Stripped(conn) /\ Serving(None, conn, r)
  BY Unserved
<1>5. Recounting(conn)
  BY <1>2 DEF Recounting, Bit01
<1>6. UNCHANGED <<driver, call, holder>> /\ late' \subseteq late
  BY <1>2
<1>7. DInv' /\ Onlooking
  BY <1>1, <1>3, <1>4, <1>5, <1>6, TakesStep
<1>8. None \notin Clients
  BY NoneAssumption
<1>9. Struck
  BY <1>2, <1>7, <1>8 DEF Struck
<1> QED
  BY <1>7, <1>9

-----------------------------------------------------------------------------
(* Connections that speak, and break.                                      *)

\* A step that leaves device and calls alone changes nothing that calls see.
LEMMA Unseen ==
  ASSUME DInv, UNCHANGED <<driver, dev, call, holder, times, seen>>,
         conn' = [j \in Keys |-> conn'[j]]
  PROVE  Onlooking
<1>1. ASSUME NEW c \in Clients, Busy(c) PROVE Reading(Request(c), dev) \in seen[c]
  <2>1. Request(c) = RequestOf(call[c])
    BY DEF Request, RequestOf
  <2> QED
    BY <1>1, <2>1 DEF DInv, Records, Saw, Busy
<1>2. \A c \in Clients : times[c] \in Nat
  BY DEF DInv, Typed
<1>3. \A c \in Clients : Request(c)' = Request(c)
  BY DEF Request
<1> QED
  BY <1>1, <1>2 DEF Onlooking, DInv, Typed

\* A line that nobody asked for.
LEMMA ChatterStep ==
  ASSUME DInv, NEW k \in Keys, Chatter(k)
  PROVE  DInv'
<1>1. PICK l \in Notes : conn' = [conn EXCEPT ![k].lines = Append(@, l)]
  BY DEF Chatter
<1>2. /\ driver \in {"avm70", "envy"} /\ conn[k].up = "open"
      /\ conn' = [conn EXCEPT ![k].lines = Append(@, l)]
      /\ UNCHANGED <<driver, dev, call, holder, late, times, seen>>
  BY <1>1 DEF Chatter
<1>3. /\ l \in Lines /\ l.tag # "welcome"
      /\ \A op, name, S, T : Says(op, name, l, S, T)
  <2>1. CASE driver = "envy"
    <3>1. l \in Lines /\ l.tag \in {"note", "words"} /\ l.val = Other
      BY <2>1, LinesAre DEF Notes, Tags, Line
    <3> QED
      BY <2>1, <3>1 DEF Says, EnvySays
  <2>2. CASE driver = "avm70"
    <3>1. l \in Lines /\ l.tag = "Z1VOL"
      BY <2>2, LinesAre DEF Notes, Tags, Line
    <3> QED
      BY <2>2, <3>1 DEF Says, AvmSays
  <2> QED
    BY <1>2, <2>1, <2>2
<1>4. \A j \in Keys : Wire(j, conn[j])
  BY DEF DInv, Wires
<1> DEFINE more == <<l>>
<1>5. more \in Seq(Lines) /\ \A i \in 1..Len(more) : more[i] = l
  BY <1>3, AmongIs DEF Among
<1>6. /\ conn' = [j \in Keys |-> conn'[j]] /\ \A j \in Keys \ {k} : conn'[j] = conn[j]
      /\ conn'[k] = [up |-> conn[k].up, cmd |-> conn[k].cmd, by |-> conn[k].by,
                     lines |-> Append(conn[k].lines, l)]
      /\ conn[k].lines \in Seq(Lines)
  <2>1. conn[k] = [up |-> conn[k].up, cmd |-> conn[k].cmd, by |-> conn[k].by,
        lines |-> conn[k].lines]
        /\ conn[k].lines \in Seq(Lines)
    BY <1>4 DEF Wire
  <2>2. conn = [j \in Keys |-> conn[j]]
    BY DEF DInv, Typed
  <2> QED
    BY <1>2, <2>1, <2>2
<1>7. Onlooking
  BY <1>2, <1>6, Unseen
<1>8. Append(conn[k].lines, l) \in Seq(Lines) /\ Append(conn[k].lines, l) = conn[k].lines \o more
  <2>1. l \in Lines /\ conn[k].lines \in Seq(Lines)
    BY <1>3, <1>6
  <2> QED
    BY ONLY <2>1, AppendIsConcat, AppendProperties
<1> HIDE DEF more
<1>9. \A j \in Keys : /\ Wire(j, conn'[j]) /\ conn'[j].by = conn[j].by /\ conn'[j].cmd = conn[j].cmd
  <2>1. \A j \in Keys \ {k} : Wire(j, conn'[j])
    BY <1>4, <1>6
  <2>2. Wire(k, conn'[k]) /\ conn'[k].by = conn[k].by /\ conn'[k].cmd = conn[k].cmd
    <3>1. PICK v, ls : v = conn'[k] /\ ls = Append(conn[k].lines, l)
      OBVIOUS
    <3>2. v = [up |-> conn[k].up, cmd |-> conn[k].cmd, by |-> conn[k].by, lines |-> ls]
      BY <1>6, <3>1
    <3>3. /\ v.up = conn[k].up /\ v.cmd = conn[k].cmd /\ v.by = conn[k].by /\ v.lines = ls
          /\ v = [up |-> v.up, cmd |-> v.cmd, by |-> v.by, lines |-> v.lines]
      BY ONLY <3>2
    <3>4. Wire(k, conn[k]) /\ ls \in Seq(Lines)
      BY <1>4, <1>8, <3>1
    <3>5. Wire(k, v)
      BY <3>3, <3>4 DEF Wire
    <3> QED
      BY <3>1, <3>3, <3>5
  <2> QED
    BY <1>6, <2>1, <2>2
<1>10. ASSUME NEW c \in Clients, call[c].pc \in {"send", "read"}
       PROVE  Hears(c, call[c], seen'[c], times'[c] > 0, conn'[Conn(c)])
  <2>1. CASE Conn(c) = k
    <3>1. PICK v, w : v = conn'[k] /\ w = conn[k]
      OBVIOUS
    <3>2. /\ v.lines = w.lines \o more /\ v.up = w.up /\ w.up = "open"
          /\ v.cmd = w.cmd /\ v.by = w.by /\ w = conn[Conn(c)]
      BY <1>2, <1>6, <1>8, <2>1, <3>1
    <3>3. driver # "kscp"
      BY <1>2
    <3>4. Hears(c, call[c], seen'[c], times'[c] > 0, v)
      BY <1>3, <1>5, <1>7, <1>10, <3>2, <3>3, MoreLines
    <3> QED
      BY <2>1, <3>1, <3>4
  <2>2. CASE Conn(c) # k
    BY <1>2, <1>6, <1>10, <2>2, ConnIs DEF DInv, Links
  <2> QED
    BY <2>1, <2>2
<1>11. ASSUME NEW c \in Clients
       PROVE  /\ CountedFor(c, times'[c], call[c], conn'[Conn(c)], late')
              /\ LateOnce(c, call[c].cmd, late') /\ Alike(c, call[c].cmd, conn'[Conn(c)])
  BY <1>2, <1>9, ConnIs DEF DInv, Counting, CountedFor, OnWire, Alike
<1>12. \A x \in late' : Belated(x)
  BY <1>2 DEF DInv
<1> QED
  BY <1>7, <1>9, <1>10, <1>11, <1>12, DeviceStep

\* A connection breaks; its command is late, or lost.
LEMMA CutStep ==
  ASSUME DInv, NEW k \in Keys, Cut(k)
  PROVE  DInv'
<1>1. PICK L \in Stranded(k) : late' = late \cup L
  BY DEF Cut
<1>2. PICK ls \in {conn[k].lines, <<>>} :
        conn' = [conn EXCEPT ![k] = [NoConn EXCEPT !.up = "cut", !.lines = ls]]
  BY DEF Cut
<1>3. PICK v : v = [NoConn EXCEPT !.up = "cut", !.lines = ls]
  OBVIOUS
<1>4. v = [up |-> "cut", cmd |-> None, by |-> None, lines |-> ls]
  BY <1>3 DEF NoConn
<1>5. UNCHANGED <<driver, dev, call, holder, times, seen>> /\ conn = [j \in Keys |-> conn[j]]
  BY DEF Cut, DInv, Typed
<1>6. /\ conn' = [j \in Keys |-> conn'[j]] /\ \A j \in Keys \ {k} : conn'[j] = conn[j]
      /\ conn'[k] = v
  BY <1>2, <1>3, <1>5
<1>7. Onlooking
  BY <1>5, <1>6, Unseen
<1>8. \A j \in Keys : Wire(j, conn[j])
  BY DEF DInv, Wires
<1>9. ls \in Seq(Lines) /\ v.up = "cut" /\ v.cmd = None /\ v.by = None /\ v.lines = ls
  BY <1>2, <1>4, <1>8, AmongIs DEF Wire, Among
<1>10. \A j \in Keys : Wire(j, conn'[j]) /\ conn'[j].by \in {conn[j].by, None}
  <2>1. Wire(k, v)
    BY <1>4, <1>9 DEF Wire
  <2> QED
    BY <1>6, <1>8, <1>9, <2>1
<1>11. ASSUME NEW c \in Clients, call[c].pc \in {"send", "read"}
       PROVE  Hears(c, call[c], seen'[c], times'[c] > 0, conn'[Conn(c)])
  <2>1. CASE Conn(c) = k /\ ls = conn[k].lines
    <3> DEFINE more == <<>>
    <3>1. PICK w : w = conn[k]
      OBVIOUS
    <3>2. more \in Seq(Lines) /\ v.lines = w.lines \o more
      <4>1. more \in Seq(Lines)
        BY AmongIs DEF Among
      <4>2. ls = ls \o more
        BY ONLY <1>9
      <4> QED
        BY <1>9, <2>1, <3>1, <4>1, <4>2
    <3>3. more = <<>> /\ Len(more) = 0
      OBVIOUS
    <3> HIDE DEF more
    <3>4. /\ \A i \in 1..Len(more) :
               Says(call[c].op, call[c].cmd.name, more[i], seen'[c], times'[c] > 0)
          /\ \A i \in 1..Len(more) : more[i].tag # "welcome"
      BY <3>3
    <3>5. Hears(c, call[c], seen'[c], times'[c] > 0, v)
      BY <1>7, <1>9, <1>11, <2>1, <3>1, <3>2, <3>3, <3>4, MoreLines
    <3> QED
      BY <1>6, <2>1, <3>5
  <2>2. CASE Conn(c) = k /\ ls = <<>>
    <3>1. v.lines = <<>> /\ Len(v.lines) = 0
      BY <1>9, <2>2
    <3>2. call[c].m \in Nat
      <4>1. Shape(call[c])
        BY CountIs
      <4> QED
        BY <4>1 DEF Shape
    <3>3. KscpHears(call[c], v) /\ EnvyHears(call[c], v)
      BY <1>9, <3>1, <3>2 DEF KscpHears, EnvyHears
    <3>4. Hears(c, call[c], seen'[c], times'[c] > 0, v)
      BY <1>9, <3>1, <3>3 DEF Hears
    <3> QED
      BY <1>6, <2>2, <3>4
  <2>3. CASE Conn(c) # k
    BY <1>5, <1>6, <1>11, <2>3, ConnIs DEF DInv, Links
  <2> QED
    BY <1>2, <2>1, <2>2, <2>3
<1>12. ASSUME NEW c \in Clients
       PROVE  /\ CountedFor(c, times'[c], call[c], conn'[Conn(c)], late')
              /\ LateOnce(c, call[c].cmd, late') /\ Alike(c, call[c].cmd, conn'[Conn(c)])
  <2>1. /\ LateFor(c, late \cup L) => LateFor(c, late) \/ (OnWire(c, conn[k]) /\ Conn(c) = k)
        /\ LateOnce(c, call[c].cmd, late \cup L)
    BY StrandedIs
  <2>2. Alike(c, call[c].cmd, conn[Conn(c)]) /\ times[c] \in Nat
    BY DEF DInv, Counting, Typed
  <2>3. CASE Conn(c) = k
    <3>1. ~OnWire(c, v) /\ Alike(c, call[c].cmd, v)
      BY <1>9 DEF OnWire, Alike
    <3>2. times[c] + Bit01(OnWire(c, v)) + Bit01(LateFor(c, late'))
            <= times[c] + Bit01(OnWire(c, conn[Conn(c)])) + Bit01(LateFor(c, late))
      BY <1>1, <2>1, <2>2, <2>3, <3>1 DEF Bit01
    <3>3. CountedFor(c, times[c], call[c], v, late')
      BY <2>2, <3>2, Recounted
    <3> QED
      BY <1>1, <1>5, <1>6, <2>1, <2>3, <3>1, <3>3
  <2>4. CASE Conn(c) # k
    <3>1. conn'[Conn(c)] = conn[Conn(c)]
      BY <1>6, <2>4, ConnIs
    <3>2. times[c] + Bit01(OnWire(c, conn[Conn(c)])) + Bit01(LateFor(c, late'))
            <= times[c] + Bit01(OnWire(c, conn[Conn(c)])) + Bit01(LateFor(c, late))
      BY <1>1, <2>1, <2>2, <2>4 DEF Bit01
    <3>3. CountedFor(c, times[c], call[c], conn[Conn(c)], late')
      BY <2>2, <3>2, Recounted
    <3> QED
      BY <1>1, <1>5, <2>1, <2>2, <3>1, <3>3
  <2> QED
    BY <2>3, <2>4
<1>13. \A x \in late' : Belated(x)
  <2>1. \A x \in L : Belated(x)
    BY StrandedIs
  <2> QED
    BY <1>1, <2>1 DEF DInv
<1> QED
  BY <1>7, <1>10, <1>11, <1>12, <1>13, DeviceStep

-----------------------------------------------------------------------------
(* The invariant is one.                                                   *)

\* It holds at first.
LEMMA InitIs ==
  ASSUME Init
  PROVE  DInv
<1> DEFINE a == Start("none", 0)
<1>1. /\ driver \in DriverNames /\ holder = None /\ late = {}
      /\ \A c \in Clients : call[c] = a /\ times[c] = 0 /\ seen[c] = {}
      /\ \A k \in Keys : conn[k] = NoConn
  BY DEF Init
<1>2. /\ a.pc = "idle" /\ a.op = "none" /\ a.cmd = None /\ Shape(a)
  BY StartIs DEF Shape
<1>3. /\ NoConn = [up |-> NoConn.up, cmd |-> NoConn.cmd, by |-> NoConn.by, lines |-> NoConn.lines]
      /\ NoConn.up = "none" /\ NoConn.cmd = None /\ NoConn.by = None /\ NoConn.lines = <<>>
  BY DEF NoConn
<1>4. Typed
  <2>1. dev \in States
    <3>1. dev \in [power : {On, Off}, set : Settings[driver], aux : {0}]
      BY DEF Init
    <3> QED
      BY ONLY <3>1 DEF States
  <2>2. times \in [Clients -> Nat]
    BY DEF Init
  <2>3. call = [c \in Clients |-> call[c]] /\ conn = [k \in Keys |-> conn[k]]
        /\ seen = [c \in Clients |-> seen[c]]
    BY DEF Init
  <2> QED
    BY <1>1, <2>1, <2>2, <2>3 DEF Typed
<1> HIDE DEF a
<1>5. Records
  <2>1. ASSUME NEW c \in Clients PROVE Good(call[c], seen[c], times[c] > 0) /\ Saw(call[c], seen[c])
    <3>1. ~(times[c] > 0)
      BY <1>1
    <3>2. MaySee(a.op, {})
      BY DEF MaySee
    <3> DEFINE T == times[c] > 0
    <3> HIDE DEF T
    <3>3. Good(a, {}, T)
      BY <1>2, <3>1, <3>2 DEF Good, a, T
    <3>4. Saw(a, {})
      BY <1>2 DEF Saw
    <3> QED
      BY <1>1, <3>3, <3>4 DEF T
  <2> QED
    BY <2>1 DEF Records
<1>6. Wires
  <2>1. NoConn.lines \in Seq(Lines)
    BY <1>3, AmongIs DEF Among
  <2>2. \A k \in Keys : Wire(k, NoConn)
    BY <1>3, <2>1 DEF Wire
  <2> QED
    BY <1>1, <1>3, <2>2 DEF Wires
<1>7. Locked
  BY <1>1, <1>2, <1>3, ConnIs DEF Locked, Keys
<1>8. Links
  BY <1>1, <1>2 DEF Links
<1>9. Counting
  <2>1. ASSUME NEW c \in Clients
        PROVE  /\ CountedFor(c, times[c], call[c], conn[Conn(c)], late)
               /\ LateOnce(c, call[c].cmd, late) /\ Alike(c, call[c].cmd, conn[Conn(c)])
    <3>1. call[c] = a /\ times[c] = 0 /\ conn[Conn(c)] = NoConn /\ late = {}
      BY <1>1, ConnIs
    <3>2. ~OnWire(c, NoConn) /\ ~LateFor(c, {})
      BY <1>3 DEF OnWire, LateFor
    <3>3. Sendings(a) \in Nat
      BY <1>2, SendingsNat
    <3>4. CountedFor(c, 0, a, NoConn, {})
      BY <3>2, <3>3 DEF CountedFor, Bit01
    <3>5. LateOnce(c, a.cmd, {}) /\ Alike(c, a.cmd, NoConn)
      BY <1>3 DEF LateOnce, Alike
    <3> QED
      BY <3>1, <3>4, <3>5
  <2> QED
    BY <2>1 DEF Counting
<1> QED
  BY <1>1, <1>4, <1>5, <1>6, <1>7, <1>8, <1>9 DEF DInv

\* It depends on the variables only.
LEMMA StutterIs ==
  ASSUME DInv, UNCHANGED vars
  PROVE  DInv'
<1>1. UNCHANGED <<driver, dev, call, conn, holder, late, times, seen>>
  BY DEF vars, history
<1>2. Typed' /\ Records'
  BY <1>1, SameDriver DEF DInv, Typed, Records, Saw
<1>3. Wires' /\ \A x \in late' : Belated(x)'
  BY <1>1, SameDriver DEF DInv, Wires
<1>4. Locked'
  BY <1>1 DEF DInv, Locked
<1>5. Links' /\ Counting'
  BY <1>1, SameDriver DEF DInv, Links, Counting
<1> QED
  BY <1>2, <1>3, <1>4, <1>5 DEF DInv

\* What a step is, to others than the one who makes it.
LEMMA NextIs ==
  ASSUME DInv, Next
  PROVE  /\ DInv'
         /\ \/ \E c \in Clients : Begin(c) \/ Moved(c) \/ Return(c)
            \/ Struck
            \/ UNCHANGED <<driver, dev, call, times, seen>>
<1>1. ASSUME NEW c \in Clients, Lock(c) \/ Client(c) PROVE DInv' /\ (Moved(c) \/ Return(c))
  BY <1>1, LockStep, ConnectStep, CannotConnectStep, SendStep, SendFailsStep, ReadStep, SilenceStep,
     WakeStep, ReturnStep DEF Client
<1>2. ASSUME NEW c \in Clients, Begin(c) PROVE DInv'
  BY <1>2, BeginStep
<1>3. ASSUME NEW k \in Keys, Execute(k) PROVE DInv' /\ Struck
  BY <1>3, ExecuteStep
<1>4. ASSUME NEW k \in Keys, Chatter(k) \/ Cut(k)
      PROVE  DInv' /\ UNCHANGED <<driver, dev, call, times, seen>>
  <2>1. DInv'
    BY <1>4, ChatterStep, CutStep
  <2> QED
    BY <1>4, <2>1 DEF Chatter, Cut
<1>5. ExecuteLate \/ ByHand => DInv' /\ Struck
  BY ExecuteLateStep, ByHandStep
<1> QED
  BY <1>1, <1>2, <1>3, <1>4, <1>5 DEF Next

\* DInv holds in every state.
THEOREM DriversInvariant == Spec => []DInv
<1>1. Init => DInv
  BY InitIs
<1>2. DInv /\ [Next]_vars => DInv'
  BY NextIs, StutterIs
<1> QED
  BY <1>1, <1>2, PTL DEF Spec

-----------------------------------------------------------------------------
(* What follows from it.                                                   *)

\* The counters of a good record are within the bounds of their loops.
LEMMA CountsAre ==
  ASSUME driver \in DriverNames, NEW a, NEW S, NEW T, Good(a, S, T)
  PROVE  Counts(a)
<1>1. CASE a.pc = "idle"
  <2>1. a.n = 0 /\ a.m = 0 /\ a.op # "play_movie"
    BY <1>1, StartIs DEF Good
  <2>2. DetailLines \in Nat /\ Tries \in Nat /\ Tries > 0 /\ RetryLimit \in Nat /\ Inputs \in Nat
    BY LimitsAssumption
  <2> QED
    BY <2>1, <2>2 DEF Counts
<1>2. CASE a.pc # "idle"
  <2>1. Knows(a, S) /\ Shape(a)
    BY <1>2 DEF Good
  <2>2. a.n \in Nat /\ a.m \in Nat /\ Inputs \in Nat /\ Tries \in Nat /\ DetailLines \in Nat
    BY <2>1, LimitsAssumption DEF Shape
  <2>3. CASE driver = "avm70"
    BY <2>1, <2>2, <2>3 DEF Knows, AvmKnows, Counts
  <2>4. CASE driver = "kscp"
    BY <2>1, <2>2, <2>4, LimitsAssumption DEF Knows, KscpKnows, Details, Listing, Counts
  <2>5. CASE driver = "envy"
    BY <2>1, <2>2, <2>5 DEF Knows, EnvyKnows, Counts
  <2>6. CASE driver \in {"appletv", "udp203", "pj_talk", "za5000"}
    <3>1. driver = "appletv" => a.n <= 1 /\ a.m = 0
      BY <2>1 DEF Knows, AtvKnows
    <3>2. driver \in {"udp203", "pj_talk"} => a.n \in {0, 1} /\ a.m = 0
      BY <2>1 DEF Knows, OppoKnows, PjKnows
    <3>3. driver = "za5000" => a.n \in {0, 1} /\ a.m \in {0, 1}
      BY <2>1 DEF Knows, StrKnows
    <3>4. a.n <= 1 /\ a.m <= 1
      BY <2>2, <2>6, <3>1, <3>2, <3>3
    <3> QED
      BY <2>6, <3>4 DEF Counts
  <2> QED
    BY <2>3, <2>4, <2>5, <2>6, IsDriver
<1> QED
  BY <1>1, <1>2

\* DInv implies the type invariant.
LEMMA TypedIs == DInv => DriversTypeOK
<1> SUFFICES ASSUME DInv PROVE DriversTypeOK
  OBVIOUS
<1>1. dev \in DeviceStates
  BY DEF DInv, Typed, States, DeviceStates
<1>2. ASSUME NEW c \in Clients
      PROVE  /\ call[c].pc \in {"idle", "lock", "connect", "wake", "send", "read", "return"}
             /\ Ended(c) <=> call[c].ans # None
             /\ Counts(call[c])
  <2> DEFINE T == times[c] > 0
  <2>1. Good(call[c], seen[c], T) /\ driver \in DOMAIN Methods /\ driver \in DriverNames
    BY CountIs
  <2> HIDE DEF T
  <2>2. Ended(c) <=> call[c].ans # None
    <3>1. call[c].pc = "idle" => call[c].ans = None
      BY <2>1, StartIs DEF Good
    <3>2. None \notin RawAnswers
      BY NoneAssumption
    <3> QED
      BY <2>1, <3>1, <3>2 DEF Good, Ended
  <2> QED
    BY <2>1, <2>2, WhoseIs, CountsAre
<1>3. ASSUME NEW k \in Keys
      PROVE  conn[k].up \in {"none", "open", "cut"} /\ conn[k].by \in Clients \cup {None}
  BY DEF DInv, Wires, Wire
<1>4. holder \in Clients \cup {None} /\ \A x \in late : x.cmd.name \in Acting
  BY DEF DInv, Locked, Belated
<1> QED
  BY <1>1, <1>2, <1>3, <1>4 DEF DriversTypeOK

\* The variables keep their types, and the counters of the drivers' loops
\* (lines skipped, tries, details, datagrams) their limits.
THEOREM DriversTyped == Spec => []DriversTypeOK
BY DriversInvariant, TypedIs, PTL

\* What a call has sent is no more than its attempts.
LEMMA AttemptsAre ==
  ASSUME driver \in DriverNames, NEW a, NEW S, NEW T, Good(a, S, T)
  PROVE  Sendings(a) <= Attempts(a) /\ Attempts(a) \in Nat
<1>1. a.n \in Nat
  BY DEF Good, Shape
<1>2. CASE driver = "appletv"
  <2>1. a.n <= 1
    <3>1. a.pc = "idle" => a.n = 0
      BY StartIs DEF Good
    <3>2. a.pc # "idle" => a.n <= 1
      BY <1>2 DEF Good, Knows, AtvKnows
    <3> QED
      BY <3>1, <3>2
  <2> QED
    BY <1>1, <1>2, <2>1 DEF Sendings, Attempts
<1>3. CASE driver = "envy" /\ a.op = "turn_on"
  <2>1. a.pc # "idle" => a.n <= 3
    BY <1>3 DEF Good, Knows, EnvyKnows
  <2> QED
    BY <1>1, <1>3, <2>1 DEF Sendings, Attempts
<1>4. CASE driver # "appletv" /\ ~(driver = "envy" /\ a.op = "turn_on")
  BY <1>4 DEF Sendings, Attempts
<1> QED
  BY <1>2, <1>3, <1>4

\* A command is executed at most as often as its call sends it: once, the
\* Apple TV's twice if the session broke (with_session), the Envy's wake-up
\* three times.
THEOREM ExecutedAtMostTwice == Spec => []AtMostTwice
<1>1. DInv => AtMostTwice
  <2> SUFFICES ASSUME DInv, NEW c \in Clients PROVE times[c] <= Attempts(call[c])
    BY DEF AtMostTwice
  <2> DEFINE T == times[c] > 0
  <2>1. /\ times[c] \in Nat /\ Sendings(call[c]) \in Nat
        /\ times[c] + Bit01(OnWire(c, conn[Conn(c)])) + Bit01(LateFor(c, late)) <= Sendings(call[c])
    BY CountIs
  <2>2. times[c] <= Sendings(call[c])
    BY <2>1 DEF Bit01
  <2>3. Good(call[c], seen[c], T) /\ driver \in DriverNames
    BY CountIs
  <2> HIDE DEF T
  <2>4. Sendings(call[c]) <= Attempts(call[c]) /\ Attempts(call[c]) \in Nat
    BY <2>3, AttemptsAre
  <2> QED
    BY <2>1, <2>2, <2>4
<1> QED
  BY <1>1, DriversInvariant, PTL

\* The details a call of the Kaleidescape driver collects are of the movie it
\* asked for, and complete when it succeeds.
THEOREM OwnDetails == Spec => []DetailsAreOwn
<1>1. DInv => DetailsAreOwn
  <2> SUFFICES ASSUME DInv, NEW c \in Clients, call[c].op \in {"list_movies", "movie_details"}
               PROVE  /\ \A i \in DOMAIN call[c].got : call[c].got[i] = call[c].cmd.arg
                      /\ call[c].ans = Ok =>
                           /\ Len(call[c].got) = DetailLines
                           /\ call[c].op = "list_movies" => call[c].cmd.arg = Movies
    BY DEF DetailsAreOwn
  <2> DEFINE a == call[c]
             T == times[c] > 0
  <2>1. Good(a, seen[c], T) /\ driver \in DOMAIN Methods
    BY CountIs
  <2> HIDE DEF T
  <2>2. a.pc # "idle"
    BY <2>1, StartIs DEF Good
  <2>3. Knows(a, seen[c])
    BY <2>1, <2>2 DEF Good
  <2>4. driver = "kscp"
    <3>1. a.op \in Methods[driver]
      <4>1. Asked(a.op, a.arg) /\ driver \in DriverNames
        BY <2>1, <2>2, CountIs DEF Good, Asked
      <4> QED
        BY <4>1, AskedIs
    <3> QED
      BY <2>1, <3>1 DEF Methods, Avm!CommandFor, Atv!CommandFor, Mvr!CommandFor, Oppo!CommandFor,
                        Pj!CommandFor, Str!CommandFor
  <2>5. \A i \in DOMAIN a.got : a.got[i] = a.cmd.arg
    <3>1. Details(a) \/ a.got = <<>>
      BY <2>3, <2>4 DEF Knows, KscpKnows, Listing
    <3> QED
      BY <3>1 DEF Details
  <2>6. a.ans = Ok => a.pc = "return"
    <3>1. Ok # None
      BY NoneAssumption DEF RawAnswers
    <3> QED
      BY <2>1, <2>2, <3>1 DEF Good
  <2> QED
    BY <2>1, <2>4, <2>5, <2>6 DEF Good
<1> QED
  BY <1>1, DriversInvariant, PTL

-----------------------------------------------------------------------------
(* The drivers implement RawDriver.                                        *)

\* What RawDriver sees of the call a, which has seen S; T: its command took
\* effect.
View(a, S, T) ==
  IF a.pc = "idle" THEN None ELSE [req |-> RequestOf(a), seen |-> S, took |-> T, ans |-> a.ans]

\* The view of a call in progress.
LEMMA ViewIs ==
  ASSUME driver \in DriverNames, NEW a, NEW S, NEW T \in BOOLEAN, Good(a, S, T), a.pc # "idle"
  PROVE  /\ View(a, S, T) = [req |-> RequestOf(a), seen |-> S, took |-> T, ans |-> a.ans]
         /\ View(a, S, T) # None
         /\ a.ans = None <=> a.pc # "return"
<1>1. View(a, S, T) = [req |-> RequestOf(a), seen |-> S, took |-> T, ans |-> a.ans]
  BY DEF View
<1>2. RequestOf(a) \in RawRequests
  <2>1. PICK q \in Requests[driver] : q = [op |-> a.op, arg |-> a.arg]
    BY DEF Good
  <2>2. RequestOf(a) = [driver |-> driver, op |-> q.op, arg |-> q.arg]
    BY <2>1 DEF RequestOf
  <2> QED
    BY <2>2 DEF RawRequests
<1>3. S \in SUBSET (RawAnswers \cup {0, 1})
  BY DEF Good, MaySee
<1>4. a.ans \in RawAnswers \cup {None} /\ (a.ans = None <=> a.pc # "return")
  BY NoneAssumption DEF Good
<1> DEFINE x == [req |-> RequestOf(a), seen |-> S, took |-> T, ans |-> a.ans]
<1>5. x \in [req : RawRequests, seen : SUBSET (RawAnswers \cup {0, 1}), took : BOOLEAN,
             ans : RawAnswers \cup {None}]
  BY <1>2, <1>3, <1>4
<1>6. x # None
  BY <1>5, NoneAssumption
<1> QED
  BY <1>1, <1>4, <1>6

\* What RawDriver sees of a client.
LEMMA DoingIs ==
  ASSUME DInv, NEW c \in Clients
  PROVE  /\ RawDoing = [d \in Clients |-> View(call[d], seen[d], times[d] > 0)]
         /\ call[c].pc = "idle" <=> RawDoing[c] = None
         /\ Busy(c) <=> Raw!Open(c)
         /\ call[c].pc # "idle" =>
              RawDoing[c] = [req |-> RequestOf(call[c]), seen |-> seen[c], took |-> times[c] > 0,
                             ans |-> call[c].ans]
<1> DEFINE T == times[c] > 0
<1>1. RawDoing = [d \in Clients |-> View(call[d], seen[d], times[d] > 0)]
  BY DEF RawDoing, View, Request, RequestOf
<1>2. Good(call[c], seen[c], T) /\ T \in BOOLEAN /\ driver \in DriverNames
  BY CountIs
<1>3. RawDoing[c] = View(call[c], seen[c], T)
  BY <1>1
<1> HIDE DEF T
<1>4. CASE call[c].pc = "idle"
  <2>1. RawDoing[c] = None
    BY <1>3, <1>4 DEF View
  <2> QED
    BY <1>1, <1>4, <2>1 DEF Busy, Raw!Open
<1>5. CASE call[c].pc # "idle"
  <2>1. /\ RawDoing[c] = [req |-> RequestOf(call[c]), seen |-> seen[c], took |-> T,
                          ans |-> call[c].ans]
        /\ RawDoing[c] # None /\ (call[c].ans = None <=> call[c].pc # "return")
    BY <1>2, <1>3, <1>5, ViewIs
  <2>2. RawDoing[c].ans = call[c].ans
    BY <2>1
  <2>3. Busy(c) <=> Raw!Open(c)
    BY <1>5, <2>1, <2>2 DEF Busy, Raw!Open
  <2> QED
    BY <1>1, <1>5, <2>1, <2>3 DEF T
<1> QED
  BY <1>4, <1>5

\* And after a step.
LEMMA DoingNext ==
  ASSUME driver' = driver
  PROVE  RawDoing' = [c \in Clients |-> View(call'[c], seen'[c], times'[c] > 0)]
BY SameDriver DEF RawDoing, View, Request, RequestOf

\* A call that goes on, or has its answer.
LEMMA MovedRaw ==
  ASSUME DInv, NEW c \in Clients, Moved(c)
  PROVE  [Raw!Next]_(Raw!vars)
<1> DEFINE a == call[c]
           b == call'[c]
           S == seen[c]
           T == times[c] > 0
<1>1. /\ driver' = driver /\ dev' = dev /\ times' = times /\ seen' = seen
      /\ call' = [call EXCEPT ![c] = b] /\ a.pc \notin {"idle", "return"}
      /\ Onward(a, b, S, T) /\ T \in BOOLEAN /\ driver \in DriverNames
      /\ Good(b, S, T) /\ b.op = a.op /\ b.arg = a.arg /\ b.pc # "idle"
      /\ Good(a, S, T)
  BY CountIs DEF Moved, Onward
<1>2. /\ RawDoing = [d \in Clients |-> View(call[d], seen[d], times[d] > 0)]
      /\ RawDoing' = [d \in Clients |-> View(call'[d], seen[d], times[d] > 0)]
      /\ \A d \in Clients \ {c} : call'[d] = call[d]
      /\ Raw!Open(c)
  BY <1>1, DoingIs, DoingNext DEF Busy, DInv, Typed
<1> HIDE DEF T, b
<1>3. RawDoing' = [RawDoing EXCEPT ![c] = View(b, S, T)]
  BY <1>2 DEF T, b
<1>4. /\ RawDoing[c] = View(a, S, T)
      /\ View(a, S, T) = [req |-> RequestOf(a), seen |-> S, took |-> T, ans |-> a.ans]
      /\ View(b, S, T) = [req |-> RequestOf(a), seen |-> S, took |-> T, ans |-> b.ans]
      /\ a.ans = None /\ (b.ans = None <=> b.pc # "return")
  <2>1. RequestOf(b) = RequestOf(a)
    BY <1>1 DEF RequestOf
  <2>2. QED
    <3>1. /\ View(a, S, T) = [req |-> RequestOf(a), seen |-> S, took |-> T, ans |-> a.ans]
          /\ (a.ans = None <=> a.pc # "return")
      BY <1>1, ViewIs
    <3>2. /\ View(b, S, T) = [req |-> RequestOf(b), seen |-> S, took |-> T, ans |-> b.ans]
          /\ (b.ans = None <=> b.pc # "return")
      BY <1>1, ViewIs
    <3>3. RawDoing[c] = View(a, S, T)
      BY <1>2 DEF T
    <3> QED
      BY <1>1, <2>1, <3>1, <3>2, <3>3
<1>5. CASE b.pc # "return"
  <2>1. View(b, S, T) = RawDoing[c]
    BY <1>4, <1>5
  <2>2. RawDoing' = RawDoing
    BY <1>2, <1>3, <2>1
  <2> QED
    BY <1>1, <2>2 DEF Raw!vars
<1>6. CASE b.pc = "return"
  <2>1. b.ans \in RawAnswers /\ (b.ans \in {Err, Panic} \/ Kept(RequestOf(b), S, T, b.ans))
    BY <1>1, <1>6 DEF Good
  <2>2. PICK d : d = RawDoing[c]
    OBVIOUS
  <2>3. d.req = RequestOf(a) /\ d.seen = S /\ d.took = T /\ RequestOf(b) = RequestOf(a)
    BY <1>1, <1>4, <2>2 DEF RequestOf
  <2>4. b.ans \in Raw!Failures \/ Raw!Promised(d, b.ans)
    BY <2>1, <2>3 DEF Raw!Failures, Raw!Promised, Kept
  <2>5. RawDoing' = [RawDoing EXCEPT ![c].ans = b.ans]
    <3>1. View(b, S, T) = [d EXCEPT !.ans = b.ans]
      BY <1>4, <2>2
    <3> QED
      BY <1>2, <1>3, <2>2, <3>1
  <2>6. Raw!Answer(c)
    BY <1>1, <1>2, <2>1, <2>2, <2>4, <2>5 DEF Raw!Answer
  <2> QED
    BY <2>6 DEF Raw!Next
<1> QED
  BY <1>5, <1>6

\* A call that begins does so in RawDriver.
LEMMA BeginRaw ==
  ASSUME DInv, NEW c \in Clients, Begin(c)
  PROVE  [Raw!Next]_(Raw!vars)
<1>1. PICK q \in Requests[driver] :
        /\ call' = [call EXCEPT ![c] = First(Start(q.op, q.arg))]
        /\ seen' = [seen EXCEPT ![c] =
                      {Reading([driver |-> driver, op |-> q.op, arg |-> q.arg], dev)}]
  BY DEF Begin, Becomes
<1>2. /\ UNCHANGED <<driver, dev, times>> /\ call[c].pc = "idle"
      /\ driver \in DriverNames /\ dev \in States
      /\ call = [d \in Clients |-> call[d]] /\ seen = [d \in Clients |-> seen[d]]
  BY DEF Begin, DInv, Typed
<1>3. Asked(q.op, q.arg)
  <2>1. q = [op |-> q.op, arg |-> q.arg]
    BY <1>2, RequestsAssumption
  <2> QED
    BY <2>1 DEF Asked
<1>4. PICK x, b : /\ x = [driver |-> driver, op |-> q.op, arg |-> q.arg]
                  /\ b = First(Start(q.op, q.arg))
  OBVIOUS
<1> DEFINE r == Reading(x, dev)
           S == {r}
           T == times[c] > 0
<1>5. MaySee(q.op, S)
  BY <1>2, <1>4, ReadingIs
<1> HIDE DEF r
<1>6. Begun(b, q.op, q.arg, S)
  BY <1>2, <1>3, <1>4, <1>5, FirstIs
<1>7. Good(b, S, FALSE) /\ b.pc \notin {"idle", "return"} /\ RequestOf(b) = x /\ b.ans = None
  BY <1>4, <1>6 DEF Begun, RequestOf, Good
<1>8. ~T
  BY <1>2, IdleIs
<1>9. call'[c] = b /\ seen'[c] = S
  BY <1>1, <1>2, <1>4 DEF r
<1>10. View(b, S, T) = Raw!Opened(x)
  <2>1. View(b, S, T) = [req |-> x, seen |-> S, took |-> FALSE, ans |-> None]
    <3>1. T = FALSE
      BY <1>8
    <3> HIDE DEF T, S
    <3>2. View(b, S, T) = [req |-> x, seen |-> S, took |-> T, ans |-> None]
      BY <1>7 DEF View
    <3> QED
      BY <3>1, <3>2
  <2> QED
    BY <2>1 DEF Raw!Opened, r
<1>11. RawDoing[c] = None /\ RawDoing = [d \in Clients |-> View(call[d], seen[d], times[d] > 0)]
  BY <1>2, DoingIs
<1>12. RawDoing' = [RawDoing EXCEPT ![c] = View(b, S, T)]
  <2>1. RawDoing' = [d \in Clients |-> View(call'[d], seen'[d], times[d] > 0)]
    BY <1>2, DoingNext
  <2>2. \A d \in Clients \ {c} : call'[d] = call[d] /\ seen'[d] = seen[d]
    BY <1>1, <1>2
  <2> HIDE DEF S
  <2> QED
    BY <1>9, <1>11, <2>1, <2>2
<1>13. x \in RawRequests
  BY <1>2, <1>4 DEF RawRequests
<1>14. Raw!Begin(c)
  BY <1>2, <1>10, <1>11, <1>12, <1>13 DEF Raw!Begin
<1> QED
  BY <1>14 DEF Raw!Next

\* A call that returns does so in RawDriver, and answers as it may.
LEMMA ReturnRaw ==
  ASSUME DInv, NEW c \in Clients, Return(c)
  PROVE  [Raw!Next]_(Raw!vars)
<1>1. PICK b : b = Start("none", 0)
  OBVIOUS
<1>2. /\ call[c].pc = "return" /\ driver' = driver /\ dev' = dev
      /\ call' = [call EXCEPT ![c] = b] /\ seen' = [seen EXCEPT ![c] = {}]
      /\ times' = [times EXCEPT ![c] = 0]
  BY <1>1 DEF Return, Becomes
<1>3. /\ times \in [Clients -> Nat]
      /\ call = [d \in Clients |-> call[d]] /\ seen = [d \in Clients |-> seen[d]]
  BY DEF DInv, Typed
<1>4. /\ RawDoing = [d \in Clients |-> View(call[d], seen[d], times[d] > 0)]
      /\ RawDoing[c] # None /\ ~Raw!Open(c)
  BY <1>2, DoingIs DEF Busy
<1>5. RawDoing' = [d \in Clients |-> View(call'[d], seen'[d], times'[d] > 0)]
  BY <1>2, DoingNext
<1>6. \A d \in Clients \ {c} : call'[d] = call[d] /\ seen'[d] = seen[d] /\ times'[d] = times[d]
  BY <1>2, <1>3
<1>7. View(call'[c], seen'[c], times'[c] > 0) = None
  <2>1. call'[c] = b /\ b.pc = "idle"
    BY <1>1, <1>2, <1>3, StartIs
  <2> QED
    BY <2>1 DEF View
<1>8. RawDoing' = [RawDoing EXCEPT ![c] = None]
  BY <1>4, <1>5, <1>6, <1>7
<1>9. Raw!End(c)
  BY <1>2, <1>4, <1>8 DEF Raw!End
<1> QED
  BY <1>9 DEF Raw!Next

\* Two fields that change.
LEMMA TwoFields ==
  ASSUME NEW q, NEW S, NEW T, NEW v, NEW d, d = [req |-> q, seen |-> S, took |-> T, ans |-> v],
         NEW S2, NEW T2, NEW y, y = [d EXCEPT !.seen = S2, !.took = T2]
  PROVE  y = [req |-> q, seen |-> S2, took |-> T2, ans |-> v]
OBVIOUS

\* A step of the device is RawDriver's, or none.
LEMMA StruckRaw ==
  ASSUME DInv, Struck
  PROVE  [Raw!Next]_(Raw!vars)
<1>1. PICK by \in Clients \cup {None} :
        \A c \in Clients : Busy(c) => (times'[c] > 0 <=> times[c] > 0 \/ c = by)
  BY DEF Struck
<1>2. /\ driver' = driver /\ call' = call /\ dev' \in States
      /\ \A c \in Clients :
           IF Busy(c) THEN seen'[c] = seen[c] \cup {Reading(Request(c), dev')}
           ELSE times'[c] = times[c] /\ seen'[c] = seen[c]
  BY DEF Struck, Onlooking
<1>3. dev' \in DeviceStates
  BY <1>2 DEF States, DeviceStates, DInv, Typed
<1>4. RawDoing' = [c \in Clients |-> View(call[c], seen'[c], times'[c] > 0)]
  BY <1>2, DoingNext
<1> DEFINE g == [c \in Clients |->
       IF Raw!Open(c)
       THEN [RawDoing[c] EXCEPT !.seen = @ \cup {Reading(RawDoing[c].req, dev')},
                                !.took = @ \/ c = by]
       ELSE RawDoing[c]]
<1>5. ASSUME NEW c \in Clients
      PROVE  View(call[c], seen'[c], times'[c] > 0) = g[c]
  <2>1. /\ RawDoing[c] = View(call[c], seen[c], times[c] > 0) /\ (Busy(c) <=> Raw!Open(c))
        /\ call[c].pc # "idle" =>
             RawDoing[c] = [req |-> RequestOf(call[c]), seen |-> seen[c], took |-> times[c] > 0,
                            ans |-> call[c].ans]
    BY DoingIs
  <2>2. CASE ~Busy(c)
    BY <1>2, <2>1, <2>2
  <2>3. CASE Busy(c)
    <3>1. PICK d : d = RawDoing[c]
      OBVIOUS
    <3>2. PICK q, S, v : q = RequestOf(call[c]) /\ S = seen[c] /\ v = call[c].ans
      OBVIOUS
    <3>3. PICK T \in BOOLEAN : T <=> times[c] > 0
      OBVIOUS
    <3>4. PICK T2 \in BOOLEAN : T2 <=> times'[c] > 0
      OBVIOUS
    <3>5. PICK B \in BOOLEAN : B <=> c = by
      OBVIOUS
    <3>6. call[c].pc # "idle"
      BY <2>3 DEF Busy
    <3>7. d = [req |-> q, seen |-> S, took |-> T, ans |-> v]
      BY <2>1, <3>1, <3>2, <3>3, <3>6
    <3>8. PICK S2 : S2 = S \cup {Reading(q, dev')}
      OBVIOUS
    <3>9. seen'[c] = S2
      <4>1. Request(c) = q
        BY <3>2 DEF Request, RequestOf
      <4> QED
        BY <1>2, <2>3, <3>2, <3>8, <4>1
    <3>10. T2 <=> T \/ B
      BY <1>1, <2>3, <3>3, <3>4, <3>5
    <3>11. View(call[c], seen'[c], times'[c] > 0) = [req |-> q, seen |-> S2, took |-> T2, ans |-> v]
      BY <3>2, <3>4, <3>6, <3>9 DEF View
    <3>12. g[c] = [d EXCEPT !.seen = @ \cup {Reading(d.req, dev')}, !.took = @ \/ c = by]
      BY <2>1, <2>3, <3>1
    <3>13. [d EXCEPT !.seen = @ \cup {Reading(d.req, dev')}, !.took = @ \/ c = by]
             = [req |-> q, seen |-> S2, took |-> T2, ans |-> v]
      <4>1. d.req = q /\ d.seen = S /\ d.took = T
        BY ONLY <3>7
      <4>2. [d EXCEPT !.seen = @ \cup {Reading(d.req, dev')}, !.took = @ \/ c = by]
              = [d EXCEPT !.seen = S2, !.took = T2]
        BY <3>5, <3>8, <3>10, <4>1
      <4>3. [d EXCEPT !.seen = S2, !.took = T2] = [req |-> q, seen |-> S2, took |-> T2, ans |-> v]
        <5>1. PICK y : y = [d EXCEPT !.seen = S2, !.took = T2]
          OBVIOUS
        <5>2. y = [req |-> q, seen |-> S2, took |-> T2, ans |-> v]
          BY ONLY <3>7, <5>1, TwoFields
        <5> QED
          BY <5>1, <5>2
      <4> QED
        BY <4>2, <4>3
    <3> QED
      BY <3>11, <3>12, <3>13
  <2> QED
    BY <2>2, <2>3
<1>6. RawDoing' = g
  BY <1>4, <1>5
<1>7. Raw!Change(by)
  BY <1>3, <1>6 DEF Raw!Change
<1> QED
  BY <1>7 DEF Raw!Next

\* So is any step.
LEMMA NextRaw ==
  ASSUME DInv, [Next]_vars
  PROVE  [Raw!Next]_(Raw!vars)
<1>1. ASSUME UNCHANGED <<driver, dev, call, times, seen>> PROVE UNCHANGED Raw!vars
  BY <1>1 DEF Raw!vars, RawDoing, Request
<1>2. CASE UNCHANGED vars
  BY <1>1, <1>2 DEF vars, history
<1>3. CASE Next
  BY <1>1, <1>3, NextIs, BeginRaw, MovedRaw, ReturnRaw, StruckRaw
<1> QED
  BY <1>2, <1>3

\* The initial state is RawDriver's.
LEMMA InitRaw ==
  ASSUME Init
  PROVE  Raw!Init
<1>1. dev \in DeviceStates
  BY InitIs DEF DInv, Typed, States, DeviceStates
<1>2. \A c \in Clients : call[c].pc = "idle"
  BY StartIs DEF Init
<1>3. RawDoing = [c \in Clients |-> None]
  BY <1>2 DEF RawDoing
<1> QED
  BY <1>1, <1>3 DEF Raw!Init

\* Every driver keeps RawDriver's promise, with any number of threads and
\* whatever happens on the network: Ok for a confirmed command means that it
\* took effect during the call, an answer was true at some moment of it.
THEOREM DriversImplementRawDriver == Spec => Promise
<1>1. Init => Raw!Init
  BY InitRaw
<1>2. DInv /\ [Next]_vars => [Raw!Next]_(Raw!vars)
  BY NextRaw
<1> QED
  BY <1>1, <1>2, DriversInvariant, PTL DEF Spec, Promise, Raw!Spec

-----------------------------------------------------------------------------
(* The inductive invariant of fair weather.                                *)

\* The call of c is well, and has left nothing behind.
Fine(c) ==
  Aloof(c, call[c], conn[Conn(c)], late) /\ Well(call[c], conn[Conn(c)], dev, seen[c])

\* All calls that nothing has come between are.
Fares ==
  /\ Dark /\ trouble = [c \in Clients |-> trouble[c]]
  /\ \A c \in Clients : ~trouble[c] => Fine(c)

FInv == DInv /\ Fares

-----------------------------------------------------------------------------
(* The steps of calls, when nothing comes between.                         *)

\* The driver is all that these depend on.
LEMMA SameFair ==
  ASSUME driver' = driver
  PROVE  /\ \A c, a, w, L : Aloof(c, a, w, L)' <=> Aloof(c, a, w, L)
         /\ \A a, w, s, S : Well(a, w, s, S)' <=> Well(a, w, s, S)
<1>1. \A a, w : Due(a, w)' <=> Due(a, w)
  BY DEF Due
<1>2. \A a, w : Ready(a, w)' <=> Ready(a, w)
  BY DEF Ready
<1>3. \A a, w, s : Stands(a, w, s)' <=> Stands(a, w, s)
  BY DEF Stands
<1>4. \A a, S : Pleasant(a, S)' <=> Pleasant(a, S)
  BY DEF Pleasant, Unreadable
<1>5. \A a, w, s, S : Well(a, w, s, S)' <=> Well(a, w, s, S)
  BY <1>1, <1>2, <1>3, <1>4 DEF Well, Fair
<1>6. \A c, a, w, L : Aloof(c, a, w, L)' <=> Aloof(c, a, w, L)
  BY DEF Aloof
<1> QED
  BY <1>5, <1>6

\* A call that is not in an exchange does not depend on its connection.
LEMMA OffWell ==
  ASSUME NEW a, a.pc \in {"idle", "lock", "return"}, NEW w, NEW s, NEW S, Well(a, w, s, S)
  PROVE  \A v, t : Well(a, v, t, S)
BY DEF Well, Fair

\* A step of a client leaves all well if it does so for its own call.
LEMMA ClientFair ==
  ASSUME FInv, NEW c \in Clients, NEW b, NEW w,
         driver' = driver, dev' = dev, call' = [call EXCEPT ![c] = b],
         conn' = [conn EXCEPT ![Conn(c)] = w],
         \A d \in Clients \ {c} : seen'[d] = seen[d],
         \A x \in late' : x \in late \/ x.by \in {c, None},
         driver = "appletv" /\ w # conn[Session]
           => \A d \in Clients \ {c} : call[d].pc \in {"idle", "lock", "return"},
         trouble' = [d \in Clients |-> trouble'[d]],
         \A d \in Clients \ {c} : trouble[d] => trouble'[d],
         driver = "envy" /\ dev.power # On => w.up # "open",
         ~trouble'[c] => Aloof(c, b, w, late') /\ Well(b, w, dev, seen'[c])
  PROVE  Fares'
<1>1. /\ call'[c] = b /\ conn'[Conn(c)] = w
      /\ \A d \in Clients \ {c} : call'[d] = call[d]
      /\ \A k \in Keys \ {Conn(c)} : conn'[k] = conn[k]
  BY ConnIs DEF FInv, DInv, Typed
<1>2. Dark'
  BY <1>1 DEF FInv, Fares, Dark, Keys
<1>3. ASSUME NEW d \in Clients, ~trouble'[d]
      PROVE  /\ Aloof(d, call'[d], conn'[Conn(d)], late')
              /\ Well(call'[d], conn'[Conn(d)], dev, seen'[d])
  <2>1. CASE d = c
    BY <1>1, <1>3, <2>1
  <2>2. CASE d # c
    <3>1. Fine(d)
      BY <1>3, <2>2 DEF FInv, Fares
    <3>2. \A x \in late' : x.by = d => x \in late
      BY <2>2, ConnIs
    <3>3. CASE driver = "appletv" /\ w # conn[Session]
      <4>1. Aloof(d, call'[d], conn'[Conn(d)], late')
        BY <3>3 DEF Aloof
      <4>2. Well(call[d], conn'[Conn(d)], dev, seen[d])
        BY <2>2, <3>1, <3>3, OffWell DEF Fine
      <4> QED
        BY <1>1, <2>2, <4>1, <4>2
    <3>4. CASE driver # "appletv" \/ w = conn[Session]
      <4>1. conn'[Conn(d)] = conn[Conn(d)]
        BY <1>1, <2>2, <3>4, ConnIs
      <4>2. Aloof(d, call[d], conn[Conn(d)], late')
        BY <3>1, <3>2 DEF Fine, Aloof
      <4>3. Well(call[d], conn[Conn(d)], dev, seen[d])
        BY <3>1 DEF Fine
      <4> QED
        BY <1>1, <2>2, <4>1, <4>2, <4>3
    <3> QED
      BY <3>3, <3>4
  <2> QED
    BY <2>1, <2>2
<1>4. \A d : Conn(d)' = Conn(d)
  BY DEF Conn
<1>5. \A d \in Clients : ~trouble'[d] => Fine(d)'
  BY <1>3, <1>4, SameFair DEF Fine
<1> QED
  BY <1>2, <1>5 DEF Fares

\* Only its holder uses the Apple TV's session.
LEMMA AloneIs ==
  ASSUME DInv, NEW c \in Clients, call[c].pc \in {"connect", "send", "read", "return"},
         driver = "appletv"
  PROVE  \A d \in Clients \ {c} : call[d].pc \in {"idle", "lock", "return"}
<1>1. ASSUME NEW d \in Clients \ {c}
      PROVE  call[d].pc \in {"idle", "lock", "return"}
  <2>1. call[d].pc \notin {"connect", "send", "read", "return"}
    BY DEF DInv, Locked
  <2>2. call[d].pc \in {"idle", "lock", "connect", "wake", "send", "read", "return"}
        /\ call[d].pc # "wake"
    BY CountIs, WhoseIs
  <2> QED
    BY <2>1, <2>2
<1> QED
  BY <1>1

\* What FInv says of a call with which nothing interfered.
LEMMA FineIs ==
  ASSUME FInv, NEW c \in Clients
  PROVE  /\ DInv /\ Good(call[c], seen[c], times[c] > 0) /\ driver \in DriverNames
         /\ (times[c] > 0) \in BOOLEAN /\ trouble = [d \in Clients |-> trouble[d]]
         /\ driver = "envy" /\ dev.power # On => \A k \in Keys : conn[k].up # "open"
         /\ ~trouble[c] => /\ Aloof(c, call[c], conn[Conn(c)], late)
                           /\ Well(call[c], conn[Conn(c)], dev, seen[c])
                           /\ Fair(call[c], conn[Conn(c)], dev)
BY CountIs DEF FInv, Fares, Dark, Fine, Well

\* Without a command nothing is stranded.
LEMMA NoneStranded ==
  ASSUME NEW k, conn[k].cmd = None, NEW L \in Stranded(k)
  PROVE  L = {}
BY DEF Stranded

\* Connections are made afresh.
LEMMA ConnectFair ==
  ASSUME FInv, NEW c \in Clients, Connect(c)
  PROVE  Fares'
<1> DEFINE a == call[c]
           k == Conn(c)
           S == seen[c]
           v == conn[k]
<1>0. PICK w : w = [NoConn EXCEPT !.up = "open", !.lines = Greeting]
  OBVIOUS
<1>1. w.up = "open" /\ w.cmd = None /\ w.lines = Greeting
  BY <1>0 DEF NoConn
<1>2. PICK L \in Stranded(k) : late' = late \cup L
  BY DEF Connect
<1>3. PICK b : b = Connected(a)
  OBVIOUS
<1>4. /\ a.pc = "connect" /\ (driver = "envy" => dev.power = On)
      /\ driver' = driver /\ dev' = dev /\ seen' = seen /\ trouble' = trouble
      /\ call' = [call EXCEPT ![c] = b] /\ conn' = [conn EXCEPT ![k] = w]
  BY <1>0, <1>3 DEF Connect, Becomes, history
<1>5. DInv /\ k \in Keys
  BY ConnIs DEF FInv
<1>6. \A x \in late' : x \in late \/ x.by \in {c, None}
  <2>1. conn[k].by \in {c, None}
    BY <1>4, <1>5, ByIs
  <2> QED
    BY <1>2, <1>5, <2>1, StrandedIs
<1>7. driver = "appletv" => \A d \in Clients \ {c} : call[d].pc \in {"idle", "lock", "return"}
  BY <1>4, <1>5, AloneIs
<1>8. ASSUME ~trouble[c] PROVE Aloof(c, b, w, late') /\ Well(b, w, dev, S)
  <2>1. /\ Good(a, S, times[c] > 0) /\ driver \in DriverNames
        /\ Aloof(c, a, v, late) /\ Fair(a, v, dev)
    BY <1>8, FineIs
  <2>2. driver = "envy" /\ a.op = "check_is_on" => On \in S
    BY <1>4, <1>5 DEF DInv, Records, Saw, Reading, RequestOf
  <2>3. Well(b, w, dev, S)
    BY <1>1, <1>3, <1>4, <2>1, <2>2, ConnectedWell
  <2>4. b.op = a.op
    <3>1. Passed(a, b, IF driver = "envy" THEN "read" ELSE "send")
      BY <1>3, <1>4, <2>1, <2>2, ConnectedIs, PassesOn DEF Good
    <3> QED
      BY <3>1 DEF Passed
  <2>5. driver \notin {"avm70", "appletv"} => L = {}
    BY <1>2, <1>4, <2>1, NoneStranded DEF Aloof
  <2>6. Aloof(c, b, w, late')
    BY <1>1, <1>2, <1>4, <2>1, <2>4, <2>5 DEF Aloof
  <2> QED
    BY <2>3, <2>6
<1>9. trouble = [d \in Clients |-> trouble[d]]
  BY FineIs
<1> HIDE DEF a, k, S, v
<1> QED
  BY <1>1, <1>4, <1>6, <1>7, <1>8, <1>9, ClientFair DEF k, S

\* A step that does no more than trouble its call.
LEMMA TroubledFair ==
  ASSUME FInv, NEW c \in Clients, NEW b, UNCHANGED <<driver, dev, conn, late, seen>>,
         call' = [call EXCEPT ![c] = b], NEW X, Troubled(X), trouble[c] \/ (c \in X /\ Busy(c))
  PROVE  Fares'
<1> DEFINE w == conn[Conn(c)]
<1>1. DInv /\ Conn(c) \in Keys
  BY ConnIs DEF FInv
<1>2. conn' = [conn EXCEPT ![Conn(c)] = w]
  BY <1>1 DEF DInv, Typed
<1>3. trouble'[c] /\ trouble' = [d \in Clients |-> trouble'[d]]
      /\ \A d \in Clients : trouble[d] => trouble'[d]
  BY DEF Troubled
<1>4. driver = "envy" /\ dev.power # On => w.up # "open"
  BY <1>1, FineIs
<1>5. driver = "appletv" => w = conn[Session]
  BY ConnIs
<1> HIDE DEF w
<1> QED
  BY <1>2, <1>3, <1>4, <1>5, ClientFair

\* No connection.
LEMMA CannotConnectFair ==
  ASSUME FInv, NEW c \in Clients, CannotConnect(c)
  PROVE  Fares'
<1>1. PICK b : b = Broken(call[c], "refused")
  OBVIOUS
<1>2. PICK X : X = {c}
  OBVIOUS
<1> QED
  BY <1>1, <1>2, TroubledFair DEF CannotConnect, Becomes, Busy

\* A command is written to a connection that is ready for it.
LEMMA SendFair ==
  ASSUME FInv, NEW c \in Clients, Send(c)
  PROVE  Fares'
<1> DEFINE a == call[c]
           k == Conn(c)
           S == seen[c]
           T == times[c] > 0
           v == conn[k]
           open == v.up = "open"
<1>1. PICK w : w = [up |-> v.up, cmd |-> IF open THEN a.cmd ELSE None,
                    by |-> IF open THEN c ELSE None,
                    lines |-> IF k = Session THEN <<>> ELSE v.lines]
  OBVIOUS
<1>2. PICK L \in Stranded(k) : late' = late \cup L
  BY DEF Send
<1>3. PICK b : b = Sent(a)
  OBVIOUS
<1>4. /\ driver' = driver /\ dev' = dev /\ seen' = seen /\ trouble' = trouble
      /\ call' = [call EXCEPT ![c] = b] /\ a.pc = "send"
  BY <1>3 DEF Send, Becomes, history
<1>5. /\ Wire(k, v) /\ v.by \in {c, None} /\ k \in Keys /\ conn = [j \in Keys |-> conn[j]]
      /\ DInv
  BY <1>4, ByIs, ConnIs DEF FInv, DInv, Typed
<1>6. conn' = [conn EXCEPT ![k] = w]
  <2>1. PICK x, y : x = (IF open THEN a.cmd ELSE None) /\ y = IF open THEN c ELSE None
    OBVIOUS
  <2>2. conn' = [conn EXCEPT ![k].cmd = x, ![k].by = y,
        ![k].lines = IF k = Session THEN <<>> ELSE @]
    BY <2>1 DEF Send
  <2>3. v = [up |-> v.up, cmd |-> v.cmd, by |-> v.by, lines |-> v.lines]
    BY <1>5 DEF Wire
  <2>4. /\ conn' = [j \in Keys |-> conn'[j]] /\ \A j \in Keys \ {k} : conn'[j] = conn[j]
        /\ conn'[k] = [up |-> v.up, cmd |-> x, by |-> y,
                       lines |-> IF k = Session THEN <<>> ELSE v.lines]
    BY <1>5, <2>2, <2>3, SentOn
  <2>5. conn'[k] = w
    BY <1>1, <2>1, <2>4
  <2> QED
    BY ONLY <1>5, <2>4, <2>5, Rewired
<1>7. \A x \in late' : x \in late \/ x.by \in {c, None}
  BY <1>2, <1>5, StrandedIs
<1>8. driver = "appletv" => \A d \in Clients \ {c} : call[d].pc \in {"idle", "lock", "return"}
  BY <1>4, <1>5, AloneIs
<1>9. w.up = v.up /\ (driver = "envy" /\ dev.power # On => w.up # "open")
  BY <1>1, <1>5, FineIs
<1>10. ASSUME ~trouble[c] PROVE Aloof(c, b, w, late') /\ Well(b, w, dev, S)
  <2> HIDE DEF T
  <2>1. /\ Good(a, S, T) /\ T \in BOOLEAN /\ driver \in DriverNames
        /\ Aloof(c, a, v, late) /\ Fair(a, v, dev)
    BY <1>10, FineIs DEF T
  <2>2. Well(b, w, dev, S)
    <3>1. w.cmd = (IF v.up = "open" THEN a.cmd ELSE None)
          /\ w.lines = IF driver = "appletv" THEN <<>> ELSE v.lines
      BY <1>1, ConnIs
    <3> QED
      BY <1>3, <1>4, <1>9, <2>1, <3>1, SentWell
  <2>3. b.op = a.op /\ b.pc \in {"read", "return"}
    <3>1. Written(a, b, S, T) /\ Onward(a, b, S, T) /\ (b.pc = "return" \/ Passed(a, b, "read"))
      BY <1>3, <1>4, <2>1, SentIs, PassesOn DEF Written, Good
    <3> QED
      BY <3>1 DEF Onward, Passed
  <2>4. driver \notin {"avm70", "appletv"} => L = {}
    <3>1. driver # "appletv" => v.cmd = None
      BY <1>4, <1>5 DEF DInv, Links, Hears
    <3> QED
      BY <1>2, <3>1, NoneStranded
  <2>5. Aloof(c, b, w, late')
    BY <1>2, <1>4, <2>1, <2>3, <2>4 DEF Aloof
  <2> QED
    BY <2>2, <2>5
<1>11. trouble = [d \in Clients |-> trouble[d]]
  BY FineIs
<1> HIDE DEF a, k, S, v, T
<1> QED
  BY <1>4, <1>6, <1>7, <1>8, <1>9, <1>10, <1>11, ClientFair DEF k, S

\* A call goes on after its exchange has failed: the Apple TV's, and, at the
\* end of the stream, the Envy's.
LEMMA BrokenFair ==
  ASSUME FInv, NEW c \in Clients, NEW how,
         UNCHANGED <<driver, dev, conn, late, seen>>, trouble' = [d \in Clients |-> trouble'[d]],
         \A d \in Clients : trouble[d] => trouble'[d],
         call' = [call EXCEPT ![c] = Broken(call[c], how)],
         \/ driver = "pj_talk" /\ call[c].n = 1
         \/ /\ conn[Conn(c)].up # "open" /\ how \in {"eof", "reset"}
            /\ \/ call[c].pc = "send" /\ how = "reset"
               \/ /\ call[c].pc = "read" /\ conn[Conn(c)].lines = <<>>
                  /\ driver = "appletv" \/ how = "eof"
  PROVE  Fares'
<1> DEFINE a == call[c]
           w == conn[Conn(c)]
           S == seen[c]
           T == times[c] > 0
<1>1. DInv /\ Conn(c) \in Keys
  BY ConnIs DEF FInv
<1>2. conn' = [conn EXCEPT ![Conn(c)] = w]
  BY <1>1 DEF DInv, Typed
<1>3. PICK b : b = Broken(a, how)
  OBVIOUS
<1>4. ASSUME ~trouble[c] PROVE Aloof(c, b, w, late) /\ Well(b, w, dev, S)
  <2> HIDE DEF T
  <2>1. Good(a, S, T) /\ driver \in DriverNames /\ T \in BOOLEAN
        /\ Aloof(c, a, w, late) /\ Fair(a, w, dev)
    BY <1>4, FineIs DEF T
  <2>2. /\ Well(b, w, dev, S)
        /\ driver \in {"appletv", "envy", "pj_talk"} /\ (driver # "appletv" => b.pc = "return")
    <3>1. CASE driver = "pj_talk" /\ a.n = 1
      BY <1>3, <2>1, <3>1, PjBrokenWell
    <3>2. CASE ~(driver = "pj_talk" /\ a.n = 1)
      BY <1>3, <2>1, <3>2, BrokenWell
    <3> QED
      BY <3>1, <3>2
  <2>3. Aloof(c, b, w, late)
    BY <2>2 DEF Aloof
  <2> QED
    BY <2>2, <2>3
<1>5. driver = "appletv" => w = conn[Session]
  BY ConnIs
<1>6. driver = "envy" /\ dev.power # On => w.up # "open"
  BY <1>1, FineIs
<1> HIDE DEF a, w, S, T
<1> QED
  BY <1>2, <1>3, <1>4, <1>5, <1>6, ClientFair DEF a, w, S

\* A write fails on the Apple TV's session only.
LEMMA SendFailsFair ==
  ASSUME FInv, NEW c \in Clients, SendFails(c)
  PROVE  Fares'
<1>1. PICK how : how = "reset"
  OBVIOUS
<1>2. trouble' = trouble /\ trouble = [d \in Clients |-> trouble[d]]
  BY FineIs DEF SendFails, history
<1> QED
  BY <1>1, <1>2, BrokenFair DEF SendFails, Becomes, history

\* What is due on an open connection has come.
LEMMA DueLines ==
  ASSUME driver \in DriverNames, NEW a, NEW w, Due(a, w), w.up = "open",
         ~(driver = "pj_talk" /\ a.n = 1)
  PROVE  w.lines # <<>>
<1>1. CASE driver = "avm70"
  <2>1. PICK i \in 1..Len(w.lines) : TRUE
    BY <1>1 DEF Due, AvmDue
  <2> QED
    BY <2>1
<1>2. CASE driver = "envy"
  <2>1. EnvyDue(a, w)
    BY <1>2 DEF Due
  <2>2. w.lines = <<>> => Len(w.lines) = 0
    BY ONLY Len(<<>>) = 0
  <2> QED
    BY ONLY <2>1, <2>2, w.up = "open" DEF EnvyDue
<1>3. CASE driver \notin {"avm70", "envy"}
  BY <1>3, IsDriver DEF Due, AtvDue, KscpDue, OppoDue, PjDue, StrDue
<1> QED
  BY <1>1, <1>2, <1>3

\* Nobody waits in vain.
LEMMA SilenceFair ==
  ASSUME FInv, NEW c \in Clients, Silence(c)
  PROVE  Fares'
<1> DEFINE a == call[c]
           w == conn[Conn(c)]
<1>1. a.pc = "read" /\ w.lines = <<>> /\ UNCHANGED <<driver, dev, conn, late, seen>> /\ Busy(c)
  BY DEF Silence, Busy
<1>4. CASE w.up = "open" /\ driver = "pj_talk" /\ a.n = 1 /\ w.cmd = None
  <2>1. PICK how : how = "timeout"
    OBVIOUS
  <2>2. call' = [call EXCEPT ![c] = Broken(a, how)] /\ Troubled({})
    BY <1>4, <2>1 DEF Silence, Becomes
  <2>3. trouble' = [d \in Clients |-> trouble'[d]] /\ \A d \in Clients : trouble[d] => trouble'[d]
    BY <2>2 DEF Troubled
  <2> QED
    BY <1>1, <1>4, <2>2, <2>3, BrokenFair
<1>2. CASE w.up = "open" /\ ~(driver = "pj_talk" /\ a.n = 1 /\ w.cmd = None)
  <2>1. PICK how : how = "timeout"
    OBVIOUS
  <2>2. PICK X : X = IF w.cmd # None THEN {c} ELSE {}
    OBVIOUS
  <2>3. PICK b : b = Broken(a, how)
    OBVIOUS
  <2>4. Troubled(X) /\ call' = [call EXCEPT ![c] = b]
    BY <1>2, <2>1, <2>2, <2>3 DEF Silence, Becomes
  <2>5. trouble[c] \/ c \in X
    <3>1. SUFFICES ASSUME ~trouble[c], w.cmd = None PROVE FALSE
      BY <2>2
    <3>2. Fair(a, w, dev) /\ driver \in DriverNames
      BY <3>1, FineIs
    <3>3. Due(a, w)
      BY <1>1, <3>1, <3>2 DEF Fair
    <3> QED
      BY <1>1, <1>2, <3>1, <3>2, <3>3, DueLines
  <2> HIDE DEF a, w
  <2> QED
    BY <1>1, <2>4, <2>5, TroubledFair
<1>3. CASE w.up # "open"
  <2>1. PICK how \in {"eof", "reset"} :
          /\ call' = [call EXCEPT ![c] = Broken(a, how)]
          /\ Troubled(IF how = "reset" /\ driver # "appletv" THEN {c} ELSE {})
    BY <1>3 DEF Silence, Becomes
  <2>2. CASE how = "reset" /\ driver # "appletv"
    <3>1. PICK X, b : X = {c} /\ b = Broken(a, how)
      OBVIOUS
    <3>2. Troubled(X) /\ call' = [call EXCEPT ![c] = b]
      BY <2>1, <2>2, <3>1
    <3> HIDE DEF a, w
    <3> QED
      BY <1>1, <3>1, <3>2, TroubledFair
  <2>3. CASE ~(how = "reset" /\ driver # "appletv")
    <3>1. trouble' = [d \in Clients |-> trouble'[d]] /\ \A d \in Clients : trouble[d] => trouble'[d]
      BY <2>1, <2>3 DEF Troubled
    <3> QED
      BY <1>1, <1>3, <2>1, <2>3, <3>1, BrokenFair
  <2> QED
    BY <2>2, <2>3
<1> QED
  BY <1>2, <1>3, <1>4

\* A line is read whole.
LEMMA ReadFair ==
  ASSUME FInv, NEW c \in Clients, Read(c)
  PROVE  Fares'
<1> DEFINE a == call[c]
           k == Conn(c)
           S == seen[c]
           T == times[c] > 0
           v == conn[k]
           ls == v.lines
<1>1. a.pc = "read" /\ ls # <<>> /\ UNCHANGED <<driver, dev, holder, late, times, seen>>
  BY DEF Read
<1>2. /\ Wire(k, v) /\ k \in Keys /\ conn = [j \in Keys |-> conn[j]] /\ DInv
  BY <1>1, ByIs, ConnIs DEF FInv, DInv, Typed
<1>3. ls \in Seq(Lines) /\ Len(ls) >= 1 /\ Len(ls) \in Nat /\ Head(ls) = ls[1]
  <2>1. ls \in Seq(Lines)
    BY <1>2 DEF Wire
  <2> QED
    BY <1>1, <2>1
<1>4. PICK n \in Nat, l \in Parts(Head(ls)) :
        /\ n <= Len(ls) - 1
        /\ conn' = [conn EXCEPT ![k].lines = SubSeq(@, 2 + n, Len(@))]
        /\ call' = [call EXCEPT ![c] = Hear(a, l)]
        /\ Troubled(IF n > 0 \/ l # Head(ls) THEN {c} ELSE {})
  <2>1. PICK loses \in BOOLEAN : loses <=> driver = "kscp" /\ Kscp!DropsReader(a)
    OBVIOUS
  <2>2. PICK n \in 0 .. (IF loses THEN Len(ls) - 1 ELSE 0), l \in Parts(Head(ls)) :
          /\ conn' = [conn EXCEPT ![k].lines = SubSeq(@, 2 + n, Len(@))]
          /\ call' = [call EXCEPT ![c] = Hear(a, l)]
          /\ Troubled(IF n > 0 \/ l # Head(ls) THEN {c} ELSE {})
    BY ONLY <2>1, Read(c) DEF Read, Becomes
  <2>3. n \in Nat /\ n <= Len(ls) - 1
    BY ONLY <1>3, <2>1, n \in 0 .. (IF loses THEN Len(ls) - 1 ELSE 0)
  <2> QED
    BY <2>2, <2>3
<1>5. PICK w : w = [up |-> v.up, cmd |-> v.cmd, by |-> v.by, lines |-> SubSeq(ls, 2 + n, Len(ls))]
  OBVIOUS
<1>6. conn' = [conn EXCEPT ![k] = w]
  <2>1. v = [up |-> v.up, cmd |-> v.cmd, by |-> v.by, lines |-> v.lines]
    BY <1>2 DEF Wire
  <2>2. /\ conn' = [j \in Keys |-> conn'[j]] /\ \A j \in Keys \ {k} : conn'[j] = conn[j]
        /\ conn'[k] = w
    BY <1>2, <1>4, <1>5, <2>1, ReadOn
  <2> QED
    BY ONLY <1>2, <2>2, Rewired
<1>7. PICK b : b = Hear(a, l)
  OBVIOUS
<1>8. call' = [call EXCEPT ![c] = b]
  BY <1>4, <1>7
<1>9. /\ trouble' = [d \in Clients |-> trouble'[d]] /\ \A d \in Clients : trouble[d] => trouble'[d]
      /\ ~trouble'[c] => n = 0 /\ l = Head(ls) /\ ~trouble[c]
  <2>1. PICK X : X = IF n > 0 \/ l # Head(ls) THEN {c} ELSE {}
    OBVIOUS
  <2>2. trouble' = [d \in Clients |-> trouble[d] \/ (d \in X /\ Busy(d))]
    BY <1>4, <2>1 DEF Troubled
  <2>3. Busy(c) /\ c \in Clients
    BY <1>1 DEF Busy
  <2>4. trouble'[c] <=> trouble[c] \/ c \in X
    BY ONLY <2>2, <2>3
  <2>5. trouble' = [d \in Clients |-> trouble'[d]] /\ \A d \in Clients : trouble[d] => trouble'[d]
    BY ONLY <2>2
  <2> QED
    BY ONLY <2>1, <2>4, <2>5, n \in Nat
<1>10. w.up = v.up /\ w.cmd = v.cmd /\ w.lines = SubSeq(ls, 2 + n, Len(ls))
  BY <1>5
<1>11. driver = "envy" /\ dev.power # On => w.up # "open"
  BY <1>2, <1>10, FineIs
<1>12. driver = "appletv" => \A d \in Clients \ {c} : call[d].pc \in {"idle", "lock", "return"}
  BY <1>1, <1>2, AloneIs
<1>13. b.op = a.op
  <2>1. Moved(c)
    BY <1>2, ReadStep
  <2>2. call'[c] = b
    BY <1>2, <1>8 DEF DInv, Typed
  <2> QED
    BY <2>1, <2>2 DEF Moved, Onward
<1>14. ASSUME ~trouble'[c] PROVE Aloof(c, b, w, late) /\ Well(b, w, dev, S)
  <2>1. n = 0 /\ l = Head(ls) /\ ~trouble[c]
    BY <1>9, <1>14
  <2> HIDE DEF T
  <2>2. Good(a, S, T) /\ driver \in DriverNames /\ T \in BOOLEAN
        /\ Aloof(c, a, v, late) /\ Fair(a, v, dev)
    BY <2>1, FineIs DEF T
  <2>3. Hears(c, a, S, T, v)
    BY <1>1, <1>2 DEF DInv, Links, T
  <2>4. Rested(w, v)
    BY <1>1, <1>3, <1>10, <2>1, Rest DEF Rested
  <2>5. b = Hear(a, ls[1])
    BY <1>3, <1>7, <2>1
  <2>6. Well(b, w, dev, S)
    BY <1>1, <1>3, <2>2, <2>3, <2>4, <2>5, HearWell
  <2>7. driver \notin {"avm70", "appletv"} => v.cmd = None
    BY <1>1, <2>2 DEF Fair, Ready
  <2>8. Aloof(c, b, w, late)
    BY <1>1, <1>10, <1>13, <2>2, <2>7 DEF Aloof
  <2> QED
    BY <2>6, <2>8
<1> HIDE DEF a, k, S, T, v, ls
<1> QED
  BY <1>1, <1>6, <1>8, <1>9, <1>11, <1>12, <1>14, ClientFair DEF k, S

\* The burst of datagrams.
LEMMA WakeFair ==
  ASSUME FInv, NEW c \in Clients, Wake(c)
  PROVE  Fares'
<1> DEFINE a == call[c]
           w == conn[Conn(c)]
           S == seen[c]
           T == times[c] > 0
           z == [cmd |-> a.cmd, by |-> c]
<1>1. PICK sent \in BOOLEAN :
        /\ call' = [call EXCEPT ![c] = Mvr!Woken(a, sent)]
        /\ \E L \in {{}} \cup (IF sent THEN {{z}} ELSE {}) : late' = late \cup L
        /\ Troubled(IF sent THEN {} ELSE {c})
  BY DEF Wake, Becomes
<1>2. PICK b : b = Mvr!Woken(a, sent)
  OBVIOUS
<1>3. a.pc = "wake" /\ UNCHANGED <<driver, dev, conn, seen>> /\ Busy(c)
  BY DEF Wake, Busy
<1>4. DInv /\ Conn(c) \in Keys /\ z.by = c
  BY ConnIs DEF FInv
<1> HIDE DEF z
<1>5. CASE ~sent
  <2>1. PICK X : X = {c}
    OBVIOUS
  <2>2. late' = late
    BY <1>1, <1>5
  <2> HIDE DEF a, w
  <2> QED
    BY <1>1, <1>2, <1>3, <1>5, <2>1, <2>2, TroubledFair
<1>6. CASE sent
  <2>1. conn' = [conn EXCEPT ![Conn(c)] = w]
    BY <1>3, <1>4 DEF DInv, Typed
  <2>2. trouble' = [d \in Clients |-> trouble'[d]] /\ \A d \in Clients : trouble[d] => trouble'[d]
    BY <1>1 DEF Troubled
  <2>3. \A x \in late' : x \in late \/ x.by \in {c, None}
    BY <1>1, <1>4
  <2>4. driver = "envy" /\ dev.power # On => w.up # "open"
    BY <1>4, FineIs
  <2>5. driver = "envy" /\ a.op = "turn_on"
    BY <1>3, <1>4, CountIs, WhoseIs
  <2>6. ASSUME ~trouble'[c] PROVE Aloof(c, b, w, late') /\ Well(b, w, dev, S)
    <3> HIDE DEF T
    <3>1. Good(a, S, T) /\ T \in BOOLEAN /\ Fair(a, w, dev)
      BY <2>2, <2>6, FineIs DEF T
    <3>2. b = Mvr!Woken(a, TRUE)
      BY <1>2, <1>6
    <3>3. Well(b, w, dev, S)
      BY <1>3, <2>5, <3>1, <3>2, WokenWell
    <3>4. Onward(a, b, S, T) /\ b.pc \in {"wake", "return"}
      BY <1>3, <2>5, <3>1, <3>2, EnvyWoken
    <3>5. Aloof(c, b, w, late')
      BY <2>5, <3>4 DEF Aloof, Onward
    <3> QED
      BY <3>3, <3>5
  <2>7. driver # "appletv"
    BY <2>5
  <2> HIDE DEF a, w, S, T
  <2> QED
    BY <1>1, <1>2, <1>3, <2>1, <2>2, <2>3, <2>4, <2>6, <2>7, ClientFair DEF w, S
<1> QED
  BY <1>5, <1>6

\* The session is locked.
LEMMA LockFair ==
  ASSUME FInv, NEW c \in Clients, Lock(c)
  PROVE  Fares'
<1> DEFINE a == call[c]
           w == conn[Conn(c)]
           S == seen[c]
           T == times[c] > 0
           up == conn[Session].up # "none"
<1>1. DInv /\ Conn(c) \in Keys
  BY ConnIs DEF FInv
<1>2. PICK b : b = Atv!Locked(a, up)
  OBVIOUS
<1>3. /\ driver = "appletv" /\ a.pc = "lock"
      /\ driver' = driver /\ dev' = dev /\ conn' = conn /\ late' = late /\ seen' = seen
      /\ trouble' = trouble /\ call' = [call EXCEPT ![c] = b]
  BY <1>1, <1>2, CountIs, WhoseIs DEF Lock, Becomes, history
<1>4. conn' = [conn EXCEPT ![Conn(c)] = w] /\ w = conn[Session]
  BY <1>1, <1>3, ConnIs DEF DInv, Typed
<1>5. ASSUME ~trouble[c] PROVE Aloof(c, b, w, late) /\ Well(b, w, dev, S)
  <2> HIDE DEF T
  <2>1. Good(a, S, T) /\ Fair(a, w, dev)
    BY <1>5, FineIs DEF T
  <2>2. a.n = 0
    BY <1>3, <2>1 DEF Fair
  <2>3. Well(b, w, dev, S)
    BY <1>2, <1>3, <2>1, <2>2, LockedWell
  <2> QED
    BY <1>3, <2>3 DEF Aloof
<1>6. trouble = [d \in Clients |-> trouble[d]]
  BY FineIs
<1> HIDE DEF a, w, S, T
<1> QED
  BY <1>3, <1>4, <1>5, <1>6, ClientFair DEF S

\* A call begins.
LEMMA BeginFair ==
  ASSUME FInv, NEW c \in Clients, Begin(c)
  PROVE  Fares'
<1> DEFINE w == conn[Conn(c)]
<1>1. DInv /\ Conn(c) \in Keys /\ driver \in DriverNames
  BY ConnIs, FineIs DEF FInv
<1>2. PICK q \in Requests[driver] :
        /\ call' = [call EXCEPT ![c] = First(Start(q.op, q.arg))]
        /\ seen' = [seen EXCEPT ![c] =
                      {Reading([driver |-> driver, op |-> q.op, arg |-> q.arg], dev)}]
  BY DEF Begin, Becomes
<1>3. PICK b : b = First(Start(q.op, q.arg))
  OBVIOUS
<1>4. /\ call[c].pc = "idle" /\ driver' = driver /\ dev' = dev /\ conn' = conn /\ late' = late
      /\ trouble' = trouble /\ call' = [call EXCEPT ![c] = b]
  BY <1>2, <1>3 DEF Begin
<1>5. \A d \in Clients \ {c} : seen'[d] = seen[d]
  BY <1>1, <1>2 DEF DInv, Typed
<1>6. conn' = [conn EXCEPT ![Conn(c)] = w]
  BY <1>1, <1>4 DEF DInv, Typed
<1>7. Asked(q.op, q.arg)
  <2>1. q = [op |-> q.op, arg |-> q.arg]
    BY <1>1, RequestsAssumption
  <2> QED
    BY <2>1 DEF Asked
<1>8. ASSUME ~trouble[c] PROVE Aloof(c, b, w, late) /\ Well(b, w, dev, seen'[c])
  <2>1. Well(b, w, dev, seen'[c])
    BY <1>1, <1>3, <1>7, FirstWell
  <2>2. Aloof(c, call[c], w, late)
    BY <1>8, FineIs
  <2>3. ~LateFor(c, late)
    BY <1>1, <1>4, IdleIs
  <2>4. Aloof(c, b, w, late)
    BY <1>4, <2>2, <2>3 DEF Aloof, LateFor
  <2> QED
    BY <2>1, <2>4
<1>9. trouble = [d \in Clients |-> trouble[d]]
  BY FineIs
<1>10. driver = "envy" /\ dev.power # On => w.up # "open"
  BY <1>1, FineIs
<1>11. driver = "appletv" => w = conn[Session]
  BY ConnIs
<1> HIDE DEF w
<1> QED
  BY <1>4, <1>5, <1>6, <1>8, <1>9, <1>10, <1>11, ClientFair

\* A call returns.
LEMMA ReturnFair ==
  ASSUME FInv, NEW c \in Clients, Return(c)
  PROVE  Fares'
<1> DEFINE k == Conn(c)
           v == conn[k]
<1>1. PICK b : b = Start("none", 0)
  OBVIOUS
<1>2. /\ call[c].pc = "return" /\ driver' = driver /\ dev' = dev
      /\ call' = [call EXCEPT ![c] = b] /\ seen' = [seen EXCEPT ![c] = {}]
      /\ trouble' = [trouble EXCEPT ![c] = FALSE]
  BY <1>1 DEF Return, Becomes
<1>3. /\ v.by \in {c, None} /\ k \in Keys /\ DInv /\ trouble = [d \in Clients |-> trouble[d]]
  BY <1>2, ByIs, ConnIs, FineIs DEF FInv
<1>4. PICK w, L :
        /\ L \in Stranded(k)
        /\ conn' = [conn EXCEPT ![k] = w] /\ late' = {Orphan(x, c) : x \in late \cup L}
        /\ driver # "appletv" => w = NoConn
  <2>1. CASE driver = "appletv"
    <3>1. PICK w : w = Orphan(v, c)
      OBVIOUS
    <3>2. conn' = [conn EXCEPT ![k] = w] /\ late' = {Orphan(x, c) : x \in late \cup {}}
      BY <2>1, <3>1, ConnIs DEF Return
    <3>3. {} \in Stranded(k)
      BY DEF Stranded
    <3> QED
      BY <2>1, <3>2, <3>3
  <2>2. CASE driver # "appletv"
    <3>1. k = c
      BY <2>2, ConnIs
    <3>2. PICK L \in Stranded(k) : late' = {Orphan(x, c) : x \in late \cup L}
      BY <2>2, <3>1 DEF Return
    <3>3. conn' = [conn EXCEPT ![k] = NoConn]
      BY <2>2, <3>1 DEF Return
    <3> QED
      BY <2>2, <3>2, <3>3
  <2> QED
    BY <2>1, <2>2
<1>5. \A d \in Clients \ {c} : seen'[d] = seen[d] /\ trouble'[d] = trouble[d]
  BY <1>2, <1>3 DEF DInv, Typed
<1>6. trouble' = [d \in Clients |-> trouble'[d]]
  BY <1>2, <1>3
<1>7. b.pc = "idle"
  BY <1>1 DEF Start
<1>8. \A y \in late' : y.by # c /\ (y.by # None => y \in late \cup L)
  <2>1. \A x \in late \cup L : x = [cmd |-> x.cmd, by |-> x.by]
    <3>1. \A x \in late \cup L : Belated(x)
      BY <1>3, <1>4, StrandedIs DEF DInv
    <3> QED
      BY <3>1 DEF Belated
  <2>2. ASSUME NEW y \in late'
        PROVE  y.by # c /\ (y.by # None => y \in late \cup L)
    <3>1. PICK x \in late \cup L : y = Orphan(x, c)
      BY <1>4
    <3> QED
      BY <2>1, <3>1, ConnIs, OrphanIs
  <2> QED
    BY <2>2
<1>9. \A x \in late' : x \in late \/ x.by \in {c, None}
  BY <1>3, <1>4, <1>8, StrandedIs
<1>10. driver # "appletv" => w.up # "open" /\ w.cmd = None
  BY <1>4 DEF NoConn
<1>11. Aloof(c, b, w, late')
  BY <1>8, <1>10 DEF Aloof
<1>12. \A S : Well(b, w, dev, S)
  BY <1>7 DEF Well, Fair
<1>13. driver = "appletv" => \A d \in Clients \ {c} : call[d].pc \in {"idle", "lock", "return"}
  BY <1>2, <1>3, AloneIs
<1> HIDE DEF k, v
<1> QED
  BY <1>2, <1>4, <1>5, <1>6, <1>9, <1>10, <1>11, <1>12, <1>13, ClientFair DEF k

-----------------------------------------------------------------------------
(* The steps of devices and connections.                                   *)

\* A step of the device leaves all well if it does so for the calls in progress.
LEMMA DeviceFair ==
  ASSUME FInv, Onlooking,
         driver = "envy" /\ dev'.power # On => \A k \in Keys : conn'[k].up # "open",
         trouble' = [d \in Clients |-> trouble'[d]],
         \A d \in Clients : trouble[d] => trouble'[d],
         \A k \in Keys : conn'[k].cmd \in {conn[k].cmd, None},
         \A c \in Clients :
           ~trouble'[c] /\ call[c].pc # "return" /\ driver \notin {"avm70", "appletv"} =>
             \A x \in late' : x.by = c => x \in late,
         \A c \in Clients : ~trouble'[c] /\ Busy(c) => Fair(call[c], conn'[Conn(c)], dev')
  PROVE  Fares'
<1>1. driver' = driver /\ call' = call
  BY DEF Onlooking
<1>2. Dark'
  BY <1>1 DEF Dark, Keys
<1>3. ASSUME NEW c \in Clients, ~trouble'[c]
      PROVE  /\ Aloof(c, call[c], conn'[Conn(c)], late')
              /\ Well(call[c], conn'[Conn(c)], dev', seen'[c])
  <2>1. Aloof(c, call[c], conn[Conn(c)], late) /\ Well(call[c], conn[Conn(c)], dev, seen[c])
    BY <1>3, FineIs
  <2>2. conn'[Conn(c)].cmd \in {conn[Conn(c)].cmd, None}
    BY ConnIs
  <2>3. Aloof(c, call[c], conn'[Conn(c)], late')
    BY <1>3, <2>1, <2>2 DEF Aloof
  <2>4. CASE Busy(c)
    <3>1. Fair(call[c], conn'[Conn(c)], dev')
      BY <1>3, <2>4
    <3>2. call[c].pc # "return"
      BY <2>4 DEF Busy
    <3> QED
      BY <2>3, <3>1, <3>2 DEF Well
  <2>5. CASE ~Busy(c)
    <3>1. seen'[c] = seen[c]
      BY <2>5 DEF Onlooking
    <3>2. call[c].pc \in {"idle", "lock", "return"}
      BY <2>5 DEF Busy
    <3> QED
      BY <2>1, <2>3, <3>1, <3>2, OffWell
  <2> QED
    BY <2>4, <2>5
<1>4. \A d : Conn(d)' = Conn(d)
  BY <1>1 DEF Conn
<1>5. \A d \in Clients : ~trouble'[d] => Fine(d)'
  BY <1>1, <1>3, <1>4, SameFair DEF Fine
<1> QED
  BY <1>2, <1>5 DEF Fares

\* Whose command it is does not matter.
LEMMA AnyBy ==
  ASSUME NEW a, NEW w, NEW v, v.up = w.up, v.cmd = w.cmd, v.lines = w.lines, NEW s, Fair(a, w, s)
  PROVE  Fair(a, v, s)
<1>1. Ready(a, w) => Ready(a, v)
  BY DEF Ready
<1>2. Stands(a, w, s) => Stands(a, v, s)
  BY DEF Stands, AvmStands, KscpStands, EnvyStands, StrStands
<1>3. Due(a, w) => Due(a, v)
  BY DEF Due, AvmDue, AtvDue, KscpDue, EnvyDue, OppoDue, PjDue, StrDue
<1> QED
  BY <1>1, <1>2, <1>3 DEF Fair

\* More gossip comes on the connection of a receiver's call, and nothing on others.
LEMMA TalkFair ==
  ASSUME FInv, NEW c \in Clients, ~trouble[c], Busy(c), NEW w, w = conn[Conn(c)],
         NEW more \in Seq(Lines),
         IF driver = "avm70" THEN \A i \in 1..Len(more) : more[i].tag \in Gossip ELSE more = <<>>,
         NEW v, v.up = w.up, v.cmd = w.cmd, v.lines = w.lines \o more,
         NEW t, t = dev \/ driver \in {"avm70", "appletv"}
  PROVE  Fair(call[c], v, t)
<1> DEFINE T == times[c] > 0
           S == seen[c]
<1>1. Good(call[c], S, T) /\ Fair(call[c], w, dev)
  BY FineIs
<1>2. w.lines \in Seq(Lines)
  BY ConnIs DEF FInv, DInv, Wires, Wire
<1> HIDE DEF T, S
<1>3. CASE driver = "avm70"
  BY <1>1, <1>2, <1>3, AvmGossip
<1>4. CASE driver # "avm70"
  <2>1. v.lines = w.lines
    <3>1. v.lines = w.lines \o <<>>
      BY <1>4
    <3> QED
      BY ONLY <1>2, <3>1
  <2>2. Fair(call[c], v, dev)
    BY <1>1, <2>1, AnyBy
  <2>3. driver = "appletv" => (Stands(call[c], v, dev) <=> Stands(call[c], v, t))
    BY DEF Stands
  <2> QED
    BY <1>4, <2>2, <2>3 DEF Fair
<1> QED
  BY <1>3, <1>4

\* A call that has yet to send its command does not depend on its connection.
LEMMA AheadFair ==
  ASSUME NEW a, a.pc \in {"lock", "connect", "wake"}, NEW w, NEW s, Fair(a, w, s), NEW v, NEW t,
         t = s \/ driver \in {"avm70", "appletv", "envy"}
  PROVE  Fair(a, v, t)
<1>1. a.pc \in {"connect", "wake"} => Stands(a, w, s)
  BY DEF Fair
<1>2. a.pc \in {"connect", "wake"} => Stands(a, v, t)
  <2>1. CASE driver \in {"avm70", "appletv", "envy"}
    BY <1>1, <2>1 DEF Stands, AvmStands, EnvyStands
  <2>2. CASE t = s /\ driver \notin {"avm70", "appletv", "envy"}
    BY <1>1, <2>2 DEF Stands, KscpStands, StrStands
  <2> QED
    BY <2>1, <2>2
<1> QED
  BY <1>2 DEF Fair

\* The device hangs up on those that are connected.
LEMMA ToldUp ==
  ASSUME DInv, NEW cs, Stripped(cs), NEW k, NEW r, NEW j \in Keys
  PROVE  Told(cs, k, r)[j].up = IF conn[j].up = "open" /\ r.close THEN "cut" ELSE conn[j].up
<1>1. PICK x : x = cs[j]
  OBVIOUS
<1>2. PICK v : v = Told(cs, k, r)[j]
  OBVIOUS
<1>3. x = [up |-> conn[j].up, cmd |-> x.cmd, by |-> x.by, lines |-> conn[j].lines]
  BY <1>1 DEF Stripped
<1>4. x.up = conn[j].up
  BY <1>3
<1>5. CASE conn[j].up # "open"
  <2>1. v = x
    BY <1>1, <1>2, <1>4, <1>5 DEF Told
  <2> QED
    BY <1>2, <1>4, <1>5, <2>1
<1>6. CASE conn[j].up = "open"
  <2>1. PICK ls, u : /\ ls = x.lines \o (IF j = k THEN r.reply ELSE r.tell)
                     /\ u = IF r.close THEN "cut" ELSE x.up
    OBVIOUS
  <2>2. v = [x EXCEPT !.lines = ls, !.up = u]
    BY <1>1, <1>2, <1>4, <1>6, <2>1 DEF Told
  <2>3. v.up = u
    BY ONLY <1>3, <2>2
  <2> QED
    BY <1>2, <1>4, <1>6, <2>1, <2>3
<1> QED
  BY <1>5, <1>6

\* An Envy that is off has no connections, whatever it does.
LEMMA DarkStays ==
  ASSUME FInv, NEW cs, Stripped(cs), NEW k, NEW r, conn' = Told(cs, k, r), dev' = r.state,
         driver = "envy", dev'.power # On, r.close \/ r.state.power = On \/ dev.power # On
  PROVE  \A j \in Keys : conn'[j].up # "open"
<1>1. DInv /\ (dev.power # On => \A j \in Keys : conn[j].up # "open")
  BY DEF FInv, Fares, Dark
<1>2. ASSUME NEW j \in Keys PROVE conn'[j].up # "open"
  BY <1>1, ToldUp
<1> QED
  BY <1>2

\* Calls whose command it is not are left alone.
LEMMA OthersFair ==
  ASSUME FInv, NEW r, Reacts(r), Calm(r, dev), NEW cs, Stripped(cs), NEW k,
         conn' = Told(cs, k, r), dev' = r.state, r.state = dev \/ driver \in {"avm70", "appletv"},
         NEW c \in Clients, ~trouble[c], Busy(c), Conn(c) # k,
         cs[Conn(c)].cmd = conn[Conn(c)].cmd
  PROVE  Fair(call[c], conn'[Conn(c)], dev')
<1>1. PICK j : j = Conn(c)
  OBVIOUS
<1>2. DInv /\ j \in Keys
  BY <1>1, ConnIs DEF FInv
<1>3. PICK v, w, more : v = conn'[j] /\ w = conn[j] /\ more = Coming(j, k, r)
  OBVIOUS
<1>4. /\ v = [up |-> v.up, cmd |-> cs[j].cmd, by |-> cs[j].by, lines |-> v.lines]
      /\ more \in Seq(Lines) /\ v.lines = w.lines \o more
  BY <1>2, <1>3, ToldIs
<1>5. v.cmd = w.cmd
  BY <1>1, <1>3, <1>4
<1>6. v.up = w.up
  <2>1. v.up = IF w.up = "open" /\ r.close THEN "cut" ELSE w.up
    BY <1>2, <1>3, ToldUp
  <2>2. ~(w.up = "open" /\ r.close)
    BY <1>2, <1>3, FineIs DEF Calm
  <2> QED
    BY <2>1, <2>2
<1>7. more = <<>> \/ more = r.tell
  BY <1>1, <1>3 DEF Coming
<1>8. IF driver = "avm70" THEN \A i \in 1..Len(more) : more[i].tag \in Gossip ELSE more = <<>>
  <2>1. CASE more = <<>>
    <3>1. Len(more) = 0
      BY <2>1
    <3> QED
      BY <2>1, <3>1
  <2>2. CASE more = r.tell
    BY <2>2 DEF Calm
  <2> QED
    BY <1>7, <2>1, <2>2
<1>9. PICK t : t = dev'
  OBVIOUS
<1>10. Fair(call[c], v, t)
  BY <1>1, <1>3, <1>4, <1>5, <1>6, <1>8, <1>9, TalkFair
<1> QED
  BY <1>1, <1>3, <1>9, <1>10

\* The call on whose connection a command is executed, its own perhaps.
LEMMA OwnFair ==
  ASSUME FInv, NEW k \in Keys, NEW cmd, cmd = conn[k].cmd, cmd # None, conn[k].up = "open",
         Known(cmd), NEW r \in Does(cmd, dev), Reacts(r), Calm(r, dev),
         NEW cs, Stripped(cs), cs[k].cmd = None, conn' = Told(cs, k, r), dev' = r.state,
         NEW c \in Clients, ~trouble[c], Busy(c), Conn(c) = k,
         IF conn[k].by = c THEN r.heeded ELSE r.state = dev
  PROVE  Fair(call[c], conn'[k], dev')
<1> DEFINE a == call[c]
           S == seen[c]
           T == times[c] > 0
<1>1. PICK v, w, t : v = conn'[k] /\ w = conn[k] /\ t = dev'
  OBVIOUS
<1>2. /\ DInv /\ Good(a, S, T) /\ driver \in DriverNames /\ Fair(a, w, dev)
      /\ Aloof(c, a, w, late) /\ dev \in States
  BY <1>1, FineIs DEF DInv, Typed
<1>3. /\ v = [up |-> v.up, cmd |-> None, by |-> cs[k].by, lines |-> v.lines]
      /\ v.lines = w.lines \o Coming(k, k, r) /\ r.reply \in Seq(Lines)
  <2>1. r.reply \in Seq(Lines)
    BY DEF Reacts
  <2> QED
    BY <1>1, <1>2, <2>1, ToldIs
<1>4. Coming(k, k, r) = r.reply /\ v.cmd = None /\ w.lines \in Seq(Lines)
  <2>1. w.lines \in Seq(Lines)
    BY <1>1, <1>2 DEF DInv, Wires, Wire
  <2>2. v.cmd = None
    BY ONLY <1>3
  <2>3. Coming(k, k, r) = r.reply
    BY DEF Coming
  <2> QED
    BY <2>1, <2>2, <2>3
<1>5. v.up = IF r.close THEN "cut" ELSE "open"
  BY <1>1, <1>2, ToldUp
<1>6. a.pc \in {"send", "read"} => Hears(c, a, S, T, w)
  BY <1>1, <1>2 DEF DInv, Links
<1>7. a.pc \in {"lock", "connect", "wake", "send", "read"}
      /\ (a.pc = "lock" => driver = "appletv") /\ (a.pc = "wake" => driver = "envy")
  BY <1>2, CountIs, WhoseIs DEF Busy
<1>8. CASE a.pc = "read"
  <2>1. Hears(c, a, S, T, w)
    BY <1>6, <1>8
  <2>2. w.cmd = a.cmd /\ w.by = c
    BY <1>1, <1>8, <2>1 DEF Hears
  <2>3. a.cmd = cmd /\ r.heeded
    BY <1>1, <2>2
  <2>4. PICK q : q = r.state
    OBVIOUS
  <2> HIDE DEF a, S, T
  <2>5. r \in Does(a.cmd, dev) /\ a.cmd # None /\ Known(a.cmd) /\ v.lines = w.lines \o r.reply
    BY <1>3, <1>4, <2>3
  <2>6. Fair(a, v, r.state)
    BY <1>2, <1>3, <1>4, <1>5, <1>8, <2>1, <2>2, <2>3, <2>5, OwnWell
  <2> QED
    BY <1>1, <2>6 DEF a
<1>9. CASE a.pc = "send"
  <2>1. driver = "appletv"
    BY <1>1, <1>6, <1>9 DEF Hears
  <2>2. ~r.close
    BY <2>1 DEF Calm
  <2>3. v.up = "open"
    BY <1>5, <2>2
  <2>4. Ready(a, v) /\ Stands(a, v, t)
    BY <1>9, <2>1, <2>3 DEF Ready, Stands
  <2>5. Fair(a, v, t)
    BY <1>9, <2>4 DEF Fair
  <2> QED
    BY <1>1, <2>5
<1>10. CASE a.pc \in {"lock", "connect", "wake"}
  <2>1. t = dev \/ driver \in {"avm70", "appletv", "envy"}
    <3>1. CASE a.pc = "connect"
      BY <1>1, <1>2, <3>1 DEF Aloof
    <3>2. CASE a.pc \in {"lock", "wake"}
      BY <1>7, <3>2
    <3> QED
      BY <1>10, <3>1, <3>2
  <2> HIDE DEF a
  <2>2. Fair(a, v, t)
    BY <1>2, <1>10, <2>1, AheadFair
  <2> QED
    BY <1>1, <2>2 DEF a
<1> QED
  BY <1>7, <1>8, <1>9, <1>10

\* A command under way is executed.
LEMMA ExecuteFair ==
  ASSUME FInv, NEW k \in Keys, Execute(k)
  PROVE  Fares'
<1> DEFINE by == conn[k].by
<1>0. PICK cmd : cmd = conn[k].cmd
  OBVIOUS
<1>1. PICK cs : cs = [conn EXCEPT ![k].cmd = None, ![k].by = None]
  OBVIOUS
<1>2. PICK r : r \in Does(cmd, dev) /\ Takes(r, cs, k, by)
  BY <1>0, <1>1 DEF Execute
<1>3. /\ UNCHANGED <<driver, call, holder, late>> /\ cmd # None /\ driver \in DriverNames
      /\ dev \in States /\ conn = [j \in Keys |-> conn[j]] /\ DInv /\ conn[k].up = "open"
  BY <1>0 DEF Execute, FInv, DInv, Typed
<1>4. \A j \in Keys : Wire(j, conn[j])
  BY <1>3 DEF DInv, Wires
<1>5. Known(cmd)
  BY <1>0, <1>3, <1>4 DEF Wire
<1>6. Reacts(r) /\ Calm(r, dev)
  BY <1>2, <1>3, <1>5, DoesIs, DoesCalm
<1>7. /\ \A j \in Keys \ {k} : cs[j] = conn[j]
      /\ cs[k] = [up |-> conn[k].up, cmd |-> None, by |-> None, lines |-> conn[k].lines]
  <2>1. conn[k] = [up |-> conn[k].up, cmd |-> conn[k].cmd, by |-> conn[k].by,
        lines |-> conn[k].lines]
    BY <1>4 DEF Wire
  <2> QED
    BY <1>1, <1>3, <2>1, TakenOff
<1>8. Stripped(cs)
  BY <1>4, <1>7 DEF Stripped, Wire
<1>9. cs[k].cmd = None
  BY <1>7
<1>10. dev' = r.state /\ conn' = Told(cs, k, r)
       /\ Troubled({c \in Clients : IF c = by THEN ~r.heeded ELSE r.state # dev})
  BY <1>2 DEF Takes
<1>11. Onlooking
  BY <1>3, ExecuteStep DEF Struck
<1>12. driver = "envy" /\ dev'.power # On => \A j \in Keys : conn'[j].up # "open"
  BY <1>6, <1>8, <1>10, DarkStays DEF Calm
<1>13. /\ trouble' = [d \in Clients |-> trouble'[d]]
       /\ \A d \in Clients : trouble[d] => trouble'[d]
       /\ \A d \in Clients : ~trouble'[d] /\ Busy(d) => IF d = by THEN r.heeded ELSE r.state = dev
  BY <1>10 DEF Troubled
<1>14. ASSUME NEW j \in Keys PROVE conn'[j].cmd \in {conn[j].cmd, None}
  <2>1. conn'[j].cmd = cs[j].cmd
    <3>1. PICK v : v = conn'[j]
      OBVIOUS
    <3>2. v = [up |-> v.up, cmd |-> cs[j].cmd, by |-> cs[j].by, lines |-> v.lines]
      BY <1>3, <1>6, <1>8, <1>10, <3>1, ToldIs
    <3>3. v.cmd = cs[j].cmd
      BY ONLY <3>2
    <3> QED
      BY <3>1, <3>3
  <2> QED
    BY <1>8, <2>1 DEF Stripped
<1>15. ASSUME NEW c \in Clients, ~trouble'[c], Busy(c)
       PROVE  Fair(call[c], conn'[Conn(c)], dev')
  <2>1. ~trouble[c] /\ IF c = by THEN r.heeded ELSE r.state = dev
    BY <1>13, <1>15
  <2>2. CASE Conn(c) = k
    BY <1>0, <1>2, <1>3, <1>5, <1>6, <1>8, <1>9, <1>10, <1>15, <2>1, <2>2, OwnFair
  <2>3. CASE Conn(c) # k
    <3>1. cs[Conn(c)].cmd = conn[Conn(c)].cmd
      BY <1>7, <2>3, ConnIs
    <3>2. r.state = dev \/ driver \in {"avm70", "appletv"}
      <4>1. by = c => Conn(c) = k
        BY <1>4, ConnIs DEF Wire
      <4> QED
        BY <2>1, <2>3, <4>1
    <3> QED
      BY <1>6, <1>8, <1>10, <1>15, <2>1, <2>3, <3>1, <3>2, OthersFair
  <2> QED
    BY <2>2, <2>3
<1>16. \A c \in Clients : \A x \in late' : x.by = c => x \in late
  BY <1>3
<1> HIDE DEF by
<1> QED
  BY <1>11, <1>12, <1>13, <1>14, <1>15, <1>16, DeviceFair

\* The device takes no commands away from connections it talks to.
LEMMA ToldCmd ==
  ASSUME DInv, NEW cs, Stripped(cs), NEW k, NEW r, Reacts(r), NEW j \in Keys
  PROVE  Told(cs, k, r)[j].cmd \in {conn[j].cmd, None}
<1>1. PICK v : v = Told(cs, k, r)[j]
  OBVIOUS
<1>2. v = [up |-> v.up, cmd |-> cs[j].cmd, by |-> cs[j].by, lines |-> v.lines]
  BY <1>1, ToldIs
<1>3. v.cmd = cs[j].cmd
  BY ONLY <1>2
<1> QED
  BY <1>1, <1>3 DEF Stripped

\* A late command is executed.
LEMMA ExecuteLateFair ==
  ASSUME FInv, ExecuteLate
  PROVE  Fares'
<1>1. PICK x \in late : \E r \in Does(x.cmd, dev) :
        Takes(r, conn, None, x.by) /\ late' = late \ {x}
  BY DEF ExecuteLate
<1>2. PICK r \in Does(x.cmd, dev) : Takes(r, conn, None, x.by) /\ late' = late \ {x}
  BY <1>1
<1>3. /\ UNCHANGED <<driver, call, holder>> /\ driver \in DriverNames /\ dev \in States
      /\ DInv /\ None \notin Keys
  BY LimitsAssumption, NoneAssumption DEF ExecuteLate, FInv, DInv, Typed, Keys
<1>4. Reacts(r) /\ Calm(r, dev)
  <2>1. Known(x.cmd)
    BY <1>3 DEF DInv, Belated
  <2> QED
    BY <1>2, <1>3, <2>1, DoesIs, DoesCalm
<1>5. Stripped(conn)
  BY <1>3, Unserved
<1>6. dev' = r.state /\ conn' = Told(conn, None, r)
      /\ Troubled({c \in Clients : IF c = x.by THEN ~r.heeded ELSE r.state # dev})
  BY <1>2 DEF Takes
<1>7. Onlooking
  BY <1>3, ExecuteLateStep DEF Struck
<1>8. driver = "envy" /\ dev'.power # On => \A j \in Keys : conn'[j].up # "open"
  BY <1>4, <1>5, <1>6, DarkStays DEF Calm
<1>9. /\ trouble' = [d \in Clients |-> trouble'[d]]
      /\ \A d \in Clients : trouble[d] => trouble'[d]
      /\ \A d \in Clients : ~trouble'[d] /\ Busy(d) => IF d = x.by THEN r.heeded ELSE r.state = dev
  BY <1>6 DEF Troubled
<1>10. \A j \in Keys : conn'[j].cmd \in {conn[j].cmd, None}
  BY <1>3, <1>4, <1>5, <1>6, ToldCmd
<1>11. ASSUME NEW c \in Clients, ~trouble'[c], Busy(c)
       PROVE  Fair(call[c], conn'[Conn(c)], dev')
  <2>1. ~trouble[c] /\ (c # x.by => r.state = dev) /\ Conn(c) \in Keys
    BY <1>9, <1>11, ConnIs
  <2>2. CASE r.state = dev \/ driver \in {"avm70", "appletv"}
    BY <1>3, <1>4, <1>5, <1>6, <1>11, <2>1, <2>2, OthersFair
  <2>3. CASE c = x.by /\ driver \notin {"avm70", "appletv"}
    <3>1. Aloof(c, call[c], conn[Conn(c)], late) /\ Good(call[c], seen[c], times[c] > 0)
          /\ Fair(call[c], conn[Conn(c)], dev)
      BY <2>1, FineIs
    <3>2. call[c].pc # "return" /\ call[c].pc # "idle"
      BY <1>11 DEF Busy
    <3>3. driver = "envy" /\ call[c].op = "turn_on"
      BY <2>3, <3>1, <3>2 DEF Aloof
    <3>4. call[c].pc \notin {"connect", "send", "read"}
      <4>1. PICK a, S, T : a = call[c] /\ S = seen[c] /\ T = (times[c] > 0)
        OBVIOUS
      <4>2. Good(a, S, T) /\ a.op = "turn_on"
        BY <3>1, <3>3, <4>1
      <4>3. a.pc \notin {"connect", "send", "read"}
        BY <3>3, <4>2, EnvyIs
      <4> QED
        BY <4>1, <4>3
    <3>5. call[c].pc = "wake"
      BY <1>3, <3>2, <3>3, <3>4, CountIs, WhoseIs
    <3>6. PICK v, t : v = conn'[Conn(c)] /\ t = dev'
      OBVIOUS
    <3>7. Fair(call[c], v, t)
      BY <3>1, <3>3, <3>5, AheadFair
    <3> QED
      BY <3>6, <3>7
  <2> QED
    BY <2>1, <2>2, <2>3
<1>12. \A c \in Clients : \A y \in late' : y.by = c => y \in late
  BY <1>2
<1> QED
  BY <1>7, <1>8, <1>9, <1>10, <1>11, <1>12, DeviceFair

\* Somebody operates the device, which is trouble for every call.
LEMMA ByHandFair ==
  ASSUME FInv, ByHand
  PROVE  Fares'
<1>1. PICK r \in Touched(dev) : r.state # dev /\ Takes(r, conn, None, None)
  BY DEF ByHand
<1>2. /\ UNCHANGED <<driver, call, holder, late, times>> /\ driver \in DriverNames
      /\ dev \in States /\ DInv
  BY DEF ByHand, FInv, DInv, Typed
<1>3. Reacts(r)
  BY <1>1, <1>2, TouchedIs
<1>4. Stripped(conn) /\ None \notin Clients
  BY <1>2, Unserved, NoneAssumption
<1>5. dev' = r.state /\ conn' = Told(conn, None, r)
      /\ Troubled({c \in Clients : IF c = None THEN ~r.heeded ELSE r.state # dev})
  BY <1>1 DEF Takes
<1>6. Onlooking
  BY <1>2, ByHandStep DEF Struck
<1>7. driver = "envy" /\ dev'.power # On => \A j \in Keys : conn'[j].up # "open"
  <2>1. driver = "envy" /\ r.state.power # On => r.close \/ dev.power # On
    BY <1>1, <1>2, TouchedCalm
  <2> QED
    BY <1>4, <1>5, <2>1, DarkStays
<1>8. /\ trouble' = [d \in Clients |-> trouble'[d]]
      /\ \A d \in Clients : trouble[d] => trouble'[d]
      /\ \A d \in Clients : Busy(d) => trouble'[d]
  BY <1>1, <1>4, <1>5 DEF Troubled
<1>9. \A j \in Keys : conn'[j].cmd \in {conn[j].cmd, None}
  BY <1>2, <1>3, <1>4, <1>5, ToldCmd
<1> QED
  BY <1>2, <1>6, <1>7, <1>8, <1>9, DeviceFair

\* A line that nobody asked for is gossip, or trouble.
LEMMA ChatterFair ==
  ASSUME FInv, NEW k \in Keys, Chatter(k)
  PROVE  Fares'
<1>1. PICK l \in Notes : conn' = [conn EXCEPT ![k].lines = Append(@, l)]
  BY DEF Chatter
<1>2. /\ driver \in {"avm70", "envy"} /\ conn[k].up = "open"
      /\ conn' = [conn EXCEPT ![k].lines = Append(@, l)]
      /\ UNCHANGED <<driver, dev, call, holder, late, times, seen>>
      /\ Troubled(IF driver = "envy" THEN UsersOf(k) ELSE {})
  BY <1>1 DEF Chatter
<1>3. DInv /\ conn = [j \in Keys |-> conn[j]] /\ Wire(k, conn[k]) /\ driver \in DriverNames
  BY DEF FInv, DInv, Typed, Wires
<1>4. PICK v, w : v = conn'[k] /\ w = conn[k]
  OBVIOUS
<1>5. /\ \A j \in Keys \ {k} : conn'[j] = conn[j]
      /\ conn' = [j \in Keys |-> conn'[j]]
      /\ v = [up |-> w.up, cmd |-> w.cmd, by |-> w.by, lines |-> Append(w.lines, l)]
  <2>1. w = [up |-> w.up, cmd |-> w.cmd, by |-> w.by, lines |-> w.lines]
    BY <1>3, <1>4 DEF Wire
  <2>2. PICK ls : ls = Append(w.lines, l)
    OBVIOUS
  <2>3. conn' = [conn EXCEPT ![k].lines = ls]
    BY <1>2, <1>4, <2>2
  <2> QED
    BY <1>3, <1>4, <2>1, <2>2, <2>3
<1>6. v.up = w.up /\ v.cmd = w.cmd /\ v.lines = Append(w.lines, l)
  BY ONLY <1>5
<1>7. Onlooking
  BY <1>2, <1>3, <1>5, Unseen
<1>8. driver = "envy" /\ dev'.power # On => \A j \in Keys : conn'[j].up # "open"
  <2>1. driver = "envy" /\ dev.power # On => \A j \in Keys : conn[j].up # "open"
    BY DEF FInv, Fares, Dark
  <2>2. \A j \in Keys : conn'[j].up = conn[j].up
    BY <1>4, <1>5, <1>6
  <2> QED
    BY <1>2, <2>1, <2>2
<1>9. /\ trouble' = [d \in Clients |-> trouble'[d]]
      /\ \A d \in Clients : trouble[d] => trouble'[d]
      /\ driver = "envy" => \A d \in UsersOf(k) : trouble'[d]
  <2>1. PICK X : X = IF driver = "envy" THEN UsersOf(k) ELSE {}
    OBVIOUS
  <2>2. trouble' = [c \in Clients |-> trouble[c] \/ (c \in X /\ Busy(c))]
    BY <1>2, <2>1 DEF Troubled
  <2>3. \A d \in UsersOf(k) : Busy(d) /\ d \in Clients
    BY DEF UsersOf
  <2> QED
    BY <2>1, <2>2, <2>3
<1>10. \A j \in Keys : conn'[j].cmd \in {conn[j].cmd, None}
  BY <1>4, <1>5, <1>6
<1>11. ASSUME NEW c \in Clients, ~trouble'[c], Busy(c)
       PROVE  Fair(call[c], conn'[Conn(c)], dev')
  <2>1. ~trouble[c] /\ Conn(c) \in Keys /\ Fair(call[c], conn[Conn(c)], dev)
    BY <1>9, <1>11, ConnIs, FineIs
  <2>2. CASE Conn(c) # k
    BY <1>2, <1>5, <2>1, <2>2
  <2>3. CASE Conn(c) = k
    <3>1. driver = "avm70"
      <4>1. ASSUME driver = "envy" PROVE FALSE
        <5>1. c \in UsersOf(k)
          BY <1>11, <2>3, <4>1, ConnIs DEF UsersOf
        <5> QED
          BY <1>9, <1>11, <4>1, <5>1
      <4> QED
        BY <1>2, <4>1
    <3>2. PICK more : more = <<l>>
      OBVIOUS
    <3>3. l \in Lines /\ l.tag = "Z1VOL"
      <4>1. l = Line("Z1VOL", 0)
        BY <1>1, <3>1 DEF Notes
      <4> QED
        BY ONLY <4>1, LinesAre DEF Tags, Line
    <3>4. more \in Seq(Lines) /\ \A i \in 1..Len(more) : more[i] = l
      BY <3>2, <3>3
    <3>5. v.lines = w.lines \o more
      <4>1. w.lines \in Seq(Lines)
        BY <1>3, <1>4 DEF Wire
      <4> QED
        BY ONLY <1>6, <3>2, <3>3, <4>1, AppendIsConcat
    <3>6. \A i \in 1..Len(more) : more[i].tag \in Gossip
      BY <3>3, <3>4 DEF Gossip
    <3>7. Fair(call[c], v, dev)
      BY <1>4, <1>6, <1>11, <2>1, <2>3, <3>1, <3>4, <3>5, <3>6, TalkFair
    <3> QED
      BY <1>2, <1>4, <2>3, <3>7
  <2> QED
    BY <2>2, <2>3
<1>12. \A c \in Clients : \A y \in late' : y.by = c => y \in late
  BY <1>2
<1> QED
  BY <1>7, <1>8, <1>9, <1>10, <1>11, <1>12, DeviceFair

\* A connection that breaks is trouble for the call that uses it.
LEMMA CutFair ==
  ASSUME FInv, NEW k \in Keys, Cut(k)
  PROVE  Fares'
<1>1. PICK L \in Stranded(k) : late' = late \cup L
  BY DEF Cut
<1>2. PICK ls \in {conn[k].lines, <<>>} :
        conn' = [conn EXCEPT ![k] = [NoConn EXCEPT !.up = "cut", !.lines = ls]]
  BY DEF Cut
<1>3. PICK v : v = [NoConn EXCEPT !.up = "cut", !.lines = ls]
  OBVIOUS
<1>4. v.up = "cut" /\ v.cmd = None
  BY <1>3 DEF NoConn
<1>5. /\ UNCHANGED <<driver, dev, call, holder, times, seen>> /\ conn = [j \in Keys |-> conn[j]]
      /\ Troubled(UsersOf(k)) /\ DInv /\ Wire(k, conn[k])
  BY DEF Cut, FInv, DInv, Typed, Wires
<1>6. /\ conn' = [j \in Keys |-> conn'[j]] /\ \A j \in Keys \ {k} : conn'[j] = conn[j]
      /\ conn'[k] = v
  BY <1>2, <1>3, <1>5
<1>7. Onlooking
  BY <1>5, <1>6, Unseen
<1>8. driver = "envy" /\ dev'.power # On => \A j \in Keys : conn'[j].up # "open"
  <2>1. driver = "envy" /\ dev.power # On => \A j \in Keys : conn[j].up # "open"
    BY DEF FInv, Fares, Dark
  <2> QED
    BY <1>4, <1>5, <1>6, <2>1
<1>9. /\ trouble' = [d \in Clients |-> trouble'[d]]
      /\ \A d \in Clients : trouble[d] => trouble'[d]
      /\ \A d \in UsersOf(k) : trouble'[d]
  <2>1. \A d \in UsersOf(k) : Busy(d) /\ d \in Clients
    BY DEF UsersOf
  <2> QED
    BY <1>5, <2>1 DEF Troubled
<1>10. \A j \in Keys : conn'[j].cmd \in {conn[j].cmd, None}
  BY <1>4, <1>6
<1>11. ASSUME NEW c \in Clients, ~trouble'[c], Busy(c)
       PROVE  Fair(call[c], conn'[Conn(c)], dev')
  <2>1. ~trouble[c] /\ Conn(c) \in Keys /\ Fair(call[c], conn[Conn(c)], dev)
    BY <1>9, <1>11, ConnIs, FineIs
  <2>2. CASE Conn(c) # k
    BY <1>5, <1>6, <2>1, <2>2
  <2>3. CASE Conn(c) = k
    <3>1. k = Session /\ holder # c
      BY <1>9, <1>11, <2>3 DEF UsersOf
    <3>2. driver = "appletv"
      BY <2>3, <3>1, ConnIs
    <3>3. call[c].pc \notin {"connect", "send", "read", "return"}
      BY <1>5, <3>1, <3>2 DEF DInv, Locked
    <3>4. call[c].pc = "lock"
      BY <1>5, <1>11, <3>2, <3>3, CountIs, WhoseIs DEF Busy
    <3>5. Fair(call[c], v, dev)
      BY <2>1, <3>4, AheadFair
    <3> QED
      BY <1>5, <1>6, <2>3, <3>5
  <2> QED
    BY <2>2, <2>3
<1>12. ASSUME NEW c \in Clients, ~trouble'[c], call[c].pc # "return", driver \notin {"avm70", "appletv"},
              NEW x \in late', x.by = c
       PROVE  x \in late
  <2>1. SUFFICES ASSUME x \in L PROVE FALSE
    BY <1>1
  <2>2. conn[k].by = c /\ conn[k].cmd # None /\ c # None
    BY <1>5, <1>12, <2>1, ConnIs, StrandedIs
  <2>3. Conn(c) = k /\ k # Session
    BY <1>5, <1>12, <2>2, ConnIs DEF Wire
  <2>4. CASE Busy(c)
    <3>1. c \in UsersOf(k)
      BY <2>3, <2>4 DEF UsersOf
    <3> QED
      BY <1>9, <1>12, <3>1
  <2>5. CASE ~Busy(c)
    <3>1. call[c].pc = "idle"
      BY <1>12, <2>5 DEF Busy
    <3>2. Aloof(c, call[c], conn[k], late)
      BY <1>9, <1>12, <2>3, FineIs
    <3> QED
      BY <1>12, <2>2, <3>1, <3>2 DEF Aloof
  <2> QED
    BY <2>4, <2>5
<1> QED
  BY <1>7, <1>8, <1>9, <1>10, <1>11, <1>12, DeviceFair

-----------------------------------------------------------------------------
(* Calls during which nothing comes between do not fail.                   *)

\* At first all is well.
LEMMA InitFair ==
  ASSUME Init
  PROVE  FInv
<1>1. PICK a : a = Start("none", 0)
  OBVIOUS
<1>2. a.pc = "idle"
  BY <1>1 DEF Start
<1>3. /\ \A c \in Clients : call[c] = a
      /\ \A k \in Keys : conn[k] = NoConn
      /\ late = {} /\ trouble = [c \in Clients |-> trouble[c]]
  BY <1>1 DEF Init
<1>4. NoConn.up = "none" /\ NoConn.cmd = None
  BY DEF NoConn
<1>5. Dark
  BY <1>3, <1>4 DEF Dark
<1>6. ASSUME NEW c \in Clients PROVE Fine(c)
  <2>1. Aloof(c, a, NoConn, {})
    BY <1>4 DEF Aloof
  <2>2. \A s, S : Well(a, NoConn, s, S)
    BY <1>2 DEF Well, Fair
  <2> QED
    BY <1>3, <2>1, <2>2, ConnIs DEF Fine
<1> QED
  BY <1>3, <1>5, <1>6, InitIs DEF FInv, Fares

\* Nothing changes when nothing happens.
LEMMA StutterFair ==
  ASSUME FInv, UNCHANGED vars
  PROVE  Fares'
<1>1. UNCHANGED <<driver, dev, call, conn, late, seen, trouble>>
  BY DEF vars, history
<1>2. \A c : Conn(c)' = Conn(c)
  BY <1>1 DEF Conn
<1>3. \A c \in Clients : ~trouble'[c] => Fine(c)'
  BY <1>1, <1>2, SameFair DEF FInv, Fares, Fine
<1>4. Dark'
  BY <1>1 DEF FInv, Fares, Dark, Keys
<1> QED
  BY <1>1, <1>3, <1>4 DEF FInv, Fares

\* Every step leaves all well.
LEMMA NextFair ==
  ASSUME FInv, [Next]_vars
  PROVE  FInv'
<1>1. DInv'
  BY NextIs, StutterIs DEF FInv
<1>2. ASSUME NEW c \in Clients, Begin(c) \/ Lock(c) \/ Client(c)
      PROVE  Fares'
  BY <1>2, BeginFair, LockFair, ConnectFair, CannotConnectFair, SendFair, SendFailsFair, ReadFair,
     SilenceFair, WakeFair, ReturnFair DEF Client
<1>3. ASSUME NEW k \in Keys, Execute(k) \/ Chatter(k) \/ Cut(k)
      PROVE  Fares'
  BY <1>3, ExecuteFair, ChatterFair, CutFair
<1>4. Fares'
  BY <1>2, <1>3, ExecuteLateFair, ByHandFair, StutterFair DEF Next
<1> QED
  BY <1>1, <1>4 DEF FInv

\* FairWeather, for every driver and device: a call during which nothing comes
\* between does not fail, however many threads make calls of their own at the
\* same time, and whatever the device tells them, but for the replies that the
\* driver cannot read (Unreadable).
THEOREM CallsFareWell == Spec => []FairWeather
<1>1. FInv => FairWeather
  <2>1. SUFFICES ASSUME FInv, NEW c \in Clients, Ended(c), ~trouble[c], call[c].ans \in {Err, Panic}
                 PROVE  Unreadable(call[c], seen[c])
    BY DEF FairWeather
  <2>2. Well(call[c], conn[Conn(c)], dev, seen[c])
    BY <2>1, FineIs
  <2> QED
    BY <2>1, <2>2 DEF Well, Pleasant, Ended
<1> QED
  BY <1>1, InitFair, NextFair, PTL DEF Spec
=============================================================================

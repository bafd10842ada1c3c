------------------------------- MODULE Drivers -------------------------------
(* A device on the network and its driver, one of those in rustmo-devices    *)
(* except Lutron's, whose sessions have a module of their own.  Threads make *)
(* calls (trait methods and the driver's own), each on connections of its    *)
(* own, or, for the Apple TV, on the session that clones share.              *)
(* Connections break, devices are slow, are operated by hand, and speak      *)
(* without being asked.                                                      *)
EXTENDS Exchanges, FiniteSets

CONSTANTS
  Clients,       \* threads that make calls
  Users,         \* Users[d]: those of them that use driver d
  Requests,      \* Requests[d]: the calls they make, records [op, arg]
  Settings,      \* Settings[d]: the values of the setting "set" of its device
  Session,       \* the Apple TV session, a connection like those of the clients
  Other,         \* what aspect_ratio answers when the line is not about that
  MaxLines,      \* bound of the lines under way when one comes unasked
  MaxLate,       \* bound of the commands in late
  Tries, Movies, DetailLines, RetryLimit, Inputs

DriverNames == DOMAIN Requests

VARIABLES
  driver,        \* the driver this is about; it never changes
  dev,           \* the device: power and two settings (see the drivers)
  call,          \* call[c]: the record of c's call
  conn,          \* conn[k]: a connection, seen from the device
  holder,        \* who holds the mutex of the Apple TV session
  late,          \* commands of broken connections that may still be executed
  times,         \* times[c]: how often c's call has had its command executed
  seen,          \* seen[c]: the true answers to c's call since it began
  trouble        \* trouble[c]: something came between during c's call

history == <<times, seen, trouble>>
vars == <<driver, dev, call, conn, holder, late, history>>

Avm  == INSTANCE Avm70
Atv  == INSTANCE AppleTv
Kscp == INSTANCE Kaleidescape
Mvr  == INSTANCE Envy
Oppo == INSTANCE Udp203
Pj   == INSTANCE PjTalk
Str  == INSTANCE StrZa5000

\* The calls that the drivers have.
Methods ==
  [avm70 |-> DOMAIN Avm!CommandFor, appletv |-> DOMAIN Atv!CommandFor,
   kscp |-> DOMAIN Kscp!CommandFor, envy |-> {"turn_on"} \cup DOMAIN Mvr!CommandFor,
   udp203 |-> DOMAIN Oppo!CommandFor, pj_talk |-> DOMAIN Pj!CommandFor,
   za5000 |-> DOMAIN Str!CommandFor]

\* Callers ask for settings that there are, or for VideoInput::Unknown, which is
\* 0; list_movies begins with the first.
ASSUME RequestsAssumption ==
  /\ DriverNames \subseteq DOMAIN Methods
  /\ \A d \in DriverNames :
       /\ Users[d] \subseteq Clients
       /\ Settings[d] \subseteq Nat
       /\ Requests[d] \subseteq [op : Methods[d], arg : Nat]
       /\ \A q \in Requests[d] :
            /\ q.op \in {"change_input", "play_movie", "picture_position_set"}
                 => q.arg \in Settings[d]
            /\ q.op = "set_video_input" => q.arg \in Settings[d] \cup {0}
            /\ q.op = "set_cec" => q.arg \in {0, 1}
            /\ q.op = "list_movies" => q.arg = 1
       /\ d = "avm70" => 1..Inputs \subseteq Settings[d]

ASSUME LimitsAssumption ==
  /\ {Tries, Movies, DetailLines} \subseteq Nat \ {0}
  /\ {RetryLimit, Inputs} \subseteq Nat
  /\ Session \notin Clients

First(a) ==
  CASE driver = "avm70" -> Avm!First(a) [] driver = "appletv" -> Atv!First(a)
    [] driver = "kscp" -> Kscp!First(a) [] driver = "envy" -> Mvr!First(a)
    [] driver = "udp203" -> Oppo!First(a) [] driver = "pj_talk" -> Pj!First(a)
    [] driver = "za5000" -> Str!First(a)

Connected(a) ==
  CASE driver = "avm70" -> Avm!Connected(a) [] driver = "appletv" -> Atv!Connected(a)
    [] driver = "kscp" -> Kscp!Connected(a) [] driver = "envy" -> Mvr!Connected(a)
    [] driver = "udp203" -> Oppo!Connected(a) [] driver = "pj_talk" -> Pj!Connected(a)
    [] driver = "za5000" -> Str!Connected(a)

Sent(a) ==
  CASE driver = "avm70" -> Avm!Sent(a) [] driver = "appletv" -> Atv!Sent(a)
    [] driver = "kscp" -> Kscp!Sent(a) [] driver = "envy" -> Mvr!Sent(a)
    [] driver = "udp203" -> Oppo!Sent(a) [] driver = "pj_talk" -> Pj!Sent(a)
    [] driver = "za5000" -> Str!Sent(a)

Hear(a, l) ==
  CASE driver = "avm70" -> Avm!Hear(a, l) [] driver = "appletv" -> Atv!Hear(a, l)
    [] driver = "kscp" -> Kscp!Hear(a, l) [] driver = "envy" -> Mvr!Hear(a, l)
    [] driver = "udp203" -> Oppo!Hear(a, l) [] driver = "pj_talk" -> Pj!Hear(a, l)
    [] driver = "za5000" -> Str!Hear(a, l)

Broken(a, how) ==
  CASE driver = "avm70" -> Avm!Broken(a, how) [] driver = "appletv" -> Atv!Broken(a, how)
    [] driver = "kscp" -> Kscp!Broken(a, how) [] driver = "envy" -> Mvr!Broken(a, how)
    [] driver = "udp203" -> Oppo!Broken(a, how) [] driver = "pj_talk" -> Pj!Broken(a, how)
    [] driver = "za5000" -> Str!Broken(a, how)

Does(cmd, s) ==
  CASE driver = "avm70" -> Avm!Does(cmd, s) [] driver = "appletv" -> Atv!Does(cmd, s)
    [] driver = "kscp" -> Kscp!Does(cmd, s) [] driver = "envy" -> Mvr!Does(cmd, s)
    [] driver = "udp203" -> Oppo!Does(cmd, s) [] driver = "pj_talk" -> Pj!Does(cmd, s)
    [] driver = "za5000" -> Str!Does(cmd, s)

Acting ==
  CASE driver = "avm70" -> Avm!Acting [] driver = "appletv" -> Atv!Acting
    [] driver = "kscp" -> Kscp!Acting [] driver = "envy" -> Mvr!Acting
    [] driver = "udp203" -> Oppo!Acting [] driver = "pj_talk" -> Pj!Acting
    [] driver = "za5000" -> Str!Acting

-----------------------------------------------------------------------------
\* What a call may rely on (module RawDriver), and the answers that are true.
Confirmed ==
  [kscp    |-> {"turn_on", "turn_off"},
   udp203  |-> {"turn_on", "turn_off", "key"},
   za5000  |-> {"turn_on", "turn_off"},
   appletv |-> {"turn_on", "turn_off", "key"},
   avm70   |-> {}, envy |-> {}, pj_talk |-> {}]

Queries ==
  {"check_is_on", "highlighted_section", "current_input", "picture_position", "aspect_ratio",
   "get_nearest_aspect_ratio", "get_video_input", "check_is_muted", "toggle_mute"}

Class(q) ==
  IF q.op \in Confirmed[q.driver] THEN "confirmed"
  ELSE IF q.op \in Queries THEN "query"
  ELSE IF q.op \in {"set_cec", "play_movie"} \/ (q.op = "set_video_input" /\ q.arg # 0)
  THEN "checked"
  ELSE "sent"

Reading(q, s) ==
  CASE q.op = "check_is_on" -> s.power
    [] q.op = "set_cec" -> s.aux
    [] q.op = "get_nearest_aspect_ratio" -> Mvr!nearest_aspect_ratio_int(s.set)
    [] q.op \in {"check_is_muted", "toggle_mute"} ->
         IF s.power = On THEN PowerOf(s.aux) ELSE Off
    [] q.op \in {"highlighted_section", "current_input", "picture_position", "aspect_ratio",
                 "get_video_input", "set_video_input", "play_movie"} -> s.set
    [] OTHER -> Ok

Vague(q) ==
  CASE q.op = "get_video_input" -> Unknown
    [] q.op = "aspect_ratio" -> Other
    [] q.op = "get_nearest_aspect_ratio" -> Panic
    [] q.driver = "udp203" \/ q.op \in {"check_is_muted", "toggle_mute"} -> Off
    [] OTHER -> Err

-----------------------------------------------------------------------------
NoConn == [up |-> "none", cmd |-> None, by |-> None, lines |-> <<>>]

Keys    == Clients \cup {Session}
Conn(c) == IF driver = "appletv" THEN Session ELSE c
Busy(c) == call[c].pc \notin {"idle", "return"}
Request(c) == [driver |-> driver, op |-> call[c].op, arg |-> call[c].arg]

\* The calls that are served on connection k now.
UsersOf(k) == {c \in Clients : Busy(c) /\ Conn(c) = k /\ (k = Session => holder = c)}

Becomes(c, a) == call' = [call EXCEPT ![c] = a]
Troubled(S)   == trouble' = [c \in Clients |-> trouble[c] \/ (c \in S /\ Busy(c))]

\* A connection goes away: the command under way is lost, or still executed.
Stranded(k) ==
  {{}} \cup (IF conn[k].cmd = None THEN {}
             ELSE {L \in {{[cmd |-> conn[k].cmd, by |-> conn[k].by]}} :
                     conn[k].cmd.name \in Acting /\ Cardinality(late \cup L) <= MaxLate})

Begin(c) ==
  /\ c \in Users[driver] /\ call[c].pc = "idle"
  /\ \E q \in Requests[driver] :
       /\ Becomes(c, First(Start(q.op, q.arg)))
       /\ seen' = [seen EXCEPT ![c] =
                     {Reading([driver |-> driver, op |-> q.op, arg |-> q.arg], dev)}]
  /\ UNCHANGED <<driver, dev, conn, holder, late, times, trouble>>

\* The Apple TV driver locks its session.
Lock(c) ==
  /\ call[c].pc = "lock" /\ holder = None
  /\ holder' = c
  /\ Becomes(c, Atv!Locked(call[c], conn[Session].up # "none"))
  /\ UNCHANGED <<driver, dev, conn, late, history>>

\* An Envy speaks first, and in standby it takes no connections.
Greeting == IF driver = "envy" THEN <<Line("welcome", 0)>> ELSE <<>>

Connect(c) ==
  /\ call[c].pc = "connect" /\ (driver = "envy" => dev.power = On)
  /\ \E L \in Stranded(Conn(c)) : late' = late \cup L
  /\ conn' = [conn EXCEPT ![Conn(c)] = [NoConn EXCEPT !.up = "open", !.lines = Greeting]]
  /\ Becomes(c, Connected(call[c]))
  /\ UNCHANGED <<driver, dev, holder, history>>

CannotConnect(c) ==
  /\ call[c].pc = "connect"
  /\ Becomes(c, Broken(call[c], "refused"))
  /\ Troubled({c})
  /\ UNCHANGED <<driver, dev, conn, holder, late, times, seen>>

\* What is written to a connection that the device has closed is lost, or
\* (SendFails) the write fails.  The Apple TV session pairs replies with
\* commands, so it forgets those that came late.
Send(c) ==
  LET k == Conn(c) IN
  /\ call[c].pc = "send"
  /\ \E L \in Stranded(k) : late' = late \cup L
  /\ conn' = [conn EXCEPT ![k].cmd = IF conn[k].up = "open" THEN call[c].cmd ELSE None,
                          ![k].by = IF conn[k].up = "open" THEN c ELSE None,
                          ![k].lines = IF k = Session THEN <<>> ELSE @]
  /\ Becomes(c, Sent(call[c]))
  /\ UNCHANGED <<driver, dev, holder, history>>

SendFails(c) ==
  /\ call[c].pc = "send" /\ conn[Conn(c)].up = "cut"
  /\ Becomes(c, Broken(call[c], "reset"))
  /\ UNCHANGED <<driver, dev, conn, holder, late, history>>

\* What a read makes of the line l: a single read may return a part of it.
Parts(l) ==
  CASE driver = "udp203"  -> Oppo!Parts(l)
    [] driver = "pj_talk" -> Pj!Parts(l)
    [] OTHER              -> {l}

\* A line is read.  The Kaleidescape driver may lose lines that have come
\* after it.
Read(c) ==
  LET ls == conn[Conn(c)].lines
      loses == driver = "kscp" /\ Kscp!DropsReader(call[c])
  IN
  /\ call[c].pc = "read" /\ ls # <<>>
  /\ \E lost \in 0 .. (IF loses THEN Len(ls) - 1 ELSE 0), l \in Parts(Head(ls)) :
       /\ conn' = [conn EXCEPT ![Conn(c)].lines = SubSeq(@, 2 + lost, Len(@))]
       /\ Becomes(c, Hear(call[c], l))
       /\ Troubled(IF lost > 0 \/ l # Head(ls) THEN {c} ELSE {})
  /\ UNCHANGED <<driver, dev, holder, late, times, seen>>

\* The call waits for the answer to an HTTP request, which has no time limit.
Unlimited(c) == driver = "za5000" \/ (driver = "kscp" /\ Kscp!Unlimited(call[c]))

\* There is nothing to read until the read times out, or ever.
Silence(c) ==
  LET k == conn[Conn(c)] IN
  /\ call[c].pc = "read" /\ k.lines = <<>>
  /\ IF k.up = "open"
     THEN /\ ~Unlimited(c)
          /\ Becomes(c, Broken(call[c], "timeout"))
          /\ Troubled(IF k.cmd # None THEN {c} ELSE {})
     ELSE \E how \in {"eof", "reset"} :
            /\ Becomes(c, Broken(call[c], how))
            /\ Troubled(IF how = "reset" /\ driver # "appletv" THEN {c} ELSE {})
  /\ UNCHANGED <<driver, dev, conn, holder, late, times, seen>>

\* The Envy driver sends a datagram, which may be lost, or cannot send it.
Wake(c) ==
  /\ call[c].pc = "wake"
  /\ \E sent \in BOOLEAN :
       /\ Becomes(c, Mvr!Woken(call[c], sent))
       /\ \E L \in {{}} \cup (IF sent THEN {{[cmd |-> call[c].cmd, by |-> c]}} ELSE {}) :
            late' = late \cup L
       /\ Troubled(IF sent THEN {} ELSE {c})
  /\ UNCHANGED <<driver, dev, conn, holder, times, seen>>

\* The call returns: its connection is closed, the session is unlocked.
Orphan(x, c) == IF x.by = c THEN [x EXCEPT !.by = None] ELSE x

Return(c) ==
  /\ call[c].pc = "return"
  /\ Becomes(c, Start("none", 0))
  /\ IF driver = "appletv"
     THEN /\ conn' = [conn EXCEPT ![Session] = Orphan(@, c)]
          /\ late' = {Orphan(x, c) : x \in late}
     ELSE /\ conn' = [conn EXCEPT ![c] = NoConn]
          /\ \E L \in Stranded(c) : late' = {Orphan(x, c) : x \in late \cup L}
  /\ holder' = IF holder = c THEN None ELSE holder
  /\ seen' = [seen EXCEPT ![c] = {}] /\ times' = [times EXCEPT ![c] = 0]
  /\ trouble' = [trouble EXCEPT ![c] = FALSE]
  /\ UNCHANGED <<driver, dev>>

-----------------------------------------------------------------------------
\* The device does r (for connection k, for the call of by) to the connections
\* cs; when it hangs up, it closes all of them.
Told(cs, k, r) ==
  [j \in Keys |->
     IF cs[j].up # "open" THEN cs[j]
     ELSE [cs[j] EXCEPT !.lines = @ \o (IF j = k THEN r.reply ELSE r.tell),
                        !.up = IF r.close THEN "cut" ELSE @]]

Takes(r, cs, k, by) ==
  /\ dev' = r.state
  /\ conn' = Told(cs, k, r)
  /\ \A j \in Keys \ {k} : Len(conn'[j].lines) <= MaxLines
  /\ seen' = [c \in Clients |->
       IF Busy(c) THEN seen[c] \cup {Reading(Request(c), r.state)} ELSE seen[c]]
  /\ Troubled({c \in Clients : IF c = by THEN ~r.heeded ELSE r.state # dev})

Counted(r, cmd, by) ==
  times' = [c \in Clients |->
    IF c = by /\ Busy(c) /\ r.heeded /\ cmd.name \in Acting THEN times[c] + 1 ELSE times[c]]

Execute(k) ==
  /\ conn[k].up = "open" /\ conn[k].cmd # None
  /\ \E r \in Does(conn[k].cmd, dev) :
       /\ Takes(r, [conn EXCEPT ![k].cmd = None, ![k].by = None], k, conn[k].by)
       /\ Counted(r, conn[k].cmd, conn[k].by)
  /\ UNCHANGED <<driver, call, holder, late>>

ExecuteLate ==
  /\ \E x \in late : \E r \in Does(x.cmd, dev) :
       /\ Takes(r, conn, None, x.by)
       /\ Counted(r, x.cmd, x.by)
       /\ late' = late \ {x}
  /\ UNCHANGED <<driver, call, holder>>

\* Somebody uses a remote control, or the device changes of itself.
Touched(s) ==
  LET flipped == [s EXCEPT !.power = PowerOf(1 - Bit(s))]
      moved   == {[s EXCEPT !.set = v] : v \in Settings[driver] \ {s.set}}
  IN CASE driver = "avm70"   -> Avm!Touched(s)
       [] driver = "envy"    -> {HangUp(flipped, <<>>)}
                                \cup {Announce(t, <<Line("ratio", t.set)>>) : t \in moved}
       [] driver = "pj_talk" -> {React(Pj!Switched(s, flipped.power), <<>>),
                                 React([s EXCEPT !.aux = 0], <<>>)}
                                \cup {React(t, <<>>) : t \in moved}
       [] driver \in {"udp203", "appletv"} -> {React(flipped, <<>>)}
       [] OTHER -> {React(t, <<>>) : t \in moved \cup {flipped, [s EXCEPT !.aux = 1 - @]}}

ByHand ==
  /\ \E r \in Touched(dev) : r.state # dev /\ Takes(r, conn, None, None)
  /\ UNCHANGED <<driver, call, holder, late, times>>

\* Lines that nobody asked for.
Notes == IF driver = "envy" THEN {Line("note", Other), Line("words", Other)}
         ELSE {Line("Z1VOL", 0)}

Chatter(k) ==
  /\ driver \in {"avm70", "envy"}
  /\ UsersOf(k) # {} /\ conn[k].up = "open" /\ Len(conn[k].lines) < MaxLines
  /\ \E l \in Notes : conn' = [conn EXCEPT ![k].lines = Append(@, l)]
  /\ Troubled(IF driver = "envy" THEN UsersOf(k) ELSE {})
  /\ UNCHANGED <<driver, dev, call, holder, late, times, seen>>

\* The connection breaks; what has come on it may be lost.
Cut(k) ==
  /\ conn[k].up = "open"
  /\ \E ls \in {conn[k].lines, <<>>} :
       conn' = [conn EXCEPT ![k] = [NoConn EXCEPT !.up = "cut", !.lines = ls]]
  /\ \E L \in Stranded(k) : late' = late \cup L
  /\ Troubled(UsersOf(k))
  /\ UNCHANGED <<driver, dev, call, holder, times, seen>>

-----------------------------------------------------------------------------
DeviceStates == [power : {On, Off}, set : UNION {Settings[d] : d \in DriverNames}, aux : {0, 1}]

Init ==
  /\ driver \in DriverNames
  /\ dev \in [power : {On, Off}, set : Settings[driver], aux : {0}]
  /\ call = [c \in Clients |-> Start("none", 0)]
  /\ conn = [k \in Keys |-> NoConn]
  /\ holder = None /\ late = {}
  /\ times = [c \in Clients |-> 0]
  /\ seen = [c \in Clients |-> {}]
  /\ trouble = [c \in Clients |-> FALSE]

Client(c) ==
  \/ Connect(c) \/ CannotConnect(c) \/ Send(c) \/ SendFails(c)
  \/ Read(c) \/ Silence(c) \/ Wake(c) \/ Return(c)

Next ==
  \/ \E c \in Clients : Begin(c) \/ Lock(c) \/ Client(c)
  \/ \E k \in Keys : Execute(k) \/ Chatter(k) \/ Cut(k)
  \/ ExecuteLate
  \/ ByHand

\* The device owes nobody anything.  Threads run, and the mutex is eventually
\* fair (parking_lot).
Fairness == \A c \in Clients : WF_vars(Client(c)) /\ SF_vars(Lock(c))

Spec == Init /\ [][Next]_vars
LiveSpec == Spec /\ Fairness

-----------------------------------------------------------------------------
Ended(c) == call[c].pc = "return"

\* Type correctness; counters stay below the bounds of the loops they count.
Counts(a) ==
  CASE driver = "avm70" -> a.n <= RetryLimit /\ a.m <= Inputs + 1
    [] driver = "kscp" -> /\ a.n < Tries
                          /\ a.m <= IF a.op = "play_movie" THEN Tries - 1 ELSE DetailLines
    [] driver = "envy" -> a.n <= 3 /\ a.m <= 2
    [] OTHER -> a.n <= 1 /\ a.m <= 1

DriversTypeOK ==
  /\ dev \in DeviceStates
  /\ \A c \in Clients :
       /\ call[c].pc \in {"idle", "lock", "connect", "wake", "send", "read", "return"}
       /\ Ended(c) <=> call[c].ans # None
       /\ Counts(call[c])
  /\ \A k \in Keys : conn[k].up \in {"none", "open", "cut"} /\ conn[k].by \in Clients \cup {None}
  /\ holder \in Clients \cup {None}
  /\ \A x \in late : x.cmd.name \in Acting

\* The drivers implement RawDriver.
RawRequests ==
  UNION {{[driver |-> d, op |-> q.op, arg |-> q.arg] : q \in Requests[d]} : d \in DriverNames}

RawAnswers ==
  {On, Off, Ok, Err, Panic, Unknown, Other}
    \cup Mvr!KnownRatios \cup UNION {Settings[d] : d \in DriverNames}

\* What commands are called.
Names ==
  {"Z1PVOL?", "GET_UI_STATE", "GET_HIGHLIGHTED_SELECTION", "PLAY", "WAKE", "GET_CONTENT_DETAILS",
   "set_input", "input?", "mute?"}
    \cup UNION {{f[op] : op \in DOMAIN f} :
                  f \in {Avm!CommandFor, Atv!CommandFor, Kscp!CommandFor, Mvr!CommandFor,
                        Oppo!CommandFor, Pj!CommandFor, Str!CommandFor}}

\* The answers are different from the failures, and None is no key, no answer,
\* no command and no call.
ASSUME AnswersAssumption ==
  /\ On # Off
  /\ \A a \in {Err, Panic} : a \notin {On, Off, Ok, Unknown, Other} \cup Nat

ASSUME NoneAssumption ==
  /\ None \notin Clients \cup {Session} \cup RawAnswers \cup Nat \cup [name : Names, arg : Nat]
  /\ None \notin [req : RawRequests, seen : SUBSET (RawAnswers \cup {0, 1}), took : BOOLEAN,
                  ans : RawAnswers \cup {None}]

RawDoing ==
  [c \in Clients |->
     IF call[c].pc = "idle" THEN None
     ELSE [req |-> Request(c), seen |-> seen[c], took |-> times[c] > 0, ans |-> call[c].ans]]

Raw == INSTANCE RawDriver WITH
  Requests <- RawRequests, States <- DeviceStates, Answers <- RawAnswers,
  state <- dev, doing <- RawDoing

\* Whatever happens on the network and whoever else uses the device, a call of
\* a driver answers what RawDriver promises: for commands that are confirmed,
\* settings that are checked, and queries.
Promise == Raw!Spec

\* The replies that a driver cannot make sense of although its device did what
\* it was asked: more unsolicited lines than the receiver's retry limit, a ratio
\* below the known ones, a player's reply that fills the buffer, a projector's
\* confirmation without data, and bodies with other names of fields.  Also
\* nobody can set an input that is Unknown.
Unreadable(a, answers) ==
  \/ driver = "avm70" /\ a.n = RetryLimit
  \/ a.op = "get_nearest_aspect_ratio" /\ a.ans \in answers
  \/ driver = "udp203" /\ a.ans = Panic
  \/ driver \in {"pj_talk", "za5000"} /\ a.n = 1
  \/ a.op = "set_video_input" /\ a.arg = 0

\* A call during which nothing comes between does not fail, but for the replies
\* above: not when the receiver talks of other things, not when the Apple TV's
\* session broke since the last call (with_session mends it), not in the
\* projector or player for want of an answer.
FairWeather ==
  \A c \in Clients :
    Ended(c) /\ ~trouble[c] /\ call[c].ans \in {Err, Panic} => Unreadable(call[c], seen[c])

\* A command is executed once, whatever is lost or late; the Apple TV's may be
\* executed once more, if its session broke (with_session), and the Envy gets
\* three datagrams.
Attempts(a) ==
  CASE driver = "appletv" -> IF a.n = 0 THEN 1 ELSE 2
    [] driver = "envy" /\ a.op = "turn_on" -> 3
    [] OTHER -> 1

AtMostTwice == \A c \in Clients : times[c] <= Attempts(call[c])

\* The details that list_movies and movie_details collect are those of the
\* movie they asked for, and all of them when the call succeeds, though the
\* reader of the line before may have swallowed some (read_line).
DetailsAreOwn ==
  \A c \in Clients : call[c].op \in {"list_movies", "movie_details"} =>
    /\ \A i \in DOMAIN call[c].got : call[c].got[i] = call[c].cmd.arg
    /\ call[c].ans = Ok =>
         /\ Len(call[c].got) = DetailLines
         /\ call[c].op = "list_movies" => call[c].cmd.arg = Movies

\* Every call ends, however its device behaves: the drivers' reads have time
\* limits and their loops have bounds.  The exceptions: an Envy that never stops
\* talking, and HTTP requests that are not answered, all of the receiver's and
\* the one for the list of movies.
CallsEnd ==
  \A c \in Clients :
    \/ []<>(call[c].pc = "idle")
    \/ driver = "envy" /\ []<><<ByHand \/ \E k \in Keys : Chatter(k)>>_vars
    \/ <>[](Unlimited(c) /\ call[c].pc = "read" /\ conn[c].up = "open")
=============================================================================

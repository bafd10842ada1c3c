------------------------------- MODULE Lutron -------------------------------
(***************************************************************************)
(* The driver of the Lutron RadioRA 2 main repeater (lutron/ra2.rs).  Each *)
(* call of a device opens a telnet session of its own, logs in, sends one  *)
(* command and reads until the prompt; a monitor thread keeps a session    *)
(* open and forwards level changes through a bounded channel.  All         *)
(* sessions of the repeater are told of all changes, so what a call reads  *)
(* may be about another call.                                              *)
(*                                                                         *)
(* A read returns what has arrived so far: a part of what was sent, cut    *)
(* between two lines.  The prompt is an empty line and the words after it, *)
(* so a read may end between the two.                                      *)
(***************************************************************************)
EXTENDS Naturals, SequencesExt

CONSTANTS
  Lights,      \* the outputs
  Alike,       \* Alike[l]: the outputs whose id begins with the digits of l's
  Levels,      \* the percentages in use
  Others,      \* the values of lines that do not report levels
  Conns,       \* calls of devices, each with a session of its own
  Monitor,     \* the session of the monitor thread
  Monitored,   \* whether the program has called monitor_output
  Asked,       \* the calls that may be made: [op, light, arg]
  Capacity,    \* of the channel
  MaxUnderWay, \* bound: nobody uses a wall control while more lines are under way
  None

Sessions == Conns \cup {Monitor}
Ops      == {"turn_on", "turn_off", "set_percent", "check_is_on", "check_percent"}

ASSUME LutronAssumption ==
  /\ Monitor \notin Conns /\ Monitored \in BOOLEAN
  /\ Alike \in [Lights -> SUBSET Lights] /\ \A l \in Lights : l \in Alike[l]
  /\ Levels \subseteq Nat /\ {0, 33} \subseteq Levels /\ Others \subseteq Nat
  /\ Asked \subseteq [op : Ops, light : Lights, arg : Levels]
  /\ Capacity \in Nat \ {0}

VARIABLES
  level,       \* level[l]: the brightness of output l
  link,        \* link[s]: the repeater's side of session s, and what is under way
  side,        \* side[s]: where the driver stands in session s
  silent,      \* the sessions whose login ended without the prompt
  call,        \* call[c]: what call c asks for, has read, and returns
  batch,       \* events the monitor has read and not yet sent
  channel,     \* events in the channel
  receiver     \* somebody holds the receiving end of the channel

lvars == <<level, link, side, silent, call, batch, channel, receiver>>

-----------------------------------------------------------------------------
(* What goes over the wire.                                                *)

Prompt(k)    == [kind |-> k, light |-> None, val |-> None]
LevelLine(l, v) == [kind |-> "level", light |-> l, val |-> v]
OtherLine(l, v) == [kind |-> "other", light |-> l, val |-> v]
Ready        == <<Prompt("blank"), Prompt("GNET>")>>
Has(chunk, k) == \E i \in DOMAIN chunk : chunk[i].kind = k
Output(x)    == x.kind \in {"level", "other"}

\* Device's VirtualDevice implementation: what each call sends.
Command(r) ==
  CASE r.op = "turn_on"     -> [kind |-> "set", light |-> r.light, val |-> 33]
    [] r.op = "turn_off"    -> [kind |-> "set", light |-> r.light, val |-> 0]
    [] r.op = "set_percent" -> [kind |-> "set", light |-> r.light, val |-> r.arg]
    [] r.op \in {"check_is_on", "check_percent"}
                            -> [kind |-> "get", light |-> r.light, val |-> None]

IsSet(r) == Command(r).kind = "set"

Closed == [srv |-> "closed", up |-> <<>>, down |-> <<>>]
Fresh  == [srv |-> "login", up |-> <<>>, down |-> <<Prompt("login:")>>]

\* The rest of a link when n lines have been read, or a line written.
Read(k, n)  == [k EXCEPT !.down = SubSeq(@, n + 1, Len(@))]
Write(k, x) == IF k.srv = "closed" THEN k ELSE [k EXCEPT !.up = Append(@, x)]

-----------------------------------------------------------------------------
(* The repeater.                                                           *)

Ended(s) == side[s] \in {"ok", "err"}

\* All sessions that are logged in are told lines.
Told(lines) ==
  [s \in Sessions |->
     IF link[s].srv \in {"greeting", "ready"} /\ ~Ended(s)
     THEN [link[s] EXCEPT !.down = @ \o lines] ELSE link[s]]

\* What is reported when output l changes to level v.
Reports(l, v) ==
  {<<LevelLine(l, v)>>} \cup {<<OtherLine(l, o), LevelLine(l, v)>> : o \in Others}

\* Session s takes its next line, and answers x, in the links of all.
Takes(s, all, srv, x) ==
  link' = [all EXCEPT ![s].up = Tail(@), ![s].srv = srv,
                      ![s].down = IF Ended(s) THEN @ ELSE @ \o x]

AskPassword(s) ==
  /\ link[s].srv = "login" /\ link[s].up # <<>>
  /\ Takes(s, link, "password", <<Prompt("password:")>>)
  /\ UNCHANGED level

CheckPassword(s) ==
  /\ link[s].srv = "password" /\ link[s].up # <<>>
  /\ IF Head(link[s].up) = Prompt("upw")
     THEN Takes(s, link, "greeting", <<>>)
     ELSE Takes(s, link, "login", <<Prompt("bad login"), Prompt("login:")>>)
  /\ UNCHANGED level

Greet(s) ==
  /\ link[s].srv = "greeting"
  /\ Takes(s, [link EXCEPT ![s].up = <<None>> \o @], "ready", Ready)
  /\ UNCHANGED level

Execute(s) ==
  /\ link[s].srv = "ready" /\ link[s].up # <<>>
  /\ LET x == Head(link[s].up) IN
       \/ Takes(s, link, "ready", <<Prompt("~ERROR")>> \o Ready) /\ UNCHANGED level
       \/ /\ x.kind = "set" /\ level' = [level EXCEPT ![x.light] = x.val]
          /\ \E r \in Reports(x.light, x.val) : Takes(s, Told(r), "ready", Ready)
       \/ /\ x.kind = "get" /\ UNCHANGED level
          /\ Takes(s, link, "ready", <<LevelLine(x.light, level[x.light])>> \o Ready)

Repeater(s) ==
  /\ AskPassword(s) \/ CheckPassword(s) \/ Greet(s) \/ Execute(s)
  /\ UNCHANGED <<side, silent, call, batch, channel, receiver>>

\* Somebody uses a wall control.
ByHand(l) ==
  /\ \A s \in Sessions : Len(link[s].down) <= MaxUnderWay
  /\ \E v \in Levels \ {level[l]} :
       /\ level' = [level EXCEPT ![l] = v]
       /\ \E r \in Reports(l, v) : link' = Told(r)
  /\ UNCHANGED <<side, silent, call, batch, channel, receiver>>

\* The repeater closes a session; what is on the way to the driver arrives.
Break(s) ==
  /\ link[s].srv # "closed" /\ ~Ended(s)
  /\ link' = [link EXCEPT ![s].srv = "closed", ![s].up = <<>>]
  /\ UNCHANGED <<level, side, silent, call, batch, channel, receiver>>

-----------------------------------------------------------------------------
(* The driver: login.                                                      *)

\* Mutant: the session of a call stays open.
EndUnclosed(s, k, o) ==
  /\ side' = [side EXCEPT ![s] = IF s = Monitor THEN "sleep" ELSE o]
  /\ link' = [link EXCEPT ![s] = IF s = Monitor THEN Closed ELSE k]

\* Session s ends with outcome o, and the driver closes it.
End(s, k, o) ==
  /\ side' = [side EXCEPT ![s] = IF s = Monitor THEN "sleep" ELSE o]
  /\ link' = [link EXCEPT ![s] = IF s = Monitor THEN Closed ELSE [k EXCEPT !.down = <<>>]]

\* The monitor thread has slept and starts again.
Wake ==
  /\ side[Monitor] = "sleep"
  /\ side' = [side EXCEPT ![Monitor] = "connect"]
  /\ UNCHANGED <<level, link, silent, call, batch, channel, receiver>>

\* The repeater may be out of reach.
Connect(s) ==
  /\ side[s] = IF s = Monitor THEN "connect" ELSE "idle"
  /\ \/ /\ side' = [side EXCEPT ![s] = "login"]
        /\ link' = [link EXCEPT ![s] = Fresh]
        /\ silent' = silent \ {s}
        /\ IF s = Monitor THEN UNCHANGED call
           ELSE \E r \in Asked : call' = [call EXCEPT ![s].req = r]
     \/ End(s, Closed, "err") /\ UNCHANGED <<silent, call>>
  /\ UNCHANGED <<level, batch, channel, receiver>>

\* The login is over: a call sends its command (send_command).
Proceed(s, k) ==
  IF s = Monitor
  THEN side' = [side EXCEPT ![s] = "listen"] /\ link' = [link EXCEPT ![s] = k]
  ELSE side' = [side EXCEPT ![s] = "reply"]
       /\ link' = [link EXCEPT ![s] = Write(k, Command(call[s].req))]

ReadLogin(s) ==
  /\ side[s] = "login"
  /\ \E n \in 1..Len(link[s].down) :
       LET chunk == SubSeq(link[s].down, 1, n)
           k == Read(link[s], n) IN
       IF Has(chunk, "GNET>") THEN Proceed(s, k)
       ELSE IF chunk = <<Prompt("login:")>> \/ chunk = <<Prompt("password:")>>
       THEN /\ link' = [link EXCEPT ![s] =
                          Write(k, Prompt(IF Has(chunk, "login:") THEN "uid" ELSE "upw"))]
            /\ UNCHANGED side
       ELSE IF Output(Head(chunk)) \/ Head(chunk).kind = "~ERROR"
       THEN link' = [link EXCEPT ![s] = k] /\ UNCHANGED side
       ELSE End(s, k, "err")
  /\ UNCHANGED <<level, silent, call, batch, channel, receiver>>

\* A read that times out, or returns something else than data, ends the login
\* as if it had succeeded.
LoginSilence(s) ==
  /\ side[s] = "login"
  /\ silent' = silent \cup {s}
  /\ Proceed(s, link[s])
  /\ UNCHANGED <<level, call, batch, channel, receiver>>

\* The repeater has closed the session: reads and writes fail.
Lost(s) ==
  /\ side[s] \in {"login", "reply", "listen"}
  /\ link[s].srv = "closed" /\ link[s].down = <<>>
  /\ End(s, link[s], "err")
  /\ UNCHANGED <<level, silent, call, batch, channel, receiver>>

-----------------------------------------------------------------------------
(* The driver: a call's command and its reply.                             *)

\* Mutant: whatever is reported is kept, whichever output it is about.
AnyReport(l, chunk) == Output(Head(chunk))

\* output_get keeps what was read if it begins like a report about its output.
Kept(l, chunk) == Output(Head(chunk)) /\ Head(chunk).light \in Alike[l]

\* What call c has kept: no line, one with a number at its end, or more (2),
\* of which no number can be read.
Hears(c, chunk) ==
  LET single == \A i \in DOMAIN chunk : i = 1 \/ chunk[i].kind = "blank" IN
  IF ~Kept(call[c].req.light, chunk) THEN UNCHANGED call
  ELSE IF call[c].lines = 0 /\ single
  THEN call' = [call EXCEPT ![c].lines = 1, ![c].got = Head(chunk).val]
  ELSE call' = [call EXCEPT ![c].lines = 2]

\* What output_set or output_get makes of it; None is Err.
Result(c) ==
  IF IsSet(call[c].req) THEN 0 ELSE IF call[c].lines = 1 THEN call[c].got ELSE None

\* Mutant: whatever comes first is the answer.
AnythingEnds(chunk) == chunk # <<>>

\* The prompt, or as much of it as looks empty.
ReplyEnds(chunk) == Has(chunk, "GNET>") \/ \A i \in DOMAIN chunk : chunk[i].kind = "blank"

ReadReply(c) ==
  /\ side[c] = "reply"
  /\ \E n \in 1..Len(link[c].down) :
       LET chunk == SubSeq(link[c].down, 1, n)
           k == Read(link[c], n) IN
       IF ReplyEnds(chunk)
       THEN /\ End(c, k, IF Result(c) = None THEN "err" ELSE "ok")
            /\ call' = [call EXCEPT ![c].got = Result(c), ![c].lines = 0]
       ELSE IF Has(chunk, "~ERROR")
       THEN End(c, k, "err") /\ UNCHANGED call
       ELSE /\ Hears(c, chunk)
            /\ link' = [link EXCEPT ![c] = k]
            /\ UNCHANGED side
  /\ UNCHANGED <<level, silent, batch, channel, receiver>>

\* Mutant: only a session that was closed ends the wait.
WaitsUntilClosed(c) == link[c].srv = "closed"

\* Every read of a call has a time limit.
TimesOut(c) == TRUE

ReplySilence(c) ==
  /\ side[c] = "reply" /\ TimesOut(c)
  /\ End(c, link[c], "err")
  /\ UNCHANGED <<level, silent, call, batch, channel, receiver>>

-----------------------------------------------------------------------------
(* The driver: the monitor thread (monitor_output).                        *)

\* Mutant: only the first line of what was read is looked at.
FirstEvent(chunk) == IF Head(chunk).kind = "level" THEN <<Head(chunk)>> ELSE <<>>

\* parse_output_event_line over the lines of what was read.
Events(chunk) ==
  LET levels   == {i \in DOMAIN chunk : chunk[i].kind = "level"}
      Place(i) == Cardinality({j \in levels : j <= i}) IN
  [n \in 1..Cardinality(levels) |-> chunk[CHOOSE i \in levels : Place(i) = n]]

ReadEvents ==
  /\ side[Monitor] = "listen"
  /\ \E n \in 1..Len(link[Monitor].down) :
       /\ batch' = Events(SubSeq(link[Monitor].down, 1, n))
       /\ link' = [link EXCEPT ![Monitor] = Read(@, n)]
  /\ side' = [side EXCEPT ![Monitor] = IF batch' = <<>> THEN "listen" ELSE "send"]
  /\ UNCHANGED <<level, silent, call, channel, receiver>>


Room == Len(channel) < Capacity

\* The thread waits while the channel is full.
SendEvent ==
  /\ side[Monitor] = "send" /\ receiver /\ Room
  /\ channel' = Append(channel, Head(batch))
  /\ batch' = Tail(batch)
  /\ side' = [side EXCEPT ![Monitor] = IF batch' = <<>> THEN "listen" ELSE "send"]
  /\ UNCHANGED <<level, link, silent, call, receiver>>

\* Mutant: nobody catches the panic, and the thread ends.
Uncaught == "ended"

\* Where the thread goes on after a panic: catch_unwind, sleep, loop.
Caught == "sleep"

SendPanics ==
  /\ side[Monitor] = "send" /\ ~receiver
  /\ side' = [side EXCEPT ![Monitor] = Caught]
  /\ batch' = <<>>
  /\ link' = [link EXCEPT ![Monitor] = Closed]
  /\ UNCHANGED <<level, silent, call, channel, receiver>>

\* The receiving end of the channel, which the program holds.
ReceiveEvent ==
  /\ receiver /\ channel # <<>>
  /\ channel' = Tail(channel)
  /\ UNCHANGED <<level, link, side, silent, call, batch, receiver>>

DropReceiver ==
  /\ receiver
  /\ receiver' = FALSE /\ channel' = <<>>
  /\ UNCHANGED <<level, link, side, silent, call, batch>>

-----------------------------------------------------------------------------
Init ==
  /\ level = [l \in Lights |-> 0]
  /\ link = [s \in Sessions |-> Closed]
  /\ side = [s \in Sessions |-> IF s = Monitor /\ Monitored THEN "sleep" ELSE "idle"]
  /\ silent = {}
  /\ call = [c \in Conns |-> [req |-> None, lines |-> 0, got |-> None]]
  /\ batch = <<>> /\ channel = <<>> /\ receiver = TRUE

CallRuns(c)  == ReadLogin(c) \/ LoginSilence(c) \/ Lost(c) \/ ReadReply(c) \/ ReplySilence(c)
MonitorRuns  ==
  \/ Wake \/ Connect(Monitor) \/ ReadLogin(Monitor) \/ LoginSilence(Monitor) \/ Lost(Monitor)
  \/ ReadEvents \/ SendEvent \/ SendPanics

Next ==
  \/ \E c \in Conns : Connect(c) \/ CallRuns(c)
  \/ MonitorRuns \/ ReceiveEvent \/ DropReceiver
  \/ \E s \in Sessions : Repeater(s) \/ Break(s)
  \/ \E l \in Lights : ByHand(l)

Spec == Init /\ [][Next]_lvars

\* The threads of the driver run; reads with a time limit end.  Neither the
\* repeater nor the user of the channel has to do anything.
Fairness == WF_lvars(MonitorRuns) /\ \A c \in Conns : WF_lvars(CallRuns(c))

FairSpec == Spec /\ Fairness

-----------------------------------------------------------------------------
(* Properties.                                                             *)

Kinds    == {"login:", "password:", "bad login", "blank", "GNET>", "~ERROR", "level",
             "other", "uid", "upw", "set", "get"}
Line     == [kind : Kinds, light : Lights \cup {None}, val : Nat \cup {None}]
SrvPcs   == {"closed", "login", "password", "greeting", "ready"}
DriverPcs == {"idle", "login", "reply", "ok", "err", "sleep", "connect", "listen", "send", "ended"}

\* The monitor is in its send loop iff it has events left; the channel keeps
\* its capacity; a session that is over has nothing left to read.
TypeOK ==
  /\ level \in [Lights -> Levels]
  /\ link \in [Sessions -> [srv : SrvPcs, up : Seq(Line), down : Seq(Line)]]
  /\ side \in [Sessions -> DriverPcs] /\ silent \subseteq Sessions
  /\ call \in [Conns -> [req : Asked \cup {None}, lines : 0..2, got : Nat \cup {None}]]
  /\ batch \in Seq(Line) /\ (batch = <<>> <=> side[Monitor] # "send")
  /\ channel \in Seq(Line) /\ Len(channel) <= Capacity
  /\ \A s \in Sessions : Ended(s) => link[s].down = <<>>

\* Session s is told of a change.
Notified(s) == link'[s].up = link[s].up /\ Len(link'[s].down) > Len(link[s].down)

\* A call ends, whatever the repeater answers or does not answer, unless it
\* tells the call of changes for ever: the login and the wait for the reply
\* have a time limit for each read (ra2.rs:578, 621), and none of their own.
CallsEnd ==
  \A c \in Conns :
    []<><<Notified(c)>>_lvars \/ (side[c] \in {"login", "reply"} ~> Ended(c))

\* The monitor's attempt to connect and to log in fails.
Fails == side[Monitor] \in {"connect", "login"} /\ side'[Monitor] = "sleep"

\* The monitor thread gets back to its read loop after every error and panic,
\* also when nobody listens to its events any more, unless the repeater
\* refuses it for ever, or tells a session that is not logged in of changes
\* for ever.
MonitorReturns ==
  \/ []<><<Fails>>_lvars \/ []<><<side[Monitor] = "login" /\ Notified(Monitor)>>_lvars
  \/ (Monitored /\ (side[Monitor] # "send" \/ ~receiver)) ~> side[Monitor] = "listen"
=============================================================================

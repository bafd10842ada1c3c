------------------------------- MODULE PjTalk --------------------------------
(* pj_talk.rs: a connection per command.  Most commands, those for the power *)
(* included, are written and not waited for; the others read a header and    *)
(* then the data with one read, which may return a part of it, and finds     *)
(* nothing to return when the projector confirms without data (tag "bare").  *)
(* The projector's state: aux = 1 while it warms up or cools down, set is    *)
(* the picture position.                                                     *)
EXTENDS Exchanges

CommandFor ==
  [turn_on |-> "POWER", turn_off |-> "POWER", check_is_on |-> "POWER?", key |-> "KEY",
   picture_position_set |-> "POSITION", picture_position |-> "POSITION?", set |-> "ITEM"]

Acting == {"POWER", "KEY", "POSITION", "ITEM"}

Argument(a) == IF a.op = "turn_on" THEN 1 ELSE a.arg

First(a) == Ask(a, CommandFor[a.op], Argument(a))
Connected(a) == Proceed(a)

\* set, get and the questions read a response.
Sent(a) == IF a.op \in {"check_is_on", "picture_position", "set"} THEN Await(a) ELSE Done(a, Ok)

\* Mutant: a projector that cools down is on.
CoolingIsOn(v) == v > 0

\* PowerStatus: Standby, Warming (twice), PowerOn, Cooling (twice).
StatusIsOn(v) == v \in {1, 2, 3}

\* n is 1 while a header that no data follow has been read.
Hear(a, l) ==
  IF l.tag = "bare" THEN [a EXCEPT !.n = 1]
  ELSE IF l.tag = "error" \/ (l.tag = "part" /\ a.op # "set") THEN Done(a, Err)
  ELSE CASE a.op = "check_is_on" -> Done(a, IF StatusIsOn(l.val) THEN On ELSE Off)
         [] a.op = "picture_position" -> Done(a, l.val)
         [] OTHER -> Done(a, Ok)

\* The read for the data waits until the projector closes the connection, which
\* is as good as no data, or until it times out.
Broken(a, how) == Done(a, IF a.n = 1 /\ how = "eof" THEN Ok ELSE Err)

\* What one read may make of a line.
Parts(l) == IF l.tag = "ok" THEN {l, Line("part", 0)} ELSE {l}

-----------------------------------------------------------------------------
Statuses(s) ==
  IF s.aux = 0 THEN {IF s.power = On THEN 3 ELSE 0}
  ELSE IF s.power = On THEN {1, 2} ELSE {4, 5}

Switched(s, p) == [s EXCEPT !.power = p, !.aux = IF p = s.power THEN 0 ELSE 1]

\* While it warms up or cools down the projector refuses to be switched, and
\* it takes other commands only when it is on.  It may confirm a setting
\* without data.
Does(cmd, s) ==
  IF cmd.name = "POWER?" THEN {React(s, <<Line("ok", v)>>) : v \in Statuses(s)}
  ELSE IF (IF cmd.name = "POWER" THEN s.aux = 1 ELSE s.power = Off)
  THEN {Refuse(s, <<Line("error", 0)>>)}
  ELSE IF cmd.name = "ITEM" THEN {React(s, <<Line(tag, 0)>>) : tag \in {"ok", "bare"}}
  ELSE {CASE cmd.name = "POWER" -> React(Switched(s, PowerOf(cmd.arg)), <<Line("ok", 0)>>)
          [] cmd.name = "POSITION" -> React([s EXCEPT !.set = cmd.arg], <<Line("ok", 0)>>)
          [] cmd.name = "POSITION?" -> React(s, <<Line("ok", s.set)>>)
          [] OTHER -> React(s, <<Line("ok", 0)>>)}
=============================================================================

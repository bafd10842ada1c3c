------------------------------- MODULE AppleTv -------------------------------
(* appletv.rs: all clones of a Device share one session behind a mutex.  A   *)
(* call keeps the mutex while it connects, if there is no session, and uses  *)
(* the session; after a transport error it connects anew and does its        *)
(* operation once more (with_session).                                       *)
EXTENDS Exchanges

CommandFor ==
  [turn_on |-> "turn_on", turn_off |-> "turn_off", check_is_on |-> "power_state", key |-> "next"]

Acting == {"turn_on", "turn_off", "next"}

First(a) == [a EXCEPT !.pc = "lock"]

\* The mutex is locked; there is a session or not.
Locked(a, session) ==
  IF session THEN AskThere(a, CommandFor[a.op], a.arg) ELSE Ask(a, CommandFor[a.op], a.arg)

Connected(a) == Proceed(a)
Sent(a) == Await(a)

\* An error that the Apple TV reports is no transport error.
Hear(a, l) ==
  Done(a, IF l.tag = "refused" THEN Err
          ELSE IF a.op = "check_is_on" THEN PowerOf(l.val) ELSE Ok)

should_reconnect(how) == how \in {"timeout", "eof", "reset"}

\* Mutant: a broken session is only replaced after a time-out.
BrokenOnTimeout(a, how) ==
  IF how = "timeout" /\ a.n = 0 THEN Ask([a EXCEPT !.n = 1], a.cmd.name, a.arg) ELSE Done(a, Err)

\* Mutant: the repetition may be repeated.
BrokenAgain(a, how) ==
  IF should_reconnect(how) THEN Ask([a EXCEPT !.n = 1], a.cmd.name, a.arg) ELSE Done(a, Err)

\* A failure to connect ends the call and leaves the session as it was.
Broken(a, how) ==
  IF should_reconnect(how) /\ a.n = 0 THEN Ask([a EXCEPT !.n = 1], a.cmd.name, a.arg)
  ELSE Done(a, Err)

-----------------------------------------------------------------------------
Does(cmd, s) ==
  {CASE cmd.name = "turn_on"  -> React([s EXCEPT !.power = On], <<Line("ok", 0)>>)
     [] cmd.name = "turn_off" -> React([s EXCEPT !.power = Off], <<Line("ok", 0)>>)
     [] cmd.name = "power_state" -> React(s, <<Line("ok", Bit(s))>>)
     [] cmd.name = "next"     -> React(s, <<Line("ok", 0)>>)}
  \cup {Refuse(s, <<Line("refused", 0)>>)}
=============================================================================

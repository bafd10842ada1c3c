----------------------------- MODULE Exchanges ------------------------------
(* The words in which the drivers of rustmo-devices are modelled.  A driver  *)
(* serves a call by exchanges with its device: it connects, sends a command, *)
(* and reads until it has what it takes for the answer.  The modules of the  *)
(* drivers say, as operators on the record of a call,                        *)
(*   First(a)      what a call begins with,                                  *)
(*   Connected(a)  what it does on a new connection,                         *)
(*   Sent(a)       what it does once a command is written,                   *)
(*   Hear(a, l)    what it makes of a line l that it reads,                  *)
(*   Broken(a, h)  what it does when the exchange fails: h is "refused" (no  *)
(*                 connection), "timeout", "eof" or "reset";                 *)
(* and Does(cmd, s) is what the device in state s may do with a command.     *)
(* Module Drivers runs them.                                                 *)
EXTENDS Naturals, Sequences

CONSTANTS
  On, Off,       \* VirtualDeviceState
  Ok,            \* the answer of a command, whatever state goes with it
  Err,           \* Err(VirtualDeviceError)
  Panic,         \* the call unwinds
  Unknown,       \* VideoInput::Unknown
  None

Command(name, arg) == [name |-> name, arg |-> arg]
Line(tag, val)     == [tag |-> tag, val |-> val]

\* The record of a call: n and m count retries and lines, got keeps values of
\* lines, cmd is the command under way.
Start(op, arg) ==
  [op |-> op, arg |-> arg, pc |-> "idle", cmd |-> None, n |-> 0, m |-> 0,
   got |-> <<>>, ans |-> None]

\* Send a command on a connection of its own, or on the one there is.
Ask(a, name, arg)     == [a EXCEPT !.pc = "connect", !.cmd = Command(name, arg)]
AskThere(a, name, arg) == [a EXCEPT !.pc = "send", !.cmd = Command(name, arg)]
Await(a)   == [a EXCEPT !.pc = "read"]
Proceed(a) == [a EXCEPT !.pc = "send"]
Done(a, v) == [a EXCEPT !.pc = "return", !.ans = v]

PowerOf(n) == IF n = 1 THEN On ELSE Off
Bit(s)     == IF s.power = On THEN 1 ELSE 0

\* The device takes the command: its new state, its reply to the sender, what
\* it tells all other connections, and whether it hangs up.
React(s, reply)  == [state |-> s, reply |-> reply, tell |-> <<>>, close |-> FALSE, heeded |-> TRUE]
Refuse(s, reply) == [React(s, reply) EXCEPT !.heeded = FALSE]
Announce(s, lines) == [React(s, lines) EXCEPT !.tell = lines]
HangUp(s, reply) == [React(s, reply) EXCEPT !.close = TRUE]
=============================================================================

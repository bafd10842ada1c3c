------------------------------- MODULE Udp203 --------------------------------
(* udp_203.rs: a connection per command, and one read, which is taken for    *)
(* the whole reply although it may return a part of it (tag "part", or "@OK" *)
(* as long as it begins with that), or fill the buffer of 32 bytes ("full"), *)
(* which leaves no room for the final zero.                                  *)
EXTENDS Exchanges

CommandFor ==
  [turn_on |-> "#PON", turn_off |-> "#POF", check_is_on |-> "#QPW", key |-> "#SEL"]

Acting == {"#PON", "#POF", "#SEL"}

First(a) == Ask(a, CommandFor[a.op], a.arg)
Connected(a) == Proceed(a)
Sent(a) == Await(a)

\* Only "@OK ON" is On, and everything else Off.
Hear(a, l) ==
  IF l.tag = "full" THEN Done(a, Panic)
  ELSE IF a.op = "check_is_on" THEN Done(a, IF l = Line("@OK", 1) THEN On ELSE Off)
  ELSE Done(a, IF l.tag = "@OK" THEN Ok ELSE Err)

\* At the end of the stream the read returns an empty text.
Broken(a, how) == IF how = "eof" THEN Hear(a, Line("part", 0)) ELSE Done(a, Err)

\* What one read may make of a line.
Parts(l) ==
  {l} \cup (IF l.tag = "full" THEN {} ELSE {Line("part", 0)})
      \cup (IF l.tag = "@OK" THEN {Line("@OK", 0)} ELSE {})

-----------------------------------------------------------------------------
\* A player that is off refuses all but the commands for its power.
Response(cmd, s) ==
  CASE cmd.name = "#PON" -> React([s EXCEPT !.power = On], <<Line("@OK", 1)>>)
    [] cmd.name = "#POF" -> React([s EXCEPT !.power = Off], <<Line("@OK", 0)>>)
    [] cmd.name = "#QPW" -> React(s, <<Line("@OK", Bit(s))>>)
    [] OTHER -> IF s.power = On THEN React(s, <<Line("@OK", 0)>>)
                ELSE Refuse(s, <<Line("@ER", 0)>>)

\* A player set to tell more (verbose mode) may send 32 bytes and more.
Does(cmd, s) ==
  LET r == Response(cmd, s) IN {r, [r EXCEPT !.reply = <<Line("full", 0)>>]}
=============================================================================

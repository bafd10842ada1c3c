------------------------------ MODULE StrZa5000 ------------------------------
(* str_za5000_es.rs: HTTP requests; a receiver that is off answers with an   *)
(* empty body.  The receiver's state: set is the input, aux = 1 if muted.    *)
(* Input 0 is any that VideoInput has no variant for: the driver reads it as *)
(* Unknown, and set_video_input(Unknown) asks for an input there is not.     *)
EXTENDS Exchanges

\* check_is_on and is_off ask for the input.
CommandFor ==
  [turn_on |-> "power_on", turn_off |-> "power_off", check_is_on |-> "power?",
   volume |-> "volume", get_video_input |-> "power?", set_video_input |-> "power?",
   check_is_muted |-> "power?", toggle_mute |-> "muting"]

Acting == {"power_on", "power_off", "volume", "muting", "set_input"}

First(a) == Ask(a, CommandFor[a.op], a.arg)
Connected(a) == Proceed(a)
Sent(a) == Await(a)

\* is_off answered TRUE.  m is 1 once set_video_input has set the input: the
\* input it then reads is Unknown, the one that was asked for only if that is
\* Unknown too.
WasOff(a) ==
  CASE a.op = "check_is_on"     -> Done(a, Off)
    [] a.op = "get_video_input" -> Done(a, Unknown)
    [] a.op = "set_video_input" -> Done(a, IF a.m = 1 /\ a.arg = 0 THEN Ok ELSE Err)
    [] OTHER                    -> Done(a, Off)

WasOn(a) ==
  CASE a.op = "check_is_on"     -> Done(a, On)
    [] a.op = "get_video_input" -> Ask(a, "input?", 0)
    [] a.op = "set_video_input" /\ a.m = 0 -> Ask(a, "set_input", a.arg)
    [] a.op = "set_video_input" /\ a.m = 1 -> Ask(a, "input?", 0)
    [] OTHER                    -> Ask(a, "mute?", 0)

VariantOf(v) == IF v = 0 THEN Unknown ELSE v

\* Mutant: set_video_input does not look at the input it reads back.
ReadBackAnything(a, v) ==
  IF a.op = "get_video_input" THEN Done(a, VariantOf(v)) ELSE Done(a, Ok)

ReadBack(a, v) ==
  IF a.op = "get_video_input" THEN Done(a, VariantOf(v))
  ELSE Done(a, IF v = a.arg THEN Ok ELSE Err)

\* Where a body is expected, one that is empty, or whose fields are not called
\* _id, _feature and _event_available, cannot be parsed.  n notes it.
Unparsed(a) == Done([a EXCEPT !.n = 1], Err)

Hear(a, l) ==
  CASE a.cmd.name = "power?" -> IF l.tag = "empty" THEN WasOff(a) ELSE WasOn(a)
    [] a.cmd.name = "input?" -> IF l.tag = "input" THEN ReadBack(a, l.val) ELSE Unparsed(a)
    [] a.cmd.name = "mute?"  -> IF l.tag = "mute" THEN Done(a, PowerOf(l.val)) ELSE Unparsed(a)
    [] a.cmd.name = "set_input" -> Ask([a EXCEPT !.m = 1], "power?", 0)
    [] a.cmd.name = "muting" -> Ask(a, "power?", 0)
    [] OTHER -> Done(a, Ok)

\* is_off takes a failure for Off (unwrap_or).
Broken(a, how) ==
  IF a.cmd.name = "power?" /\ a.op # "check_is_on" THEN WasOff(a) ELSE Done(a, Err)

-----------------------------------------------------------------------------
\* Whatever the receiver's packets look like, they are not empty.
Does(cmd, s) ==
  {IF s.power = Off /\ cmd.name \notin {"power_on", "power_off"}
   THEN Refuse(s, <<Line("empty", 0)>>) ELSE
   CASE cmd.name = "power_on"  -> React([s EXCEPT !.power = On], <<Line("done", 0)>>)
     [] cmd.name = "power_off" -> React([s EXCEPT !.power = Off], <<Line("done", 0)>>)
     [] cmd.name = "set_input" -> React([s EXCEPT !.set = IF cmd.arg = 0 THEN @ ELSE cmd.arg],
                                     <<Line("done", 0)>>)
     [] cmd.name = "muting"    -> React([s EXCEPT !.aux = 1 - @], <<Line("done", 0)>>)
     [] cmd.name = "mute?"     -> React(s, <<Line("mute", s.aux)>>)
     [] cmd.name = "volume"    -> React(s, <<Line("done", 0)>>)
     [] OTHER                  -> React(s, <<Line("input", s.set)>>)}
  \cup (IF s.power = On /\ cmd.name \in {"power?", "input?", "mute?"}
        THEN {React(s, <<Line("other", 0)>>)} ELSE {})
=============================================================================

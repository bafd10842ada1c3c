-------------------------------- MODULE Avm70 --------------------------------
(* avm70.rs: a connection per exchange.  The receiver tells every connection *)
(* of all changes, in the same form as its replies, so the driver reads until *)
(* a line begins as expected (validate_response).                            *)
(* The receiver's state: set is the input, aux its CEC setting.              *)
EXTENDS Exchanges

CONSTANTS
  RetryLimit,    \* other lines that are skipped (10 in the code)
  Inputs         \* number of inputs

CommandFor ==
  [turn_on |-> "Z1POW1", turn_off |-> "Z1POW0", check_is_on |-> "Z1POW?",
   change_input |-> "Z1INP", current_input |-> "Z1INP?", set_cec |-> "GCCECC",
   get_volume |-> "Z1VOL?", set_volume |-> "Z1PVOL", volume_up |-> "Z1VUP",
   inputs |-> "ICN?"]

Acting == {"Z1POW1", "Z1POW0", "Z1INP", "GCCECC", "Z1PVOL", "Z1VUP"}

InputTag == <<"IS1IN", "IS2IN", "IS3IN">>

\* What the next line has to begin with; m counts the lines taken.
Expected(a) ==
  CASE a.op \in {"turn_off", "check_is_on"} -> "Z1POW"
    [] a.op \in {"change_input", "current_input"} -> "Z1INP"
    [] a.op = "set_cec" -> "GCCECC"
    [] a.op = "get_volume" -> IF a.m = 0 THEN "Z1VOL" ELSE "Z1PVOL"
    [] a.op = "volume_up" -> "Z1VOL"
    [] a.op = "set_volume" -> IF a.m = 0 THEN "Z1PVOL" ELSE "Z1VOL"
    [] a.op = "inputs" -> IF a.m = 0 THEN "ICN" ELSE InputTag[a.m]

First(a) == Ask(a, CommandFor[a.op], a.arg)
Connected(a) == Proceed(a)
Sent(a) == IF a.op = "turn_on" THEN Done(a, Ok) ELSE Await(a)
Broken(a, how) == Done(a, Err)

Taken(a, v) ==
  LET b == [a EXCEPT !.m = @ + 1, !.n = 0] IN
  CASE a.op = "check_is_on"   -> Done(a, PowerOf(v))
    [] a.op = "current_input" -> Done(a, v)
    [] a.op = "set_cec"       -> Done(a, IF v = a.arg THEN Ok ELSE Err)
    [] a.op = "get_volume"    -> IF a.m = 0 THEN Ask(b, "Z1PVOL?", 0) ELSE Done(a, Ok)
    [] a.op = "set_volume"    -> IF a.m = 0 THEN b ELSE Done(a, Ok)
    [] a.op = "inputs"        -> IF a.m = Inputs THEN Done(a, Ok) ELSE b
    [] OTHER                  -> Done(a, Ok)

\* Mutant: the lines that are skipped are not counted.
SkipUncounted(a) == a

\* Mutant: one line more is skipped.
SkipOneMore(a) == IF a.n > RetryLimit THEN Done(a, Err) ELSE [a EXCEPT !.n = @ + 1]

Skip(a) == IF a.n = RetryLimit THEN Done(a, Err) ELSE [a EXCEPT !.n = @ + 1]

Hear(a, l) ==
  IF l.tag = Expected(a) THEN Taken(a, l.val)
  ELSE IF l.tag = "!" THEN Done(a, Err)
  ELSE Skip(a)

-----------------------------------------------------------------------------
Changed(s, t, lines) == IF s = t THEN React(s, lines) ELSE Announce(t, lines)

\* Asked for the input it is on, the receiver is silent.
Reaction(cmd, s) ==
  CASE cmd.name = "Z1POW1" -> Changed(s, [s EXCEPT !.power = On], <<Line("Z1POW", 1)>>)
    [] cmd.name = "Z1POW0" -> Changed(s, [s EXCEPT !.power = Off], <<Line("Z1POW", 0)>>)
    [] cmd.name = "Z1POW?" -> React(s, <<Line("Z1POW", Bit(s))>>)
    [] cmd.name = "Z1INP"  -> IF s.set = cmd.arg THEN Refuse(s, <<>>)
                              ELSE Announce([s EXCEPT !.set = cmd.arg], <<Line("Z1INP", cmd.arg)>>)
    [] cmd.name = "Z1INP?" -> React(s, <<Line("Z1INP", s.set)>>)
    [] cmd.name = "GCCECC" -> React([s EXCEPT !.aux = cmd.arg], <<Line("GCCECC", cmd.arg)>>)
    [] cmd.name = "Z1PVOL" -> Announce(s, <<Line("Z1PVOL", 0), Line("Z1VOL", 0)>>)
    [] cmd.name = "Z1VUP"  -> Announce(s, <<Line("Z1VOL", 0)>>)
    [] cmd.name = "Z1PVOL?" -> React(s, <<Line("Z1PVOL", 0)>>)
    [] cmd.name = "Z1VOL?" -> React(s, <<Line("Z1VOL", 0)>>)
    [] cmd.name = "ICN?"   -> React(s, <<Line("ICN", Inputs)>>
                                       \o [i \in 1..Inputs |-> Line(InputTag[i], 0)])

\* A receiver that is off refuses all but what is about its power.
Does(cmd, s) ==
  {IF s.power = On \/ cmd.name \in {"Z1POW1", "Z1POW0", "Z1POW?"} THEN Reaction(cmd, s)
   ELSE Refuse(s, <<Line("!", 0)>>)}

\* Somebody operates the receiver; it tells all connections.
Touched(s) ==
  {Announce([s EXCEPT !.power = PowerOf(1 - Bit(s))], <<Line("Z1POW", 1 - Bit(s))>>)}
    \cup {Announce([s EXCEPT !.set = i], <<Line("Z1INP", i)>>) : i \in (1..Inputs) \ {s.set}}
    \cup {React([s EXCEPT !.aux = 1 - @], <<>>)}
=============================================================================

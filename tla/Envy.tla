-------------------------------- MODULE Envy ---------------------------------
(* envy.rs: a connection per exchange, on which the device speaks first.     *)
(* The device's state: set is the aspect ratio, in hundredths.               *)
EXTENDS Exchanges, FiniteSets, FiniteSetsExt

CommandFor ==
  [turn_off |-> "PowerOff", check_is_on |-> "HeartBeat", standby |-> "Standby",
   aspect_ratio |-> "GetAspectRatio", get_nearest_aspect_ratio |-> "GetAspectRatio",
   custom_zoom |-> "ChangeOption"]

Acting == {"PowerOff", "Standby", "ChangeOption", "WAKE"}

\* expect_response.
ExpectsResponse(a) == a.op \in {"standby", "aspect_ratio", "get_nearest_aspect_ratio"}

\* power_on sends three datagrams, the others connect.  m is 0 until the
\* welcome has been read, 1 before and 2 after the line OK.
First(a) == IF a.op = "turn_on" THEN [a EXCEPT !.pc = "wake", !.cmd = Command("WAKE", 0)]
            ELSE Ask(a, CommandFor[a.op], a.arg)
Connected(a) == Await(a)
Sent(a) == Await(a)

\* The datagram was sent, or could not be: one that was sent will do.
Woken(a, sent) ==
  LET b == [a EXCEPT !.n = @ + 1, !.m = IF sent THEN 1 ELSE @] IN
  IF b.n < 3 THEN b ELSE Done(b, IF b.m = 1 THEN Ok ELSE Err)

KnownRatios == {119, 133, 137, 143, 166, 177, 185, 200, 220, 235, 240, 255, 266, 276}

\* The index before the place where v belongs: below 119 it underflows.
nearest_aspect_ratio_int(v) ==
  LET below == {r \in KnownRatios : r <= v} IN
  IF below = {} THEN Panic ELSE Max(below)

\* The last line read is the response.  When it is not about the aspect ratio,
\* it has too few words ("note"), or its fourth is no number ("words").
Responded(a) ==
  CASE a.op = "check_is_on" -> On
    [] a.op = "aspect_ratio" -> IF a.got = <<>> THEN Panic ELSE a.got[1].val
    [] a.op = "get_nearest_aspect_ratio" ->
         IF a.got = <<>> THEN Panic
         ELSE IF a.got[1].tag = "note" THEN Panic
         ELSE IF a.got[1].tag = "words" THEN Err
         ELSE nearest_aspect_ratio_int(a.got[1].val)
    [] OTHER -> Ok

Welcomed(a) == Proceed([a EXCEPT !.m = 1])

HearReply(a, l) ==
  IF l.tag = "OK" THEN (IF ExpectsResponse(a) THEN [a EXCEPT !.m = 2] ELSE Done(a, Responded(a)))
  ELSE IF l.tag = "ERROR" THEN Done(a, Err)
  ELSE LET b == [a EXCEPT !.got = <<l>>] IN
       IF a.m = 2 THEN Done(b, Responded(b)) ELSE b

Hear(a, l) == IF a.m = 0 THEN Welcomed(a) ELSE HearReply(a, l)

\* The end of the stream is an empty welcome, or the end of the loop.
Broken(a, how) ==
  IF how # "eof" THEN Done(a, Err)
  ELSE IF a.m = 0 THEN Welcomed(a) ELSE Done(a, Responded(a))

-----------------------------------------------------------------------------
\* Going to standby or off, the device hangs up, perhaps before it has replied.
Does(cmd, s) ==
  CASE cmd.name = "WAKE" -> {React([s EXCEPT !.power = On], <<>>)}
    [] cmd.name \in {"PowerOff", "Standby"} ->
         {HangUp([s EXCEPT !.power = Off], r) : r \in {<<>>, <<Line("OK", 0)>>}}
    [] cmd.name = "GetAspectRatio" -> {React(s, <<Line("OK", 0), Line("ratio", s.set)>>)}
    [] cmd.name = "HeartBeat" -> {React(s, <<Line("OK", 0)>>)}
    [] OTHER -> {React(s, <<Line("OK", 0)>>), Refuse(s, <<Line("ERROR", 0)>>)}
=============================================================================

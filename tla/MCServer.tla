------------------------------ MODULE MCServer ------------------------------
(* Two lamps and their group; an SSDP listener, a handler of the Hue       *)
(* bridge, one of a device's own port, and a user who adds the devices.    *)
EXTENDS Server, TLC

CONSTANTS ssdp, hue, own, user

MCKind    == SubSeq(<<"plain", "plain", "group">>, 1, N)
LiveKind  == <<"plain", "instant">>
MCMembers == SubSeq(<< <<>>, <<>>, <<1, 2>> >>, 1, N)

Req(kind, at, on, bri) == [kind |-> kind, at |-> at, on |-> on, bri |-> bri]

MCWork ==
  [t \in Threads |->
     CASE t = ssdp -> {Req("search_hue", 0, None, None)}
       [] t = hue  -> {Req("lights", 0, None, None), Req("state", 1, On, 100)}
       [] t = own  -> {Req("get", 3, None, None), Req("set", 1, Off, None),
                       Req("own_state", 3, None, 1), Req("own_info", 3, None, None),
                       Req("own_events", 2, None, None)}
       [] t = user -> {Req("add", 0, None, None)}]

\* The bridge is asked for a light that hangs, and another device for itself.
LiveWork ==
  [t \in Threads |->
     CASE t = ssdp -> {Req("search_hue", 0, None, None)}
       [] t = hue  -> {Req("light", 1, None, None)}
       [] t = own  -> {Req("set", 2, On, None)}
       [] t = user -> {Req("add", 0, None, None)}]
=============================================================================

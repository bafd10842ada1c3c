--------------------------- MODULE LutronHistory ---------------------------
(***************************************************************************)
(* Lutron with history variables, for the properties that relate what the  *)
(* driver reports to what the repeater did.                                *)
(***************************************************************************)
EXTENDS Lutron

VARIABLES
  seen,        \* seen[c]: the levels that the outputs c may read had during c
  strange,     \* strange[c]: what lines of other actions about them told c
  taken,       \* calls whose command the repeater has taken as a command
  misread,     \* calls whose command it has taken for a name or password
  told,        \* told[l]: the last level received from the channel, or None
  changed      \* outputs that have changed while the monitor listened

history == <<seen, strange, taken, misread, told, changed>>

\* The repeater takes the next line of session c, in one of the states.
TakesLine(c, states) ==
  /\ link[c].srv \in states /\ link'[c].srv # "closed"
  /\ Len(link'[c].up) < Len(link[c].up)

\* The lines of other actions that are under way to call c.
StrangeLines(c) ==
  {x \in ToSet(link[c].down) : x.kind = "other" /\ x.light \in Alike[call[c].req.light]}

Remembered ==
  /\ seen' = [c \in Conns |->
       IF side'[c] \notin {"login", "reply"} THEN seen[c]
       ELSE seen[c] \cup {level'[l] : l \in Alike[call'[c].req.light]}]
  /\ strange' = [c \in Conns |->
       IF side'[c] \notin {"login", "reply"} THEN strange[c]
       ELSE strange[c] \cup {x.val : x \in StrangeLines(c)'}]
  /\ taken' = taken \cup {c \in Conns : TakesLine(c, {"ready"})}
  /\ misread' = misread \cup {c \in Conns :
       TakesLine(c, {"login", "password"}) /\ Head(link[c].up).kind \in {"set", "get"}}
  /\ told' = IF channel # <<>> /\ channel' = Tail(channel) /\ receiver'
             THEN [told EXCEPT ![Head(channel).light] = Head(channel).val] ELSE told
  /\ changed' = IF side[Monitor] \notin {"listen", "send"} \/ link[Monitor].srv \notin {"greeting", "ready"}
                THEN {} ELSE changed \cup {l \in Lights : level'[l] # level[l]}

HInit ==
  /\ Init
  /\ seen = [c \in Conns |-> {}] /\ strange = [c \in Conns |-> {}] /\ taken = {} /\ misread = {}
  /\ told = [l \in Lights |-> None] /\ changed = {}

HNext == Next /\ Remembered
HSpec == HInit /\ [][HNext]_<<lvars, history>>
HFairSpec == HSpec /\ Fairness

-----------------------------------------------------------------------------
(* Properties.                                                             *)

\* output_set returns Ok only if the repeater has taken its command, or will
\* unless the session breaks, after a login that timed out; and never if the
\* command was taken for a name or a password.
OkMeansHeard ==
  \A c \in Conns :
    (side[c] = "ok" /\ IsSet(call[c].req)) => c \notin misread /\ (c \in taken \/ c \in silent)

\* A level that output_get returns is one that an output whose id begins with
\* the same digits had during the call, or comes from a line of another action
\* about such an output that the session was told meanwhile (see
\* GetReadsLevelLines): never from a line about another output, from two lines
\* at once, or from before the call.
GetIsCurrent ==
  \A c \in Conns :
    (side[c] = "ok" /\ ~IsSet(call[c].req)) => call[c].got \in seen[c] \cup strange[c]

\* When the monitor has caught up, whoever receives its events knows the level
\* of every output that has changed since it began to listen.
WatcherKnows ==
  (/\ side[Monitor] = "listen" /\ link[Monitor].srv = "ready"
   /\ link[Monitor].down = <<>> /\ channel = <<>> /\ receiver)
  => \A l \in changed : told[l] = level[l]

\* ra2.rs:733, ignores_non_level_output_events: lines of another action than 1
\* are not levels.  No level that output_get returns comes from one.
GetReadsLevelLines ==
  \A c \in Conns : (side[c] = "ok" /\ ~IsSet(call[c].req)) => call[c].got \notin Others
=============================================================================

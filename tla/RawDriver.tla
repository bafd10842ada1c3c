------------------------------ MODULE RawDriver ------------------------------
(* What callers of a driver may rely on, whatever happens on the network:    *)
(* the abstract specification that module Drivers implements.  The state of  *)
(* the device changes at any time; commands of calls may be what changes it. *)
(*   confirmed  Ok means that the command took effect during the call;       *)
(*   query      an answer was true at some moment of the call, or is the     *)
(*              vague answer that stands for "cannot tell";                  *)
(*   checked    Ok means that the setting asked for was seen during the call *)
(*   sent       nothing: Ok only means that the command was sent.            *)
(* A plain driver in VirtualDevices is one whose commands are confirmed and  *)
(* whose check is a query without a vague answer.                            *)
EXTENDS Naturals

CONSTANTS
  Clients,         \* the threads that make calls
  Requests,        \* what they may ask for, records with a field arg
  States,          \* the states of the device
  Class(_),        \* Class(q): "confirmed", "query", "checked" or "sent"
  Reading(_, _),   \* Reading(q, s): the answer to q that is true in state s
  Vague(_),        \* the vague answer to q
  Answers,         \* everything a call may return
  Ok, Err, Panic, None

VARIABLES
  state,           \* the state of the device
  doing            \* doing[c]: the call of c, None if there is none

vars == <<state, doing>>

Failures == {Err, Panic}

\* seen: the true answers since the call began; took: its command took effect.
Opened(q) == [req |-> q, seen |-> {Reading(q, state)}, took |-> FALSE, ans |-> None]

Open(c) == IF doing[c] = None THEN FALSE ELSE doing[c].ans = None

Promised(d, a) ==
  CASE Class(d.req) = "confirmed" -> d.took
    [] Class(d.req) = "query"     -> a \in d.seen \cup {Vague(d.req)}
    [] Class(d.req) = "checked"   -> d.req.arg \in d.seen
    [] Class(d.req) = "sent"      -> TRUE

Begin(c) ==
  /\ UNCHANGED state
  /\ doing[c] = None
  /\ \E q \in Requests : doing' = [doing EXCEPT ![c] = Opened(q)]

\* The device changes, by the command of the call of by or for other reasons.
Change(by) ==
  /\ state' \in States
  /\ doing' = [c \in Clients |->
       IF Open(c)
       THEN [doing[c] EXCEPT !.seen = @ \cup {Reading(doing[c].req, state')},
                             !.took = @ \/ c = by]
       ELSE doing[c]]

Answer(c) ==
  /\ UNCHANGED state
  /\ Open(c)
  /\ \E a \in Answers :
       /\ a \in Failures \/ Promised(doing[c], a)
       /\ doing' = [doing EXCEPT ![c].ans = a]

End(c) ==
  /\ UNCHANGED state
  /\ doing[c] # None /\ ~Open(c)
  /\ doing' = [doing EXCEPT ![c] = None]

Init == state \in States /\ doing = [c \in Clients |-> None]

\* The first conjunct spares TLC the others for the many steps of a driver
\* that do nothing here.
Next ==
  /\ vars' # vars
  /\ \/ \E c \in Clients : Begin(c) \/ Answer(c) \/ End(c)
     \/ \E by \in Clients \cup {None} : Change(by)

Spec == Init /\ [][Next]_vars
=============================================================================

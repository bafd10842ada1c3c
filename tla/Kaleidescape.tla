---------------------------- MODULE Kaleidescape ----------------------------
(* kscp.rs: every exchange has a connection of its own, except those for the *)
(* details of movies.  The sequence number is always 1 and the status of a   *)
(* reply is cut off (read_line), so any line counts as the reply.            *)
(* list_movies begins with an HTTP request for the list (GET_MOVIES), which  *)
(* is answered in standby too, or with an error status.                      *)
(* The player's state: set is the highlighted movie, aux = 1 if its details  *)
(* page is shown.                                                            *)
EXTENDS Exchanges

CONSTANTS
  Tries,         \* retries of each loop of play_movie (30 in the code)
  Movies,        \* list_movies asks for the movies 1 .. Movies
  DetailLines    \* lines of details of a movie

CommandFor ==
  [turn_on |-> "LEAVE_STANDBY", turn_off |-> "ENTER_STANDBY",
   check_is_on |-> "GET_DEVICE_POWER_STATE", key |-> "KEY",
   highlighted_section |-> "GET_HIGHLIGHTED_SELECTION",
   play_movie |-> "SHOW_CONTROLLER_DETAILS",
   movie_details |-> "GET_CONTENT_DETAILS", list_movies |-> "GET_MOVIES"]

Acting == {"LEAVE_STANDBY", "ENTER_STANDBY", "KEY", "PLAY"}

First(a) == Ask(a, CommandFor[a.op], a.arg)
Connected(a) == Proceed(a)
Sent(a) == Await(a)
Broken(a, how) == Done(a, Err)

\* ureq::get has no time limit.
Unlimited(a) == a.op = "list_movies" /\ a.cmd.name = "GET_MOVIES"

\* play_movie: the outer loop waits for the details page, the inner one for
\* the movie to be highlighted.
Again(a) ==
  IF a.n + 1 = Tries THEN Done(a, Err)
  ELSE Ask([a EXCEPT !.n = @ + 1, !.m = 0], "GET_UI_STATE", 0)

\* Mutant: the details page is enough.
PlayDetails(a, l) == Ask(a, "PLAY", 0)

PlayIfSelected(a, l) ==
  IF l.val = a.arg THEN Ask(a, "PLAY", 0)
  ELSE IF a.m + 1 = Tries THEN Again(a)
  ELSE Ask([a EXCEPT !.m = @ + 1], "GET_HIGHLIGHTED_SELECTION", 0)

\* Details: m lines are still to come.
Overview(a, l) == [a EXCEPT !.m = l.val, !.got = <<>>]

NextMovie(a) ==
  IF a.op = "list_movies" /\ a.cmd.arg < Movies
  THEN AskThere([a EXCEPT !.got = <<>>], "GET_CONTENT_DETAILS", a.cmd.arg + 1)
  ELSE Done(a, Ok)

\* Mutant: the lines are not counted against the overview; a short read ends
\* the details.
DetailTaken(a, l) == NextMovie([a EXCEPT !.got = Append(@, l.val), !.m = @ - 1])

Detail(a, l) ==
  LET b == [a EXCEPT !.got = Append(@, l.val), !.m = @ - 1] IN
  IF b.m = 0 THEN NextMovie(b) ELSE b

\* send_command turns the standby line into an error, which power_state takes
\* for an answer.
InStandby(a) == Done(a, IF a.op = "check_is_on" THEN Off ELSE Err)

Hear(a, l) ==
  IF a.m > 0 /\ a.cmd.name = "GET_CONTENT_DETAILS" THEN Detail(a, l)
  ELSE IF l.tag = "standby" THEN InStandby(a)
  ELSE CASE a.cmd.name = "GET_MOVIES" ->
              IF l.tag = "movies" THEN Ask(a, "GET_CONTENT_DETAILS", a.arg) ELSE Done(a, Err)
         [] a.cmd.name = "GET_DEVICE_POWER_STATE" -> Done(a, IF l.tag = "power" THEN PowerOf(l.val) ELSE Err)
         [] a.cmd.name = "SHOW_CONTROLLER_DETAILS" -> Ask(a, "GET_UI_STATE", 0)
         [] a.cmd.name = "GET_UI_STATE" ->
              IF l.val = 1 THEN Ask(a, "GET_HIGHLIGHTED_SELECTION", 0) ELSE Again(a)
         [] a.cmd.name = "GET_HIGHLIGHTED_SELECTION" ->
              IF a.op = "play_movie" THEN PlayIfSelected(a, l) ELSE Done(a, l.val)
         [] a.cmd.name = "GET_CONTENT_DETAILS" -> Overview(a, l)
         [] OTHER -> Done(a, Ok)

\* read_line makes a reader for one line and drops it with all it has
\* buffered; read_lines keeps its reader for all lines of details.
DropsReader(a) == ~(a.m > 0 /\ a.cmd.name = "GET_CONTENT_DETAILS")

-----------------------------------------------------------------------------
Replies(cmd, s) ==
  CASE cmd.name = "LEAVE_STANDBY" -> {React([s EXCEPT !.power = On], <<Line("ok", 0)>>)}
    [] cmd.name = "ENTER_STANDBY" -> {React([s EXCEPT !.power = Off], <<Line("ok", 0)>>)}
    [] cmd.name = "GET_DEVICE_POWER_STATE" -> {React(s, <<Line("power", 1)>>)}
    [] cmd.name = "SHOW_CONTROLLER_DETAILS" ->
         {React([s EXCEPT !.set = cmd.arg, !.aux = 1], <<Line("ok", 0)>>),
          Refuse(s, <<Line("error", 0)>>)}
    [] cmd.name = "GET_UI_STATE" -> {React(s, <<Line("ui", s.aux)>>)}
    [] cmd.name = "GET_HIGHLIGHTED_SELECTION" -> {React(s, <<Line("selection", s.set)>>)}
    [] cmd.name = "GET_CONTENT_DETAILS" ->
         {React(s, <<Line("overview", DetailLines)>>
                     \o [i \in 1..DetailLines |-> Line("detail", cmd.arg)])}
    [] OTHER -> {React(s, <<Line("ok", 0)>>), Refuse(s, <<Line("error", 0)>>)}

\* In standby a player answers at most the question for its power.
Does(cmd, s) ==
  IF cmd.name = "GET_MOVIES"
  THEN {React(s, <<Line("movies", 0)>>), Refuse(s, <<Line("status", 0)>>)}
  ELSE IF s.power = On \/ cmd.name = "LEAVE_STANDBY" THEN Replies(cmd, s)
  ELSE {Refuse(s, <<Line("standby", 0)>>)}
         \cup (IF cmd.name = "GET_DEVICE_POWER_STATE" THEN {React(s, <<Line("power", 0)>>)} ELSE {})
=============================================================================

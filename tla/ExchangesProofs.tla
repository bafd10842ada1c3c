--------------------------- MODULE ExchangesProofs ---------------------------
(***************************************************************************)
(* Proofs about the drivers of Drivers, one by one: what a call knows at   *)
(* any moment, and that what it then answers is what RawDriver promises.   *)
(*                                                                         *)
(* A call is Good if its record has the shape of one and knows only what   *)
(* is among the true answers S so far, T that its command took effect.     *)
(* There is a lemma for each driver and each way that its code goes on:    *)
(* the First command, Connected, Sent, Broken and Hear of a line that says *)
(* the truth (Says) lead from a good record to a good one, and an answer   *)
(* is one that RawDriver allows (Kept).                                    *)
(*                                                                         *)
(* In fair weather, when nothing comes between, a call is also Well: what  *)
(* it is to read next is due on its connection, and it answers no failure. *)
(* The same steps lead from a call that is well to one that is, and so     *)
(* does a device that executes the call's command, or one of others.       *)
(***************************************************************************)
EXTENDS Drivers, TLAPS

Values == Nat \cup {Other}

-----------------------------------------------------------------------------
(* What lines say.                                                         *)

\* What a line says to a call of op that has sent the command name: S are the
\* true answers so far, T that its command has taken effect.
AvmSays(op, name, l, S, T) ==
  /\ op = "check_is_on" /\ l.tag = "Z1POW" => PowerOf(l.val) \in S
  /\ op = "current_input" /\ l.tag = "Z1INP" => l.val \in S
  /\ op = "set_cec" /\ l.tag = "GCCECC" => l.val \in S

AtvSays(op, name, l, S, T) ==
  l.tag # "refused" => IF op = "check_is_on" THEN PowerOf(l.val) \in S ELSE T

KscpSays(op, name, l, S, T) ==
  IF l.tag = "standby" THEN op = "check_is_on" => Off \in S
  ELSE /\ op \in {"turn_on", "turn_off"} => T
       /\ op = "check_is_on" /\ l.tag = "power" => PowerOf(l.val) \in S
       /\ name = "GET_HIGHLIGHTED_SELECTION" => l.val \in S

EnvySays(op, name, l, S, T) ==
  /\ l.tag \in {"welcome", "OK", "ERROR", "ratio", "note", "words"}
  /\ l.tag \in {"note", "words"} => l.val = Other
  /\ l.tag = "ratio" => /\ op = "aspect_ratio" => l.val \in S
                        /\ op = "get_nearest_aspect_ratio" =>
                             l.val \in Nat /\ Mvr!nearest_aspect_ratio_int(l.val) \in S

OppoSays(op, name, l, S, T) ==
  l.tag = "@OK" => IF op = "check_is_on" THEN l.val = 1 => On \in S ELSE T

PjSays(op, name, l, S, T) ==
  /\ l.tag = "bare" => op = "set"
  /\ l.tag \notin {"error", "part"} =>
    /\ op = "check_is_on" => (IF Pj!StatusIsOn(l.val) THEN On ELSE Off) \in S
    /\ op = "picture_position" => l.val \in S

StrSays(op, name, l, S, T) ==
  /\ op = "check_is_on" => (IF l.tag = "empty" THEN Off ELSE On) \in S
  /\ op \in {"turn_on", "turn_off"} => T
  /\ name = "input?" /\ l.tag = "input" => l.val \in S
  /\ name = "mute?" /\ l.tag = "mute" => PowerOf(l.val) \in S

Says(op, name, l, S, T) ==
  CASE driver = "avm70" -> AvmSays(op, name, l, S, T)
    [] driver = "appletv" -> AtvSays(op, name, l, S, T)
    [] driver = "kscp" -> KscpSays(op, name, l, S, T)
    [] driver = "envy" -> EnvySays(op, name, l, S, T)
    [] driver = "udp203" -> OppoSays(op, name, l, S, T)
    [] driver = "pj_talk" -> PjSays(op, name, l, S, T)
    [] driver = "za5000" -> StrSays(op, name, l, S, T)

-----------------------------------------------------------------------------
(* What the record of a call looks like, and what it knows.                *)

Shape(a) ==
  /\ a = [op |-> a.op, arg |-> a.arg, pc |-> a.pc, cmd |-> a.cmd, n |-> a.n, m |-> a.m,
          got |-> a.got, ans |-> a.ans]
  /\ a.arg \in Nat /\ a.n \in Nat /\ a.m \in Nat

AvmKnows(a, S) ==
  /\ a.pc \in {"connect", "send", "read", "return"}
  /\ a.op \in DOMAIN Avm!CommandFor
  /\ a.n <= RetryLimit
  /\ IF a.op = "inputs" THEN a.m <= Inputs ELSE a.m <= 1
  /\ \/ a.cmd = Command(Avm!CommandFor[a.op], a.arg)
     \/ a.op = "get_volume" /\ a.cmd = Command("Z1PVOL?", 0)

AtvKnows(a, S) ==
  /\ a.pc \in {"lock", "connect", "send", "read", "return"}
  /\ a.op \in DOMAIN Atv!CommandFor
  /\ a.n <= 1 /\ a.m = 0
  /\ a.pc # "lock" => a.cmd = Command(Atv!CommandFor[a.op], a.arg)

\* play_movie knows that its movie is selected; details are those of one movie.
Details(a) ==
  /\ a.cmd.name = "GET_CONTENT_DETAILS" /\ a.cmd.arg \in Nat
  /\ a.cmd = Command("GET_CONTENT_DETAILS", a.cmd.arg)
  /\ a.op = "list_movies" => a.cmd.arg <= Movies
  /\ a.m <= DetailLines /\ a.got \in Seq(Values)
  /\ \A i \in DOMAIN a.got : a.got[i] = a.cmd.arg
  /\ a.pc \in {"connect", "send"} => a.m = 0
  /\ a.pc \in {"connect", "send", "read"} =>
       Len(a.got) = IF a.m = 0 THEN 0 ELSE DetailLines - a.m

\* list_movies asks for the list.
Listing(a) ==
  a.cmd = Command("GET_MOVIES", a.arg) /\ a.arg <= Movies /\ a.m = 0 /\ a.got = <<>>

KscpKnows(a, S) ==
  /\ a.pc \in {"connect", "send", "read", "return"}
  /\ a.op \in DOMAIN Kscp!CommandFor
  /\ a.n < Tries
  /\ CASE a.op = "play_movie" ->
            /\ a.m < Tries
            /\ a.cmd.name \in {"SHOW_CONTROLLER_DETAILS", "GET_UI_STATE",
                               "GET_HIGHLIGHTED_SELECTION", "PLAY"}
            /\ a.cmd = Command(a.cmd.name,
                 IF a.cmd.name = "SHOW_CONTROLLER_DETAILS" THEN a.arg ELSE 0)
            /\ a.cmd.name = "PLAY" => a.arg \in S
       [] a.op = "movie_details" -> Details(a)
       [] a.op = "list_movies" -> Listing(a) \/ Details(a)
       [] OTHER -> a.m = 0 /\ a.cmd = Command(Kscp!CommandFor[a.op], a.arg)

\* The line a call keeps may be the answer.
EnvyGot(got, op, name, S) ==
  got # <<>> => got[1].tag \in {"ratio", "note", "words"} /\ EnvySays(op, name, got[1], S, FALSE)

EnvyKnows(a, S) ==
  /\ a.n <= 3 /\ a.m <= 2
  /\ IF a.op = "turn_on"
     THEN /\ a.pc \in {"wake", "return"} /\ a.m <= 1
          /\ a.cmd = Command("WAKE", 0)
          /\ a.pc = "wake" => a.n < 3
     ELSE /\ a.pc \in {"connect", "send", "read", "return"} /\ a.n = 0
          /\ a.op \in DOMAIN Mvr!CommandFor
          /\ a.cmd = Command(Mvr!CommandFor[a.op], a.arg)
          /\ a.pc = "connect" => a.m = 0
          /\ a.pc = "send" => a.m = 1
          /\ a.op = "check_is_on" /\ a.pc \in {"send", "read"} => On \in S
          /\ EnvyGot(a.got, a.op, a.cmd.name, S)

OppoKnows(a, S) ==
  /\ a.pc \in {"connect", "send", "read", "return"}
  /\ a.op \in DOMAIN Oppo!CommandFor
  /\ a.n = 0 /\ a.m = 0 /\ a.cmd = Command(Oppo!CommandFor[a.op], a.arg)

PjKnows(a, S) ==
  /\ a.pc \in {"connect", "send", "read", "return"}
  /\ a.op \in DOMAIN Pj!CommandFor
  /\ a.n \in {0, 1} /\ (a.n = 1 => a.op = "set") /\ a.m = 0
  /\ a.cmd = Command(Pj!CommandFor[a.op], Pj!Argument(a))

StrKnows(a, S) ==
  /\ a.pc \in {"connect", "send", "read", "return"}
  /\ a.op \in DOMAIN Str!CommandFor
  /\ a.n \in {0, 1} /\ a.m \in {0, 1} /\ (a.m = 1 => a.op = "set_video_input")
  /\ a.cmd = Command(a.cmd.name, IF a.cmd.name = "set_input" THEN a.arg ELSE a.cmd.arg)
  /\ a.cmd.arg \in Nat
  /\ \/ a.cmd.name = Str!CommandFor[a.op]
     \/ a.op \in {"get_video_input", "set_video_input"} /\ a.cmd.name = "input?"
     \/ a.op = "set_video_input" /\ a.m = 0 /\ a.cmd.name = "set_input"
     \/ a.op = "toggle_mute" /\ a.cmd.name = "power?"
     \/ a.op \in {"check_is_muted", "toggle_mute"} /\ a.cmd.name = "mute?"

Knows(a, S) ==
  CASE driver = "avm70" -> AvmKnows(a, S)
    [] driver = "appletv" -> AtvKnows(a, S)
    [] driver = "kscp" -> KscpKnows(a, S)
    [] driver = "envy" -> EnvyKnows(a, S)
    [] driver = "udp203" -> OppoKnows(a, S)
    [] driver = "pj_talk" -> PjKnows(a, S)
    [] driver = "za5000" -> StrKnows(a, S)

\* An answer that keeps the promise.
Kept(q, S, T, v) ==
  CASE Class(q) = "confirmed" -> T
    [] Class(q) = "query" -> v \in S \cup {Vague(q)}
    [] Class(q) = "checked" -> q.arg \in S
    [] Class(q) = "sent" -> TRUE

RequestOf(a) == [driver |-> driver, op |-> a.op, arg |-> a.arg]

\* What a call may have seen.
MaySee(op, S) == S \subseteq RawAnswers \cup {0, 1} /\ (op # "set_cec" => S \subseteq RawAnswers)

Good(a, S, T) ==
  /\ Shape(a)
  /\ MaySee(a.op, S)
  /\ IF a.pc = "idle" THEN a = Start("none", 0) /\ ~T
     ELSE /\ [op |-> a.op, arg |-> a.arg] \in Requests[driver]
          /\ Knows(a, S)
          /\ a.pc # "return" => a.ans = None
          /\ a.pc = "return" =>
               /\ a.ans \in RawAnswers
               /\ a.ans \in {Err, Panic} \/ Kept(RequestOf(a), S, T, a.ans)
               /\ a.op \in {"list_movies", "movie_details"} /\ a.ans = Ok /\ driver = "kscp" =>
                    Len(a.got) = DetailLines /\ (a.op = "list_movies" => a.cmd.arg = Movies)

-----------------------------------------------------------------------------
(* How often a command is executed.                                        *)

\* The call has yet to send its command.
Unsent(a) ==
  \/ a.pc = "idle"
  \/ a.cmd.name \in Acting /\ a.pc \in {"connect", "send"}
  \/ a.cmd.name \in Acting /\ driver = "envy" /\ a.m = 0
  \/ driver = "kscp" /\ a.op = "play_movie" /\ a.cmd.name # "PLAY"
  \/ driver = "za5000" /\ a.op = "set_video_input" /\ a.m = 0 /\ a.cmd.name = "power?"

Bit01(b) == IF b THEN 1 ELSE 0

\* How often the call has sent its command.
Sendings(a) ==
  CASE driver = "appletv" -> IF a.pc \in {"idle", "lock"} THEN 0
                             ELSE IF a.pc \in {"connect", "send"} THEN a.n ELSE a.n + 1
    [] driver = "envy" /\ a.op = "turn_on" -> IF a.pc = "idle" THEN 0 ELSE a.n
    [] OTHER -> IF Unsent(a) THEN 0 ELSE 1

-----------------------------------------------------------------------------
(* The record of a call, step by step.                                     *)

\* b is what becomes of a.
Onward(a, b, S, T) ==
  /\ Good(b, S, T)
  /\ b.op = a.op /\ b.arg = a.arg /\ b.pc # "idle"
  /\ Sendings(b) >= Sendings(a)
  /\ driver \in {"appletv", "envy"} /\ a.pc # "lock" => b.cmd = a.cmd

\* A new call.
Begun(b, op, arg, S) ==
  /\ Good(b, S, FALSE)
  /\ b.op = op /\ b.arg = arg /\ b.pc \in {"lock", "connect", "wake"}
  /\ Sendings(b) >= 0

Asked(op, arg) == [op |-> op, arg |-> arg] \in Requests[driver]

\* Its command is written.
Written(a, b, S, T) ==
  /\ Onward(a, b, S, T)
  /\ Sendings(b) >= Sendings(a) + Bit01(a.cmd.name \in Acting)
  /\ b = Await(a) \/ b.pc = "return"

\* It has read a line, or cannot.
Heard(a, b, S, T) ==
  /\ Onward(a, b, S, T)
  /\ b.pc \in {"connect", "return"} \/ (b.pc = "read" /\ b.cmd = a.cmd)

\* Details are complete when the call succeeds.
Whole(a, v) ==
  a.op \in {"list_movies", "movie_details"} /\ v = Ok /\ driver = "kscp" =>
    Len(a.got) = DetailLines /\ (a.op = "list_movies" => a.cmd.arg = Movies)

\* The words of Exchanges, as records.
LEMMA NewDone ==
  ASSUME NEW a, Shape(a), NEW v, NEW b, b = Done(a, v)
  PROVE  b = [op |-> a.op, arg |-> a.arg, pc |-> "return", cmd |-> a.cmd, n |-> a.n, m |-> a.m,
              got |-> a.got, ans |-> v]
BY DEF Done, Shape

\* A command that is next.
LEMMA NewAsk ==
  ASSUME NEW a, Shape(a), NEW name, NEW arg, NEW b, b = Ask(a, name, arg)
  PROVE  b = [op |-> a.op, arg |-> a.arg, pc |-> "connect", cmd |-> Command(name, arg),
              n |-> a.n, m |-> a.m, got |-> a.got, ans |-> a.ans]
BY DEF Ask, Shape

\* One on the connection there is.
LEMMA NewAskThere ==
  ASSUME NEW a, Shape(a), NEW name, NEW arg, NEW b, b = AskThere(a, name, arg)
  PROVE  b = [op |-> a.op, arg |-> a.arg, pc |-> "send", cmd |-> Command(name, arg),
              n |-> a.n, m |-> a.m, got |-> a.got, ans |-> a.ans]
BY DEF AskThere, Shape

\* The records of calls that read, answer and fail.
LEMMA NewRecords ==
  ASSUME NEW a, Shape(a)
  PROVE  /\ \A v : Done(a, v) =
              [op |-> a.op, arg |-> a.arg, pc |-> "return", cmd |-> a.cmd, n |-> a.n, m |-> a.m,
               got |-> a.got, ans |-> v]
         /\ \A name, arg : Ask(a, name, arg) =
              [op |-> a.op, arg |-> a.arg, pc |-> "connect", cmd |-> Command(name, arg),
               n |-> a.n, m |-> a.m, got |-> a.got, ans |-> a.ans]
         /\ \A name, arg : AskThere(a, name, arg) =
              [op |-> a.op, arg |-> a.arg, pc |-> "send", cmd |-> Command(name, arg),
               n |-> a.n, m |-> a.m, got |-> a.got, ans |-> a.ans]
         /\ Await(a) = [op |-> a.op, arg |-> a.arg, pc |-> "read", cmd |-> a.cmd, n |-> a.n,
                        m |-> a.m, got |-> a.got, ans |-> a.ans]
         /\ Proceed(a) = [op |-> a.op, arg |-> a.arg, pc |-> "send", cmd |-> a.cmd, n |-> a.n,
                          m |-> a.m, got |-> a.got, ans |-> a.ans]
<1>1. Await(a) = [op |-> a.op, arg |-> a.arg, pc |-> "read", cmd |-> a.cmd, n |-> a.n,
                  m |-> a.m, got |-> a.got, ans |-> a.ans]
  BY DEF Await, Shape
<1>2. Proceed(a) = [op |-> a.op, arg |-> a.arg, pc |-> "send", cmd |-> a.cmd, n |-> a.n,
                    m |-> a.m, got |-> a.got, ans |-> a.ans]
  BY DEF Proceed, Shape
<1>3. \A v : Done(a, v) =
        [op |-> a.op, arg |-> a.arg, pc |-> "return", cmd |-> a.cmd, n |-> a.n, m |-> a.m,
         got |-> a.got, ans |-> v]
  BY NewDone
<1>4. \A name, arg : Ask(a, name, arg) =
        [op |-> a.op, arg |-> a.arg, pc |-> "connect", cmd |-> Command(name, arg),
         n |-> a.n, m |-> a.m, got |-> a.got, ans |-> a.ans]
  BY NewAsk
<1>5. \A name, arg : AskThere(a, name, arg) =
        [op |-> a.op, arg |-> a.arg, pc |-> "send", cmd |-> Command(name, arg),
         n |-> a.n, m |-> a.m, got |-> a.got, ans |-> a.ans]
  BY NewAskThere
<1> QED
  BY <1>1, <1>2, <1>3, <1>4, <1>5

\* Counters that are set, alone or together.
LEMMA NewCounts ==
  ASSUME NEW a, Shape(a), NEW i \in Nat, NEW j \in Nat, NEW b,
         \/ b = [a EXCEPT !.n = i] /\ j = a.m
         \/ b = [a EXCEPT !.m = j] /\ i = a.n
         \/ b = [a EXCEPT !.n = i, !.m = j]
         \/ b = [a EXCEPT !.m = j, !.n = i]
  PROVE  /\ b = [op |-> a.op, arg |-> a.arg, pc |-> a.pc, cmd |-> a.cmd, n |-> i, m |-> j,
                 got |-> a.got, ans |-> a.ans]
         /\ Shape(b)
<1>1. b = [op |-> a.op, arg |-> a.arg, pc |-> a.pc, cmd |-> a.cmd, n |-> i, m |-> j,
           got |-> a.got, ans |-> a.ans]
  <2>1. CASE b = [a EXCEPT !.n = i] /\ j = a.m
    BY <2>1 DEF Shape
  <2>2. CASE b = [a EXCEPT !.m = j] /\ i = a.n
    BY <2>2 DEF Shape
  <2>3. CASE b = [a EXCEPT !.n = i, !.m = j]
    BY <2>3 DEF Shape
  <2>4. CASE b = [a EXCEPT !.m = j, !.n = i]
    BY <2>4 DEF Shape
  <2> QED
    BY <2>1, <2>2, <2>3, <2>4
<1> QED
  BY <1>1 DEF Shape

\* A call goes on.
LEMMA GoesOn ==
  ASSUME NEW a, NEW S, NEW T, Good(a, S, T), a.pc \notin {"idle", "return"},
         NEW b, Shape(b), b.op = a.op, b.arg = a.arg, b.ans = a.ans, b.pc \notin {"idle", "return"},
         Knows(b, S), Sendings(b) >= Sendings(a),
         driver \in {"appletv", "envy"} /\ a.pc # "lock" => b.cmd = a.cmd
  PROVE  Onward(a, b, S, T)
BY DEF Onward, Good

\* A call answers with a failure, or as promised.
LEMMA Answered ==
  ASSUME driver \in DOMAIN Methods, NEW a, NEW S, NEW T \in BOOLEAN, Good(a, S, T),
         a.pc \notin {"idle", "return", "lock"},
         NEW v, v \in RawAnswers, v \in {Err, Panic} \/ Kept(RequestOf(a), S, T, v), Whole(a, v)
  PROVE  Onward(a, Done(a, v), S, T)
<1> DEFINE b == Done(a, v)
<1>1. b = [op |-> a.op, arg |-> a.arg, pc |-> "return", cmd |-> a.cmd, n |-> a.n, m |-> a.m,
           got |-> a.got, ans |-> v]
  BY NewRecords DEF Good
<1> HIDE DEF b
<1>2. Shape(b) /\ RequestOf(b) = RequestOf(a)
  BY <1>1 DEF Good, Shape, RequestOf
<1>3. Knows(b, S)
  <2>0. Knows(a, S)
    BY DEF Good
  <2>1. CASE driver = "avm70"
    BY <2>0, <2>1, <1>1 DEF Knows, AvmKnows
  <2>2. CASE driver = "appletv"
    BY <2>0, <2>2, <1>1 DEF Knows, AtvKnows
  <2>3. CASE driver = "kscp"
    BY <2>0, <2>3, <1>1 DEF Knows, KscpKnows, Details, Listing
  <2>4. CASE driver = "envy"
    BY <2>0, <2>4, <1>1 DEF Knows, EnvyKnows
  <2>5. CASE driver = "udp203"
    BY <2>0, <2>5, <1>1 DEF Knows, OppoKnows
  <2>6. CASE driver = "pj_talk"
    BY <2>0, <2>6, <1>1 DEF Knows, PjKnows, Pj!Argument
  <2>7. CASE driver = "za5000"
    BY <2>0, <2>7, <1>1 DEF Knows, StrKnows
  <2> QED
    BY <2>1, <2>2, <2>3, <2>4, <2>5, <2>6, <2>7 DEF Methods
<1>4. Good(b, S, T)
  BY <1>1, <1>2, <1>3 DEF Good, Whole
<1>5. Sendings(b) >= Sendings(a)
  BY <1>1 DEF Sendings, Unsent, Good, Shape
<1> QED
  BY <1>1, <1>4, <1>5 DEF Onward, b

\* The answer to a line.
LEMMA Answers_ ==
  ASSUME driver \in DOMAIN Methods, NEW a, NEW S, NEW T \in BOOLEAN, Good(a, S, T),
         a.pc \notin {"idle", "return", "lock"},
         NEW v, v \in RawAnswers, v \in {Err, Panic} \/ Kept(RequestOf(a), S, T, v), Whole(a, v)
  PROVE  Heard(a, Done(a, v), S, T)
<1>1. Done(a, v).pc = "return"
  BY NewRecords DEF Good
<1> QED
  BY <1>1, Answered DEF Heard

\* A call may fail at any moment.
LEMMA Fails ==
  ASSUME driver \in DOMAIN Methods, NEW a, NEW S, NEW T \in BOOLEAN, Good(a, S, T),
         a.pc \notin {"idle", "return", "lock"}
  PROVE  Onward(a, Done(a, Err), S, T) /\ Done(a, Err).pc = "return"
<1>1. Done(a, Err).pc = "return"
  BY NewRecords DEF Good
<1>2. Whole(a, Err) /\ Err \in RawAnswers
  BY AnswersAssumption DEF Whole, RawAnswers
<1> QED
  BY <1>1, <1>2, Answered

\* A call that passes on to p.
Passed(a, b, p) ==
  /\ b = [op |-> a.op, arg |-> a.arg, pc |-> p, cmd |-> a.cmd, n |-> a.n, m |-> a.m,
          got |-> a.got, ans |-> a.ans]
  /\ Shape(b) /\ b.pc = p /\ b.op = a.op /\ b.arg = a.arg /\ b.cmd = a.cmd /\ b.n = a.n /\ b.m = a.m
  /\ b.got = a.got /\ b.ans = a.ans

\* A call that reads, or sends, has passed on so far.
LEMMA PassesOn ==
  ASSUME NEW a, Shape(a)
  PROVE  Passed(a, Await(a), "read") /\ Passed(a, Proceed(a), "send")
<1> DEFINE x == Await(a)
           y == Proceed(a)
<1>1. /\ x = [op |-> a.op, arg |-> a.arg, pc |-> "read", cmd |-> a.cmd, n |-> a.n,
              m |-> a.m, got |-> a.got, ans |-> a.ans]
      /\ y = [op |-> a.op, arg |-> a.arg, pc |-> "send", cmd |-> a.cmd, n |-> a.n,
              m |-> a.m, got |-> a.got, ans |-> a.ans]
  BY NewRecords
<1> HIDE DEF x, y
<1>2. Passed(a, x, "read")
  BY <1>1 DEF Passed, Shape
<1>3. Passed(a, y, "send")
  BY <1>1 DEF Passed, Shape
<1> QED
  BY <1>2, <1>3 DEF x, y

\* The count of sendings is a number.
LEMMA SendingsNat ==
  ASSUME NEW a, Shape(a)
  PROVE  Sendings(a) \in Nat
BY DEF Shape, Sendings

\* Sendings do not decrease while a call keeps its command.
LEMMA SendingsKept ==
  ASSUME NEW a, Shape(a), a.pc \in {"connect", "send", "read"},
         NEW b, b.op = a.op, b.cmd = a.cmd, b.n >= a.n, b.n \in Nat,
         b.m = a.m \/ driver \notin {"envy", "za5000"},
         b.pc \in {"send", "read", "return"}, a.pc = "read" => b.pc \in {"read", "return"}
  PROVE  Sendings(b) >= Sendings(a)
<1>1. CASE driver = "appletv" \/ (driver = "envy" /\ a.op = "turn_on")
  BY <1>1 DEF Shape, Sendings
<1>2. CASE ~(driver = "appletv" \/ (driver = "envy" /\ a.op = "turn_on"))
  <2>1. Sendings(a) = Bit01(~Unsent(a)) /\ Sendings(b) = Bit01(~Unsent(b))
    BY <1>2 DEF Sendings, Bit01
  <2>2. Unsent(b) => Unsent(a)
    BY <1>2 DEF Unsent
  <2> QED
    BY <2>1, <2>2 DEF Bit01
<1> QED
  BY <1>1, <1>2

\* A command that is sent counts.
LEMMA SentOnce ==
  ASSUME driver \in DOMAIN Methods, NEW a, NEW S, NEW T, Good(a, S, T), a.pc = "send",
         NEW b, b.op = a.op, b.cmd = a.cmd, b.n = a.n, b.m = a.m, b.pc \in {"read", "return"}
  PROVE  Sendings(b) >= Sendings(a) + Bit01(a.cmd.name \in Acting) /\ Sendings(b) >= Sendings(a)
<1>1. Shape(a) /\ Knows(a, S)
  BY DEF Good
<1>2. CASE driver = "appletv"
  BY <1>1, <1>2 DEF Shape, Sendings, Bit01
<1>3. CASE driver = "envy" /\ a.op = "turn_on"
  BY <1>1, <1>3 DEF Knows, EnvyKnows
<1>4. CASE driver # "appletv" /\ ~(driver = "envy" /\ a.op = "turn_on")
  <2>1. /\ Sendings(a) = Bit01(~Unsent(a)) /\ Sendings(b) = Bit01(~Unsent(b))
        /\ a.cmd.name \in Acting => Unsent(a)
    BY <1>4 DEF Sendings, Bit01, Unsent
  <2>2. Unsent(b) => Unsent(a)
    BY DEF Unsent
  <2>3. CASE driver = "kscp"
    <3>1. a.cmd.name \in Acting => ~Unsent(b)
      BY <1>1, <2>3 DEF Unsent, Knows, KscpKnows, Acting, Kscp!Acting
    <3> QED
      BY <2>1, <2>2, <3>1 DEF Bit01
  <2>4. CASE driver = "za5000"
    <3>1. a.cmd.name \in Acting => ~Unsent(b)
      BY <2>4 DEF Unsent, Acting, Str!Acting
    <3> QED
      BY <2>1, <2>2, <3>1 DEF Bit01
  <2>5. CASE driver \notin {"kscp", "za5000"}
    <3>1. ASSUME driver = "envy" PROVE b.m # 0
      <4>1. EnvyKnows(a, S) /\ a.op # "turn_on"
        BY <1>1, <1>4, <3>1 DEF Knows
      <4>2. a.m = 1
        BY <4>1 DEF EnvyKnows
      <4> QED
        BY <4>2
    <3>2. ~Unsent(b)
      BY <2>5, <3>1 DEF Unsent
    <3> QED
      BY <2>1, <2>2, <3>2 DEF Bit01
  <2> QED
    BY <2>3, <2>4, <2>5
<1> QED
  BY <1>2, <1>3, <1>4

\* A call that waits for the answer to what it has sent, or that is done.
LEMMA WrittenIs ==
  ASSUME driver \in DOMAIN Methods, NEW a, NEW S, NEW T \in BOOLEAN, Good(a, S, T), a.pc = "send"
  PROVE  /\ Knows(Await(a), S) => Written(a, Await(a), S, T)
         /\ \A v : Onward(a, Done(a, v), S, T) => Written(a, Done(a, v), S, T)
<1>1. Shape(a)
  BY DEF Good
<1>2. ASSUME Knows(Await(a), S) PROVE Written(a, Await(a), S, T)
  <2> DEFINE b == Await(a)
  <2>1. Passed(a, b, "read") /\ Knows(b, S)
    BY <1>1, <1>2, PassesOn
  <2> HIDE DEF b
  <2>2. Sendings(b) >= Sendings(a) + Bit01(a.cmd.name \in Acting) /\ Sendings(b) >= Sendings(a)
    BY <2>1, SentOnce DEF Passed
  <2>3. Onward(a, b, S, T)
    BY <2>1, <2>2, GoesOn DEF Passed
  <2> QED
    BY <2>2, <2>3 DEF b, Written
<1>3. ASSUME NEW v, Onward(a, Done(a, v), S, T) PROVE Written(a, Done(a, v), S, T)
  <2> DEFINE b == Done(a, v)
  <2>1. b = [op |-> a.op, arg |-> a.arg, pc |-> "return", cmd |-> a.cmd, n |-> a.n,
             m |-> a.m, got |-> a.got, ans |-> v]
    BY <1>1, NewRecords
  <2>2. Onward(a, b, S, T)
    BY <1>3
  <2> HIDE DEF b
  <2>3. Sendings(b) >= Sendings(a) + Bit01(a.cmd.name \in Acting)
    BY <2>1, SentOnce
  <2>4. Written(a, b, S, T)
    BY <2>1, <2>2, <2>3 DEF Written
  <2> QED
    BY <2>4 DEF b
<1> QED
  BY <1>2, <1>3

\* A call that begins.
NewCall(b, op, arg) ==
  /\ Shape(b) /\ b.op = op /\ b.arg = arg /\ b.n = 0 /\ b.m = 0 /\ b.got = <<>> /\ b.ans = None

\* The record of a call that begins.
LEMMA StartIs ==
  ASSUME NEW op, NEW arg
  PROVE  Start(op, arg) = [op |-> op, arg |-> arg, pc |-> "idle", cmd |-> None, n |-> 0, m |-> 0,
                           got |-> <<>>, ans |-> None]
BY DEF Start

\* A command that a new call has.
LEMMA NewAsked ==
  ASSUME NEW op, NEW arg \in Nat, NEW name, NEW x
  PROVE  LET b == Ask(Start(op, arg), name, x)
         IN  b.pc = "connect" /\ b.cmd = Command(name, x) /\ NewCall(b, op, arg)
<1> DEFINE a == Start(op, arg)
           b == Ask(a, name, x)
<1>1. Shape(a) /\ a.op = op /\ a.arg = arg /\ a.n = 0 /\ a.m = 0 /\ a.got = <<>> /\ a.ans = None
  BY StartIs DEF Shape
<1> HIDE DEF a
<1>2. b = [op |-> a.op, arg |-> a.arg, pc |-> "connect", cmd |-> Command(name, x),
           n |-> a.n, m |-> a.m, got |-> a.got, ans |-> a.ans]
  BY <1>1, NewRecords
<1> HIDE DEF b
<1>3. b.pc = "connect" /\ b.cmd = Command(name, x) /\ NewCall(b, op, arg)
  BY <1>1, <1>2 DEF NewCall, Shape
<1> QED
  BY <1>3 DEF a, b

\* What may be asked of a driver.
LEMMA AskedIs ==
  ASSUME driver \in DriverNames, NEW op, NEW arg, Asked(op, arg)
  PROVE  /\ driver \in DOMAIN Methods /\ op \in Methods[driver] /\ arg \in Nat
         /\ op \in {"change_input", "play_movie", "picture_position_set"}
              => arg \in Settings[driver]
         /\ op = "set_video_input" => arg \in Settings[driver] \cup {0}
         /\ op = "set_cec" => arg \in {0, 1}
         /\ op = "list_movies" => arg = 1
<1> DEFINE q == [op |-> op, arg |-> arg]
<1>1. q \in Requests[driver] /\ q.op = op /\ q.arg = arg
  BY DEF Asked
<1> HIDE DEF q
<1>2. q \in [op : Methods[driver], arg : Nat]
  BY <1>1, RequestsAssumption
<1> QED
  BY <1>1, <1>2, RequestsAssumption

\* Requests are of calls that there are.
LEMMA Begins ==
  ASSUME driver \in DriverNames, NEW op, NEW arg, Asked(op, arg), NEW S, MaySee(op, S),
         NEW b, NewCall(b, op, arg), b.pc \in {"lock", "connect", "wake"}, Knows(b, S),
         Sendings(b) >= 0
  PROVE  Begun(b, op, arg, S)
BY DEF Begun, Good, NewCall, Asked

-----------------------------------------------------------------------------
(* The receiver Avm70.                                                     *)

\* Its module shares the words of Exchanges.
LEMMA AvmWords ==
  ASSUME NEW a
  PROVE  /\ \A v : Avm!Done(a, v) = Done(a, v)
         /\ \A name, arg : Avm!Ask(a, name, arg) = Ask(a, name, arg)
         /\ Avm!Await(a) = Await(a) /\ Avm!Proceed(a) = Proceed(a)
BY DEF Avm!Done, Done, Avm!Ask, Ask, Avm!Await, Await, Avm!Proceed, Proceed, Avm!Command, Command

\* The receiver's first command.
LEMMA AvmFirst ==
  ASSUME driver = "avm70", driver \in DriverNames, NEW op, NEW arg, Asked(op, arg),
         NEW S, MaySee(op, S)
  PROVE  Begun(Avm!First(Start(op, arg)), op, arg, S)
<1> DEFINE b == Avm!First(Start(op, arg))
<1>1. b = Ask(Start(op, arg), Avm!CommandFor[op], arg)
  BY StartIs, AvmWords DEF Avm!First
<1>2. b.pc = "connect" /\ b.cmd = Command(Avm!CommandFor[op], arg) /\ NewCall(b, op, arg)
  BY <1>1, NewAsked, AskedIs
<1> HIDE DEF b
<1>3. Knows(b, S)
  BY <1>2, AskedIs, LimitsAssumption DEF Knows, AvmKnows, Methods, NewCall
<1>4. Sendings(b) >= 0
  BY <1>2 DEF Sendings, Unsent
<1>5. Begun(b, op, arg, S)
  BY <1>2, <1>3, <1>4, Begins
<1> QED
  BY <1>5 DEF b

\* The receiver, connected.
LEMMA AvmConnected ==
  ASSUME driver = "avm70", NEW a, NEW S, NEW T, Good(a, S, T), a.pc = "connect"
  PROVE  Onward(a, Avm!Connected(a), S, T) /\ Avm!Connected(a) = Proceed(a)
<1> DEFINE b == Proceed(a)
<1>1. Avm!Connected(a) = b
  BY AvmWords DEF Avm!Connected
<1>2. Shape(a) /\ Knows(a, S)
  BY DEF Good
<1>3. Passed(a, b, "send")
  BY <1>2, PassesOn
<1> HIDE DEF b
<1>4. Knows(b, S) /\ Sendings(b) >= Sendings(a)
  BY <1>2, <1>3, SendingsKept DEF Knows, AvmKnows, Passed, Shape
<1>5. Onward(a, b, S, T)
  BY <1>3, <1>4, GoesOn DEF Passed
<1> QED
  BY <1>1, <1>5 DEF b

\* The receiver's command is written.
LEMMA AvmSent ==
  ASSUME driver = "avm70", NEW a, NEW S, NEW T \in BOOLEAN, Good(a, S, T), a.pc = "send"
  PROVE  Written(a, Avm!Sent(a), S, T)
<1>1. Shape(a) /\ Knows(a, S) /\ driver \in DOMAIN Methods
  BY DEF Good, Methods
<1>2. CASE a.op = "turn_on"
  <2>1. Avm!Sent(a) = Done(a, Ok)
    BY <1>2, AvmWords DEF Avm!Sent
  <2>2. Kept(RequestOf(a), S, T, Ok) /\ Ok \in RawAnswers /\ Whole(a, Ok)
    BY <1>2 DEF Kept, Class, Confirmed, Queries, RequestOf, RawAnswers, Whole
  <2> QED
    BY <1>1, <2>1, <2>2, Answered, WrittenIs
<1>3. CASE a.op # "turn_on"
  <2>1. Avm!Sent(a) = Await(a)
    BY <1>3, AvmWords DEF Avm!Sent
  <2>2. Knows(Await(a), S)
    BY <1>1, PassesOn DEF Knows, AvmKnows, Passed
  <2> QED
    BY <1>1, <2>1, <2>2, WrittenIs
<1> QED
  BY <1>2, <1>3

\* An exchange with the receiver fails.
LEMMA AvmBroken ==
  ASSUME driver = "avm70", NEW a, NEW S, NEW T \in BOOLEAN, Good(a, S, T),
         a.pc \in {"connect", "send", "read"}, NEW how
  PROVE  Onward(a, Avm!Broken(a, how), S, T) /\ Avm!Broken(a, how).pc = "return"
<1>1. Avm!Broken(a, how) = Done(a, Err)
  BY AvmWords DEF Avm!Broken
<1> QED
  BY <1>1, Fails DEF Methods

\* A call of the receiver that has taken or skipped a line reads on.
LEMMA AvmReadsOn ==
  ASSUME driver = "avm70", NEW a, NEW S, NEW T \in BOOLEAN, Good(a, S, T), a.pc = "read",
         NEW i \in Nat, NEW j \in Nat, i <= RetryLimit,
         IF a.op = "inputs" THEN j <= Inputs ELSE j <= 1,
         NEW b, b = [op |-> a.op, arg |-> a.arg, pc |-> a.pc, cmd |-> a.cmd, n |-> i, m |-> j,
                     got |-> a.got, ans |-> a.ans]
  PROVE  Heard(a, b, S, T)
<1>1. Shape(a) /\ Knows(a, S)
  BY DEF Good
<1>2. Shape(b)
  BY <1>1 DEF Shape
<1>3. Knows(b, S)
  BY <1>1, <1>2 DEF Knows, AvmKnows
<1>4. Sendings(b) >= Sendings(a)
  <2>1. Sendings(a) = Sendings(b)
    BY <1>2 DEF Sendings, Unsent
  <2> QED
    BY <1>1, <2>1, SendingsNat
<1> QED
  BY <1>2, <1>3, <1>4, GoesOn DEF Heard

\* A line of the receiver is read.
LEMMA AvmHear ==
  ASSUME driver = "avm70", NEW a, NEW S, NEW T \in BOOLEAN, Good(a, S, T), a.pc = "read",
         NEW l, AvmSays(a.op, a.cmd.name, l, S, T)
  PROVE  Heard(a, Avm!Hear(a, l), S, T)
<1>1. Shape(a) /\ Knows(a, S) /\ driver \in DOMAIN Methods /\ MaySee(a.op, S)
  BY DEF Good, Methods
<1>2. /\ a.n \in Nat /\ a.m \in Nat /\ a.n <= RetryLimit /\ RetryLimit \in Nat /\ Inputs \in Nat
      /\ IF a.op = "inputs" THEN a.m <= Inputs ELSE a.m <= 1
  BY <1>1, LimitsAssumption DEF Shape, Knows, AvmKnows
<1>3. ASSUME NEW v, Avm!Hear(a, l) = Avm!Done(a, v), v \in RawAnswers,
             v \in {Err, Panic} \/ Kept(RequestOf(a), S, T, v)
      PROVE  Heard(a, Avm!Hear(a, l), S, T)
  BY <1>1, <1>3, AvmWords, Answers_ DEF Whole
<1>4. {On, Off, Ok, Err} \subseteq RawAnswers
  BY DEF RawAnswers
<1> DEFINE Fine(v) == v \in RawAnswers /\ (v \in {Err, Panic} \/ Kept(RequestOf(a), S, T, v))
<1>5. Fine(Err)
  BY <1>4
<1>9. ASSUME a.op \notin {"check_is_on", "current_input", "set_cec"} PROVE Fine(Ok)
  <2>1. RequestOf(a).driver = "avm70" /\ RequestOf(a).op = a.op
    BY DEF RequestOf
  <2>2. a.op \notin Queries \cup {"set_cec", "set_video_input", "play_movie"}
    BY <1>1, <1>9 DEF Knows, AvmKnows, Queries, Avm!CommandFor
  <2>3. Class(RequestOf(a)) = "sent"
    BY <2>1, <2>2 DEF Class, Confirmed
  <2> QED
    BY <1>4, <2>3 DEF Kept
<1>6. CASE l.tag = Avm!Expected(a)
  <2>1. Avm!Hear(a, l) = Avm!Taken(a, l.val)
    BY <1>6 DEF Avm!Hear
  <2>2. CASE a.op = "check_is_on"
    <3>1. Avm!Hear(a, l) = Avm!Done(a, Avm!PowerOf(l.val)) /\ Avm!PowerOf(l.val) = PowerOf(l.val)
      BY <2>1, <2>2 DEF Avm!Taken, Avm!PowerOf, PowerOf
    <3>2. PowerOf(l.val) \in S /\ PowerOf(l.val) \in {On, Off}
      BY <1>6, <2>2 DEF Avm!Expected, AvmSays, PowerOf
    <3>3. Fine(PowerOf(l.val))
      BY <1>4, <2>2, <3>2 DEF Kept, Class, Confirmed, Queries, RequestOf
    <3> QED
      BY <1>3, <3>1, <3>3
  <2>3. CASE a.op = "current_input"
    <3>1. Avm!Hear(a, l) = Avm!Done(a, l.val)
      BY <2>1, <2>3 DEF Avm!Taken
    <3>2. l.val \in S
      BY <1>6, <2>3 DEF Avm!Expected, AvmSays
    <3>3. Fine(l.val)
      BY <1>1, <2>3, <3>2 DEF Kept, Class, Confirmed, Queries, RequestOf, MaySee
    <3> QED
      BY <1>3, <3>1, <3>3
  <2>4. CASE a.op = "set_cec"
    <3>1. Avm!Hear(a, l) = Avm!Done(a, IF l.val = a.arg THEN Ok ELSE Err)
      BY <2>1, <2>4 DEF Avm!Taken
    <3>2. l.val \in S
      BY <1>6, <2>4 DEF Avm!Expected, AvmSays
    <3>3. l.val = a.arg => Fine(Ok)
      BY <1>4, <2>4, <3>2 DEF Kept, Class, Confirmed, Queries, RequestOf
    <3> QED
      BY <1>3, <1>5, <3>1, <3>3
  <2>5. CASE (a.op \in {"get_volume", "set_volume"} /\ a.m = 0) \/ (a.op = "inputs" /\ a.m # Inputs)
    <3>. PICK b : b = [a EXCEPT !.m = a.m + 1, !.n = 0]
      OBVIOUS
    <3>0. a.m + 1 \in Nat /\ IF a.op = "inputs" THEN a.m + 1 <= Inputs ELSE a.m + 1 <= 1
      BY <1>2, <2>5
    <3>1. b = [op |-> a.op, arg |-> a.arg, pc |-> a.pc, cmd |-> a.cmd, n |-> 0, m |-> a.m + 1,
               got |-> a.got, ans |-> a.ans]
      BY <1>1 DEF Shape
    <3>4. Shape(b)
      BY ONLY <1>1, <3>0, <3>1 DEF Shape
    <3>5. Heard(a, b, S, T)
      BY ONLY <1>2, <3>0, <3>1, AvmReadsOn, driver = "avm70", Good(a, S, T), a.pc = "read",
              T \in BOOLEAN
    <3>2. CASE a.op # "get_volume"
      <4>1. Avm!Hear(a, l) = b
        BY <2>1, <2>5, <3>2 DEF Avm!Taken
      <4> QED
        BY <3>5, <4>1
    <3>3. CASE a.op = "get_volume"
      <4>1. Avm!Hear(a, l) = Ask(b, "Z1PVOL?", 0)
        BY <2>1, <2>5, <3>3, AvmWords DEF Avm!Taken
      <4> DEFINE w == Ask(b, "Z1PVOL?", 0)
      <4>2. w = [op |-> a.op, arg |-> a.arg, pc |-> "connect", cmd |-> Command("Z1PVOL?", 0),
                 n |-> b.n, m |-> b.m, got |-> b.got, ans |-> b.ans]
        BY ONLY <3>1, <3>4, NewRecords
      <4> HIDE DEF w
      <4>3. Shape(w) /\ w.pc = "connect" /\ w.op = a.op /\ w.arg = a.arg /\ w.ans = a.ans
        BY <3>1, <3>4, <4>2 DEF Shape
      <4>4. Knows(w, S)
        BY <1>1, <1>2, <2>5, <3>1, <3>3, <4>2 DEF Knows, AvmKnows
      <4>5. Sendings(w) >= Sendings(a)
        <5>1. w.cmd.name \notin Acting
          BY <4>2 DEF Command, Acting, Avm!Acting
        <5> QED
          BY <3>1, <4>2, <5>1 DEF Sendings, Unsent
      <4>6. Heard(a, w, S, T)
        BY <4>3, <4>4, <4>5, GoesOn DEF Heard
      <4> QED
        BY <4>1, <4>6 DEF w
    <3> QED
      BY <3>2, <3>3
  <2>6. CASE /\ a.op \notin {"check_is_on", "current_input", "set_cec"}
             /\ ~(\/ a.op \in {"get_volume", "set_volume"} /\ a.m = 0
                  \/ a.op = "inputs" /\ a.m # Inputs)
    <3>1. Avm!Hear(a, l) = Avm!Done(a, Ok)
      BY <2>1, <2>6 DEF Avm!Taken
    <3> QED
      BY <1>3, <1>9, <1>4, <2>6, <3>1
  <2> QED
    BY <2>2, <2>3, <2>4, <2>5, <2>6
<1>7. CASE l.tag # Avm!Expected(a) /\ l.tag = "!"
  <2>1. Avm!Hear(a, l) = Avm!Done(a, Err)
    BY <1>7 DEF Avm!Hear
  <2> QED
    BY <1>3, <1>5, <2>1
<1>8. CASE l.tag # Avm!Expected(a) /\ l.tag # "!"
  <2>1. Avm!Hear(a, l) = IF a.n = RetryLimit THEN Avm!Done(a, Err) ELSE [a EXCEPT !.n = a.n + 1]
    BY <1>8 DEF Avm!Hear, Avm!Skip
  <2>2. CASE a.n = RetryLimit
    BY <1>3, <1>5, <2>1, <2>2
  <2>3. CASE a.n # RetryLimit
    <3>1. a.n + 1 \in Nat /\ a.n + 1 <= RetryLimit
      BY <1>2, <2>3
    <3>. PICK b : b = [a EXCEPT !.n = a.n + 1]
      OBVIOUS
    <3>2. b = [op |-> a.op, arg |-> a.arg, pc |-> a.pc, cmd |-> a.cmd, n |-> a.n + 1, m |-> a.m,
               got |-> a.got, ans |-> a.ans]
      BY <1>1 DEF Shape
    <3>3. Heard(a, b, S, T)
      BY ONLY <1>2, <3>1, <3>2, AvmReadsOn, driver = "avm70", Good(a, S, T), a.pc = "read",
              T \in BOOLEAN
    <3> QED
      BY <2>1, <2>3, <3>3
  <2> QED
    BY <2>2, <2>3
<1> QED
  BY <1>6, <1>7, <1>8

-----------------------------------------------------------------------------
(* The Apple TV, AppleTv.                                                  *)

\* Its module shares the words of Exchanges.
LEMMA AtvWords ==
  ASSUME NEW a
  PROVE  /\ \A v : Atv!Done(a, v) = Done(a, v)
         /\ \A name, arg : Atv!Ask(a, name, arg) = Ask(a, name, arg)
         /\ \A name, arg : Atv!AskThere(a, name, arg) = AskThere(a, name, arg)
         /\ Atv!Await(a) = Await(a) /\ Atv!Proceed(a) = Proceed(a)
BY DEF Atv!Done, Done, Atv!Ask, Ask, Atv!AskThere, AskThere, Atv!Await, Await, Atv!Proceed,
       Proceed, Atv!Command, Command

\* The Apple TV's first command.
LEMMA AtvFirst ==
  ASSUME driver = "appletv", driver \in DriverNames, NEW op, NEW arg, Asked(op, arg),
         NEW S, MaySee(op, S)
  PROVE  Begun(Atv!First(Start(op, arg)), op, arg, S)
<1> DEFINE a == Start(op, arg)
<1>0. op \in DOMAIN Atv!CommandFor /\ arg \in Nat
  BY AskedIs DEF Methods
<1>1. /\ Shape(a) /\ a.op = op /\ a.arg = arg /\ a.n = 0 /\ a.m = 0 /\ a.got = <<>> /\ a.ans = None
  BY <1>0, StartIs DEF Shape
<1> HIDE DEF a
<1>. PICK b : b = [a EXCEPT !.pc = "lock"]
  OBVIOUS
<1>2. Atv!First(a) = b
  BY DEF Atv!First
<1>3. b.pc = "lock" /\ b.n = 0 /\ b.m = 0 /\ b.op = op /\ NewCall(b, op, arg)
  BY <1>1 DEF NewCall, Shape
<1>4. Knows(b, S)
  BY ONLY <1>0, <1>3, driver = "appletv" DEF Knows, AtvKnows
<1>5. Sendings(b) >= 0
  BY ONLY <1>3, driver = "appletv" DEF Sendings
<1>6. Begun(b, op, arg, S)
  BY ONLY <1>3, <1>4, <1>5, Begins, driver \in DriverNames, Asked(op, arg), MaySee(op, S)
<1> QED
  BY <1>2, <1>6 DEF a

\* The mutex is locked.
LEMMA AtvLocked ==
  ASSUME driver = "appletv", NEW a, NEW S, NEW T, Good(a, S, T), a.pc = "lock",
         NEW session \in BOOLEAN
  PROVE  /\ Onward(a, Atv!Locked(a, session), S, T)
         /\ Atv!Locked(a, session).pc = IF session THEN "send" ELSE "connect"
<1> DEFINE w == Command(Atv!CommandFor[a.op], a.arg)
<1>1. Shape(a) /\ Knows(a, S)
  BY DEF Good
<1> SUFFICES ASSUME NEW b, b = Atv!Locked(a, session)
             PROVE  Onward(a, b, S, T) /\ b.pc = IF session THEN "send" ELSE "connect"
  OBVIOUS
<1>2. b = [op |-> a.op, arg |-> a.arg, pc |-> IF session THEN "send" ELSE "connect", cmd |-> w,
           n |-> a.n, m |-> a.m, got |-> a.got, ans |-> a.ans]
  BY <1>1, AtvWords, NewRecords DEF Atv!Locked
<1> HIDE DEF w
<1>3. Shape(b) /\ b.pc \in {"send", "connect"}
  BY ONLY <1>1, <1>2, session \in BOOLEAN DEF Shape
<1>4. Knows(b, S)
  BY ONLY <1>1, <1>2, <1>3, driver = "appletv" DEF Knows, AtvKnows, w
<1>5. Sendings(b) >= Sendings(a)
  BY ONLY <1>1, <1>2, <1>3, driver = "appletv", a.pc = "lock" DEF Sendings, Shape
<1>6. Onward(a, b, S, T)
  BY ONLY <1>2, <1>3, <1>4, <1>5, GoesOn, Good(a, S, T), a.pc = "lock"
<1> QED
  BY <1>2, <1>6

\* The Apple TV, connected.
LEMMA AtvConnected ==
  ASSUME driver = "appletv", NEW a, NEW S, NEW T, Good(a, S, T), a.pc = "connect"
  PROVE  Onward(a, Atv!Connected(a), S, T) /\ Atv!Connected(a) = Proceed(a)
<1> DEFINE b == Proceed(a)
<1>1. Atv!Connected(a) = b
  BY AtvWords DEF Atv!Connected
<1>2. Shape(a) /\ Knows(a, S)
  BY DEF Good
<1>3. Passed(a, b, "send")
  BY <1>2, PassesOn
<1> HIDE DEF b
<1>4. Knows(b, S) /\ Sendings(b) >= Sendings(a)
  BY <1>2, <1>3, SendingsKept DEF Knows, AtvKnows, Passed, Shape
<1>5. Onward(a, b, S, T)
  BY <1>3, <1>4, GoesOn DEF Passed
<1> QED
  BY <1>1, <1>5 DEF b

\* The Apple TV's command is written.
LEMMA AtvSent ==
  ASSUME driver = "appletv", NEW a, NEW S, NEW T \in BOOLEAN, Good(a, S, T), a.pc = "send"
  PROVE  Written(a, Atv!Sent(a), S, T)
<1>1. Shape(a) /\ Knows(a, S) /\ driver \in DOMAIN Methods
  BY DEF Good, Methods
<1>2. Atv!Sent(a) = Await(a)
  BY AtvWords DEF Atv!Sent
<1>3. Knows(Await(a), S)
  BY <1>1, PassesOn DEF Knows, AtvKnows, Passed
<1> QED
  BY <1>1, <1>2, <1>3, WrittenIs

\* Failures end the call, or it connects anew for the command it has.
LEMMA AtvBroken ==
  ASSUME driver = "appletv", NEW a, NEW S, NEW T \in BOOLEAN, Good(a, S, T),
         a.pc \in {"connect", "send", "read"}, NEW how
  PROVE  Onward(a, Atv!Broken(a, how), S, T) /\ Atv!Broken(a, how).pc \in {"connect", "return"}
<1>1. Shape(a) /\ Knows(a, S) /\ driver \in DOMAIN Methods
  BY DEF Good, Methods
<1>2. CASE ~(Atv!should_reconnect(how) /\ a.n = 0)
  <2>1. Atv!Broken(a, how) = Done(a, Err)
    BY <1>2, AtvWords DEF Atv!Broken
  <2> QED
    BY <1>1, <2>1, Fails
<1>3. CASE Atv!should_reconnect(how) /\ a.n = 0
  <2>. PICK d : d = [a EXCEPT !.n = 1]
    OBVIOUS
  <2>1. Atv!Broken(a, how) = Ask(d, a.cmd.name, a.arg)
    BY <1>3, AtvWords DEF Atv!Broken
  <2>2. d = [op |-> a.op, arg |-> a.arg, pc |-> a.pc, cmd |-> a.cmd, n |-> 1, m |-> a.m,
             got |-> a.got, ans |-> a.ans]
    BY <1>1 DEF Shape
  <2>3. Shape(d)
    BY ONLY <1>1, <2>2 DEF Shape
  <2>4. a.cmd = Command(Atv!CommandFor[a.op], a.arg) /\ a.cmd = Command(a.cmd.name, a.arg)
    BY <1>1 DEF Knows, AtvKnows, Command
  <2>. PICK b : b = Ask(d, a.cmd.name, a.arg)
    OBVIOUS
  <2>5. b = [op |-> a.op, arg |-> a.arg, pc |-> "connect", cmd |-> a.cmd, n |-> 1, m |-> a.m,
             got |-> a.got, ans |-> a.ans]
    BY ONLY b = Ask(d, a.cmd.name, a.arg), <2>2, <2>3, <2>4, NewRecords
  <2>6. Shape(b) /\ Knows(b, S)
    BY ONLY <1>1, <2>4, <2>5, driver = "appletv" DEF Shape, Knows, AtvKnows
  <2>7. Sendings(b) >= Sendings(a)
    BY ONLY <1>1, <1>3, <2>5, driver = "appletv", a.pc \in {"connect", "send", "read"}
    DEF Sendings, Shape
  <2>8. Onward(a, b, S, T)
    BY ONLY <2>5, <2>6, <2>7, GoesOn, Good(a, S, T), a.pc \in {"connect", "send", "read"}
  <2> QED
    BY ONLY <2>1, <2>5, <2>8, b = Ask(d, a.cmd.name, a.arg)
<1> QED
  BY <1>2, <1>3

\* A line of the Apple TV is read.
LEMMA AtvHear ==
  ASSUME driver = "appletv", NEW a, NEW S, NEW T \in BOOLEAN, Good(a, S, T), a.pc = "read",
         NEW l, AtvSays(a.op, a.cmd.name, l, S, T)
  PROVE  Heard(a, Atv!Hear(a, l), S, T)
<1>1. Shape(a) /\ Knows(a, S) /\ driver \in DOMAIN Methods
  BY DEF Good, Methods
<1>2. Atv!PowerOf(l.val) = PowerOf(l.val)
  BY DEF Atv!PowerOf, PowerOf
<1>3. CASE l.tag = "refused"
  <2>1. Atv!Hear(a, l) = Done(a, Err)
    BY <1>3, AtvWords DEF Atv!Hear
  <2> QED
    BY <1>1, <2>1, Fails DEF Heard
<1>4. CASE l.tag # "refused" /\ a.op = "check_is_on"
  <2>1. Atv!Hear(a, l) = Done(a, PowerOf(l.val))
    BY <1>2, <1>4, AtvWords DEF Atv!Hear
  <2>2. PowerOf(l.val) \in S /\ PowerOf(l.val) \in RawAnswers
    BY <1>4 DEF AtvSays, PowerOf, RawAnswers
  <2>3. Kept(RequestOf(a), S, T, PowerOf(l.val))
    BY <1>4, <2>2 DEF Kept, Class, Confirmed, Queries, RequestOf
  <2> QED
    BY <1>1, <1>4, <2>1, <2>2, <2>3, Answers_ DEF Whole
<1>5. CASE l.tag # "refused" /\ a.op # "check_is_on"
  <2>1. Atv!Hear(a, l) = Done(a, Ok)
    BY <1>5, AtvWords DEF Atv!Hear
  <2>2. T
    BY <1>5 DEF AtvSays
  <2>3. a.op \in {"turn_on", "turn_off", "key"}
    BY <1>1, <1>5 DEF Knows, AtvKnows, Atv!CommandFor
  <2>4. Kept(RequestOf(a), S, T, Ok) /\ Ok \in RawAnswers
    BY <2>2, <2>3 DEF Kept, Class, Confirmed, RequestOf, RawAnswers
  <2> QED
    BY <1>1, <2>1, <2>4, Answers_ DEF Whole
<1> QED
  BY <1>3, <1>4, <1>5

-----------------------------------------------------------------------------
(* The player Udp203.                                                      *)

\* Its module shares the words of Exchanges.
LEMMA OppoWords ==
  ASSUME NEW a
  PROVE  /\ \A v : Oppo!Done(a, v) = Done(a, v)
         /\ \A name, arg : Oppo!Ask(a, name, arg) = Ask(a, name, arg)
         /\ Oppo!Await(a) = Await(a) /\ Oppo!Proceed(a) = Proceed(a)
BY DEF Oppo!Done, Done, Oppo!Ask, Ask, Oppo!Await, Await, Oppo!Proceed, Proceed, Oppo!Command,
       Command

\* The player's first command.
LEMMA OppoFirst ==
  ASSUME driver = "udp203", driver \in DriverNames, NEW op, NEW arg, Asked(op, arg),
         NEW S, MaySee(op, S)
  PROVE  Begun(Oppo!First(Start(op, arg)), op, arg, S)
<1> DEFINE b == Oppo!First(Start(op, arg))
           x == arg
<1>0. op \in DOMAIN Oppo!CommandFor /\ arg \in Nat
  BY AskedIs DEF Methods
<1>1. b = Ask(Start(op, arg), Oppo!CommandFor[op], x)
  BY StartIs, OppoWords DEF Oppo!First
<1>2. b.pc = "connect" /\ b.cmd = Command(Oppo!CommandFor[op], x) /\ NewCall(b, op, arg)
  BY <1>0, <1>1, NewAsked
<1> HIDE DEF b
<1>3. Knows(b, S)
  BY <1>0, <1>2, LimitsAssumption DEF Knows, OppoKnows, NewCall, Command
<1>4. Sendings(b) >= 0
  BY <1>2 DEF Sendings, Unsent
<1>5. Begun(b, op, arg, S)
  BY <1>2, <1>3, <1>4, Begins
<1> QED
  BY <1>5 DEF b

\* The player, connected.
LEMMA OppoConnected ==
  ASSUME driver = "udp203", NEW a, NEW S, NEW T, Good(a, S, T), a.pc = "connect"
  PROVE  Onward(a, Oppo!Connected(a), S, T) /\ Oppo!Connected(a) = Proceed(a)
<1> DEFINE b == Proceed(a)
<1>1. Oppo!Connected(a) = b
  BY OppoWords DEF Oppo!Connected
<1>2. Shape(a) /\ Knows(a, S)
  BY DEF Good
<1>3. Passed(a, b, "send")
  BY <1>2, PassesOn
<1> HIDE DEF b
<1>4. Knows(b, S) /\ Sendings(b) >= Sendings(a)
  BY <1>2, <1>3, SendingsKept DEF Knows, OppoKnows, Passed, Shape
<1>5. Onward(a, b, S, T)
  BY <1>3, <1>4, GoesOn DEF Passed
<1> QED
  BY <1>1, <1>5 DEF b

\* The player's command is written.
LEMMA OppoSent ==
  ASSUME driver = "udp203", NEW a, NEW S, NEW T \in BOOLEAN, Good(a, S, T), a.pc = "send"
  PROVE  Written(a, Oppo!Sent(a), S, T)
<1>1. Shape(a) /\ Knows(a, S) /\ driver \in DOMAIN Methods
  BY DEF Good, Methods
<1>2. Oppo!Sent(a) = Await(a)
  BY OppoWords DEF Oppo!Sent
<1>3. Knows(Await(a), S)
  BY <1>1, PassesOn DEF Knows, OppoKnows, Passed
<1> QED
  BY <1>1, <1>2, <1>3, WrittenIs

\* A line of the player is read.
LEMMA OppoHear ==
  ASSUME driver = "udp203", NEW a, NEW S, NEW T \in BOOLEAN, Good(a, S, T),
         a.pc \in {"connect", "send", "read"}, NEW l, OppoSays(a.op, a.cmd.name, l, S, T)
  PROVE  Heard(a, Oppo!Hear(a, l), S, T) /\ Oppo!Hear(a, l).pc = "return"
<1>1. Shape(a) /\ Knows(a, S) /\ driver \in DOMAIN Methods
  BY DEF Good, Methods
<1>2. ASSUME NEW v, Oppo!Hear(a, l) = Done(a, v), v \in RawAnswers,
             v \in {Err, Panic} \/ Kept(RequestOf(a), S, T, v)
      PROVE  Heard(a, Oppo!Hear(a, l), S, T) /\ Oppo!Hear(a, l).pc = "return"
  BY <1>1, <1>2, Answers_, NewRecords DEF Whole
<1>3. {On, Off, Ok, Err, Panic} \subseteq RawAnswers
  BY DEF RawAnswers
<1>6. CASE l.tag = "full"
  <2>1. Oppo!Hear(a, l) = Done(a, Panic)
    BY <1>6, OppoWords DEF Oppo!Hear
  <2> QED
    BY <1>2, <1>3, <2>1
<1>4. CASE l.tag # "full" /\ a.op = "check_is_on"
  <2> DEFINE v == IF l = Line("@OK", 1) THEN On ELSE Off
  <2>1. Oppo!Hear(a, l) = Done(a, v)
    BY <1>4, OppoWords DEF Oppo!Hear, Oppo!Line, Line
  <2>2. v \in {On, Off} /\ v \in S \cup {Off}
    BY <1>4 DEF OppoSays, Line
  <2>3. Class(RequestOf(a)) = "query" /\ Vague(RequestOf(a)) = Off
    BY <1>4 DEF Class, Confirmed, Queries, RequestOf, Vague
  <2> HIDE DEF v
  <2>4. Kept(RequestOf(a), S, T, v)
    BY <2>2, <2>3 DEF Kept
  <2> QED
    BY <1>2, <1>3, <2>1, <2>2, <2>4
<1>5. CASE l.tag # "full" /\ a.op # "check_is_on"
  <2> DEFINE v == IF l.tag = "@OK" THEN Ok ELSE Err
  <2>1. Oppo!Hear(a, l) = Done(a, v)
    BY <1>5, OppoWords DEF Oppo!Hear
  <2>2. Class(RequestOf(a)) = "confirmed"
    BY <1>1, <1>5 DEF Knows, OppoKnows, Oppo!CommandFor, Class, Confirmed, RequestOf
  <2>3. l.tag = "@OK" => T
    BY <1>5 DEF OppoSays
  <2>4. v = Err \/ (v = Ok /\ Kept(RequestOf(a), S, T, v))
    BY <2>2, <2>3 DEF Kept
  <2> HIDE DEF v
  <2> QED
    BY <1>2, <1>3, <2>1, <2>4
<1> QED
  BY <1>4, <1>5, <1>6

\* An exchange with the player fails.
LEMMA OppoBroken ==
  ASSUME driver = "udp203", NEW a, NEW S, NEW T \in BOOLEAN, Good(a, S, T),
         a.pc \in {"connect", "send", "read"}, NEW how
  PROVE  Onward(a, Oppo!Broken(a, how), S, T) /\ Oppo!Broken(a, how).pc = "return"
<1> DEFINE l == Oppo!Line("part", 0)
<1>1. OppoSays(a.op, a.cmd.name, l, S, T)
  BY DEF OppoSays, Oppo!Line
<1> HIDE DEF l
<1>2. Heard(a, Oppo!Hear(a, l), S, T) /\ Oppo!Hear(a, l).pc = "return"
  BY <1>1, OppoHear
<1>3. Oppo!Broken(a, how) = IF how = "eof" THEN Oppo!Hear(a, l) ELSE Done(a, Err)
  BY OppoWords DEF Oppo!Broken, l
<1> QED
  BY <1>2, <1>3, Fails DEF Heard, Methods

-----------------------------------------------------------------------------
(* The projector PjTalk.                                                   *)

\* Its module shares the words of Exchanges.
LEMMA PjWords ==
  ASSUME NEW a
  PROVE  /\ \A v : Pj!Done(a, v) = Done(a, v)
         /\ \A name, arg : Pj!Ask(a, name, arg) = Ask(a, name, arg)
         /\ Pj!Await(a) = Await(a) /\ Pj!Proceed(a) = Proceed(a)
BY DEF Pj!Done, Done, Pj!Ask, Ask, Pj!Await, Await, Pj!Proceed, Proceed, Pj!Command, Command

\* The projector's first command.
LEMMA PjFirst ==
  ASSUME driver = "pj_talk", driver \in DriverNames, NEW op, NEW arg, Asked(op, arg),
         NEW S, MaySee(op, S)
  PROVE  Begun(Pj!First(Start(op, arg)), op, arg, S)
<1> DEFINE b == Pj!First(Start(op, arg))
           x == IF op = "turn_on" THEN 1 ELSE arg
<1>0. op \in DOMAIN Pj!CommandFor /\ arg \in Nat
  BY AskedIs DEF Methods
<1>1. b = Ask(Start(op, arg), Pj!CommandFor[op], x)
  BY StartIs, PjWords DEF Pj!First, Pj!Argument
<1>2. b.pc = "connect" /\ b.cmd = Command(Pj!CommandFor[op], x) /\ NewCall(b, op, arg)
  BY <1>0, <1>1, NewAsked
<1> HIDE DEF b
<1>3. Knows(b, S)
  BY <1>0, <1>2, LimitsAssumption DEF Knows, PjKnows, NewCall, Command, Pj!Argument
<1>4. Sendings(b) >= 0
  BY <1>2 DEF Sendings, Unsent
<1>5. Begun(b, op, arg, S)
  BY <1>2, <1>3, <1>4, Begins
<1> QED
  BY <1>5 DEF b

\* The projector, connected.
LEMMA PjConnected ==
  ASSUME driver = "pj_talk", NEW a, NEW S, NEW T, Good(a, S, T), a.pc = "connect"
  PROVE  Onward(a, Pj!Connected(a), S, T) /\ Pj!Connected(a) = Proceed(a)
<1> DEFINE b == Proceed(a)
<1>1. Pj!Connected(a) = b
  BY PjWords DEF Pj!Connected
<1>2. Shape(a) /\ Knows(a, S)
  BY DEF Good
<1>3. Passed(a, b, "send")
  BY <1>2, PassesOn
<1> HIDE DEF b
<1>4. Knows(b, S) /\ Sendings(b) >= Sendings(a)
  BY <1>2, <1>3, SendingsKept DEF Knows, PjKnows, Passed, Shape, Pj!Argument
<1>5. Onward(a, b, S, T)
  BY <1>3, <1>4, GoesOn DEF Passed
<1> QED
  BY <1>1, <1>5 DEF b

\* The projector's command is written.
LEMMA PjSent ==
  ASSUME driver = "pj_talk", NEW a, NEW S, NEW T \in BOOLEAN, Good(a, S, T), a.pc = "send"
  PROVE  Written(a, Pj!Sent(a), S, T)
<1>1. Shape(a) /\ Knows(a, S) /\ driver \in DOMAIN Methods
  BY DEF Good, Methods
<1>2. CASE a.op \in {"check_is_on", "picture_position", "set"}
  <2>1. Pj!Sent(a) = Await(a)
    BY <1>2, PjWords DEF Pj!Sent
  <2>2. Knows(Await(a), S)
    BY <1>1, PassesOn DEF Knows, PjKnows, Passed, Pj!Argument
  <2> QED
    BY <1>1, <2>1, <2>2, WrittenIs
<1>3. CASE a.op \notin {"check_is_on", "picture_position", "set"}
  <2>1. Pj!Sent(a) = Done(a, Ok)
    BY <1>3, PjWords DEF Pj!Sent
  <2>2. Kept(RequestOf(a), S, T, Ok) /\ Ok \in RawAnswers /\ Whole(a, Ok)
    BY <1>1, <1>3 DEF Knows, PjKnows, Pj!CommandFor, Kept, Class, Confirmed, Queries, RequestOf,
                      RawAnswers, Whole
  <2> QED
    BY <1>1, <2>1, <2>2, Answered, WrittenIs
<1> QED
  BY <1>2, <1>3

\* An exchange with the projector fails.
LEMMA PjBroken ==
  ASSUME driver = "pj_talk", NEW a, NEW S, NEW T \in BOOLEAN, Good(a, S, T),
         a.pc \in {"connect", "send", "read"}, NEW how
  PROVE  Onward(a, Pj!Broken(a, how), S, T) /\ Pj!Broken(a, how).pc = "return"
<1>1. Shape(a) /\ Knows(a, S) /\ driver \in DOMAIN Methods
  BY DEF Good, Methods
<1>2. CASE a.n = 1 /\ how = "eof"
  <2>1. Pj!Broken(a, how) = Done(a, Ok)
    BY <1>2, PjWords DEF Pj!Broken
  <2>2. Kept(RequestOf(a), S, T, Ok) /\ Ok \in RawAnswers /\ Whole(a, Ok)
    BY <1>1, <1>2 DEF Knows, PjKnows, Kept, Class, Confirmed, Queries, RequestOf, RawAnswers, Whole
  <2>3. Onward(a, Done(a, Ok), S, T) /\ Done(a, Ok).pc = "return"
    BY <1>1, <2>2, Answered, NewRecords
  <2> QED
    BY <2>1, <2>3
<1>3. CASE ~(a.n = 1 /\ how = "eof")
  <2>1. Pj!Broken(a, how) = Done(a, Err)
    BY <1>3, PjWords DEF Pj!Broken
  <2> QED
    BY <2>1, Fails DEF Methods
<1> QED
  BY <1>2, <1>3

\* A line of the projector is read.
LEMMA PjHear ==
  ASSUME driver = "pj_talk", NEW a, NEW S, NEW T \in BOOLEAN, Good(a, S, T), a.pc = "read",
         NEW l, PjSays(a.op, a.cmd.name, l, S, T)
  PROVE  Heard(a, Pj!Hear(a, l), S, T)
<1>1. Shape(a) /\ Knows(a, S) /\ driver \in DOMAIN Methods /\ MaySee(a.op, S)
  BY DEF Good, Methods
<1>2. ASSUME NEW v, Pj!Hear(a, l) = Done(a, v), v \in RawAnswers,
             v \in {Err, Panic} \/ Kept(RequestOf(a), S, T, v)
      PROVE  Heard(a, Pj!Hear(a, l), S, T)
  BY <1>1, <1>2, Answers_ DEF Whole
<1>3. {On, Off, Ok, Err} \subseteq RawAnswers
  BY DEF RawAnswers
<1>8. CASE l.tag = "bare"
  <2> DEFINE b == [a EXCEPT !.n = 1]
  <2>1. Pj!Hear(a, l) = b /\ a.op = "set"
    BY <1>8 DEF Pj!Hear, PjSays
  <2>5. b = [op |-> a.op, arg |-> a.arg, pc |-> a.pc, cmd |-> a.cmd, n |-> 1, m |-> a.m,
             got |-> a.got, ans |-> a.ans]
    BY <1>1 DEF Shape
  <2> HIDE DEF b
  <2>2. /\ b.op = a.op /\ b.arg = a.arg /\ b.pc = a.pc /\ b.cmd = a.cmd /\ b.n = 1 /\ b.m = a.m
        /\ b.got = a.got /\ b.ans = a.ans /\ Shape(b)
    BY ONLY <1>1, <2>5 DEF Shape
  <2>3. Knows(b, S)
    BY <1>1, <2>1, <2>2 DEF Knows, PjKnows, Pj!Argument
  <2>4. Sendings(b) >= Sendings(a)
    BY <1>1, <2>2, SendingsKept DEF Knows, PjKnows
  <2> QED
    BY <2>1, <2>2, <2>3, <2>4, GoesOn DEF Heard
<1>4. CASE l.tag = "error" \/ (l.tag = "part" /\ a.op # "set")
  <2>1. Pj!Hear(a, l) = Done(a, Err)
    BY <1>4, PjWords DEF Pj!Hear
  <2> QED
    BY <1>2, <1>3, <2>1
<1>5. CASE l.tag # "bare" /\ ~(l.tag = "error" \/ (l.tag = "part" /\ a.op # "set")) /\ a.op = "check_is_on"
  <2> DEFINE v == IF Pj!StatusIsOn(l.val) THEN On ELSE Off
  <2>1. Pj!Hear(a, l) = Done(a, v)
    BY <1>5, PjWords DEF Pj!Hear
  <2>2. v \in {On, Off} /\ v \in S
    BY <1>5 DEF PjSays
  <2> HIDE DEF v
  <2>3. Kept(RequestOf(a), S, T, v)
    BY <1>5, <2>2 DEF Kept, Class, Confirmed, Queries, RequestOf
  <2> QED
    BY <1>2, <1>3, <2>1, <2>2, <2>3
<1>6. CASE l.tag # "bare" /\ ~(l.tag = "error" \/ (l.tag = "part" /\ a.op # "set")) /\ a.op = "picture_position"
  <2>1. Pj!Hear(a, l) = Done(a, l.val)
    BY <1>6, PjWords DEF Pj!Hear
  <2>2. l.val \in S
    BY <1>6 DEF PjSays
  <2>3. Kept(RequestOf(a), S, T, l.val) /\ l.val \in RawAnswers
    BY <1>1, <1>6, <2>2 DEF Kept, Class, Confirmed, Queries, RequestOf, MaySee
  <2> QED
    BY <1>2, <2>1, <2>3
<1>7. CASE /\ l.tag # "bare" /\ ~(l.tag = "error" \/ (l.tag = "part" /\ a.op # "set"))
           /\ a.op \notin {"check_is_on", "picture_position"}
  <2>1. Pj!Hear(a, l) = Done(a, Ok)
    BY <1>7, PjWords DEF Pj!Hear
  <2>2. Kept(RequestOf(a), S, T, Ok)
    BY <1>1, <1>7 DEF Knows, PjKnows, Pj!CommandFor, Kept, Class, Confirmed, Queries, RequestOf
  <2> QED
    BY <1>2, <1>3, <2>1, <2>2
<1> QED
  BY <1>4, <1>5, <1>6, <1>7, <1>8

-----------------------------------------------------------------------------
(* The receiver StrZa5000.                                                 *)

\* Its module shares the words of Exchanges.
LEMMA StrWords ==
  ASSUME NEW a
  PROVE  /\ \A v : Str!Done(a, v) = Done(a, v)
         /\ \A name, arg : Str!Ask(a, name, arg) = Ask(a, name, arg)
         /\ Str!Await(a) = Await(a) /\ Str!Proceed(a) = Proceed(a)
BY DEF Str!Done, Done, Str!Ask, Ask, Str!Await, Await, Str!Proceed, Proceed, Str!Command, Command

\* The receiver's first command.
LEMMA StrFirst ==
  ASSUME driver = "za5000", driver \in DriverNames, NEW op, NEW arg, Asked(op, arg),
         NEW S, MaySee(op, S)
  PROVE  Begun(Str!First(Start(op, arg)), op, arg, S)
<1> DEFINE b == Str!First(Start(op, arg))
           x == arg
<1>0. op \in DOMAIN Str!CommandFor /\ arg \in Nat
  BY AskedIs DEF Methods
<1>1. b = Ask(Start(op, arg), Str!CommandFor[op], x)
  BY StartIs, StrWords DEF Str!First, Str!CommandFor
<1>2. b.pc = "connect" /\ b.cmd = Command(Str!CommandFor[op], x) /\ NewCall(b, op, arg)
  BY <1>0, <1>1, NewAsked
<1> HIDE DEF b
<1>3. Knows(b, S)
  BY <1>0, <1>2, LimitsAssumption DEF Knows, StrKnows, NewCall, Command, Str!CommandFor
<1>4. Sendings(b) >= 0
  BY <1>2 DEF Sendings, Unsent
<1>5. Begun(b, op, arg, S)
  BY <1>2, <1>3, <1>4, Begins
<1> QED
  BY <1>5 DEF b

\* The receiver, connected.
LEMMA StrConnected ==
  ASSUME driver = "za5000", NEW a, NEW S, NEW T, Good(a, S, T), a.pc = "connect"
  PROVE  Onward(a, Str!Connected(a), S, T) /\ Str!Connected(a) = Proceed(a)
<1> DEFINE b == Proceed(a)
<1>1. Str!Connected(a) = b
  BY StrWords DEF Str!Connected
<1>2. Shape(a) /\ Knows(a, S)
  BY DEF Good
<1>3. Passed(a, b, "send")
  BY <1>2, PassesOn
<1> HIDE DEF b
<1>4. Knows(b, S) /\ Sendings(b) >= Sendings(a)
  BY <1>2, <1>3, SendingsKept DEF Knows, StrKnows, Passed, Shape
<1>5. Onward(a, b, S, T)
  BY <1>3, <1>4, GoesOn DEF Passed
<1> QED
  BY <1>1, <1>5 DEF b

\* The receiver's command is written.
LEMMA StrSent ==
  ASSUME driver = "za5000", NEW a, NEW S, NEW T \in BOOLEAN, Good(a, S, T), a.pc = "send"
  PROVE  Written(a, Str!Sent(a), S, T)
<1>1. Shape(a) /\ Knows(a, S) /\ driver \in DOMAIN Methods
  BY DEF Good, Methods
<1>2. Str!Sent(a) = Await(a)
  BY StrWords DEF Str!Sent
<1>3. Knows(Await(a), S)
  BY <1>1, PassesOn DEF Knows, StrKnows, Passed
<1> QED
  BY <1>1, <1>2, <1>3, WrittenIs

\* The answer of a receiver that is off, or of a failure.
LEMMA StrWasOff ==
  ASSUME driver = "za5000", NEW a, NEW S, NEW T \in BOOLEAN, Good(a, S, T),
         a.pc \in {"connect", "send", "read"}, a.cmd.name = "power?",
         a.op = "check_is_on" => Off \in S
  PROVE  Heard(a, Str!WasOff(a), S, T) /\ Str!WasOff(a).pc = "return"
<1>1. Shape(a) /\ Knows(a, S) /\ driver \in DOMAIN Methods
  BY DEF Good, Methods
<1>2. ASSUME NEW v, Str!WasOff(a) = Done(a, v), v \in RawAnswers,
             v \in {Err, Panic} \/ Kept(RequestOf(a), S, T, v)
      PROVE  Heard(a, Str!WasOff(a), S, T) /\ Str!WasOff(a).pc = "return"
  BY <1>1, <1>2, Answers_, NewRecords DEF Whole
<1>3. {On, Off, Ok, Err, Unknown} \subseteq RawAnswers
  BY DEF RawAnswers
<1>4. CASE a.op = "check_is_on"
  <2>1. Str!WasOff(a) = Done(a, Off)
    BY <1>4, StrWords DEF Str!WasOff
  <2>2. Kept(RequestOf(a), S, T, Off)
    BY <1>4 DEF Kept, Class, Confirmed, Queries, RequestOf
  <2> QED
    BY <1>2, <1>3, <2>1, <2>2
<1>5. CASE a.op = "get_video_input"
  <2>1. Str!WasOff(a) = Done(a, Unknown)
    BY <1>5, StrWords DEF Str!WasOff
  <2>2. Kept(RequestOf(a), S, T, Unknown)
    BY <1>5 DEF Kept, Class, Confirmed, Queries, RequestOf, Vague
  <2> QED
    BY <1>2, <1>3, <2>1, <2>2
<1>6. CASE a.op = "set_video_input"
  <2> DEFINE v == IF a.m = 1 /\ a.arg = 0 THEN Ok ELSE Err
  <2>1. Str!WasOff(a) = Done(a, v)
    BY <1>6, StrWords DEF Str!WasOff
  <2>2. v = Err \/ (v = Ok /\ Kept(RequestOf(a), S, T, v))
    BY <1>6 DEF Kept, Class, Confirmed, Queries, RequestOf
  <2> HIDE DEF v
  <2> QED
    BY <1>2, <1>3, <2>1, <2>2
<1>7. CASE a.op \notin {"check_is_on", "get_video_input", "set_video_input"}
  <2>1. Str!WasOff(a) = Done(a, Off)
    BY <1>7, StrWords DEF Str!WasOff
  <2>2. a.op \in {"check_is_muted", "toggle_mute"}
    BY <1>1, <1>7 DEF Knows, StrKnows, Str!CommandFor
  <2>3. Class(RequestOf(a)) = "query" /\ Vague(RequestOf(a)) = Off
    BY <2>2 DEF Class, Confirmed, Queries, RequestOf, Vague
  <2>4. Kept(RequestOf(a), S, T, Off)
    BY <2>3 DEF Kept
  <2> QED
    BY <1>2, <1>3, <2>1, <2>4
<1> QED
  BY <1>4, <1>5, <1>6, <1>7

\* The next question.
LEMMA StrAsks ==
  ASSUME driver = "za5000", NEW a, NEW S, NEW T \in BOOLEAN, Good(a, S, T), a.pc = "read",
         NEW j \in {0, 1}, NEW name, NEW x \in Nat,
         NEW b, b = [op |-> a.op, arg |-> a.arg, pc |-> "connect", cmd |-> Command(name, x),
                     n |-> a.n, m |-> j, got |-> a.got, ans |-> a.ans],
         \/ /\ j = a.m /\ name = "input?" /\ a.cmd.name = "power?"
            /\ a.op = "get_video_input" \/ (a.op = "set_video_input" /\ a.m = 1)
         \/ j = 0 /\ a.m = 0 /\ a.op = "set_video_input" /\ name = "set_input" /\ x = a.arg
              /\ a.cmd.name = "power?"
         \/ j = 1 /\ a.op = "set_video_input" /\ name = "power?" /\ a.cmd.name = "set_input"
         \/ j = a.m /\ a.op \in {"check_is_muted", "toggle_mute"} /\ name = "mute?" 
         \/ j = a.m /\ a.op = "toggle_mute" /\ name = "power?"
  PROVE  Heard(a, b, S, T)
<1>1. Shape(a) /\ Knows(a, S)
  BY DEF Good
<1>2. Shape(b)
  BY <1>1 DEF Shape
<1>3. Knows(b, S)
  BY <1>1 DEF Knows, StrKnows, Shape, Command, Str!CommandFor
<1>4. Sendings(b) >= Sendings(a)
  <2>1. Sendings(a) = (IF Unsent(a) THEN 0 ELSE 1) /\ Sendings(b) = IF Unsent(b) THEN 0 ELSE 1
    BY DEF Sendings
  <2>2. Unsent(b) => Unsent(a)
    BY <1>1 DEF Unsent, Command, Acting, Str!Acting, Knows, StrKnows
  <2> QED
    BY <2>1, <2>2
<1> QED
  BY <1>1, <1>2, <1>3, <1>4, GoesOn DEF Heard

\* The receiver is on: the call goes on to what it is about.
LEMMA StrWasOn ==
  ASSUME driver = "za5000", NEW a, NEW S, NEW T \in BOOLEAN, Good(a, S, T),
         a.pc = "read", a.cmd.name = "power?", a.op = "check_is_on" => On \in S
  PROVE  Heard(a, Str!WasOn(a), S, T)
<1>1. Shape(a) /\ Knows(a, S) /\ driver \in DOMAIN Methods /\ a.arg \in Nat /\ a.m \in {0, 1}
  BY DEF Good, Methods, Knows, StrKnows, Shape
<1>2. \A name, x : Ask(a, name, x) =
        [op |-> a.op, arg |-> a.arg, pc |-> "connect", cmd |-> Command(name, x),
         n |-> a.n, m |-> a.m, got |-> a.got, ans |-> a.ans]
  BY <1>1, NewRecords
<1>3. CASE a.op = "check_is_on"
  <2>1. Str!WasOn(a) = Done(a, On)
    BY <1>3, StrWords DEF Str!WasOn
  <2>2. Kept(RequestOf(a), S, T, On) /\ On \in RawAnswers
    BY <1>3 DEF Kept, Class, Confirmed, Queries, RequestOf, RawAnswers
  <2> QED
    BY <1>1, <1>3, <2>1, <2>2, Answers_ DEF Whole
<1>4. CASE a.op = "get_video_input" \/ (a.op = "set_video_input" /\ a.m = 1)
  <2>1. Str!WasOn(a) = Ask(a, "input?", 0)
    BY <1>4, StrWords DEF Str!WasOn
  <2> QED
    BY <1>1, <1>2, <1>4, <2>1, StrAsks
<1>5. CASE a.op = "set_video_input" /\ a.m = 0
  <2>1. Str!WasOn(a) = Ask(a, "set_input", a.arg)
    BY <1>5, StrWords DEF Str!WasOn
  <2> QED
    BY <1>1, <1>2, <1>5, <2>1, StrAsks
<1>6. CASE a.op \notin {"check_is_on", "get_video_input", "set_video_input"}
  <2>1. Str!WasOn(a) = Ask(a, "mute?", 0)
    BY <1>6, StrWords DEF Str!WasOn
  <2>2. a.op \in {"check_is_muted", "toggle_mute"}
    BY <1>1, <1>6 DEF Knows, StrKnows, Str!CommandFor
  <2> QED
    BY <1>1, <1>2, <2>1, <2>2, StrAsks
<1> QED
  BY <1>1, <1>3, <1>4, <1>5, <1>6

\* An exchange with the receiver fails.
LEMMA StrBroken ==
  ASSUME driver = "za5000", NEW a, NEW S, NEW T \in BOOLEAN, Good(a, S, T),
         a.pc \in {"connect", "send", "read"}, NEW how
  PROVE  Onward(a, Str!Broken(a, how), S, T) /\ Str!Broken(a, how).pc = "return"
<1>1. CASE a.cmd.name = "power?" /\ a.op # "check_is_on"
  <2>1. Str!Broken(a, how) = Str!WasOff(a)
    BY <1>1 DEF Str!Broken
  <2> QED
    BY <1>1, <2>1, StrWasOff DEF Heard
<1>2. CASE ~(a.cmd.name = "power?" /\ a.op # "check_is_on")
  <2>1. Str!Broken(a, how) = Done(a, Err)
    BY <1>2, StrWords DEF Str!Broken
  <2> QED
    BY <2>1, Fails DEF Methods
<1> QED
  BY <1>1, <1>2

\* A body that cannot be parsed.
LEMMA StrUnparsed ==
  ASSUME driver = "za5000", NEW a, NEW S, NEW T \in BOOLEAN, Good(a, S, T), a.pc = "read"
  PROVE  Heard(a, Str!Unparsed(a), S, T)
<1> DEFINE d == [a EXCEPT !.n = 1]
<1>1. Shape(a) /\ Knows(a, S) /\ driver \in DOMAIN Methods
  BY DEF Good, Methods
<1>7. d = [op |-> a.op, arg |-> a.arg, pc |-> a.pc, cmd |-> a.cmd, n |-> 1, m |-> a.m,
           got |-> a.got, ans |-> a.ans]
  BY <1>1 DEF Shape
<1>3. Str!Unparsed(a) = Done(d, Err)
  BY StrWords DEF Str!Unparsed
<1> HIDE DEF d
<1>2. /\ d.op = a.op /\ d.arg = a.arg /\ d.pc = a.pc /\ d.cmd = a.cmd /\ d.n = 1 /\ d.m = a.m
      /\ d.got = a.got /\ d.ans = a.ans /\ Shape(d)
  BY ONLY <1>1, <1>7 DEF Shape
<1>4. Good(d, S, T)
  <2>1. Knows(d, S)
    BY <1>1, <1>2 DEF Knows, StrKnows
  <2> QED
    BY <1>2, <2>1 DEF Good
<1>5. Onward(d, Done(d, Err), S, T) /\ Done(d, Err).pc = "return"
  BY <1>1, <1>2, <1>4, Fails
<1>6. Sendings(d) = Sendings(a)
  BY <1>2 DEF Sendings, Unsent
<1> QED
  BY <1>2, <1>3, <1>5, <1>6 DEF Heard, Onward

\* A line of the receiver is read.
LEMMA StrHear ==
  ASSUME driver = "za5000", NEW a, NEW S, NEW T \in BOOLEAN, Good(a, S, T), a.pc = "read",
         NEW l, StrSays(a.op, a.cmd.name, l, S, T)
  PROVE  Heard(a, Str!Hear(a, l), S, T)
<1>1. /\ Shape(a) /\ Knows(a, S) /\ driver \in DOMAIN Methods /\ MaySee(a.op, S)
      /\ a.arg \in Nat /\ a.m \in {0, 1}
  BY DEF Good, Methods, Knows, StrKnows, Shape
<1>2. ASSUME NEW v, Str!Hear(a, l) = Done(a, v), v \in RawAnswers,
             v \in {Err, Panic} \/ Kept(RequestOf(a), S, T, v)
      PROVE  Heard(a, Str!Hear(a, l), S, T)
  BY <1>1, <1>2, Answers_ DEF Whole
<1>3. {On, Off, Ok, Err} \subseteq RawAnswers
  BY DEF RawAnswers
<1>4. CASE a.cmd.name = "power?"
  <2>1. Str!Hear(a, l) = IF l.tag = "empty" THEN Str!WasOff(a) ELSE Str!WasOn(a)
    BY <1>4 DEF Str!Hear
  <2>2. a.op = "check_is_on" => (IF l.tag = "empty" THEN Off ELSE On) \in S
    BY DEF StrSays
  <2> QED
    BY <1>4, <2>1, <2>2, StrWasOff, StrWasOn
<1>5. CASE a.cmd.name = "input?"
  <2>0. a.op \in {"get_video_input", "set_video_input"}
    BY <1>1, <1>5 DEF Knows, StrKnows, Str!CommandFor
  <2>1. CASE l.tag # "input"
    <3>1. Str!Hear(a, l) = Str!Unparsed(a)
      BY <1>5, <2>1 DEF Str!Hear
    <3> QED
      BY <3>1, StrUnparsed
  <2>2. CASE l.tag = "input" /\ a.op = "get_video_input"
    <3> DEFINE v == Str!VariantOf(l.val)
    <3>1. Str!Hear(a, l) = Done(a, v)
      BY <1>5, <2>2, StrWords DEF Str!Hear, Str!ReadBack
    <3>2. l.val \in S /\ v \in {l.val, Unknown}
      BY <1>5, <2>2 DEF StrSays, Str!VariantOf
    <3> HIDE DEF v
    <3>3. Kept(RequestOf(a), S, T, v) /\ v \in RawAnswers
      BY <1>1, <2>2, <3>2 DEF Kept, Class, Confirmed, Queries, RequestOf, MaySee, Vague, RawAnswers
    <3> QED
      BY <1>2, <3>1, <3>3
  <2>3. CASE l.tag = "input" /\ a.op = "set_video_input"
    <3> DEFINE v == IF l.val = a.arg THEN Ok ELSE Err
    <3>1. Str!Hear(a, l) = Done(a, v)
      BY <1>5, <2>3, StrWords DEF Str!Hear, Str!ReadBack
    <3>2. l.val \in S
      BY <1>5, <2>3 DEF StrSays
    <3>3. l.val = a.arg => Kept(RequestOf(a), S, T, Ok)
      BY <2>3, <3>2 DEF Kept, Class, Confirmed, Queries, RequestOf
    <3>4. v = Err \/ (v = Ok /\ Kept(RequestOf(a), S, T, v))
      BY <3>3
    <3> HIDE DEF v
    <3> QED
      BY <1>2, <1>3, <3>1, <3>4
  <2> QED
    BY <2>0, <2>1, <2>2, <2>3
<1>6. CASE a.cmd.name = "mute?"
  <2>0. a.op \in {"check_is_muted", "toggle_mute"}
    BY <1>1, <1>6 DEF Knows, StrKnows, Str!CommandFor
  <2>1. CASE l.tag # "mute"
    <3>1. Str!Hear(a, l) = Str!Unparsed(a)
      BY <1>6, <2>1 DEF Str!Hear
    <3> QED
      BY <3>1, StrUnparsed
  <2>2. CASE l.tag = "mute"
    <3>1. Str!Hear(a, l) = Done(a, PowerOf(l.val))
      BY <1>6, <2>2, StrWords DEF Str!Hear, Str!PowerOf, PowerOf
    <3>2. PowerOf(l.val) \in S /\ PowerOf(l.val) \in {On, Off}
      BY <1>6, <2>2 DEF StrSays, PowerOf
    <3>3. Kept(RequestOf(a), S, T, PowerOf(l.val))
      BY <2>0, <3>2 DEF Kept, Class, Confirmed, Queries, RequestOf
    <3> QED
      BY <1>2, <1>3, <3>1, <3>2, <3>3
  <2> QED
    BY <2>1, <2>2
<1>7. CASE a.cmd.name = "set_input"
  <2>0. a.op = "set_video_input"
    BY <1>1, <1>7 DEF Knows, StrKnows, Str!CommandFor
  <2>. PICK d : d = [a EXCEPT !.m = 1]
    OBVIOUS
  <2>1. Str!Hear(a, l) = Ask(d, "power?", 0)
    BY <1>7, StrWords DEF Str!Hear
  <2>2. d = [op |-> a.op, arg |-> a.arg, pc |-> a.pc, cmd |-> a.cmd, n |-> a.n, m |-> 1,
             got |-> a.got, ans |-> a.ans]
    BY <1>1 DEF Shape
  <2>3. Shape(d)
    BY ONLY <1>1, <2>2 DEF Shape
  <2>. PICK b : b = Ask(d, "power?", 0)
    OBVIOUS
  <2>4. b = [op |-> a.op, arg |-> a.arg, pc |-> "connect", cmd |-> Command("power?", 0),
             n |-> a.n, m |-> 1, got |-> a.got, ans |-> a.ans]
    BY ONLY <2>2, <2>3, NewRecords, b = Ask(d, "power?", 0)
  <2>5. Heard(a, b, S, T)
    BY ONLY <1>7, <2>0, <2>4, StrAsks, driver = "za5000", T \in BOOLEAN, Good(a, S, T),
            a.pc = "read"
  <2> QED
    BY ONLY <2>1, <2>5, b = Ask(d, "power?", 0)
<1>8. CASE a.cmd.name = "muting"
  <2>0. a.op = "toggle_mute"
    BY <1>1, <1>8 DEF Knows, StrKnows, Str!CommandFor
  <2>1. Str!Hear(a, l) = Ask(a, "power?", 0)
    BY <1>8, StrWords DEF Str!Hear
  <2>2. Ask(a, "power?", 0) =
          [op |-> a.op, arg |-> a.arg, pc |-> "connect", cmd |-> Command("power?", 0),
           n |-> a.n, m |-> a.m, got |-> a.got, ans |-> a.ans]
    BY <1>1, NewRecords
  <2> QED
    BY <1>1, <2>0, <2>1, <2>2, StrAsks
<1>9. CASE a.cmd.name \notin {"power?", "input?", "mute?", "set_input", "muting"}
  <2>1. Str!Hear(a, l) = Done(a, Ok)
    BY <1>9, StrWords DEF Str!Hear
  <2>2. a.op \in {"turn_on", "turn_off", "volume"}
    BY <1>1, <1>9 DEF Knows, StrKnows, Str!CommandFor
  <2>3. a.op # "volume" => T
    BY <2>2 DEF StrSays
  <2>4. Kept(RequestOf(a), S, T, Ok)
    BY <2>2, <2>3 DEF Kept, Class, Confirmed, Queries, RequestOf
  <2> QED
    BY <1>2, <1>3, <2>1, <2>4
<1> QED
  BY <1>4, <1>5, <1>6, <1>7, <1>8, <1>9

-----------------------------------------------------------------------------
(* The player Kaleidescape.                                                *)

\* Its module shares the words of Exchanges.
LEMMA KscpWords ==
  ASSUME NEW a
  PROVE  /\ \A v : Kscp!Done(a, v) = Done(a, v)
         /\ \A name, arg : Kscp!Ask(a, name, arg) = Ask(a, name, arg)
         /\ \A name, arg : Kscp!AskThere(a, name, arg) = AskThere(a, name, arg)
         /\ Kscp!Await(a) = Await(a) /\ Kscp!Proceed(a) = Proceed(a)
BY DEF Kscp!Done, Done, Kscp!Ask, Ask, Kscp!AskThere, AskThere, Kscp!Await, Await, Kscp!Proceed,
       Proceed,
       Kscp!Command, Command

\* The player's first command.
LEMMA KscpFirst ==
  ASSUME driver = "kscp", driver \in DriverNames, NEW op, NEW arg, Asked(op, arg),
         NEW S, MaySee(op, S)
  PROVE  Begun(Kscp!First(Start(op, arg)), op, arg, S)
<1> DEFINE b == Kscp!First(Start(op, arg))
<1>0. op \in DOMAIN Kscp!CommandFor /\ arg \in Nat /\ (op = "list_movies" => arg = 1)
  BY AskedIs DEF Methods
<1>1. b = Ask(Start(op, arg), Kscp!CommandFor[op], arg)
  BY StartIs, KscpWords DEF Kscp!First
<1>2. b.pc = "connect" /\ b.cmd = Command(Kscp!CommandFor[op], arg) /\ NewCall(b, op, arg)
  BY <1>0, <1>1, NewAsked
<1> HIDE DEF b
<1>3. /\ b.n = 0 /\ b.m = 0 /\ b.op = op /\ b.arg = arg /\ b.got = <<>>
      /\ Tries \in Nat \ {0} /\ Movies \in Nat \ {0} /\ DetailLines \in Nat \ {0}
  BY <1>2, LimitsAssumption DEF NewCall
<1>8. ASSUME op = "list_movies" PROVE Knows(b, S)
  <2>1. Listing(b)
    BY <1>0, <1>2, <1>3, <1>8 DEF Listing, Kscp!CommandFor
  <2> QED
    BY <1>0, <1>2, <1>3, <1>8, <2>1 DEF Knows, KscpKnows
<1>4. ASSUME op = "movie_details" PROVE Knows(b, S)
  <2>1. /\ b.cmd.name = "GET_CONTENT_DETAILS" /\ b.cmd.arg = arg
        /\ b.cmd = Command("GET_CONTENT_DETAILS", b.cmd.arg)
    BY <1>2, <1>4 DEF Command, Kscp!CommandFor
  <2>2. b.got \in Seq(Values) /\ Len(b.got) = 0 /\ DOMAIN b.got = {}
    BY <1>3
  <2>3. Details(b)
    BY <1>0, <1>2, <1>3, <2>1, <2>2 DEF Details
  <2> QED
    BY <1>0, <1>2, <1>3, <1>4, <2>3 DEF Knows, KscpKnows
<1>5. ASSUME op \notin {"movie_details", "list_movies"} PROVE Knows(b, S)
  <2>1. b.cmd.name = Kscp!CommandFor[op] /\ b.cmd.arg = arg
    BY <1>2 DEF Command
  <2>2. CASE op = "play_movie"
    <3>1. b.cmd.name = "SHOW_CONTROLLER_DETAILS" /\ b.cmd = Command("SHOW_CONTROLLER_DETAILS", arg)
      BY <1>2, <2>1, <2>2 DEF Kscp!CommandFor
    <3> QED
      BY <1>0, <1>2, <1>3, <2>2, <3>1 DEF Knows, KscpKnows
  <2>3. CASE op # "play_movie"
    BY <1>0, <1>2, <1>3, <1>5, <2>3 DEF Knows, KscpKnows
  <2> QED
    BY <2>2, <2>3
<1>6. Sendings(b) >= 0
  BY <1>2, SendingsNat DEF NewCall
<1>7. Begun(b, op, arg, S)
  BY <1>2, <1>4, <1>5, <1>6, <1>8, Begins
<1> QED
  BY <1>7 DEF b

\* The player, connected.
LEMMA KscpConnected ==
  ASSUME driver = "kscp", NEW a, NEW S, NEW T, Good(a, S, T), a.pc = "connect"
  PROVE  Onward(a, Kscp!Connected(a), S, T) /\ Kscp!Connected(a) = Proceed(a)
<1> DEFINE b == Proceed(a)
<1>1. Kscp!Connected(a) = b
  BY KscpWords DEF Kscp!Connected
<1>2. Shape(a) /\ Knows(a, S)
  BY DEF Good
<1>3. Passed(a, b, "send")
  BY <1>2, PassesOn
<1> HIDE DEF b
<1>4. Knows(b, S) /\ Sendings(b) >= Sendings(a)
  BY <1>2, <1>3, SendingsKept DEF Knows, KscpKnows, Passed, Shape, Details, Listing
<1>5. Onward(a, b, S, T)
  BY <1>3, <1>4, GoesOn DEF Passed
<1> QED
  BY <1>1, <1>5 DEF b

\* The player's command is written.
LEMMA KscpSent ==
  ASSUME driver = "kscp", NEW a, NEW S, NEW T \in BOOLEAN, Good(a, S, T), a.pc = "send"
  PROVE  Written(a, Kscp!Sent(a), S, T)
<1>1. Shape(a) /\ Knows(a, S) /\ driver \in DOMAIN Methods
  BY DEF Good, Methods
<1>2. Kscp!Sent(a) = Await(a)
  BY KscpWords DEF Kscp!Sent
<1>3. Knows(Await(a), S)
  BY <1>1, PassesOn DEF Knows, KscpKnows, Passed, Details, Listing
<1> QED
  BY <1>1, <1>2, <1>3, WrittenIs

\* An exchange with the player fails.
LEMMA KscpBroken ==
  ASSUME driver = "kscp", NEW a, NEW S, NEW T \in BOOLEAN, Good(a, S, T),
         a.pc \in {"connect", "send", "read"}, NEW how
  PROVE  Onward(a, Kscp!Broken(a, how), S, T) /\ Kscp!Broken(a, how).pc = "return"
<1>1. Kscp!Broken(a, how) = Done(a, Err)
  BY KscpWords DEF Kscp!Broken
<1> QED
  BY <1>1, Fails DEF Methods

\* A call of the player that has read a line: details go on, and a movie's
\* last one may be followed by the question for the next movie.
KscpHeard(a, b, S, T) ==
  /\ Onward(a, b, S, T)
  /\ \/ b.pc \in {"connect", "return"}
     \/ /\ a.op \in {"movie_details", "list_movies"}
        /\ \/ b.pc = "send" /\ a.m = 1 /\ b.m = 0
           \/ b.pc = "read" /\ b.cmd = a.cmd /\ b.m = IF a.m = 0 THEN DetailLines ELSE a.m - 1

\* The answer of a call of the player that asks once.
LEMMA KscpAnswers ==
  ASSUME driver = "kscp", NEW a, NEW S, NEW T \in BOOLEAN, Good(a, S, T), a.pc = "read",
         NEW v, v \in RawAnswers, v \in {Err, Panic} \/ Kept(RequestOf(a), S, T, v), Whole(a, v)
  PROVE  KscpHeard(a, Done(a, v), S, T)
<1>1. Done(a, v).pc = "return"
  BY NewRecords DEF Good
<1> QED
  BY <1>1, Answered DEF KscpHeard, Methods

\* The next question of play_movie.
LEMMA KscpAsks ==
  ASSUME driver = "kscp", NEW a, NEW S, NEW T \in BOOLEAN, Good(a, S, T), a.pc = "read",
         a.op = "play_movie", a.cmd.name # "PLAY",
         NEW i \in Nat, NEW j \in Nat, i < Tries, j < Tries,
         NEW name \in {"GET_UI_STATE", "GET_HIGHLIGHTED_SELECTION", "PLAY"},
         name = "PLAY" => a.arg \in S,
         NEW b, b = [op |-> a.op, arg |-> a.arg, pc |-> "connect", cmd |-> Command(name, 0),
                     n |-> i, m |-> j, got |-> a.got, ans |-> a.ans]
  PROVE  KscpHeard(a, b, S, T)
<1>1. Shape(a) /\ Knows(a, S)
  BY DEF Good
<1>2. Shape(b) /\ b.cmd.name = name
  BY <1>1 DEF Shape, Command
<1>3. Knows(b, S)
  BY <1>1, <1>2 DEF Knows, KscpKnows
<1>4. Sendings(b) >= Sendings(a)
  <2>1. Sendings(a) = 0
    BY DEF Sendings, Unsent
  <2> QED
    BY <1>2, <2>1, SendingsNat
<1> QED
  BY <1>2, <1>3, <1>4, GoesOn DEF KscpHeard

\* play_movie looks again, until its tries are used up.
LEMMA KscpAgain ==
  ASSUME driver = "kscp", NEW a, NEW S, NEW T \in BOOLEAN, Good(a, S, T), a.pc = "read",
         a.op = "play_movie", a.cmd.name # "PLAY"
  PROVE  KscpHeard(a, Kscp!Again(a), S, T)
<1>1. Shape(a) /\ Knows(a, S) /\ a.n \in Nat /\ a.n < Tries /\ Tries \in Nat \ {0}
  BY LimitsAssumption DEF Good, Knows, KscpKnows, Shape
<1>2. CASE a.n + 1 = Tries
  <2>1. Kscp!Again(a) = Done(a, Err)
    BY <1>2, KscpWords DEF Kscp!Again
  <2> QED
    BY <1>1, <2>1, Fails DEF KscpHeard, Methods
<1>3. CASE a.n + 1 # Tries
  <2>. PICK d : d = [a EXCEPT !.n = a.n + 1, !.m = 0]
    OBVIOUS
  <2>1. Kscp!Again(a) = Ask(d, "GET_UI_STATE", 0)
    BY <1>3, KscpWords DEF Kscp!Again
  <2>2. d = [op |-> a.op, arg |-> a.arg, pc |-> a.pc, cmd |-> a.cmd, n |-> a.n + 1, m |-> 0,
             got |-> a.got, ans |-> a.ans]
    BY <1>1 DEF Shape
  <2>3. Shape(d)
    BY ONLY <1>1, <2>2 DEF Shape
  <2>. PICK b : b = Ask(d, "GET_UI_STATE", 0)
    OBVIOUS
  <2>4. b = [op |-> a.op, arg |-> a.arg, pc |-> "connect", cmd |-> Command("GET_UI_STATE", 0),
             n |-> a.n + 1, m |-> 0, got |-> a.got, ans |-> a.ans]
    BY ONLY <2>2, <2>3, NewRecords, b = Ask(d, "GET_UI_STATE", 0)
  <2>5. a.n + 1 \in Nat /\ a.n + 1 < Tries /\ 0 < Tries
    BY <1>1, <1>3
  <2>6. KscpHeard(a, b, S, T)
    BY ONLY <2>4, <2>5, KscpAsks, driver = "kscp", T \in BOOLEAN, Good(a, S, T), a.pc = "read",
            a.op = "play_movie", a.cmd.name # "PLAY"
  <2> QED
    BY ONLY <2>1, <2>6, b = Ask(d, "GET_UI_STATE", 0)
<1> QED
  BY <1>2, <1>3

\* play_movie plays if its movie is selected.
LEMMA KscpPlayIfSelected ==
  ASSUME driver = "kscp", NEW a, NEW S, NEW T \in BOOLEAN, Good(a, S, T), a.pc = "read",
         a.op = "play_movie", a.cmd.name # "PLAY", NEW l, l.val \in S
  PROVE  KscpHeard(a, Kscp!PlayIfSelected(a, l), S, T)
<1>1. /\ Shape(a) /\ Knows(a, S) /\ a.n \in Nat /\ a.n < Tries /\ Tries \in Nat \ {0}
      /\ a.m \in Nat /\ a.m < Tries
  BY LimitsAssumption DEF Good, Knows, KscpKnows, Shape
<1>2. CASE l.val = a.arg
  <2>1. Kscp!PlayIfSelected(a, l) = Ask(a, "PLAY", 0)
    BY <1>2, KscpWords DEF Kscp!PlayIfSelected
  <2>. PICK b : b = Ask(a, "PLAY", 0)
    OBVIOUS
  <2>2. b = [op |-> a.op, arg |-> a.arg, pc |-> "connect", cmd |-> Command("PLAY", 0),
             n |-> a.n, m |-> a.m, got |-> a.got, ans |-> a.ans]
    BY <1>1, NewRecords
  <2>3. KscpHeard(a, b, S, T)
    BY ONLY <1>1, <1>2, <2>2, KscpAsks, driver = "kscp", T \in BOOLEAN, Good(a, S, T),
            a.pc = "read",
            a.op = "play_movie", a.cmd.name # "PLAY", l.val \in S
  <2> QED
    BY <2>1, <2>3
<1>3. CASE l.val # a.arg /\ a.m + 1 = Tries
  <2>1. Kscp!PlayIfSelected(a, l) = Kscp!Again(a)
    BY <1>3 DEF Kscp!PlayIfSelected
  <2> QED
    BY <2>1, KscpAgain
<1>4. CASE l.val # a.arg /\ a.m + 1 # Tries
  <2>. PICK d : d = [a EXCEPT !.m = a.m + 1]
    OBVIOUS
  <2>1. Kscp!PlayIfSelected(a, l) = Ask(d, "GET_HIGHLIGHTED_SELECTION", 0)
    BY <1>4, KscpWords DEF Kscp!PlayIfSelected
  <2>2. d = [op |-> a.op, arg |-> a.arg, pc |-> a.pc, cmd |-> a.cmd, n |-> a.n, m |-> a.m + 1,
             got |-> a.got, ans |-> a.ans]
    BY <1>1 DEF Shape
  <2>3. Shape(d)
    BY ONLY <1>1, <2>2 DEF Shape
  <2>. PICK b : b = Ask(d, "GET_HIGHLIGHTED_SELECTION", 0)
    OBVIOUS
  <2>4. b = [op |-> a.op, arg |-> a.arg, pc |-> "connect",
             cmd |-> Command("GET_HIGHLIGHTED_SELECTION", 0),
             n |-> a.n, m |-> a.m + 1, got |-> a.got, ans |-> a.ans]
    BY ONLY <2>2, <2>3, NewRecords, b = Ask(d, "GET_HIGHLIGHTED_SELECTION", 0)
  <2>5. a.m + 1 \in Nat /\ a.m + 1 < Tries
    BY <1>1, <1>4
  <2>6. KscpHeard(a, b, S, T)
    BY ONLY <1>1, <2>4, <2>5, KscpAsks, driver = "kscp", T \in BOOLEAN, Good(a, S, T),
            a.pc = "read",
            a.op = "play_movie", a.cmd.name # "PLAY"
  <2> QED
    BY ONLY <2>1, <2>6, b = Ask(d, "GET_HIGHLIGHTED_SELECTION", 0)
<1> QED
  BY <1>2, <1>3, <1>4

\* What has come on the connection of a call for details.
DetailsLine(a, l) ==
  a.cmd.name = "GET_CONTENT_DETAILS" =>
    IF a.m > 0 THEN l = Line("detail", a.cmd.arg)
    ELSE l.tag = "standby" \/ l = Line("overview", DetailLines)

\* What a call for details knows.
LEMMA KscpDetails ==
  ASSUME driver = "kscp", NEW a, NEW S, NEW T, Good(a, S, T), a.pc = "read",
         a.op \in {"movie_details", "list_movies"}, a.cmd.name = "GET_CONTENT_DETAILS"
  PROVE  /\ Shape(a) /\ Details(a) /\ a.n \in Nat /\ a.m \in Nat /\ a.m <= DetailLines
         /\ a.cmd.name = "GET_CONTENT_DETAILS" /\ a.cmd.arg \in Nat
         /\ a.cmd = Command("GET_CONTENT_DETAILS", a.cmd.arg)
         /\ a.got \in Seq(Values) /\ Len(a.got) = IF a.m = 0 THEN 0 ELSE DetailLines - a.m
         /\ DetailLines \in Nat \ {0} /\ Movies \in Nat \ {0}
BY LimitsAssumption DEF Good, Knows, KscpKnows, Details, Listing, Shape, Command

\* A call for details goes on, with what it has.
LEMMA KscpGoesOn ==
  ASSUME driver = "kscp", NEW a, NEW S, NEW T, Good(a, S, T), a.pc = "read",
         a.op \in {"movie_details", "list_movies"}, a.cmd.name = "GET_CONTENT_DETAILS",
         NEW b, Shape(b), b.op = a.op, b.arg = a.arg, b.pc \in {"read", "send"}, b.n = a.n,
         b.ans = a.ans, Details(b)
  PROVE  Onward(a, b, S, T)
<1>1. Shape(a) /\ Knows(a, S)
  BY DEF Good
<1>2. Knows(b, S)
  BY <1>1 DEF Knows, KscpKnows
<1>3. b.cmd.name = "GET_CONTENT_DETAILS" /\ a.cmd.name = "GET_CONTENT_DETAILS"
  BY KscpDetails DEF Details
<1>4. Sendings(b) >= Sendings(a)
  BY <1>3 DEF Sendings, Unsent, Acting, Kscp!Acting
<1> QED
  BY <1>2, <1>4, GoesOn

\* The last line of details.
LEMMA KscpNextMovie ==
  ASSUME driver = "kscp", NEW a, NEW S, NEW T \in BOOLEAN, Good(a, S, T), a.pc = "read",
         a.op \in {"movie_details", "list_movies"}, a.cmd.name = "GET_CONTENT_DETAILS", a.m = 1,
         NEW g, g \in Seq(Values), Len(g) = DetailLines, \A i \in DOMAIN g : g[i] = a.cmd.arg,
         NEW d, d = [op |-> a.op, arg |-> a.arg, pc |-> "read", cmd |-> a.cmd, n |-> a.n, m |-> 0,
                     got |-> g, ans |-> a.ans]
  PROVE  KscpHeard(a, Kscp!NextMovie(d), S, T)
<1>1. /\ Shape(a) /\ Details(a) /\ a.n \in Nat /\ a.cmd.name = "GET_CONTENT_DETAILS"
      /\ a.cmd.arg \in Nat /\ DetailLines \in Nat \ {0} /\ Movies \in Nat \ {0} /\ Knows(a, S)
  BY KscpDetails DEF Good
<1>2. Shape(d) /\ d.cmd = a.cmd /\ d.op = a.op
  BY <1>1 DEF Shape
<1>3. CASE a.op = "list_movies" /\ a.cmd.arg < Movies
  <2>. PICK e : e = [d EXCEPT !.got = <<>>]
    OBVIOUS
  <2>1. Kscp!NextMovie(d) = AskThere(e, "GET_CONTENT_DETAILS", a.cmd.arg + 1)
    BY <1>2, <1>3, KscpWords DEF Kscp!NextMovie
  <2>2. e = [op |-> a.op, arg |-> a.arg, pc |-> "read", cmd |-> a.cmd, n |-> a.n, m |-> 0,
             got |-> <<>>, ans |-> a.ans]
    OBVIOUS
  <2>3. Shape(e)
    BY ONLY <1>1, <2>2 DEF Shape
  <2>. PICK b : b = AskThere(e, "GET_CONTENT_DETAILS", a.cmd.arg + 1)
    OBVIOUS
  <2> DEFINE h == <<>>
  <2>4. b = [op |-> a.op, arg |-> a.arg, pc |-> "send",
             cmd |-> Command("GET_CONTENT_DETAILS", a.cmd.arg + 1),
             n |-> a.n, m |-> 0, got |-> h, ans |-> a.ans]
    BY ONLY <2>2, <2>3, NewRecords, b = AskThere(e, "GET_CONTENT_DETAILS", a.cmd.arg + 1)
  <2>5. /\ h \in Seq(Values) /\ Len(h) = 0 /\ DOMAIN h = {}
        /\ \A i \in DOMAIN h : h[i] = a.cmd.arg + 1
    OBVIOUS
  <2>8. a.cmd.arg + 1 \in Nat /\ a.cmd.arg + 1 <= Movies
    BY ONLY <1>1, <1>3
  <2> HIDE DEF h
  <2>9. /\ b.op = a.op /\ b.arg = a.arg /\ b.pc = "send" /\ b.n = a.n /\ b.m = 0 /\ b.got = h
        /\ b.ans = a.ans /\ b.cmd.name = "GET_CONTENT_DETAILS" /\ b.cmd.arg = a.cmd.arg + 1
        /\ b.cmd = Command("GET_CONTENT_DETAILS", b.cmd.arg) /\ Shape(b)
    BY ONLY <1>1, <2>4 DEF Shape, Command
  <2>10. Details(b)
    BY ONLY <1>1, <2>5, <2>8, <2>9 DEF Details
  <2>6. Onward(a, b, S, T)
    BY ONLY <2>9, <2>10, KscpGoesOn, driver = "kscp", Good(a, S, T), a.pc = "read",
            a.op \in {"movie_details", "list_movies"}, a.cmd.name = "GET_CONTENT_DETAILS"
  <2>7. KscpHeard(a, b, S, T)
    BY ONLY <2>4, <2>6, a.m = 1, a.op \in {"movie_details", "list_movies"},
            a.cmd.name = "GET_CONTENT_DETAILS" DEF KscpHeard
  <2> QED
    BY ONLY <2>1, <2>7, b = AskThere(e, "GET_CONTENT_DETAILS", a.cmd.arg + 1)
<1>4. CASE ~(a.op = "list_movies" /\ a.cmd.arg < Movies)
  <2>1. Kscp!NextMovie(d) = Done(d, Ok)
    BY <1>2, <1>4, KscpWords DEF Kscp!NextMovie
  <2>. PICK b : b = Done(d, Ok)
    OBVIOUS
  <2>2. b = [op |-> a.op, arg |-> a.arg, pc |-> "return", cmd |-> a.cmd, n |-> a.n, m |-> 0,
             got |-> g, ans |-> Ok]
    BY <1>2, NewRecords
  <2>3. Shape(b)
    BY <1>1, <2>2 DEF Shape
  <2>10. Details(b)
    <3>1. b.op = a.op /\ b.pc = "return" /\ b.cmd = a.cmd /\ b.m = 0 /\ b.got = g
      BY ONLY <2>2
    <3> QED
      BY ONLY <1>1, <3>1, g \in Seq(Values), \A i \in DOMAIN g : g[i] = a.cmd.arg DEF Details
  <2>4. Knows(b, S)
    <3>1. b.op = a.op /\ b.pc = "return" /\ b.n = a.n
      BY ONLY <2>2
    <3> QED
      BY ONLY <1>1, <2>10, <3>1, driver = "kscp", a.op \in {"movie_details", "list_movies"},
            a.cmd.name = "GET_CONTENT_DETAILS"
      DEF Knows, KscpKnows
  <2>5. Kept(RequestOf(b), S, T, Ok) /\ Ok \in RawAnswers
    <3>1. RequestOf(b).driver = "kscp" /\ RequestOf(b).op \in {"movie_details", "list_movies"}
      BY <2>2 DEF RequestOf
    <3>2. Class(RequestOf(b)) = "sent"
      BY ONLY <3>1 DEF Class, Confirmed, Queries
    <3> QED
      BY <3>2 DEF Kept, RawAnswers
  <2>6. a.op = "list_movies" => a.cmd.arg = Movies
    BY <1>1, <1>4 DEF Details
  <2>7. Good(b, S, T)
    BY <2>2, <2>3, <2>4, <2>5, <2>6 DEF Good
  <2>8. Sendings(b) >= Sendings(a)
    BY <1>1, <2>2 DEF Sendings, Unsent, Acting, Kscp!Acting
  <2>9. KscpHeard(a, b, S, T)
    BY <2>2, <2>7, <2>8 DEF KscpHeard, Onward
  <2> QED
    BY <2>1, <2>9
<1> QED
  BY <1>3, <1>4

\* It has read one of the details.
LEMMA KscpDetail ==
  ASSUME driver = "kscp", NEW a, NEW S, NEW T \in BOOLEAN, Good(a, S, T), a.pc = "read",
         a.op \in {"movie_details", "list_movies"},
            a.cmd.name = "GET_CONTENT_DETAILS", a.m > 0, NEW l, l = Line("detail", a.cmd.arg)
  PROVE  KscpHeard(a, Kscp!Detail(a, l), S, T)
<1>1. /\ Shape(a) /\ Details(a) /\ a.n \in Nat /\ a.m \in Nat /\ a.m <= DetailLines
      /\ a.cmd.name = "GET_CONTENT_DETAILS" /\ a.cmd.arg \in Nat
      /\ a.got \in Seq(Values) /\ Len(a.got) = DetailLines - a.m
      /\ DetailLines \in Nat \ {0} /\ Movies \in Nat \ {0}
  <2>1. a.m # 0 /\ a.m > 0
    BY KscpDetails
  <2> QED
    BY ONLY <2>1, KscpDetails, driver = "kscp", Good(a, S, T), a.pc = "read",
            a.op \in {"movie_details", "list_movies"}, a.cmd.name = "GET_CONTENT_DETAILS"
<1> DEFINE g == Append(a.got, a.cmd.arg)
<1>2. l.val = a.cmd.arg /\ a.cmd.arg \in Values
  BY <1>1 DEF Line, Values
<1>3. /\ g \in Seq(Values) /\ Len(g) = DetailLines - (a.m - 1)
      /\ \A i \in DOMAIN g : g[i] = a.cmd.arg
  <2>1. g \in Seq(Values) /\ Len(g) = DetailLines - (a.m - 1)
    BY ONLY <1>1, <1>2
  <2>2. \A i \in DOMAIN a.got : a.got[i] = a.cmd.arg
    BY ONLY <1>1 DEF Details
  <2>3. \A i \in DOMAIN g : g[i] = a.cmd.arg
    BY ONLY <1>1, <1>2, <2>2
  <2> QED
    BY ONLY <2>1, <2>3
<1>. PICK d : d = [a EXCEPT !.got = Append(@, l.val), !.m = @ - 1]
  OBVIOUS
<1>4. d = [op |-> a.op, arg |-> a.arg, pc |-> a.pc, cmd |-> a.cmd, n |-> a.n, m |-> a.m - 1,
           got |-> g, ans |-> a.ans]
  BY <1>1, <1>2 DEF Shape
<1>5. Kscp!Detail(a, l) = IF d.m = 0 THEN Kscp!NextMovie(d) ELSE d
  BY DEF Kscp!Detail
<1> HIDE DEF g
<1>6. CASE a.m = 1
  <2>1. d.m = 0
    BY ONLY <1>1, <1>4, <1>6
  <2>2. KscpHeard(a, Kscp!NextMovie(d), S, T)
    BY ONLY <1>1, <1>3, <1>4, <1>6, KscpNextMovie, driver = "kscp", T \in BOOLEAN, Good(a, S, T),
            a.pc = "read", a.op \in {"movie_details", "list_movies"},
            a.cmd.name = "GET_CONTENT_DETAILS"
  <2> QED
    BY ONLY <1>5, <2>1, <2>2
<1>7. CASE a.m # 1
  <2>1. d.m # 0 /\ a.m - 1 \in Nat /\ a.m - 1 # 0 /\ a.m - 1 <= DetailLines
    BY ONLY <1>1, <1>4, <1>7, a.m > 0
  <2>5. /\ d.op = a.op /\ d.arg = a.arg /\ d.pc = "read" /\ d.n = a.n /\ d.m = a.m - 1 /\ d.got = g
        /\ d.ans = a.ans /\ d.cmd = a.cmd /\ Shape(d)
    BY ONLY <1>1, <1>4, <2>1, a.pc = "read" DEF Shape
  <2>6. Details(d)
    BY ONLY <1>1, <1>3, <2>1, <2>5 DEF Details
  <2>3. Onward(a, d, S, T)
    BY ONLY <2>5, <2>6, KscpGoesOn, driver = "kscp", Good(a, S, T), a.pc = "read",
            a.op \in {"movie_details", "list_movies"}, a.cmd.name = "GET_CONTENT_DETAILS"
  <2>4. KscpHeard(a, d, S, T)
    BY ONLY <1>1, <1>4, <2>3, a.op \in {"movie_details", "list_movies"},
            a.cmd.name = "GET_CONTENT_DETAILS", a.m > 0, a.pc = "read"
    DEF KscpHeard
  <2> QED
    BY ONLY <1>5, <2>1, <2>4
<1> QED
  BY <1>6, <1>7

\* The first line of details.
LEMMA KscpOverview ==
  ASSUME driver = "kscp", NEW a, NEW S, NEW T, Good(a, S, T), a.pc = "read",
         a.op \in {"movie_details", "list_movies"},
            a.cmd.name = "GET_CONTENT_DETAILS", a.m = 0, NEW l,
               l = Line("overview", DetailLines)
  PROVE  KscpHeard(a, Kscp!Overview(a, l), S, T)
<1>1. /\ Shape(a) /\ Details(a) /\ a.n \in Nat /\ DetailLines \in Nat \ {0}
  BY KscpDetails
<1>2. l.val = DetailLines
  BY DEF Line
<1> DEFINE h == <<>>
<1>3. h \in Seq(Values) /\ Len(h) = 0 /\ DOMAIN h = {}
  OBVIOUS
<1>. PICK d : d = [a EXCEPT !.m = l.val, !.got = <<>>]
  OBVIOUS
<1>4. d = [op |-> a.op, arg |-> a.arg, pc |-> a.pc, cmd |-> a.cmd, n |-> a.n, m |-> DetailLines,
           got |-> h, ans |-> a.ans]
  BY <1>1, <1>2 DEF Shape
<1>5. Kscp!Overview(a, l) = d
  BY DEF Kscp!Overview
<1> HIDE DEF h
<1>6. /\ d.op = a.op /\ d.arg = a.arg /\ d.pc = "read" /\ d.n = a.n /\ d.m = DetailLines
      /\ d.got = h /\ d.ans = a.ans /\ d.cmd = a.cmd /\ Shape(d)
  BY ONLY <1>1, <1>4, a.pc = "read" DEF Shape
<1>7. Details(d)
  BY ONLY <1>1, <1>3, <1>6 DEF Details
<1>8. Onward(a, d, S, T)
  BY ONLY <1>6, <1>7, KscpGoesOn, driver = "kscp", Good(a, S, T), a.pc = "read",
          a.op \in {"movie_details", "list_movies"}, a.cmd.name = "GET_CONTENT_DETAILS"
<1>9. KscpHeard(a, d, S, T)
  BY ONLY <1>6, <1>8, a.op \in {"movie_details", "list_movies"},
            a.cmd.name = "GET_CONTENT_DETAILS", a.m = 0 DEF KscpHeard
<1> QED
  BY ONLY <1>5, <1>9

\* A line of the player is read.
LEMMA KscpHear ==
  ASSUME driver = "kscp", NEW a, NEW S, NEW T \in BOOLEAN, Good(a, S, T), a.pc = "read",
         NEW l, KscpSays(a.op, a.cmd.name, l, S, T), DetailsLine(a, l)
  PROVE  KscpHeard(a, Kscp!Hear(a, l), S, T)
<1>1. /\ Shape(a) /\ Knows(a, S) /\ a.n \in Nat /\ a.m \in Nat /\ a.n < Tries /\ MaySee(a.op, S)
      /\ a.op \in DOMAIN Kscp!CommandFor /\ Tries \in Nat \ {0}
  BY LimitsAssumption DEF Good, Knows, KscpKnows, Shape
<1>2. ASSUME NEW v, Kscp!Hear(a, l) = Done(a, v), v \in RawAnswers,
             a.op \notin {"movie_details", "list_movies"} \/ v = Err,
             v \in {Err, Panic} \/ Kept(RequestOf(a), S, T, v)
      PROVE  KscpHeard(a, Kscp!Hear(a, l), S, T)
  BY <1>1, <1>2, KscpAnswers, AnswersAssumption DEF Whole
<1>3. {On, Off, Ok, Err} \subseteq RawAnswers
  BY DEF RawAnswers
<1> DEFINE det == a.cmd.name = "GET_CONTENT_DETAILS"
           movies == a.op \in {"movie_details", "list_movies"}
<1>4. /\ det => movies
      /\ movies /\ ~det => a.op = "list_movies" /\ Listing(a) /\ a.cmd.name = "GET_MOVIES"
      /\ a.op = "play_movie" =>
           a.cmd.name \in {"SHOW_CONTROLLER_DETAILS", "GET_UI_STATE", "GET_HIGHLIGHTED_SELECTION",
                 "PLAY"}
      /\ ~movies /\ a.op # "play_movie" => a.cmd.name = Kscp!CommandFor[a.op] /\ a.m = 0
  <2>1. CASE a.op = "play_movie"
    BY <1>1, <2>1 DEF Knows, KscpKnows
  <2>2. CASE movies
    BY <1>1, <2>2 DEF Knows, KscpKnows, Details, Listing, Command
  <2>3. CASE a.op # "play_movie" /\ ~movies
    <3>1. a.m = 0 /\ a.cmd = Command(Kscp!CommandFor[a.op], a.arg)
      BY <1>1, <2>3 DEF Knows, KscpKnows
    <3>2. a.cmd.name = Kscp!CommandFor[a.op]
      BY <3>1 DEF Command
    <3> QED
      BY <1>1, <2>3, <3>1, <3>2 DEF Kscp!CommandFor
  <2> QED
    BY <2>1, <2>2, <2>3
<1>5. CASE a.m > 0 /\ a.cmd.name = "GET_CONTENT_DETAILS"
  <2>1. Kscp!Hear(a, l) = Kscp!Detail(a, l)
    BY <1>5 DEF Kscp!Hear
  <2>2. l = Line("detail", a.cmd.arg)
    BY <1>4, <1>5 DEF DetailsLine
  <2> QED
    BY <1>4, <1>5, <2>1, <2>2, KscpDetail
<1> DEFINE rest == ~(a.m > 0 /\ a.cmd.name = "GET_CONTENT_DETAILS")
<1>6. CASE rest /\ l.tag = "standby"
  <2> DEFINE v == IF a.op = "check_is_on" THEN Off ELSE Err
  <2>1. Kscp!Hear(a, l) = Done(a, v)
    BY <1>6, KscpWords DEF Kscp!Hear, Kscp!InStandby
  <2>2. a.op = "check_is_on" => Kept(RequestOf(a), S, T, Off)
    BY <1>6 DEF KscpSays, Kept, Class, Confirmed, Queries, RequestOf
  <2>3. v = Err \/ (v = Off /\ a.op = "check_is_on" /\ Kept(RequestOf(a), S, T, v))
    BY <2>2
  <2> HIDE DEF v
  <2> QED
    BY <1>2, <1>3, <2>1, <2>3
<1>7. CASE rest /\ l.tag # "standby" /\ a.cmd.name = "GET_CONTENT_DETAILS"
  <2>1. Kscp!Hear(a, l) = Kscp!Overview(a, l)
    BY <1>7 DEF Kscp!Hear
  <2>2. a.m = 0 /\ l = Line("overview", DetailLines)
    BY <1>1, <1>4, <1>7 DEF DetailsLine
  <2> QED
    BY <1>4, <1>7, <2>1, <2>2, KscpOverview
<1>8. CASE rest /\ l.tag # "standby" /\ a.cmd.name = "GET_DEVICE_POWER_STATE"
  <2> DEFINE v == IF l.tag = "power" THEN PowerOf(l.val) ELSE Err
  <2>0. a.op = "check_is_on"
    BY <1>1, <1>4, <1>8 DEF Kscp!CommandFor
  <2>1. Kscp!Hear(a, l) = Done(a, v)
    BY <1>8, KscpWords DEF Kscp!Hear, Kscp!PowerOf, PowerOf
  <2>2. l.tag = "power" => PowerOf(l.val) \in S /\ PowerOf(l.val) \in {On, Off}
    BY <1>8, <2>0 DEF KscpSays, PowerOf
  <2>3. l.tag = "power" => Kept(RequestOf(a), S, T, PowerOf(l.val))
    BY <2>0, <2>2 DEF Kept, Class, Confirmed, Queries, RequestOf
  <2>4. v = Err \/ (v \in {On, Off} /\ Kept(RequestOf(a), S, T, v))
    BY <2>2, <2>3
  <2> HIDE DEF v
  <2> QED
    BY <1>2, <1>3, <2>0, <2>1, <2>4
<1>9. CASE rest /\ l.tag # "standby" /\ a.cmd.name = "SHOW_CONTROLLER_DETAILS"
  <2>0. a.op = "play_movie"
    BY <1>1, <1>4, <1>9 DEF Kscp!CommandFor
  <2>1. Kscp!Hear(a, l) = Ask(a, "GET_UI_STATE", 0)
    BY <1>9, KscpWords DEF Kscp!Hear
  <2>. PICK b : b = Ask(a, "GET_UI_STATE", 0)
    OBVIOUS
  <2>2. b = [op |-> a.op, arg |-> a.arg, pc |-> "connect", cmd |-> Command("GET_UI_STATE", 0),
             n |-> a.n, m |-> a.m, got |-> a.got, ans |-> a.ans]
    BY ONLY <1>1, NewRecords, b = Ask(a, "GET_UI_STATE", 0)
  <2>3. a.m < Tries /\ a.cmd.name # "PLAY"
    BY <1>1, <1>9, <2>0 DEF Knows, KscpKnows
  <2>4. KscpHeard(a, b, S, T)
    BY ONLY <1>1, <2>0, <2>2, <2>3, KscpAsks, driver = "kscp", T \in BOOLEAN, Good(a, S, T),
            a.pc = "read"
  <2> QED
    BY ONLY <2>1, <2>4, b = Ask(a, "GET_UI_STATE", 0)
<1>10. CASE rest /\ l.tag # "standby" /\ a.cmd.name = "GET_UI_STATE"
  <2>0. a.op = "play_movie" /\ a.cmd.name # "PLAY"
    BY <1>1, <1>4, <1>10 DEF Kscp!CommandFor
  <2>1. CASE l.val = 1
    <3>1. Kscp!Hear(a, l) = Ask(a, "GET_HIGHLIGHTED_SELECTION", 0)
      BY <1>10, <2>1, KscpWords DEF Kscp!Hear
    <3>. PICK b : b = Ask(a, "GET_HIGHLIGHTED_SELECTION", 0)
      OBVIOUS
    <3>2. b = [op |-> a.op, arg |-> a.arg, pc |-> "connect",
               cmd |-> Command("GET_HIGHLIGHTED_SELECTION", 0),
               n |-> a.n, m |-> a.m, got |-> a.got, ans |-> a.ans]
      BY ONLY <1>1, NewRecords, b = Ask(a, "GET_HIGHLIGHTED_SELECTION", 0)
    <3>3. a.m < Tries
      BY <1>1, <2>0 DEF Knows, KscpKnows
    <3>4. KscpHeard(a, b, S, T)
      BY ONLY <1>1, <2>0, <3>2, <3>3, KscpAsks, driver = "kscp", T \in BOOLEAN, Good(a, S, T),
              a.pc = "read"
    <3> QED
      BY ONLY <3>1, <3>4, b = Ask(a, "GET_HIGHLIGHTED_SELECTION", 0)
  <2>2. CASE l.val # 1
    <3>1. Kscp!Hear(a, l) = Kscp!Again(a)
      BY <1>10, <2>2 DEF Kscp!Hear
    <3> QED
      BY <2>0, <3>1, KscpAgain
  <2> QED
    BY <2>1, <2>2
<1>11. CASE rest /\ l.tag # "standby" /\ a.cmd.name = "GET_HIGHLIGHTED_SELECTION"
  <2>0. l.val \in S
    BY <1>11 DEF KscpSays
  <2>1. CASE a.op = "play_movie"
    <3>1. Kscp!Hear(a, l) = Kscp!PlayIfSelected(a, l)
      BY <1>11, <2>1 DEF Kscp!Hear
    <3> QED
      BY <1>11, <2>0, <2>1, <3>1, KscpPlayIfSelected
  <2>2. CASE a.op # "play_movie"
    <3>1. Kscp!Hear(a, l) = Done(a, l.val)
      BY <1>11, <2>2, KscpWords DEF Kscp!Hear
    <3>2. a.op = "highlighted_section"
      BY <1>1, <1>4, <1>11, <2>2 DEF Kscp!CommandFor
    <3>3. Kept(RequestOf(a), S, T, l.val) /\ l.val \in RawAnswers
      BY <1>1, <2>0, <3>2 DEF Kept, Class, Confirmed, Queries, RequestOf, MaySee
    <3> QED
      BY <1>2, <3>1, <3>2, <3>3
  <2> QED
    BY <2>1, <2>2
<1>13. CASE rest /\ l.tag # "standby" /\ a.cmd.name = "GET_MOVIES"
  <2>0. a.op = "list_movies" /\ Listing(a) /\ a.arg \in Nat
    BY <1>1, <1>4, <1>13 DEF Kscp!CommandFor, Shape
  <2>1. CASE l.tag = "movies"
    <3>1. Kscp!Hear(a, l) = Ask(a, "GET_CONTENT_DETAILS", a.arg)
      BY <1>13, <2>1, KscpWords DEF Kscp!Hear
    <3>. PICK b : b = Ask(a, "GET_CONTENT_DETAILS", a.arg)
      OBVIOUS
    <3>2. b = [op |-> a.op, arg |-> a.arg, pc |-> "connect",
               cmd |-> Command("GET_CONTENT_DETAILS", a.arg),
               n |-> a.n, m |-> a.m, got |-> a.got, ans |-> a.ans]
      BY ONLY <1>1, NewRecords, b = Ask(a, "GET_CONTENT_DETAILS", a.arg)
    <3> DEFINE h == a.got
    <3>3. h \in Seq(Values) /\ Len(h) = 0 /\ DOMAIN h = {}
      BY <2>0 DEF Listing
    <3> HIDE DEF h
    <3>4. /\ b.op = a.op /\ b.arg = a.arg /\ b.pc = "connect" /\ b.n = a.n /\ b.m = 0 /\ b.got = h
          /\ b.ans = a.ans /\ b.cmd.name = "GET_CONTENT_DETAILS" /\ b.cmd.arg = a.arg
          /\ b.cmd = Command("GET_CONTENT_DETAILS", b.cmd.arg) /\ Shape(b)
      <4>1. a.m = 0 /\ h = a.got
        BY <2>0 DEF Listing, h
      <4> QED
        BY ONLY <1>1, <3>2, <4>1 DEF Shape, Command
    <3>5. Details(b)
      <4>1. a.arg \in Nat /\ a.arg <= Movies /\ DetailLines \in Nat
        BY <2>0, LimitsAssumption DEF Listing
      <4>2. \A i \in DOMAIN b.got : b.got[i] = b.cmd.arg
        BY ONLY <3>3, <3>4
      <4> QED
        BY ONLY <3>3, <3>4, <4>1, <4>2 DEF Details
    <3>6. Knows(b, S)
      BY <1>1, <2>0, <3>4, <3>5 DEF Knows, KscpKnows
    <3>7. Sendings(b) >= Sendings(a)
      BY <1>13, <2>0, <3>4 DEF Sendings, Unsent, Acting, Kscp!Acting
    <3>8. KscpHeard(a, b, S, T)
      BY <3>4, <3>6, <3>7, GoesOn DEF KscpHeard
    <3> QED
      BY <3>1, <3>8
  <2>2. CASE l.tag # "movies"
    <3>1. Kscp!Hear(a, l) = Done(a, Err)
      BY <1>13, <2>2, KscpWords DEF Kscp!Hear
    <3> QED
      BY <1>2, <1>3, <3>1
  <2> QED
    BY <2>1, <2>2
<1>12. CASE /\ rest /\ l.tag # "standby"
            /\ a.cmd.name \notin {"GET_MOVIES", "GET_CONTENT_DETAILS", "GET_DEVICE_POWER_STATE", "GET_UI_STATE",
                                  "SHOW_CONTROLLER_DETAILS", "GET_HIGHLIGHTED_SELECTION"}
  <2>1. Kscp!Hear(a, l) = Done(a, Ok)
    BY <1>12, KscpWords DEF Kscp!Hear
  <2>2. a.op \in {"turn_on", "turn_off", "key", "play_movie"}
        /\ (a.op = "play_movie" => a.cmd.name = "PLAY")
    BY <1>1, <1>4, <1>12 DEF Kscp!CommandFor
  <2>3. a.op \in {"turn_on", "turn_off"} => T
    BY <1>12 DEF KscpSays
  <2>4. a.op = "play_movie" => a.arg \in S
    BY <1>1, <2>2 DEF Knows, KscpKnows
  <2>5. CASE a.op = "play_movie"
    <3>1. Kept(RequestOf(a), S, T, Ok)
      BY <2>4, <2>5 DEF Kept, Class, Confirmed, Queries, RequestOf
    <3> QED
      BY <1>2, <1>3, <2>1, <2>5, <3>1
  <2>6. CASE a.op # "play_movie"
    <3>1. Kept(RequestOf(a), S, T, Ok)
      BY <2>2, <2>3, <2>6 DEF Kept, Class, Confirmed, Queries, RequestOf
    <3> QED
      BY <1>2, <1>3, <2>1, <2>2, <2>6, <3>1
  <2> QED
    BY <2>5, <2>6
<1> QED
  BY <1>5, <1>6, <1>7, <1>8, <1>9, <1>10, <1>11, <1>12, <1>13

-----------------------------------------------------------------------------
(* The processor Envy.                                                     *)

\* Its module shares the words of Exchanges.
LEMMA MvrWords ==
  ASSUME NEW a
  PROVE  /\ \A v : Mvr!Done(a, v) = Done(a, v)
         /\ \A name, arg : Mvr!Ask(a, name, arg) = Ask(a, name, arg)
         /\ Mvr!Await(a) = Await(a) /\ Mvr!Proceed(a) = Proceed(a)
BY DEF Mvr!Done, Done, Mvr!Ask, Ask, Mvr!Await, Await, Mvr!Proceed, Proceed, Mvr!Command, Command

\* The Envy's first command.
LEMMA EnvyFirst ==
  ASSUME driver = "envy", driver \in DriverNames, NEW op, NEW arg, Asked(op, arg),
         NEW S, MaySee(op, S)
  PROVE  Begun(Mvr!First(Start(op, arg)), op, arg, S)
<1>0. op \in {"turn_on"} \cup DOMAIN Mvr!CommandFor /\ arg \in Nat
  BY AskedIs DEF Methods
<1>1. CASE op = "turn_on"
  <2> DEFINE a == Start(op, arg)
  <2>1. /\ Shape(a) /\ a.op = op /\ a.arg = arg /\ a.n = 0 /\ a.m = 0 /\ a.got = <<>>
        /\ a.ans = None
    BY <1>0, StartIs DEF Shape
  <2>2. Mvr!First(a) = [a EXCEPT !.pc = "wake", !.cmd = Command("WAKE", 0)]
    BY <1>1, StartIs DEF Mvr!First, Mvr!Command, Command
  <2> HIDE DEF a
  <2>. PICK b : b = [a EXCEPT !.pc = "wake", !.cmd = Command("WAKE", 0)]
    OBVIOUS
  <2>3. b = [op |-> a.op, arg |-> a.arg, pc |-> "wake", cmd |-> Command("WAKE", 0), n |-> a.n,
             m |-> a.m, got |-> a.got, ans |-> a.ans]
    BY <2>1 DEF Shape
  <2>4. b.pc = "wake" /\ b.cmd = Command("WAKE", 0) /\ b.n = 0 /\ b.m = 0 /\ b.op = op
        /\ NewCall(b, op, arg)
    BY ONLY <2>1, <2>3 DEF NewCall, Shape
  <2>5. Knows(b, S)
    BY ONLY <1>1, <2>4, driver = "envy" DEF Knows, EnvyKnows
  <2>6. Sendings(b) >= 0
    BY ONLY <2>4, SendingsNat DEF NewCall
  <2>7. Begun(b, op, arg, S)
    BY ONLY <2>4, <2>5, <2>6, Begins, driver \in DriverNames, Asked(op, arg), MaySee(op, S)
  <2> QED
    BY ONLY <2>2, <2>7, b = [a EXCEPT !.pc = "wake", !.cmd = Command("WAKE", 0)] DEF a
<1>2. CASE op # "turn_on"
  <2> DEFINE b == Mvr!First(Start(op, arg))
  <2>1. b = Ask(Start(op, arg), Mvr!CommandFor[op], arg)
    BY <1>2, StartIs, MvrWords DEF Mvr!First
  <2>2. b.pc = "connect" /\ b.cmd = Command(Mvr!CommandFor[op], arg) /\ NewCall(b, op, arg)
    BY <1>0, <2>1, NewAsked
  <2> HIDE DEF b
  <2>3. b.n = 0 /\ b.m = 0 /\ b.op = op /\ b.arg = arg /\ b.got = <<>>
    BY <2>2 DEF NewCall
  <2>4. Knows(b, S)
    <3>1. EnvyGot(b.got, b.op, b.cmd.name, S)
      BY ONLY <2>3 DEF EnvyGot
    <3>2. EnvyKnows(b, S)
      BY ONLY <1>0, <1>2, <2>2, <2>3, <3>1 DEF EnvyKnows
    <3> QED
      BY ONLY <3>2, driver = "envy" DEF Knows
  <2>5. Sendings(b) >= 0
    BY <2>2, SendingsNat DEF NewCall
  <2>6. Begun(b, op, arg, S)
    BY <2>2, <2>4, <2>5, Begins
  <2> QED
    BY <2>6 DEF b
<1> QED
  BY <1>1, <1>2

\* What the record of a connected call says.
LEMMA EnvyIs ==
  ASSUME driver = "envy", NEW a, NEW S, NEW T, Good(a, S, T), a.pc \in {"connect", "send", "read"}
  PROVE  /\ Shape(a) /\ MaySee(a.op, S) /\ a.op # "turn_on"
         /\ a.n = 0 /\ a.m \in {0, 1, 2}
         /\ a.op \in DOMAIN Mvr!CommandFor
         /\ a.cmd = Command(Mvr!CommandFor[a.op], a.arg)
         /\ a.pc = "connect" => a.m = 0
         /\ a.pc = "send" => a.m = 1
         /\ a.op = "check_is_on" /\ a.pc \in {"send", "read"} => On \in S
         /\ EnvyGot(a.got, a.op, a.cmd.name, S)
<1>1. EnvyKnows(a, S) /\ Shape(a) /\ MaySee(a.op, S)
  BY DEF Good, Knows
<1>2. a.op # "turn_on"
  BY <1>1 DEF EnvyKnows
<1> QED
  BY <1>1, <1>2 DEF EnvyKnows, Shape

\* A call goes on with what it has.
LEMMA EnvyGoesOn ==
  ASSUME driver = "envy", NEW a, NEW S, NEW T, Good(a, S, T), a.pc \in {"connect", "send", "read"},
         NEW b, Shape(b), b.op = a.op, b.arg = a.arg, b.cmd = a.cmd, b.n = a.n, b.ans = a.ans,
         b.pc \in {"send", "read"}, b.m \in {0, 1, 2}, b.pc = "send" => b.m = 1,
         a.m = 0 \/ b.m # 0, a.m # 0 => b.pc = "read", a.op = "check_is_on" => On \in S,
         b.got = a.got \/ EnvyGot(b.got, a.op, a.cmd.name, S)
  PROVE  Onward(a, b, S, T)
<1>1. /\ Shape(a) /\ a.op # "turn_on" /\ a.n = 0 /\ a.op \in DOMAIN Mvr!CommandFor
      /\ a.cmd = Command(Mvr!CommandFor[a.op], a.arg)
      /\ EnvyGot(a.got, a.op, a.cmd.name, S)
  BY EnvyIs
<1>2. EnvyKnows(b, S)
  BY <1>1 DEF EnvyKnows
<1>3. Knows(b, S)
  BY <1>2 DEF Knows
<1>4. Sendings(b) >= Sendings(a)
  <2>1. Sendings(a) = (IF Unsent(a) THEN 0 ELSE 1) /\ Sendings(b) = IF Unsent(b) THEN 0 ELSE 1
    BY <1>1 DEF Sendings
  <2>2. a.pc = "connect" => a.m = 0
    BY EnvyIs
  <2>3. Unsent(b) => Unsent(a)
    BY <2>2 DEF Unsent
  <2> QED
    BY <2>1, <2>3
<1> QED
  BY <1>3, <1>4, GoesOn

\* The Envy, connected.
LEMMA EnvyConnected ==
  ASSUME driver = "envy", NEW a, NEW S, NEW T, Good(a, S, T), a.pc = "connect",
         a.op = "check_is_on" => On \in S
  PROVE  Onward(a, Mvr!Connected(a), S, T) /\ Mvr!Connected(a) = Await(a)
<1> DEFINE b == Await(a)
<1>1. Mvr!Connected(a) = b
  BY MvrWords DEF Mvr!Connected
<1>2. Shape(a) /\ a.m = 0
  BY EnvyIs
<1>3. Passed(a, b, "read")
  BY <1>2, PassesOn
<1> HIDE DEF b
<1>4. Onward(a, b, S, T)
  BY <1>2, <1>3, EnvyGoesOn DEF Passed
<1> QED
  BY <1>1, <1>4 DEF b

\* The Envy's command is written.
LEMMA EnvySent ==
  ASSUME driver = "envy", NEW a, NEW S, NEW T \in BOOLEAN, Good(a, S, T), a.pc = "send"
  PROVE  Written(a, Mvr!Sent(a), S, T)
<1>1. Shape(a) /\ driver \in DOMAIN Methods
  BY DEF Good, Methods
<1>2. Mvr!Sent(a) = Await(a)
  BY MvrWords DEF Mvr!Sent
<1> DEFINE b == Await(a)
<1>3. Passed(a, b, "read")
  BY <1>1, PassesOn
<1> HIDE DEF b
<1>4. Onward(a, b, S, T)
  BY <1>3, EnvyIs, EnvyGoesOn DEF Passed
<1>5. Knows(b, S)
  BY <1>3, <1>4 DEF Onward, Good, Passed
<1> QED
  BY <1>1, <1>2, <1>5, WrittenIs DEF b

\* A call that has read a line, or the end of the stream.
EnvyHeard(a, b, S, T) ==
  /\ Onward(a, b, S, T)
  /\ \/ b.pc = "return"
     \/ b.pc = "send" /\ a.m = 0 /\ b.m = 1
     \/ b.pc = "read" /\ a.m # 0 /\ b.m # 0

\* The welcome is read, and the command comes next.
LEMMA EnvyWelcomed ==
  ASSUME driver = "envy", NEW a, NEW S, NEW T, Good(a, S, T), a.pc = "read", a.m = 0
  PROVE  EnvyHeard(a, Mvr!Welcomed(a), S, T)
<1>1. Shape(a) /\ (a.op = "check_is_on" => On \in S)
  BY EnvyIs
<1>. PICK d : d = [a EXCEPT !.m = 1]
  OBVIOUS
<1>2. Mvr!Welcomed(a) = Proceed(d)
  BY MvrWords DEF Mvr!Welcomed
<1>3. d = [op |-> a.op, arg |-> a.arg, pc |-> a.pc, cmd |-> a.cmd, n |-> a.n, m |-> 1,
           got |-> a.got, ans |-> a.ans]
  BY <1>1 DEF Shape
<1>4. Shape(d)
  BY ONLY <1>1, <1>3 DEF Shape
<1>. PICK b : b = Proceed(d)
  OBVIOUS
<1>5. Passed(d, b, "send")
  BY ONLY <1>4, PassesOn, b = Proceed(d)
<1>6. /\ Shape(b) /\ b.op = a.op /\ b.arg = a.arg /\ b.cmd = a.cmd /\ b.n = a.n /\ b.m = 1
      /\ b.pc = "send" /\ b.got = a.got /\ b.ans = a.ans
  BY ONLY <1>3, <1>5 DEF Passed
<1>7. Onward(a, b, S, T)
  BY ONLY <1>1, <1>6, EnvyGoesOn, driver = "envy", Good(a, S, T), a.pc = "read", a.m = 0
<1>8. EnvyHeard(a, b, S, T)
  BY ONLY <1>6, <1>7, a.m = 0 DEF EnvyHeard
<1> QED
  BY ONLY <1>2, <1>8, b = Proceed(d)

\* An answer of a call that has got what b has.
LEMMA EnvyAnswers ==
  ASSUME driver = "envy", NEW a, NEW S, NEW T \in BOOLEAN, Good(a, S, T), a.pc = "read",
         NEW b, Good(b, S, T), b.pc = "read", b.op = a.op, b.arg = a.arg, b.cmd = a.cmd,
         Sendings(b) >= Sendings(a),
         NEW v, v \in RawAnswers, v \in {Err, Panic} \/ Kept(RequestOf(a), S, T, v)
  PROVE  EnvyHeard(a, Done(b, v), S, T)
<1>1. RequestOf(b) = RequestOf(a) /\ Whole(b, v) /\ driver \in DOMAIN Methods
  BY DEF RequestOf, Whole, Methods
<1> DEFINE d == Done(b, v)
<1>2. Onward(b, d, S, T)
  BY <1>1, Answered
<1>3. d.pc = "return"
  BY NewRecords DEF Good
<1> HIDE DEF d
<1>4. Shape(a) /\ Shape(b) /\ Shape(d)
  BY <1>2 DEF Onward, Good
<1>5. Sendings(d) >= Sendings(a)
  BY <1>2, <1>4, SendingsNat DEF Onward
<1>6. EnvyHeard(a, d, S, T)
  BY <1>2, <1>3, <1>5 DEF EnvyHeard, Onward
<1> QED
  BY <1>6 DEF d

\* The response is what the last line says.
LEMMA EnvyResponded ==
  ASSUME driver = "envy", NEW a, NEW S, NEW T \in BOOLEAN, Good(a, S, T), a.pc = "read",
         NEW b, Good(b, S, T), b.pc = "read", b.op = a.op, b.arg = a.arg, b.cmd = a.cmd,
         Sendings(b) >= Sendings(a)
  PROVE  EnvyHeard(a, Mvr!Done(b, Mvr!Responded(b)), S, T)
<1>1. ASSUME NEW v, Mvr!Responded(b) = v, v \in RawAnswers,
             v \in {Err, Panic} \/ Kept(RequestOf(a), S, T, v)
      PROVE  EnvyHeard(a, Mvr!Done(b, Mvr!Responded(b)), S, T)
  BY <1>1, EnvyAnswers, MvrWords
<1>2. {On, Off, Ok, Err, Panic, Other} \subseteq RawAnswers
  BY DEF RawAnswers
<1>3. /\ b.op \in DOMAIN Mvr!CommandFor /\ (b.op = "check_is_on" => On \in S) /\ MaySee(b.op, S)
      /\ b.got # <<>> => b.got[1].tag \in {"ratio", "note", "words"}
                         /\ EnvySays(b.op, b.cmd.name, b.got[1], S, FALSE)
  BY EnvyIs DEF EnvyGot
<1>4. CASE b.op = "check_is_on"
  <2>1. Mvr!Responded(b) = On
    BY <1>4 DEF Mvr!Responded
  <2>2. Kept(RequestOf(a), S, T, On)
    BY <1>3, <1>4 DEF Kept, Class, Confirmed, Queries, RequestOf
  <2> QED
    BY <1>1, <1>2, <2>1, <2>2
<1>5. CASE b.op = "aspect_ratio"
  <2>1. CASE b.got = <<>>
    <3>1. Mvr!Responded(b) = Panic
      BY <1>5, <2>1 DEF Mvr!Responded
    <3> QED
      BY <1>1, <1>2, <3>1
  <2>2. CASE b.got # <<>>
    <3>1. Mvr!Responded(b) = b.got[1].val
      BY <1>5, <2>2 DEF Mvr!Responded
    <3>2. b.got[1].val \in S \cup {Other}
      BY <1>3, <1>5, <2>2 DEF EnvySays
    <3>3. Class(RequestOf(a)) = "query" /\ Vague(RequestOf(a)) = Other
      BY <1>5 DEF Class, Confirmed, Queries, RequestOf, Vague
    <3>4. Kept(RequestOf(a), S, T, b.got[1].val) /\ b.got[1].val \in RawAnswers
      BY <1>2, <1>3, <1>5, <3>2, <3>3 DEF Kept, MaySee
    <3> QED
      BY <1>1, <3>1, <3>4
  <2> QED
    BY <2>1, <2>2
<1>6. CASE b.op = "get_nearest_aspect_ratio"
  <2>1. CASE b.got = <<>> \/ b.got[1].tag # "ratio"
    <3>1. Mvr!Responded(b) \in {Err, Panic}
      BY <1>3, <1>6, <2>1 DEF Mvr!Responded
    <3> QED
      BY <1>1, <1>2, <3>1
  <2>2. CASE b.got # <<>> /\ b.got[1].tag = "ratio"
    <3> DEFINE v == Mvr!nearest_aspect_ratio_int(b.got[1].val)
    <3>1. Mvr!Responded(b) = v
      BY <1>6, <2>2 DEF Mvr!Responded
    <3>2. v \in S
      BY <1>3, <1>6, <2>2 DEF EnvySays
    <3> HIDE DEF v
    <3>3. Kept(RequestOf(a), S, T, v) /\ v \in RawAnswers
      BY <1>3, <1>6, <3>2 DEF Kept, Class, Confirmed, Queries, RequestOf, MaySee
    <3> QED
      BY <1>1, <3>1, <3>3
  <2> QED
    BY <2>1, <2>2
<1>7. CASE b.op \notin {"check_is_on", "aspect_ratio", "get_nearest_aspect_ratio"}
  <2>1. Mvr!Responded(b) = Ok
    BY <1>7 DEF Mvr!Responded
  <2>2. RequestOf(a).driver = "envy" /\ RequestOf(a).op = b.op
    BY DEF RequestOf
  <2>3. b.op \notin Queries \cup {"set_cec", "set_video_input", "play_movie"}
    BY <1>3, <1>7 DEF Queries, Mvr!CommandFor
  <2>4. Class(RequestOf(a)) = "sent"
    BY <2>2, <2>3 DEF Class, Confirmed
  <2> QED
    BY <1>1, <1>2, <2>1, <2>4 DEF Kept
<1> QED
  BY <1>4, <1>5, <1>6, <1>7

\* A line of the Envy is read.
LEMMA EnvyHear ==
  ASSUME driver = "envy", NEW a, NEW S, NEW T \in BOOLEAN, Good(a, S, T), a.pc = "read",
         NEW l, EnvySays(a.op, a.cmd.name, l, S, T), a.m # 0 => l.tag # "welcome"
  PROVE  EnvyHeard(a, Mvr!Hear(a, l), S, T)
<1>1. /\ Shape(a) /\ a.m \in {0, 1, 2} /\ driver \in DOMAIN Methods
      /\ a.op = "check_is_on" => On \in S
  BY EnvyIs DEF Methods
<1>2. Sendings(a) >= Sendings(a)
  BY <1>1, SendingsNat
<1>3. CASE a.m = 0
  <2>1. Mvr!Hear(a, l) = Mvr!Welcomed(a)
    BY <1>3 DEF Mvr!Hear
  <2> QED
    BY <1>3, <2>1, EnvyWelcomed
<1>4. CASE a.m # 0 /\ l.tag = "OK"
  <2>1. CASE Mvr!ExpectsResponse(a)
    <3>. PICK b : b = [a EXCEPT !.m = 2]
      OBVIOUS
    <3>1. Mvr!Hear(a, l) = b
      BY <1>4, <2>1 DEF Mvr!Hear, Mvr!HearReply
    <3>2. b = [op |-> a.op, arg |-> a.arg, pc |-> a.pc, cmd |-> a.cmd, n |-> a.n, m |-> 2,
               got |-> a.got, ans |-> a.ans]
      BY <1>1 DEF Shape
    <3>3. /\ Shape(b) /\ b.op = a.op /\ b.arg = a.arg /\ b.cmd = a.cmd /\ b.n = a.n /\ b.m = 2
          /\ b.pc = "read" /\ b.got = a.got /\ b.ans = a.ans
      BY ONLY <1>1, <3>2, a.pc = "read" DEF Shape
    <3>4. Onward(a, b, S, T)
      BY ONLY <1>1, <3>3, EnvyGoesOn, driver = "envy", Good(a, S, T), a.pc = "read"
    <3> QED
      BY ONLY <1>4, <3>1, <3>3, <3>4 DEF EnvyHeard
  <2>2. CASE ~Mvr!ExpectsResponse(a)
    <3>1. Mvr!Hear(a, l) = Mvr!Done(a, Mvr!Responded(a))
      BY <1>4, <2>2 DEF Mvr!Hear, Mvr!HearReply
    <3> QED
      BY <1>2, <3>1, EnvyResponded
  <2> QED
    BY <2>1, <2>2
<1>5. CASE a.m # 0 /\ l.tag = "ERROR"
  <2>1. Mvr!Hear(a, l) = Done(a, Err)
    BY <1>5, MvrWords DEF Mvr!Hear, Mvr!HearReply
  <2> QED
    BY <1>1, <2>1, Fails DEF EnvyHeard
<1>6. CASE a.m # 0 /\ l.tag \notin {"OK", "ERROR"}
  <2>. PICK b : b = [a EXCEPT !.got = <<l>>]
    OBVIOUS
  <2> DEFINE h == <<l>>
  <2>1. Mvr!Hear(a, l) = IF a.m = 2 THEN Mvr!Done(b, Mvr!Responded(b)) ELSE b
    BY <1>6 DEF Mvr!Hear, Mvr!HearReply
  <2>2. b = [op |-> a.op, arg |-> a.arg, pc |-> a.pc, cmd |-> a.cmd, n |-> a.n, m |-> a.m,
             got |-> h, ans |-> a.ans]
    BY <1>1 DEF Shape
  <2>3. l.tag \in {"ratio", "note", "words"} /\ EnvySays(a.op, a.cmd.name, l, S, FALSE)
    BY <1>6 DEF EnvySays
  <2>4. EnvyGot(h, a.op, a.cmd.name, S)
    BY <2>3 DEF EnvyGot
  <2> HIDE DEF h
  <2>5. /\ Shape(b) /\ b.op = a.op /\ b.arg = a.arg /\ b.cmd = a.cmd /\ b.n = a.n /\ b.m = a.m
        /\ b.pc = "read" /\ b.got = h /\ b.ans = a.ans
    BY ONLY <1>1, <2>2, a.pc = "read" DEF Shape
  <2>6. Onward(a, b, S, T)
    BY ONLY <1>1, <1>6, <2>3, <2>4, <2>5, EnvyGoesOn, driver = "envy", Good(a, S, T), a.pc = "read"
  <2>7. CASE a.m = 2
    <3>1. EnvyHeard(a, Mvr!Done(b, Mvr!Responded(b)), S, T)
      BY ONLY <2>5, <2>6, EnvyResponded, driver = "envy", T \in BOOLEAN, Good(a, S, T),
              a.pc = "read"
      DEF Onward
    <3> QED
      BY ONLY <2>1, <2>7, <3>1
  <2>8. CASE a.m # 2
    <3>1. EnvyHeard(a, b, S, T)
      BY ONLY <1>6, <2>5, <2>6 DEF EnvyHeard
    <3> QED
      BY ONLY <2>1, <2>8, <3>1
  <2> QED
    BY <2>7, <2>8
<1> QED
  BY <1>3, <1>4, <1>5, <1>6

\* An exchange with the Envy fails.
LEMMA EnvyBroken ==
  ASSUME driver = "envy", NEW a, NEW S, NEW T \in BOOLEAN, Good(a, S, T),
         a.pc \in {"connect", "send", "read"}, NEW how, how = "eof" => a.pc = "read"
  PROVE  EnvyHeard(a, Mvr!Broken(a, how), S, T) /\ (how # "eof" => Mvr!Broken(a, how).pc = "return")
<1>1. CASE how # "eof"
  <2>1. Mvr!Broken(a, how) = Done(a, Err)
    BY <1>1, MvrWords DEF Mvr!Broken
  <2> QED
    BY <2>1, Fails DEF EnvyHeard, Methods
<1>2. CASE how = "eof" /\ a.m = 0
  <2>1. Mvr!Broken(a, how) = Mvr!Welcomed(a)
    BY <1>2 DEF Mvr!Broken
  <2> QED
    BY <1>2, <2>1, EnvyWelcomed
<1>3. CASE how = "eof" /\ a.m # 0
  <2>1. Mvr!Broken(a, how) = Mvr!Done(a, Mvr!Responded(a))
    BY <1>3 DEF Mvr!Broken
  <2>2. Sendings(a) >= Sendings(a)
    BY SendingsNat DEF Good
  <2> QED
    BY <1>3, <2>1, <2>2, EnvyResponded
<1> QED
  BY <1>1, <1>2, <1>3

\* A datagram is sent, or cannot be.
LEMMA EnvyWoken ==
  ASSUME driver = "envy", NEW a, NEW S, NEW T \in BOOLEAN, Good(a, S, T), a.pc = "wake",
         NEW sent \in BOOLEAN
  PROVE  /\ Onward(a, Mvr!Woken(a, sent), S, T) /\ Mvr!Woken(a, sent).pc \in {"wake", "return"}
         /\ Sendings(Mvr!Woken(a, sent)) >= Sendings(a) + 1
<1>1. EnvyKnows(a, S) /\ Shape(a) /\ MaySee(a.op, S)
  BY DEF Good, Knows
<1>2. /\ a.op = "turn_on" /\ a.cmd = Command("WAKE", 0) /\ a.n \in Nat /\ a.n < 3
      /\ a.m \in Nat /\ a.m <= 1
  BY <1>1 DEF EnvyKnows, Shape
<1> DEFINE j == IF sent THEN 1 ELSE a.m
<1>. PICK b : b = [a EXCEPT !.n = @ + 1, !.m = IF sent THEN 1 ELSE @]
  OBVIOUS
<1>3. Mvr!Woken(a, sent) = IF b.n < 3 THEN b ELSE Done(b, IF b.m = 1 THEN Ok ELSE Err)
  BY MvrWords DEF Mvr!Woken
<1>4. b = [op |-> a.op, arg |-> a.arg, pc |-> a.pc, cmd |-> a.cmd, n |-> a.n + 1, m |-> j,
           got |-> a.got, ans |-> a.ans]
  BY <1>1 DEF Shape
<1>5. j \in Nat /\ j <= 1
  BY ONLY <1>2, sent \in BOOLEAN
<1> HIDE DEF j
<1>6. /\ Shape(b) /\ b.op = "turn_on" /\ b.arg = a.arg /\ b.cmd = Command("WAKE", 0)
      /\ b.n = a.n + 1 /\ b.m = j /\ b.pc = "wake" /\ b.ans = a.ans
  BY ONLY <1>1, <1>2, <1>4, <1>5, a.pc = "wake" DEF Shape
<1>7. Sendings(a) = a.n
  BY ONLY <1>2, driver = "envy", a.pc = "wake" DEF Sendings
<1>8. CASE b.n < 3
  <2>1. EnvyKnows(b, S)
    BY ONLY <1>2, <1>5, <1>6, <1>8 DEF EnvyKnows
  <2>2. Sendings(b) = a.n + 1
    BY ONLY <1>6, driver = "envy" DEF Sendings
  <2>3. Knows(b, S)
    BY ONLY <2>1, driver = "envy" DEF Knows
  <2>4. Onward(a, b, S, T)
    BY ONLY <1>2, <1>6, <1>7, <2>2, <2>3, GoesOn, Good(a, S, T), a.pc = "wake"
  <2> QED
    BY ONLY <1>2, <1>3, <1>6, <1>7, <1>8, <2>2, <2>4
<1>9. CASE ~(b.n < 3)
  <2> DEFINE v == IF b.m = 1 THEN Ok ELSE Err
  <2>. PICK d : d = Done(b, v)
    OBVIOUS
  <2>1. v \in RawAnswers
    BY DEF RawAnswers
  <2>0. Mvr!Woken(a, sent) = d
    BY ONLY <1>3, <1>9, d = Done(b, v)
  <2> HIDE DEF v
  <2>2. d = [op |-> b.op, arg |-> b.arg, pc |-> "return", cmd |-> b.cmd, n |-> b.n, m |-> b.m,
             got |-> b.got, ans |-> v]
    BY ONLY <1>6, NewRecords, d = Done(b, v)
  <2>3. /\ Shape(d) /\ d.op = "turn_on" /\ d.arg = a.arg /\ d.cmd = Command("WAKE", 0)
        /\ d.n = a.n + 1 /\ d.m = j /\ d.pc = "return" /\ d.ans = v
    BY ONLY <1>6, <2>2 DEF Shape
  <2>4. EnvyKnows(d, S)
    BY ONLY <1>2, <1>5, <2>3 DEF EnvyKnows
  <2>5. Knows(d, S)
    BY ONLY <2>4, driver = "envy" DEF Knows
  <2>6. Sendings(d) = a.n + 1
    BY ONLY <2>3, driver = "envy" DEF Sendings
  <2>7. Class(RequestOf(d)) = "sent"
    <3>1. RequestOf(d).driver = "envy" /\ RequestOf(d).op = "turn_on"
      BY ONLY <2>3, driver = "envy" DEF RequestOf
    <3> QED
      BY ONLY <3>1 DEF Class, Confirmed, Queries
  <2>8. Good(d, S, T)
    <3>1. [op |-> d.op, arg |-> d.arg] \in Requests[driver]
      BY <1>2, <2>3 DEF Good
    <3>2. Kept(RequestOf(d), S, T, v)
      BY ONLY <2>7 DEF Kept
    <3> QED
      BY ONLY <1>1, <1>2, <2>1, <2>3, <2>5, <3>1, <3>2, driver = "envy" DEF Good
  <2>9. Onward(a, d, S, T)
    BY ONLY <1>2, <1>7, <2>3, <2>6, <2>8 DEF Onward
  <2> QED
    BY ONLY <1>2, <1>7, <2>0, <2>3, <2>6, <2>9
<1> QED
  BY <1>8, <1>9

-----------------------------------------------------------------------------
(* The drivers together: their lines, states and commands.                  *)

States == [power : {On, Off}, set : Settings[driver], aux : {0, 1}]

\* What lines there are.
Tags ==
  {"Z1POW", "Z1INP", "GCCECC", "Z1PVOL", "Z1VOL", "ICN", "!", "ok", "refused",
   "standby", "power", "error", "ui", "selection", "overview", "detail",
   "welcome", "OK", "ERROR", "ratio", "note", "words", "@OK", "@ER", "full", "empty", "done",
   "mute", "input", "other", "bare", "movies", "status"}
    \cup {Avm!InputTag[i] : i \in 1..Inputs}

Lines == [tag : Tags, val : Values]

\* Commands that its callers may have sent the device.
Known(cmd) ==
  /\ cmd = Command(cmd.name, cmd.arg) /\ cmd.arg \in Nat
  /\ CASE driver = "avm70" ->
            /\ cmd.name \in {Avm!CommandFor[op] : op \in DOMAIN Avm!CommandFor} \cup {"Z1PVOL?"}
            /\ cmd.name = "Z1INP" => cmd.arg \in Settings[driver]
            /\ cmd.name = "GCCECC" => cmd.arg \in {0, 1}
       [] driver = "appletv" -> cmd.name \in {Atv!CommandFor[op] : op \in DOMAIN Atv!CommandFor}
       [] driver = "kscp" -> cmd.name = "SHOW_CONTROLLER_DETAILS" => cmd.arg \in Settings[driver]
       [] driver = "envy" -> TRUE
       [] driver = "udp203" -> cmd.name \in {Oppo!CommandFor[op] : op \in DOMAIN Oppo!CommandFor}
       [] driver = "pj_talk" -> cmd.name = "POSITION" => cmd.arg \in Settings[driver]
       [] driver = "za5000" -> cmd.name = "set_input" => cmd.arg \in Settings[driver] \cup {0}

\* The Apple TV's session is used by its holder only.
Locked ==
  /\ holder \in Clients \cup {None}
  /\ driver = "appletv" =>
       /\ \A c \in Clients : call[c].pc \in {"connect", "send", "read", "return"} <=> holder = c
       /\ conn[Session].by \in {holder, None}

\* What has come on the connection of a call.
KscpHears(a, w) ==
  a.cmd.name = "GET_CONTENT_DETAILS" =>
    /\ a.pc = "send" => w.lines = <<>>
    /\ a.pc = "read" =>
         /\ a.m > 0 \/ w.lines # <<>> => w.cmd = None
         /\ IF a.m > 0
            THEN /\ Len(w.lines) <= a.m
                 /\ \A i \in 1..Len(w.lines) : w.lines[i] = Line("detail", a.cmd.arg)
            ELSE w.lines # <<>> =>
                   \/ w.lines = <<Line("standby", 0)>>
                   \/ /\ Len(w.lines) = DetailLines + 1
                      /\ w.lines[1] = Line("overview", DetailLines)
                      /\ \A i \in 2..Len(w.lines) : w.lines[i] = Line("detail", a.cmd.arg)

EnvyHears(a, w) ==
  /\ a.m = 0 => /\ w.cmd = None
                /\ w.up = "open" => w.lines # <<>>
                /\ w.lines # <<>> => w.lines[1].tag = "welcome"
  /\ \A i \in 1..Len(w.lines) : w.lines[i].tag = "welcome" => i = 1 /\ a.m = 0

\* What has come on the connection of a call in an exchange is true for it.
Hears(c, a, S, T, w) ==
  /\ a.pc = "send" /\ driver # "appletv" => w.cmd = None
  /\ a.pc = "read" /\ w.cmd # None => w.cmd = a.cmd /\ w.by = c
  /\ a.pc = "read" \/ driver # "appletv" =>
       \A i \in 1..Len(w.lines) : Says(a.op, a.cmd.name, w.lines[i], S, T)
  /\ driver = "kscp" => KscpHears(a, w)
  /\ driver = "envy" => EnvyHears(a, w)

\* The driver is one that ExchangesProofs speaks of.
LEMMA IsDriver ==
  ASSUME driver \in DriverNames
  PROVE  /\ driver \in DOMAIN Methods
         /\ driver \in {"avm70", "appletv", "kscp", "envy", "udp203", "pj_talk", "za5000"}
<1>1. driver \in DOMAIN Methods
  BY RequestsAssumption
<1> QED
  BY <1>1 DEF Methods

\* A tag and a value make a line.
LEMMA LinesAre ==
  /\ \A t \in Tags, v \in Nat : Line(t, v) \in Lines
  /\ \A t \in Tags : Line(t, Other) \in Lines
BY DEF Line, Lines, Values

\* After connecting.
LEMMA ConnectedIs ==
  ASSUME driver \in DriverNames, NEW a, NEW S, NEW T, Good(a, S, T), a.pc = "connect",
         driver = "envy" /\ a.op = "check_is_on" => On \in S
  PROVE  /\ Onward(a, Connected(a), S, T)
         /\ Connected(a) = IF driver = "envy" THEN Await(a) ELSE Proceed(a)
BY IsDriver, AvmConnected, AtvConnected, KscpConnected, EnvyConnected, OppoConnected, PjConnected,
   StrConnected DEF Connected

\* What a call is about to send.
LEMMA CommandIs ==
  ASSUME driver \in DriverNames, NEW a, NEW S, NEW T, Good(a, S, T),
         a.pc \in {"connect", "wake", "send", "read"}
  PROVE  Known(a.cmd)
<1>1. Asked(a.op, a.arg) /\ Knows(a, S) /\ a.arg \in Nat
  BY DEF Good, Asked, Shape
<1>2. /\ a.op \in {"change_input", "play_movie", "picture_position_set"}
           => a.arg \in Settings[driver]
      /\ a.op = "set_video_input" => a.arg \in Settings[driver] \cup {0}
      /\ a.op = "set_cec" => a.arg \in {0, 1}
  BY <1>1, AskedIs
<1>3. \A name, arg : Command(name, arg).name = name /\ Command(name, arg).arg = arg
  BY DEF Command
<1>4. CASE driver = "avm70"
  <2>1. \/ a.op \in DOMAIN Avm!CommandFor /\ a.cmd = Command(Avm!CommandFor[a.op], a.arg)
        \/ a.cmd = Command("Z1PVOL?", 0)
    BY <1>1, <1>4 DEF Knows, AvmKnows
  <2>2. CASE a.op \in DOMAIN Avm!CommandFor /\ a.cmd = Command(Avm!CommandFor[a.op], a.arg)
    <3>1. a.cmd.name = Avm!CommandFor[a.op] /\ a.cmd.arg = a.arg
      BY <1>3, <2>2
    <3>2. a.cmd.name \in {Avm!CommandFor[op] : op \in DOMAIN Avm!CommandFor}
      BY <2>2, <3>1
    <3>3. /\ a.cmd.name = "Z1INP" => a.op = "change_input"
          /\ a.cmd.name = "GCCECC" => a.op = "set_cec"
      BY <2>2, <3>1 DEF Avm!CommandFor
    <3> QED
      BY <1>1, <1>2, <1>4, <2>2, <3>1, <3>2, <3>3 DEF Known
  <2>3. CASE a.cmd = Command("Z1PVOL?", 0)
    <3>1. a.cmd.name = "Z1PVOL?" /\ a.cmd.arg = 0
      BY <1>3, <2>3
    <3> QED
      BY <1>4, <2>3, <3>1 DEF Known
  <2> QED
    BY <2>1, <2>2, <2>3
<1>5. CASE driver = "appletv"
  <2>1. a.op \in DOMAIN Atv!CommandFor /\ a.cmd = Command(Atv!CommandFor[a.op], a.arg)
    BY <1>1, <1>5 DEF Knows, AtvKnows
  <2>2. a.cmd.name = Atv!CommandFor[a.op] /\ a.cmd.arg = a.arg
    BY <1>3, <2>1
  <2> QED
    BY <1>1, <1>5, <2>1, <2>2 DEF Known
<1>6. CASE driver = "kscp"
  <2>1. \/ a.cmd = Command("GET_CONTENT_DETAILS", a.cmd.arg) /\ a.cmd.arg \in Nat
        \/ a.op = "play_movie"
             /\ a.cmd = Command(a.cmd.name, IF a.cmd.name = "SHOW_CONTROLLER_DETAILS"
                                            THEN a.arg ELSE 0)
        \/ a.op \in DOMAIN Kscp!CommandFor \ {"play_movie"}
             /\ a.cmd = Command(Kscp!CommandFor[a.op], a.arg)
    BY <1>1, <1>6 DEF Knows, KscpKnows, Details, Listing, Kscp!CommandFor
  <2>2. CASE a.cmd = Command("GET_CONTENT_DETAILS", a.cmd.arg) /\ a.cmd.arg \in Nat
    <3>1. a.cmd.name = "GET_CONTENT_DETAILS"
      BY <1>3, <2>2
    <3> QED
      BY <1>6, <2>2, <3>1 DEF Known
  <2>3. CASE a.op = "play_movie"
        /\ a.cmd = Command(a.cmd.name, IF a.cmd.name = "SHOW_CONTROLLER_DETAILS"
                                       THEN a.arg ELSE 0)
    <3>1. a.cmd.arg = IF a.cmd.name = "SHOW_CONTROLLER_DETAILS" THEN a.arg ELSE 0
      BY <1>3, <2>3
    <3> QED
      BY <1>1, <1>2, <1>6, <2>3, <3>1 DEF Known
  <2>4. CASE a.op \in DOMAIN Kscp!CommandFor \ {"play_movie"}
        /\ a.cmd = Command(Kscp!CommandFor[a.op], a.arg)
    <3>1. a.cmd.name = Kscp!CommandFor[a.op] /\ a.cmd.arg = a.arg
      BY <1>3, <2>4
    <3>2. a.cmd.name # "SHOW_CONTROLLER_DETAILS"
      BY <2>4, <3>1 DEF Kscp!CommandFor
    <3> QED
      BY <1>1, <1>6, <2>4, <3>1, <3>2 DEF Known
  <2> QED
    BY <2>1, <2>2, <2>3, <2>4
<1>7. CASE driver = "envy"
  <2>1. a.cmd = Command("WAKE", 0) \/ a.cmd = Command(Mvr!CommandFor[a.op], a.arg)
    BY <1>1, <1>7 DEF Knows, EnvyKnows
  <2>2. a.cmd = Command(a.cmd.name, a.cmd.arg) /\ a.cmd.arg \in Nat
    BY <1>1, <1>3, <2>1
  <2> QED
    BY <1>7, <2>2 DEF Known
<1>8. CASE driver = "udp203"
  <2>1. a.op \in DOMAIN Oppo!CommandFor /\ a.cmd = Command(Oppo!CommandFor[a.op], a.arg)
    BY <1>1, <1>8 DEF Knows, OppoKnows
  <2>2. a.cmd.name = Oppo!CommandFor[a.op] /\ a.cmd.arg = a.arg
    BY <1>3, <2>1
  <2> QED
    BY <1>1, <1>8, <2>1, <2>2 DEF Known
<1>9. CASE driver = "pj_talk"
  <2>1. a.op \in DOMAIN Pj!CommandFor /\ a.cmd = Command(Pj!CommandFor[a.op], Pj!Argument(a))
    BY <1>1, <1>9 DEF Knows, PjKnows
  <2>2. a.cmd.name = Pj!CommandFor[a.op] /\ a.cmd.arg = Pj!Argument(a)
    BY <1>3, <2>1
  <2>3. Pj!Argument(a) \in Nat /\ (a.op # "turn_on" => Pj!Argument(a) = a.arg)
    BY <1>1 DEF Pj!Argument
  <2>4. a.cmd.name = "POSITION" => a.op = "picture_position_set"
    BY <2>1, <2>2 DEF Pj!CommandFor
  <2> QED
    BY <1>2, <1>9, <2>1, <2>2, <2>3, <2>4 DEF Known
<1>10. CASE driver = "za5000"
  <2>1. /\ a.cmd = Command(a.cmd.name, a.cmd.arg) /\ a.cmd.arg \in Nat
        /\ a.cmd.name = "set_input" => a.cmd.arg = a.arg /\ a.op = "set_video_input"
    BY <1>1, <1>3, <1>10 DEF Knows, StrKnows, Str!CommandFor
  <2> QED
    BY <1>2, <1>10, <2>1 DEF Known
<1> QED
  BY <1>4, <1>5, <1>6, <1>7, <1>8, <1>9, <1>10, IsDriver

\* r is the reaction with these fields.
Is(r, s, reply, tell, close, heeded) ==
  /\ r.state = s /\ r.reply = reply /\ r.tell = tell
  /\ r.close = close /\ r.heeded = heeded

\* The ways of reacting.
LEMMA ReactIs ==
  ASSUME NEW s, NEW ls
  PROVE  /\ Is(React(s, ls), s, ls, <<>>, FALSE, TRUE)
         /\ Is(Refuse(s, ls), s, ls, <<>>, FALSE, FALSE)
         /\ Is(Announce(s, ls), s, ls, ls, FALSE, TRUE)
         /\ Is(HangUp(s, ls), s, ls, <<>>, TRUE, TRUE)
<1>1. Is(React(s, ls), s, ls, <<>>, FALSE, TRUE)
  BY DEF Is, React
<1>2. Is(Refuse(s, ls), s, ls, <<>>, FALSE, FALSE)
  BY DEF Is, React, Refuse
<1>3. Is(Announce(s, ls), s, ls, ls, FALSE, TRUE)
  BY DEF Is, React, Announce
<1>4. Is(HangUp(s, ls), s, ls, <<>>, TRUE, TRUE)
  BY DEF Is, React, HangUp
<1> QED
  BY <1>1, <1>2, <1>3, <1>4

\* States are records.
LEMMA StatesAre ==
  ASSUME NEW s \in States
  PROVE  /\ s = [power |-> s.power, set |-> s.set, aux |-> s.aux]
         /\ s.power \in {On, Off} /\ s.set \in Settings[driver] /\ s.aux \in {0, 1}
         /\ Bit(s) \in {0, 1} /\ PowerOf(Bit(s)) = s.power
         /\ \A p, v, x : p \in {On, Off} /\ v \in Settings[driver] /\ x \in {0, 1}
              => [power |-> p, set |-> v, aux |-> x] \in States
         /\ \A p : [s EXCEPT !.power = p] = [power |-> p, set |-> s.set, aux |-> s.aux]
         /\ \A v : [s EXCEPT !.set = v] = [power |-> s.power, set |-> v, aux |-> s.aux]
         /\ \A x : [s EXCEPT !.aux = x] = [power |-> s.power, set |-> s.set, aux |-> x]
         /\ [s EXCEPT !.aux = 1 - @] = [power |-> s.power, set |-> s.set, aux |-> 1 - s.aux]
<1>1. /\ s = [power |-> s.power, set |-> s.set, aux |-> s.aux]
      /\ s.power \in {On, Off} /\ s.set \in Settings[driver] /\ s.aux \in {0, 1}
  BY DEF States
<1>2. Bit(s) \in {0, 1} /\ PowerOf(Bit(s)) = s.power
  BY <1>1 DEF Bit, PowerOf
<1>3. \A p, v, x : p \in {On, Off} /\ v \in Settings[driver] /\ x \in {0, 1}
        => [power |-> p, set |-> v, aux |-> x] \in States
  BY DEF States
<1>4. /\ \A p : [s EXCEPT !.power = p] = [power |-> p, set |-> s.set, aux |-> s.aux]
      /\ \A v : [s EXCEPT !.set = v] = [power |-> s.power, set |-> v, aux |-> s.aux]
      /\ \A x : [s EXCEPT !.aux = x] = [power |-> s.power, set |-> s.set, aux |-> x]
      /\ [s EXCEPT !.aux = 1 - @] = [power |-> s.power, set |-> s.set, aux |-> 1 - s.aux]
  BY <1>1
<1> QED
  BY <1>1, <1>2, <1>3, <1>4

\* Its module shares the words of Exchanges.
LEMMA EnvyWords ==
  ASSUME NEW s, NEW ls
  PROVE  /\ Mvr!React(s, ls) = React(s, ls) /\ Mvr!Refuse(s, ls) = Refuse(s, ls)
         /\ Mvr!HangUp(s, ls) = HangUp(s, ls) /\ \A t, v : Mvr!Line(t, v) = Line(t, v)
BY DEF Mvr!React, React, Mvr!Refuse, Refuse, Mvr!HangUp, HangUp, Mvr!Line, Line

-----------------------------------------------------------------------------
(* What a call expects in fair weather: nothing has come between so far.    *)

\* The lines that the receiver tells connections without having been asked.
Gossip == {"Z1POW", "Z1INP", "Z1PVOL", "Z1VOL"}

\* How many lines its reply has after the next one, and the tag of line i after it.
AvmMore(a) == CASE a.op = "inputs" -> Inputs - a.m [] a.op = "set_volume" -> 1 - a.m [] OTHER -> 0
AvmTag(a, i) == Avm!Expected([op |-> a.op, m |-> a.m + i])

\* The rest of the reply has come, from line i on, and else what others do.
AvmBlock(a, ls, i) ==
  /\ i + AvmMore(a) <= Len(ls)
  /\ \A j \in 1..Len(ls) :
       IF j \in i .. (i + AvmMore(a)) THEN ls[j].tag = AvmTag(a, j - i) ELSE ls[j].tag \in Gossip
  /\ a.op = "inputs" /\ a.m > 0 => i = 1

AvmDue(a, w) ==
  /\ w.up = "open"
  /\ \E i \in 1..Len(w.lines) : AvmBlock(a, w.lines, i)
  /\ a.op = "set_cec" =>
       \A i \in 1..Len(w.lines) : w.lines[i].tag = "GCCECC" => w.lines[i].val = a.arg

AtvDue(a, w) ==
  /\ a.n = 1 => w.up = "open"
  /\ w.up = "open" => w.lines # <<>>
  /\ w.lines # <<>> => w.lines[1].tag # "refused"

KscpDue(a, w) ==
  /\ w.up = "open" /\ w.lines # <<>>
  /\ IF a.cmd.name = "GET_CONTENT_DETAILS"
     THEN IF a.m > 0 THEN Len(w.lines) = a.m ELSE w.lines[1].tag # "standby"
     ELSE /\ w.lines[1].tag # "standby"
          /\ a.cmd.name = "GET_MOVIES" => w.lines[1].tag = "movies"
          /\ a.op = "check_is_on" => w.lines[1].tag = "power"
          /\ a.op = "play_movie" /\ a.cmd.name = "GET_UI_STATE" => w.lines[1].val = 1
          /\ a.op = "play_movie" /\ a.cmd.name = "GET_HIGHLIGHTED_SELECTION"
               => w.lines[1].val = a.arg

EnvyDue(a, w) ==
  CASE a.m = 0 -> w.up = "open" /\ Len(w.lines) = 1
    [] a.m > 0 /\ a.op \in {"turn_off", "standby"} ->
         w.up # "open" /\ \A i \in 1..Len(w.lines) : w.lines[i].tag = "OK"
    [] a.m > 0 /\ a.op \in {"check_is_on", "custom_zoom"} ->
         w.up = "open" /\ w.lines # <<>> /\ w.lines[1].tag = "OK"
    [] OTHER ->
         /\ w.up = "open" /\ w.lines # <<>> /\ w.lines[Len(w.lines)].tag = "ratio"
         /\ IF a.m = 2 THEN Len(w.lines) = 1 ELSE Len(w.lines) = 2 /\ w.lines[1].tag = "OK"

OppoDue(a, w) == w.up = "open" /\ w.lines # <<>> /\ w.lines[1].tag \in {"@OK", "full"}

PjDue(a, w) ==
  a.n = 1 \/ (w.up = "open" /\ w.lines # <<>> /\ w.lines[1].tag \in {"ok", "bare"})

StrDue(a, w) ==
  /\ w.up = "open" /\ w.lines # <<>> /\ w.lines[1].tag # "empty"
  /\ a.cmd.name = "input?" =>
       \/ w.lines[1].tag = "other"
       \/ /\ w.lines[1].tag = "input"
          /\ a.op = "set_video_input" /\ a.arg # 0 => w.lines[1].val = a.arg
  /\ a.cmd.name = "mute?" => w.lines[1].tag \in {"mute", "other"}

\* The reply is there, or what is left of it.
Due(a, w) ==
  CASE driver = "avm70" -> AvmDue(a, w)
    [] driver = "appletv" -> AtvDue(a, w)
    [] driver = "kscp" -> KscpDue(a, w)
    [] driver = "envy" -> EnvyDue(a, w)
    [] driver = "udp203" -> OppoDue(a, w)
    [] driver = "pj_talk" -> PjDue(a, w)
    [] driver = "za5000" -> StrDue(a, w)

\* The connection is ready for the command, and no reply has come yet; the
\* Apple TV's session may still turn out to be broken.
Ready(a, w) ==
  /\ (driver # "appletv" \/ a.n = 1) => w.up = "open"
  /\ CASE driver = "avm70" -> \A i \in 1..Len(w.lines) : w.lines[i].tag \in Gossip
       [] driver = "appletv" -> a.pc = "read" => w.lines = <<>>
       [] OTHER -> w.lines = <<>>

\* What the call counts fits where it is.
AvmStands(a, w) ==
  /\ a.op = "turn_on" => a.pc # "read"
  /\ a.op = "get_volume" => (a.m = 0 <=> a.cmd.name = "Z1VOL?")
  /\ a.op = "inputs" /\ (a.pc # "read" \/ w.cmd # None) => a.m = 0

EnvyStands(a, w) ==
  /\ a.op = "turn_on" /\ a.n > 0 => a.m = 1
  /\ a.pc = "read" /\ w.cmd # None => a.m = 1
  /\ a.got = <<>>

\* What it has set stays so.
KscpStands(a, w, s) ==
  a.op = "play_movie" /\ (a.cmd.name = "SHOW_CONTROLLER_DETAILS" => a.pc = "read" /\ w.cmd = None)
    => s.set = a.arg /\ s.aux = 1

StrStands(a, w, s) ==
  /\ a.op = "set_video_input" /\ a.arg # 0
  /\ \/ a.m = 1 \/ a.cmd.name = "input?"
     \/ a.cmd.name = "set_input" /\ a.pc = "read" /\ w.cmd = None
  => s.set = a.arg

Stands(a, w, s) ==
  CASE driver = "avm70" -> AvmStands(a, w)
    [] driver = "kscp" -> KscpStands(a, w, s)
    [] driver = "envy" -> EnvyStands(a, w)
    [] driver = "za5000" -> StrStands(a, w, s)
    [] OTHER -> TRUE

Fair(a, w, s) ==
  /\ a.pc = "lock" => a.n = 0
  /\ a.pc = "send" => Ready(a, w)
  /\ a.pc = "read" => IF w.cmd = None THEN Due(a, w) ELSE Ready(a, w)
  /\ a.pc \in {"connect", "wake", "send", "read"} => Stands(a, w, s)

\* The answer is no failure, or one with a reason.
Pleasant(a, S) == a.ans \in {Err, Panic} => Unreadable(a, S)

Well(a, w, s, S) == Fair(a, w, s) /\ (a.pc = "return" => Pleasant(a, S))

\* The call has left no command behind.
Aloof(c, a, w, L) ==
  driver \notin {"avm70", "appletv"} /\ a.pc # "return" =>
    /\ \A x \in L : x.by = c => driver = "envy" /\ a.op = "turn_on"
    /\ a.pc \in {"idle", "connect"} => w.cmd = None

\* An Envy that is off has no connections.
Dark == driver = "envy" /\ dev.power # On => \A k \in Keys : conn[k].up # "open"

-----------------------------------------------------------------------------
(* Calls that hear what is due.                                            *)

\* The connection when its first line has been read.
Rested(v, w) ==
  /\ v.up = w.up /\ v.cmd = w.cmd /\ v.lines \in Seq(Lines)
  /\ Len(v.lines) = Len(w.lines) - 1
  /\ \A i \in 1..Len(v.lines) : v.lines[i] = w.lines[i + 1]

\* Answers that are no failures.
LEMMA AnswersWell ==
  /\ \A x \in Values \cup {On, Off, Ok, Unknown} : x \notin {Err, Panic}
  /\ \A n : PowerOf(n) \notin {Err, Panic}
BY AnswersAssumption DEF Values, PowerOf

\* A call that answers so has not failed.
LEMMA DoneWell ==
  ASSUME NEW a, Shape(a), NEW x, x \notin {Err, Panic}, NEW w, NEW s, NEW S
  PROVE  Well(Done(a, x), w, s, S)
<1> DEFINE b == Done(a, x)
<1>1. b.pc = "return" /\ b.ans = x
  BY NewRecords
<1> HIDE DEF b
<1>2. Well(b, w, s, S)
  BY <1>1 DEF Well, Fair, Pleasant
<1> QED
  BY <1>2 DEF b

\* A call that connects needs only what it has set.
LEMMA AskWell ==
  ASSUME NEW b, b.pc = "connect", NEW w, NEW s, NEW S, Stands(b, w, s)
  PROVE  Well(b, w, s, S)
BY DEF Well, Fair

\* The Oppo's reply is the answer.
LEMMA OppoHearWell ==
  ASSUME driver = "udp203", NEW a, NEW S, NEW T, Good(a, S, T), a.pc = "read",
         NEW w, w.lines # <<>>, NEW s, Fair(a, w, s), NEW v
  PROVE  Well(Hear(a, w.lines[1]), v, s, S)
<1> DEFINE l == w.lines[1]
<1>1. Shape(a) /\ l.tag \in {"@OK", "full"}
  BY DEF Good, Fair, Due, OppoDue, Ready
<1> HIDE DEF l
<1>4. CASE l.tag = "full"
  <2> DEFINE b == Done(a, Panic)
  <2>1. Hear(a, l) = b
    BY <1>4, OppoWords DEF Hear, Oppo!Hear
  <2>2. b.pc = "return" /\ b.ans = Panic
    BY <1>1, NewRecords
  <2> HIDE DEF b
  <2>3. Well(b, v, s, S)
    BY <2>2 DEF Well, Fair, Pleasant, Unreadable
  <2> QED
    BY <2>1, <2>3 DEF l
<1>5. CASE l.tag = "@OK"
  <2>2. PICK x \in {On, Off, Ok} : Hear(a, l) = Done(a, x)
    <3>1. Hear(a, l) = Oppo!Hear(a, l)
      BY DEF Hear
    <3>2. Oppo!Hear(a, l) = Done(a, On) \/ Oppo!Hear(a, l) = Done(a, Off)
            \/ Oppo!Hear(a, l) = Done(a, Ok)
      BY <1>1, <1>5, OppoWords DEF Oppo!Hear
    <3> QED
      BY <3>1, <3>2
  <2>3. Well(Done(a, x), v, s, S)
    BY <1>1, AnswersWell, DoneWell
  <2> QED
    BY <2>2, <2>3 DEF l
<1> QED
  BY <1>1, <1>4, <1>5

\* And the Apple TV's.
LEMMA AtvHearWell ==
  ASSUME driver = "appletv", NEW a, NEW S, NEW T, Good(a, S, T), a.pc = "read",
         NEW w, w.lines # <<>>, NEW s, Fair(a, w, s), NEW v
  PROVE  Well(Hear(a, w.lines[1]), v, s, S)
<1> DEFINE l == w.lines[1]
<1>1. Shape(a) /\ l.tag # "refused"
  BY DEF Good, Fair, Due, AtvDue, Ready
<1> HIDE DEF l
<1>2. PICK x : x \notin {Err, Panic} /\ Hear(a, l) = Done(a, x)
  <2>1. Hear(a, l) = Done(a, PowerOf(l.val)) \/ Hear(a, l) = Done(a, Ok)
    BY <1>1, AtvWords DEF Hear, Atv!Hear, Atv!PowerOf, PowerOf
  <2> QED
    BY <2>1, AnswersWell
<1>3. Well(Done(a, x), v, s, S)
  BY <1>1, <1>2, DoneWell
<1> QED
  BY <1>2, <1>3 DEF l

\* The projector's data are, and a header without data is noted.
LEMMA PjHearWell ==
  ASSUME driver = "pj_talk", NEW a, NEW S, NEW T, Good(a, S, T), a.pc = "read",
         NEW w, w.lines \in Seq(Lines), w.lines # <<>>, NEW s, Fair(a, w, s),
         NEW v, Rested(v, w)
  PROVE  Well(Hear(a, w.lines[1]), v, s, S)
<1> DEFINE l == w.lines[1]
           b == Hear(a, l)
<1>1. /\ Shape(a) /\ l.val \in Values /\ v.cmd = None
      /\ a.n = 1 => a.op = "set"
      /\ a.n = 1 \/ l.tag \in {"ok", "bare"}
  <2>1. l \in Lines
    OBVIOUS
  <2>2. a.n = 1 => a.op = "set"
    BY DEF Good, Knows, PjKnows
  <2> QED
    BY <2>1, <2>2 DEF Good, Fair, Due, PjDue, Ready, Lines, Rested
<1>2. b = Pj!Hear(a, l)
  BY DEF Hear
<1> HIDE DEF l, b
<1>3. CASE l.tag = "bare"
  <2>1. b = [a EXCEPT !.n = 1]
    BY <1>2, <1>3 DEF Pj!Hear
  <2>2. b = [op |-> a.op, arg |-> a.arg, pc |-> a.pc, cmd |-> a.cmd, n |-> 1, m |-> a.m,
             got |-> a.got, ans |-> a.ans]
    BY <1>1, <2>1 DEF Shape
  <2>3. b.pc = "read" /\ b.n = 1
    BY <2>2
  <2> QED
    BY <1>1, <2>3 DEF Well, Fair, Due, PjDue, Stands, b, l
<1>4. CASE l.tag # "bare" /\ a.n = 1
  <2>1. b = Done(a, Err) \/ b = Done(a, Ok)
    BY <1>1, <1>2, <1>4, PjWords DEF Pj!Hear
  <2>2. b.pc = "return" /\ b.n = 1
    BY <1>1, <1>4, <2>1, NewRecords
  <2> QED
    BY <2>2 DEF Well, Fair, Pleasant, Unreadable, b, l
<1>5. CASE l.tag = "ok"
  <2>1. PICK x : x \in {On, Off, Ok} \cup Values /\ b = Done(a, x)
    <3>1. \/ \E x \in {On, Off} : b = Done(a, x)
          \/ b = Done(a, l.val) \/ b = Done(a, Ok)
      BY <1>2, <1>5, PjWords DEF Pj!Hear
    <3> QED
      BY <1>1, <3>1
  <2>2. Well(Done(a, x), v, s, S)
    BY <1>1, <2>1, AnswersWell, DoneWell
  <2> QED
    BY <2>1, <2>2 DEF b, l
<1> QED
  BY <1>1, <1>3, <1>4, <1>5

\* A body that cannot be parsed is noted.
LEMMA StrUnparsedWell ==
  ASSUME driver = "za5000", NEW a, Shape(a), NEW b, b = Str!Unparsed(a), NEW w, NEW s, NEW S
  PROVE  Well(b, w, s, S)
<1>1. PICK d : d = [a EXCEPT !.n = 1]
  OBVIOUS
<1>2. d = [op |-> a.op, arg |-> a.arg, pc |-> a.pc, cmd |-> a.cmd, n |-> 1, m |-> a.m,
           got |-> a.got, ans |-> a.ans]
  BY <1>1 DEF Shape
<1>3. Shape(d) /\ d.n = 1
  BY ONLY <1>2, Shape(a) DEF Shape
<1>4. b = Done(d, Err)
  BY <1>1, StrWords DEF Str!Unparsed
<1>5. b.pc = "return" /\ b.n = 1
  BY <1>3, <1>4, NewRecords
<1> QED
  BY <1>5 DEF Well, Fair, Pleasant, Unreadable

\* The receiver's page is what the call asked for.
LEMMA StrHearWell ==
  ASSUME driver = "za5000", NEW a, NEW S, NEW T, Good(a, S, T), a.pc = "read",
         NEW w, w.lines \in Seq(Lines), w.lines # <<>>, NEW s, Fair(a, w, s), NEW v
  PROVE  Well(Hear(a, w.lines[1]), v, s, S)
<1> DEFINE l == w.lines[1]
           b == Hear(a, l)
<1>1. l \in Lines
  OBVIOUS
<1>2. /\ Shape(a) /\ StrKnows(a, S) /\ w.cmd = None /\ StrDue(a, w) /\ StrStands(a, w, s)
      /\ l.val \in Values
  BY <1>1 DEF Good, Knows, Fair, Due, Ready, Stands, Lines
<1>3. /\ l.tag # "empty"
      /\ a.cmd.name = "input?" =>
           \/ l.tag = "other"
           \/ l.tag = "input" /\ (a.op = "set_video_input" /\ a.arg # 0 => l.val = a.arg)
      /\ a.cmd.name = "mute?" => l.tag \in {"mute", "other"}
  BY <1>2 DEF StrDue
<1>4. b = Str!Hear(a, l)
  BY DEF Hear
<1> HIDE DEF l, b
<1>5. CASE a.cmd.name = "power?"
  <2>1. b = Str!WasOn(a)
    BY <1>3, <1>4, <1>5 DEF Str!Hear
  <2>2. CASE a.op = "check_is_on"
    <3>1. b = Done(a, On)
      BY <2>1, <2>2, StrWords DEF Str!WasOn
    <3> QED
      BY <1>2, <3>1, AnswersWell, DoneWell DEF b, l
  <2>3. CASE a.op # "check_is_on"
    <3>1. PICK name, arg : /\ b = Ask(a, name, arg)
                           /\ a.op = "set_video_input" => name = "set_input" \/ a.m = 1
      <4>1. \/ b = Ask(a, "input?", 0) /\ (a.op = "set_video_input" => a.m = 1)
            \/ b = Ask(a, "set_input", a.arg)
            \/ b = Ask(a, "mute?", 0) /\ a.op # "set_video_input"
        <5>1. a.m \in {0, 1}
          BY <1>2 DEF StrKnows
        <5>2. \A name, arg : Str!Ask(a, name, arg) = Ask(a, name, arg)
          BY StrWords
        <5> QED
          BY ONLY <2>1, <2>3, <5>1, <5>2 DEF Str!WasOn
      <4> QED
        BY <4>1
    <3>2. /\ b.pc = "connect" /\ b.op = a.op /\ b.arg = a.arg /\ b.m = a.m
          /\ b.cmd = Command(name, arg)
      BY <1>2, <3>1, NewRecords
    <3>3. b.cmd.name = name
      BY <3>2 DEF Command
    <3>4. StrStands(b, v, s)
      <4>1. a.op = "set_video_input" /\ a.arg # 0 /\ a.m = 1 => s.set = a.arg
        BY <1>2 DEF StrStands
      <4> QED
        BY <3>1, <3>2, <3>3, <4>1 DEF StrStands
    <3>5. Stands(b, v, s)
      BY <3>4 DEF Stands
    <3> QED
      BY <3>2, <3>5, AskWell DEF b, l
  <2> QED
    BY <2>2, <2>3
<1>11. CASE a.cmd.name \in {"input?", "mute?"} /\ l.tag = "other"
  <2>1. b = Str!Unparsed(a)
    BY <1>4, <1>11 DEF Str!Hear
  <2> QED
    BY <1>2, <2>1, StrUnparsedWell DEF b, l
<1>6. CASE a.cmd.name = "input?" /\ l.tag # "other"
  <2>1. b = Str!ReadBack(a, l.val)
    BY <1>3, <1>4, <1>6 DEF Str!Hear
  <2>2. a.op \in {"get_video_input", "set_video_input"}
    BY <1>2, <1>6 DEF StrKnows, Str!CommandFor
  <2>3. CASE a.op = "set_video_input" /\ a.arg = 0
    <3>1. b = Done(a, Ok) \/ b = Done(a, Err)
      BY <2>1, <2>3, StrWords DEF Str!ReadBack
    <3>2. b.pc = "return" /\ b.op = "set_video_input" /\ b.arg = 0
      BY <1>2, <2>3, <3>1, NewRecords
    <3> QED
      BY <3>2 DEF Well, Fair, Pleasant, Unreadable, b, l
  <2>4. CASE ~(a.op = "set_video_input" /\ a.arg = 0)
    <3>1. b = Done(a, l.val) \/ b = Done(a, Unknown) \/ b = Done(a, Ok)
      BY <1>3, <1>6, <2>1, <2>2, <2>4, StrWords DEF Str!ReadBack, Str!VariantOf
    <3> QED
      BY <1>2, <3>1, AnswersWell, DoneWell DEF b, l
  <2> QED
    BY <2>3, <2>4
<1>7. CASE a.cmd.name = "mute?" /\ l.tag # "other"
  <2>1. b = Done(a, PowerOf(l.val))
    BY <1>3, <1>4, <1>7, StrWords DEF Str!Hear, Str!PowerOf, PowerOf
  <2> QED
    BY <1>2, <2>1, AnswersWell, DoneWell DEF b, l
<1>8. CASE a.cmd.name = "set_input"
  <2>1. PICK a1 : a1 = [a EXCEPT !.m = 1]
    OBVIOUS
  <2>2. a1 = [op |-> a.op, arg |-> a.arg, pc |-> a.pc, cmd |-> a.cmd, n |-> a.n, m |-> 1,
              got |-> a.got, ans |-> a.ans] /\ Shape(a1)
    BY <1>2, <2>1, NewCounts DEF Shape
  <2>3. b = Ask(a1, "power?", 0)
    BY <1>4, <1>8, <2>1, StrWords DEF Str!Hear
  <2>4. b.pc = "connect" /\ b.op = a.op /\ b.arg = a.arg
    BY <2>2, <2>3, NewRecords
  <2>5. a.op = "set_video_input"
    BY <1>2, <1>8 DEF StrKnows, Str!CommandFor
  <2>6. a.arg # 0 => s.set = a.arg
    BY <1>2, <1>8, <2>5 DEF StrStands, Fair
  <2>7. Stands(b, v, s)
    BY <2>4, <2>6 DEF Stands, StrStands
  <2> QED
    BY <2>4, <2>7, AskWell DEF b, l
<1>9. CASE a.cmd.name = "muting"
  <2>1. b = Ask(a, "power?", 0)
    BY <1>4, <1>9, StrWords DEF Str!Hear
  <2>2. b.pc = "connect" /\ b.op = a.op
    BY <1>2, <2>1, NewRecords
  <2>3. a.op # "set_video_input"
    BY <1>2, <1>9 DEF StrKnows, Str!CommandFor
  <2>4. Stands(b, v, s)
    BY <2>2, <2>3 DEF Stands, StrStands
  <2> QED
    BY <2>2, <2>4, AskWell DEF b, l
<1>10. CASE a.cmd.name \notin {"power?", "input?", "mute?", "set_input", "muting"}
  <2>1. b = Done(a, Ok)
    BY <1>4, <1>10, StrWords DEF Str!Hear
  <2> QED
    BY <1>2, <2>1, AnswersWell, DoneWell DEF b, l
<1> QED
  BY <1>5, <1>6, <1>7, <1>8, <1>9, <1>10, <1>11

\* A call for details gets all of them, and goes on with the next movie.
LEMMA KscpDetailsWell ==
  ASSUME driver = "kscp", NEW a, NEW S, NEW T, Good(a, S, T), a.pc = "read",
         a.op \in {"movie_details", "list_movies"}, a.cmd.name = "GET_CONTENT_DETAILS",
         NEW w, w.lines \in Seq(Lines), w.lines # <<>>, NEW s, Fair(a, w, s), KscpHears(a, w),
         NEW v, Rested(v, w)
  PROVE  Well(Hear(a, w.lines[1]), v, s, S)
<1> DEFINE l == w.lines[1]
           b == Hear(a, l)
<1>1. /\ Shape(a) /\ a.n \in Nat /\ a.m \in Nat /\ a.cmd.name = "GET_CONTENT_DETAILS"
      /\ DetailLines \in Nat \ {0}
  BY KscpDetails
<1>2. /\ w.cmd = None /\ w.up = "open" /\ v.cmd = None /\ v.up = "open"
      /\ IF a.m > 0 THEN Len(w.lines) = a.m ELSE l.tag # "standby"
  BY DEF Fair, Due, KscpDue, Ready, Rested
<1>3. v.lines \in Seq(Lines) /\ Len(v.lines) = Len(w.lines) - 1
  BY DEF Rested
<1>4. \A d : d.op = a.op => Stands(d, v, s)
  BY DEF Stands, KscpStands
<1>5. b = Kscp!Hear(a, l)
  BY DEF Hear
<1>6. CASE a.m > 0
  <2> PICK d : d = [a EXCEPT !.got = Append(@, l.val), !.m = @ - 1]
    OBVIOUS
  <2>1. PICK g : g = Append(a.got, l.val)
    OBVIOUS
  <2>2. d = [op |-> a.op, arg |-> a.arg, pc |-> "read", cmd |-> a.cmd, n |-> a.n, m |-> a.m - 1,
             got |-> g, ans |-> a.ans]
    BY <1>1, <2>1 DEF Shape
  <2>3. /\ a.m - 1 \in Nat /\ Shape(d) /\ d.m = a.m - 1 /\ d.pc = "read" /\ d.op = a.op
        /\ d.cmd = a.cmd
    <3>1. a.arg \in Nat /\ a.n \in Nat /\ a.m - 1 \in Nat
      BY <1>1, <1>6 DEF Shape
    <3> QED
      BY ONLY <2>2, <3>1 DEF Shape
  <2>4. b = IF d.m = 0 THEN Kscp!NextMovie(d) ELSE d
    BY <1>1, <1>5, <1>6 DEF Kscp!Hear, Kscp!Detail
  <2> HIDE DEF b, l
  <2>5. CASE d.m # 0
    <3>1. Len(v.lines) = d.m /\ v.lines # <<>>
      BY <1>2, <1>3, <1>6, <2>3, <2>5
    <3>2. Due(d, v)
      BY <1>2, <1>6, <2>3, <2>5, <3>1 DEF Due, KscpDue
    <3>3. Stands(d, v, s)
      BY <1>4, <2>3
    <3>4. Well(d, v, s, S)
      BY <1>2, <2>3, <3>2, <3>3 DEF Well, Fair
    <3> QED
      BY <2>4, <2>5, <3>4 DEF b, l
  <2>6. CASE d.m = 0 /\ d.op = "list_movies" /\ d.cmd.arg < Movies
    <3>1. PICK e : e = [d EXCEPT !.got = <<>>]
      OBVIOUS
    <3> HIDE DEF b
    <3>2. b = AskThere(e, "GET_CONTENT_DETAILS", d.cmd.arg + 1)
      <4>1. b = Kscp!NextMovie(d)
        BY <2>4, <2>6
      <4>2. Kscp!NextMovie(d) = Kscp!AskThere(e, "GET_CONTENT_DETAILS", d.cmd.arg + 1)
        BY ONLY <2>6, <3>1 DEF Kscp!NextMovie
      <4> QED
        BY <4>1, <4>2, KscpWords
    <3>3. e = [op |-> a.op, arg |-> a.arg, pc |-> "read", cmd |-> a.cmd, n |-> a.n, m |-> a.m - 1,
               got |-> <<>>, ans |-> a.ans]
      BY <2>2, <3>1
    <3>4. Shape(e) /\ e.op = a.op
      BY <1>1, <2>3, <3>3 DEF Shape
    <3>5. b.pc = "send" /\ b.op = a.op
      BY <3>2, <3>4, NewRecords
    <3>6. v.lines = <<>>
      BY <1>2, <1>3, <1>6, <2>3, <2>6
    <3>7. Ready(b, v) /\ Stands(b, v, s)
      BY <1>2, <1>4, <3>5, <3>6 DEF Ready
    <3> QED
      BY <3>5, <3>7 DEF Well, Fair, b, l
  <2>7. CASE d.m = 0 /\ ~(d.op = "list_movies" /\ d.cmd.arg < Movies)
    <3>1. b = Done(d, Ok)
      BY <2>4, <2>7, KscpWords DEF Kscp!NextMovie
    <3>2. Shape(d) /\ Ok \notin {Err, Panic}
      BY <2>3, AnswersWell
    <3>3. Well(Done(d, Ok), v, s, S)
      BY <3>2, DoneWell
    <3> QED
      BY <3>1, <3>3 DEF b, l
  <2> QED
    BY <2>5, <2>6, <2>7
<1>7. CASE ~(a.m > 0)
  <2>1. a.m = 0 /\ l.tag # "standby"
    BY <1>1, <1>2, <1>7
  <2>2. /\ Len(w.lines) = DetailLines + 1
        /\ w.lines[1] = Line("overview", DetailLines)
    <3>1. w.lines = <<Line("standby", 0)>> => l.tag = "standby"
      BY DEF Line
    <3> QED
      BY <2>1, <3>1 DEF KscpHears
  <2>3. l.val = DetailLines
    BY <2>2 DEF Line
  <2>4. Kscp!Hear(a, l) = Kscp!Overview(a, l)
    BY <1>1, <2>1 DEF Kscp!Hear
  <2> HIDE DEF b, l
  <2> DEFINE h == <<>>
  <2> PICK d : d = [a EXCEPT !.m = l.val, !.got = <<>>]
    OBVIOUS
  <2>5. /\ b = d
        /\ d = [op |-> a.op, arg |-> a.arg, pc |-> a.pc, cmd |-> a.cmd, n |-> a.n,
                m |-> DetailLines, got |-> h, ans |-> a.ans]
    <3>1. b = d
      BY <1>5, <2>4 DEF Kscp!Overview
    <3>2. d = [op |-> a.op, arg |-> a.arg, pc |-> a.pc, cmd |-> a.cmd, n |-> a.n,
               m |-> DetailLines, got |-> h, ans |-> a.ans]
      BY <1>1, <2>3 DEF Shape
    <3> QED
      BY <3>1, <3>2
  <2> HIDE DEF h
  <2>6. d.m = DetailLines /\ d.pc = "read" /\ d.op = a.op
    BY ONLY <2>5, a.pc = "read"
  <2>7. Len(v.lines) = DetailLines /\ v.lines # <<>>
    BY <1>1, <1>3, <2>2
  <2>8. Due(d, v) /\ Stands(d, v, s)
    <3>1. d.m > 0
      BY <1>1, <2>6
    <3>2. KscpDue(d, v)
      <4>1. d.cmd.name = "GET_CONTENT_DETAILS"
        BY ONLY <1>1, <2>5
      <4> QED
        BY ONLY <1>2, <2>6, <2>7, <3>1, <4>1 DEF KscpDue
    <3> QED
      BY <1>4, <2>6, <3>2 DEF Due
  <2>9. Well(d, v, s, S)
    BY <1>2, <2>6, <2>8 DEF Well, Fair
  <2> QED
    BY <2>5, <2>9 DEF b, l
<1> QED
  BY <1>6, <1>7

\* play_movie finds its movie selected.
LEMMA KscpPlayWell ==
  ASSUME driver = "kscp", NEW a, NEW S, NEW T, Good(a, S, T), a.pc = "read", a.op = "play_movie",
         NEW w, w.lines # <<>>, NEW s, Fair(a, w, s), NEW v
  PROVE  Well(Hear(a, w.lines[1]), v, s, S)
<1> DEFINE l == w.lines[1]
           b == Hear(a, l)
<1>1. /\ Shape(a) /\ w.cmd = None /\ KscpStands(a, w, s)
      /\ a.cmd.name \in {"SHOW_CONTROLLER_DETAILS", "GET_UI_STATE", "GET_HIGHLIGHTED_SELECTION",
                         "PLAY"}
  BY DEF Good, Knows, KscpKnows, Fair, Ready, Stands
<1>2. /\ l.tag # "standby"
      /\ a.cmd.name = "GET_UI_STATE" => l.val = 1
      /\ a.cmd.name = "GET_HIGHLIGHTED_SELECTION" => l.val = a.arg
  BY <1>1 DEF Fair, Due, KscpDue
<1>3. s.set = a.arg /\ s.aux = 1
  BY <1>1 DEF KscpStands
<1>4. b = Kscp!Hear(a, l)
  BY DEF Hear
<1> HIDE DEF l, b
<1>5. \/ b = Ask(a, "GET_UI_STATE", 0) \/ b = Ask(a, "GET_HIGHLIGHTED_SELECTION", 0)
      \/ b = Ask(a, "PLAY", 0) \/ b = Done(a, Ok)
  BY <1>1, <1>2, <1>4, KscpWords DEF Kscp!Hear, Kscp!PlayIfSelected
<1>6. ASSUME NEW name, b = Ask(a, name, 0) PROVE Well(b, v, s, S)
  <2>1. b.pc = "connect" /\ b.arg = a.arg
    BY <1>1, <1>6, NewRecords
  <2>2. Stands(b, v, s)
    BY <1>3, <2>1 DEF Stands, KscpStands
  <2> QED
    BY <2>1, <2>2, AskWell
<1>7. b = Done(a, Ok) => Well(b, v, s, S)
  BY <1>1, AnswersWell, DoneWell
<1> QED
  BY <1>5, <1>6, <1>7 DEF b, l

\* movie_details asks for details.
LEMMA KscpAbout ==
  ASSUME driver = "kscp", NEW a, NEW S, NEW T, Good(a, S, T), a.pc = "read",
         a.op = "movie_details"
  PROVE  a.cmd.name = "GET_CONTENT_DETAILS"
BY DEF Good, Knows, KscpKnows, Details

\* list_movies has the list, and asks about the first movie.
LEMMA KscpListWell ==
  ASSUME driver = "kscp", NEW a, NEW S, NEW T, Good(a, S, T), a.pc = "read",
         a.op = "list_movies", a.cmd.name # "GET_CONTENT_DETAILS",
         NEW w, w.lines # <<>>, NEW s, Fair(a, w, s), NEW v
  PROVE  Well(Hear(a, w.lines[1]), v, s, S)
<1> DEFINE l == w.lines[1]
           b == Hear(a, l)
<1>1. Shape(a) /\ Listing(a) /\ w.cmd = None
  BY DEF Good, Knows, KscpKnows, Details, Fair, Ready
<1>2. a.cmd.name = "GET_MOVIES" /\ a.m = 0
  BY <1>1 DEF Listing, Command
<1>3. l.tag = "movies"
  BY <1>1, <1>2 DEF Fair, Due, KscpDue
<1>4. b = Kscp!Hear(a, l)
  BY DEF Hear
<1> HIDE DEF l, b
<1>5. b = Ask(a, "GET_CONTENT_DETAILS", a.arg)
  BY <1>2, <1>3, <1>4, KscpWords DEF Kscp!Hear
<1>6. b.pc = "connect" /\ b.op = "list_movies"
  BY <1>1, <1>5, NewRecords
<1>7. Stands(b, v, s)
  BY <1>6 DEF Stands, KscpStands
<1> QED
  BY <1>6, <1>7, AskWell DEF b, l

\* The player's other calls ask once.
LEMMA KscpOnceWell ==
  ASSUME driver = "kscp", NEW a, NEW S, NEW T, Good(a, S, T), a.pc = "read",
         a.op \notin {"play_movie", "movie_details", "list_movies"},
         NEW w, w.lines \in Seq(Lines), w.lines # <<>>, NEW s, Fair(a, w, s), NEW v
  PROVE  Well(Hear(a, w.lines[1]), v, s, S)
<1> DEFINE l == w.lines[1]
           b == Hear(a, l)
<1>1. l \in Lines
  OBVIOUS
<1>2. /\ Shape(a) /\ a.op \in DOMAIN Kscp!CommandFor /\ a.m = 0
      /\ a.cmd = Command(Kscp!CommandFor[a.op], a.arg) /\ l.val \in Values
  BY <1>1 DEF Good, Knows, KscpKnows, Lines
<1>3. a.cmd.name = Kscp!CommandFor[a.op] /\ a.cmd.name # "GET_CONTENT_DETAILS"
  BY <1>2 DEF Command, Kscp!CommandFor
<1>4. KscpDue(a, w) /\ w.cmd = None
  BY DEF Fair, Ready, Due
<1>5. /\ Shape(a) /\ w.cmd = None /\ a.op \in DOMAIN Kscp!CommandFor /\ a.m = 0
      /\ a.cmd = Command(Kscp!CommandFor[a.op], a.arg) /\ l.val \in Values
      /\ l.tag # "standby" /\ (a.op = "check_is_on" => l.tag = "power")
  BY <1>3, <1>2, <1>4 DEF KscpDue
<1>6. b = Kscp!Hear(a, l)
  BY DEF Hear
<1> HIDE DEF l, b
<1>7. \/ a.cmd.name = "GET_DEVICE_POWER_STATE" /\ l.tag = "power"
      \/ a.cmd.name = "GET_HIGHLIGHTED_SELECTION"
      \/ a.cmd.name \in {"LEAVE_STANDBY", "ENTER_STANDBY", "KEY"}
  BY <1>5, <1>3 DEF Kscp!CommandFor
<1>8. b = Done(a, PowerOf(l.val)) \/ b = Done(a, l.val) \/ b = Done(a, Ok)
  <2>1. \A x : Kscp!Done(a, x) = Done(a, x)
    BY KscpWords
  <2>2. ~(a.m > 0) /\ l.tag # "standby"
    BY <1>5
  <2> QED
    BY <1>6, <1>7, <2>1, <2>2 DEF Kscp!Hear, Kscp!PowerOf, PowerOf
<1> QED
  BY <1>5, <1>8, AnswersWell, DoneWell DEF b, l

\* The receiver's lines: the next one is expected,
LEMMA AvmTags ==
  ASSUME NEW a, a.m \in Nat
  PROVE  /\ Avm!Expected(a) = AvmTag(a, 0)
         /\ \A b : b.op = a.op => \A i \in Nat : \A j \in Nat :
              b.m = a.m + i => AvmTag(b, j) = AvmTag(a, i + j)
<1>1. Avm!Expected(a) = AvmTag(a, 0)
  <2> DEFINE b == [op |-> a.op, m |-> a.m + 0]
  <2>1. b.op = a.op /\ b.m = a.m /\ AvmTag(a, 0) = Avm!Expected(b)
    BY DEF AvmTag
  <2> HIDE DEF b
  <2> QED
    BY ONLY <2>1 DEF Avm!Expected
<1>2. ASSUME NEW b, b.op = a.op, NEW i \in Nat, NEW j \in Nat, b.m = a.m + i
      PROVE  AvmTag(b, j) = AvmTag(a, i + j)
  <2>1. b.m + j = a.m + (i + j)
    BY <1>2
  <2> QED
    BY <1>2, <2>1 DEF AvmTag
<1> QED
  BY <1>1, <1>2

\* or it is the first of several,
LEMMA AvmNext ==
  ASSUME NEW a, a.m \in Nat, Inputs \in Nat,
         (a.op = "inputs" /\ a.m < Inputs) \/ (a.op = "set_volume" /\ a.m = 0),
         NEW b, b.op = a.op, b.m = a.m + 1, NEW w, NEW v, Rested(v, w), Len(w.lines) \in Nat,
         AvmBlock(a, w.lines, 1)
  PROVE  AvmBlock(b, v.lines, 1) /\ v.lines # <<>>
<1>1. AvmMore(a) \in Nat \ {0} /\ AvmMore(b) = AvmMore(a) - 1
  BY DEF AvmMore
<1> DEFINE N == Len(w.lines)
           k == AvmMore(a)
<1>2. /\ 1 + k <= N
      /\ \A j \in 1..N :
           IF j \in 1 .. (1 + k) THEN w.lines[j].tag = AvmTag(a, j - 1) ELSE w.lines[j].tag \in Gossip
  BY DEF AvmBlock
<1>3. Len(v.lines) = N - 1 /\ (\A i \in 1..(N - 1) : v.lines[i] = w.lines[i + 1])
  BY DEF Rested
<1> HIDE DEF N, k
<1>4. N \in Nat /\ k \in Nat \ {0} /\ AvmMore(b) = k - 1
  BY <1>1 DEF N, k
<1>5. ASSUME NEW j \in 1..(N - 1)
      PROVE  IF j \in 1 .. (1 + (k - 1)) THEN v.lines[j].tag = AvmTag(b, j - 1)
             ELSE v.lines[j].tag \in Gossip
  <2>1. v.lines[j] = w.lines[j + 1] /\ j + 1 \in 1..N
    BY <1>3, <1>4
  <2>2. CASE j <= k
    <3>1. w.lines[j + 1].tag = AvmTag(a, j)
      <4>1. j + 1 \in 1..(1 + k) /\ (j + 1) - 1 = j
        BY <1>4, <2>2
      <4> QED
        BY <1>2, <2>1, <4>1
    <3>2. AvmTag(b, j - 1) = AvmTag(a, j)
      <4>1. j - 1 \in Nat /\ 1 + (j - 1) = j
        OBVIOUS
      <4> QED
        BY <4>1, AvmTags
    <3>3. j \in 1..(1 + (k - 1))
      BY <1>4, <2>2
    <3> QED
      BY <2>1, <3>1, <3>2, <3>3
  <2>3. CASE ~(j <= k)
    <3>1. j + 1 \notin 1..(1 + k) /\ j \notin 1..(1 + (k - 1))
      BY <1>4, <2>3
    <3> QED
      BY <1>2, <2>1, <3>1
  <2> QED
    BY <2>2, <2>3
<1>6. 1 + (k - 1) <= N - 1 /\ Len(v.lines) > 0
  BY <1>2, <1>3, <1>4
<1>7. v.lines # <<>>
  BY <1>6
<1> QED
  BY <1>3, <1>4, <1>5, <1>6, <1>7 DEF AvmBlock

\* or it is about something else,
LEMMA AvmElse ==
  ASSUME NEW a, NEW b, b.op = a.op, b.m = a.m, a.m \in Nat, Inputs \in Nat, AvmMore(a) \in Nat,
         NEW i \in Nat, i > 1,
         NEW w, NEW v, Rested(v, w), Len(w.lines) \in Nat, AvmBlock(a, w.lines, i)
  PROVE  AvmBlock(b, v.lines, i - 1)
<1> DEFINE N == Len(w.lines)
           k == AvmMore(a)
<1>1. /\ i + k <= N
      /\ \A j \in 1..N :
           IF j \in i .. (i + k) THEN w.lines[j].tag = AvmTag(a, j - i) ELSE w.lines[j].tag \in Gossip
      /\ ~(a.op = "inputs" /\ a.m > 0)
  BY DEF AvmBlock
<1>2. Len(v.lines) = N - 1 /\ (\A j \in 1..(N - 1) : v.lines[j] = w.lines[j + 1])
  BY DEF Rested
<1>3. AvmMore(b) = k
  BY DEF AvmMore
<1>4. \A j : AvmTag(b, j) = AvmTag(a, j)
  BY DEF AvmTag
<1>5. N \in Nat /\ k \in Nat
  OBVIOUS
<1> HIDE DEF N, k
<1>6. ASSUME NEW j \in 1..(N - 1)
      PROVE  IF j \in (i - 1) .. (i - 1 + k) THEN v.lines[j].tag = AvmTag(b, j - (i - 1))
             ELSE v.lines[j].tag \in Gossip
  <2>1. /\ v.lines[j] = w.lines[j + 1] /\ j + 1 \in 1..N
        /\ j + 1 \in i..(i + k) <=> j \in (i - 1)..(i - 1 + k)
        /\ (j + 1) - i = j - (i - 1)
    BY <1>2, <1>5
  <2> QED
    BY <1>1, <1>4, <2>1
<1>7. i - 1 + k <= N - 1
  BY <1>1, <1>5
<1> QED
  BY <1>1, <1>2, <1>3, <1>6, <1>7 DEF AvmBlock

\* or somebody else's volume is taken for its own.
LEMMA AvmAhead ==
  ASSUME NEW a, a.op = "set_volume", a.m = 0, NEW b, b.op = a.op, b.m = 1, NEW i \in Nat, i > 1,
         NEW w, NEW v, Rested(v, w), Len(w.lines) \in Nat, AvmBlock(a, w.lines, i)
  PROVE  AvmBlock(b, v.lines, i) /\ i \in 1..Len(v.lines)
<1> DEFINE N == Len(w.lines)
<1>1. AvmMore(a) = 1 /\ AvmMore(b) = 0
  BY DEF AvmMore
<1>2. /\ i + 1 <= N
      /\ \A j \in 1..N :
           IF j \in i .. (i + 1) THEN w.lines[j].tag = AvmTag(a, j - i) ELSE w.lines[j].tag \in Gossip
  BY <1>1 DEF AvmBlock
<1>3. Len(v.lines) = N - 1 /\ (\A j \in 1..(N - 1) : v.lines[j] = w.lines[j + 1])
  BY DEF Rested
<1>4. AvmTag(a, 0) = "Z1PVOL" /\ AvmTag(b, 0) = AvmTag(a, 1)
  <2>1. AvmTag(a, 0) = "Z1PVOL"
    BY AvmTags DEF Avm!Expected
  <2> QED
    BY <2>1 DEF AvmTag
<1>5. N \in Nat
  OBVIOUS
<1> HIDE DEF N
<1>6. ASSUME NEW j \in 1..(N - 1)
      PROVE  IF j \in i..(i + 0) THEN v.lines[j].tag = AvmTag(b, j - i)
             ELSE v.lines[j].tag \in Gossip
  <2>1. v.lines[j] = w.lines[j + 1] /\ j + 1 \in 1..N
    BY <1>3, <1>5
  <2>2. CASE j = i
    <3>1. j + 1 \in i..(i + 1) /\ (j + 1) - i = 1 /\ j - i = 0 /\ j \in i..(i + 0)
      BY <2>2
    <3> QED
      BY <1>2, <1>4, <2>1, <3>1
  <2>3. CASE j + 1 = i
    <3>1. j + 1 \in i..(i + 1) /\ (j + 1) - i = 0 /\ j \notin i..(i + 0)
      BY <2>3
    <3>2. w.lines[j + 1].tag = AvmTag(a, 0)
      BY <1>2, <2>1, <3>1
    <3> QED
      BY <1>4, <2>1, <3>1, <3>2 DEF Gossip
  <2>4. CASE j # i /\ j + 1 # i
    <3>1. j + 1 \notin i..(i + 1) /\ j \notin i..(i + 0)
      BY <2>4
    <3> QED
      BY <1>2, <2>1, <3>1
  <2> QED
    BY <2>2, <2>3, <2>4
<1>7. i + 0 <= N - 1 /\ i \in 1..(N - 1)
  BY <1>2, <1>5
<1>8. b.op # "inputs"
  OBVIOUS
<1> QED
  BY <1>1, <1>3, <1>6, <1>7, <1>8 DEF AvmBlock

\* A call of the receiver reads on.
LEMMA AvmReads ==
  ASSUME driver = "avm70", NEW b, b.pc = "read", NEW v, v.up = "open", NEW s, NEW S,
         b.op # "set_cec" \/ AvmDue(b, v),
         IF v.cmd = None THEN \E i \in 1..Len(v.lines) : AvmBlock(b, v.lines, i)
         ELSE \A i \in 1..Len(v.lines) : v.lines[i].tag \in Gossip,
         AvmStands(b, v)
  PROVE  Well(b, v, s, S)
<1>1. v.cmd = None => Due(b, v)
  BY DEF Due, AvmDue
<1>2. v.cmd # None => Ready(b, v)
  BY DEF Ready
<1>3. Stands(b, v, s)
  BY DEF Stands
<1> QED
  BY <1>1, <1>2, <1>3 DEF Well, Fair

\* It takes the line that it expects,
LEMMA AvmTakenWell ==
  ASSUME driver = "avm70", NEW a, NEW S, NEW T, Good(a, S, T), a.pc = "read",
         NEW w, w.lines \in Seq(Lines), w.lines # <<>>, NEW s, AvmStands(a, w), w.up = "open",
         NEW v, Rested(v, w), a.op = "set_cec" => w.lines[1].val = a.arg,
         IF w.cmd = None
         THEN \E i \in 1..Len(w.lines) :
                /\ AvmBlock(a, w.lines, i)
                /\ i > 1 => a.op # "inputs"
         ELSE \A i \in 1..Len(w.lines) : w.lines[i].tag \in Gossip /\ a.op # "inputs"
  PROVE  Well(Avm!Taken(a, w.lines[1].val), v, s, S)
<1> DEFINE l == w.lines[1]
           b == Avm!Taken(a, l.val)
<1>1. l.val \in Values
  <2>1. l \in Lines
    OBVIOUS
  <2> QED
    BY <2>1 DEF Lines
<1>2. /\ Shape(a) /\ a.n \in Nat /\ a.m \in Nat /\ Inputs \in Nat
      /\ IF a.op = "inputs" THEN a.m <= Inputs ELSE a.m <= 1
  BY LimitsAssumption DEF Good, Shape, Knows, AvmKnows
<1>3. Len(w.lines) \in Nat /\ Len(w.lines) > 0
  OBVIOUS
<1>4. a.op = "set_cec" => l.val = a.arg
  OBVIOUS
<1>5. \A x : Avm!Done(a, x) = Done(a, x)
  BY AvmWords
<1> HIDE DEF l
<1>6. CASE ~(\/ a.op \in {"get_volume", "set_volume"} /\ a.m = 0
             \/ a.op = "inputs" /\ a.m # Inputs)
  <2>1. b \in {Done(a, PowerOf(l.val)), Done(a, l.val), Done(a, Ok)}
    <3>1. Avm!PowerOf(l.val) = PowerOf(l.val)
      BY DEF Avm!PowerOf, PowerOf
    <3>2. a.op \in DOMAIN Avm!CommandFor
      BY DEF Good, Knows, AvmKnows
    <3> QED
      BY ONLY <1>4, <1>5, <1>6, <3>1 DEF Avm!Taken
  <2> QED
    BY <1>1, <1>2, <2>1, AnswersWell, DoneWell DEF l
<1>7. CASE \/ a.op \in {"get_volume", "set_volume"} /\ a.m = 0
           \/ a.op = "inputs" /\ a.m # Inputs
  <2>0. PICK d : d = [a EXCEPT !.m = a.m + 1, !.n = 0]
    OBVIOUS
  <2>1. d = [op |-> a.op, arg |-> a.arg, pc |-> a.pc, cmd |-> a.cmd, n |-> 0, m |-> a.m + 1,
             got |-> a.got, ans |-> a.ans] /\ Shape(d)
    <3>1. d = [op |-> a.op, arg |-> a.arg, pc |-> a.pc, cmd |-> a.cmd, n |-> 0, m |-> a.m + 1,
               got |-> a.got, ans |-> a.ans]
      BY <1>2, <2>0 DEF Shape
    <3> QED
      BY ONLY <1>2, <3>1 DEF Shape
  <2>2. /\ d.pc = "read" /\ d.op = a.op /\ d.m = a.m + 1 /\ d.cmd = a.cmd /\ d.arg = a.arg
        /\ d.op # "set_cec"
    BY ONLY <1>7, <2>1, a.pc = "read"
  <2>3. CASE a.op = "get_volume"
    <3>1. b = Ask(d, "Z1PVOL?", 0)
      <4>1. Avm!Ask(d, "Z1PVOL?", 0) = Ask(d, "Z1PVOL?", 0)
        BY AvmWords
      <4> QED
        BY ONLY <1>7, <2>0, <2>3, <4>1 DEF Avm!Taken
    <3>2. b.pc = "connect" /\ b.op = a.op /\ b.m = 1 /\ b.cmd.name = "Z1PVOL?"
      BY <1>7, <2>1, <2>2, <2>3, <3>1, NewRecords DEF Command
    <3>3. Stands(b, v, s)
      BY <2>3, <3>2 DEF Stands, AvmStands
    <3> QED
      BY <3>2, <3>3, AskWell DEF l
  <2>4. CASE a.op # "get_volume"
    <3>1. b = d
      BY <1>7, <2>0, <2>4 DEF Avm!Taken
    <3>2. v.up = "open" /\ v.cmd = w.cmd
      BY DEF Rested
    <3>3. AvmStands(d, v)
      BY <1>7, <2>2, <2>4, <3>2 DEF AvmStands
    <3>4. CASE w.cmd = None
      <4>1. PICK i \in 1..Len(w.lines) : AvmBlock(a, w.lines, i) /\ (i > 1 => a.op # "inputs")
        BY <3>4
      <4>2. CASE i = 1
        <5>1. AvmBlock(d, v.lines, 1) /\ v.lines # <<>>
          <6>1. \/ a.op = "inputs" /\ a.m < Inputs
                \/ a.op = "set_volume" /\ a.m = 0
            BY <1>2, <1>7, <2>4
          <6>2. AvmBlock(a, w.lines, 1)
            BY <4>1, <4>2
          <6> QED
            BY <1>2, <1>3, <2>2, <6>1, <6>2, AvmNext
        <5>2. 1 \in 1..Len(v.lines)
          BY <5>1 DEF Rested
        <5>3. Well(d, v, s, S)
          BY ONLY <2>2, <3>2, <3>3, <3>4, <5>1, <5>2, AvmReads, driver = "avm70"
        <5> QED
          BY <3>1, <5>3 DEF l
      <4>3. CASE i > 1
        <5>1. AvmBlock(d, v.lines, i) /\ i \in 1..Len(v.lines)
          BY <1>2, <1>3, <1>7, <2>2, <2>4, <4>1, <4>3, AvmAhead
        <5>2. Well(d, v, s, S)
          BY ONLY <2>2, <3>2, <3>3, <3>4, <5>1, AvmReads, driver = "avm70"
        <5> QED
          BY <3>1, <5>2 DEF l
      <4> QED
        BY <4>2, <4>3
    <3>5. CASE w.cmd # None
      <4>1. \A i \in 1..Len(v.lines) : v.lines[i].tag \in Gossip
        BY <1>3, <3>5 DEF Rested
      <4>2. Well(d, v, s, S)
        BY ONLY <2>2, <3>2, <3>3, <3>5, <4>1, AvmReads, driver = "avm70"
      <4> QED
        BY <3>1, <4>2 DEF l
    <3> QED
      BY <3>4, <3>5
  <2> QED
    BY <2>3, <2>4
<1> QED
  BY <1>6, <1>7

\* Or it skips a line, fewer than RetryLimit before.
LEMMA AvmSkipWell ==
  ASSUME driver = "avm70", NEW a, NEW S, NEW T, Good(a, S, T), a.pc = "read",
         NEW w, w.lines \in Seq(Lines), w.lines # <<>>, NEW s, AvmStands(a, w), w.up = "open",
         NEW v, Rested(v, w),
         w.cmd = None /\ a.op = "set_cec" =>
           \A j \in 1..Len(w.lines) : w.lines[j].tag = "GCCECC" => w.lines[j].val = a.arg,
         IF w.cmd = None THEN \E i \in 2..Len(w.lines) : AvmBlock(a, w.lines, i)
         ELSE \A j \in 1..Len(w.lines) : w.lines[j].tag \in Gossip
  PROVE  Well(Avm!Skip(a), v, s, S)
<1>1. /\ Shape(a) /\ a.n \in Nat /\ a.m \in Nat /\ Inputs \in Nat
      /\ IF a.op = "inputs" THEN a.m <= Inputs ELSE a.m <= 1
  BY LimitsAssumption DEF Good, Shape, Knows, AvmKnows
<1>2. CASE a.n = RetryLimit
  <2> DEFINE b == Done(a, Err)
  <2>1. Avm!Skip(a) = b
    BY <1>2, AvmWords DEF Avm!Skip
  <2>2. b.pc = "return" /\ b.n = RetryLimit
    BY <1>1, <1>2, NewRecords
  <2> HIDE DEF b
  <2> QED
    BY <2>1, <2>2 DEF Well, Fair, Pleasant, Unreadable
<1>3. CASE a.n # RetryLimit
  <2>1. PICK b : b = [a EXCEPT !.n = a.n + 1]
    OBVIOUS
  <2>2. Avm!Skip(a) = b
    BY <1>3, <2>1 DEF Avm!Skip
  <2>3. b = [op |-> a.op, arg |-> a.arg, pc |-> a.pc, cmd |-> a.cmd, n |-> a.n + 1, m |-> a.m,
             got |-> a.got, ans |-> a.ans]
    BY <1>1, <2>1 DEF Shape
  <2>4. b.pc = "read" /\ b.op = a.op /\ b.m = a.m /\ b.cmd = a.cmd /\ b.arg = a.arg
    BY ONLY <2>3, a.pc = "read"
  <2>5. v.up = "open" /\ v.cmd = w.cmd
    BY DEF Rested
  <2>6. AvmStands(b, v)
    BY <2>4, <2>5 DEF AvmStands
  <2>7. Len(w.lines) \in Nat /\ Len(v.lines) = Len(w.lines) - 1
        /\ \A j \in 1..Len(v.lines) : v.lines[j] = w.lines[j + 1] /\ j + 1 \in 1..Len(w.lines)
    BY DEF Rested
  <2>8. CASE w.cmd = None
    <3>1. PICK i \in 2..Len(w.lines) : AvmBlock(a, w.lines, i)
      BY <2>8
    <3>2. i \in Nat /\ i > 1 /\ i - 1 \in 1..Len(v.lines)
      BY <2>7
    <3>3. AvmMore(a) \in Nat
      BY <1>1 DEF AvmMore
    <3>4. AvmBlock(b, v.lines, i - 1)
      BY <1>1, <2>4, <2>7, <3>1, <3>2, <3>3, AvmElse
    <3>5. b.op = "set_cec" => AvmDue(b, v)
      BY <2>4, <2>5, <2>7, <2>8, <3>2, <3>4 DEF AvmDue
    <3> QED
      BY <2>2, <2>4, <2>5, <2>6, <2>8, <3>2, <3>4, <3>5, AvmReads
  <2>9. CASE w.cmd # None
    <3>1. \A j \in 1..Len(v.lines) : v.lines[j].tag \in Gossip
      BY <2>7, <2>9
    <3>2. CASE a.op # "set_cec"
      BY <2>2, <2>4, <2>5, <2>6, <2>9, <3>1, <3>2, AvmReads
    <3>3. Ready(b, v) /\ Stands(b, v, s)
      BY <2>5, <2>6, <3>1 DEF Ready, Stands
    <3> QED
      BY <2>2, <2>4, <2>5, <2>9, <3>3 DEF Well, Fair
  <2> QED
    BY <2>8, <2>9
<1> QED
  BY <1>2, <1>3

\* A line of the receiver does no harm, whoever it is meant for.
LEMMA AvmHearWell ==
  ASSUME driver = "avm70", NEW a, NEW S, NEW T, Good(a, S, T), a.pc = "read",
         NEW w, w.lines \in Seq(Lines), w.lines # <<>>, NEW s, Fair(a, w, s), NEW v, Rested(v, w)
  PROVE  Well(Hear(a, w.lines[1]), v, s, S)
<1> DEFINE l == w.lines[1]
<1>1. /\ Shape(a) /\ a.n \in Nat /\ a.m \in Nat /\ Inputs \in Nat
      /\ IF a.op = "inputs" THEN a.m <= Inputs ELSE a.m <= 1
  BY LimitsAssumption DEF Good, Shape, Knows, AvmKnows
<1>2. AvmStands(a, w) /\ w.up = "open"
  BY DEF Fair, Stands, Due, AvmDue, Ready
<1>3. Avm!Hear(a, l) = Hear(a, l)
  BY DEF Hear
<1>4. Len(w.lines) \in Nat /\ 1 \in 1..Len(w.lines)
  OBVIOUS
<1>5. AvmMore(a) \in Nat
  BY <1>1 DEF AvmMore
<1>6. /\ a.op = "set_cec" => Avm!Expected(a) = "GCCECC"
      /\ a.op = "inputs" /\ a.m = 0 => Avm!Expected(a) = "ICN"
  BY DEF Avm!Expected
<1>7. CASE w.cmd = None
  <2>1. PICK i \in 1..Len(w.lines) : AvmBlock(a, w.lines, i)
    BY <1>7 DEF Fair, Due, AvmDue
  <2>2. a.op = "set_cec" =>
          \A j \in 1..Len(w.lines) : w.lines[j].tag = "GCCECC" => w.lines[j].val = a.arg
    BY <1>7 DEF Fair, Due, AvmDue
  <2>3. i = 1 => l.tag = Avm!Expected(a)
    <3>1. i = 1 => 1 \in i..(i + AvmMore(a)) /\ 1 - i = 0
      BY <1>5
    <3> QED
      BY <1>1, <1>4, <2>1, <3>1, AvmTags DEF AvmBlock
  <2>4. i > 1 => l.tag \in Gossip
    <3>1. i > 1 => 1 \notin i..(i + AvmMore(a))
      BY <1>5
    <3> QED
      BY <1>4, <2>1, <3>1 DEF AvmBlock
  <2>5. i > 1 => (a.op = "inputs" => a.m = 0)
    BY <1>1, <2>1 DEF AvmBlock
  <2> HIDE DEF l
  <2>6. CASE l.tag = Avm!Expected(a)
    <3>1. a.op = "set_cec" => l.val = a.arg
      BY <1>4, <1>6, <2>2, <2>6 DEF l
    <3>2. i > 1 => a.op # "inputs"
      BY <1>6, <2>4, <2>5, <2>6 DEF Gossip
    <3>3. Avm!Hear(a, l) = Avm!Taken(a, l.val)
      BY <2>6 DEF Avm!Hear
    <3> QED
      BY <1>2, <1>3, <1>7, <2>1, <3>1, <3>2, <3>3, AvmTakenWell DEF l
  <2>7. CASE l.tag # Avm!Expected(a)
    <3>1. i \in 2..Len(w.lines) /\ l.tag # "!"
      BY <1>4, <2>3, <2>4, <2>7 DEF Gossip
    <3>2. Avm!Hear(a, l) = Avm!Skip(a)
      BY <2>7, <3>1 DEF Avm!Hear
    <3> QED
      BY <1>2, <1>3, <1>7, <2>1, <2>2, <3>1, <3>2, AvmSkipWell DEF l
  <2> QED
    BY <2>6, <2>7
<1>8. CASE w.cmd # None
  <2>1. \A j \in 1..Len(w.lines) : w.lines[j].tag \in Gossip
    BY <1>8 DEF Fair, Ready
  <2>2. l.tag \in Gossip /\ (a.op = "inputs" => a.m = 0)
    BY <1>2, <1>4, <1>8, <2>1 DEF AvmStands
  <2> HIDE DEF l
  <2>3. CASE l.tag = Avm!Expected(a)
    <3>1. a.op \notin {"set_cec", "inputs"}
      BY <1>6, <2>2, <2>3 DEF Gossip
    <3>2. Avm!Hear(a, l) = Avm!Taken(a, l.val)
      BY <2>3 DEF Avm!Hear
    <3> QED
      BY <1>2, <1>3, <1>8, <2>1, <3>1, <3>2, AvmTakenWell DEF l
  <2>4. CASE l.tag # Avm!Expected(a)
    <3>1. l.tag # "!"
      BY <2>2 DEF Gossip
    <3>2. Avm!Hear(a, l) = Avm!Skip(a)
      BY <2>4, <3>1 DEF Avm!Hear
    <3> QED
      BY <1>2, <1>3, <1>8, <2>1, <3>2, AvmSkipWell DEF l
  <2> QED
    BY <2>3, <2>4
<1> QED
  BY <1>7, <1>8

\* What the Envy's calls answer that expect no more than a line OK.
LEMMA EnvySureWell ==
  ASSUME driver = "envy", NEW a, Shape(a), a.op \notin {"aspect_ratio", "get_nearest_aspect_ratio"},
         NEW w, NEW s, NEW S
  PROVE  Well(Mvr!Done(a, Mvr!Responded(a)), w, s, S)
<1>1. PICK x \in {On, Ok} : Mvr!Responded(a) = x
  BY DEF Mvr!Responded
<1>2. Well(Done(a, x), w, s, S)
  BY AnswersWell, DoneWell
<1> QED
  BY <1>1, <1>2, MvrWords

\* And those that expect a ratio: the nearest to one below all that are known
\* is a panic, and that is the true answer.
LEMMA EnvyRatioWell ==
  ASSUME driver = "envy", NEW a, Shape(a), a.op \in {"aspect_ratio", "get_nearest_aspect_ratio"},
         NEW S, NEW l \in Lines, l.tag = "ratio", EnvySays(a.op, a.cmd.name, l, S, FALSE),
         NEW b, b = [a EXCEPT !.got = <<l>>], NEW w, NEW s
  PROVE  Well(Mvr!Done(b, Mvr!Responded(b)), w, s, S)
<1> DEFINE h == <<l>>
<1>1. b = [op |-> a.op, arg |-> a.arg, pc |-> a.pc, cmd |-> a.cmd, n |-> a.n, m |-> a.m,
           got |-> h, ans |-> a.ans]
  BY DEF Shape
<1>2. h # <<>> /\ h[1] = l
  OBVIOUS
<1> HIDE DEF h
<1>3. Shape(b) /\ b.op = a.op /\ b.got = h
  BY ONLY <1>1, Shape(a) DEF Shape
<1>4. CASE a.op = "aspect_ratio"
  <2>1. Mvr!Responded(b) = l.val
    BY <1>2, <1>3, <1>4 DEF Mvr!Responded
  <2>2. l.val \in Values
    BY DEF Lines
  <2>3. Well(Done(b, l.val), w, s, S)
    BY <1>3, <2>2, AnswersWell, DoneWell
  <2> QED
    BY <2>1, <2>3, MvrWords
<1>5. CASE a.op = "get_nearest_aspect_ratio"
  <2> DEFINE x == Mvr!nearest_aspect_ratio_int(l.val)
             d == Done(b, x)
  <2>1. Mvr!Responded(b) = x
    BY <1>2, <1>3, <1>5 DEF Mvr!Responded
  <2>2. x \in S
    BY <1>5 DEF EnvySays
  <2> HIDE DEF x
  <2>3. d.pc = "return" /\ d.ans = x /\ d.op = a.op
    BY ONLY <1>3, NewRecords
  <2> HIDE DEF d
  <2>4. Well(d, w, s, S)
    BY <1>5, <2>2, <2>3 DEF Well, Fair, Pleasant, Unreadable
  <2> QED
    BY <2>1, <2>4, MvrWords DEF d
<1> QED
  BY <1>4, <1>5

\* Once welcomed, a call of the Envy sends its command.
LEMMA EnvyWelcomedWell ==
  ASSUME driver = "envy", NEW a, NEW S, NEW T, Good(a, S, T), a.pc = "read", a.got = <<>>,
         NEW v, v.up = "open", v.lines = <<>>, NEW s
  PROVE  Well(Mvr!Welcomed(a), v, s, S)
<1>1. Shape(a) /\ a.n = 0
  BY EnvyIs
<1>0. PICK d : d = [a EXCEPT !.m = 1]
  OBVIOUS
<1>2. Mvr!Welcomed(a) = Proceed(d)
  BY <1>0, MvrWords DEF Mvr!Welcomed
<1>3. d = [op |-> a.op, arg |-> a.arg, pc |-> a.pc, cmd |-> a.cmd, n |-> a.n, m |-> 1,
           got |-> a.got, ans |-> a.ans] /\ Shape(d)
  <2>1. d = [op |-> a.op, arg |-> a.arg, pc |-> a.pc, cmd |-> a.cmd, n |-> a.n, m |-> 1,
             got |-> a.got, ans |-> a.ans]
    BY <1>0, <1>1 DEF Shape
  <2> QED
    BY ONLY <1>1, <2>1 DEF Shape
<1> DEFINE b == Proceed(d)
<1>4. b.pc = "send" /\ b.m = 1 /\ b.got = <<>>
  BY <1>3, NewRecords
<1> HIDE DEF b
<1>5. Ready(b, v)
  BY DEF Ready
<1>6. Stands(b, v, s)
  BY <1>4 DEF Stands, EnvyStands
<1> QED
  BY <1>2, <1>4, <1>5, <1>6 DEF Well, Fair, b

\* The Envy's reply is what its call expects.
LEMMA EnvyHearWell ==
  ASSUME driver = "envy", NEW a, NEW S, NEW T, Good(a, S, T), a.pc = "read",
         NEW w, w.lines \in Seq(Lines), w.lines # <<>>, NEW s, Fair(a, w, s), NEW v, Rested(v, w),
         EnvySays(a.op, a.cmd.name, w.lines[1], S, T)
  PROVE  Well(Hear(a, w.lines[1]), v, s, S)
<1> DEFINE l == w.lines[1]
           b == Hear(a, l)
<1>1. l \in Lines
  OBVIOUS
<1>2. /\ Shape(a) /\ a.op # "turn_on" /\ a.m \in {0, 1, 2} /\ a.op \in DOMAIN Mvr!CommandFor
      /\ w.cmd = None /\ a.got = <<>> /\ EnvyDue(a, w)
  BY EnvyIs DEF Fair, Due, Ready, Stands, EnvyStands
<1>3. /\ v.up = w.up /\ v.cmd = None /\ v.lines \in Seq(Lines) /\ Len(v.lines) = Len(w.lines) - 1
      /\ \A i \in 1..Len(v.lines) : v.lines[i] = w.lines[i + 1]
  BY <1>2 DEF Rested
<1>4. b = Mvr!Hear(a, l)
  BY DEF Hear
<1>5. Len(w.lines) \in Nat /\ Len(w.lines) > 0
  OBVIOUS
<1>6. EnvySays(a.op, a.cmd.name, l, S, FALSE)
  BY DEF EnvySays
<1> HIDE DEF b
<1>7. CASE a.m = 0
  <2>1. w.up = "open" /\ Len(w.lines) = 1
    BY <1>2, <1>7 DEF EnvyDue
  <2>2. v.up = "open" /\ v.lines = <<>>
    BY <1>3, <2>1
  <2>3. b = Mvr!Welcomed(a)
    BY <1>4, <1>7 DEF Mvr!Hear
  <2> QED
    BY <1>2, <2>2, <2>3, EnvyWelcomedWell DEF b
<1>8. CASE a.m # 0 /\ l.tag = "OK"
  <2>1. CASE Mvr!ExpectsResponse(a)
    <3>0. PICK d : d = [a EXCEPT !.m = 2]
      OBVIOUS
    <3>1. b = d
      BY <1>4, <1>8, <2>1, <3>0 DEF Mvr!Hear, Mvr!HearReply
    <3>2. d = [op |-> a.op, arg |-> a.arg, pc |-> a.pc, cmd |-> a.cmd, n |-> a.n, m |-> 2,
               got |-> a.got, ans |-> a.ans]
      BY <1>2, <3>0 DEF Shape
    <3>3. d.pc = "read" /\ d.op = a.op /\ d.m = 2 /\ d.got = <<>>
      BY ONLY <1>2, <3>2, a.pc = "read"
    <3>4. EnvyDue(d, v)
      <4>1. CASE a.op = "standby"
        <5>1. w.up # "open" /\ \A i \in 1..Len(w.lines) : w.lines[i].tag = "OK"
          BY <1>2, <1>8, <4>1 DEF EnvyDue
        <5>2. v.up # "open" /\ \A i \in 1..Len(v.lines) : v.lines[i].tag = "OK"
          BY <1>3, <5>1
        <5> QED
          BY <3>3, <4>1, <5>2 DEF EnvyDue
      <4>2. CASE a.op # "standby"
        <5>1. a.op \in {"aspect_ratio", "get_nearest_aspect_ratio"}
          BY <2>1, <4>2 DEF Mvr!ExpectsResponse
        <5>2. /\ w.up = "open" /\ w.lines[Len(w.lines)].tag = "ratio"
              /\ IF a.m = 2 THEN Len(w.lines) = 1 ELSE Len(w.lines) = 2
          BY <1>2, <1>8, <5>1 DEF EnvyDue
        <5>3. Len(w.lines) = 2
          BY <1>8, <5>2
        <5>4. v.up = "open" /\ Len(v.lines) = 1 /\ v.lines # <<>> /\ v.lines[1].tag = "ratio"
          BY <1>3, <5>2, <5>3
        <5> QED
          BY <3>3, <5>1, <5>4 DEF EnvyDue
      <4> QED
        BY <4>1, <4>2
    <3>5. Due(d, v) /\ Stands(d, v, s)
      BY <1>2, <1>3, <3>3, <3>4 DEF Due, Stands, EnvyStands
    <3>6. Well(d, v, s, S)
      BY <1>3, <3>3, <3>5 DEF Well, Fair
    <3> QED
      BY <3>1, <3>6 DEF b
  <2>2. CASE ~Mvr!ExpectsResponse(a)
    <3>1. b = Mvr!Done(a, Mvr!Responded(a))
      BY <1>4, <1>8, <2>2 DEF Mvr!Hear, Mvr!HearReply
    <3>2. a.op \notin {"aspect_ratio", "get_nearest_aspect_ratio"}
      BY <2>2 DEF Mvr!ExpectsResponse
    <3> QED
      BY <1>2, <3>1, <3>2, EnvySureWell DEF b
  <2> QED
    BY <2>1, <2>2
<1>9. CASE a.m # 0 /\ l.tag # "OK"
  <2>1. a.op \in {"aspect_ratio", "get_nearest_aspect_ratio"} /\ a.m = 2 /\ l.tag = "ratio"
    <3>1. a.op \notin {"turn_off", "standby", "check_is_on", "custom_zoom"}
      BY <1>2, <1>5, <1>9 DEF EnvyDue
    <3>2. a.op \in {"aspect_ratio", "get_nearest_aspect_ratio"}
      BY <1>2, <3>1 DEF Mvr!CommandFor
    <3> QED
      BY <1>2, <1>9, <3>2 DEF EnvyDue
  <2>2. PICK d : d = [a EXCEPT !.got = <<l>>]
    OBVIOUS
  <2>3. b = Mvr!Done(d, Mvr!Responded(d))
    BY <1>4, <1>9, <2>1, <2>2 DEF Mvr!Hear, Mvr!HearReply
  <2> QED
    BY <1>1, <1>2, <1>6, <2>1, <2>2, <2>3, EnvyRatioWell DEF b
<1> QED
  BY <1>7, <1>8, <1>9

\* What a call hears does it no harm.
LEMMA HearWell ==
  ASSUME driver \in DriverNames, NEW c, NEW a, NEW S, NEW T, Good(a, S, T), a.pc = "read",
         NEW w, w.lines \in Seq(Lines), w.lines # <<>>, Hears(c, a, S, T, w),
         NEW s, Fair(a, w, s), NEW v, Rested(v, w)
  PROVE  Well(Hear(a, w.lines[1]), v, s, S)
<1>1. Says(a.op, a.cmd.name, w.lines[1], S, T)
  <2>1. 1 \in 1..Len(w.lines)
    OBVIOUS
  <2> QED
    BY <2>1 DEF Hears
<1>2. CASE driver = "envy"
  <2>1. EnvySays(a.op, a.cmd.name, w.lines[1], S, T)
    BY <1>1, <1>2 DEF Says
  <2> QED
    BY <1>2, <2>1, EnvyHearWell
<1>3. CASE driver = "kscp"
  <2>1. KscpHears(a, w)
    BY <1>3 DEF Hears
  <2> QED
    BY <1>3, <2>1, KscpDetailsWell, KscpListWell, KscpPlayWell, KscpOnceWell, KscpAbout
<1> QED
  BY <1>2, <1>3, IsDriver, AvmHearWell, AtvHearWell, OppoHearWell, PjHearWell, StrHearWell

-----------------------------------------------------------------------------
(* Calls that begin, connect, send, or cannot.                             *)

\* A call begins well.
LEMMA FirstWell ==
  ASSUME driver \in DriverNames, NEW op, NEW arg, Asked(op, arg), NEW w, NEW s, NEW S
  PROVE  Well(First(Start(op, arg)), w, s, S)
<1>1. arg \in Nat /\ op \in Methods[driver]
  BY AskedIs
<1>2. CASE driver = "appletv"
  <2> DEFINE a == Start(op, arg)
  <2>1. Shape(a) /\ a.n = 0
    BY <1>1, StartIs DEF Shape
  <2> HIDE DEF a
  <2>2. PICK b : b = [a EXCEPT !.pc = "lock"]
    OBVIOUS
  <2>3. b.pc = "lock" /\ b.n = 0
    BY <2>1, <2>2 DEF Shape
  <2>4. First(a) = b
    BY <1>2, <2>2 DEF First, Atv!First
  <2> QED
    BY <2>3, <2>4 DEF Well, Fair, a
<1>3. CASE driver = "envy" /\ op = "turn_on"
  <2> DEFINE a == Start(op, arg)
  <2>1. Shape(a) /\ a.n = 0 /\ a.got = <<>> /\ a.op = op
    BY <1>1, StartIs DEF Shape
  <2> HIDE DEF a
  <2>2. PICK b : b = [a EXCEPT !.pc = "wake", !.cmd = Mvr!Command("WAKE", 0)]
    OBVIOUS
  <2>3. b.pc = "wake" /\ b.n = 0 /\ b.got = <<>>
    BY <2>1, <2>2 DEF Shape
  <2>4. First(a) = b
    BY <1>3, <2>1, <2>2 DEF First, Mvr!First
  <2>5. Stands(b, w, s)
    BY <1>3, <2>3 DEF Stands, EnvyStands
  <2> QED
    BY <2>3, <2>4, <2>5 DEF Well, Fair, a
<1>4. CASE driver # "appletv" /\ ~(driver = "envy" /\ op = "turn_on")
  <2>1. PICK name, x : /\ First(Start(op, arg)) = Ask(Start(op, arg), name, x)
                       /\ driver = "avm70" => name = Avm!CommandFor[op]
                       /\ driver = "kscp" => name = Kscp!CommandFor[op]
                       /\ driver = "za5000" => name = Str!CommandFor[op]
    <3>1. Start(op, arg).op = op /\ Start(op, arg).arg = arg
      BY StartIs
    <3> QED
      BY <1>4, <3>1, IsDriver, AvmWords, KscpWords, MvrWords, OppoWords, PjWords, StrWords
      DEF First, Avm!First, Kscp!First, Mvr!First, Oppo!First, Pj!First, Str!First
  <2> DEFINE b == Ask(Start(op, arg), name, x)
  <2>2. b.pc = "connect" /\ b.cmd = Command(name, x) /\ NewCall(b, op, arg)
    BY <1>1, NewAsked
  <2>3. b.cmd.name = name
    BY <2>2 DEF Command
  <2> HIDE DEF b
  <2>4. b.op = op /\ b.n = 0 /\ b.m = 0 /\ b.got = <<>>
    BY <2>2 DEF NewCall
  <2>5. Stands(b, w, s)
    <3>1. CASE driver = "avm70"
      <4>1. op = "get_volume" => name = "Z1VOL?"
        BY <2>1, <3>1 DEF Avm!CommandFor
      <4>2. AvmStands(b, w)
        BY <2>2, <2>3, <2>4, <4>1 DEF AvmStands
      <4> QED
        BY <3>1, <4>2 DEF Stands
    <3>2. CASE driver = "kscp"
      <4>1. op = "play_movie" => name = "SHOW_CONTROLLER_DETAILS"
        BY <2>1, <3>2 DEF Kscp!CommandFor
      <4>2. KscpStands(b, w, s)
        BY <2>2, <2>3, <2>4, <4>1 DEF KscpStands
      <4> QED
        BY <3>2, <4>2 DEF Stands
    <3>3. CASE driver = "za5000"
      <4>1. op = "set_video_input" => name = "power?"
        BY <2>1, <3>3 DEF Str!CommandFor
      <4>2. StrStands(b, w, s)
        BY <2>2, <2>3, <2>4, <4>1 DEF StrStands
      <4> QED
        BY <3>3, <4>2 DEF Stands
    <3>4. CASE driver = "envy"
      BY <2>2, <2>4, <3>4 DEF Stands, EnvyStands
    <3> QED
      BY <3>1, <3>2, <3>3, <3>4 DEF Stands
  <2> QED
    BY <2>1, <2>2, <2>5, AskWell DEF b
<1> QED
  BY <1>2, <1>3, <1>4

\* The Apple TV's session is its own now.
LEMMA LockedWell ==
  ASSUME driver = "appletv", NEW a, NEW S, NEW T, Good(a, S, T), a.n = 0, NEW session \in BOOLEAN,
         NEW w, NEW s
  PROVE  Well(Atv!Locked(a, session), w, s, S)
<1>1. Shape(a)
  BY DEF Good
<1>2. PICK b : b = Atv!Locked(a, session)
  OBVIOUS
<1>3. b.pc \in {"send", "connect"} /\ b.n = 0
  BY <1>1, <1>2, AtvWords, NewRecords DEF Atv!Locked
<1>4. Ready(b, w) \/ b.pc # "send"
  BY <1>3 DEF Ready
<1>5. Stands(b, w, s)
  BY DEF Stands
<1> QED
  BY <1>2, <1>3, <1>4, <1>5 DEF Well, Fair

\* A new connection is ready; the Envy has yet to welcome the call.
LEMMA ConnectedWell ==
  ASSUME driver \in DriverNames, NEW a, NEW S, NEW T, Good(a, S, T), a.pc = "connect",
         driver = "envy" /\ a.op = "check_is_on" => On \in S,
         NEW s, NEW v, Fair(a, v, s),
         NEW w, w.up = "open", w.cmd = None, w.lines = Greeting
  PROVE  Well(Connected(a), w, s, S)
<1>1. PICK b : b = Connected(a)
  OBVIOUS
<1>2. Passed(a, b, IF driver = "envy" THEN "read" ELSE "send")
  BY <1>1, ConnectedIs, PassesOn DEF Good
<1>3. /\ b.cmd = a.cmd /\ b.op = a.op /\ b.m = a.m /\ b.n = a.n /\ b.arg = a.arg /\ b.got = a.got
      /\ b.pc = IF driver = "envy" THEN "read" ELSE "send"
  BY <1>2 DEF Passed
<1>4. Stands(a, v, s)
  BY DEF Fair
<1>5. Stands(b, w, s)
  <2>1. CASE driver = "avm70"
    BY <1>3, <1>4, <2>1 DEF Stands, AvmStands
  <2>2. CASE driver = "kscp"
    BY <1>3, <1>4, <2>2 DEF Stands, KscpStands
  <2>3. CASE driver = "za5000"
    BY <1>3, <1>4, <2>3 DEF Stands, StrStands
  <2>4. CASE driver = "envy"
    BY <1>3, <1>4, <2>4 DEF Stands, EnvyStands
  <2> QED
    BY <2>1, <2>2, <2>3, <2>4 DEF Stands
<1>6. CASE driver = "envy"
  <2>1. b.m = 0
    BY <1>3, <1>6, EnvyIs
  <2>2. Len(w.lines) = 1
    BY <1>6 DEF Greeting
  <2>3. Due(b, w)
    BY <1>6, <2>1, <2>2 DEF Due, EnvyDue
  <2> QED
    BY <1>1, <1>3, <1>5, <1>6, <2>3 DEF Well, Fair
<1>7. CASE driver # "envy"
  <2>1. w.lines = <<>> /\ Len(w.lines) = 0
    BY <1>7 DEF Greeting
  <2>2. Ready(b, w)
    BY <2>1 DEF Ready
  <2> QED
    BY <1>1, <1>3, <1>5, <1>7, <2>2 DEF Well, Fair
<1> QED
  BY <1>6, <1>7

\* Commands have names.
LEMMA NamesAre ==
  /\ \A op \in DOMAIN Avm!CommandFor : Avm!CommandFor[op] \in Names
  /\ \A op \in DOMAIN Atv!CommandFor : Atv!CommandFor[op] \in Names
  /\ \A op \in DOMAIN Kscp!CommandFor : Kscp!CommandFor[op] \in Names
  /\ \A op \in DOMAIN Mvr!CommandFor : Mvr!CommandFor[op] \in Names
  /\ \A op \in DOMAIN Oppo!CommandFor : Oppo!CommandFor[op] \in Names
  /\ \A op \in DOMAIN Pj!CommandFor : Pj!CommandFor[op] \in Names
  /\ \A op \in DOMAIN Str!CommandFor : Str!CommandFor[op] \in Names
  /\ {"Z1PVOL?", "GET_UI_STATE", "GET_HIGHLIGHTED_SELECTION", "PLAY", "WAKE",
      "GET_CONTENT_DETAILS", "set_input", "input?", "mute?"} \subseteq Names
<1> DEFINE fs == {Avm!CommandFor, Atv!CommandFor, Kscp!CommandFor, Mvr!CommandFor, Oppo!CommandFor,
                  Pj!CommandFor, Str!CommandFor}
           more == {"Z1PVOL?", "GET_UI_STATE", "GET_HIGHLIGHTED_SELECTION", "PLAY", "WAKE",
                    "GET_CONTENT_DETAILS", "set_input", "input?", "mute?"}
<1>1. Names = more \cup UNION {{f[op] : op \in DOMAIN f} : f \in fs}
  BY DEF Names
<1>2. /\ Avm!CommandFor \in fs /\ Atv!CommandFor \in fs /\ Kscp!CommandFor \in fs
      /\ Mvr!CommandFor \in fs /\ Oppo!CommandFor \in fs /\ Pj!CommandFor \in fs
      /\ Str!CommandFor \in fs
  OBVIOUS
<1> HIDE DEF fs, more
<1>3. ASSUME NEW f \in fs, NEW op \in DOMAIN f
      PROVE  f[op] \in Names
  <2>1. f[op] \in {f[x] : x \in DOMAIN f}
    OBVIOUS
  <2>2. {f[x] : x \in DOMAIN f} \in {{g[x] : x \in DOMAIN g} : g \in fs}
    OBVIOUS
  <2> QED
    BY <1>1, <2>1, <2>2
<1>4. more \subseteq Names
  BY <1>1
<1>5. \A op \in DOMAIN Avm!CommandFor : Avm!CommandFor[op] \in Names
  BY <1>2, <1>3
<1>6. \A op \in DOMAIN Atv!CommandFor : Atv!CommandFor[op] \in Names
  BY <1>2, <1>3
<1>7. \A op \in DOMAIN Kscp!CommandFor : Kscp!CommandFor[op] \in Names
  BY <1>2, <1>3
<1>8. \A op \in DOMAIN Mvr!CommandFor : Mvr!CommandFor[op] \in Names
  BY <1>2, <1>3
<1>9. \A op \in DOMAIN Oppo!CommandFor : Oppo!CommandFor[op] \in Names
  BY <1>2, <1>3
<1>10. \A op \in DOMAIN Pj!CommandFor : Pj!CommandFor[op] \in Names
  BY <1>2, <1>3
<1>11. \A op \in DOMAIN Str!CommandFor : Str!CommandFor[op] \in Names
  BY <1>2, <1>3
<1> QED
  BY <1>4, <1>5, <1>6, <1>7, <1>8, <1>9, <1>10, <1>11 DEF more

\* A call that sends has a command.
LEMMA CommandSome ==
  ASSUME driver \in DriverNames, NEW a, NEW S, NEW T, Good(a, S, T), a.pc = "send"
  PROVE  a.cmd # None
<1>1. Knows(a, S) /\ driver \in DOMAIN Methods
  BY IsDriver DEF Good
<1>2. a.cmd = Command(a.cmd.name, a.cmd.arg) /\ a.cmd.arg \in Nat
  BY CommandIs DEF Known
<1>3. a.cmd.name \in Names
  <2>1. \A name, x : a.cmd = Command(name, x) => a.cmd.name = name
    BY DEF Command
  <2>2. CASE driver = "avm70"
    <3>1. \/ a.op \in DOMAIN Avm!CommandFor /\ a.cmd = Command(Avm!CommandFor[a.op], a.arg)
          \/ a.cmd = Command("Z1PVOL?", 0)
      BY <1>1, <2>2 DEF Knows, AvmKnows
    <3>2. Command("Z1PVOL?", 0).name \in Names
      BY NamesAre DEF Command
    <3> QED
      BY <2>1, <3>1, <3>2, NamesAre
  <2>3. CASE driver = "appletv"
    <3>1. a.op \in DOMAIN Atv!CommandFor /\ a.cmd = Command(Atv!CommandFor[a.op], a.arg)
      BY <1>1, <2>3 DEF Knows, AtvKnows
    <3> QED
      BY <2>1, <3>1, NamesAre
  <2>4. CASE driver = "kscp"
    <3>1. a.op \in DOMAIN Kscp!CommandFor /\ KscpKnows(a, S)
      BY <1>1, <2>4 DEF Knows, KscpKnows
    <3>0. {"SHOW_CONTROLLER_DETAILS", "GET_CONTENT_DETAILS", "GET_MOVIES"} \subseteq Names
      <4>1. /\ "SHOW_CONTROLLER_DETAILS" = Kscp!CommandFor["play_movie"]
            /\ "GET_MOVIES" = Kscp!CommandFor["list_movies"]
            /\ "play_movie" \in DOMAIN Kscp!CommandFor /\ "list_movies" \in DOMAIN Kscp!CommandFor
        BY DEF Kscp!CommandFor
      <4> QED
        BY ONLY <4>1, NamesAre
    <3>2. CASE a.op = "play_movie"
      <4>1. a.cmd.name \in {"SHOW_CONTROLLER_DETAILS", "GET_UI_STATE",
                            "GET_HIGHLIGHTED_SELECTION", "PLAY"}
        BY <3>1, <3>2 DEF KscpKnows
      <4> QED
        BY ONLY <3>0, <4>1, NamesAre
    <3>3. CASE a.op \in {"movie_details", "list_movies"}
      BY <2>1, <3>0, <3>1, <3>3 DEF KscpKnows, Details, Listing
    <3>4. CASE a.op \notin {"play_movie", "movie_details", "list_movies"}
      <4>1. a.cmd = Command(Kscp!CommandFor[a.op], a.arg)
        BY <3>1, <3>4 DEF KscpKnows
      <4> QED
        BY ONLY <2>1, <3>1, <4>1, NamesAre
    <3> QED
      BY <3>2, <3>3, <3>4
  <2>5. CASE driver = "envy"
    <3>1. a.op \in DOMAIN Mvr!CommandFor /\ a.cmd = Command(Mvr!CommandFor[a.op], a.arg)
      BY <2>5, EnvyIs
    <3> QED
      BY <2>1, <3>1, NamesAre
  <2>6. CASE driver = "udp203"
    <3>1. a.op \in DOMAIN Oppo!CommandFor /\ a.cmd = Command(Oppo!CommandFor[a.op], a.arg)
      BY <1>1, <2>6 DEF Knows, OppoKnows
    <3> QED
      BY <2>1, <3>1, NamesAre
  <2>7. CASE driver = "pj_talk"
    <3>1. a.op \in DOMAIN Pj!CommandFor /\ a.cmd = Command(Pj!CommandFor[a.op], Pj!Argument(a))
      BY <1>1, <2>7 DEF Knows, PjKnows
    <3> QED
      BY <2>1, <3>1, NamesAre
  <2>8. CASE driver = "za5000"
    <3>1. a.op \in DOMAIN Str!CommandFor
            /\ (a.cmd.name = Str!CommandFor[a.op]
                 \/ a.cmd.name \in {"input?", "set_input", "power?", "mute?"})
      BY <1>1, <2>8 DEF Knows, StrKnows
    <3>2. "power?" \in Names
      <4>1. "power?" = Str!CommandFor["check_is_on"] /\ "check_is_on" \in DOMAIN Str!CommandFor
        BY DEF Str!CommandFor
      <4> QED
        BY ONLY <4>1, NamesAre
    <3> QED
      BY ONLY <3>1, <3>2, NamesAre
  <2> QED
    BY IsDriver, <2>2, <2>3, <2>4, <2>5, <2>6, <2>7, <2>8
<1> QED
  BY ONLY <1>2, <1>3, NoneAssumption DEF Command

\* The command is under way and no reply has come yet.
LEMMA SentWell ==
  ASSUME driver \in DriverNames, NEW a, NEW S, NEW T \in BOOLEAN, Good(a, S, T), a.pc = "send",
         NEW v, NEW s, Fair(a, v, s),
         NEW w, w.up = v.up, w.cmd = IF v.up = "open" THEN a.cmd ELSE None,
         w.lines = IF driver = "appletv" THEN <<>> ELSE v.lines
  PROVE  Well(Sent(a), w, s, S)
<1>1. Shape(a) /\ a.cmd # None
  BY CommandSome DEF Good
<1>2. Ready(a, v) /\ Stands(a, v, s)
  BY DEF Fair
<1>3. CASE Sent(a) = Done(a, Ok)
  BY <1>1, <1>3, AnswersWell, DoneWell
<1>4. CASE Sent(a) = Await(a) /\ (driver = "avm70" => a.op # "turn_on")
  <2>1. PICK b : b = Sent(a)
    OBVIOUS
  <2>2. Passed(a, b, "read")
    BY <1>1, <1>4, <2>1, PassesOn
  <2>3. /\ b.cmd = a.cmd /\ b.op = a.op /\ b.m = a.m /\ b.n = a.n /\ b.arg = a.arg /\ b.got = a.got
        /\ b.pc = "read"
    BY <2>2 DEF Passed
  <2>4. driver # "appletv" \/ a.n = 1 => v.up = "open"
    BY <1>2 DEF Ready
  <2>5. Stands(b, w, s)
    <3>1. CASE driver = "avm70"
      BY <1>2, <1>4, <2>3, <3>1 DEF Stands, AvmStands
    <3>2. CASE driver = "kscp"
      BY <1>1, <1>2, <2>3, <2>4, <3>2 DEF Stands, KscpStands
    <3>3. CASE driver = "za5000"
      BY <1>1, <1>2, <2>3, <2>4, <3>3 DEF Stands, StrStands
    <3>4. CASE driver = "envy"
      BY <1>2, <2>3, <3>4, EnvyIs DEF Stands, EnvyStands
    <3> QED
      BY <3>1, <3>2, <3>3, <3>4 DEF Stands
  <2>6. CASE w.cmd = None
    <3>1. driver = "appletv" /\ a.n # 1 /\ w.up # "open" /\ w.lines = <<>>
      BY <1>1, <2>4, <2>6
    <3>2. Due(b, w)
      BY <2>3, <3>1 DEF Due, AtvDue
    <3> QED
      BY <2>1, <2>3, <2>5, <2>6, <3>2 DEF Well, Fair
  <2>7. CASE w.cmd # None
    <3>1. Ready(b, w)
      <4>1. CASE driver = "avm70"
        BY <1>2, <2>4, <4>1 DEF Ready
      <4>2. CASE driver = "appletv"
        BY <2>3, <2>4, <4>2 DEF Ready
      <4>3. CASE driver \notin {"avm70", "appletv"}
        BY <1>2, <2>4, <4>3 DEF Ready
      <4> QED
        BY <4>1, <4>2, <4>3
    <3> QED
      BY <2>1, <2>3, <2>5, <2>7, <3>1 DEF Well, Fair
  <2> QED
    BY <2>6, <2>7
<1>5. \/ Sent(a) = Done(a, Ok)
      \/ Sent(a) = Await(a) /\ (driver = "avm70" => a.op # "turn_on")
  BY IsDriver, AvmWords, AtvWords, KscpWords, MvrWords, OppoWords, PjWords, StrWords
  DEF Sent, Avm!Sent, Atv!Sent, Kscp!Sent, Mvr!Sent, Oppo!Sent, Pj!Sent, Str!Sent
<1> QED
  BY <1>3, <1>4, <1>5

\* The Apple TV's session is mended once; the Envy's stream ends when it goes
\* to standby.
LEMMA BrokenWell ==
  ASSUME driver \in DriverNames, NEW a, NEW S, NEW T, Good(a, S, T), NEW w, w.up # "open",
         NEW s, Fair(a, w, s),
         NEW how \in {"eof", "reset"}, driver = "pj_talk" => a.n # 1,
         \/ a.pc = "send"
         \/ a.pc = "read" /\ w.lines = <<>> /\ (driver = "appletv" \/ how = "eof")
  PROVE  Well(Broken(a, how), w, s, S) /\ driver \in {"appletv", "envy"}
         /\ (driver = "envy" => Broken(a, how).pc = "return")
<1>1. Shape(a)
  BY DEF Good
<1>2. a.pc = "send" \/ (a.pc = "read" /\ w.cmd # None) => driver = "appletv" /\ a.n # 1
  BY DEF Fair, Ready
<1>3. CASE driver = "appletv"
  <2>1. a.n = 0
    <3>1. a.n # 1
      BY <1>2, <1>3 DEF Fair, Due, AtvDue
    <3>2. a.n \in Nat /\ a.n <= 1
      BY <1>1, <1>3 DEF Good, Shape, Knows, AtvKnows
    <3> QED
      BY <3>1, <3>2
  <2>2. PICK d : d = [a EXCEPT !.n = 1]
    OBVIOUS
  <2>3. Broken(a, how) = Ask(d, a.cmd.name, a.arg)
    BY <1>3, <2>1, <2>2, AtvWords DEF Broken, Atv!Broken, Atv!should_reconnect
  <2>4. d = [op |-> a.op, arg |-> a.arg, pc |-> a.pc, cmd |-> a.cmd, n |-> 1, m |-> a.m,
             got |-> a.got, ans |-> a.ans]
    BY <1>1, <2>2 DEF Shape
  <2>5. Shape(d)
    BY ONLY <1>1, <2>4 DEF Shape
  <2> DEFINE b == Ask(d, a.cmd.name, a.arg)
  <2>6. b.pc = "connect"
    BY <2>5, NewRecords
  <2> HIDE DEF b
  <2>7. Stands(b, w, s)
    BY <1>3 DEF Stands
  <2> QED
    BY <1>3, <2>3, <2>6, <2>7, AskWell DEF b
<1>4. CASE driver # "appletv"
  <2>1. a.pc = "read" /\ w.cmd = None /\ Due(a, w) /\ how = "eof"
    BY <1>2, <1>4 DEF Fair
  <2>2. driver = "envy"
    BY <1>4, <2>1, IsDriver DEF Due, AvmDue, KscpDue, OppoDue, PjDue, StrDue
  <2>3. a.m # 0 /\ a.op \in {"turn_off", "standby"}
    <3>1. EnvyDue(a, w) /\ a.m \in {0, 1, 2}
      BY <2>1, <2>2, EnvyIs DEF Due
    <3> QED
      BY <3>1 DEF EnvyDue
  <2>4. Broken(a, how) = Mvr!Done(a, Mvr!Responded(a))
    BY <2>1, <2>2, <2>3 DEF Broken, Mvr!Broken
  <2>5. Mvr!Done(a, Mvr!Responded(a)).pc = "return"
    BY <1>1, NewRecords, MvrWords
  <2> QED
    BY <1>1, <2>2, <2>3, <2>4, <2>5, EnvySureWell
<1> QED
  BY <1>3, <1>4

\* The projector's call has its header, and no data.
LEMMA PjBrokenWell ==
  ASSUME driver = "pj_talk", NEW a, NEW S, NEW T, Good(a, S, T), a.n = 1, NEW w, NEW s, NEW how
  PROVE  Well(Broken(a, how), w, s, S) /\ Broken(a, how).pc = "return"
<1> DEFINE b == Broken(a, how)
<1>1. Shape(a)
  BY DEF Good
<1>2. b = Done(a, Ok) \/ b = Done(a, Err)
  BY PjWords DEF Broken, Pj!Broken
<1>3. b.pc = "return" /\ b.n = 1
  BY <1>1, <1>2, NewRecords
<1> HIDE DEF b
<1>4. Well(b, w, s, S)
  BY <1>3 DEF Well, Fair, Pleasant, Unreadable
<1> QED
  BY <1>3, <1>4 DEF b

\* Datagrams are sent.
LEMMA WokenWell ==
  ASSUME driver = "envy", NEW a, NEW S, NEW T, Good(a, S, T), a.pc = "wake",
         NEW w, NEW s, Fair(a, w, s)
  PROVE  Well(Mvr!Woken(a, TRUE), w, s, S)
<1>1. Shape(a) /\ a.got = <<>>
  BY DEF Good, Fair, Stands, EnvyStands
<1>2. PICK d : d = [a EXCEPT !.n = a.n + 1, !.m = 1]
  OBVIOUS
<1>3. Mvr!Woken(a, TRUE) = IF d.n < 3 THEN d ELSE Mvr!Done(d, IF d.m = 1 THEN Ok ELSE Err)
  BY <1>2 DEF Mvr!Woken
<1>4. d = [op |-> a.op, arg |-> a.arg, pc |-> a.pc, cmd |-> a.cmd, n |-> a.n + 1, m |-> 1,
           got |-> a.got, ans |-> a.ans]
  BY <1>1, <1>2 DEF Shape
<1>5. Shape(d) /\ d.m = 1 /\ d.got = <<>> /\ d.pc = "wake"
  BY ONLY <1>1, <1>4, a.pc = "wake" DEF Shape
<1>6. CASE d.n < 3
  <2>1. Stands(d, w, s)
    BY <1>5 DEF Stands, EnvyStands
  <2> QED
    BY <1>3, <1>5, <1>6, <2>1 DEF Well, Fair
<1>7. CASE ~(d.n < 3)
  BY <1>3, <1>5, <1>7, MvrWords, AnswersWell, DoneWell
<1> QED
  BY <1>6, <1>7

-----------------------------------------------------------------------------
(* What comes when a call's own command is executed and heeded.            *)

\* The drivers' modules share the words of Exchanges.
LEMMA SameWords ==
  ASSUME NEW s, NEW ls
  PROVE  /\ Atv!React(s, ls) = React(s, ls) /\ Atv!Refuse(s, ls) = Refuse(s, ls)
         /\ Kscp!React(s, ls) = React(s, ls) /\ Kscp!Refuse(s, ls) = Refuse(s, ls)
         /\ Oppo!React(s, ls) = React(s, ls) /\ Oppo!Refuse(s, ls) = Refuse(s, ls)
         /\ Pj!React(s, ls) = React(s, ls) /\ Pj!Refuse(s, ls) = Refuse(s, ls)
         /\ Str!React(s, ls) = React(s, ls) /\ Str!Refuse(s, ls) = Refuse(s, ls)
         /\ Avm!React(s, ls) = React(s, ls) /\ Avm!Refuse(s, ls) = Refuse(s, ls)
         /\ Avm!Announce(s, ls) = Announce(s, ls)
         /\ \A t, x : /\ Atv!Line(t, x) = Line(t, x) /\ Kscp!Line(t, x) = Line(t, x)
                      /\ Oppo!Line(t, x) = Line(t, x) /\ Pj!Line(t, x) = Line(t, x)
                      /\ Str!Line(t, x) = Line(t, x) /\ Avm!Line(t, x) = Line(t, x)
BY DEF Atv!React, Kscp!React, Oppo!React, Pj!React, Str!React, Avm!React, React,
       Atv!Refuse, Kscp!Refuse, Oppo!Refuse, Pj!Refuse, Str!Refuse, Avm!Refuse, Refuse,
       Avm!Announce, Announce,
       Atv!Line, Kscp!Line, Oppo!Line, Pj!Line, Str!Line, Avm!Line, Line

\* A reply of one line.
LEMMA RepliesOne ==
  ASSUME NEW z, NEW t, NEW x, NEW r, r = React(z, <<Line(t, x)>>)
  PROVE  /\ r.state = z /\ ~r.close /\ r.heeded /\ r.reply = <<Line(t, x)>>
         /\ Len(r.reply) = 1 /\ r.reply # <<>> /\ r.reply[1].tag = t /\ r.reply[1].val = x
<1> DEFINE l == Line(t, x)
           ls == <<l>>
<1>1. l.tag = t /\ l.val = x
  BY DEF Line
<1> HIDE DEF l
<1>2. Len(ls) = 1 /\ ls # <<>> /\ ls[1] = l
  OBVIOUS
<1>3. r = React(z, ls)
  BY DEF l
<1> HIDE DEF ls
<1>4. r.state = z /\ ~r.close /\ r.heeded /\ r.reply = ls
  BY ONLY <1>3 DEF React
<1>5. ls = <<Line(t, x)>>
  BY DEF ls, l
<1> QED
  BY <1>1, <1>2, <1>4, <1>5

\* A refusal is not heeded.
LEMMA RefusedIs ==
  ASSUME NEW z, NEW ls
  PROVE  ~Refuse(z, ls).heeded
BY ReactIs DEF Is

\* The same reaction with another reply.
LEMMA OtherReply ==
  ASSUME NEW z, NEW ls, NEW more, NEW q, q = React(z, ls) \/ q = Refuse(z, ls)
  PROVE  Is([q EXCEPT !.reply = more], z, more, <<>>, FALSE, q.heeded)
<1>1. CASE q = React(z, ls)
  <2>1. q = [state |-> z, reply |-> ls, tell |-> <<>>, close |-> FALSE, heeded |-> TRUE]
    BY <1>1 DEF React
  <2> QED
    BY <2>1 DEF Is
<1>2. CASE q = Refuse(z, ls)
  <2>1. q = [state |-> z, reply |-> ls, tell |-> <<>>, close |-> FALSE, heeded |-> FALSE]
    BY <1>2 DEF React, Refuse
  <2> QED
    BY <2>1 DEF Is
<1> QED
  BY <1>1, <1>2

\* What the Udp203 says in its usual mode.
LEMMA OppoResponse ==
  ASSUME driver = "udp203", NEW cmd, Known(cmd), NEW s, NEW r, r = Oppo!Response(cmd, s)
  PROVE  /\ r.heeded => ~r.close /\ r.reply # <<>> /\ r.reply[1].tag = "@OK"
         /\ \E z, ls : r = React(z, ls) \/ r = Refuse(z, ls)
<1>0. cmd.name \in {"#PON", "#POF", "#QPW", "#SEL"}
  BY DEF Known, Oppo!CommandFor
<1>1. CASE cmd.name = "#PON"
  <2>1. PICK z : z = [s EXCEPT !.power = On]
    OBVIOUS
  <2>2. r = React(z, <<Line("@OK", 1)>>)
    BY <1>1, <2>1, SameWords DEF Oppo!Response
  <2> QED
    BY ONLY <2>2, RepliesOne
<1>2. CASE cmd.name = "#POF"
  <2>1. PICK z : z = [s EXCEPT !.power = Off]
    OBVIOUS
  <2>2. r = React(z, <<Line("@OK", 0)>>)
    BY <1>2, <2>1, SameWords DEF Oppo!Response
  <2> QED
    BY ONLY <2>2, RepliesOne
<1>3. CASE cmd.name = "#QPW"
  <2>1. PICK x : x = Oppo!Bit(s)
    OBVIOUS
  <2>2. r = React(s, <<Line("@OK", x)>>)
    BY <1>3, <2>1, SameWords DEF Oppo!Response
  <2> QED
    BY ONLY <2>2, RepliesOne
<1>4. CASE cmd.name = "#SEL"
  <2>1. r = React(s, <<Line("@OK", 0)>>) \/ r = Refuse(s, <<Line("@ER", 0)>>)
    BY <1>4, SameWords DEF Oppo!Response
  <2> QED
    BY ONLY <2>1, RepliesOne, RefusedIs
<1> QED
  BY <1>0, <1>1, <1>2, <1>3, <1>4

\* The Udp203 says @OK, or more than there is room for,
LEMMA OppoOwn ==
  ASSUME driver = "udp203", NEW cmd, Known(cmd), NEW s, NEW r \in Oppo!Does(cmd, s), r.heeded
  PROVE  ~r.close /\ r.reply # <<>> /\ r.reply[1].tag \in {"@OK", "full"}
<1>1. PICK q, ls : q = Oppo!Response(cmd, s) /\ ls = <<Line("full", 0)>>
  OBVIOUS
<1>2. r = q \/ r = [q EXCEPT !.reply = ls]
  BY <1>1, SameWords DEF Oppo!Does
<1>3. /\ q.heeded => ~q.close /\ q.reply # <<>> /\ q.reply[1].tag = "@OK"
      /\ \E z, more : q = React(z, more) \/ q = Refuse(z, more)
  BY <1>1, OppoResponse
<1>5. PICK z, more : q = React(z, more) \/ q = Refuse(z, more)
  BY <1>3
<1>4. CASE r = [q EXCEPT !.reply = ls]
  <2>1. ~r.close /\ r.reply = ls
    <3>1. Is(r, z, ls, <<>>, FALSE, q.heeded)
      BY <1>4, <1>5, OtherReply
    <3> QED
      BY ONLY <3>1 DEF Is
  <2>2. ls # <<>> /\ ls[1].tag = "full"
    BY ONLY <1>1 DEF Line
  <2> QED
    BY <2>1, <2>2
<1> QED
  BY <1>2, <1>3, <1>4

\* the Apple TV does not refuse,
LEMMA AtvOwn ==
  ASSUME driver = "appletv", NEW cmd, Known(cmd), NEW s, NEW r \in Atv!Does(cmd, s), r.heeded
  PROVE  ~r.close /\ r.reply # <<>> /\ r.reply[1].tag # "refused"
<1>0. cmd.name \in {"turn_on", "turn_off", "power_state", "next"}
  BY DEF Known, Atv!CommandFor
<1>1. r # Refuse(s, <<Line("refused", 0)>>)
  BY RefusedIs
<1>2. CASE cmd.name = "turn_on"
  <2>1. PICK z : z = [s EXCEPT !.power = On]
    OBVIOUS
  <2>2. r = React(z, <<Line("ok", 0)>>)
    BY <1>1, <1>2, <2>1, SameWords DEF Atv!Does
  <2> QED
    BY <2>2, RepliesOne
<1>3. CASE cmd.name = "turn_off"
  <2>1. PICK z : z = [s EXCEPT !.power = Off]
    OBVIOUS
  <2>2. r = React(z, <<Line("ok", 0)>>)
    BY <1>1, <1>3, <2>1, SameWords DEF Atv!Does
  <2> QED
    BY <2>2, RepliesOne
<1>4. CASE cmd.name \in {"power_state", "next"}
  <2>1. PICK x : x = IF cmd.name = "next" THEN 0 ELSE Atv!Bit(s)
    OBVIOUS
  <2>2. r = React(s, <<Line("ok", x)>>)
    BY <1>1, <1>4, <2>1, SameWords DEF Atv!Does
  <2> QED
    BY <2>2, RepliesOne
<1> QED
  BY <1>0, <1>2, <1>3, <1>4

\* nor does the projector,
LEMMA PjOwn ==
  ASSUME driver = "pj_talk", NEW cmd, NEW s, NEW r \in Pj!Does(cmd, s), r.heeded
  PROVE  ~r.close /\ r.reply # <<>> /\ r.reply[1].tag \in {"ok", "bare"}
<1>1. r # Refuse(s, <<Line("error", 0)>>)
  BY RefusedIs
<1>2. CASE cmd.name = "POWER?"
  <2>1. PICK x \in Pj!Statuses(s) : r = React(s, <<Line("ok", x)>>)
    BY <1>2, SameWords DEF Pj!Does
  <2> QED
    BY <2>1, RepliesOne
<1>3. CASE cmd.name = "POWER"
  <2>1. PICK z : z = Pj!Switched(s, Pj!PowerOf(cmd.arg))
    OBVIOUS
  <2>2. r = React(z, <<Line("ok", 0)>>)
    BY <1>1, <1>3, <2>1, SameWords DEF Pj!Does
  <2> QED
    BY <2>2, RepliesOne
<1>4. CASE cmd.name = "POSITION"
  <2>1. PICK z : z = [s EXCEPT !.set = cmd.arg]
    OBVIOUS
  <2>2. r = React(z, <<Line("ok", 0)>>)
    BY <1>1, <1>4, <2>1, SameWords DEF Pj!Does
  <2> QED
    BY <2>2, RepliesOne
<1>6. CASE cmd.name = "ITEM"
  <2>1. PICK tag \in {"ok", "bare"} : r = React(s, <<Line(tag, 0)>>)
    BY <1>1, <1>6, SameWords DEF Pj!Does
  <2> QED
    BY <2>1, RepliesOne
<1>5. CASE cmd.name \notin {"POWER?", "POWER", "POSITION", "ITEM"}
  <2>1. PICK x : x = IF cmd.name = "POSITION?" THEN s.set ELSE 0
    OBVIOUS
  <2>2. r = React(s, <<Line("ok", x)>>)
    BY <1>1, <1>5, <2>1, SameWords DEF Pj!Does
  <2> QED
    BY <2>2, RepliesOne
<1> QED
  BY <1>2, <1>3, <1>4, <1>5, <1>6

\* The StrZa5000 keeps its input but when it is told to change it
\* to one that there is.
LEMMA StrOwn ==
  ASSUME driver = "za5000", NEW cmd, NEW s, s = [power |-> s.power, set |-> s.set, aux |-> s.aux],
         NEW r \in Str!Does(cmd, s), r.heeded
  PROVE  /\ ~r.close /\ r.reply # <<>> /\ r.reply[1].tag # "empty"
         /\ r.state.set = IF cmd.name = "set_input" /\ cmd.arg # 0 THEN cmd.arg ELSE s.set
         /\ cmd.name = "input?" => \/ r.reply[1].tag = "other"
                                   \/ r.reply[1].tag = "input" /\ r.reply[1].val = s.set
         /\ cmd.name = "mute?" => r.reply[1].tag \in {"mute", "other"}
<1>0. ~(s.power = Off /\ cmd.name \notin {"power_on", "power_off"})
  <2>1. r # Refuse(s, <<Line("empty", 0)>>)
    BY RefusedIs
  <2> QED
    BY <2>1, SameWords, AnswersAssumption DEF Str!Does
<1>1. CASE cmd.name \in {"power_on", "power_off"}
  <2>0. PICK p : p = IF cmd.name = "power_on" THEN On ELSE Off
    OBVIOUS
  <2>1. PICK z : z = [s EXCEPT !.power = p]
    OBVIOUS
  <2>2. r = React(z, <<Line("done", 0)>>)
    BY <1>1, <2>0, <2>1, SameWords DEF Str!Does
  <2>3. z.set = s.set
    BY <2>1
  <2> QED
    BY <1>1, <2>2, <2>3, RepliesOne
<1>2. CASE cmd.name = "set_input"
  <2>1. PICK z : z = [s EXCEPT !.set = IF cmd.arg = 0 THEN s.set ELSE cmd.arg]
    OBVIOUS
  <2>2. r = React(z, <<Line("done", 0)>>)
    BY <1>0, <1>2, <2>1, SameWords DEF Str!Does
  <2>3. z.set = IF cmd.arg = 0 THEN s.set ELSE cmd.arg
    BY <2>1
  <2> QED
    BY <1>2, <2>2, <2>3, RepliesOne
<1>3. CASE cmd.name = "muting"
  <2>1. PICK z : z = [s EXCEPT !.aux = 1 - @]
    OBVIOUS
  <2>2. r = React(z, <<Line("done", 0)>>)
    BY <1>0, <1>3, <2>1, SameWords DEF Str!Does
  <2>3. z.set = s.set
    BY <2>1
  <2> QED
    BY <1>3, <2>2, <2>3, RepliesOne
<1>4. CASE cmd.name = "mute?"
  <2>1. r = React(s, <<Line("mute", s.aux)>>) \/ r = React(s, <<Line("other", 0)>>)
    BY <1>0, <1>4, SameWords DEF Str!Does
  <2> QED
    BY <1>4, <2>1, RepliesOne
<1>5. CASE cmd.name = "volume"
  <2>1. r = React(s, <<Line("done", 0)>>)
    BY <1>0, <1>5, SameWords DEF Str!Does
  <2> QED
    BY <1>5, <2>1, RepliesOne
<1>6. CASE cmd.name \notin {"power_on", "power_off", "set_input", "muting", "mute?", "volume"}
  <2>1. r = React(s, <<Line("input", s.set)>>) \/ r = React(s, <<Line("other", 0)>>)
    BY <1>0, <1>6, SameWords DEF Str!Does
  <2> QED
    BY <1>6, <2>1, RepliesOne
<1> QED
  BY <1>1, <1>2, <1>3, <1>4, <1>5, <1>6

\* The Kaleidescape shows the details that it is told to.
LEMMA KscpOwn ==
  ASSUME driver = "kscp", NEW cmd, NEW s, s = [power |-> s.power, set |-> s.set, aux |-> s.aux],
         NEW r \in Kscp!Does(cmd, s), r.heeded
  PROVE  /\ ~r.close /\ r.reply # <<>> /\ r.reply[1].tag # "standby"
         /\ cmd.name = "SHOW_CONTROLLER_DETAILS" => r.state.set = cmd.arg /\ r.state.aux = 1
         /\ cmd.name \in {"GET_UI_STATE", "GET_HIGHLIGHTED_SELECTION", "PLAY"} => r.state = s
         /\ cmd.name = "GET_UI_STATE" => r.reply[1].val = s.aux
         /\ cmd.name = "GET_HIGHLIGHTED_SELECTION" => r.reply[1].val = s.set
         /\ cmd.name = "GET_DEVICE_POWER_STATE" => r.reply[1].tag = "power"
         /\ cmd.name = "GET_MOVIES" => r.reply[1].tag = "movies"
<1>0. /\ r # Refuse(s, <<Line("standby", 0)>>) /\ r # Refuse(s, <<Line("error", 0)>>)
      /\ r # Refuse(s, <<Line("status", 0)>>)
  BY RefusedIs
<1>9. CASE cmd.name = "GET_MOVIES"
  <2>1. r = React(s, <<Line("movies", 0)>>)
    BY <1>0, <1>9, SameWords DEF Kscp!Does
  <2> QED
    BY <1>9, <2>1, RepliesOne
<1>1. CASE cmd.name = "GET_DEVICE_POWER_STATE"
  <2>1. r = React(s, <<Line("power", 1)>>) \/ r = React(s, <<Line("power", 0)>>)
    BY <1>0, <1>1, SameWords DEF Kscp!Does, Kscp!Replies
  <2> QED
    BY <1>1, <2>1, RepliesOne
<1>2. ASSUME cmd.name \notin {"GET_DEVICE_POWER_STATE", "GET_MOVIES"}
      PROVE  r \in Kscp!Replies(cmd, s)
  BY <1>0, <1>2, SameWords DEF Kscp!Does
<1>3. CASE cmd.name \in {"LEAVE_STANDBY", "ENTER_STANDBY"}
  <2>0. PICK p : p = IF cmd.name = "LEAVE_STANDBY" THEN On ELSE Off
    OBVIOUS
  <2>1. PICK z : z = [s EXCEPT !.power = p]
    OBVIOUS
  <2>2. r = React(z, <<Line("ok", 0)>>)
    BY <1>2, <1>3, <2>0, <2>1, SameWords DEF Kscp!Replies
  <2> QED
    BY <1>3, <2>2, RepliesOne
<1>4. CASE cmd.name = "SHOW_CONTROLLER_DETAILS"
  <2>1. PICK z : z = [s EXCEPT !.set = cmd.arg, !.aux = 1]
    OBVIOUS
  <2>2. r = React(z, <<Line("ok", 0)>>)
    BY <1>0, <1>2, <1>4, <2>1, SameWords DEF Kscp!Replies
  <2>3. z.set = cmd.arg /\ z.aux = 1
    BY <2>1
  <2> QED
    BY <1>4, <2>2, <2>3, RepliesOne
<1>5. CASE cmd.name = "GET_UI_STATE"
  <2>1. r = React(s, <<Line("ui", s.aux)>>)
    BY <1>2, <1>5, SameWords DEF Kscp!Replies
  <2> QED
    BY <1>5, <2>1, RepliesOne
<1>6. CASE cmd.name = "GET_HIGHLIGHTED_SELECTION"
  <2>1. r = React(s, <<Line("selection", s.set)>>)
    BY <1>2, <1>6, SameWords DEF Kscp!Replies
  <2> QED
    BY <1>6, <2>1, RepliesOne
<1>7. CASE cmd.name = "GET_CONTENT_DETAILS"
  <2> DEFINE x == <<Line("overview", DetailLines)>>
             y == [i \in 1..DetailLines |-> Line("detail", cmd.arg)]
             ls == x \o y
  <2>1. Len(ls) > 0 /\ ls[1] = Line("overview", DetailLines)
    <3>1. DetailLines \in Nat
      BY LimitsAssumption
    <3>2. Len(x) = 1 /\ x[1] = Line("overview", DetailLines) /\ Len(y) = DetailLines
      BY <3>1
    <3>3. DOMAIN x = 1..1 /\ DOMAIN y = 1..DetailLines
      BY <3>1
    <3> QED
      BY <3>1, <3>2
  <2>2. ls # <<>> /\ ls[1].tag = "overview"
    BY <2>1 DEF Line
  <2>3. r = React(s, ls)
    <3>1. Kscp!Replies(cmd, s) =
            {Kscp!React(s, <<Kscp!Line("overview", DetailLines)>>
                             \o [i \in 1..DetailLines |-> Kscp!Line("detail", cmd.arg)])}
      BY ONLY <1>7 DEF Kscp!Replies
    <3>2. /\ <<Kscp!Line("overview", DetailLines)>> = x
          /\ [i \in 1..DetailLines |-> Kscp!Line("detail", cmd.arg)] = y
      BY SameWords
    <3> HIDE DEF x, y
    <3>3. r \in {Kscp!React(s, x \o y)}
      BY ONLY <1>2, <1>7, <3>1, <3>2
    <3>4. r = Kscp!React(s, ls)
      BY ONLY <3>3 DEF ls
    <3> QED
      BY <3>4, SameWords
  <2> HIDE DEF ls
  <2>4. ~r.close /\ r.reply = ls
    BY ONLY <2>3 DEF React
  <2> QED
    BY <1>7, <2>2, <2>4
<1>8. CASE cmd.name \notin {"LEAVE_STANDBY", "ENTER_STANDBY", "GET_DEVICE_POWER_STATE",
                            "SHOW_CONTROLLER_DETAILS", "GET_UI_STATE",
                            "GET_HIGHLIGHTED_SELECTION", "GET_CONTENT_DETAILS", "GET_MOVIES"}
  <2>1. r = React(s, <<Line("ok", 0)>>)
    BY <1>0, <1>2, <1>8, SameWords DEF Kscp!Replies
  <2> QED
    BY <1>8, <2>1, RepliesOne
<1> QED
  BY <1>1, <1>3, <1>4, <1>5, <1>6, <1>7, <1>8, <1>9

\* The Envy hangs up when it is switched off.
LEMMA EnvyOwn ==
  ASSUME driver = "envy", NEW cmd, NEW s, NEW r \in Mvr!Does(cmd, s), r.heeded,
         cmd.name \in {Mvr!CommandFor[op] : op \in DOMAIN Mvr!CommandFor}
  PROVE  IF cmd.name \in {"PowerOff", "Standby"}
         THEN r.close /\ \A i \in 1..Len(r.reply) : r.reply[i].tag = "OK"
         ELSE /\ ~r.close /\ r.reply # <<>> /\ r.reply[1].tag = "OK"
              /\ cmd.name = "GetAspectRatio" => Len(r.reply) = 2 /\ r.reply[2].tag = "ratio"
<1>1. CASE cmd.name \in {"PowerOff", "Standby"}
  <2>1. PICK z : z = [s EXCEPT !.power = Off]
    OBVIOUS
  <2>2. PICK ls \in {<<>>, <<Line("OK", 0)>>} : r = HangUp(z, ls)
    BY <1>1, <2>1, EnvyWords DEF Mvr!Does
  <2>3. \A i \in 1..Len(ls) : ls[i].tag = "OK"
    BY DEF Line
  <2>4. Is(r, z, ls, <<>>, TRUE, TRUE)
    BY <2>2, ReactIs
  <2>5. r.close = TRUE /\ r.reply = ls
    BY ONLY <2>4 DEF Is
  <2> QED
    BY <1>1, <2>3, <2>5
<1>2. CASE cmd.name = "GetAspectRatio"
  <2> DEFINE l == Line("OK", 0)
             m == Line("ratio", s.set)
             ls == <<l, m>>
  <2>1. l.tag = "OK" /\ m.tag = "ratio"
    BY DEF Line
  <2> HIDE DEF l, m
  <2>2. ls # <<>> /\ Len(ls) = 2 /\ ls[1].tag = "OK" /\ ls[2].tag = "ratio"
    BY <2>1
  <2>3. r = React(s, ls)
    BY <1>2, EnvyWords DEF Mvr!Does, l, m
  <2> HIDE DEF ls
  <2>4. ~r.close /\ r.reply = ls
    BY ONLY <2>3 DEF React
  <2> QED
    BY <1>2, <2>2, <2>4
<1>3. CASE cmd.name \notin {"PowerOff", "Standby", "GetAspectRatio"}
  <2>0. cmd.name # "WAKE"
    BY DEF Mvr!CommandFor
  <2>1. r = React(s, <<Line("OK", 0)>>)
    BY <1>3, <2>0, EnvyWords, RefusedIs DEF Mvr!Does
  <2> QED
    BY <1>3, <2>1, RepliesOne
<1> QED
  BY <1>1, <1>2, <1>3

\* Lines that come after others.
LEMMA JoinIs ==
  ASSUME NEW ls \in Seq(Lines), NEW more \in Seq(Lines)
  PROVE  /\ ls \o more \in Seq(Lines) /\ Len(ls \o more) = Len(ls) + Len(more)
         /\ Len(ls) \in Nat /\ Len(more) \in Nat
         /\ \A j \in 1..Len(ls) : (ls \o more)[j] = ls[j]
         /\ \A j \in (Len(ls) + 1)..(Len(ls) + Len(more)) : (ls \o more)[j] = more[j - Len(ls)]
         /\ ls = <<>> => ls \o more = more
<1>1. /\ ls \o more \in Seq(Lines) /\ Len(ls \o more) = Len(ls) + Len(more)
      /\ Len(ls) \in Nat /\ Len(more) \in Nat
  OBVIOUS
<1>2. \A j \in 1..Len(ls) : (ls \o more)[j] = ls[j]
  OBVIOUS
<1>3. \A j \in (Len(ls) + 1)..(Len(ls) + Len(more)) : (ls \o more)[j] = more[j - Len(ls)]
  OBVIOUS
<1>4. ls = <<>> => ls \o more = more
  OBVIOUS
<1> QED
  BY <1>1, <1>2, <1>3, <1>4

\* The receiver's reply comes after gossip,
LEMMA AvmBefore ==
  ASSUME NEW a, AvmMore(a) \in Nat, ~(a.op = "inputs" /\ a.m > 0),
         NEW ls \in Seq(Lines), \A j \in 1..Len(ls) : ls[j].tag \in Gossip,
         NEW more \in Seq(Lines), NEW i \in 1..Len(more), AvmBlock(a, more, i)
  PROVE  AvmBlock(a, ls \o more, Len(ls) + i) /\ Len(ls) + i \in 1..Len(ls \o more)
<1> DEFINE N == Len(ls)
           M == Len(more)
           all == ls \o more
           k == AvmMore(a)
<1>1. /\ i + k <= M
      /\ \A j \in 1..M :
           IF j \in i .. (i + k) THEN more[j].tag = AvmTag(a, j - i) ELSE more[j].tag \in Gossip
  BY DEF AvmBlock
<1>2. /\ Len(all) = N + M /\ N \in Nat /\ M \in Nat /\ k \in Nat
      /\ \A j \in 1..N : all[j] = ls[j]
      /\ \A j \in (N + 1)..(N + M) : all[j] = more[j - N]
      /\ i \in 1..M /\ \A j \in 1..N : ls[j].tag \in Gossip
  BY JoinIs
<1> HIDE DEF N, M, all, k
<1>3. ASSUME NEW j \in 1..(N + M)
      PROVE  IF j \in (N + i) .. (N + i + k) THEN all[j].tag = AvmTag(a, j - (N + i))
             ELSE all[j].tag \in Gossip
  <2>1. CASE j \in 1..N
    <3>1. j \notin (N + i)..(N + i + k)
      BY <1>2, <2>1
    <3> QED
      BY <1>2, <2>1, <3>1
  <2>2. CASE j \in (N + 1)..(N + M)
    <3>1. /\ all[j] = more[j - N] /\ j - N \in 1..M
          /\ j - N \in i..(i + k) <=> j \in (N + i)..(N + i + k)
          /\ (j - N) - i = j - (N + i)
      BY <1>2, <2>2
    <3> QED
      BY <1>1, <3>1
  <2> QED
    BY <1>2, <2>1, <2>2
<1>4. N + i + k <= N + M /\ N + i \in 1..(N + M)
  BY <1>1, <1>2
<1>5. AvmBlock(a, all, N + i)
  BY <1>2, <1>3, <1>4 DEF AvmBlock, k
<1> QED
  BY <1>2, <1>4, <1>5 DEF N, all

\* and gossip after it.
LEMMA AvmBehind ==
  ASSUME NEW a, AvmMore(a) \in Nat,
         NEW ls \in Seq(Lines), NEW i \in 1..Len(ls), AvmBlock(a, ls, i),
         NEW more \in Seq(Lines), \A j \in 1..Len(more) : more[j].tag \in Gossip
  PROVE  AvmBlock(a, ls \o more, i) /\ i \in 1..Len(ls \o more)
<1> DEFINE N == Len(ls)
           M == Len(more)
           all == ls \o more
           k == AvmMore(a)
<1>1. /\ i + k <= N
      /\ \A j \in 1..N :
           IF j \in i .. (i + k) THEN ls[j].tag = AvmTag(a, j - i) ELSE ls[j].tag \in Gossip
      /\ a.op = "inputs" /\ a.m > 0 => i = 1
  BY DEF AvmBlock
<1>2. /\ Len(all) = N + M /\ N \in Nat /\ M \in Nat /\ k \in Nat
      /\ \A j \in 1..N : all[j] = ls[j]
      /\ \A j \in (N + 1)..(N + M) : all[j] = more[j - N]
      /\ i \in 1..N /\ \A j \in 1..M : more[j].tag \in Gossip
  BY JoinIs
<1> HIDE DEF N, M, all, k
<1>3. ASSUME NEW j \in 1..(N + M)
      PROVE  IF j \in i .. (i + k) THEN all[j].tag = AvmTag(a, j - i) ELSE all[j].tag \in Gossip
  <2>1. CASE j \in 1..N
    BY <1>1, <1>2, <2>1
  <2>2. CASE j \in (N + 1)..(N + M)
    <3>1. all[j] = more[j - N] /\ j - N \in 1..M /\ j \notin i..(i + k)
      BY <1>1, <1>2, <2>2
    <3> QED
      BY <1>2, <3>1
  <2> QED
    BY <1>2, <2>1, <2>2
<1>4. i + k <= N + M /\ i \in 1..(N + M)
  BY <1>1, <1>2
<1>5. AvmBlock(a, all, i)
  BY <1>1, <1>2, <1>3, <1>4 DEF AvmBlock, k
<1> QED
  BY <1>2, <1>4, <1>5 DEF all

\* Gossip does a call of the receiver no harm.
LEMMA AvmGossip ==
  ASSUME driver = "avm70", NEW a, NEW S, NEW T, Good(a, S, T), NEW w, w.lines \in Seq(Lines),
         NEW s, Fair(a, w, s), NEW more \in Seq(Lines),
         \A j \in 1..Len(more) : more[j].tag \in Gossip,
         NEW v, v.up = w.up, v.cmd = w.cmd, v.lines = w.lines \o more, NEW t
  PROVE  Fair(a, v, t)
<1> DEFINE N == Len(w.lines)
           M == Len(more)
<1>1. /\ Len(v.lines) = N + M /\ N \in Nat /\ M \in Nat
      /\ \A j \in 1..N : v.lines[j] = w.lines[j]
      /\ \A j \in (N + 1)..(N + M) : v.lines[j].tag \in Gossip
  <2>1. /\ Len(v.lines) = N + M /\ N \in Nat /\ M \in Nat
        /\ \A j \in 1..N : v.lines[j] = w.lines[j]
        /\ \A j \in (N + 1)..(N + M) : v.lines[j] = more[j - N]
    BY JoinIs
  <2>2. \A j \in (N + 1)..(N + M) : j - N \in 1..M
    BY <2>1
  <2> QED
    BY <2>1, <2>2
<1>2. a.pc \in {"connect", "wake", "send", "read"} => Stands(a, v, t)
  BY DEF Fair, Stands, AvmStands
<1>3. ASSUME Ready(a, w) PROVE Ready(a, v)
  <2>1. w.up = "open" /\ \A j \in 1..N : w.lines[j].tag \in Gossip
    BY <1>3 DEF Ready
  <2> HIDE DEF N, M
  <2>2. ASSUME NEW j \in 1..(N + M) PROVE v.lines[j].tag \in Gossip
    <3>1. j \in 1..N \/ j \in (N + 1)..(N + M)
      BY <1>1
    <3> QED
      BY <1>1, <2>1, <3>1
  <2> QED
    BY <1>1, <2>1, <2>2 DEF Ready
<1>4. ASSUME AvmDue(a, w), a.pc = "read" PROVE AvmDue(a, v)
  <2>1. AvmMore(a) \in Nat
    <3>1. Shape(a) /\ AvmKnows(a, S) /\ Inputs \in Nat
      BY <1>4, LimitsAssumption DEF Good, Knows
    <3> QED
      BY <3>1 DEF Shape, AvmKnows, AvmMore
  <2>2. PICK i \in 1..N : AvmBlock(a, w.lines, i)
    BY <1>4 DEF AvmDue
  <2>3. AvmBlock(a, v.lines, i) /\ i \in 1..Len(v.lines)
    BY <2>1, <2>2, AvmBehind
  <2>4. ASSUME a.op = "set_cec", NEW j \in 1..(N + M), v.lines[j].tag = "GCCECC"
        PROVE  v.lines[j].val = a.arg
    <3>1. \A x \in 1..N : w.lines[x].tag = "GCCECC" => w.lines[x].val = a.arg
      BY <1>4, <2>4 DEF AvmDue
    <3> HIDE DEF N, M
    <3>2. "GCCECC" \notin Gossip
      BY DEF Gossip
    <3>3. ~(j \in (N + 1)..(N + M))
      BY <1>1, <2>4, <3>2
    <3>4. j \in 1..N
      BY <1>1, <3>3
    <3> QED
      BY <1>1, <2>4, <3>1, <3>4
  <2> QED
    BY <1>1, <1>4, <2>3, <2>4 DEF AvmDue
<1> HIDE DEF N, M
<1>5. (a.pc = "send" => Ready(a, v)) /\ (a.pc = "lock" => a.n = 0)
  BY <1>3 DEF Fair
<1>6. a.pc = "read" => IF v.cmd = None THEN Due(a, v) ELSE Ready(a, v)
  BY <1>3, <1>4 DEF Fair, Due
<1> QED
  BY <1>2, <1>5, <1>6 DEF Fair

\* A reply of one line is all that the call expects.
LEMMA AvmOne ==
  ASSUME NEW a, a.m \in Nat, AvmMore(a) = 0, NEW x, NEW ls, ls = <<Line(Avm!Expected(a), x)>>,
         ~(a.op = "inputs" /\ a.m > 0)
  PROVE  AvmBlock(a, ls, 1) /\ Len(ls) = 1 /\ ls[1].val = x
<1> DEFINE t == Avm!Expected(a)
           l == Line(t, x)
<1>1. l.tag = t /\ l.val = x
  BY DEF Line
<1>2. ls = <<l>>
  OBVIOUS
<1>3. AvmTag(a, 0) = t
  BY AvmTags
<1> HIDE DEF l, t
<1>4. Len(ls) = 1 /\ ls[1] = l
  BY <1>2
<1>5. \A j \in 1..Len(ls) : j = 1
  BY <1>4
<1>6. \A j \in 1..Len(ls) :
        IF j \in 1..(1 + 0) THEN ls[j].tag = AvmTag(a, j - 1) ELSE ls[j].tag \in Gossip
  BY <1>1, <1>3, <1>4, <1>5
<1>7. AvmBlock(a, ls, 1)
  BY <1>4, <1>6 DEF AvmBlock
<1> QED
  BY <1>1, <1>4, <1>7

\* The receiver's reactions.
LEMMA AvmReplies ==
  ASSUME NEW z, NEW ls, NEW r, r = React(z, ls) \/ r = Announce(z, ls)
  PROVE  ~r.close /\ r.reply = ls /\ r.state = z
<1>1. \/ Is(r, z, ls, <<>>, FALSE, TRUE) \/ Is(r, z, ls, ls, FALSE, TRUE)
  BY ReactIs
<1> QED
  BY ONLY <1>1 DEF Is

\* What its call expects, all of it, is in its reply.
LEMMA AvmOwnBlock ==
  ASSUME driver = "avm70", driver \in DriverNames, NEW a, NEW S, NEW T, Good(a, S, T), a.pc = "read",
         NEW w, w.cmd # None, AvmStands(a, w), NEW s, s \in States,
         NEW r \in Avm!Does(a.cmd, s), r.heeded
  PROVE  /\ ~r.close /\ \E i \in 1..Len(r.reply) : AvmBlock(a, r.reply, i)
         /\ a.op = "set_cec" => r.reply[1].val = a.arg /\ Len(r.reply) = 1
<1>0. /\ Shape(a) /\ AvmKnows(a, S) /\ Inputs \in Nat /\ a.m \in Nat
  BY LimitsAssumption DEF Good, Knows, Shape
<1>1. /\ a.op \in DOMAIN Avm!CommandFor /\ a.op # "turn_on"
      /\ a.op = "inputs" => a.m = 0
      /\ a.op # "inputs" => a.m \in {0, 1}
      /\ \/ a.cmd = Command(Avm!CommandFor[a.op], a.arg)
         \/ a.op = "get_volume" /\ a.cmd = Command("Z1PVOL?", 0)
      /\ a.op = "get_volume" => (a.m = 0 <=> a.cmd.name = "Z1VOL?")
  BY <1>0 DEF AvmKnows, AvmStands
<1>2. r = Avm!Reaction(a.cmd, s)
  <2>1. r # Refuse(s, <<Line("!", 0)>>)
    BY RefusedIs
  <2> QED
    BY <2>1, SameWords DEF Avm!Does
<1>3. ASSUME NEW z, NEW x, AvmMore(a) = 0, a.op # "inputs",
             NEW l, l = Line(Avm!Expected(a), x), r = React(z, <<l>>) \/ r = Announce(z, <<l>>)
      PROVE  /\ ~r.close /\ r.reply[1].val = x /\ Len(r.reply) = 1
             /\ \E i \in 1..Len(r.reply) : AvmBlock(a, r.reply, i)
  <2>1. PICK ls : ls = <<l>>
    OBVIOUS
  <2>2. ~r.close /\ r.reply = ls
    BY <1>3, <2>1, AvmReplies
  <2>3. AvmBlock(a, ls, 1) /\ Len(ls) = 1 /\ ls[1].val = x
    BY <1>0, <1>3, <2>1, AvmOne
  <2>4. 1 \in 1..Len(ls)
    BY <2>3
  <2> QED
    BY <2>2, <2>3, <2>4
<1>4. /\ a.op \notin {"inputs", "set_volume"} => AvmMore(a) = 0
      /\ a.op = "inputs" => AvmMore(a) = Inputs
      /\ a.op = "set_volume" => AvmMore(a) = 1 - a.m
  BY <1>0, <1>1 DEF AvmMore
<1>5. a.cmd = Command(a.cmd.name, a.cmd.arg)
  BY <1>1 DEF Command
<1>6. CASE a.op = "turn_off"
  <2>1. a.cmd.name = "Z1POW0"
    BY <1>1, <1>6 DEF Command, Avm!CommandFor
  <2>2. PICK z : z = [s EXCEPT !.power = Off]
    OBVIOUS
  <2>3. PICK l : l = Line("Z1POW", 0)
    OBVIOUS
  <2>4. r = React(s, <<l>>) \/ r = Announce(z, <<l>>)
    BY <1>2, <2>1, <2>2, <2>3, SameWords DEF Avm!Reaction, Avm!Changed
  <2>5. Avm!Expected(a) = "Z1POW"
    BY <1>6 DEF Avm!Expected
  <2> QED
    BY <1>3, <1>4, <1>6, <2>3, <2>4, <2>5
<1>7. CASE a.op = "check_is_on"
  <2>1. a.cmd.name = "Z1POW?"
    BY <1>1, <1>7 DEF Command, Avm!CommandFor
  <2>2. PICK l, x : l = Line("Z1POW", x) /\ x = Avm!Bit(s)
    OBVIOUS
  <2>3. r = React(s, <<l>>)
    BY <1>2, <2>1, <2>2, SameWords DEF Avm!Reaction
  <2>4. Avm!Expected(a) = "Z1POW"
    BY <1>7 DEF Avm!Expected
  <2> QED
    BY <1>3, <1>4, <1>7, <2>2, <2>3, <2>4
<1>8. CASE a.op = "change_input"
  <2>1. a.cmd.name = "Z1INP"
    BY <1>1, <1>8 DEF Command, Avm!CommandFor
  <2>2. PICK l, z : l = Line("Z1INP", a.cmd.arg) /\ z = [s EXCEPT !.set = a.cmd.arg]
    OBVIOUS
  <2>3. r = Announce(z, <<l>>)
    BY <1>2, <2>1, <2>2, SameWords, RefusedIs DEF Avm!Reaction
  <2>4. Avm!Expected(a) = "Z1INP"
    BY <1>8 DEF Avm!Expected
  <2> QED
    BY <1>3, <1>4, <1>8, <2>2, <2>3, <2>4
<1>9. CASE a.op = "current_input"
  <2>1. a.cmd.name = "Z1INP?"
    BY <1>1, <1>9 DEF Command, Avm!CommandFor
  <2>2. PICK l, x : l = Line("Z1INP", x) /\ x = s.set
    OBVIOUS
  <2>3. r = React(s, <<l>>)
    BY <1>2, <2>1, <2>2, SameWords DEF Avm!Reaction
  <2>4. Avm!Expected(a) = "Z1INP"
    BY <1>9 DEF Avm!Expected
  <2> QED
    BY <1>3, <1>4, <1>9, <2>2, <2>3, <2>4
<1>10. CASE a.op = "set_cec"
  <2>1. a.cmd.name = "GCCECC" /\ a.cmd.arg = a.arg
    BY <1>1, <1>10 DEF Command, Avm!CommandFor
  <2>2. PICK l, z : l = Line("GCCECC", a.arg) /\ z = [s EXCEPT !.aux = a.arg]
    OBVIOUS
  <2>3. r = React(z, <<l>>)
    BY <1>2, <2>1, <2>2, SameWords DEF Avm!Reaction
  <2>4. Avm!Expected(a) = "GCCECC"
    BY <1>10 DEF Avm!Expected
  <2> QED
    BY <1>3, <1>4, <1>10, <2>2, <2>3, <2>4
<1>11. CASE a.op = "get_volume"
  <2>1. PICK t : t = IF a.m = 0 THEN "Z1VOL" ELSE "Z1PVOL"
    OBVIOUS
  <2>2. a.cmd.name = IF a.m = 0 THEN "Z1VOL?" ELSE "Z1PVOL?"
    BY <1>1, <1>11 DEF Command, Avm!CommandFor
  <2>3. PICK l : l = Line(t, 0)
    OBVIOUS
  <2>4. r = React(s, <<l>>)
    BY <1>2, <2>1, <2>2, <2>3, SameWords DEF Avm!Reaction
  <2>5. Avm!Expected(a) = t
    BY <1>11, <2>1 DEF Avm!Expected
  <2> QED
    BY <1>3, <1>4, <1>11, <2>3, <2>4, <2>5
<1>12. CASE a.op = "volume_up"
  <2>1. a.cmd.name = "Z1VUP"
    BY <1>1, <1>12 DEF Command, Avm!CommandFor
  <2>2. PICK l : l = Line("Z1VOL", 0)
    OBVIOUS
  <2>3. r = Announce(s, <<l>>)
    BY <1>2, <2>1, <2>2, SameWords DEF Avm!Reaction
  <2>4. Avm!Expected(a) = "Z1VOL"
    BY <1>12 DEF Avm!Expected
  <2> QED
    BY <1>3, <1>4, <1>12, <2>2, <2>3, <2>4
<1>13. CASE a.op = "set_volume"
  <2>1. a.cmd.name = "Z1PVOL"
    BY <1>1, <1>13 DEF Command, Avm!CommandFor
  <2>2. PICK l, h : l = Line("Z1PVOL", 0) /\ h = Line("Z1VOL", 0)
    OBVIOUS
  <2>3. PICK ls : ls = <<l, h>>
    OBVIOUS
  <2>4. r = Announce(s, ls)
    BY <1>2, <2>1, <2>2, <2>3, SameWords DEF Avm!Reaction
  <2>5. ~r.close /\ r.reply = ls
    BY <2>4, AvmReplies
  <2>6. Len(ls) = 2 /\ ls[1].tag = "Z1PVOL" /\ ls[2].tag = "Z1VOL"
    <3>1. l.tag = "Z1PVOL" /\ h.tag = "Z1VOL"
      BY <2>2 DEF Line
    <3> QED
      BY <2>3, <3>1
  <2>7. CASE a.m = 0
    <3>1. AvmTag(a, 0) = "Z1PVOL" /\ AvmTag(a, 1) = "Z1VOL"
      <4>1. AvmTag(a, 0) = "Z1PVOL"
        BY <1>13, <2>7, AvmTags DEF Avm!Expected
      <4>2. PICK q : q = [op |-> a.op, m |-> a.m + 1]
        OBVIOUS
      <4>3. q.op = "set_volume" /\ q.m = 1
        BY <1>13, <2>7, <4>2
      <4>4. AvmTag(a, 1) = "Z1VOL"
        BY <4>2, <4>3 DEF AvmTag, Avm!Expected
      <4> QED
        BY <4>1, <4>4
    <3>2. AvmMore(a) = 1
      BY <1>4, <1>13, <2>7
    <3>3. \A j \in 1..Len(ls) : j = 1 \/ j = 2
      BY <2>6
    <3>4. AvmBlock(a, ls, 1)
      BY <1>13, <2>6, <3>1, <3>2, <3>3 DEF AvmBlock
    <3> QED
      BY <1>13, <2>5, <2>6, <3>4
  <2>8. CASE a.m = 1
    <3>1. AvmTag(a, 0) = "Z1VOL"
      BY <1>0, <1>13, <2>8, AvmTags DEF Avm!Expected
    <3>2. AvmMore(a) = 0
      BY <1>4, <1>13, <2>8
    <3>3. \A j \in 1..Len(ls) : j = 1 \/ j = 2
      BY <2>6
    <3>4. AvmBlock(a, ls, 2)
      BY <1>13, <2>6, <3>1, <3>2, <3>3 DEF AvmBlock, Gossip
    <3> QED
      BY <1>13, <2>5, <2>6, <3>4
  <2> QED
    BY <1>1, <1>13, <2>7, <2>8
<1>14. CASE a.op = "inputs"
  <2>1. a.cmd.name = "ICN?" /\ a.m = 0
    BY <1>1, <1>14 DEF Command, Avm!CommandFor
  <2> DEFINE l == Line("ICN", Inputs)
             x == <<l>>
             y == [i \in 1..Inputs |-> Line(Avm!InputTag[i], 0)]
             ls == x \o y
  <2>2. r = React(s, ls)
    BY <1>2, <2>1, SameWords DEF Avm!Reaction
  <2>3. ~r.close /\ r.reply = ls
    <3> HIDE DEF ls
    <3> QED
      BY <2>2, AvmReplies
  <2>4. x \in Seq(Lines) /\ Len(x) = 1 /\ x[1].tag = "ICN"
    <3>1. l \in Lines
      BY <1>0, LinesAre DEF Tags
    <3>2. l.tag = "ICN"
      BY DEF Line
    <3> HIDE DEF l
    <3> QED
      BY <3>1, <3>2
  <2>5. y \in Seq(Lines) /\ Len(y) = Inputs /\ \A i \in 1..Inputs : y[i].tag = Avm!InputTag[i]
    <3>1. \A i \in 1..Inputs : Line(Avm!InputTag[i], 0) \in Lines
      BY LinesAre DEF Tags
    <3>2. y \in Seq(Lines) /\ Len(y) = Inputs
      BY <1>0, <3>1
    <3>3. ASSUME NEW i \in 1..Inputs PROVE y[i].tag = Avm!InputTag[i]
      BY DEF Line
    <3> QED
      BY <3>2, <3>3
  <2> HIDE DEF l, x, y
  <2>6. /\ Len(ls) = 1 + Inputs /\ ls[1].tag = "ICN"
        /\ \A j \in 2..(1 + Inputs) : ls[j].tag = Avm!InputTag[j - 1]
    <3>1. /\ Len(ls) = Len(x) + Len(y)
          /\ \A j \in 1..Len(x) : ls[j] = x[j]
          /\ \A j \in (Len(x) + 1)..(Len(x) + Len(y)) : ls[j] = y[j - Len(x)]
      BY <2>4, <2>5, JoinIs
    <3> HIDE DEF ls
    <3>2. Len(ls) = 1 + Inputs /\ ls[1].tag = "ICN"
      BY <1>0, <2>4, <2>5, <3>1
    <3>3. ASSUME NEW j \in 2..(1 + Inputs) PROVE ls[j].tag = Avm!InputTag[j - 1]
      <4>1. j \in (Len(x) + 1)..(Len(x) + Len(y)) /\ j - Len(x) = j - 1 /\ j - 1 \in 1..Inputs
        BY <1>0, <2>4, <2>5
      <4>2. ls[j] = y[j - 1]
        BY <3>1, <4>1
      <4> QED
        BY <2>5, <4>1, <4>2
    <3> QED
      BY <3>2, <3>3
  <2> HIDE DEF ls
  <2>7. ASSUME NEW j \in 0..Inputs
        PROVE  AvmTag(a, j) = IF j = 0 THEN "ICN" ELSE Avm!InputTag[j]
    <3>1. PICK q : q = [op |-> a.op, m |-> a.m + j]
      OBVIOUS
    <3>2. q.op = "inputs" /\ q.m = j
      BY <1>14, <2>1, <3>1
    <3> QED
      BY <3>1, <3>2 DEF AvmTag, Avm!Expected
  <2>8. AvmMore(a) = Inputs
    BY <1>4, <1>14
  <2>9. ASSUME NEW j \in 1..Len(ls)
        PROVE  ls[j].tag = AvmTag(a, j - 1) /\ j \in 1..(1 + Inputs)
    <3>1. j \in 1..(1 + Inputs) /\ j - 1 \in 0..Inputs /\ (j - 1 = 0 <=> j = 1)
          /\ (j # 1 => j \in 2..(1 + Inputs))
      BY <1>0, <2>6
    <3>2. AvmTag(a, j - 1) = IF j - 1 = 0 THEN "ICN" ELSE Avm!InputTag[j - 1]
      BY <2>7, <3>1
    <3> QED
      BY <2>6, <3>1, <3>2
  <2>10. AvmBlock(a, ls, 1) /\ 1 \in 1..Len(ls)
    BY <1>0, <2>1, <2>6, <2>8, <2>9 DEF AvmBlock
  <2> QED
    BY <1>14, <2>3, <2>10
<1> QED
  BY <1>1, <1>6, <1>7, <1>8, <1>9, <1>10, <1>11, <1>12, <1>13, <1>14 DEF Avm!CommandFor

\* What comes is what a call of the receiver expects,
LEMMA AvmOwnWell ==
  ASSUME driver = "avm70", driver \in DriverNames, NEW a, NEW S, NEW T, Good(a, S, T), a.pc = "read",
         NEW w, w.lines \in Seq(Lines), w.cmd # None, NEW s \in States, Ready(a, w), AvmStands(a, w),
         NEW r \in Avm!Does(a.cmd, s), r.heeded, r.reply \in Seq(Lines),
         NEW v, v.cmd = None, v.up = IF r.close THEN "cut" ELSE "open", v.lines = w.lines \o r.reply
  PROVE  AvmDue(a, v) /\ AvmStands(a, v)
<1>1. /\ ~r.close /\ \E i \in 1..Len(r.reply) : AvmBlock(a, r.reply, i)
      /\ a.op = "set_cec" => r.reply[1].val = a.arg /\ Len(r.reply) = 1
  BY AvmOwnBlock
<1>2. PICK i \in 1..Len(r.reply) : AvmBlock(a, r.reply, i)
  BY <1>1
<1>3. \A j \in 1..Len(w.lines) : w.lines[j].tag \in Gossip
  BY DEF Ready
<1>4. AvmMore(a) \in Nat /\ ~(a.op = "inputs" /\ a.m > 0)
  <2>1. Shape(a) /\ AvmKnows(a, S) /\ Inputs \in Nat
    BY LimitsAssumption DEF Good, Knows
  <2> QED
    BY <2>1 DEF Shape, AvmKnows, AvmMore, AvmStands
<1>5. AvmBlock(a, v.lines, Len(w.lines) + i) /\ Len(w.lines) + i \in 1..Len(v.lines)
  BY <1>2, <1>3, <1>4, AvmBefore
<1>6. ASSUME a.op = "set_cec", NEW j \in 1..Len(v.lines), v.lines[j].tag = "GCCECC"
      PROVE  v.lines[j].val = a.arg
  <2> DEFINE N == Len(w.lines)
  <2>1. /\ Len(v.lines) = N + 1 /\ N \in Nat
        /\ \A x \in 1..N : v.lines[x] = w.lines[x]
        /\ v.lines[N + 1] = r.reply[1]
    <3>1. Len(r.reply) = 1
      BY <1>1, <1>6
    <3>2. /\ Len(v.lines) = N + Len(r.reply) /\ N \in Nat
          /\ \A x \in 1..N : v.lines[x] = w.lines[x]
          /\ \A x \in (N + 1)..(N + Len(r.reply)) : v.lines[x] = r.reply[x - N]
      <4>1. PICK ls, more : ls = w.lines /\ more = r.reply
        OBVIOUS
      <4>2. ls \in Seq(Lines) /\ more \in Seq(Lines) /\ v.lines = ls \o more
        BY <4>1
      <4>3. /\ Len(v.lines) = Len(ls) + Len(more) /\ Len(ls) \in Nat
            /\ \A x \in 1..Len(ls) : v.lines[x] = ls[x]
            /\ \A x \in (Len(ls) + 1)..(Len(ls) + Len(more)) : v.lines[x] = more[x - Len(ls)]
        BY <4>2, JoinIs
      <4> QED
        BY <4>1, <4>3
    <3> HIDE DEF N
    <3>3. N + 1 \in (N + 1)..(N + Len(r.reply)) /\ (N + 1) - N = 1
      BY <3>1, <3>2
    <3> QED
      BY <3>1, <3>2, <3>3
  <2>2. "GCCECC" \notin Gossip
    BY DEF Gossip
  <2>3. \A x \in 1..N : w.lines[x].tag \in Gossip
    BY <1>3
  <2> HIDE DEF N
  <2>4. ~(j \in 1..N)
    BY <1>6, <2>1, <2>2, <2>3
  <2>5. j = N + 1
    BY <1>6, <2>1, <2>4
  <2> QED
    BY <1>1, <1>6, <2>1, <2>5
<1>7. AvmDue(a, v)
  BY <1>1, <1>5, <1>6 DEF AvmDue
<1> QED
  BY <1>7 DEF AvmStands

\* of the Kaleidescape,
LEMMA KscpOwnWell ==
  ASSUME driver = "kscp", driver \in DriverNames, NEW a, NEW S, NEW T, Good(a, S, T), a.pc = "read",
         NEW w, w.cmd # None, NEW s \in States, KscpStands(a, w, s), KscpHears(a, w),
         NEW r \in Kscp!Does(a.cmd, s), r.heeded,
         NEW v, v.cmd = None, v.up = IF r.close THEN "cut" ELSE "open", v.lines = r.reply
  PROVE  KscpDue(a, v) /\ KscpStands(a, v, r.state)
<1>0. s = [power |-> s.power, set |-> s.set, aux |-> s.aux]
  BY StatesAre
<1>1. /\ ~r.close /\ r.reply # <<>> /\ r.reply[1].tag # "standby"
      /\ a.cmd.name = "SHOW_CONTROLLER_DETAILS" => r.state.set = a.cmd.arg /\ r.state.aux = 1
      /\ a.cmd.name \in {"GET_UI_STATE", "GET_HIGHLIGHTED_SELECTION", "PLAY"} => r.state = s
      /\ a.cmd.name = "GET_UI_STATE" => r.reply[1].val = s.aux
      /\ a.cmd.name = "GET_HIGHLIGHTED_SELECTION" => r.reply[1].val = s.set
      /\ a.cmd.name = "GET_DEVICE_POWER_STATE" => r.reply[1].tag = "power"
      /\ a.cmd.name = "GET_MOVIES" => r.reply[1].tag = "movies"
  BY <1>0, KscpOwn
<1>2. KscpKnows(a, S)
  BY DEF Good, Knows
<1>3. a.cmd.name = "GET_CONTENT_DETAILS" => ~(a.m > 0)
  BY DEF KscpHears
<1>4. ASSUME a.op = "play_movie"
      PROVE  /\ a.cmd.name \in {"SHOW_CONTROLLER_DETAILS", "GET_UI_STATE",
                                "GET_HIGHLIGHTED_SELECTION", "PLAY"}
             /\ a.cmd.name = "SHOW_CONTROLLER_DETAILS" => a.cmd.arg = a.arg
             /\ a.cmd.name # "SHOW_CONTROLLER_DETAILS" => s.set = a.arg /\ s.aux = 1
  BY <1>2, <1>4 DEF KscpKnows, Command, KscpStands
<1>5. a.op = "check_is_on" => a.cmd.name = "GET_DEVICE_POWER_STATE"
  BY <1>2 DEF KscpKnows, Command, Kscp!CommandFor
<1>6. KscpDue(a, v)
  BY <1>1, <1>3, <1>4, <1>5 DEF KscpDue
<1>7. KscpStands(a, v, r.state)
  BY <1>1, <1>4 DEF KscpStands
<1> QED
  BY <1>6, <1>7

\* of the Envy,
LEMMA EnvyOwnWell ==
  ASSUME driver = "envy", NEW a, NEW S, NEW T, Good(a, S, T), a.pc = "read",
         NEW w, w.cmd # None, NEW s, EnvyStands(a, w), NEW r \in Mvr!Does(a.cmd, s), r.heeded,
         NEW v, v.cmd = None, v.up = IF r.close THEN "cut" ELSE "open", v.lines = r.reply
  PROVE  EnvyDue(a, v) /\ EnvyStands(a, v)
<1>1. /\ a.op \in DOMAIN Mvr!CommandFor /\ a.cmd.name = Mvr!CommandFor[a.op]
      /\ a.m = 1
  <2>1. a.op \in DOMAIN Mvr!CommandFor /\ a.cmd = Command(Mvr!CommandFor[a.op], a.arg)
    BY EnvyIs
  <2>2. a.cmd.name = Mvr!CommandFor[a.op]
    BY <2>1 DEF Command
  <2>3. a.m = 1
    BY DEF EnvyStands
  <2> QED
    BY <2>1, <2>2, <2>3
<1>2. a.cmd.name \in {Mvr!CommandFor[op] : op \in DOMAIN Mvr!CommandFor}
  BY <1>1
<1>3. IF a.cmd.name \in {"PowerOff", "Standby"}
      THEN r.close /\ \A i \in 1..Len(r.reply) : r.reply[i].tag = "OK"
      ELSE /\ ~r.close /\ r.reply # <<>> /\ r.reply[1].tag = "OK"
           /\ a.cmd.name = "GetAspectRatio" => Len(r.reply) = 2 /\ r.reply[2].tag = "ratio"
  BY <1>2, EnvyOwn
<1>4. /\ a.op \in {"turn_off", "standby"} => a.cmd.name \in {"PowerOff", "Standby"}
      /\ a.op \in {"check_is_on", "custom_zoom"}
           => a.cmd.name \notin {"PowerOff", "Standby", "GetAspectRatio"}
      /\ a.op \notin {"turn_off", "standby", "check_is_on", "custom_zoom"}
           => a.cmd.name = "GetAspectRatio"
  BY <1>1 DEF Mvr!CommandFor
<1>5. EnvyDue(a, v)
  BY <1>1, <1>3, <1>4 DEF EnvyDue
<1> QED
  BY <1>1, <1>5 DEF EnvyStands

\* of the StrZa5000,
LEMMA StrOwnWell ==
  ASSUME driver = "za5000", driver \in DriverNames, NEW a, NEW S, NEW T, Good(a, S, T), a.pc = "read",
         NEW w, w.cmd # None, NEW s \in States, StrStands(a, w, s),
         NEW r \in Str!Does(a.cmd, s), r.heeded,
         NEW v, v.cmd = None, v.up = IF r.close THEN "cut" ELSE "open", v.lines = r.reply
  PROVE  StrDue(a, v) /\ StrStands(a, v, r.state)
<1>1. /\ ~r.close /\ r.reply # <<>> /\ r.reply[1].tag # "empty"
      /\ r.state.set = IF a.cmd.name = "set_input" /\ a.cmd.arg # 0 THEN a.cmd.arg ELSE s.set
      /\ a.cmd.name = "input?" => \/ r.reply[1].tag = "other"
                                  \/ r.reply[1].tag = "input" /\ r.reply[1].val = s.set
      /\ a.cmd.name = "mute?" => r.reply[1].tag \in {"mute", "other"}
  BY StatesAre, StrOwn
<1>2. a.cmd.name = "set_input" => a.cmd.arg = a.arg
  BY DEF Good, Knows, StrKnows, Command
<1>3. StrDue(a, v)
  BY <1>1 DEF StrDue, StrStands
<1>4. StrStands(a, v, r.state)
  BY <1>1, <1>2 DEF StrStands
<1> QED
  BY <1>3, <1>4

\* of all of them.
LEMMA OwnWell ==
  ASSUME driver \in DriverNames, NEW c, NEW a, NEW S, NEW T, Good(a, S, T), a.pc = "read",
         NEW w, w.lines \in Seq(Lines), w.cmd = a.cmd, a.cmd # None, Known(a.cmd),
         Hears(c, a, S, T, w), NEW s \in States, Fair(a, w, s),
         NEW r \in Does(a.cmd, s), r.heeded, r.reply \in Seq(Lines),
         NEW v, v.cmd = None, v.up = IF r.close THEN "cut" ELSE "open", v.lines = w.lines \o r.reply
  PROVE  Fair(a, v, r.state)
<1>1. Ready(a, w) /\ Stands(a, w, s)
  BY DEF Fair
<1>2. ASSUME Due(a, v), Stands(a, v, r.state) PROVE Fair(a, v, r.state)
  BY <1>2 DEF Fair
<1>3. CASE driver = "avm70"
  <2>1. AvmStands(a, w) /\ r \in Avm!Does(a.cmd, s)
    BY <1>1, <1>3 DEF Stands, Does
  <2>2. AvmDue(a, v) /\ AvmStands(a, v)
    BY <1>1, <1>3, <2>1, AvmOwnWell
  <2> QED
    BY <1>2, <1>3, <2>2 DEF Due, Stands
<1>4. ASSUME driver # "avm70" PROVE v.lines = r.reply
  <2>1. w.lines = <<>>
    BY <1>1, <1>4 DEF Ready
  <2> QED
    BY <2>1, JoinIs
<1>5. CASE driver = "kscp"
  <2>1. KscpStands(a, w, s) /\ r \in Kscp!Does(a.cmd, s) /\ KscpHears(a, w)
    BY <1>1, <1>5 DEF Stands, Does, Hears
  <2>2. KscpDue(a, v) /\ KscpStands(a, v, r.state)
    BY <1>4, <1>5, <2>1, KscpOwnWell
  <2> QED
    BY <1>2, <1>5, <2>2 DEF Due, Stands
<1>6. CASE driver = "envy"
  <2>1. EnvyStands(a, w) /\ r \in Mvr!Does(a.cmd, s)
    BY <1>1, <1>6 DEF Stands, Does
  <2>2. EnvyDue(a, v) /\ EnvyStands(a, v)
    BY <1>4, <1>6, <2>1, EnvyOwnWell
  <2> QED
    BY <1>2, <1>6, <2>2 DEF Due, Stands
<1>7. CASE driver = "za5000"
  <2>1. StrStands(a, w, s) /\ r \in Str!Does(a.cmd, s)
    BY <1>1, <1>7 DEF Stands, Does
  <2>2. StrDue(a, v) /\ StrStands(a, v, r.state)
    BY <1>4, <1>7, <2>1, StrOwnWell
  <2> QED
    BY <1>2, <1>7, <2>2 DEF Due, Stands
<1>8. CASE driver = "udp203"
  <2>1. ~r.close /\ r.reply # <<>> /\ r.reply[1].tag \in {"@OK", "full"}
    BY <1>8, OppoOwn DEF Does
  <2>2. OppoDue(a, v)
    BY <1>4, <1>8, <2>1 DEF OppoDue
  <2> QED
    BY <1>2, <1>8, <2>2 DEF Due, Stands
<1>9. CASE driver = "appletv"
  <2>1. ~r.close /\ r.reply # <<>> /\ r.reply[1].tag # "refused"
    BY <1>9, AtvOwn DEF Does
  <2>2. AtvDue(a, v)
    BY <1>4, <1>9, <2>1 DEF AtvDue
  <2> QED
    BY <1>2, <1>9, <2>2 DEF Due, Stands
<1>10. CASE driver = "pj_talk"
  <2>1. ~r.close /\ r.reply # <<>> /\ r.reply[1].tag \in {"ok", "bare"}
    BY <1>10, PjOwn DEF Does
  <2>2. PjDue(a, v)
    BY <1>4, <1>10, <2>1 DEF PjDue
  <2> QED
    BY <1>2, <1>10, <2>2 DEF Due, Stands
<1> QED
  BY <1>3, <1>5, <1>6, <1>7, <1>8, <1>9, <1>10, IsDriver

-----------------------------------------------------------------------------
(* What others notice of it.                                               *)

\* A reaction that only the caller notices.
Quiet(r) == r.tell = <<>> /\ r.close = FALSE

\* Devices that tell others nothing,
LEMMA QuietWords ==
  \A x, y : /\ Quiet(React(x, y)) /\ Quiet(Refuse(x, y))
            /\ Quiet(Atv!React(x, y)) /\ Quiet(Atv!Refuse(x, y))
            /\ Quiet(Kscp!React(x, y)) /\ Quiet(Kscp!Refuse(x, y))
            /\ Quiet(Oppo!React(x, y)) /\ Quiet(Oppo!Refuse(x, y))
            /\ Quiet(Pj!React(x, y)) /\ Quiet(Pj!Refuse(x, y))
            /\ Quiet(Str!React(x, y)) /\ Quiet(Str!Refuse(x, y))
            /\ Quiet(Avm!React(x, y)) /\ Quiet(Avm!Refuse(x, y))
            /\ Quiet(Mvr!React(x, y)) /\ Quiet(Mvr!Refuse(x, y))
<1>1. ASSUME NEW x, NEW y PROVE Quiet(React(x, y)) /\ Quiet(Refuse(x, y))
  <2>1. /\ Is(React(x, y), x, y, <<>>, FALSE, TRUE)
        /\ Is(Refuse(x, y), x, y, <<>>, FALSE, FALSE)
    BY ReactIs
  <2>2. \A r, h : Is(r, x, y, <<>>, FALSE, h) => Quiet(r)
    BY DEF Is, Quiet
  <2> QED
    BY <2>1, <2>2
<1>2. \A x, y : Mvr!React(x, y) = React(x, y) /\ Mvr!Refuse(x, y) = Refuse(x, y)
  BY EnvyWords
<1>3. ASSUME NEW x, NEW y
      PROVE  /\ Quiet(Atv!React(x, y)) /\ Quiet(Atv!Refuse(x, y))
             /\ Quiet(Kscp!React(x, y)) /\ Quiet(Kscp!Refuse(x, y))
             /\ Quiet(Oppo!React(x, y)) /\ Quiet(Oppo!Refuse(x, y))
             /\ Quiet(Pj!React(x, y)) /\ Quiet(Pj!Refuse(x, y))
             /\ Quiet(Str!React(x, y)) /\ Quiet(Str!Refuse(x, y))
             /\ Quiet(Avm!React(x, y)) /\ Quiet(Avm!Refuse(x, y))
  BY <1>1, SameWords
<1> QED
  BY <1>1, <1>2, <1>3

\* whatever they are sent.
LEMMA QuietDoes ==
  ASSUME driver \in DriverNames, driver \notin {"avm70", "envy"},
         NEW cmd, Known(cmd), NEW s, NEW r \in Does(cmd, s)
  PROVE  Quiet(r)
<1>1. CASE driver = "appletv"
  <2>1. r \in Atv!Does(cmd, s) /\ cmd.name \in {Atv!CommandFor[op] : op \in DOMAIN Atv!CommandFor}
    BY <1>1 DEF Does, Known
  <2>2. cmd.name \in {"turn_on", "turn_off", "power_state", "next"}
    BY <2>1 DEF Atv!CommandFor
  <2> QED
    BY <2>1, <2>2, QuietWords DEF Atv!Does
<1>2. CASE driver = "kscp"
  <2>1. r \in Kscp!Does(cmd, s)
    BY <1>2 DEF Does
  <2>2. r \in Kscp!Replies(cmd, s) \/ Quiet(r)
    BY <2>1, QuietWords DEF Kscp!Does
  <2> QED
    BY <2>2, QuietWords DEF Kscp!Replies
<1>3. CASE driver = "udp203"
  <2>1. r \in Oppo!Does(cmd, s)
    BY <1>3 DEF Does
  <2>2. PICK q, ls : q = Oppo!Response(cmd, s) /\ ls = <<Line("full", 0)>>
    OBVIOUS
  <2>3. r = q \/ r = [q EXCEPT !.reply = ls]
    BY <2>1, <2>2, SameWords DEF Oppo!Does
  <2>4. PICK z, more : q = React(z, more) \/ q = Refuse(z, more)
    BY <1>3, <2>2, OppoResponse
  <2>5. CASE r = [q EXCEPT !.reply = ls]
    <3>1. Is(r, z, ls, <<>>, FALSE, q.heeded)
      BY <2>4, <2>5, OtherReply
    <3> QED
      BY <3>1 DEF Is, Quiet
  <2> QED
    BY <2>3, <2>4, <2>5, QuietWords
<1>4. CASE driver = "pj_talk"
  <2>1. r \in Pj!Does(cmd, s)
    BY <1>4 DEF Does
  <2> QED
    BY <2>1, QuietWords DEF Pj!Does
<1>5. CASE driver = "za5000"
  <2>1. r \in Str!Does(cmd, s)
    BY <1>5 DEF Does
  <2> QED
    BY <2>1, QuietWords DEF Str!Does
<1> QED
  BY <1>1, <1>2, <1>3, <1>4, <1>5, IsDriver

\* Who sees a device stay as it is, is left alone by it: the receiver gossips
\* only, and an Envy that is off has hung up before.
Calm(r, s) ==
  /\ IF driver = "avm70" THEN \A i \in 1..Len(r.tell) : r.tell[i].tag \in Gossip
     ELSE driver # "envy" \/ r.state = s => r.tell = <<>>
  /\ r.close => driver = "envy" /\ (r.state = s => s.power # On)
  /\ driver = "envy" => r.close \/ r.state.power = On \/ s.power # On

\* Devices that tell others nothing leave them alone.
LEMMA QuietCalm ==
  ASSUME NEW r, Quiet(r), NEW s, driver = "envy" => r.state = s \/ r.state.power = On
  PROVE  Calm(r, s)
<1>1. Len(r.tell) = 0 /\ ~r.close /\ r.tell = <<>>
  BY DEF Quiet
<1> QED
  BY <1>1 DEF Calm

\* So does a receiver that gossips,
LEMMA GossipCalm ==
  ASSUME driver = "avm70", NEW r, NEW z, NEW ls, r = Announce(z, ls), NEW s,
         \A i \in 1..Len(ls) : ls[i].tag \in Gossip
  PROVE  Calm(r, s)
<1>1. Is(r, z, ls, ls, FALSE, TRUE)
  BY ReactIs
<1>2. r.tell = ls /\ r.close = FALSE
  BY <1>1 DEF Is
<1> QED
  BY <1>2 DEF Calm

\* about one thing,
LEMMA OneGossip ==
  ASSUME driver = "avm70", NEW r, NEW z, NEW t \in Gossip, NEW x,
         r = Announce(z, <<Line(t, x)>>), NEW s
  PROVE  Calm(r, s)
<1>1. PICK l : l = Line(t, x)
  OBVIOUS
<1>2. PICK ls : ls = <<l>>
  OBVIOUS
<1>3. l.tag = t
  BY <1>1 DEF Line
<1>4. \A i \in 1..Len(ls) : ls[i] = l
  BY <1>2
<1>5. r = Announce(z, ls)
  BY <1>1, <1>2
<1> QED
  BY <1>3, <1>4, <1>5, GossipCalm

\* which is all it does,
LEMMA AvmCalm ==
  ASSUME driver = "avm70", driver \in DriverNames, NEW cmd, Known(cmd), NEW s, NEW r \in Avm!Does(cmd, s)
  PROVE  Calm(r, s)
<1> USE DEF Gossip
<1>0. ASSUME Quiet(r) PROVE Calm(r, s)
  BY <1>0, QuietCalm
<1>1. r = Avm!Reaction(cmd, s) \/ Quiet(r)
  BY QuietWords DEF Avm!Does
<1>2. ASSUME NEW z, NEW t \in Gossip, NEW x, r = Avm!Announce(z, <<Avm!Line(t, x)>>)
      PROVE  Calm(r, s)
  BY <1>2, SameWords, OneGossip
<1>3. ASSUME NEW z, NEW n, r = Avm!Changed(s, z, <<Avm!Line("Z1POW", n)>>)
      PROVE  Calm(r, s)
  <2>1. Quiet(r) \/ r = Avm!Announce(z, <<Avm!Line("Z1POW", n)>>)
    BY <1>3, QuietWords DEF Avm!Changed
  <2> QED
    BY <1>0, <1>2, <2>1
<1>4. CASE r = Avm!Reaction(cmd, s)
  <2>0. cmd.name \in {Avm!CommandFor[op] : op \in DOMAIN Avm!CommandFor} \cup {"Z1PVOL?"}
    BY DEF Known
  <2>1. CASE cmd.name = "Z1POW1"
    <3>1. PICK z : z = [s EXCEPT !.power = On]
      OBVIOUS
    <3>2. r = Avm!Changed(s, z, <<Avm!Line("Z1POW", 1)>>)
      BY <1>4, <2>1, <3>1 DEF Avm!Reaction
    <3> QED
      BY <1>3, <3>2
  <2>2. CASE cmd.name = "Z1POW0"
    <3>1. PICK z : z = [s EXCEPT !.power = Off]
      OBVIOUS
    <3>2. r = Avm!Changed(s, z, <<Avm!Line("Z1POW", 0)>>)
      BY <1>4, <2>2, <3>1 DEF Avm!Reaction
    <3> QED
      BY <1>3, <3>2
  <2>3. CASE cmd.name = "Z1INP"
    <3>1. PICK z : z = [s EXCEPT !.set = cmd.arg]
      OBVIOUS
    <3>2. Quiet(r) \/ r = Avm!Announce(z, <<Avm!Line("Z1INP", cmd.arg)>>)
      BY <1>4, <2>3, <3>1, QuietWords DEF Avm!Reaction
    <3> QED
      BY <1>0, <1>2, <3>2
  <2>4. CASE cmd.name = "Z1PVOL"
    <3>1. PICK l, m : l = Line("Z1PVOL", 0) /\ m = Line("Z1VOL", 0)
      OBVIOUS
    <3>2. PICK ls : ls = <<l, m>>
      OBVIOUS
    <3>3. r = Announce(s, ls)
      BY <1>4, <2>4, <3>1, <3>2, SameWords DEF Avm!Reaction
    <3>4. l.tag = "Z1PVOL" /\ m.tag = "Z1VOL"
      BY <3>1 DEF Line
    <3>5. \A i \in 1..Len(ls) : ls[i] = l \/ ls[i] = m
      <4>1. Len(ls) = 2 /\ ls[1] = l /\ ls[2] = m
        BY <3>2
      <4>2. \A i \in 1..2 : i = 1 \/ i = 2
        OBVIOUS
      <4> QED
        BY <4>1, <4>2
    <3>6. \A i \in 1..Len(ls) : ls[i].tag \in Gossip
      BY <3>4, <3>5
    <3> QED
      BY <3>3, <3>6, GossipCalm
  <2>5. CASE cmd.name = "Z1VUP"
    <3>1. r = Avm!Announce(s, <<Avm!Line("Z1VOL", 0)>>)
      BY <1>4, <2>5 DEF Avm!Reaction
    <3> QED
      BY <1>2, <3>1
  <2>6. CASE cmd.name \in {"Z1POW?", "Z1INP?", "GCCECC", "Z1PVOL?", "Z1VOL?", "ICN?"}
    <3>1. Quiet(r)
      BY <1>4, <2>6, QuietWords DEF Avm!Reaction
    <3> QED
      BY <1>0, <3>1
  <2> QED
    BY <2>0, <2>1, <2>2, <2>3, <2>4, <2>5, <2>6 DEF Avm!CommandFor
<1> QED
  BY <1>0, <1>1, <1>4

\* An Envy that hangs up is off, or was not.
LEMMA HangUpCalm ==
  ASSUME driver = "envy", NEW r, NEW z, NEW ls, r = HangUp(z, ls), NEW s,
         z = s => s.power # On
  PROVE  Calm(r, s)
<1>1. r.close = TRUE /\ r.tell = <<>> /\ r.state = z
  <2>1. Is(r, z, ls, <<>>, TRUE, TRUE)
    BY ReactIs
  <2> QED
    BY <2>1 DEF Is
<1> QED
  BY <1>1 DEF Calm

\* The Envy,
LEMMA EnvyCalm ==
  ASSUME driver = "envy", NEW cmd, NEW s, s = [power |-> s.power, set |-> s.set, aux |-> s.aux],
         NEW r \in Mvr!Does(cmd, s)
  PROVE  Calm(r, s)
<1>1. CASE cmd.name = "WAKE"
  <2>1. PICK z : z = [s EXCEPT !.power = On]
    OBVIOUS
  <2>2. PICK ls : ls = <<>>
    OBVIOUS
  <2>3. r = React(z, ls)
    BY <1>1, <2>1, <2>2, EnvyWords DEF Mvr!Does
  <2>4. z = [power |-> On, set |-> s.set, aux |-> s.aux]
    BY <2>1
  <2>5. z.power = On
    BY <2>4
  <2>6. Is(r, z, ls, <<>>, FALSE, TRUE)
    BY <2>3, ReactIs
  <2>7. r.state = z /\ Quiet(r)
    BY <2>6 DEF Is, Quiet
  <2> QED
    BY <2>5, <2>7, QuietCalm
<1>2. CASE cmd.name \in {"PowerOff", "Standby"}
  <2>1. PICK z : z = [s EXCEPT !.power = Off]
    OBVIOUS
  <2>2. PICK ls \in {<<>>, <<Line("OK", 0)>>} : r = HangUp(z, ls)
    BY <1>2, <2>1, EnvyWords DEF Mvr!Does
  <2>3. z = [power |-> Off, set |-> s.set, aux |-> s.aux]
    BY <2>1
  <2>4. z = s => s.power # On
    BY <2>3, AnswersAssumption
  <2> QED
    BY <2>2, <2>4, HangUpCalm
<1>3. CASE cmd.name \notin {"WAKE", "PowerOff", "Standby"}
  <2>1. PICK ls : r = React(s, ls) \/ r = Refuse(s, ls)
    <3>1. CASE cmd.name = "GetAspectRatio"
      <4>1. r = React(s, <<Line("OK", 0), Line("ratio", s.set)>>)
        BY <3>1, EnvyWords DEF Mvr!Does
      <4> QED
        BY <4>1
    <3>2. CASE cmd.name # "GetAspectRatio"
      <4>1. r = React(s, <<Line("OK", 0)>>) \/ r = Refuse(s, <<Line("ERROR", 0)>>)
        BY <1>3, <3>2, EnvyWords DEF Mvr!Does
      <4> QED
        BY <4>1
    <3> QED
      BY <3>1, <3>2
  <2>2. Is(r, s, ls, <<>>, FALSE, TRUE) \/ Is(r, s, ls, <<>>, FALSE, FALSE)
    BY <2>1, ReactIs
  <2>3. r.state = s /\ Quiet(r)
    BY <2>2 DEF Is, Quiet
  <2> QED
    BY <2>3, QuietCalm
<1> QED
  BY <1>1, <1>2, <1>3

\* and whatever else is sent a command,
LEMMA DoesCalm ==
  ASSUME driver \in DriverNames, NEW cmd, Known(cmd), NEW s \in States, NEW r \in Does(cmd, s)
  PROVE  Calm(r, s)
<1>1. CASE driver = "avm70"
  <2>1. r \in Avm!Does(cmd, s)
    BY <1>1 DEF Does
  <2> QED
    BY <1>1, <2>1, AvmCalm
<1>2. CASE driver = "envy"
  <2>1. r \in Mvr!Does(cmd, s)
    BY <1>2 DEF Does
  <2>2. s = [power |-> s.power, set |-> s.set, aux |-> s.aux]
    BY StatesAre
  <2> QED
    BY <1>2, <2>1, <2>2, EnvyCalm
<1>3. CASE driver \notin {"avm70", "envy"}
  BY <1>3, QuietDoes, QuietCalm
<1> QED
  BY <1>1, <1>2, <1>3

\* An Envy that is operated hangs up when it is switched off.
LEMMA TouchedCalm ==
  ASSUME driver = "envy", driver \in DriverNames, NEW s \in States, NEW r \in Touched(s),
         r.state # s, r.state.power # On
  PROVE  r.close \/ s.power # On
<1> DEFINE moved == {[s EXCEPT !.set = v] : v \in Settings[driver] \ {s.set}}
<1>1. PICK f : f = [s EXCEPT !.power = PowerOf(1 - Bit(s))]
  OBVIOUS
<1>2. r = HangUp(f, <<>>) \/ \E t \in moved : r = Announce(t, <<Line("ratio", t.set)>>)
  BY <1>1 DEF Touched, moved
<1>3. ASSUME NEW t \in moved PROVE t.power = s.power
  <2>1. PICK v : t = [s EXCEPT !.set = v]
    BY <1>3
  <2>2. t = [power |-> s.power, set |-> v, aux |-> s.aux]
    BY <2>1, StatesAre
  <2> QED
    BY <2>2
<1> HIDE DEF moved
<1>4. CASE r = HangUp(f, <<>>)
  <2>1. Is(r, f, <<>>, <<>>, TRUE, TRUE)
    BY <1>4, ReactIs
  <2> QED
    BY <2>1 DEF Is
<1>5. ASSUME NEW t \in moved, r = Announce(t, <<Line("ratio", t.set)>>)
      PROVE  s.power # On
  <2>1. PICK ls : ls = <<Line("ratio", t.set)>>
    OBVIOUS
  <2>2. Is(r, t, ls, ls, FALSE, TRUE)
    BY <1>5, <2>1, ReactIs
  <2>3. r.state = t
    BY <2>2 DEF Is
  <2> QED
    BY <1>3, <2>3
<1> QED
  BY <1>2, <1>4, <1>5

=============================================================================

---------------------------- MODULE LutronProofs ----------------------------
(***************************************************************************)
(* Proofs about Lutron and LutronHistory, for any outputs, calls, lines at *)
(* the wall and sessions that break at any time.                           *)
(*                                                                         *)
(* What a session has gone through is read off what is under way in it: a  *)
(* prompt that the driver has not read yet is the first one, or the one    *)
(* that follows its command.                                               *)
(***************************************************************************)
EXTENDS LutronHistory, FiniteSetTheorems, SequenceTheorems, TLAPS

Links == [srv : SrvPcs, up : Seq(Line), down : Seq(Line)]
Calls == [req : Asked \cup {None}, lines : 0..2, got : Nat \cup {None}]

\* No part of a prompt; nothing of a prompt after the end of one.
Prompting    == {"blank", "GNET>"}
NoPrompt(q)  == \A i \in DOMAIN q : q[i].kind \notin Prompting
OnePrompt(q) == \A i, j \in DOMAIN q : q[i].kind = "GNET>" /\ q[j].kind \in Prompting => j <= i
Plain(q)     == \A i \in DOMAIN q : Output(q[i]) \/ q[i].kind \in Prompting

Sides(s) ==
  IF s = Monitor THEN {"idle", "sleep", "connect", "login", "listen", "send"}
  ELSE {"idle", "login", "reply", "ok", "err"}

\* A call writes its command at most once, as the last line of its session.
Written(s) ==
  \A i \in DOMAIN link[s].up :
    link[s].up[i].kind \in {"set", "get"} =>
      /\ s # Monitor /\ i = Len(link[s].up)
      /\ link[s].up[i].light \in Lights
      /\ link[s].up[i].kind = "set" => link[s].up[i].val \in Levels

\* The driver and the repeater go through the login step by step.
LoginStands(k) ==
  \/ k.srv = "login"    /\ k.up = <<>>              /\ k.down = <<Prompt("login:")>>
  \/ k.srv = "login"    /\ k.up = <<Prompt("uid")>> /\ k.down = <<>>
  \/ k.srv = "password" /\ k.up = <<>>              /\ k.down = <<Prompt("password:")>>
  \/ k.srv = "password" /\ k.up = <<Prompt("upw")>> /\ k.down = <<>>
  \/ k.srv = "greeting" /\ k.up = <<>> /\ Plain(k.down) /\ NoPrompt(k.down)
  \/ k.srv = "ready"    /\ k.up = <<>> /\ Plain(k.down) /\ OnePrompt(k.down)
  \/ k.srv = "closed"   /\ k.up = <<>> /\ OnePrompt(k.down)

Session(s) ==
  /\ side[s] \in Sides(s)
  /\ Written(s)
  /\ side[s] = "login" => LoginStands(link[s])
  /\ side[s] \in {"login", "reply", "ok"} /\ s # Monitor => call[s].req \in Asked

\* A command that was taken for a name or password gets no prompt any more.
Stuck(k) == k.srv \in {"login", "password", "closed"} /\ k.up = <<>> /\ NoPrompt(k.down)

\* A call that reads a prompt reads the one after its command, unless its
\* login was silent.
Replied(c) ==
  /\ c \in misread => Stuck(link[c])
  /\ link[c].srv \in {"login", "password", "greeting"} => NoPrompt(link[c].down)
  /\ c \notin silent =>
       /\ c \notin misread /\ link[c].srv \in {"ready", "closed"}
       /\ c \notin taken => NoPrompt(link[c].down)

Heard(c) ==
  /\ side[c] \in {"idle", "login"} => c \notin misread
  /\ side[c] = "idle" => link[c] = Closed
  /\ side[c] = "reply" => Replied(c)
  /\ side[c] = "ok" => /\ c \notin misread /\ c \in taken \cup silent
                       /\ link[c].srv \in {"ready", "closed"}

\* What a call may read as the level of its output was one, or stands in a
\* line of another action.
Heeded(c) == seen[c] \cup strange[c]
Witnessed(c, x) == Output(x) /\ x.light \in Alike[call[c].req.light] => x.val \in Heeded(c)

Witness(c) ==
  /\ side[c] \in {"idle", "login"} => call[c].lines = 0
  /\ side[c] \in {"login", "reply"} =>
       \A i \in DOMAIN link[c].down : Witnessed(c, link[c].down[i])
  /\ side[c] = "reply" /\ call[c].lines = 1 => call[c].got \in Heeded(c)
  /\ side[c] = "ok" /\ ~IsSet(call[c].req) => call[c].got \in Heeded(c)

SInv(s) == Session(s) /\ (s \in Conns => Heard(s) /\ Witness(s))

\* The last report about an output on the way to the receiver, if there is
\* one, or else the last one that it received, tells the level.
About(x, l) == x.kind = "level" /\ x.light = l
Quiet(q, l) == \A i \in DOMAIN q : ~About(q[i], l)
LastSays(q, l, v) ==
  \E i \in DOMAIN q : About(q[i], l) /\ q[i].val = v /\ \A j \in DOMAIN q : j > i => ~About(q[j], l)

Tells(down, sent, waiting, last, l, v) ==
  \/ LastSays(down, l, v)
  \/ /\ Quiet(down, l)
     /\ \/ LastSays(sent, l, v)
        \/ /\ Quiet(sent, l)
           /\ \/ LastSays(waiting, l, v)
              \/ Quiet(waiting, l) /\ last = v

Known(l) == Tells(link[Monitor].down, batch, channel, told[l], l, level[l])

AllLevels(q) == \A i \in DOMAIN q : q[i].kind = "level"

Watched ==
  /\ told \in [Lights -> Nat \cup {None}] /\ changed \subseteq Lights
  /\ AllLevels(batch) /\ AllLevels(channel)
  /\ receiver => (side[Monitor] \notin {"listen", "send"} => changed = {})
  /\ receiver => \A l \in changed : Known(l)

HistoryOK == seen \in [Conns -> SUBSET Levels]

\* The inductive invariant.
LInv == TypeOK /\ HistoryOK /\ (\A s \in Sessions : SInv(s)) /\ Watched

-----------------------------------------------------------------------------
(* Lines.                                                                  *)

LEMMA LinesAre ==
  /\ \A k \in Kinds : Prompt(k) \in Line
  /\ \A l \in Lights, v \in Nat : LevelLine(l, v) \in Line /\ OtherLine(l, v) \in Line
BY DEF Prompt, LevelLine, OtherLine, Line, Kinds

\* A read takes the first n lines.
LEMMA SplitAt ==
  ASSUME NEW S, NEW q \in Seq(S), NEW n \in 1..Len(q)
  PROVE  /\ SubSeq(q, 1, n) \in Seq(S) /\ Len(SubSeq(q, 1, n)) = n
         /\ \A i \in 1..n : SubSeq(q, 1, n)[i] = q[i]
         /\ SubSeq(q, n + 1, Len(q)) \in Seq(S)
         /\ Len(SubSeq(q, n + 1, Len(q))) = Len(q) - n
         /\ \A i \in 1..(Len(q) - n) : SubSeq(q, n + 1, Len(q))[i] = q[n + i]
<1>1. Len(q) \in Nat /\ n \in Nat /\ n >= 1 /\ n <= Len(q)
  BY LenProperties
<1>2. \A i \in 1..Len(q) : q[i] \in S
  BY ElementOfSeq
<1>3. SubSeq(q, 1, n) = [i \in 1..n |-> q[i]]
  BY <1>1
<1>4. SubSeq(q, n + 1, Len(q)) = [i \in 1..(Len(q) - n) |-> q[n + i]]
  BY <1>1
<1>5. SubSeq(q, 1, n) \in Seq(S) /\ Len(SubSeq(q, 1, n)) = n
  BY <1>1, <1>2, <1>3
<1>6. SubSeq(q, n + 1, Len(q)) \in Seq(S) /\ Len(SubSeq(q, n + 1, Len(q))) = Len(q) - n
  BY <1>1, <1>2, <1>4
<1> QED
  BY <1>3, <1>4, <1>5, <1>6

LEMMA CatAt ==
  ASSUME NEW S, NEW p \in Seq(S), NEW q \in Seq(S)
  PROVE  /\ p \o q \in Seq(S) /\ Len(p \o q) = Len(p) + Len(q)
         /\ \A i \in 1..Len(p) : (p \o q)[i] = p[i]
         /\ \A i \in 1..Len(q) : (p \o q)[Len(p) + i] = q[i]
<1>1. Len(p) \in Nat /\ Len(q) \in Nat
  BY LenProperties
<1> QED
  BY <1>1, ConcatProperties

\* Taking the first line.
LEMMA TailAt ==
  ASSUME NEW S, NEW q \in Seq(S), q # <<>>
  PROVE  /\ Head(q) \in S /\ Head(q) = q[1] /\ 1 \in DOMAIN q
         /\ Tail(q) \in Seq(S) /\ Len(Tail(q)) = Len(q) - 1 /\ Len(q) \in Nat /\ Len(q) >= 1
         /\ \A i \in 1..(Len(q) - 1) : Tail(q)[i] = q[i + 1]
BY HeadTailProperties, LenProperties, EmptySeq

LEMMA TailOfPushed ==
  ASSUME NEW S, NEW q \in Seq(S), NEW e
  PROVE  Tail(<<e>> \o q) = q
<1> DEFINE T == S \cup {e}
<1>1. q \in Seq(T) /\ <<e>> \in Seq(T)
  BY SeqMonotonic
<1> HIDE DEF T
<1>2. <<e>> \o q \in Seq(T) /\ Len(<<e>> \o q) = 1 + Len(q)
      /\ \A i \in 1..Len(q) : (<<e>> \o q)[1 + i] = q[i]
  BY <1>1, CatAt
<1>3. Len(q) \in Nat
  BY LenProperties
<1>4. <<e>> \o q # <<>>
  BY <1>2, <1>3
<1>5. /\ Tail(<<e>> \o q) \in Seq(T) /\ Len(Tail(<<e>> \o q)) = Len(q)
      /\ \A i \in 1..Len(q) : Tail(<<e>> \o q)[i] = q[i]
  BY <1>2, <1>3, <1>4, TailAt
<1> QED
  BY <1>1, <1>3, <1>5, SeqEqual

\* What the repeater says may follow what it said before.
LEMMA CatLines ==
  ASSUME NEW p \in Seq(Line), NEW q \in Seq(Line)
  PROVE  /\ p \o q \in Seq(Line)
         /\ NoPrompt(p) /\ NoPrompt(q) => NoPrompt(p \o q)
         /\ OnePrompt(p) /\ NoPrompt(q) => OnePrompt(p \o q)
         /\ Plain(p) /\ Plain(q) => Plain(p \o q)
<1>1. Len(p) \in Nat /\ Len(q) \in Nat /\ DOMAIN p = 1..Len(p) /\ DOMAIN q = 1..Len(q)
  BY LenProperties
<1>2. p \o q \in Seq(Line) /\ DOMAIN (p \o q) = 1..(Len(p) + Len(q))
  BY CatAt, LenProperties
<1>3. \A i \in DOMAIN (p \o q) :
        \/ i \in DOMAIN p /\ (p \o q)[i] = p[i]
        \/ i - Len(p) \in DOMAIN q /\ (p \o q)[i] = q[i - Len(p)]
  <2> TAKE i \in DOMAIN (p \o q)
  <2>1. CASE i <= Len(p)
    BY <2>1, <1>1, <1>2, CatAt
  <2>2. CASE i > Len(p)
    <3>1. i - Len(p) \in 1..Len(q) /\ Len(p) + (i - Len(p)) = i
      BY <2>2, <1>1, <1>2
    <3> QED
      BY <3>1, <1>1, CatAt
  <2> QED
    BY <2>1, <2>2, <1>1, <1>2
<1> QED
  BY <1>1, <1>2, <1>3 DEF NoPrompt, OnePrompt, Plain

\* What is known of the lines that were read, and of the rest, from all.
SplitInto(q, chunk, rest) ==
  /\ rest \in Seq(Line) /\ chunk \in Seq(Line) /\ chunk # <<>>
  /\ Head(chunk) = q[1] /\ 1 \in DOMAIN chunk /\ chunk[1] = q[1] /\ 1 \in DOMAIN q
  /\ NoPrompt(q) => NoPrompt(rest) /\ ~Has(chunk, "GNET>") /\ ~ReplyEnds(chunk)
  /\ OnePrompt(q) => OnePrompt(rest) /\ (Has(chunk, "GNET>") => NoPrompt(rest))
  /\ Plain(q) => Plain(rest) /\ Plain(chunk)
  /\ Has(chunk, "GNET>") => ~NoPrompt(q)
  /\ \A i \in DOMAIN rest : \E j \in DOMAIN q : rest[i] = q[j]
  /\ \A i \in DOMAIN chunk : \E j \in DOMAIN q : chunk[i] = q[j]

LEMMA SplitLines ==
  ASSUME NEW q \in Seq(Line), NEW n \in 1..Len(q)
  PROVE  SplitInto(q, SubSeq(q, 1, n), SubSeq(q, n + 1, Len(q)))
<1> DEFINE chunk == SubSeq(q, 1, n)
           rest == SubSeq(q, n + 1, Len(q))
<1>1. /\ chunk \in Seq(Line) /\ Len(chunk) = n /\ \A i \in 1..n : chunk[i] = q[i]
      /\ rest \in Seq(Line) /\ Len(rest) = Len(q) - n
      /\ \A i \in 1..(Len(q) - n) : rest[i] = q[n + i]
  BY SplitAt
<1> HIDE DEF chunk, rest
<1>2. /\ Len(q) \in Nat /\ n \in Nat /\ n >= 1 /\ n <= Len(q) /\ DOMAIN q = 1..Len(q)
      /\ DOMAIN chunk = 1..n /\ DOMAIN rest = 1..(Len(q) - n)
  BY <1>1, LenProperties
<1>3. chunk # <<>> /\ 1 \in DOMAIN chunk /\ 1 \in DOMAIN q /\ chunk[1] = q[1]
  BY <1>1, <1>2
<1>4. Head(chunk) = q[1]
  BY <1>1, <1>3, TailAt
<1>5. \A i \in DOMAIN rest : n + i \in DOMAIN q /\ rest[i] = q[n + i]
  <2> TAKE i \in DOMAIN rest
  <2>1. i \in 1..(Len(q) - n)
    BY <1>2
  <2>2. n + i \in 1..Len(q)
    BY <2>1, <1>2
  <2> QED
    BY <2>1, <2>2, <1>1, <1>2
<1>6. \A i \in DOMAIN chunk : i \in DOMAIN q /\ chunk[i] = q[i]
  BY <1>1, <1>2
<1>7. NoPrompt(q) => NoPrompt(rest) /\ ~Has(chunk, "GNET>") /\ ~ReplyEnds(chunk)
  BY <1>3, <1>5, <1>6 DEF NoPrompt, Has, ReplyEnds, Prompting
<1>8. ASSUME OnePrompt(q) PROVE OnePrompt(rest)
  BY <1>2, <1>5, <1>8 DEF OnePrompt
<1>9. ASSUME OnePrompt(q), Has(chunk, "GNET>") PROVE NoPrompt(rest)
  <2>1. PICK i \in DOMAIN chunk : q[i].kind = "GNET>" /\ i \in DOMAIN q /\ i <= n
    BY <1>2, <1>6, <1>9 DEF Has
  <2>2. \A j \in DOMAIN rest : n + j \in Nat /\ ~(n + j <= i)
    BY <1>2, <2>1
  <2> QED
    BY <1>5, <1>9, <2>1, <2>2 DEF OnePrompt, NoPrompt
<1>10. Plain(q) => Plain(rest) /\ Plain(chunk)
  BY <1>5, <1>6 DEF Plain
<1>11. Has(chunk, "GNET>") => ~NoPrompt(q)
  BY <1>7
<1>12. \A i \in DOMAIN rest : \E j \in DOMAIN q : rest[i] = q[j]
  BY <1>5
<1>13. \A i \in DOMAIN chunk : \E j \in DOMAIN q : chunk[i] = q[j]
  BY <1>6
<1> QED
  <2>1. SplitInto(q, chunk, rest)
    BY <1>1, <1>3, <1>4, <1>7, <1>8, <1>9, <1>10, <1>11, <1>12, <1>13 DEF SplitInto
  <2> QED
    BY <2>1 DEF chunk, rest

-----------------------------------------------------------------------------
(* Types.                                                                  *)

\* What a session may be told in a step, besides nothing: that an output has
\* changed to the level that it then has.
ToldOf(s) ==
  \E l \in Lights, v \in Levels : \E r \in Reports(l, v) :
    /\ level'[l] = v /\ link[s].srv \in {"greeting", "ready"} /\ ~Ended(s)
    /\ link'[s] = [link[s] EXCEPT !.down = @ \o r]

Stays(s) == link'[s] = link[s] \/ ToldOf(s)

\* The driver does nothing in session s.
Bystands(s) ==
  /\ side'[s] = side[s] /\ (s \in silent' <=> s \in silent) /\ Stays(s)
  /\ s \in Conns => call'[s] = call[s]

LEMMA ReportLines ==
  ASSUME NEW l \in Lights, NEW v \in Levels, NEW r \in Reports(l, v)
  PROVE  /\ r \in Seq(Line) /\ NoPrompt(r) /\ Plain(r)
         /\ r[Len(r)] = LevelLine(l, v) /\ Len(r) \in {1, 2} /\ (Len(r) = 2 => r[1].kind = "other")
         /\ \A i \in DOMAIN r : r[i].kind = "level" => r[i] = LevelLine(l, v)
<1>1. v \in Nat /\ \A o \in Others : o \in Nat
  BY LutronAssumption
<1>2. LevelLine(l, v) \in Line /\ \A o \in Others : OtherLine(l, o) \in Line
  BY <1>1, LinesAre
<1>3. CASE r = <<LevelLine(l, v)>>
  BY <1>2, <1>3 DEF NoPrompt, Plain, Output, LevelLine, Prompting
<1>4. ASSUME NEW o \in Others, r = <<OtherLine(l, o), LevelLine(l, v)>>
      PROVE  /\ r \in Seq(Line) /\ NoPrompt(r) /\ Plain(r)
             /\ r[Len(r)] = LevelLine(l, v) /\ Len(r) = 2 /\ r[1].kind = "other"
             /\ \A i \in DOMAIN r : r[i].kind = "level" => r[i] = LevelLine(l, v)
  <2>1. r \in Seq(Line) /\ Len(r) = 2 /\ DOMAIN r = 1..2 /\ r[1] = OtherLine(l, o) /\ r[2] = LevelLine(l, v)
    BY <1>2, <1>4
  <2>2. \A i \in DOMAIN r : r[i].kind \in {"level", "other"}
    BY <2>1 DEF LevelLine, OtherLine
  <2> QED
    BY <2>1, <2>2 DEF NoPrompt, Plain, Output, OtherLine, Prompting
<1> QED
  BY <1>3, <1>4 DEF Reports

\* All sessions are told.
LEMMA ToldAll ==
  ASSUME TypeOK, NEW l \in Lights, NEW v \in Levels, NEW r \in Reports(l, v), NEW all, all = Told(r)
  PROVE  /\ all \in [Sessions -> Links]
         /\ \A s \in Sessions : all[s].srv = link[s].srv /\ all[s].up = link[s].up
         /\ \A s \in Sessions :
              all[s] = IF link[s].srv \in {"greeting", "ready"} /\ ~Ended(s)
                       THEN [link[s] EXCEPT !.down = @ \o r] ELSE link[s]
<1>1. r \in Seq(Line)
  BY ReportLines
<1>2. \A s \in Sessions : link[s] \in Links
  BY DEF TypeOK, Links
<1>3. \A s \in Sessions : link[s].down \o r \in Seq(Line)
  BY <1>1, <1>2, CatAt DEF Links
<1>4. ASSUME NEW s \in Sessions
      PROVE [link[s] EXCEPT !.down = @ \o r] \in Links
  BY <1>2, <1>3 DEF Links
<1> QED
  BY <1>2, <1>4 DEF Told, Links

\* One of them.
LEMMA ToldOne ==
  ASSUME TypeOK, NEW l \in Lights, NEW v \in Levels, NEW r \in Reports(l, v), NEW all, all = Told(r),
         NEW s \in Sessions
  PROVE  /\ all \in [Sessions -> Links] /\ all[s].up = link[s].up
         /\ all[s] = IF link[s].srv \in {"greeting", "ready"} /\ ~Ended(s)
                     THEN [link[s] EXCEPT !.down = @ \o r] ELSE link[s]
         /\ all[s].down = IF link[s].srv \in {"greeting", "ready"} /\ ~Ended(s)
                          THEN link[s].down \o r ELSE link[s].down
<1>1. all \in [Sessions -> Links]
  BY ToldAll
<1>2. all[s] = IF link[s].srv \in {"greeting", "ready"} /\ ~Ended(s)
               THEN [link[s] EXCEPT !.down = @ \o r] ELSE link[s]
  BY DEF Told
<1>3. link[s] \in Links
  BY DEF TypeOK, Links
<1> QED
  BY <1>1, <1>2, <1>3 DEF Links

\* The repeater takes a line of session s and answers.
LEMMA TakesOf ==
  ASSUME TypeOK, NEW s \in Sessions, NEW all \in [Sessions -> Links], NEW srv \in SrvPcs,
         NEW x \in Seq(Line), all[s].up # <<>>, Takes(s, all, srv, x)
  PROVE  /\ link' \in [Sessions -> Links]
         /\ link'[s] = [srv |-> srv, up |-> Tail(all[s].up),
                        down |-> IF Ended(s) THEN all[s].down ELSE all[s].down \o x]
         /\ \A j \in Sessions \ {s} : link'[j] = all[j]
<1>1. all[s] \in Links
  OBVIOUS
<1>2. Tail(all[s].up) \in Seq(Line)
  BY <1>1, TailAt DEF Links
<1>3. all[s].down \o x \in Seq(Line)
  BY <1>1, CatAt DEF Links
<1> DEFINE u == Tail(all[s].up)
           d == IF Ended(s) THEN all[s].down ELSE all[s].down \o x
<1>4. d \in Seq(Line) /\ u \in Seq(Line)
  BY <1>1, <1>2, <1>3 DEF Links
<1>5. link' = [all EXCEPT ![s].up = u, ![s].srv = srv, ![s].down = d]
  BY DEF Takes
<1> HIDE DEF u, d
<1>6. /\ link' \in [Sessions -> Links] /\ link'[s] = [srv |-> srv, up |-> u, down |-> d]
      /\ \A j \in Sessions \ {s} : link'[j] = all[j]
  <2>1. link'[s] = [srv |-> srv, up |-> u, down |-> d]
    <3>1. all[s] = [srv |-> all[s].srv, up |-> all[s].up, down |-> all[s].down]
      BY DEF Links
    <3> QED
      BY <1>5, <3>1
  <2>2. [srv |-> srv, up |-> u, down |-> d] \in Links
    BY <1>4 DEF Links
  <2>3. link' = [all EXCEPT ![s] = link'[s]]
    BY <1>5
  <2> QED
    BY <2>1, <2>2, <2>3
<1> QED
  BY <1>6 DEF u, d

-----------------------------------------------------------------------------
(* A session in which the driver does nothing keeps what holds of it.      *)

LEMMA StaysDown ==
  ASSUME TypeOK, NEW s \in Sessions, Stays(s)
  PROVE  /\ link'[s] \in Links /\ link'[s].srv = link[s].srv /\ link'[s].up = link[s].up
         /\ NoPrompt(link[s].down) => NoPrompt(link'[s].down)
         /\ OnePrompt(link[s].down) => OnePrompt(link'[s].down)
         /\ Plain(link[s].down) => Plain(link'[s].down)
         /\ link[s].srv \notin {"greeting", "ready"} => link'[s] = link[s]
         /\ Ended(s) => link'[s] = link[s]
<1>1. link[s] \in Links
  BY DEF TypeOK, Links
<1>2. CASE link'[s] = link[s]
  BY <1>1, <1>2
<1>3. CASE ToldOf(s)
  <2>1. PICK l \in Lights, v \in Levels : \E r \in Reports(l, v) :
          /\ link[s].srv \in {"greeting", "ready"} /\ ~Ended(s)
          /\ link'[s] = [link[s] EXCEPT !.down = @ \o r]
    BY <1>3 DEF ToldOf
  <2>2. PICK r \in Reports(l, v) :
          /\ link[s].srv \in {"greeting", "ready"} /\ ~Ended(s)
          /\ link'[s] = [link[s] EXCEPT !.down = @ \o r]
    BY <2>1
  <2>3. r \in Seq(Line) /\ NoPrompt(r) /\ Plain(r)
    BY ReportLines
  <2>4. /\ link'[s].down = link[s].down \o r
        /\ link'[s].srv = link[s].srv /\ link'[s].up = link[s].up
    BY <1>1, <2>2 DEF Links
  <2>5. link[s].down \o r \in Seq(Line)
    BY <1>1, <2>3, CatLines DEF Links
  <2>6. link'[s] \in Links
    BY <1>1, <2>2, <2>5 DEF Links
  <2> QED
    BY <1>1, <2>2, <2>3, <2>4, <2>6, CatLines DEF Links
<1> QED
  BY <1>2, <1>3 DEF Stays

\* The lines of p are lines of q or, if they tell a level, that of now.
Current(x) == x.kind = "level" => x.val = level'[x.light]
Follows(q, p) == \A i \in DOMAIN p : (\E j \in DOMAIN q : p[i] = q[j]) \/ Current(p[i])

LEMMA FollowsCat ==
  ASSUME NEW q, NEW p \in Seq(Line), Follows(q, p),
         NEW x \in Seq(Line), \A i \in DOMAIN x : Current(x[i])
  PROVE  Follows(q, p \o x)
<1> SUFFICES ASSUME NEW i \in DOMAIN (p \o x)
             PROVE  (\E j \in DOMAIN q : (p \o x)[i] = q[j]) \/ Current((p \o x)[i])
  BY DEF Follows
<1>1. Len(p) \in Nat /\ Len(x) \in Nat /\ DOMAIN p = 1..Len(p) /\ DOMAIN x = 1..Len(x)
      /\ DOMAIN (p \o x) = 1..(Len(p) + Len(x))
  BY CatAt, LenProperties
<1>2. CASE i \in 1..Len(p)
  <2>1. (p \o x)[i] = p[i] /\ i \in DOMAIN p
    BY <1>1, <1>2, CatAt
  <2> QED
    BY <2>1 DEF Follows
<1>3. CASE i - Len(p) \in 1..Len(x)
  <2>1. (p \o x)[Len(p) + (i - Len(p))] = x[i - Len(p)]
    BY <1>1, <1>3, CatAt
  <2>2. Len(p) + (i - Len(p)) = i
    BY <1>1
  <2> QED
    BY <1>1, <1>3, <2>1, <2>2
<1> QED
  BY <1>1, <1>2, <1>3

LEMMA ToldFollows ==
  ASSUME NEW q \in Seq(Line), NEW l \in Lights, NEW v \in Levels,
         NEW r \in Reports(l, v), level'[l] = v
  PROVE  Follows(q, q \o r)
<1>1. r \in Seq(Line) /\ \A i \in DOMAIN r : r[i].kind = "level" => r[i] = LevelLine(l, v)
  BY ReportLines
<1>2. Current(LevelLine(l, v))
  BY DEF Current, LevelLine
<1>3. \A i \in DOMAIN r : Current(r[i])
  BY <1>1, <1>2 DEF Current
<1>4. Follows(q, q)
  BY DEF Follows
<1> QED
  BY <1>1, <1>3, <1>4, FollowsCat

LEMMA StaysFollows ==
  ASSUME TypeOK, NEW s \in Sessions, Stays(s)
  PROVE  Follows(link[s].down, link'[s].down)
<1>1. link[s] \in Links
  BY DEF TypeOK, Links
<1>2. CASE link'[s] = link[s]
  BY <1>2 DEF Follows
<1>3. CASE ToldOf(s)
  <2>1. PICK l \in Lights, v \in Levels : \E r \in Reports(l, v) :
          level'[l] = v /\ link'[s] = [link[s] EXCEPT !.down = @ \o r]
    BY <1>3 DEF ToldOf
  <2>2. PICK r \in Reports(l, v) : level'[l] = v /\ link'[s] = [link[s] EXCEPT !.down = @ \o r]
    BY <2>1
  <2>3. link'[s].down = link[s].down \o r /\ link[s].down \in Seq(Line)
    BY <1>1, <2>2 DEF Links
  <2> QED
    BY <2>2, <2>3, ToldFollows
<1> QED
  BY <1>2, <1>3 DEF Stays

\* The history of a call whose session takes no line.
LEMMA NothingTaken ==
  ASSUME NEW c \in Conns, Remembered, link'[c].up = link[c].up, link[c].up \in Seq(Line)
  PROVE  (c \in misread' <=> c \in misread) /\ (c \in taken' <=> c \in taken)
<1>1. ~(Len(link'[c].up) < Len(link[c].up))
  BY LenProperties
<1> QED
  BY <1>1 DEF Remembered, TakesLine

LEMMA SeenGrows ==
  ASSUME HistoryOK, NEW c \in Conns, Remembered
  PROVE  /\ Heeded(c) \subseteq Heeded(c)'
         /\ side'[c] \in {"login", "reply"} =>
              /\ \A l \in Alike[call'[c].req.light] : level'[l] \in Heeded(c)'
              /\ \A i \in DOMAIN link'[c].down :
                   /\ link'[c].down[i].kind = "other"
                   /\ link'[c].down[i].light \in Alike[call'[c].req.light]
                   => link'[c].down[i].val \in Heeded(c)'
<1>1. Heeded(c)' = seen'[c] \cup strange'[c]
  BY DEF Heeded
<1>2. /\ seen[c] \subseteq seen'[c] /\ strange[c] \subseteq strange'[c]
      /\ side'[c] \in {"login", "reply"} =>
           \A l \in Alike[call'[c].req.light] : level'[l] \in seen'[c]
  BY DEF HistoryOK, Remembered
<1>3. ASSUME side'[c] \in {"login", "reply"}, NEW i \in DOMAIN link'[c].down,
             link'[c].down[i].kind = "other",
             link'[c].down[i].light \in Alike[call'[c].req.light]
      PROVE  link'[c].down[i].val \in strange'[c]
  <2>1. strange'[c] = strange[c] \cup {x.val : x \in StrangeLines(c)'}
    BY <1>3 DEF Remembered
  <2>2. link'[c].down[i] \in StrangeLines(c)'
    BY <1>3 DEF StrangeLines, ToSet
  <2> QED
    BY <2>1, <2>2
<1> QED
  BY <1>1, <1>2, <1>3 DEF Heeded

\* What a call may read stays true.
LEMMA WitnessKept ==
  ASSUME HistoryOK, NEW c \in Conns, Witness(c), Remembered,
         side'[c] = side[c], call'[c] = call[c],
         Follows(link[c].down, link'[c].down)
  PROVE  Witness(c)'
<1>1. Heeded(c) \subseteq Heeded(c)'
  BY SeenGrows
<1>2. ASSUME side[c] \in {"login", "reply"}, NEW i \in DOMAIN link'[c].down,
             Output(link'[c].down[i]), link'[c].down[i].light \in Alike[call[c].req.light]
      PROVE  link'[c].down[i].val \in Heeded(c)'
  <2>1. \A l \in Alike[call[c].req.light] : level'[l] \in Heeded(c)'
    BY <1>2, SeenGrows
  <2>2. CASE link'[c].down[i].kind = "level" /\ Current(link'[c].down[i])
    BY <1>2, <2>1, <2>2 DEF Current
  <2>3. CASE \E j \in DOMAIN link[c].down : link'[c].down[i] = link[c].down[j]
    BY <1>1, <1>2, <2>3 DEF Witness, Witnessed, Heeded
  <2>4. CASE link'[c].down[i].kind = "other"
    BY <1>2, <2>4, SeenGrows
  <2> QED
    BY <1>2, <2>2, <2>3, <2>4 DEF Follows, Output
<1> QED
  BY <1>1, <1>2 DEF Witness, Witnessed, Heeded

LEMMA Bystander ==
  ASSUME TypeOK, HistoryOK, NEW s \in Sessions, SInv(s), Bystands(s), Remembered
  PROVE  SInv(s)'
<1>1. /\ link'[s] \in Links /\ link'[s].srv = link[s].srv /\ link'[s].up = link[s].up
      /\ NoPrompt(link[s].down) => NoPrompt(link'[s].down)
      /\ OnePrompt(link[s].down) => OnePrompt(link'[s].down)
      /\ Plain(link[s].down) => Plain(link'[s].down)
      /\ link[s].srv \notin {"greeting", "ready"} => link'[s] = link[s]
      /\ Ended(s) => link'[s] = link[s]
  BY StaysDown DEF Bystands
<1>2. /\ side'[s] = side[s] /\ (s \in silent' <=> s \in silent)
      /\ s \in Conns => call'[s] = call[s]
  BY DEF Bystands
<1>3. Session(s)'
  <2>1. Written(s)'
    BY <1>1 DEF SInv, Session, Written
  <2>2. ASSUME LoginStands(link[s]) PROVE LoginStands(link[s])'
    BY <1>1, <2>2 DEF LoginStands
  <2>3. s \in Conns \/ s = Monitor
    BY DEF Sessions
  <2> QED
    BY <1>2, <2>1, <2>2, <2>3 DEF SInv, Session, Sides
<1>4. ASSUME s \in Conns PROVE Heard(s)'
  <2>1. (s \in misread' <=> s \in misread) /\ (s \in taken' <=> s \in taken)
    <3>1. link[s].up \in Seq(Line)
      BY DEF TypeOK, Links
    <3> QED
      BY <1>1, <1>4, <3>1, NothingTaken
  <2>2. side[s] = "idle" => link'[s] = Closed
    BY <1>1, <1>4 DEF SInv, Heard, Closed
  <2>3. ASSUME Replied(s) PROVE Replied(s)'
    BY <1>1, <1>2, <2>1, <2>3 DEF Replied, Stuck
  <2> QED
    BY <1>1, <1>2, <1>4, <2>1, <2>2, <2>3 DEF SInv, Heard
<1>5. ASSUME s \in Conns PROVE Witness(s)'
  BY <1>2, <1>5, StaysFollows, WitnessKept DEF Bystands, SInv
<1> QED
  BY <1>3, <1>4, <1>5 DEF SInv

-----------------------------------------------------------------------------
(* The repeater takes a line.                                              *)

Quiescent == side' = side /\ silent' = silent /\ call' = call

\* A command that is taken is the last line written.
LEMMA WrittenTaken ==
  ASSUME NEW s \in Sessions, Written(s), link[s].up \in Seq(Line), link[s].up # <<>>,
         link'[s].up = Tail(link[s].up)
  PROVE  /\ Written(s)'
         /\ Len(link'[s].up) < Len(link[s].up)
         /\ Head(link[s].up).kind \in {"set", "get"} => link'[s].up = <<>>
<1> DEFINE q == link[s].up
           t == link'[s].up
<1>1. /\ t \in Seq(Line) /\ Len(t) = Len(q) - 1 /\ Len(q) \in Nat /\ Len(q) >= 1
      /\ \A i \in 1..(Len(q) - 1) : t[i] = q[i + 1]
      /\ Head(q) = q[1] /\ 1 \in DOMAIN q
  BY TailAt
<1>2. DOMAIN t = 1..(Len(q) - 1) /\ DOMAIN q = 1..Len(q)
  BY <1>1, LenProperties
<1>3. ASSUME NEW i \in DOMAIN t PROVE t[i] = q[i + 1] /\ i + 1 \in DOMAIN q /\ i \in Nat
  BY <1>1, <1>2
<1>4. Written(s)'
  BY SMTT(30), <1>1, <1>3 DEF Written
<1>5. Len(t) < Len(q)
  BY <1>1
<1>6. ASSUME Head(q).kind \in {"set", "get"} PROVE t = <<>>
  <2>1. 1 = Len(q)
    BY <1>1, <1>6 DEF Written
  <2>2. Len(t) = 0
    BY <1>1, <2>1
  <2> QED
    BY <1>1, <2>2, EmptySeq
<1> QED
  BY <1>4, <1>5, <1>6

LEMMA AfterTaking ==
  ASSUME NEW c \in Conns, Remembered, Len(link'[c].up) < Len(link[c].up)
  PROVE  /\ taken \subseteq taken'
         /\ link[c].srv = "ready" /\ link'[c].srv # "closed" => c \in taken'
         /\ c \in misread' =>
              \/ c \in misread
              \/ link[c].srv \in {"login", "password"} /\ Head(link[c].up).kind \in {"set", "get"}
BY DEF Remembered, TakesLine

\* In a login and in a call, a question for a name or password.
LEMMA AskedOnly ==
  ASSUME NEW c \in Conns, Heard(c), Written(c), link[c].up \in Seq(Line), link[c].up # <<>>,
         side[c] = "login" => LoginStands(link[c]),
         link[c].down \in Seq(Line),
         link[c].srv \in {"login", "password"}, link'[c].srv \in {"login", "password", "greeting"},
         link'[c].up = Tail(link[c].up), Remembered, Quiescent,
         side[c] = "reply" /\ NoPrompt(link[c].down) => NoPrompt(link'[c].down),
         Head(link[c].up).kind \in {"set", "get"} => link'[c].srv # "greeting"
  PROVE  Heard(c)'
<1>1. /\ Len(link'[c].up) < Len(link[c].up)
      /\ Head(link[c].up).kind \in {"set", "get"} => link'[c].up = <<>>
  BY WrittenTaken DEF Sessions
<1>2. /\ taken \subseteq taken'
      /\ c \in misread' => c \in misread \/ Head(link[c].up).kind \in {"set", "get"}
  BY <1>1, AfterTaking
<1>3. side'[c] = side[c] /\ (c \in silent' <=> c \in silent)
  BY DEF Quiescent
<1>4. side[c] # "idle" /\ side[c] # "ok"
  BY DEF Heard, Closed
<1>5. CASE side[c] = "login"
  <2>1. link[c].up = <<Prompt("uid")>> \/ link[c].up = <<Prompt("upw")>>
    BY <1>5 DEF LoginStands
  <2>2. Head(link[c].up).kind \in {"uid", "upw"}
    BY <2>1 DEF Prompt
  <2> QED
    BY <1>2, <1>3, <1>5, <2>2 DEF Heard
<1>6. CASE side[c] = "reply"
  <2>1. c \notin misread /\ c \in silent /\ NoPrompt(link[c].down)
    BY <1>6 DEF Heard, Replied, Stuck
  <2>2. NoPrompt(link'[c].down)
    BY <1>6, <2>1
  <2> QED
    BY <1>1, <1>2, <1>3, <1>6, <2>1, <2>2 DEF Heard, Replied, Stuck
<1> QED
  BY <1>3, <1>4, <1>5, <1>6 DEF Heard

LEMMA PromptLines ==
  ASSUME NEW k \in Kinds, NEW x, x = <<Prompt(k)>>
  PROVE  /\ x \in Seq(Line) /\ (k \notin Prompting => NoPrompt(x))
         /\ k # "level" => \A i \in DOMAIN x : Current(x[i])
<1>1. x \in Seq(Line) /\ DOMAIN x = {1} /\ x[1] = Prompt(k)
  BY LinesAre
<1> QED
  BY <1>1 DEF NoPrompt, Current, Prompt

LEMMA TwoPrompts ==
  ASSUME NEW k \in Kinds, NEW m \in Kinds, NEW x, x = <<Prompt(k), Prompt(m)>>
  PROVE  /\ x \in Seq(Line) /\ (k \notin Prompting /\ m \notin Prompting => NoPrompt(x))
         /\ k # "level" /\ m # "level" => \A i \in DOMAIN x : Current(x[i])
<1>1. x \in Seq(Line) /\ DOMAIN x = {1, 2} /\ x[1] = Prompt(k) /\ x[2] = Prompt(m)
  BY LinesAre
<1> QED
  BY <1>1 DEF NoPrompt, Current, Prompt

\* The prompt of a session that is ready.
LEMMA ReadyLines ==
  /\ Ready \in Seq(Line) /\ Len(Ready) = 2 /\ DOMAIN Ready = 1..2
  /\ Ready[1] = Prompt("blank") /\ Ready[2] = Prompt("GNET>")
  /\ Plain(Ready) /\ \A i \in DOMAIN Ready : Current(Ready[i]) /\ Ready[i].kind # "level"
<1>1. /\ Ready \in Seq(Line) /\ Len(Ready) = 2 /\ DOMAIN Ready = 1..2
      /\ Ready[1] = Prompt("blank") /\ Ready[2] = Prompt("GNET>")
  <2>1. Prompt("blank") \in Line /\ Prompt("GNET>") \in Line
    BY LinesAre DEF Kinds
  <2> QED
    BY <2>1 DEF Ready
<1> QED
  BY <1>1 DEF Plain, Current, Prompt, Prompting

\* A line before it.
LEMMA BeforeReady ==
  ASSUME NEW y \in Line, Current(y), NEW x, x = <<y>> \o Ready
  PROVE  /\ x \in Seq(Line) /\ \A i \in DOMAIN x : Current(x[i])
         /\ y.kind # "level" => \A i \in DOMAIN x : x[i].kind # "level"
<1>1. PICK one : one = <<y>>
  OBVIOUS
<1>2. one \in Seq(Line) /\ Len(one) = 1 /\ one[1] = y
  BY <1>1
<1>3. /\ x \in Seq(Line) /\ Len(x) = 3 /\ x[1] = y
      /\ \A i \in 1..2 : x[1 + i] = Ready[i]
  BY <1>1, <1>2, ReadyLines, CatAt
<1>4. DOMAIN x = 1..3 /\ x[2] = Ready[1] /\ x[3] = Ready[2]
  BY <1>3, LenProperties
<1>5. \A i \in DOMAIN x : i = 1 \/ x[i] = Ready[1] \/ x[i] = Ready[2]
  BY <1>4
<1> QED
  BY <1>3, <1>5, ReadyLines

LEMMA SessionOf ==
  ASSUME NEW s \in Sessions, Session(s), Quiescent, Written(s)',
         side[s] = "login" => LoginStands(link'[s])
  PROVE  Session(s)'
<1>1. LoginStands(link[s])' <=> LoginStands(link'[s])
  BY DEF LoginStands
<1> QED
  BY <1>1 DEF Session, Quiescent, Sides

LEMMA AskPasswordKeeps ==
  ASSUME TypeOK, HistoryOK, NEW s \in Sessions, SInv(s), AskPassword(s), Quiescent, Remembered
  PROVE  /\ link' \in [Sessions -> Links] /\ SInv(s)' /\ level' = level
         /\ Ended(s) => link'[s].down = link[s].down
         /\ \A j \in Sessions \ {s} : link'[j] = link[j]
<1> DEFINE x == <<Prompt("password:")>>
<1>1. x \in Seq(Line) /\ NoPrompt(x) /\ \A i \in DOMAIN x : Current(x[i])
  BY PromptLines DEF Kinds, Prompting
<1>2. link \in [Sessions -> Links] /\ link[s].up # <<>> /\ link[s].srv = "login" /\ level' = level
  BY DEF TypeOK, Links, AskPassword
<1>3. Takes(s, link, "password", x)
  BY DEF AskPassword
<1> HIDE DEF x
<1>4. /\ link' \in [Sessions -> Links]
      /\ link'[s] = [srv |-> "password", up |-> Tail(link[s].up),
                     down |-> IF Ended(s) THEN link[s].down ELSE link[s].down \o x]
      /\ \A j \in Sessions \ {s} : link'[j] = link[j]
  BY <1>1, <1>2, <1>3, TakesOf DEF SrvPcs
<1>5. link[s].up \in Seq(Line) /\ link[s].down \in Seq(Line) /\ link'[s].srv = "password"
      /\ link'[s].up = Tail(link[s].up)
      /\ link'[s].down = IF Ended(s) THEN link[s].down ELSE link[s].down \o x
  BY <1>2, <1>4 DEF Links
<1>6. Written(s)'
  BY <1>2, <1>5, WrittenTaken DEF SInv, Session
<1>7. ASSUME side[s] = "login" PROVE LoginStands(link'[s])
  <2>1. link[s].up = <<Prompt("uid")>> /\ link[s].down = <<>> /\ ~Ended(s)
    BY <1>2, <1>7 DEF SInv, Session, LoginStands, Ended
  <2>2. Tail(link[s].up) = <<>> /\ link[s].down \o x = x
    BY <1>1, <2>1, ConcatEmptySeq
  <2> QED
    BY <1>5, <2>1, <2>2 DEF LoginStands, x
<1>8. Session(s)'
  BY <1>6, <1>7, SessionOf DEF SInv
<1>9. ASSUME s \in Conns PROVE Heard(s)'
  <2>1. NoPrompt(link[s].down) => NoPrompt(link'[s].down)
    BY <1>1, <1>5, CatLines
  <2> QED
    BY <1>2, <1>5, <1>9, <2>1, AskedOnly DEF SInv, Session
<1>10. ASSUME s \in Conns PROVE Witness(s)'
  <2>1. Follows(link[s].down, link[s].down)
    BY DEF Follows
  <2>2. Follows(link[s].down, link'[s].down)
    BY <1>1, <1>5, <2>1, FollowsCat
  <2> QED
    BY <1>10, <2>2, WitnessKept DEF SInv, Quiescent
<1> QED
  BY <1>2, <1>4, <1>5, <1>8, <1>9, <1>10 DEF SInv

LEMMA CheckPasswordKeeps ==
  ASSUME TypeOK, HistoryOK, NEW s \in Sessions, SInv(s), CheckPassword(s), Quiescent, Remembered
  PROVE  /\ link' \in [Sessions -> Links] /\ SInv(s)' /\ level' = level
         /\ Ended(s) => link'[s].down = link[s].down
         /\ \A j \in Sessions \ {s} : link'[j] = link[j]
<1> DEFINE good == Head(link[s].up) = Prompt("upw")
           x == IF good THEN <<>> ELSE <<Prompt("bad login"), Prompt("login:")>>
           srv == IF good THEN "greeting" ELSE "login"
<1>1. x \in Seq(Line) /\ NoPrompt(x) /\ \A i \in DOMAIN x : Current(x[i])
  <2>1. CASE good
    BY <2>1 DEF NoPrompt
  <2>2. CASE ~good
    BY <2>2, TwoPrompts DEF Kinds, Prompting
  <2> QED
    BY <2>1, <2>2
<1>2. link \in [Sessions -> Links] /\ link[s].up # <<>> /\ link[s].srv = "password" /\ level' = level
  BY DEF TypeOK, Links, CheckPassword
<1>3. Takes(s, link, srv, x) /\ srv \in SrvPcs
  BY DEF CheckPassword, SrvPcs
<1>4. /\ good => x = <<>> /\ srv = "greeting"
      /\ ~good => srv = "login"
      /\ Head(link[s].up).kind \in {"set", "get"} => ~good
  BY DEF Prompt
<1> HIDE DEF x, srv, good
<1>5. /\ link' \in [Sessions -> Links]
      /\ link'[s] = [srv |-> srv, up |-> Tail(link[s].up),
                     down |-> IF Ended(s) THEN link[s].down ELSE link[s].down \o x]
      /\ \A j \in Sessions \ {s} : link'[j] = link[j]
  BY <1>1, <1>2, <1>3, TakesOf
<1>6. link[s].up \in Seq(Line) /\ link[s].down \in Seq(Line) /\ link'[s].srv = srv
      /\ link'[s].up = Tail(link[s].up)
      /\ link'[s].down = IF Ended(s) THEN link[s].down ELSE link[s].down \o x
  BY <1>2, <1>5 DEF Links
<1>7. Written(s)'
  BY <1>2, <1>6, WrittenTaken DEF SInv, Session
<1>8. ASSUME side[s] = "login" PROVE LoginStands(link'[s])
  <2>1. link[s].up = <<Prompt("upw")>> /\ link[s].down = <<>> /\ ~Ended(s)
    BY <1>2, <1>8 DEF SInv, Session, LoginStands, Ended
  <2>2. Tail(link[s].up) = <<>> /\ good
    BY <2>1 DEF good
  <2>3. link'[s].down = <<>>
    BY <1>1, <1>4, <1>6, <2>1, <2>2, ConcatEmptySeq
  <2> QED
    BY <1>4, <1>6, <2>2, <2>3 DEF LoginStands, Plain, NoPrompt
<1>9. Session(s)'
  BY <1>7, <1>8, SessionOf DEF SInv
<1>10. ASSUME s \in Conns PROVE Heard(s)'
  <2>1. NoPrompt(link[s].down) => NoPrompt(link'[s].down)
    BY <1>1, <1>6, CatLines
  <2>2. Head(link[s].up).kind \in {"set", "get"} => link'[s].srv # "greeting"
    BY <1>4, <1>6
  <2>3. link'[s].srv \in {"login", "password", "greeting"}
    BY <1>4, <1>6
  <2> QED
    BY <1>2, <1>6, <1>10, <2>1, <2>2, <2>3, AskedOnly DEF SInv, Session
<1>11. ASSUME s \in Conns PROVE Witness(s)'
  <2>1. Follows(link[s].down, link[s].down)
    BY DEF Follows
  <2>2. Follows(link[s].down, link'[s].down)
    BY <1>1, <1>6, <2>1, FollowsCat
  <2> QED
    BY <1>11, <2>2, WitnessKept DEF SInv, Quiescent
<1> QED
  BY <1>2, <1>5, <1>6, <1>9, <1>10, <1>11 DEF SInv

LEMMA GreetKeeps ==
  ASSUME TypeOK, HistoryOK, NEW s \in Sessions, SInv(s), Greet(s), Quiescent, Remembered
  PROVE  /\ link' \in [Sessions -> Links] /\ SInv(s)' /\ level' = level
         /\ Ended(s) => link'[s].down = link[s].down
         /\ ~Ended(s) => link'[s].down = link[s].down \o Ready
         /\ \A j \in Sessions \ {s} : link'[j] = link[j]
<1> DEFINE x == Ready
           pushed == [link EXCEPT ![s].up = <<None>> \o @]
           d == IF Ended(s) THEN link[s].down ELSE link[s].down \o x
<1>1. x \in Seq(Line) /\ Plain(x) /\ \A i \in DOMAIN x : Current(x[i])
  BY ReadyLines
<1>2. /\ link \in [Sessions -> Links] /\ link[s].srv = "greeting" /\ level' = level
      /\ link[s].up \in Seq(Line) /\ link[s].down \in Seq(Line) /\ link[s] \in Links
  BY DEF TypeOK, Links, Greet
<1>3. pushed[s].up = <<None>> \o link[s].up /\ pushed[s].down = link[s].down
  BY <1>2 DEF Links
<1>4. Tail(pushed[s].up) = link[s].up
  BY <1>2, <1>3, TailOfPushed
<1>5. link' = [pushed EXCEPT ![s].up = Tail(pushed[s].up), ![s].srv = "ready",
                             ![s].down = IF Ended(s) THEN pushed[s].down ELSE pushed[s].down \o x]
  BY SMTT(30) DEF Greet, Takes
<1>6. link' = [pushed EXCEPT ![s].up = link[s].up, ![s].srv = "ready", ![s].down = d]
  BY <1>3, <1>4, <1>5
<1>7. d \in Seq(Line)
  BY <1>1, <1>2, CatAt
<1>8. ~Ended(s) => d = link[s].down \o x
  OBVIOUS
<1> HIDE DEF d, x
<1>9. link'[s] = [srv |-> "ready", up |-> link[s].up, down |-> d]
  <2>1. link[s] = [srv |-> link[s].srv, up |-> link[s].up, down |-> link[s].down]
    BY <1>2 DEF Links
  <2>2. pushed[s] = [srv |-> link[s].srv, up |-> <<None>> \o link[s].up, down |-> link[s].down]
    BY <1>2, <2>1
  <2>3. pushed \in [Sessions -> [srv : SrvPcs, up : {pushed[j].up : j \in Sessions}, down : Seq(Line)]]
    BY <1>2 DEF Links
  <2> HIDE DEF pushed
  <2> QED
    BY <1>6, <2>2, <2>3
<1>10. link' = [link EXCEPT ![s] = link'[s]]
  <2>1. pushed = [link EXCEPT ![s] = pushed[s]]
    BY <1>2
  <2> HIDE DEF pushed
  <2> QED
    BY <1>2, <1>6, <2>1
<1>11. [srv |-> "ready", up |-> link[s].up, down |-> d] \in Links
  BY <1>2, <1>7 DEF Links, SrvPcs
<1>12. link' \in [Sessions -> Links] /\ \A j \in Sessions \ {s} : link'[j] = link[j]
  BY <1>2, <1>9, <1>10, <1>11
<1>13. link'[s].srv = "ready" /\ link'[s].up = link[s].up /\ link'[s].down = d
  BY <1>9
<1>14. Written(s)'
  BY <1>13 DEF Written, SInv, Session
<1>15. ASSUME side[s] = "login" PROVE LoginStands(link'[s])
  <2>1. link[s].up = <<>> /\ Plain(link[s].down) /\ NoPrompt(link[s].down) /\ ~Ended(s)
    BY <1>2, <1>15 DEF SInv, Session, LoginStands, Ended
  <2>2. Plain(d)
    BY <1>1, <1>2, <1>8, <2>1, CatLines
  <2>3. OnePrompt(d)
    <3> DEFINE m == Len(link[s].down)
    <3>1. Len(x) = 2 /\ x[2].kind = "GNET>" /\ x[1].kind # "GNET>"
      <4>1. Prompt("GNET>").kind = "GNET>" /\ Prompt("blank").kind # "GNET>"
        BY DEF Prompt
      <4> QED
        BY <4>1, ReadyLines DEF x
    <3>2. m \in Nat /\ DOMAIN link[s].down = 1..m
      BY <1>2, LenProperties
    <3>3. /\ Len(d) = m + 2 /\ \A i \in 1..m : d[i] = link[s].down[i]
          /\ \A i \in 1..2 : d[m + i] = x[i]
      <4>1. PICK p \in Seq(Line) : p = link[s].down
        BY <1>2
      <4>2. /\ d = p \o x /\ Len(p \o x) = Len(p) + Len(x)
            /\ \A i \in 1..Len(p) : (p \o x)[i] = p[i]
            /\ \A i \in 1..Len(x) : (p \o x)[Len(p) + i] = x[i]
        BY <1>1, <1>8, <2>1, <4>1, CatAt
      <4> QED
        BY <3>1, <4>1, <4>2
    <3>4. DOMAIN d = 1..(m + 2) /\ d[m + 1] = x[1]
      BY <1>7, <3>2, <3>1, <3>3, LenProperties
    <3> HIDE DEF m, d, x
    <3>5. ASSUME NEW i \in DOMAIN d, d[i].kind = "GNET>" PROVE i = m + 2
      <4>1. CASE i \in 1..m
        <5>1. i \in DOMAIN link[s].down /\ link[s].down[i].kind = "GNET>"
          BY <3>2, <3>3, <3>5, <4>1
        <5> QED
          BY <2>1, <5>1 DEF NoPrompt, Prompting
      <4>2. CASE i = m + 1
        BY <3>1, <3>4, <3>5, <4>2
      <4> QED
        BY <3>2, <3>4, <4>1, <4>2
    <3>6. \A j \in DOMAIN d : j <= m + 2
      BY <3>2, <3>4
    <3> QED
      BY <3>5, <3>6 DEF OnePrompt
  <2> QED
    BY <1>13, <2>1, <2>2, <2>3 DEF LoginStands
<1>16. Session(s)'
  BY <1>14, <1>15, SessionOf DEF SInv
<1>17. ASSUME s \in Conns PROVE Heard(s)'
  <2>1. (s \in misread' <=> s \in misread) /\ (s \in taken' <=> s \in taken)
    BY <1>2, <1>13, <1>17, NothingTaken
  <2>2. side[s] # "idle" /\ side[s] # "ok" /\ (side[s] = "reply" => s \in silent /\ s \notin misread)
    BY <1>2, <1>17 DEF SInv, Heard, Closed, Replied, Stuck
  <2> QED
    BY <1>13, <1>17, <2>1, <2>2 DEF SInv, Heard, Replied, Stuck, Quiescent
<1>18. ASSUME s \in Conns PROVE Witness(s)'
  <2>1. Follows(link[s].down, link[s].down)
    BY DEF Follows
  <2>2. Follows(link[s].down, link'[s].down)
    BY SMTT(30), <1>1, <1>2, <1>13, <2>1, FollowsCat DEF d
  <2> QED
    BY <1>18, <2>2, WitnessKept DEF SInv, Quiescent
<1> QED
  BY <1>2, <1>12, <1>13, <1>16, <1>17, <1>18 DEF SInv, d, x

LEMMA ExecuteKeeps ==
  ASSUME TypeOK, HistoryOK, NEW s \in Sessions, SInv(s), Execute(s), Quiescent, Remembered
  PROVE  /\ link' \in [Sessions -> Links] /\ SInv(s)'
         /\ Ended(s) => link'[s].down = link[s].down
         /\ s = Monitor /\ ~Ended(s) =>
              link'[s].down = link[s].down \o (<<Prompt("~ERROR")>> \o Ready)
         /\ \/ /\ level' = level
               /\ \A j \in Sessions \ {s} : link'[j] = link[j]
            \/ s # Monitor /\ \E l \in Lights, v \in Levels : \E r \in Reports(l, v) :
                 /\ level' = [level EXCEPT ![l] = v]
                 /\ \A j \in Sessions \ {s} : link'[j] = Told(r)[j]
<1>1. /\ link \in [Sessions -> Links] /\ link[s].srv = "ready" /\ link[s].up # <<>>
      /\ link[s].up \in Seq(Line) /\ link[s].down \in Seq(Line)
      /\ level \in [Lights -> Levels]
  BY DEF TypeOK, Links, Execute
<1> DEFINE cmd == Head(link[s].up)
           ok == Ready
<1>2. cmd.kind \in {"set", "get"} =>
        s # Monitor /\ cmd.light \in Lights /\ (cmd.kind = "set" => cmd.val \in Levels)
  BY <1>1, TailAt DEF SInv, Session, Written
<1>3. ok \in Seq(Line) /\ \A i \in DOMAIN ok : Current(ok[i])
  BY ReadyLines
<1> DEFINE Own(d) ==
      /\ link'[s] = [srv |-> "ready", up |-> Tail(link[s].up), down |-> d]
      /\ link' \in [Sessions -> Links]
      /\ ~Ended(s) => Follows(link[s].down, d)
      /\ Ended(s) => d = link[s].down
<1>4. ASSUME NEW d, Own(d) PROVE SInv(s)' /\ (Ended(s) => link'[s].down = link[s].down)
  <2>1. link'[s].srv = "ready" /\ link'[s].up = Tail(link[s].up) /\ link'[s].down = d
    BY <1>4
  <2>2. Written(s)' /\ Len(link'[s].up) < Len(link[s].up)
    BY <1>1, <2>1, WrittenTaken DEF SInv, Session
  <2>3. side[s] # "login"
    BY <1>1 DEF SInv, Session, LoginStands
  <2>4. Session(s)'
    BY <2>2, <2>3, SessionOf DEF SInv
  <2>5. ASSUME s \in Conns PROVE Heard(s)'
    <3>1. s \in taken' /\ taken \subseteq taken' /\ (s \in misread' => s \in misread)
      BY <1>1, <2>1, <2>2, <2>5, AfterTaking
    <3>2. side[s] # "idle" /\ (side[s] = "reply" => s \notin misread)
      BY <1>1, <2>5 DEF SInv, Heard, Closed, Replied, Stuck
    <3> QED
      BY <2>1, <2>3, <2>5, <3>1, <3>2 DEF SInv, Heard, Replied, Stuck, Quiescent
  <2>6. ASSUME s \in Conns PROVE Witness(s)'
    <3>1. Follows(link[s].down, link'[s].down)
      BY <1>4, <2>1, <2>6 DEF Follows
    <3> QED
      BY <2>6, <3>1, WitnessKept DEF SInv, Quiescent
  <2> QED
    BY <1>4, <2>1, <2>4, <2>5, <2>6 DEF SInv
<1>5. CASE Takes(s, link, "ready", <<Prompt("~ERROR")>> \o Ready) /\ UNCHANGED level
  <2> DEFINE x == <<Prompt("~ERROR")>> \o Ready
             d == IF Ended(s) THEN link[s].down ELSE link[s].down \o x
  <2>1. x \in Seq(Line) /\ \A i \in DOMAIN x : Current(x[i])
    <3>1. Prompt("~ERROR") \in Line /\ Current(Prompt("~ERROR"))
      BY LinesAre DEF Kinds, Current, Prompt
    <3> QED
      BY <3>1, BeforeReady
  <2> HIDE DEF x
  <2>2. /\ link' \in [Sessions -> Links]
        /\ link'[s] = [srv |-> "ready", up |-> Tail(link[s].up), down |-> d]
        /\ \A j \in Sessions \ {s} : link'[j] = link[j]
    BY <1>1, <1>5, <2>1, TakesOf DEF SrvPcs, x
  <2>3. ~Ended(s) => Follows(link[s].down, d)
    <3>1. Follows(link[s].down, link[s].down)
      BY DEF Follows
    <3> QED
      BY <1>1, <2>1, <3>1, FollowsCat
  <2>4. link'[s].down = d
    BY <2>2
  <2> QED
    BY <1>4, <1>5, <2>2, <2>3, <2>4 DEF x
<1>6. CASE /\ cmd.kind = "get" /\ UNCHANGED level
           /\ Takes(s, link, "ready", <<LevelLine(cmd.light, level[cmd.light])>> \o Ready)
  <2> DEFINE x == <<LevelLine(cmd.light, level[cmd.light])>> \o Ready
             d == IF Ended(s) THEN link[s].down ELSE link[s].down \o x
  <2>1. x \in Seq(Line) /\ \A i \in DOMAIN x : Current(x[i])
    <3>1. level[cmd.light] \in Nat /\ cmd.light \in Lights
      BY <1>1, <1>2, <1>6, LutronAssumption
    <3>2. PICK y : y = LevelLine(cmd.light, level[cmd.light])
      OBVIOUS
    <3>3. y \in Line
      BY <3>1, <3>2, LinesAre
    <3>4. Current(y)
      BY <1>6, <3>2 DEF LevelLine, Current
    <3> QED
      BY <3>2, <3>3, <3>4, BeforeReady
  <2> HIDE DEF x
  <2>2. /\ link' \in [Sessions -> Links]
        /\ link'[s] = [srv |-> "ready", up |-> Tail(link[s].up), down |-> d]
        /\ \A j \in Sessions \ {s} : link'[j] = link[j]
    BY <1>1, <1>6, <2>1, TakesOf DEF SrvPcs, x
  <2>3. ~Ended(s) => Follows(link[s].down, d)
    <3>1. Follows(link[s].down, link[s].down)
      BY DEF Follows
    <3> QED
      BY <1>1, <2>1, <3>1, FollowsCat
  <2> QED
    BY <1>2, <1>4, <1>6, <2>2, <2>3
<1>7. ASSUME cmd.kind = "set", level' = [level EXCEPT ![cmd.light] = cmd.val],
             NEW r \in Reports(cmd.light, cmd.val), Takes(s, Told(r), "ready", ok)
      PROVE  /\ link' \in [Sessions -> Links] /\ SInv(s)' /\ s # Monitor
             /\ Ended(s) => link'[s].down = link[s].down
             /\ \A j \in Sessions \ {s} : link'[j] = Told(r)[j]
  <2>1. PICK l \in Lights, v \in Levels : l = cmd.light /\ v = cmd.val
    BY <1>2, <1>7
  <2>2. PICK all : all = Told(r)
    OBVIOUS
  <2>3. /\ all \in [Sessions -> Links] /\ all[s].up = link[s].up
        /\ all[s] = IF link[s].srv \in {"greeting", "ready"} /\ ~Ended(s)
                    THEN [link[s] EXCEPT !.down = @ \o r] ELSE link[s]
    <3>1. r \in Reports(l, v)
      BY <1>7, <2>1
    <3> QED
      BY ONLY TypeOK, l \in Lights, v \in Levels, <3>1, <2>2, s \in Sessions, ToldOne
  <2>4. all[s].down = IF Ended(s) THEN link[s].down ELSE link[s].down \o r
    BY <1>1, <2>3 DEF Links
  <2> DEFINE d == IF Ended(s) THEN all[s].down ELSE all[s].down \o ok
  <2> HIDE DEF ok
  <2>5. /\ link' \in [Sessions -> Links]
        /\ link'[s] = [srv |-> "ready", up |-> Tail(link[s].up), down |-> d]
        /\ \A j \in Sessions \ {s} : link'[j] = all[j]
    <3>1. Takes(s, all, "ready", ok) /\ all[s].up # <<>>
      BY <1>1, <1>7, <2>2, <2>3
    <3>2. ok \in Seq(Line) /\ all \in [Sessions -> Links] /\ "ready" \in SrvPcs
          /\ all[s].up = link[s].up
      BY <1>3, <2>3 DEF SrvPcs
    <3>3. /\ link' \in [Sessions -> Links]
          /\ link'[s] = [srv |-> "ready", up |-> Tail(all[s].up),
                         down |-> IF Ended(s) THEN all[s].down ELSE all[s].down \o ok]
          /\ \A j \in Sessions \ {s} : link'[j] = all[j]
      BY <3>1, <3>2, TakesOf
    <3> QED
      BY <3>2, <3>3
  <2>6. ASSUME ~Ended(s) PROVE Follows(link[s].down, d)
    <3>1. level'[l] = v
      BY <1>1, <1>7, <2>1
    <3>2. Follows(link[s].down, link[s].down \o r)
      BY <1>1, <1>7, <2>1, <2>6, <3>1, ToldFollows
    <3>3. link[s].down \o r \in Seq(Line)
      BY <1>1, <1>7, <2>1, ReportLines, CatLines
    <3> QED
      BY <1>3, <2>4, <2>6, <3>2, <3>3, FollowsCat
  <2>7. Own(d)
    BY <2>4, <2>5, <2>6
  <2> QED
    BY <1>2, <1>4, <1>7, <2>2, <2>5, <2>7
<1> QED
  <2>1. CASE /\ cmd.kind = "set" /\ level' = [level EXCEPT ![cmd.light] = cmd.val]
             /\ \E r \in Reports(cmd.light, cmd.val) : Takes(s, Told(r), "ready", ok)
    BY <1>2, <1>7, <2>1
  <2> QED
    BY Zenon, <1>5, <1>6, <2>1 DEF Execute

\* What is told to all sessions is what each may be told.
LEMMA ToldStays ==
  ASSUME TypeOK, NEW l \in Lights, NEW v \in Levels, NEW r \in Reports(l, v),
         level' = [level EXCEPT ![l] = v], NEW s \in Sessions, link'[s] = Told(r)[s]
  PROVE  Stays(s)
<1>1. level'[l] = v
  BY DEF TypeOK
<1>2. link'[s] = IF link[s].srv \in {"greeting", "ready"} /\ ~Ended(s)
                 THEN [link[s] EXCEPT !.down = @ \o r] ELSE link[s]
  BY DEF Told
<1> QED
  BY <1>1, <1>2 DEF Stays, ToldOf

LEMMA RepeaterStep ==
  ASSUME TypeOK, HistoryOK, \A j \in Sessions : SInv(j), NEW s \in Sessions,
         Repeater(s), Remembered
  PROVE  TypeOK' /\ \A j \in Sessions : SInv(j)'
<1>1. /\ side' = side /\ silent' = silent /\ call' = call /\ batch' = batch /\ channel' = channel
      /\ receiver' = receiver
  BY DEF Repeater
<1>2. Quiescent
  BY <1>1 DEF Quiescent
<1>3. /\ link' \in [Sessions -> Links] /\ SInv(s)'
      /\ Ended(s) => link'[s].down = link[s].down
      /\ \/ /\ level' = level
            /\ \A j \in Sessions \ {s} : link'[j] = link[j]
         \/ s # Monitor /\ \E l \in Lights, v \in Levels : \E r \in Reports(l, v) :
              /\ level' = [level EXCEPT ![l] = v]
              /\ \A j \in Sessions \ {s} : link'[j] = Told(r)[j]
  BY <1>2, AskPasswordKeeps, CheckPasswordKeeps, GreetKeeps, ExecuteKeeps DEF Repeater
<1>4. level' \in [Lights -> Levels] /\ \A j \in Sessions \ {s} : Stays(j)
  <2>1. CASE level' = level /\ \A j \in Sessions \ {s} : link'[j] = link[j]
    BY <2>1 DEF TypeOK, Stays
  <2>2. ASSUME NEW l \in Lights, NEW v \in Levels, NEW r \in Reports(l, v),
               level' = [level EXCEPT ![l] = v],
               \A j \in Sessions \ {s} : link'[j] = Told(r)[j]
        PROVE  level' \in [Lights -> Levels] /\ \A j \in Sessions \ {s} : Stays(j)
    <3>1. level' \in [Lights -> Levels]
      BY <2>2 DEF TypeOK
    <3>2. \A j \in Sessions \ {s} : Stays(j)
      BY <2>2, ToldStays
    <3> QED
      BY <3>1, <3>2
  <2> QED
    BY <1>3, <2>1, <2>2
<1>5. ASSUME NEW j \in Sessions \ {s} PROVE SInv(j)' /\ (Ended(j) => link'[j] = link[j])
  <2>1. Bystands(j)
    BY <1>1, <1>4 DEF Bystands
  <2> QED
    BY <1>4, <2>1, Bystander, StaysDown
<1>6. \A j \in Sessions : Ended(j)' => link'[j].down = <<>>
  <2>1. \A j \in Sessions : Ended(j)' <=> Ended(j)
    BY <1>1 DEF Ended
  <2> QED
    BY <1>3, <1>5, <2>1 DEF TypeOK
<1>7. TypeOK'
  BY <1>1, <1>3, <1>4, <1>6 DEF TypeOK, Links
<1> QED
  BY <1>3, <1>5, <1>7

LEMMA ByHandStep ==
  ASSUME TypeOK, HistoryOK, \A j \in Sessions : SInv(j), NEW l \in Lights,
         ByHand(l), Remembered
  PROVE  TypeOK' /\ \A j \in Sessions : SInv(j)'
<1>1. /\ side' = side /\ silent' = silent /\ call' = call /\ batch' = batch /\ channel' = channel
      /\ receiver' = receiver
  BY DEF ByHand
<1>2. PICK v \in Levels : level' = [level EXCEPT ![l] = v] /\ \E r \in Reports(l, v) : link' = Told(r)
  BY DEF ByHand
<1>3. PICK r \in Reports(l, v) : link' = Told(r)
  BY <1>2
<1>4. link' \in [Sessions -> Links]
  BY <1>3, ToldAll
<1>5. ASSUME NEW j \in Sessions PROVE SInv(j)' /\ (Ended(j) => link'[j] = link[j])
  <2>1. Stays(j)
    BY <1>2, <1>3, ToldStays
  <2>2. Bystands(j)
    BY <1>1, <2>1 DEF Bystands
  <2> QED
    BY <2>1, <2>2, Bystander, StaysDown
<1>6. \A j \in Sessions : Ended(j)' => link'[j].down = <<>>
  <2>1. \A j \in Sessions : Ended(j)' <=> Ended(j)
    BY <1>1 DEF Ended
  <2> QED
    BY <1>5, <2>1 DEF TypeOK
<1>7. TypeOK'
  BY <1>1, <1>2, <1>4, <1>6 DEF TypeOK, Links
<1> QED
  BY <1>5, <1>7

LEMMA BreakStep ==
  ASSUME TypeOK, HistoryOK, \A j \in Sessions : SInv(j), NEW s \in Sessions,
         Break(s), Remembered
  PROVE  TypeOK' /\ \A j \in Sessions : SInv(j)'
<1>1. /\ side' = side /\ silent' = silent /\ call' = call /\ batch' = batch /\ channel' = channel
      /\ receiver' = receiver /\ level' = level
      /\ link' = [link EXCEPT ![s].srv = "closed", ![s].up = <<>>] /\ ~Ended(s)
      /\ link[s].srv # "closed"
  BY DEF Break
<1>2. link \in [Sessions -> Links] /\ link[s] \in Links
  BY DEF TypeOK, Links
<1>3. /\ link' \in [Sessions -> Links]
      /\ link'[s].srv = "closed" /\ link'[s].up = <<>> /\ link'[s].down = link[s].down
      /\ \A j \in Sessions \ {s} : link'[j] = link[j]
  <2>1. link[s] = [srv |-> link[s].srv, up |-> link[s].up, down |-> link[s].down]
    BY <1>2 DEF Links
  <2>2. link'[s] = [srv |-> "closed", up |-> <<>>, down |-> link[s].down]
    BY <1>1, <1>2, <2>1
  <2>3. link'[s] \in Links
    BY <1>2, <2>2 DEF Links, SrvPcs
  <2>4. link' = [link EXCEPT ![s] = link'[s]]
    BY <1>1, <1>2
  <2> QED
    BY <1>2, <2>2, <2>3, <2>4
<1>4. SInv(s)'
  <2>1. Written(s)'
    BY <1>3 DEF Written
  <2>2. ASSUME side[s] = "login" PROVE LoginStands(link'[s])
    <3>1. OnePrompt(link[s].down)
      BY <2>2 DEF SInv, Session, LoginStands, OnePrompt, NoPrompt, Prompt, Prompting
    <3> QED
      BY <1>3, <3>1 DEF LoginStands, OnePrompt
  <2>3. Session(s)'
    BY <1>1, <2>1, <2>2, SessionOf DEF SInv, Quiescent
  <2>4. ASSUME s \in Conns PROVE Heard(s)'
    <3>1. /\ s \in misread' <=> s \in misread
          /\ taken \subseteq taken'
      BY <1>3, <2>4 DEF Remembered, TakesLine
    <3>2. side[s] # "idle"
      BY <1>1, <2>4 DEF SInv, Heard, Closed
    <3>3. NoPrompt(link'[s].down) <=> NoPrompt(link[s].down)
      BY <1>3
    <3> QED
      BY <1>1, <1>3, <2>4, <3>1, <3>2, <3>3 DEF SInv, Heard, Replied, Stuck
  <2>5. ASSUME s \in Conns PROVE Witness(s)'
    <3>1. Follows(link[s].down, link'[s].down)
      BY <1>3 DEF Follows
    <3> QED
      BY <1>1, <2>5, <3>1, WitnessKept DEF SInv
  <2> QED
    BY <2>3, <2>4, <2>5 DEF SInv
<1>5. ASSUME NEW j \in Sessions \ {s} PROVE SInv(j)'
  <2>1. Bystands(j)
    BY <1>1, <1>3 DEF Bystands, Stays
  <2> QED
    BY <2>1, Bystander
<1>6. \A j \in Sessions : Ended(j)' => link'[j].down = <<>>
  BY <1>1, <1>3 DEF Ended, TypeOK
<1>7. TypeOK'
  BY <1>1, <1>3, <1>6 DEF TypeOK, Links
<1> QED
  BY <1>4, <1>5, <1>7

-----------------------------------------------------------------------------
(* The driver: one session at a time.                                      *)

LEMMA DriverStep ==
  ASSUME TypeOK, HistoryOK, \A j \in Sessions : SInv(j), NEW s \in Sessions, Remembered,
         level' = level, link' = [link EXCEPT ![s] = link'[s]], link'[s] \in Links,
         side' = [side EXCEPT ![s] = side'[s]], side'[s] \in Sides(s),
         silent' \subseteq silent \cup {s}, silent \subseteq silent' \cup {s},
         call' \in [Conns -> Calls], \A c \in Conns \ {s} : call'[c] = call[c],
         batch' \in Seq(Line), batch' = <<>> <=> side'[Monitor] # "send",
         channel' \in Seq(Line), Len(channel') <= Capacity,
         side'[s] \in {"ok", "err"} => link'[s].down = <<>>,
         SInv(s)'
  PROVE  TypeOK' /\ \A j \in Sessions : SInv(j)'
<1>1. ASSUME NEW j \in Sessions \ {s} PROVE SInv(j)'
  <2>1. link'[j] = link[j] /\ side'[j] = side[j] /\ (j \in silent' <=> j \in silent)
    BY DEF TypeOK
  <2>2. Bystands(j)
    BY <2>1 DEF Bystands, Stays
  <2> QED
    BY <2>2, Bystander
<1>2. link' \in [Sessions -> Links]
  BY DEF TypeOK, Links
<1>3. side' \in [Sessions -> DriverPcs] /\ silent' \subseteq Sessions
  <2>1. side'[s] \in DriverPcs
    BY DEF Sides, DriverPcs
  <2> QED
    BY <2>1 DEF TypeOK
<1>4. \A j \in Sessions : Ended(j)' => link'[j].down = <<>>
  BY <1>2, <1>3 DEF Ended, TypeOK
<1>5. level' \in [Lights -> Levels]
  BY DEF TypeOK
<1>6. TypeOK'
  BY <1>2, <1>3, <1>4, <1>5 DEF TypeOK, Links, Calls
<1> QED
  BY <1>1, <1>6

\* The end of a session.
LEMMA EndOf ==
  ASSUME TypeOK, NEW s \in Sessions, NEW k \in Links, NEW o \in {"ok", "err"}, End(s, k, o)
  PROVE  /\ link' = [link EXCEPT ![s] = link'[s]] /\ side' = [side EXCEPT ![s] = side'[s]]
         /\ link'[s] \in Links /\ side'[s] = (IF s = Monitor THEN "sleep" ELSE o)
         /\ s # Monitor => link'[s] = [srv |-> k.srv, up |-> k.up, down |-> <<>>]
         /\ s = Monitor => link'[s] = Closed
<1>1. k = [srv |-> k.srv, up |-> k.up, down |-> k.down] /\ k.srv \in SrvPcs /\ k.up \in Seq(Line)
  BY DEF Links
<1>2. [k EXCEPT !.down = <<>>] = [srv |-> k.srv, up |-> k.up, down |-> <<>>]
  BY <1>1
<1>3. [srv |-> k.srv, up |-> k.up, down |-> <<>>] \in Links /\ Closed \in Links
  BY <1>1 DEF Links, Closed, SrvPcs
<1>4. link \in [Sessions -> Links] /\ side \in [Sessions -> DriverPcs]
  BY DEF TypeOK, Links
<1> DEFINE e == IF s = Monitor THEN Closed ELSE [k EXCEPT !.down = <<>>]
           o2 == IF s = Monitor THEN "sleep" ELSE o
<1>5. link' = [link EXCEPT ![s] = e] /\ side' = [side EXCEPT ![s] = o2]
  BY DEF End
<1>6. e \in Links
  BY <1>2, <1>3
<1> HIDE DEF e, o2
<1>7. /\ link' = [link EXCEPT ![s] = link'[s]] /\ side' = [side EXCEPT ![s] = side'[s]]
      /\ link'[s] = e /\ side'[s] = o2
  BY <1>4, <1>5
<1> QED
  BY <1>2, <1>6, <1>7 DEF e, o2

\* The invariant of a session that has ended without an answer.
LEMMA EndedWell ==
  ASSUME NEW s \in Sessions, Session(s), Remembered,
         side'[s] = IF s = Monitor THEN "sleep" ELSE "err",
         s # Monitor => link'[s].up = link[s].up,
         s = Monitor => link'[s].up = <<>>
  PROVE  SInv(s)'
<1>1. Written(s)'
  BY DEF Written, Session
<1> QED
  BY <1>1, LutronAssumption DEF SInv, Session, Sides, Heard, Witness, Sessions

\* What has been read or written in a session does not count as taken.
LEMMA NotTaken ==
  ASSUME NEW c \in Conns, Remembered, link[c].up \in Seq(Line),
         \/ link'[c].up = link[c].up
         \/ \E x \in Line : link'[c].up = Append(link[c].up, x)
         \/ link[c].up = <<>> /\ link'[c].up \in Seq(Line)
  PROVE  (c \in misread' <=> c \in misread) /\ (c \in taken' <=> c \in taken)
<1>1. Len(link[c].up) \in Nat
  BY LenProperties
<1>2. ~(Len(link'[c].up) < Len(link[c].up))
  <2>1. CASE \E x \in Line : link'[c].up = Append(link[c].up, x)
    BY <1>1, <2>1, AppendProperties
  <2>2. CASE link[c].up = <<>> /\ link'[c].up \in Seq(Line)
    BY <2>2, EmptySeq, LenProperties
  <2> QED
    BY <1>1, <2>1, <2>2
<1> QED
  BY <1>2 DEF Remembered, TakesLine

LEMMA ConnectStep ==
  ASSUME TypeOK, HistoryOK, \A j \in Sessions : SInv(j), NEW s \in Sessions,
         Connect(s), Remembered
  PROVE  TypeOK' /\ \A j \in Sessions : SInv(j)'
<1>1. /\ level' = level /\ batch' = batch /\ channel' = channel /\ receiver' = receiver
      /\ side[s] = IF s = Monitor THEN "connect" ELSE "idle"
  BY DEF Connect
<1>2. /\ link \in [Sessions -> Links] /\ side \in [Sessions -> DriverPcs]
      /\ call \in [Conns -> Calls] /\ batch \in Seq(Line) /\ (batch = <<>> <=> side[Monitor] # "send")
      /\ channel \in Seq(Line) /\ Len(channel) <= Capacity /\ Monitor \in Sessions
  BY DEF TypeOK, Links, Calls, Sessions
<1>3. Session(s) /\ (s \in Conns => Heard(s) /\ Witness(s))
  BY DEF SInv
<1>4. s # Monitor => s \in Conns
  BY DEF Sessions
<1>5. CASE /\ side' = [side EXCEPT ![s] = "login"] /\ link' = [link EXCEPT ![s] = Fresh]
           /\ silent' = silent \ {s}
           /\ IF s = Monitor THEN UNCHANGED call
              ELSE \E r \in Asked : call' = [call EXCEPT ![s].req = r]
  <2>1. Fresh \in Links /\ Fresh.up = <<>> /\ Fresh.srv = "login" /\ Fresh.down = <<Prompt("login:")>>
    <3>1. <<Prompt("login:")>> \in Seq(Line)
      BY PromptLines DEF Kinds
    <3> QED
      BY <3>1 DEF Fresh, Links, SrvPcs
  <2>2. /\ link'[s] = Fresh /\ side'[s] = "login" /\ link' = [link EXCEPT ![s] = link'[s]]
        /\ side' = [side EXCEPT ![s] = side'[s]]
    BY <1>2, <1>5
  <2>3. /\ call' \in [Conns -> Calls] /\ \A c \in Conns \ {s} : call'[c] = call[c]
        /\ s \in Conns => call'[s].req \in Asked /\ call'[s].lines = call[s].lines
    <3>1. CASE s = Monitor
      BY <1>2, <1>5, <3>1, LutronAssumption
    <3>2. ASSUME s # Monitor, NEW r \in Asked, call' = [call EXCEPT ![s].req = r]
          PROVE  /\ call' \in [Conns -> Calls] /\ \A c \in Conns \ {s} : call'[c] = call[c]
                 /\ call'[s].req \in Asked /\ call'[s].lines = call[s].lines
      BY <1>2, <1>4, <3>2 DEF Calls
    <3> QED
      BY <1>5, <3>1, <3>2
  <2>4. Session(s)'
    <3>1. LoginStands(link'[s])
      BY <2>1, <2>2 DEF LoginStands
    <3>2. Written(s)'
      BY <2>1, <2>2 DEF Written
    <3>3. LoginStands(link[s])'
      BY <3>1 DEF LoginStands
    <3> QED
      BY <1>4, <2>2, <2>3, <3>2, <3>3 DEF Session, Sides
  <2>5. ASSUME s \in Conns PROVE Heard(s)'
    <3>1. side[s] = "idle" /\ link[s].up = <<>> /\ s \notin misread
      BY <1>1, <1>3, <2>5, LutronAssumption DEF Heard, Closed
    <3>2. link'[s].up = link[s].up /\ link[s].up \in Seq(Line)
      BY <2>1, <2>2, <3>1
    <3>3. s \notin misread'
      BY <2>5, <3>1, <3>2, NothingTaken
    <3> QED
      BY <2>2, <3>3 DEF Heard
  <2>6. ASSUME s \in Conns PROVE Witness(s)'
    <3>1. call'[s].lines = 0
      BY <1>1, <1>3, <2>3, <2>6, LutronAssumption DEF Witness
    <3>2. \A i \in DOMAIN link'[s].down : ~Output(link'[s].down[i])
      BY <2>1, <2>2 DEF Output, Prompt
    <3> QED
      BY <2>2, <3>1, <3>2 DEF Witness, Witnessed, Heeded
  <2>7. SInv(s)'
    BY <2>4, <2>5, <2>6 DEF SInv
  <2>8. side'[Monitor] = "send" <=> side[Monitor] = "send"
    BY <1>1, <1>2, <2>2
  <2>9. side'[s] \in Sides(s)
    BY <2>2 DEF Sides
  <2> QED
    BY <1>1, <1>2, <1>5, <2>1, <2>2, <2>3, <2>7, <2>8, <2>9, DriverStep
<1>6. CASE End(s, Closed, "err") /\ UNCHANGED <<silent, call>>
  <2>1. Closed \in Links /\ Closed.up = <<>>
    BY DEF Closed, Links, SrvPcs
  <2>2. /\ link' = [link EXCEPT ![s] = link'[s]] /\ side' = [side EXCEPT ![s] = side'[s]]
        /\ link'[s] \in Links /\ side'[s] = (IF s = Monitor THEN "sleep" ELSE "err")
        /\ s # Monitor => link'[s] = [srv |-> Closed.srv, up |-> Closed.up, down |-> <<>>]
        /\ s = Monitor => link'[s] = Closed
    BY <1>6, <2>1, EndOf
  <2>3. s # Monitor => link[s].up = <<>>
    BY <1>1, <1>3, <1>4 DEF Heard, Closed
  <2>4. SInv(s)'
    BY <1>3, <2>1, <2>2, <2>3, EndedWell
  <2>5. /\ side'[Monitor] = "send" <=> side[Monitor] = "send"
        /\ side'[s] \in Sides(s) /\ (side'[s] \in {"ok", "err"} => link'[s].down = <<>>)
    BY <1>1, <1>2, <2>2 DEF Sides
  <2> QED
    BY <1>1, <1>2, <1>6, <2>2, <2>4, <2>5, DriverStep
<1> QED
  BY <1>5, <1>6 DEF Connect

\* The monitor thread starts again.
LEMMA WakeStep ==
  ASSUME TypeOK, HistoryOK, \A j \in Sessions : SInv(j), Wake, Remembered
  PROVE  TypeOK' /\ \A j \in Sessions : SInv(j)'
<1>1. /\ side[Monitor] = "sleep" /\ side' = [side EXCEPT ![Monitor] = "connect"]
      /\ level' = level /\ link' = link /\ silent' = silent /\ call' = call /\ batch' = batch
      /\ channel' = channel
  BY DEF Wake
<1>2. /\ link \in [Sessions -> Links] /\ side \in [Sessions -> DriverPcs] /\ link[Monitor] \in Links
      /\ call \in [Conns -> Calls] /\ batch \in Seq(Line) /\ (batch = <<>> <=> side[Monitor] # "send")
      /\ channel \in Seq(Line) /\ Len(channel) <= Capacity /\ Monitor \in Sessions
  BY DEF TypeOK, Links, Calls, Sessions
<1>3. side'[Monitor] = "connect" /\ side' = [side EXCEPT ![Monitor] = side'[Monitor]]
      /\ link'[Monitor] = link[Monitor] /\ link' = [link EXCEPT ![Monitor] = link'[Monitor]]
  BY <1>1, <1>2
<1>4. SInv(Monitor)'
  <2>1. Written(Monitor) /\ Session(Monitor)
    BY <1>2 DEF SInv, Session
  <2>2. Written(Monitor)'
    BY <1>3, <2>1 DEF Written
  <2> QED
    BY <1>3, <2>2, LutronAssumption DEF SInv, Session, Sides
<1>5. side'[Monitor] \in Sides(Monitor) /\ side'[Monitor] # "send" /\ batch = <<>>
  BY <1>1, <1>2, <1>3 DEF Sides
<1> QED
  BY <1>1, <1>2, <1>3, <1>4, <1>5, DriverStep

LEMMA CommandLine ==
  ASSUME NEW r \in Asked
  PROVE  /\ Command(r) \in Line /\ Command(r).kind \in {"set", "get"} /\ Command(r).light \in Lights
         /\ Command(r).kind = "set" => Command(r).val \in Levels
<1>1. r.op \in Ops /\ r.light \in Lights /\ r.arg \in Levels /\ Levels \subseteq Nat
      /\ 0 \in Levels /\ 33 \in Levels
  BY LutronAssumption
<1>2. CASE r.op = "turn_on"
  BY <1>1, <1>2 DEF Command, Line, Kinds
<1>3. CASE r.op = "turn_off"
  BY <1>1, <1>3 DEF Command, Line, Kinds
<1>4. CASE r.op = "set_percent"
  BY <1>1, <1>4 DEF Command, Line, Kinds
<1>5. CASE r.op \in {"check_is_on", "check_percent"}
  BY <1>1, <1>5 DEF Command, Line, Kinds
<1> QED
  BY <1>1, <1>2, <1>3, <1>4, <1>5 DEF Ops

LEMMA AppendLine ==
  ASSUME NEW q \in Seq(Line), NEW x \in Line
  PROVE  /\ Append(q, x) \in Seq(Line) /\ Len(Append(q, x)) = Len(q) + 1 /\ Len(q) \in Nat
         /\ \A i \in 1..Len(q) : Append(q, x)[i] = q[i]
         /\ Append(q, x)[Len(q) + 1] = x
         /\ DOMAIN Append(q, x) = 1..(Len(q) + 1) /\ DOMAIN q = 1..Len(q)
BY AppendProperties, LenProperties

\* The driver's data that a step of a call or a login leaves alone.
OthersSame == /\ level' = level /\ batch' = batch /\ channel' = channel

LEMMA ProceedStep ==
  ASSUME TypeOK, HistoryOK, \A j \in Sessions : SInv(j), NEW s \in Sessions, side[s] = "login",
         Remembered, OthersSame, call' = call, silent' = silent \/ silent' = silent \cup {s},
         NEW k \in Links, k.srv = link[s].srv, k.up = link[s].up, Proceed(s, k),
         k.srv \in {"login", "password", "greeting"} => NoPrompt(k.down),
         s \notin silent' => k.srv \in {"ready", "closed"} /\ NoPrompt(k.down),
         \A i \in DOMAIN k.down : \E j \in DOMAIN link[s].down : k.down[i] = link[s].down[j]
  PROVE  TypeOK' /\ \A j \in Sessions : SInv(j)'
<1>1. /\ link \in [Sessions -> Links] /\ side \in [Sessions -> DriverPcs]
      /\ call \in [Conns -> Calls] /\ batch \in Seq(Line) /\ (batch = <<>> <=> side[Monitor] # "send")
      /\ channel \in Seq(Line) /\ Len(channel) <= Capacity /\ Monitor \in Sessions
  BY DEF TypeOK, Links, Calls, Sessions
<1>2. Session(s) /\ (s \in Conns => Heard(s) /\ Witness(s)) /\ LoginStands(link[s])
  BY DEF SInv, Session
<1>3. /\ k = [srv |-> k.srv, up |-> k.up, down |-> k.down] /\ k.srv \in SrvPcs
      /\ k.up \in Seq(Line) /\ k.down \in Seq(Line) /\ link[s].up \in Seq(Line)
  BY <1>1 DEF Links
<1>4. \A i \in DOMAIN k.up : k.up[i].kind \notin {"set", "get"}
  BY <1>2 DEF LoginStands, Prompt
<1>5. CASE s = Monitor
  <2>1. /\ link' = [link EXCEPT ![s] = link'[s]] /\ link'[s] = k
        /\ side' = [side EXCEPT ![s] = side'[s]] /\ side'[s] = "listen"
    BY <1>1, <1>5 DEF Proceed
  <2>2. Written(s)'
    BY <1>4, <2>1 DEF Written
  <2>3. SInv(s)'
    BY <1>5, <2>1, <2>2, LutronAssumption DEF SInv, Session, Sides
  <2>4. side'[Monitor] # "send" /\ side[Monitor] # "send" /\ side'[s] \in Sides(s)
    BY <1>5, <2>1 DEF Sides
  <2>5. \A c \in Conns \ {s} : call'[c] = call[c]
    OBVIOUS
  <2> QED
    BY <1>1, <2>1, <2>3, <2>4, <2>5, DriverStep DEF OthersSame
<1>6. CASE s # Monitor
  <2> DEFINE cmd == Command(call[s].req)
             w == Write(k, cmd)
  <2>1. s \in Conns
    BY <1>6 DEF Sessions
  <2>2. call[s].req \in Asked
    BY <1>2, <1>6 DEF Session
  <2>3. /\ cmd \in Line /\ cmd.kind \in {"set", "get"} /\ cmd.light \in Lights
        /\ cmd.kind = "set" => cmd.val \in Levels
    BY <2>2, CommandLine
  <2>4. /\ link' = [link EXCEPT ![s] = w]
        /\ side' = [side EXCEPT ![s] = "reply"]
    BY <1>6 DEF Proceed
  <2> HIDE DEF cmd
  <2>5. w = k \/ w = [srv |-> k.srv, up |-> Append(k.up, cmd), down |-> k.down]
    BY <1>3 DEF Write
  <2>6. w \in Links /\ w.srv = k.srv /\ w.down = k.down /\ (w.up = k.up \/ w.up = Append(k.up, cmd))
    <3> HIDE DEF w
    <3>1. CASE w = k
      BY <1>3, <3>1
    <3>2. CASE w = [srv |-> k.srv, up |-> Append(k.up, cmd), down |-> k.down]
      <4>1. Append(k.up, cmd) \in Seq(Line)
        BY <1>3, <2>3, AppendLine
      <4> QED
        BY <1>3, <3>2, <4>1 DEF Links
    <3> QED
      BY <2>5, <3>1, <3>2
  <2> HIDE DEF w
  <2>7. /\ link' = [link EXCEPT ![s] = link'[s]] /\ link'[s] = w
        /\ side' = [side EXCEPT ![s] = side'[s]] /\ side'[s] = "reply"
    BY <1>1, <2>4
  <2>8. Written(s)'
    <3>1. CASE w.up = k.up
      BY <1>4, <2>7, <3>1 DEF Written
    <3>2. CASE w.up = Append(k.up, cmd)
      <4>1. /\ Len(w.up) = Len(k.up) + 1 /\ Len(k.up) \in Nat
            /\ \A i \in 1..Len(k.up) : w.up[i] = k.up[i]
            /\ w.up[Len(k.up) + 1] = cmd /\ DOMAIN w.up = 1..(Len(k.up) + 1)
            /\ DOMAIN k.up = 1..Len(k.up)
        BY <1>3, <2>3, <3>2, AppendLine
      <4>2. ASSUME NEW i \in DOMAIN w.up, w.up[i].kind \in {"set", "get"} PROVE i = Len(w.up) /\ w.up[i] = cmd
        BY SMTT(30), <1>4, <4>1, <4>2
      <4> QED
        BY <1>6, <2>3, <2>7, <4>2 DEF Written
    <3> QED
      BY <2>6, <3>1, <3>2
  <2>9. Session(s)'
    BY <1>6, <2>2, <2>7, <2>8 DEF Session, Sides
  <2>10. Heard(s)'
    <3>1. s \notin misread
      BY <1>2, <2>1 DEF Heard
    <3>2. link'[s].up = link[s].up \/ \E x \in Line : link'[s].up = Append(link[s].up, x)
      BY <2>3, <2>6, <2>7
    <3>3. s \notin misread'
      BY <1>3, <2>1, <3>1, <3>2, NotTaken
    <3> QED
      BY <2>6, <2>7, <3>3 DEF Heard, Replied
  <2>11. Witness(s)'
    <3>1. Heeded(s) \subseteq Heeded(s)'
      BY <2>1, SeenGrows
    <3>2. Witness(s)
      BY <1>2, <2>1
    <3>3. ASSUME NEW i \in DOMAIN link'[s].down, Output(link'[s].down[i]),
                 link'[s].down[i].light \in Alike[call[s].req.light]
          PROVE  link'[s].down[i].val \in Heeded(s)'
      <4>1. PICK j \in DOMAIN link[s].down : link'[s].down[i] = link[s].down[j]
        BY <2>6, <2>7, <3>3
      <4>2. Witnessed(s, link[s].down[j])
        BY <3>2 DEF Witness
      <4> QED
        BY <3>1, <3>3, <4>1, <4>2 DEF Witnessed
    <3>4. call'[s] = call[s] /\ call[s].lines = 0
      BY <3>2 DEF Witness
    <3> QED
      BY <2>7, <3>3, <3>4 DEF Witness, Witnessed, Heeded
  <2>12. SInv(s)'
    BY <2>9, <2>10, <2>11 DEF SInv
  <2>13. side'[Monitor] = side[Monitor] /\ side'[s] \in Sides(s)
    BY <1>1, <1>6, <2>7 DEF Sides
  <2>14. /\ \A c \in Conns \ {s} : call'[c] = call[c]
         /\ link'[s] \in Links /\ ~(side'[s] \in {"ok", "err"}) /\ call' \in [Conns -> Calls]
         /\ silent' \subseteq silent \cup {s} /\ silent \subseteq silent' \cup {s}
         /\ level' = level /\ batch' \in Seq(Line) /\ channel' \in Seq(Line) /\ Len(channel') <= Capacity
         /\ (batch' = <<>> <=> side'[Monitor] # "send")
    BY <1>1, <2>6, <2>7, <2>13 DEF OthersSame
  <2> QED
    BY <2>7, <2>12, <2>13, <2>14, DriverStep
<1> QED
  BY <1>5, <1>6

LEMMA LoginSilenceStep ==
  ASSUME TypeOK, HistoryOK, \A j \in Sessions : SInv(j), NEW s \in Sessions,
         LoginSilence(s), Remembered
  PROVE  TypeOK' /\ \A j \in Sessions : SInv(j)'
<1>1. /\ side[s] = "login" /\ OthersSame /\ call' = call /\ silent' = silent \cup {s}
      /\ Proceed(s, link[s])
  BY DEF LoginSilence, OthersSame
<1>2. link[s] \in Links
  BY DEF TypeOK, Links
<1>3. link[s].srv \in {"login", "password", "greeting"} => NoPrompt(link[s].down)
  BY <1>1 DEF SInv, Session, LoginStands, NoPrompt, Prompt, Prompting
<1>4. s \in silent' /\ \A i \in DOMAIN link[s].down :
                         \E j \in DOMAIN link[s].down : link[s].down[i] = link[s].down[j]
  BY <1>1
<1> QED
  BY <1>1, <1>2, <1>3, <1>4, ProceedStep

LEMMA LostStep ==
  ASSUME TypeOK, HistoryOK, \A j \in Sessions : SInv(j), NEW s \in Sessions,
         Lost(s), Remembered
  PROVE  TypeOK' /\ \A j \in Sessions : SInv(j)'
<1>1. /\ side[s] \in {"login", "reply", "listen"} /\ End(s, link[s], "err")
      /\ level' = level /\ silent' = silent /\ call' = call /\ batch' = batch /\ channel' = channel
  BY DEF Lost
<1>2. /\ link[s] \in Links /\ side \in [Sessions -> DriverPcs] /\ link \in [Sessions -> Links]
      /\ call \in [Conns -> Calls] /\ batch \in Seq(Line) /\ (batch = <<>> <=> side[Monitor] # "send")
      /\ channel \in Seq(Line) /\ Len(channel) <= Capacity /\ Monitor \in Sessions
  BY DEF TypeOK, Links, Calls, Sessions
<1>3. /\ link' = [link EXCEPT ![s] = link'[s]] /\ side' = [side EXCEPT ![s] = side'[s]]
      /\ link'[s] \in Links /\ side'[s] = (IF s = Monitor THEN "sleep" ELSE "err")
      /\ s # Monitor => link'[s] = [srv |-> link[s].srv, up |-> link[s].up, down |-> <<>>]
      /\ s = Monitor => link'[s] = Closed
  BY <1>1, <1>2, EndOf
<1>4. SInv(s)'
  BY <1>3, EndedWell DEF SInv, Closed
<1>5. /\ side'[Monitor] = "send" <=> side[Monitor] = "send"
      /\ side'[s] \in Sides(s) /\ (side'[s] \in {"ok", "err"} => link'[s].down = <<>>)
  BY <1>1, <1>2, <1>3 DEF Sides
<1> QED
  BY <1>1, <1>2, <1>3, <1>4, <1>5, DriverStep

\* What is read, and what remains of the session.
LEMMA ReadOf ==
  ASSUME NEW k \in Links, NEW n \in 1..Len(k.down), NEW rest, rest = Read(k, n)
  PROVE  /\ rest \in Links /\ rest.srv = k.srv /\ rest.up = k.up
         /\ rest.down = SubSeq(k.down, n + 1, Len(k.down))
<1>1. k.down \in Seq(Line) /\ k = [srv |-> k.srv, up |-> k.up, down |-> k.down]
  BY DEF Links
<1>2. SubSeq(k.down, n + 1, Len(k.down)) \in Seq(Line)
  BY <1>1, SplitAt
<1>3. rest = [srv |-> k.srv, up |-> k.up, down |-> SubSeq(k.down, n + 1, Len(k.down))]
  BY <1>1 DEF Read
<1> QED
  BY <1>2, <1>3 DEF Links

LEMMA LinkIs ==
  ASSUME NEW srv \in SrvPcs, NEW u \in Seq(Line), NEW d \in Seq(Line)
  PROVE  [srv |-> srv, up |-> u, down |-> d] \in Links
BY DEF Links

\* A question for the name or password is answered.
LEMMA AnswerStands ==
  ASSUME NEW k \in Links, LoginStands(k), NEW p \in {"login:", "password:"},
         NEW n \in 1..Len(k.down), k.down[1] = Prompt(p),
         NEW rest, rest = Read(k, n), NEW a, a = (IF p = "login:" THEN "uid" ELSE "upw"),
         NEW w, w = Write(rest, Prompt(a))
  PROVE  /\ w \in Links /\ LoginStands(w)
         /\ \A i \in DOMAIN w.down : \E j \in DOMAIN k.down : w.down[i] = k.down[j]
<1>1. /\ rest \in Links /\ rest.srv = k.srv /\ rest.up = k.up
      /\ rest.down = SubSeq(k.down, n + 1, Len(k.down)) /\ k.down \in Seq(Line) /\ rest.down \in Seq(Line)
  BY ReadOf DEF Links
<1>2. SplitInto(k.down, SubSeq(k.down, 1, n), rest.down)
  BY <1>1, SplitLines
<1>3. /\ OnePrompt(k.down) => OnePrompt(rest.down)
      /\ \A i \in DOMAIN rest.down : \E j \in DOMAIN k.down : rest.down[i] = k.down[j]
      /\ 1 \in DOMAIN k.down
  BY <1>2 DEF SplitInto
<1>4. k.down[1].kind = p
  BY DEF Prompt
<1>5. k.srv \notin {"greeting", "ready"}
  BY <1>3, <1>4 DEF LoginStands, Plain, Output, Prompting
<1>6. CASE k.srv = "closed"
  <2>1. w = rest
    BY <1>1, <1>6 DEF Write
  <2>2. k.up = <<>> /\ OnePrompt(k.down)
    BY <1>6 DEF LoginStands
  <2>3. OnePrompt(rest.down)
    BY <1>3, <2>2
  <2> QED
    BY <1>1, <1>3, <1>6, <2>1, <2>2, <2>3 DEF LoginStands
<1>7. CASE k.srv # "closed"
  <2>1. k.down # <<>>
    BY <1>3
  <2>2. \/ k.srv = "login" /\ k.up = <<>> /\ k.down = <<Prompt("login:")>>
        \/ k.srv = "password" /\ k.up = <<>> /\ k.down = <<Prompt("password:")>>
    BY <1>5, <1>7, <2>1 DEF LoginStands
  <2>3. Len(k.down) = 1 /\ k.down[1].kind = (IF k.srv = "login" THEN "login:" ELSE "password:")
    <3>1. CASE k.down = <<Prompt("login:")>> /\ k.srv = "login"
      <4>1. Len(k.down) = 1 /\ k.down[1] = Prompt("login:")
        BY <3>1
      <4> QED
        BY <3>1, <4>1 DEF Prompt
    <3>2. CASE k.down = <<Prompt("password:")>> /\ k.srv = "password"
      <4>1. Len(k.down) = 1 /\ k.down[1] = Prompt("password:")
        BY <3>2
      <4> QED
        BY <3>2, <4>1 DEF Prompt
    <3> QED
      BY <2>2, <3>1, <3>2
  <2>4. Len(rest.down) = 0
    BY <1>1, <2>3, SplitAt
  <2>5. rest.down = <<>>
    BY <1>1, <2>4, EmptySeq
  <2>6. rest = [srv |-> k.srv, up |-> <<>>, down |-> <<>>]
    <3>1. rest = [srv |-> rest.srv, up |-> rest.up, down |-> rest.down]
      BY <1>1 DEF Links
    <3> QED
      BY <1>1, <2>2, <2>5, <3>1
  <2>7. w = [srv |-> k.srv, up |-> <<Prompt(a)>>, down |-> <<>>]
    <3>1. w = [rest EXCEPT !.up = Append(@, Prompt(a))]
      BY <1>1, <1>7 DEF Write
    <3>2. Append(<<>>, Prompt(a)) = <<Prompt(a)>>
      OBVIOUS
    <3>3. w = [srv |-> k.srv, up |-> Append(<<>>, Prompt(a)), down |-> <<>>]
      BY <2>6, <3>1
    <3> QED
      BY <3>2, <3>3
  <2>8. a \in Kinds
    BY DEF Kinds
  <2>9. <<Prompt(a)>> \in Seq(Line)
    BY <2>8, PromptLines
  <2>10. w \in Links
    <3>1. k.srv \in SrvPcs /\ <<>> \in Seq(Line)
      BY DEF Links
    <3>2. PICK u : u = <<Prompt(a)>>
      OBVIOUS
    <3>3. w = [srv |-> k.srv, up |-> u, down |-> <<>>] /\ u \in Seq(Line)
      BY <2>7, <2>9, <3>2
    <3> QED
      BY <3>1, <3>3, LinkIs
  <2>11. \/ k.srv = "login" /\ a = "uid"
         \/ k.srv = "password" /\ a = "upw"
    BY <1>4, <2>2, <2>3
  <2>12. LoginStands(w)
    BY <2>7, <2>11 DEF LoginStands
  <2> QED
    BY <2>7, <2>10, <2>12
<1> QED
  BY <1>6, <1>7

LEMMA ReadLoginStep ==
  ASSUME TypeOK, HistoryOK, \A j \in Sessions : SInv(j), NEW s \in Sessions,
         ReadLogin(s), Remembered
  PROVE  TypeOK' /\ \A j \in Sessions : SInv(j)'
<1>1. /\ side[s] = "login" /\ OthersSame /\ call' = call /\ silent' = silent
  BY DEF ReadLogin, OthersSame
<1>2. /\ link \in [Sessions -> Links] /\ side \in [Sessions -> DriverPcs] /\ link[s] \in Links
      /\ call \in [Conns -> Calls] /\ batch \in Seq(Line) /\ (batch = <<>> <=> side[Monitor] # "send")
      /\ channel \in Seq(Line) /\ Len(channel) <= Capacity /\ Monitor \in Sessions
      /\ link[s].up \in Seq(Line) /\ link[s].down \in Seq(Line)
  BY DEF TypeOK, Links, Calls, Sessions
<1>3. Session(s) /\ (s \in Conns => Heard(s) /\ Witness(s)) /\ LoginStands(link[s])
  BY <1>1 DEF SInv, Session
<1>4. PICK n \in 1..Len(link[s].down) :
        LET chunk == SubSeq(link[s].down, 1, n)
            k == Read(link[s], n) IN
        IF Has(chunk, "GNET>") THEN Proceed(s, k)
        ELSE IF chunk = <<Prompt("login:")>> \/ chunk = <<Prompt("password:")>>
        THEN /\ link' = [link EXCEPT ![s] =
                           Write(k, Prompt(IF Has(chunk, "login:") THEN "uid" ELSE "upw"))]
             /\ UNCHANGED side
        ELSE IF Output(Head(chunk)) \/ Head(chunk).kind = "~ERROR"
        THEN link' = [link EXCEPT ![s] = k] /\ UNCHANGED side
        ELSE End(s, k, "err")
  BY DEF ReadLogin
<1>5. PICK chunk, k : chunk = SubSeq(link[s].down, 1, n) /\ k = Read(link[s], n)
  OBVIOUS
<1>6. /\ k \in Links /\ k.srv = link[s].srv /\ k.up = link[s].up
      /\ k.down = SubSeq(link[s].down, n + 1, Len(link[s].down))
  BY <1>2, <1>5, ReadOf
<1>7. /\ Head(chunk) = link[s].down[1] /\ chunk[1] = link[s].down[1]
      /\ 1 \in DOMAIN chunk /\ 1 \in DOMAIN link[s].down
      /\ NoPrompt(link[s].down) => NoPrompt(k.down) /\ ~Has(chunk, "GNET>")
      /\ OnePrompt(link[s].down) => OnePrompt(k.down) /\ (Has(chunk, "GNET>") => NoPrompt(k.down))
      /\ Plain(link[s].down) => Plain(k.down) /\ Plain(chunk)
      /\ Has(chunk, "GNET>") => ~NoPrompt(link[s].down)
      /\ \A i \in DOMAIN k.down : \E j \in DOMAIN link[s].down : k.down[i] = link[s].down[j]
  <2>1. SplitInto(link[s].down, chunk, k.down)
    BY <1>2, <1>5, <1>6, SplitLines
  <2> QED
    BY <2>1 DEF SplitInto
<1>8. CASE Has(chunk, "GNET>")
  <2>1. Proceed(s, k)
    BY <1>4, <1>5, <1>8
  <2>2. link[s].srv \in {"ready", "closed"} /\ OnePrompt(link[s].down)
    BY <1>3, <1>7, <1>8 DEF LoginStands, NoPrompt, Prompt, Prompting
  <2>3. NoPrompt(k.down) /\ k.srv \in {"ready", "closed"}
    BY <1>6, <1>7, <1>8, <2>2
  <2> QED
    BY <1>1, <1>6, <1>7, <2>1, <2>3, ProceedStep
<1>9. ASSUME NEW w \in Links, link' = [link EXCEPT ![s] = w], side' = side,
             LoginStands(w),
             \A i \in DOMAIN w.down : \E j \in DOMAIN link[s].down : w.down[i] = link[s].down[j]
      PROVE  TypeOK' /\ \A j \in Sessions : SInv(j)'
  <2>1. /\ link' = [link EXCEPT ![s] = link'[s]] /\ link'[s] = w
        /\ side' = [side EXCEPT ![s] = side'[s]] /\ side'[s] = "login"
    BY <1>1, <1>2, <1>9
  <2>2. Session(s)'
    <3>1. \A i \in DOMAIN w.up : w.up[i].kind \notin {"set", "get"}
      BY <1>9 DEF LoginStands, Prompt
    <3>2. Written(s)'
      BY <2>1, <3>1 DEF Written
    <3>3. LoginStands(link'[s])
      BY <1>9, <2>1
    <3> QED
      BY <1>1, <1>3, <1>9, <3>2, <3>3, SessionOf DEF Quiescent
  <2>3. ASSUME s \in Conns PROVE Heard(s)'
    <3>1. s \notin misread
      BY <1>1, <1>3, <2>3 DEF Heard
    <3>2. ~(TakesLine(s, {"login", "password"}) /\ Head(link[s].up).kind \in {"set", "get"})
      BY <1>2, <1>3, TailAt DEF LoginStands, Prompt, TakesLine
    <3>3. s \notin misread'
      BY <3>1, <3>2 DEF Remembered
    <3> QED
      BY <2>1, <3>3 DEF Heard
  <2>4. ASSUME s \in Conns PROVE Witness(s)'
    <3>1. Follows(link[s].down, link'[s].down)
      BY <1>9, <2>1 DEF Follows
    <3> QED
      BY <1>1, <1>3, <1>9, <2>4, <3>1, WitnessKept
  <2>5. SInv(s)'
    BY <2>2, <2>3, <2>4 DEF SInv
  <2>6. /\ side'[s] \in Sides(s) /\ ~(side'[s] \in {"ok", "err"})
        /\ silent' \subseteq silent \cup {s} /\ silent \subseteq silent' \cup {s}
        /\ \A c \in Conns \ {s} : call'[c] = call[c]
    BY <1>1, <2>1 DEF Sides
  <2> QED
    BY <1>1, <1>2, <1>9, <2>1, <2>5, <2>6, DriverStep DEF OthersSame
<1>10. CASE chunk = <<Prompt("login:")>> /\ ~Has(chunk, "GNET>")
  <2>1. Has(chunk, "login:") /\ link[s].down[1] = Prompt("login:")
    BY <1>7, <1>10 DEF Has, Prompt
  <2>2. PICK w : w = Write(k, Prompt("uid"))
    OBVIOUS
  <2>3. link' = [link EXCEPT ![s] = w] /\ side' = side
    BY <1>4, <1>5, <1>10, <2>1, <2>2
  <2>4. /\ w \in Links /\ LoginStands(w)
        /\ \A i \in DOMAIN w.down : \E j \in DOMAIN link[s].down : w.down[i] = link[s].down[j]
    BY <1>2, <1>3, <1>5, <2>1, <2>2, AnswerStands
  <2> QED
    BY <1>9, <2>3, <2>4
<1>11. CASE chunk = <<Prompt("password:")>> /\ ~Has(chunk, "GNET>")
  <2>1. ~Has(chunk, "login:") /\ link[s].down[1] = Prompt("password:")
    BY <1>7, <1>11 DEF Has, Prompt
  <2>2. PICK w : w = Write(k, Prompt("upw"))
    OBVIOUS
  <2>3. link' = [link EXCEPT ![s] = w] /\ side' = side
    BY <1>4, <1>5, <1>11, <2>1, <2>2
  <2>4. /\ w \in Links /\ LoginStands(w)
        /\ \A i \in DOMAIN w.down : \E j \in DOMAIN link[s].down : w.down[i] = link[s].down[j]
    BY <1>2, <1>3, <1>5, <2>1, <2>2, AnswerStands
  <2> QED
    BY <1>9, <2>3, <2>4
<1>12. CASE /\ ~Has(chunk, "GNET>") /\ (Output(Head(chunk)) \/ Head(chunk).kind = "~ERROR")
            /\ link' = [link EXCEPT ![s] = k] /\ side' = side
  <2>1. /\ link[s].srv \in {"greeting", "ready", "closed"} /\ link[s].up = <<>>
        /\ link[s].srv = "greeting" => Plain(link[s].down) /\ NoPrompt(link[s].down)
        /\ link[s].srv = "ready" => Plain(link[s].down) /\ OnePrompt(link[s].down)
        /\ link[s].srv = "closed" => OnePrompt(link[s].down)
    BY <1>3, <1>7, <1>12 DEF LoginStands, Output, Prompt
  <2>2. LoginStands(k)
    BY <1>6, <1>7, <2>1 DEF LoginStands
  <2> QED
    BY <1>6, <1>7, <1>9, <1>12, <2>2
<1>13. CASE End(s, k, "err")
  <2>1. /\ link' = [link EXCEPT ![s] = link'[s]] /\ side' = [side EXCEPT ![s] = side'[s]]
        /\ link'[s] \in Links /\ side'[s] = (IF s = Monitor THEN "sleep" ELSE "err")
        /\ s # Monitor => link'[s] = [srv |-> k.srv, up |-> k.up, down |-> <<>>]
        /\ s = Monitor => link'[s] = Closed
    BY <1>6, <1>13, EndOf
  <2>2. SInv(s)'
    BY <1>3, <1>6, <2>1, EndedWell DEF Closed
  <2>3. /\ side'[Monitor] = "send" <=> side[Monitor] = "send"
        /\ side'[s] \in Sides(s) /\ (side'[s] \in {"ok", "err"} => link'[s].down = <<>>)
    BY <1>1, <1>2, <2>1 DEF Sides
  <2> QED
    BY <1>1, <1>2, <2>1, <2>2, <2>3, DriverStep DEF OthersSame
<1> QED
  BY <1>4, <1>5, <1>8, <1>10, <1>11, <1>12, <1>13

\* What output_set and output_get return.
LEMMA ResultIs ==
  ASSUME TypeOK, NEW c \in Conns
  PROVE  /\ Result(c) \in Nat \cup {None}
         /\ ~IsSet(call[c].req) /\ Result(c) # None => call[c].lines = 1 /\ Result(c) = call[c].got
BY DEF Result, TypeOK

CallsBut(c, x) ==
  /\ call' \in [Conns -> Calls] /\ \A d \in Conns \ {c} : call'[d] = call[d]
  /\ call'[c] = x

\* What a read leaves of a call.
LEMMA CallIs ==
  ASSUME NEW c \in Conns, call \in [Conns -> Calls], NEW n \in 0..2, NEW v \in Nat \cup {None}
  PROVE  /\ call' = [call EXCEPT ![c].lines = n] =>
              CallsBut(c, [req |-> call[c].req, lines |-> n, got |-> call[c].got])
         /\ call' = [call EXCEPT ![c].got = v, ![c].lines = n] =>
              CallsBut(c, [req |-> call[c].req, lines |-> n, got |-> v])
         /\ call' = [call EXCEPT ![c].lines = n, ![c].got = v] =>
              CallsBut(c, [req |-> call[c].req, lines |-> n, got |-> v])
<1>1. /\ call[c] = [req |-> call[c].req, lines |-> call[c].lines, got |-> call[c].got]
      /\ call[c].req \in Asked \cup {None} /\ call[c].got \in Nat \cup {None}
  BY DEF Calls
<1>2. ASSUME NEW x \in Calls, call' = [call EXCEPT ![c] = x] PROVE CallsBut(c, x)
  BY <1>2 DEF CallsBut
<1>3. ASSUME NEW w \in Nat \cup {None} PROVE [req |-> call[c].req, lines |-> n, got |-> w] \in Calls
  BY <1>1, <1>3 DEF Calls
<1>4. ASSUME call' = [call EXCEPT ![c].lines = n]
      PROVE  call' = [call EXCEPT ![c] = [req |-> call[c].req, lines |-> n, got |-> call[c].got]]
  <2>1. PICK q, g, m : q = call[c].req /\ g = call[c].got /\ m = call[c].lines
    OBVIOUS
  <2>2. call[c] = [req |-> q, lines |-> m, got |-> g]
    BY <1>1, <2>1
  <2>3. [call[c] EXCEPT !.lines = n] = [req |-> q, lines |-> n, got |-> g]
    BY <2>2
  <2> QED
    BY <1>4, <2>1, <2>3
<1>5. ASSUME \/ call' = [call EXCEPT ![c].got = v, ![c].lines = n]
             \/ call' = [call EXCEPT ![c].lines = n, ![c].got = v]
      PROVE  call' = [call EXCEPT ![c] = [req |-> call[c].req, lines |-> n, got |-> v]]
  BY <1>1, <1>5
<1>6. call[c].got \in Nat \cup {None}
  BY <1>1
<1>7. \A w \in Nat \cup {None} :
        call' = [call EXCEPT ![c] = [req |-> call[c].req, lines |-> n, got |-> w]] =>
          CallsBut(c, [req |-> call[c].req, lines |-> n, got |-> w])
  BY <1>2, <1>3
<1> QED
  BY <1>4, <1>5, <1>6, <1>7

\* What has been read of a call's data when its wait is over.
LEMMA GivenUp ==
  ASSUME TypeOK, HistoryOK, \A j \in Sessions : SInv(j), NEW c \in Conns, Remembered,
         NEW k \in Links, k.up = link[c].up, End(c, k, "err"), side[c] = "reply",
         OthersSame, silent' = silent, call' \in [Conns -> Calls],
         \A d \in Conns \ {c} : call'[d] = call[d]
  PROVE  TypeOK' /\ \A j \in Sessions : SInv(j)'
<1>1. c \in Sessions /\ c # Monitor /\ Monitor \in Sessions /\ "err" \in {"ok", "err"}
  BY LutronAssumption DEF Sessions
<1>2. /\ link' = [link EXCEPT ![c] = link'[c]] /\ side' = [side EXCEPT ![c] = side'[c]]
      /\ link'[c] \in Links /\ side'[c] = (IF c = Monitor THEN "sleep" ELSE "err")
      /\ c # Monitor => link'[c] = [srv |-> k.srv, up |-> k.up, down |-> <<>>]
  BY <1>1, EndOf
<1>3. side'[c] = "err" /\ link'[c].up = link[c].up /\ link'[c].down = <<>>
  BY <1>1, <1>2
<1>4. SInv(c)'
  BY <1>1, <1>3, EndedWell DEF SInv
<1>5. side'[c] \in Sides(c) /\ (side'[Monitor] = "send" <=> side[Monitor] = "send")
  BY <1>1, <1>2, <1>3 DEF Sides, TypeOK
<1>6. /\ level' = level /\ batch' \in Seq(Line) /\ (batch' = <<>> <=> side'[Monitor] # "send")
      /\ channel' \in Seq(Line) /\ Len(channel') <= Capacity
  BY <1>5 DEF OthersSame, TypeOK
<1> QED
  BY <1>1, <1>2, <1>3, <1>4, <1>5, <1>6, DriverStep

LEMMA ReplySilenceStep ==
  ASSUME TypeOK, HistoryOK, \A j \in Sessions : SInv(j), NEW c \in Conns,
         ReplySilence(c), Remembered
  PROVE  TypeOK' /\ \A j \in Sessions : SInv(j)'
<1>1. /\ side[c] = "reply" /\ End(c, link[c], "err") /\ OthersSame /\ silent' = silent
      /\ call' = call
  BY DEF ReplySilence, OthersSame
<1>2. link[c] \in Links /\ call \in [Conns -> Calls]
  BY DEF TypeOK, Links, Calls, Sessions
<1> QED
  BY <1>1, <1>2, GivenUp

LEMMA ReadReplyStep ==
  ASSUME TypeOK, HistoryOK, \A j \in Sessions : SInv(j), NEW c \in Conns,
         ReadReply(c), Remembered
  PROVE  TypeOK' /\ \A j \in Sessions : SInv(j)'
<1>1. /\ side[c] = "reply" /\ OthersSame /\ silent' = silent
  BY DEF ReadReply, OthersSame
<1>2. /\ link \in [Sessions -> Links] /\ side \in [Sessions -> DriverPcs] /\ link[c] \in Links
      /\ call \in [Conns -> Calls] /\ Monitor \in Sessions /\ c \in Sessions /\ c # Monitor
      /\ link[c].up \in Seq(Line) /\ link[c].down \in Seq(Line)
  BY LutronAssumption DEF TypeOK, Links, Calls, Sessions
<1>3. /\ Session(c) /\ Heard(c) /\ Replied(c) /\ Witness(c)
      /\ call[c].req \in Asked
  BY <1>1, <1>2 DEF SInv, Session, Heard
<1>4. PICK n \in 1..Len(link[c].down) :
        LET chunk == SubSeq(link[c].down, 1, n)
            k == Read(link[c], n) IN
        IF ReplyEnds(chunk)
        THEN /\ End(c, k, IF Result(c) = None THEN "err" ELSE "ok")
             /\ call' = [call EXCEPT ![c].got = Result(c), ![c].lines = 0]
        ELSE IF Has(chunk, "~ERROR")
        THEN End(c, k, "err") /\ UNCHANGED call
        ELSE /\ Hears(c, chunk)
             /\ link' = [link EXCEPT ![c] = k]
             /\ UNCHANGED side
  BY DEF ReadReply
<1>5. PICK chunk, k, v :
        chunk = SubSeq(link[c].down, 1, n) /\ k = Read(link[c], n) /\ v = Result(c)
  OBVIOUS
<1>6. /\ k \in Links /\ k.srv = link[c].srv /\ k.up = link[c].up
      /\ k.down = SubSeq(link[c].down, n + 1, Len(link[c].down))
  BY <1>2, <1>5, ReadOf
<1>7. SplitInto(link[c].down, chunk, k.down)
  BY <1>2, <1>5, <1>6, SplitLines
<1>8. v \in Nat \cup {None} /\ 0 \in 0..2
  BY <1>5, ResultIs
<1>9. Heeded(c) \subseteq Heeded(c)'
  BY SeenGrows
<1>10. CASE End(c, k, "err") /\ (call' = call \/ call' = [call EXCEPT ![c].got = v, ![c].lines = 0])
  <2>1. call' \in [Conns -> Calls] /\ \A d \in Conns \ {c} : call'[d] = call[d]
    BY <1>2, <1>8, <1>10, CallIs DEF CallsBut
  <2> QED
    BY <1>1, <1>6, <1>10, <2>1, GivenUp
<1>11. CASE /\ ReplyEnds(chunk) /\ v # None /\ End(c, k, "ok")
            /\ call' = [call EXCEPT ![c].got = v, ![c].lines = 0]
  <2>1. "ok" \in {"ok", "err"}
    OBVIOUS
  <2>2. /\ link' = [link EXCEPT ![c] = link'[c]] /\ side' = [side EXCEPT ![c] = side'[c]]
        /\ link'[c] \in Links /\ side'[c] = (IF c = Monitor THEN "sleep" ELSE "ok")
        /\ c # Monitor => link'[c] = [srv |-> k.srv, up |-> k.up, down |-> <<>>]
    BY <1>2, <1>6, <1>11, <2>1, EndOf
  <2>3. side'[c] = "ok" /\ link'[c].up = link[c].up /\ link'[c].srv = link[c].srv /\ link'[c].down = <<>>
    BY <1>2, <1>6, <2>2
  <2>4. /\ call' \in [Conns -> Calls] /\ \A d \in Conns \ {c} : call'[d] = call[d]
        /\ call'[c].req = call[c].req /\ call'[c].got = v
    <3>1. CallsBut(c, [req |-> call[c].req, lines |-> 0, got |-> v])
      BY <1>2, <1>8, <1>11, CallIs
    <3> QED
      BY <3>1 DEF CallsBut
  <2>5. Session(c)'
    <3>1. Written(c)'
      BY <1>3, <2>3 DEF Session, Written
    <3> QED
      BY <1>2, <1>3, <2>3, <2>4, <3>1 DEF Session, Sides
  <2>6. Heard(c)'
    <3>1. ~NoPrompt(link[c].down)
      BY <1>7, <1>11 DEF SplitInto
    <3>2. c \notin misread /\ c \in taken \cup silent /\ link[c].srv \in {"ready", "closed"}
      BY <1>2, <1>3, <3>1 DEF Replied, Stuck, Links, SrvPcs
    <3>3. (c \in misread' <=> c \in misread) /\ (c \in taken' <=> c \in taken)
      BY <1>2, <2>3, NotTaken
    <3> QED
      BY <1>1, <2>3, <3>2, <3>3 DEF Heard
  <2>7. Witness(c)'
    <3>1. ASSUME ~IsSet(call[c].req) PROVE v \in Heeded(c)
      <4>1. call[c].lines = 1 /\ v = call[c].got
        BY <1>5, <1>11, <3>1, ResultIs
      <4> QED
        BY <1>1, <1>3, <4>1 DEF Witness
    <3>2. IsSet(call'[c].req) <=> IsSet(call[c].req)
      BY <2>4
    <3> QED
      BY <1>9, <2>3, <2>4, <3>1, <3>2 DEF Witness, IsSet
  <2>8. SInv(c)'
    BY <2>5, <2>6, <2>7 DEF SInv
  <2>9. side'[c] \in Sides(c) /\ (side'[Monitor] = "send" <=> side[Monitor] = "send")
    BY <1>2, <2>2, <2>3 DEF Sides
  <2>10. /\ level' = level /\ batch' \in Seq(Line) /\ (batch' = <<>> <=> side'[Monitor] # "send")
         /\ channel' \in Seq(Line) /\ Len(channel') <= Capacity
    BY <1>1, <2>9 DEF OthersSame, TypeOK
  <2> QED
    BY <1>1, <1>2, <2>2, <2>3, <2>4, <2>8, <2>9, <2>10, DriverStep
<1>12. CASE /\ Hears(c, chunk)
            /\ link' = [link EXCEPT ![c] = k] /\ side' = side
  <2>1. chunk \in Seq(Line) /\ Head(chunk) = chunk[1] /\ 1 \in DOMAIN chunk /\ chunk[1] \in Line
    <3>1. chunk \in Seq(Line) /\ Head(chunk) = chunk[1] /\ 1 \in DOMAIN chunk
      BY <1>7 DEF SplitInto
    <3> QED
      BY <3>1, ElementOfSeq, LenProperties
  <2>2. \/ call' = call
        \/ call' = [call EXCEPT ![c].lines = 2]
        \/ /\ call' = [call EXCEPT ![c].lines = 1, ![c].got = chunk[1].val]
           /\ Output(chunk[1]) /\ chunk[1].light \in Alike[call[c].req.light]
    BY <1>12, <2>1 DEF Hears, Kept
  <2>3. PICK x, y : x = chunk[1].val /\ y = call[c].got
    OBVIOUS
  <2>4. x \in Nat \cup {None} /\ y \in Nat \cup {None} /\ 1 \in 0..2 /\ 2 \in 0..2
    BY <1>2, <2>1, <2>3 DEF Line, Calls
  <2>5. /\ call' \in [Conns -> Calls] /\ \A d \in Conns \ {c} : call'[d] = call[d]
        /\ call'[c].req = call[c].req
        /\ \/ call'[c] = call[c]
           \/ call'[c].lines = 2
           \/ call'[c].got = x /\ Output(chunk[1]) /\ chunk[1].light \in Alike[call[c].req.light]
    <3>1. CASE call' = call
      BY <1>2, <3>1
    <3>2. CASE call' = [call EXCEPT ![c].lines = 2]
      <4>1. CallsBut(c, [req |-> call[c].req, lines |-> 2, got |-> call[c].got])
        BY <1>2, <1>8, <2>4, <3>2, CallIs
      <4> QED
        BY <4>1 DEF CallsBut
    <3>3. CASE /\ call' = [call EXCEPT ![c].lines = 1, ![c].got = chunk[1].val]
               /\ Output(chunk[1]) /\ chunk[1].light \in Alike[call[c].req.light]
      <4>1. call' = [call EXCEPT ![c].lines = 1, ![c].got = x]
        BY <2>3, <3>3
      <4>2. /\ call' \in [Conns -> Calls] /\ \A d \in Conns \ {c} : call'[d] = call[d]
            /\ call'[c].req = call[c].req /\ call'[c].got = x
        <5>1. CallsBut(c, [req |-> call[c].req, lines |-> 1, got |-> x])
          BY <1>2, <2>4, <4>1, CallIs
        <5> QED
          BY <5>1 DEF CallsBut
      <4> QED
        BY <3>3, <4>2
    <3> QED
      BY <2>2, <3>1, <3>2, <3>3
  <2>6. /\ link' = [link EXCEPT ![c] = link'[c]] /\ link'[c] = k
        /\ side' = [side EXCEPT ![c] = side'[c]] /\ side'[c] = "reply"
    BY <1>1, <1>2, <1>12
  <2>7. Session(c)'
    <3>1. Written(c)'
      BY <1>3, <1>6, <2>6 DEF Session, Written
    <3> QED
      BY <1>2, <1>3, <2>5, <2>6, <3>1 DEF Session, Sides
  <2>8. Heard(c)'
    <3>1. (c \in misread' <=> c \in misread) /\ (c \in taken' <=> c \in taken)
      BY <1>2, <1>6, <2>6, NotTaken
    <3>2. NoPrompt(link[c].down) => NoPrompt(k.down)
      BY <1>7 DEF SplitInto
    <3>3. Replied(c)'
      BY <1>1, <1>3, <1>6, <2>6, <3>1, <3>2 DEF Replied, Stuck
    <3> QED
      BY <2>6, <3>3 DEF Heard
  <2>9. Witness(c)'
    <3>1. \A i \in DOMAIN link[c].down : Witnessed(c, link[c].down[i])
      BY <1>1, <1>3 DEF Witness
    <3>2. Witnessed(c, chunk[1]) /\ \A i \in DOMAIN k.down : Witnessed(c, k.down[i])
      BY <1>7, <2>1, <3>1 DEF SplitInto
    <3>3. \A i \in DOMAIN link'[c].down :
            Output(link'[c].down[i]) /\ link'[c].down[i].light \in Alike[call'[c].req.light]
              => link'[c].down[i].val \in Heeded(c)'
      BY <1>9, <2>5, <2>6, <3>2 DEF Witnessed
    <3>4. call'[c].lines = 1 => call'[c].got \in Heeded(c)'
      BY <1>1, <1>3, <1>9, <2>3, <2>5, <3>2 DEF Witness, Witnessed, Heeded
    <3> QED
      BY <2>6, <3>3, <3>4 DEF Witness, Witnessed, Heeded
  <2>10. SInv(c)'
    BY <2>7, <2>8, <2>9 DEF SInv
  <2>11. side'[c] \in Sides(c) /\ (side'[Monitor] = "send" <=> side[Monitor] = "send")
         /\ ~(side'[c] \in {"ok", "err"})
    BY <1>2, <1>12, <2>6 DEF Sides
  <2>12. /\ level' = level /\ batch' \in Seq(Line) /\ (batch' = <<>> <=> side'[Monitor] # "send")
         /\ channel' \in Seq(Line) /\ Len(channel') <= Capacity /\ link'[c] \in Links
    BY <1>1, <1>6, <2>6, <2>11 DEF OthersSame, TypeOK
  <2> QED
    BY <1>1, <1>2, <2>5, <2>6, <2>10, <2>11, <2>12, DriverStep
<1> QED
  BY <1>4, <1>5, <1>10, <1>11, <1>12

-----------------------------------------------------------------------------
(* What is on the way to the receiver.                                     *)

\* The places of the members of a set of positions.
LEMMA Places ==
  ASSUME NEW n \in Nat, NEW A \in SUBSET (1..n), NEW m, m = Cardinality(A)
  PROVE  /\ m \in Nat
         /\ \A i \in A : Cardinality({j \in A : j <= i}) \in 1..m
         /\ \A i, h \in A : i < h =>
              Cardinality({j \in A : j <= i}) < Cardinality({j \in A : j <= h})
         /\ \A k \in 1..m : \E i \in A : Cardinality({j \in A : j <= i}) = k
<1> DEFINE Up(i) == {j \in A : j <= i}
           place == [i \in A |-> Cardinality(Up(i))]
<1>1. IsFiniteSet(1..n)
  BY FS_Interval
<1>2. IsFiniteSet(A) /\ m \in Nat
  BY <1>1, FS_Subset, FS_CardinalityType
<1>3. ASSUME NEW i \in A
      PROVE  IsFiniteSet(Up(i)) /\ Cardinality(Up(i)) \in Nat /\ Cardinality(Up(i)) <= m
  <2>1. Up(i) \in SUBSET A
    OBVIOUS
  <2> QED
    BY <1>2, <2>1, FS_Subset, FS_CardinalityType
<1>4. ASSUME NEW i \in A PROVE Cardinality(Up(i)) # 0
  <2>1. i \in Up(i)
    OBVIOUS
  <2> QED
    BY <1>3, <2>1, FS_EmptySet
<1>5. ASSUME NEW i \in A, NEW h \in A, i < h PROVE Cardinality(Up(i)) < Cardinality(Up(h))
  <2>1. Up(i) \in SUBSET Up(h)
    <3>1. \A j \in A : j \in Nat
      OBVIOUS
    <3>2. \A j \in A : j <= i => j <= h
      BY <1>5, <3>1
    <3> QED
      BY <3>2
  <2>2. h \in Up(h) /\ h \notin Up(i)
    BY <1>5
  <2>3. Cardinality(Up(i)) <= Cardinality(Up(h)) /\ Cardinality(Up(i)) # Cardinality(Up(h))
    BY <1>3, <2>1, <2>2, FS_Subset
  <2> QED
    BY <1>3, <2>3
<1>6. \A i \in A : Cardinality(Up(i)) \in 1..m
  BY <1>2, <1>3, <1>4
<1>7. place \in Injection(A, 1..m)
  <2>1. place \in [A -> 1..m]
    BY <1>6
  <2>2. ASSUME NEW i \in A, NEW h \in A, place[i] = place[h] PROVE i = h
    <3>1. ~(Cardinality(Up(i)) < Cardinality(Up(h))) /\ ~(Cardinality(Up(h)) < Cardinality(Up(i)))
      BY <1>3, <2>2
    <3>2. ~(i < h) /\ ~(h < i)
      BY <1>5, <3>1
    <3> QED
      BY <3>2
  <2> QED
    BY <2>1, <2>2 DEF Injection, IsInjective
<1>8. IsFiniteSet(1..m) /\ Cardinality(1..m) = m
  BY <1>2, FS_Interval
<1>9. place \in Surjection(A, 1..m)
  BY <1>7, <1>8, FS_Injection
<1>10. \A k \in 1..m : \E i \in A : Cardinality(Up(i)) = k
  BY <1>9 DEF Surjection
<1> QED
  BY <1>2, <1>5, <1>6, <1>10

\* The events in what was read, in the order in which they were read.
LEMMA EventsAre ==
  ASSUME NEW q \in Seq(Line), NEW e, e = Events(q)
  PROVE  /\ e \in Seq(Line) /\ AllLevels(e)
         /\ \A l : Quiet(q, l) => Quiet(e, l)
         /\ \A l, v : LastSays(q, l, v) => LastSays(e, l, v)
<1> DEFINE A == {i \in DOMAIN q : q[i].kind = "level"}
           m == Cardinality(A)
           Place(i) == Cardinality({j \in A : j <= i})
<1>1. Len(q) \in Nat /\ DOMAIN q = 1..Len(q) /\ A \in SUBSET (1..Len(q))
  BY LenProperties
<1>2. /\ m \in Nat /\ \A i \in A : Place(i) \in 1..m
      /\ \A i, h \in A : i < h => Place(i) < Place(h)
      /\ \A k \in 1..m : \E i \in A : Place(i) = k
  BY <1>1, Places
<1>3. e = [k \in 1..m |-> q[CHOOSE i \in A : Place(i) = k]]
  BY DEF Events
<1> DEFINE At(k) == CHOOSE i \in A : Place(i) = k
<1>4. ASSUME NEW k \in 1..m PROVE At(k) \in A /\ Place(At(k)) = k /\ e[k] = q[At(k)]
  BY <1>2, <1>3
<1>5. \A i \in A : i \in DOMAIN q /\ q[i] \in Line /\ q[i].kind = "level" /\ i \in Nat
  BY <1>1, ElementOfSeq
<1>6. A \subseteq DOMAIN q /\ \A i \in DOMAIN q : q[i].kind = "level" => i \in A
  OBVIOUS
<1>7. DOMAIN e = 1..m /\ e = [k \in 1..m |-> q[At(k)]]
  BY <1>3
<1> HIDE DEF A, Place, At, m
<1>8. e \in Seq(Line)
  <2>1. \A k \in 1..m : q[At(k)] \in Line
    BY <1>4, <1>5
  <2> QED
    BY <1>2, <1>7, <2>1
<1>9. \A i, h \in A : Place(i) = Place(h) => i = h
  <2> SUFFICES ASSUME NEW i \in A, NEW h \in A, Place(i) = Place(h) PROVE i = h
    OBVIOUS
  <2>1. Place(i) \in Nat /\ Place(h) \in Nat
    BY <1>2
  <2>2. ~(i < h) /\ ~(h < i)
    BY <1>2, <2>1
  <2> QED
    BY <1>5, <2>2
<1>10. AllLevels(e)
  BY <1>4, <1>5, <1>7 DEF AllLevels
<1>11. ASSUME NEW l, Quiet(q, l) PROVE Quiet(e, l)
  BY <1>4, <1>6, <1>7, <1>11 DEF Quiet
<1>12. ASSUME NEW l, NEW v, LastSays(q, l, v) PROVE LastSays(e, l, v)
  <2>1. PICK i \in DOMAIN q : About(q[i], l) /\ q[i].val = v /\ \A j \in DOMAIN q : j > i => ~About(q[j], l)
    BY <1>12 DEF LastSays
  <2>2. i \in A
    BY <1>6, <2>1 DEF About
  <2>3. Place(i) \in 1..m
    BY <1>2, <2>2
  <2>4. At(Place(i)) = i /\ e[Place(i)] = q[i]
    BY <1>4, <1>9, <2>2, <2>3
  <2>5. ASSUME NEW k \in 1..m, k > Place(i) PROVE ~About(e[k], l)
    <3>1. At(k) \in A /\ Place(At(k)) = k /\ e[k] = q[At(k)]
      BY <1>4
    <3>2. Place(At(k)) > Place(i)
      BY <2>5, <3>1
    <3>3. k \in Nat /\ Place(i) \in Nat
      BY <2>3, <1>2
    <3>4. ~(At(k) < i) /\ At(k) # i
      BY <1>2, <2>2, <3>1, <3>2, <3>3
    <3>5. At(k) > i /\ At(k) \in DOMAIN q
      BY <1>5, <2>2, <3>1, <3>4
    <3> QED
      BY <2>1, <3>1, <3>5
  <2> QED
    BY <1>7, <2>1, <2>3, <2>4, <2>5 DEF LastSays
<1> QED
  BY <1>8, <1>10, <1>11, <1>12

LEMMA SaysCat ==
  ASSUME NEW p \in Seq(Line), NEW q \in Seq(Line), NEW l, NEW v
  PROVE  /\ LastSays(q, l, v) => LastSays(p \o q, l, v)
         /\ LastSays(p, l, v) /\ Quiet(q, l) => LastSays(p \o q, l, v)
         /\ Quiet(p, l) /\ Quiet(q, l) => Quiet(p \o q, l)
<1>1. /\ Len(p) \in Nat /\ Len(q) \in Nat /\ DOMAIN p = 1..Len(p) /\ DOMAIN q = 1..Len(q)
      /\ DOMAIN (p \o q) = 1..(Len(p) + Len(q))
      /\ \A i \in 1..Len(p) : (p \o q)[i] = p[i]
      /\ \A i \in 1..Len(q) : (p \o q)[Len(p) + i] = q[i]
  BY CatAt, LenProperties
<1> DEFINE c == p \o q
           n == Len(p)
           m == Len(q)
<1>2. /\ n \in Nat /\ m \in Nat /\ DOMAIN p = 1..n /\ DOMAIN q = 1..m /\ DOMAIN c = 1..(n + m)
      /\ \A i \in 1..n : c[i] = p[i]
      /\ \A i \in 1..m : c[n + i] = q[i]
  BY <1>1
<1> HIDE DEF c, n, m
<1>3. \A i \in DOMAIN c : i <= n => i \in DOMAIN p /\ c[i] = p[i]
  BY <1>2
<1>4. \A i \in DOMAIN c : i > n => i - n \in DOMAIN q /\ c[i] = q[i - n]
  <2> TAKE i \in DOMAIN c
  <2> HAVE i > n
  <2>1. i - n \in 1..m /\ n + (i - n) = i
    BY <1>2
  <2>2. c[n + (i - n)] = q[i - n]
    BY <1>2, <2>1
  <2> QED
    BY <1>2, <2>1, <2>2
<1>5. ASSUME LastSays(q, l, v) PROVE LastSays(c, l, v)
  <2>1. PICK i \in DOMAIN q : About(q[i], l) /\ q[i].val = v /\ \A j \in DOMAIN q : j > i => ~About(q[j], l)
    BY <1>5 DEF LastSays
  <2>2. n + i \in DOMAIN c /\ c[n + i] = q[i]
    BY <1>2
  <2>3. ASSUME NEW j \in DOMAIN c, j > n + i PROVE ~About(c[j], l)
    <3>1. j > n /\ j - n > i
      BY <1>2, <2>3
    <3> QED
      BY <1>4, <2>1, <3>1
  <2> QED
    BY <2>1, <2>2, <2>3 DEF LastSays
<1>6. ASSUME LastSays(p, l, v), Quiet(q, l) PROVE LastSays(c, l, v)
  <2>1. PICK i \in DOMAIN p : About(p[i], l) /\ p[i].val = v /\ \A j \in DOMAIN p : j > i => ~About(p[j], l)
    BY <1>6 DEF LastSays
  <2>2. i \in DOMAIN c /\ c[i] = p[i]
    BY <1>2
  <2>3. ASSUME NEW j \in DOMAIN c, j > i PROVE ~About(c[j], l)
    <3>1. j <= n \/ j > n
      BY <1>2
    <3> QED
      BY <1>3, <1>4, <1>6, <2>1, <2>3, <3>1 DEF Quiet
  <2> QED
    BY <2>1, <2>2, <2>3 DEF LastSays
<1>7. ASSUME Quiet(p, l), Quiet(q, l) PROVE Quiet(c, l)
  <2>1. \A i \in DOMAIN c : i <= n \/ i > n
    BY <1>2
  <2> QED
    BY <1>3, <1>4, <1>7, <2>1 DEF Quiet
<1> QED
  BY <1>5, <1>6, <1>7 DEF c

LEMMA SaysSplit ==
  ASSUME NEW q \in Seq(Line), NEW n \in 1..Len(q), NEW l, NEW v
  PROVE  /\ LastSays(q, l, v) =>
              \/ LastSays(SubSeq(q, n + 1, Len(q)), l, v)
              \/ Quiet(SubSeq(q, n + 1, Len(q)), l) /\ LastSays(SubSeq(q, 1, n), l, v)
         /\ Quiet(q, l) => Quiet(SubSeq(q, n + 1, Len(q)), l) /\ Quiet(SubSeq(q, 1, n), l)
<1> DEFINE c == SubSeq(q, 1, n)
           r == SubSeq(q, n + 1, Len(q))
           m == Len(q)
<1>1. /\ c \in Seq(Line) /\ Len(c) = n /\ \A i \in 1..n : c[i] = q[i]
      /\ r \in Seq(Line) /\ Len(r) = m - n /\ \A i \in 1..(m - n) : r[i] = q[n + i]
  BY SplitAt
<1>2. m \in Nat /\ n \in Nat /\ n >= 1 /\ n <= m /\ DOMAIN q = 1..m
  BY LenProperties
<1> HIDE DEF c, r, m
<1>3. DOMAIN c = 1..n /\ DOMAIN r = 1..(m - n)
  BY <1>1, LenProperties
<1>4. \A i \in DOMAIN c : i \in DOMAIN q /\ c[i] = q[i]
  BY <1>1, <1>2, <1>3
<1>5. \A i \in DOMAIN r : n + i \in DOMAIN q /\ r[i] = q[n + i]
  <2> TAKE i \in DOMAIN r
  <2>1. i \in 1..(m - n)
    BY <1>3
  <2>2. n + i \in 1..m
    BY <1>2, <2>1
  <2> QED
    BY <1>1, <1>2, <2>1, <2>2
<1>6. ASSUME Quiet(q, l) PROVE Quiet(r, l) /\ Quiet(c, l)
  BY <1>4, <1>5, <1>6 DEF Quiet
<1>7. ASSUME LastSays(q, l, v) PROVE LastSays(r, l, v) \/ (Quiet(r, l) /\ LastSays(c, l, v))
  <2>1. PICK i \in DOMAIN q : About(q[i], l) /\ q[i].val = v /\ \A j \in DOMAIN q : j > i => ~About(q[j], l)
    BY <1>7 DEF LastSays
  <2>2. CASE i <= n
    <3>1. i \in DOMAIN c /\ c[i] = q[i]
      BY <1>1, <1>2, <1>3, <2>2
    <3>2. \A j \in DOMAIN c : j > i => ~About(c[j], l)
      BY <1>4, <2>1
    <3>3. \A j \in DOMAIN r : ~About(r[j], l)
      <4> TAKE j \in DOMAIN r
      <4>1. n + j > i
        BY <1>2, <1>3, <2>2
      <4> QED
        BY <1>5, <2>1, <4>1
    <3> QED
      BY <2>1, <3>1, <3>2, <3>3 DEF LastSays, Quiet
  <2>3. CASE i > n
    <3>1. i - n \in DOMAIN r /\ n + (i - n) = i
      BY <1>2, <1>3, <2>3
    <3>2. r[i - n] = q[i]
      BY <1>5, <3>1
    <3>3. \A j \in DOMAIN r : j > i - n => ~About(r[j], l)
      <4> TAKE j \in DOMAIN r
      <4> HAVE j > i - n
      <4>1. n + j > i
        BY <1>2, <1>3
      <4> QED
        BY <1>5, <2>1, <4>1
    <3> QED
      BY <2>1, <3>1, <3>2, <3>3 DEF LastSays
  <2> QED
    BY <1>2, <2>2, <2>3
<1> QED
  BY <1>6, <1>7 DEF c, r, m

LEMMA SaysTail ==
  ASSUME NEW q \in Seq(Line), q # <<>>, NEW l, NEW v
  PROVE  /\ LastSays(q, l, v) =>
              \/ LastSays(Tail(q), l, v)
              \/ Quiet(Tail(q), l) /\ About(Head(q), l) /\ Head(q).val = v
         /\ Quiet(q, l) => Quiet(Tail(q), l) /\ ~About(Head(q), l)
<1> DEFINE t == Tail(q)
           m == Len(q)
<1>1. /\ Head(q) = q[1] /\ 1 \in DOMAIN q /\ t \in Seq(Line) /\ Len(t) = m - 1
      /\ m \in Nat /\ m >= 1 /\ \A i \in 1..(m - 1) : t[i] = q[i + 1]
  BY TailAt
<1>2. DOMAIN q = 1..m
  BY LenProperties
<1> HIDE DEF t, m
<1>3. DOMAIN t = 1..(m - 1)
  BY <1>1, LenProperties
<1>4. \A i \in DOMAIN t : i + 1 \in DOMAIN q /\ t[i] = q[i + 1] /\ i \in Nat /\ i >= 1
  BY <1>1, <1>2, <1>3
<1>5. ASSUME Quiet(q, l) PROVE Quiet(t, l) /\ ~About(Head(q), l)
  BY <1>1, <1>4, <1>5 DEF Quiet
<1>6. ASSUME LastSays(q, l, v)
      PROVE  LastSays(t, l, v) \/ (Quiet(t, l) /\ About(Head(q), l) /\ Head(q).val = v)
  <2>1. PICK i \in DOMAIN q : About(q[i], l) /\ q[i].val = v /\ \A j \in DOMAIN q : j > i => ~About(q[j], l)
    BY <1>6 DEF LastSays
  <2>2. CASE i = 1
    <3>1. \A j \in DOMAIN t : ~About(t[j], l)
      BY <1>4, <2>1, <2>2
    <3> QED
      BY <1>1, <2>1, <2>2, <3>1 DEF Quiet
  <2>3. CASE i # 1
    <3>1. i - 1 \in DOMAIN t /\ (i - 1) + 1 = i
      BY <1>1, <1>2, <1>3, <2>3
    <3>2. t[i - 1] = q[i]
      BY <1>4, <3>1
    <3>3. \A j \in DOMAIN t : j > i - 1 => ~About(t[j], l)
      <4> TAKE j \in DOMAIN t
      <4> HAVE j > i - 1
      <4>1. j + 1 > i
        BY <1>2, <1>3, <1>1
      <4> QED
        BY <1>4, <2>1, <4>1
    <3> QED
      BY <2>1, <3>1, <3>2, <3>3 DEF LastSays
  <2> QED
    BY <2>2, <2>3
<1> QED
  BY <1>5, <1>6 DEF t

LEMMA SaysAppend ==
  ASSUME NEW q \in Seq(Line), NEW x \in Line, NEW l, NEW v
  PROVE  /\ About(x, l) /\ x.val = v => LastSays(Append(q, x), l, v)
         /\ ~About(x, l) /\ LastSays(q, l, v) => LastSays(Append(q, x), l, v)
         /\ ~About(x, l) /\ Quiet(q, l) => Quiet(Append(q, x), l)
<1> DEFINE a == Append(q, x)
           m == Len(q)
<1>1. /\ m \in Nat /\ \A i \in 1..m : a[i] = q[i]
      /\ a[m + 1] = x /\ DOMAIN a = 1..(m + 1) /\ DOMAIN q = 1..m
  BY AppendLine
<1> HIDE DEF a, m
<1>2. \A i \in DOMAIN a : i = m + 1 \/ (i \in DOMAIN q /\ a[i] = q[i])
  BY <1>1
<1>3. m + 1 \in DOMAIN a /\ \A j \in DOMAIN a : ~(j > m + 1)
  BY <1>1
<1>4. ASSUME About(x, l), x.val = v PROVE LastSays(a, l, v)
  BY <1>1, <1>3, <1>4 DEF LastSays
<1>5. ASSUME ~About(x, l), LastSays(q, l, v) PROVE LastSays(a, l, v)
  BY <1>1, <1>2, <1>5 DEF LastSays
<1>6. ASSUME ~About(x, l), Quiet(q, l) PROVE Quiet(a, l)
  BY <1>1, <1>2, <1>6 DEF Quiet
<1> QED
  BY <1>4, <1>5, <1>6 DEF a

\* The ways of a report from the repeater to the receiver.
LEMMA TellsRead ==
  ASSUME NEW q \in Seq(Line), NEW n \in 1..Len(q), NEW sent, NEW c, NEW t, NEW l, NEW v,
         sent = <<>>, Tells(q, sent, c, t, l, v)
  PROVE  Tells(SubSeq(q, n + 1, Len(q)), Events(SubSeq(q, 1, n)), c, t, l, v)
<1>1. SubSeq(q, 1, n) \in Seq(Line)
  BY SplitAt
<1>2. /\ Quiet(SubSeq(q, 1, n), l) => Quiet(Events(SubSeq(q, 1, n)), l)
      /\ LastSays(SubSeq(q, 1, n), l, v) => LastSays(Events(SubSeq(q, 1, n)), l, v)
  BY <1>1, EventsAre
<1>3. ~LastSays(sent, l, v)
  BY DEF LastSays
<1> QED
  BY <1>2, <1>3, SaysSplit DEF Tells

LEMMA TellsSend ==
  ASSUME NEW d, NEW q \in Seq(Line), q # <<>>, NEW c \in Seq(Line), NEW t, NEW l, NEW v,
         Tells(d, q, c, t, l, v)
  PROVE  Tells(d, Tail(q), Append(c, Head(q)), t, l, v)
<1>1. Head(q) \in Line
  BY TailAt
<1>2. /\ About(Head(q), l) /\ Head(q).val = v => LastSays(Append(c, Head(q)), l, v)
      /\ ~About(Head(q), l) /\ LastSays(c, l, v) => LastSays(Append(c, Head(q)), l, v)
      /\ ~About(Head(q), l) /\ Quiet(c, l) => Quiet(Append(c, Head(q)), l)
  BY <1>1, SaysAppend
<1>3. /\ LastSays(q, l, v) =>
           \/ LastSays(Tail(q), l, v)
           \/ Quiet(Tail(q), l) /\ About(Head(q), l) /\ Head(q).val = v
      /\ Quiet(q, l) => Quiet(Tail(q), l) /\ ~About(Head(q), l)
  BY SaysTail
<1> QED
  BY <1>2, <1>3 DEF Tells

LEMMA TellsReceive ==
  ASSUME NEW d, NEW b, NEW q \in Seq(Line), q # <<>>, AllLevels(q), NEW t, NEW u, NEW l, NEW v,
         u = IF Head(q).light = l THEN Head(q).val ELSE t,
         Tells(d, b, q, t, l, v)
  PROVE  Tells(d, b, Tail(q), u, l, v)
<1>1. Head(q).kind = "level"
  BY TailAt DEF AllLevels
<1>2. About(Head(q), l) <=> Head(q).light = l
  BY <1>1 DEF About
<1>3. /\ LastSays(q, l, v) =>
           \/ LastSays(Tail(q), l, v)
           \/ Quiet(Tail(q), l) /\ About(Head(q), l) /\ Head(q).val = v
      /\ Quiet(q, l) => Quiet(Tail(q), l) /\ ~About(Head(q), l)
  BY SaysTail
<1> QED
  BY <1>2, <1>3 DEF Tells

LEMMA TellsMore ==
  ASSUME NEW q \in Seq(Line), NEW x \in Seq(Line), NEW b, NEW c, NEW t, NEW l, NEW v
  PROVE  /\ Tells(q, b, c, t, l, v) /\ Quiet(x, l) => Tells(q \o x, b, c, t, l, v)
         /\ LastSays(x, l, v) => Tells(q \o x, b, c, t, l, v)
BY SaysCat DEF Tells

LEMMA AllLevelsKept ==
  ASSUME NEW q \in Seq(Line), AllLevels(q), q # <<>>
  PROVE  /\ Tail(q) \in Seq(Line) /\ AllLevels(Tail(q)) /\ Head(q) \in Line /\ Head(q).kind = "level"
         /\ \A p \in Seq(Line) : AllLevels(p) => AllLevels(Append(p, Head(q)))
<1>1. /\ Head(q) \in Line /\ Head(q) = q[1] /\ 1 \in DOMAIN q
      /\ Tail(q) \in Seq(Line) /\ Len(Tail(q)) = Len(q) - 1 /\ Len(q) \in Nat /\ Len(q) >= 1
      /\ \A i \in 1..(Len(q) - 1) : Tail(q)[i] = q[i + 1]
  BY TailAt
<1>2. Head(q).kind = "level"
  BY <1>1 DEF AllLevels
<1>3. AllLevels(Tail(q))
  <2>1. DOMAIN q = 1..Len(q) /\ DOMAIN Tail(q) = 1..(Len(q) - 1)
    BY <1>1, LenProperties
  <2>2. \A i \in 1..(Len(q) - 1) : i + 1 \in DOMAIN q /\ Tail(q)[i] = q[i + 1]
    BY <1>1, <2>1
  <2> QED
    BY <2>1, <2>2 DEF AllLevels
<1>4. ASSUME NEW p \in Seq(Line), AllLevels(p) PROVE AllLevels(Append(p, Head(q)))
  <2>1. /\ Len(p) \in Nat /\ \A i \in 1..Len(p) : Append(p, Head(q))[i] = p[i]
        /\ Append(p, Head(q))[Len(p) + 1] = Head(q)
        /\ DOMAIN Append(p, Head(q)) = 1..(Len(p) + 1) /\ DOMAIN p = 1..Len(p)
    BY <1>1, AppendLine
  <2>2. \A i \in 1..(Len(p) + 1) : i \in 1..Len(p) \/ i = Len(p) + 1
    BY <2>1
  <2> QED
    BY <1>2, <1>4, <2>1, <2>2 DEF AllLevels
<1> QED
  BY <1>1, <1>2, <1>3, <1>4

\* Nothing is received.
LEMMA ToldSame ==
  ASSUME TypeOK, Remembered,
         channel' = channel \/ ~receiver' \/ \E x \in Line : channel' = Append(channel, x)
  PROVE  told' = told
<1>1. channel \in Seq(Line) /\ Len(channel) \in Nat
  BY LenProperties DEF TypeOK
<1>2. ASSUME channel # <<>>, channel' = Tail(channel) PROVE Len(channel') = Len(channel) - 1
  BY <1>1, <1>2, TailAt
<1>3. ASSUME NEW x \in Line, channel' = Append(channel, x) PROVE Len(channel') = Len(channel) + 1
  BY <1>1, <1>3, AppendLine
<1>4. ~(channel # <<>> /\ channel' = Tail(channel) /\ receiver')
  BY <1>1, <1>2, <1>3
<1> QED
  BY <1>4 DEF Remembered

\* The monitor is not listening, or has lost its session.
LEMMA WatchDeaf ==
  ASSUME TypeOK, Watched, Remembered, batch' = batch, channel' = channel,
         side[Monitor] \notin {"listen", "send"} \/ link[Monitor].srv \notin {"greeting", "ready"}
  PROVE  Watched'
<1>1. told' = told /\ changed' = {}
  BY ToldSame DEF Remembered
<1>2. AllLevels(batch)' /\ AllLevels(channel)'
  BY DEF Watched, AllLevels
<1> QED
  BY <1>1, <1>2 DEF Watched

\* Nothing changes, and the monitor is told nothing of a level.
LEMMA WatchQuiet ==
  ASSUME TypeOK, Watched, Remembered, batch' = batch, channel' = channel, receiver' = receiver,
         level' = level, side'[Monitor] = side[Monitor],
         \/ link'[Monitor].down = link[Monitor].down
         \/ \E x \in Seq(Line) : /\ \A l : Quiet(x, l)
                                 /\ link'[Monitor].down = link[Monitor].down \o x
  PROVE  Watched'
<1>1. CASE side[Monitor] \notin {"listen", "send"} \/ link[Monitor].srv \notin {"greeting", "ready"}
  BY <1>1, WatchDeaf
<1>2. CASE side[Monitor] \in {"listen", "send"} /\ link[Monitor].srv \in {"greeting", "ready"}
  <2>1. told' = told /\ changed' = changed
    BY <1>2, ToldSame DEF Remembered, Watched
  <2>2. AllLevels(batch)' /\ AllLevels(channel)'
    BY DEF Watched, AllLevels
  <2>3. link[Monitor].down \in Seq(Line)
    BY DEF TypeOK, Sessions
  <2>4. ASSUME receiver, NEW l \in changed PROVE Known(l)'
    <3>1. Tells(link[Monitor].down, batch, channel, told[l], l, level[l])
      BY <2>4 DEF Watched, Known
    <3>2. Tells(link'[Monitor].down, batch, channel, told[l], l, level[l])
      <4>1. CASE link'[Monitor].down = link[Monitor].down
        BY <3>1, <4>1
      <4>2. ASSUME NEW x \in Seq(Line), Quiet(x, l), link'[Monitor].down = link[Monitor].down \o x
            PROVE  Tells(link'[Monitor].down, batch, channel, told[l], l, level[l])
        BY <2>3, <3>1, <4>2, TellsMore
      <4> QED
        BY <4>1, <4>2
    <3> QED
      BY <2>1, <3>2 DEF Known
  <2> QED
    BY <1>2, <2>1, <2>2, <2>4 DEF Watched
<1> QED
  BY <1>1, <1>2

LEMMA ReportSays ==
  ASSUME NEW l \in Lights, NEW v \in Levels, NEW r \in Reports(l, v)
  PROVE  LastSays(r, l, v) /\ \A m : m # l => Quiet(r, m)
<1>1. /\ r \in Seq(Line) /\ r[Len(r)] = LevelLine(l, v) /\ Len(r) \in {1, 2}
      /\ Len(r) = 2 => r[1].kind = "other"
  BY ReportLines
<1>2. /\ DOMAIN r = 1..Len(r) /\ About(LevelLine(l, v), l) /\ LevelLine(l, v).val = v
      /\ LevelLine(l, v).light = l
  BY <1>1, LenProperties DEF About, LevelLine
<1>3. CASE Len(r) = 1
  BY <1>1, <1>2, <1>3 DEF LastSays, Quiet, About
<1>4. CASE Len(r) = 2
  <2>1. DOMAIN r = 1..2 /\ r[2] = LevelLine(l, v) /\ r[1].kind = "other"
    BY <1>1, <1>2, <1>4
  <2>2. \A m : ~About(r[1], m)
    BY <2>1 DEF About
  <2>3. LastSays(r, l, v)
    <3>1. 2 \in DOMAIN r /\ \A j \in DOMAIN r : ~(j > 2)
      BY <2>1
    <3>2. About(r[2], l) /\ r[2].val = v
      BY <1>2, <2>1
    <3> QED
      BY <3>1, <3>2 DEF LastSays
  <2>4. ASSUME NEW m, m # l PROVE Quiet(r, m)
    <3>1. ~About(r[2], m)
      BY <1>2, <2>1, <2>4 DEF About
    <3>2. \A i \in DOMAIN r : i = 1 \/ i = 2
      BY <2>1
    <3> QED
      BY <2>2, <3>1, <3>2 DEF Quiet
  <2> QED
    BY <2>3, <2>4
<1> QED
  BY <1>1, <1>3, <1>4

\* A level changes, and the monitor is told if it listens.
LEMMA WatchTold ==
  ASSUME TypeOK, Watched, Remembered, Session(Monitor),
         batch' = batch, channel' = channel, receiver' = receiver,
         NEW l \in Lights, NEW v \in Levels, NEW r \in Reports(l, v),
         level' = [level EXCEPT ![l] = v], side'[Monitor] = side[Monitor],
         link'[Monitor] = Told(r)[Monitor]
  PROVE  Watched'
<1>1. CASE side[Monitor] \notin {"listen", "send"} \/ link[Monitor].srv \notin {"greeting", "ready"}
  BY <1>1, WatchDeaf
<1>2. CASE side[Monitor] \in {"listen", "send"} /\ link[Monitor].srv \in {"greeting", "ready"}
  <2>1. told' = told /\ changed' = changed \cup {m \in Lights : level'[m] # level[m]}
    BY <1>2, ToldSame DEF Remembered
  <2>2. AllLevels(batch)' /\ AllLevels(channel)'
    BY DEF Watched, AllLevels
  <2>3. link[Monitor].down \in Seq(Line) /\ Monitor \in Sessions /\ link[Monitor] \in Links
    BY DEF TypeOK, Sessions, Links
  <2>4. link'[Monitor].down = link[Monitor].down \o r
    <3>1. ~Ended(Monitor)
      BY <1>2 DEF Ended
    <3>2. link'[Monitor] = [link[Monitor] EXCEPT !.down = @ \o r]
      BY <1>2, <2>3, <3>1 DEF Told
    <3> QED
      BY <2>3, <3>2 DEF Links
  <2>5. level'[l] = v /\ \A m \in Lights \ {l} : level'[m] = level[m]
    BY DEF TypeOK
  <2>6. r \in Seq(Line)
    BY ReportLines
  <2>7. ASSUME receiver, NEW m \in changed' PROVE Known(m)'
    <3>1. m \in Lights
      BY <2>1, <2>7 DEF Watched
    <3>2. CASE m = l
      <4>1. Tells(link[Monitor].down \o r, batch, channel, told[l], l, v)
        BY <2>3, <2>6, ReportSays, TellsMore
      <4> QED
        BY <2>1, <2>4, <2>5, <3>2, <4>1 DEF Known
    <3>3. CASE m # l
      <4>1. m \in changed /\ level'[m] = level[m]
        BY <2>1, <2>5, <2>7, <3>1, <3>3
      <4>2. Tells(link[Monitor].down, batch, channel, told[m], m, level[m])
        BY <2>7, <4>1 DEF Watched, Known
      <4>3. Quiet(r, m)
        BY <3>3, ReportSays
      <4>4. Tells(link[Monitor].down \o r, batch, channel, told[m], m, level[m])
        BY <2>3, <2>6, <4>2, <4>3, TellsMore
      <4> QED
        BY <2>1, <2>4, <4>1, <4>4 DEF Known
    <3> QED
      BY <3>2, <3>3
  <2>8. changed' \subseteq Lights
    BY <2>1 DEF Watched
  <2> QED
    BY <1>2, <2>1, <2>2, <2>7, <2>8 DEF Watched
<1> QED
  BY <1>1, <1>2

-----------------------------------------------------------------------------
(* The monitor and its channel.                                            *)

LEMMA ReadEventsStep ==
  ASSUME TypeOK, HistoryOK, \A j \in Sessions : SInv(j), Watched, ReadEvents, Remembered
  PROVE  TypeOK' /\ (\A j \in Sessions : SInv(j)') /\ Watched'
<1>1. /\ side[Monitor] = "listen" /\ level' = level /\ silent' = silent /\ call' = call
      /\ channel' = channel /\ receiver' = receiver
      /\ side' = [side EXCEPT ![Monitor] = IF batch' = <<>> THEN "listen" ELSE "send"]
  BY DEF ReadEvents
<1>2. PICK n \in 1..Len(link[Monitor].down) :
        /\ batch' = Events(SubSeq(link[Monitor].down, 1, n))
        /\ link' = [link EXCEPT ![Monitor] = Read(@, n)]
  BY DEF ReadEvents
<1>3. /\ Monitor \in Sessions /\ Monitor \notin Conns /\ link \in [Sessions -> Links]
      /\ side \in [Sessions -> DriverPcs] /\ link[Monitor] \in Links
      /\ call \in [Conns -> Calls] /\ link[Monitor].down \in Seq(Line)
      /\ batch = <<>> /\ channel \in Seq(Line) /\ Len(channel) <= Capacity
  BY <1>1, LutronAssumption DEF TypeOK, Links, Calls, Sessions
<1>4. PICK k : k = Read(link[Monitor], n)
  OBVIOUS
<1>5. /\ k \in Links /\ k.srv = link[Monitor].srv /\ k.up = link[Monitor].up
      /\ k.down = SubSeq(link[Monitor].down, n + 1, Len(link[Monitor].down))
  BY <1>3, <1>4, ReadOf
<1>6. /\ link' = [link EXCEPT ![Monitor] = link'[Monitor]] /\ link'[Monitor] = k
      /\ side' = [side EXCEPT ![Monitor] = side'[Monitor]]
      /\ side'[Monitor] = IF batch' = <<>> THEN "listen" ELSE "send"
  BY <1>1, <1>2, <1>3, <1>4
<1>7. batch' \in Seq(Line) /\ AllLevels(batch')
  BY Zenon, <1>2, <1>3, SplitAt, EventsAre
<1>8. Session(Monitor) /\ Watched
  BY <1>3 DEF SInv
<1>9. SInv(Monitor)'
  <2>1. Written(Monitor)'
    BY <1>5, <1>6, <1>8 DEF Session, Written
  <2>2. Session(Monitor)'
    BY <1>6, <2>1 DEF Session, Sides
  <2> QED
    BY <1>3, <2>2 DEF SInv
<1>10. TypeOK' /\ \A j \in Sessions : SInv(j)'
  <2>1. /\ side'[Monitor] \in Sides(Monitor) /\ ~(side'[Monitor] \in {"ok", "err"})
        /\ batch' = <<>> <=> side'[Monitor] # "send"
    BY <1>6 DEF Sides
  <2>2. /\ silent' \subseteq silent \cup {Monitor} /\ silent \subseteq silent' \cup {Monitor}
        /\ call' \in [Conns -> Calls] /\ \A c \in Conns \ {Monitor} : call'[c] = call[c]
        /\ channel' \in Seq(Line) /\ Len(channel') <= Capacity /\ link'[Monitor] \in Links
    BY <1>1, <1>3, <1>5, <1>6
  <2> QED
    BY <1>1, <1>3, <1>6, <1>7, <1>9, <2>1, <2>2, DriverStep
<1>11. Watched'
  <2>1. told' = told /\ changed' \subseteq changed
    BY <1>1, ToldSame DEF Remembered
  <2>2. AllLevels(batch)' /\ AllLevels(channel)'
    BY <1>1, <1>7 DEF Watched, AllLevels
  <2>3. ASSUME receiver, NEW l \in changed' PROVE Known(l)'
    <3>1. Tells(link[Monitor].down, batch, channel, told[l], l, level[l])
      BY <1>8, <2>1, <2>3 DEF Watched, Known
    <3>2. PICK t, v : t = told[l] /\ v = level[l]
      OBVIOUS
    <3>3. Tells(k.down, batch', channel, t, l, v)
      BY <1>2, <1>3, <1>5, <3>1, <3>2, TellsRead
    <3> QED
      BY <1>1, <1>6, <2>1, <3>2, <3>3 DEF Known
  <2>4. side'[Monitor] \in {"listen", "send"}
    BY <1>6
  <2> QED
    BY <1>1, <1>8, <2>1, <2>2, <2>3, <2>4 DEF Watched
<1> QED
  BY <1>10, <1>11

LEMMA SendEventStep ==
  ASSUME TypeOK, HistoryOK, \A j \in Sessions : SInv(j), Watched, SendEvent, Remembered
  PROVE  TypeOK' /\ (\A j \in Sessions : SInv(j)') /\ Watched'
<1>1. /\ side[Monitor] = "send" /\ level' = level /\ silent' = silent /\ call' = call
      /\ link' = link /\ receiver' = receiver /\ Len(channel) < Capacity
      /\ channel' = Append(channel, Head(batch)) /\ batch' = Tail(batch)
      /\ side' = [side EXCEPT ![Monitor] = IF batch' = <<>> THEN "listen" ELSE "send"]
  BY DEF SendEvent, Room
<1>2. /\ Monitor \in Sessions /\ Monitor \notin Conns /\ link \in [Sessions -> Links]
      /\ side \in [Sessions -> DriverPcs] /\ link[Monitor] \in Links /\ call \in [Conns -> Calls]
      /\ batch \in Seq(Line) /\ batch # <<>> /\ channel \in Seq(Line) /\ Capacity \in Nat
  BY <1>1, LutronAssumption DEF TypeOK, Links, Calls, Sessions
<1>3. Session(Monitor) /\ Watched
  BY <1>2 DEF SInv
<1>4. /\ batch' \in Seq(Line) /\ AllLevels(batch') /\ Head(batch) \in Line
      /\ AllLevels(channel')
  BY <1>1, <1>2, <1>3, AllLevelsKept DEF Watched
<1>5. channel' \in Seq(Line) /\ Len(channel') <= Capacity
  <2>1. channel' \in Seq(Line) /\ Len(channel') = Len(channel) + 1 /\ Len(channel) \in Nat
    BY <1>1, <1>2, <1>4, AppendLine
  <2> QED
    BY <1>1, <1>2, <2>1
<1>6. /\ link' = [link EXCEPT ![Monitor] = link'[Monitor]] /\ link'[Monitor] = link[Monitor]
      /\ side' = [side EXCEPT ![Monitor] = side'[Monitor]]
      /\ side'[Monitor] = IF batch' = <<>> THEN "listen" ELSE "send"
  BY <1>1, <1>2
<1>7. SInv(Monitor)'
  <2>1. Written(Monitor)'
    BY <1>3, <1>6 DEF Session, Written
  <2>2. Session(Monitor)'
    BY <1>6, <2>1 DEF Session, Sides
  <2> QED
    BY <1>2, <2>2 DEF SInv
<1>8. TypeOK' /\ \A j \in Sessions : SInv(j)'
  <2>1. /\ side'[Monitor] \in Sides(Monitor) /\ ~(side'[Monitor] \in {"ok", "err"})
        /\ batch' = <<>> <=> side'[Monitor] # "send"
    BY <1>6 DEF Sides
  <2>2. /\ silent' \subseteq silent \cup {Monitor} /\ silent \subseteq silent' \cup {Monitor}
        /\ call' \in [Conns -> Calls] /\ \A c \in Conns \ {Monitor} : call'[c] = call[c]
        /\ link'[Monitor] \in Links
    BY <1>1, <1>2, <1>6
  <2> QED
    BY <1>1, <1>2, <1>4, <1>5, <1>6, <1>7, <2>1, <2>2, DriverStep
<1>9. Watched'
  <2>1. told' = told /\ changed' \subseteq changed
    BY <1>1, <1>4, ToldSame DEF Remembered
  <2>2. AllLevels(batch)' /\ AllLevels(channel)'
    BY <1>4 DEF AllLevels
  <2>3. ASSUME receiver, NEW l \in changed' PROVE Known(l)'
    <3>1. Tells(link[Monitor].down, batch, channel, told[l], l, level[l])
      BY <1>3, <2>1, <2>3 DEF Watched, Known
    <3>2. PICK d, t, v : d = link[Monitor].down /\ t = told[l] /\ v = level[l]
      OBVIOUS
    <3>3. Tells(d, batch', channel', t, l, v)
      BY <1>1, <1>2, <3>1, <3>2, TellsSend
    <3> QED
      BY <1>1, <2>1, <3>2, <3>3 DEF Known
  <2>4. side'[Monitor] \in {"listen", "send"}
    BY <1>6
  <2> QED
    BY <1>1, <1>3, <2>1, <2>2, <2>3, <2>4 DEF Watched
<1> QED
  BY <1>8, <1>9

LEMMA SendPanicsStep ==
  ASSUME TypeOK, HistoryOK, \A j \in Sessions : SInv(j), Watched, SendPanics, Remembered
  PROVE  TypeOK' /\ (\A j \in Sessions : SInv(j)') /\ Watched'
<1>1. /\ side[Monitor] = "send" /\ ~receiver /\ level' = level /\ silent' = silent /\ call' = call
      /\ link' = [link EXCEPT ![Monitor] = Closed] /\ receiver' = receiver
      /\ channel' = channel /\ batch' = <<>>
      /\ side' = [side EXCEPT ![Monitor] = "sleep"]
  BY DEF SendPanics, Caught
<1>2. /\ Monitor \in Sessions /\ Monitor \notin Conns /\ link \in [Sessions -> Links]
      /\ side \in [Sessions -> DriverPcs] /\ call \in [Conns -> Calls]
      /\ channel \in Seq(Line) /\ Len(channel) <= Capacity
  BY LutronAssumption DEF TypeOK, Links, Calls, Sessions
<1>3. Closed \in Links /\ Closed.up = <<>>
  BY DEF Closed, Links, SrvPcs
<1>4. /\ link' = [link EXCEPT ![Monitor] = link'[Monitor]] /\ link'[Monitor] = Closed
      /\ side' = [side EXCEPT ![Monitor] = side'[Monitor]] /\ side'[Monitor] = "sleep"
  BY <1>1, <1>2
<1>5. SInv(Monitor)'
  <2>1. Written(Monitor)'
    BY <1>3, <1>4 DEF Written
  <2>2. Session(Monitor)'
    BY <1>4, <2>1 DEF Session, Sides
  <2> QED
    BY <1>2, <2>2 DEF SInv
<1>6. TypeOK' /\ \A j \in Sessions : SInv(j)'
  <2>1. /\ side'[Monitor] \in Sides(Monitor) /\ ~(side'[Monitor] \in {"ok", "err"})
        /\ batch' = <<>> <=> side'[Monitor] # "send"
        /\ batch' \in Seq(Line)
    BY <1>1, <1>4 DEF Sides
  <2>2. /\ silent' \subseteq silent \cup {Monitor} /\ silent \subseteq silent' \cup {Monitor}
        /\ call' \in [Conns -> Calls] /\ \A c \in Conns \ {Monitor} : call'[c] = call[c]
        /\ link'[Monitor] \in Links /\ channel' \in Seq(Line) /\ Len(channel') <= Capacity
    BY <1>1, <1>2, <1>3, <1>4
  <2> QED
    BY <1>1, <1>2, <1>4, <1>5, <2>1, <2>2, DriverStep
<1>7. Watched'
  <2>1. told' = told /\ changed' \subseteq changed
    BY <1>1, ToldSame DEF Remembered
  <2>2. AllLevels(batch)' /\ AllLevels(channel)'
    BY <1>1 DEF Watched, AllLevels
  <2> QED
    BY <1>1, <2>1, <2>2 DEF Watched
<1> QED
  BY <1>6, <1>7

\* Nothing but the channel changes.
LEMMA ChannelOnly ==
  ASSUME TypeOK, HistoryOK, \A j \in Sessions : SInv(j), Remembered,
         level' = level, link' = link, side' = side, silent' = silent, call' = call, batch' = batch,
         channel' \in Seq(Line), Len(channel') <= Capacity
  PROVE  TypeOK' /\ \A j \in Sessions : SInv(j)'
<1>1. ASSUME NEW j \in Sessions PROVE SInv(j)'
  <2>1. Bystands(j)
    BY DEF Bystands, Stays
  <2> QED
    BY <2>1, Bystander
<1>2. TypeOK'
  BY DEF TypeOK, Ended
<1> QED
  BY <1>1, <1>2

LEMMA ReceiveEventStep ==
  ASSUME TypeOK, HistoryOK, \A j \in Sessions : SInv(j), Watched, ReceiveEvent, Remembered
  PROVE  TypeOK' /\ (\A j \in Sessions : SInv(j)') /\ Watched'
<1>1. /\ receiver /\ receiver' = receiver /\ channel # <<>> /\ channel' = Tail(channel)
      /\ level' = level /\ link' = link /\ side' = side /\ silent' = silent /\ call' = call
      /\ batch' = batch
  BY DEF ReceiveEvent
<1>2. channel \in Seq(Line) /\ Len(channel) <= Capacity /\ Capacity \in Nat
  BY LutronAssumption DEF TypeOK
<1>3. /\ channel' \in Seq(Line) /\ AllLevels(channel') /\ Head(channel) \in Line
  BY <1>1, <1>2, AllLevelsKept DEF Watched
<1>4. Len(channel') <= Capacity
  <2>1. Len(Tail(channel)) = Len(channel) - 1 /\ Len(channel) \in Nat
    BY <1>1, <1>2, TailAt
  <2> QED
    BY <1>1, <1>2, <2>1
<1>5. TypeOK' /\ \A j \in Sessions : SInv(j)'
  BY <1>1, <1>3, <1>4, ChannelOnly
<1>6. Watched'
  <2>1. /\ told' = [told EXCEPT ![Head(channel).light] = Head(channel).val]
        /\ changed' \subseteq changed
        /\ side[Monitor] \notin {"listen", "send"} => changed' = {}
    BY <1>1 DEF Remembered
  <2>2. told \in [Lights -> Nat \cup {None}] /\ Head(channel).val \in Nat \cup {None}
    BY <1>3 DEF Watched, Line
  <2>3. told' \in [Lights -> Nat \cup {None}]
    BY <2>1, <2>2
  <2>4. AllLevels(batch)' /\ AllLevels(channel)'
    BY <1>1, <1>3 DEF Watched, AllLevels
  <2>5. ASSUME NEW l \in changed' PROVE Known(l)'
    <3>1. l \in Lights /\ Tells(link[Monitor].down, batch, channel, told[l], l, level[l])
      BY <1>1, <2>1, <2>5 DEF Watched, Known
    <3>2. told'[l] = IF Head(channel).light = l THEN Head(channel).val ELSE told[l]
      BY <2>1, <2>2, <3>1
    <3>3. PICK d, t, u, v : d = link[Monitor].down /\ t = told[l] /\ u = told'[l] /\ v = level[l]
      OBVIOUS
    <3>4. AllLevels(channel)
      BY DEF Watched
    <3>5. Tells(d, batch, channel', u, l, v)
      BY <1>1, <1>2, <3>1, <3>2, <3>3, <3>4, TellsReceive
    <3> QED
      BY <1>1, <3>3, <3>5 DEF Known
  <2> QED
    BY <1>1, <2>1, <2>3, <2>4, <2>5 DEF Watched
<1> QED
  BY <1>5, <1>6

LEMMA DropReceiverStep ==
  ASSUME TypeOK, HistoryOK, \A j \in Sessions : SInv(j), Watched, DropReceiver, Remembered
  PROVE  TypeOK' /\ (\A j \in Sessions : SInv(j)') /\ Watched'
<1>1. /\ receiver' = FALSE /\ channel' = <<>>
      /\ level' = level /\ link' = link /\ side' = side /\ silent' = silent /\ call' = call
      /\ batch' = batch
  BY DEF DropReceiver
<1>2. channel' \in Seq(Line) /\ Len(channel') <= Capacity
  BY <1>1, LutronAssumption
<1>3. TypeOK' /\ \A j \in Sessions : SInv(j)'
  BY <1>1, <1>2, ChannelOnly
<1>4. Watched'
  <2>1. told' = told /\ changed' \subseteq changed
    BY <1>1, ToldSame DEF Remembered
  <2>2. AllLevels(batch)' /\ AllLevels(channel)'
    BY <1>1 DEF Watched, AllLevels
  <2> QED
    BY <1>1, <2>1, <2>2 DEF Watched
<1> QED
  BY <1>3, <1>4

\* A call leaves the monitor and its session alone.
LEMMA CallApart ==
  ASSUME TypeOK, NEW c \in Conns, Connect(c) \/ CallRuns(c)
  PROVE  /\ level' = level /\ batch' = batch /\ channel' = channel /\ receiver' = receiver
         /\ link'[Monitor] = link[Monitor] /\ side'[Monitor] = side[Monitor]
<1>1. /\ c # Monitor /\ c \in Sessions /\ Monitor \in Sessions /\ DOMAIN link = Sessions
      /\ DOMAIN side = Sessions
  BY LutronAssumption DEF TypeOK, Sessions
<1>2. level' = level /\ batch' = batch /\ channel' = channel /\ receiver' = receiver
  BY DEF Connect, CallRuns, ReadLogin, LoginSilence, Lost, ReadReply, ReplySilence
<1>3. CASE Connect(c)
  BY <1>1, <1>2, <1>3 DEF Connect, End
<1>4. CASE ReadLogin(c)
  <2>1. PICK n \in 1..Len(link[c].down) :
          LET chunk == SubSeq(link[c].down, 1, n)
              k == Read(link[c], n) IN
          \/ Proceed(c, k) \/ End(c, k, "err")
          \/ link' = [link EXCEPT ![c] = k] /\ side' = side
          \/ /\ side' = side
             /\ link' = [link EXCEPT ![c] =
                           Write(k, Prompt(IF Has(chunk, "login:") THEN "uid" ELSE "upw"))]
    BY <1>4 DEF ReadLogin
  <2>2. CASE Proceed(c, Read(link[c], n))
    BY <1>1, <1>2, <2>2 DEF Proceed
  <2>3. CASE End(c, Read(link[c], n), "err")
    BY <1>1, <1>2, <2>3 DEF End
  <2> QED
    BY <1>1, <1>2, <2>1, <2>2, <2>3
<1>5. CASE LoginSilence(c)
  BY <1>1, <1>2, <1>5 DEF LoginSilence, Proceed
<1>6. CASE Lost(c)
  BY <1>1, <1>2, <1>6 DEF Lost, End
<1>7. CASE ReadReply(c)
  <2>1. PICK n \in 1..Len(link[c].down) :
          LET k == Read(link[c], n) IN
          \/ End(c, k, IF Result(c) = None THEN "err" ELSE "ok") \/ End(c, k, "err")
          \/ link' = [link EXCEPT ![c] = k] /\ side' = side
    BY <1>7 DEF ReadReply
  <2>2. CASE End(c, Read(link[c], n), IF Result(c) = None THEN "err" ELSE "ok")
    BY <1>1, <1>2, <2>2 DEF End
  <2>3. CASE End(c, Read(link[c], n), "err")
    BY <1>1, <1>2, <2>3 DEF End
  <2> QED
    BY <1>1, <1>2, <2>1, <2>2, <2>3
<1>8. CASE ReplySilence(c)
  BY <1>1, <1>2, <1>8 DEF ReplySilence, End
<1> QED
  BY <1>2, <1>3, <1>4, <1>5, <1>6, <1>7, <1>8 DEF CallRuns

LEMMA CallStep ==
  ASSUME TypeOK, HistoryOK, \A j \in Sessions : SInv(j), Watched, Remembered,
         NEW c \in Conns, Connect(c) \/ CallRuns(c)
  PROVE  TypeOK' /\ (\A j \in Sessions : SInv(j)') /\ Watched'
<1>1. c \in Sessions
  BY DEF Sessions
<1>2. Watched'
  BY CallApart, WatchQuiet
<1>3. TypeOK' /\ \A j \in Sessions : SInv(j)'
  BY <1>1, ConnectStep, ReadLoginStep, LoginSilenceStep, LostStep, ReadReplyStep, ReplySilenceStep
     DEF CallRuns
<1> QED
  BY <1>2, <1>3

\* The monitor wakes, connects and logs in, and its session ends.
LEMMA MonitorLogin ==
  ASSUME TypeOK, HistoryOK, \A j \in Sessions : SInv(j), Watched, Remembered,
         \/ Wake \/ Connect(Monitor) \/ ReadLogin(Monitor) \/ LoginSilence(Monitor)
         \/ Lost(Monitor)
  PROVE  TypeOK' /\ (\A j \in Sessions : SInv(j)') /\ Watched'
<1>1. Monitor \in Sessions
  BY DEF Sessions
<1>2. Watched'
  <2>1. batch' = batch /\ channel' = channel
    BY DEF Wake, Connect, ReadLogin, LoginSilence, Lost
  <2>2. side[Monitor] \notin {"listen", "send"} \/ link[Monitor].srv \notin {"greeting", "ready"}
    BY DEF Wake, Connect, ReadLogin, LoginSilence, Lost
  <2> QED
    BY <2>1, <2>2, WatchDeaf
<1>3. TypeOK' /\ \A j \in Sessions : SInv(j)'
  BY <1>1, WakeStep, ConnectStep, ReadLoginStep, LoginSilenceStep, LostStep
<1> QED
  BY <1>2, <1>3

LEMMA RepeaterWatched ==
  ASSUME TypeOK, HistoryOK, \A j \in Sessions : SInv(j), Watched, Remembered,
         NEW s \in Sessions, Repeater(s)
  PROVE  Watched'
<1>1. /\ side' = side /\ silent' = silent /\ call' = call /\ batch' = batch /\ channel' = channel
      /\ receiver' = receiver
  BY DEF Repeater
<1>2. Quiescent
  BY <1>1 DEF Quiescent
<1>3. Session(Monitor) /\ Monitor \in Sessions
  BY DEF Sessions, SInv
<1>4. CASE side[Monitor] \notin {"listen", "send"} \/ link[Monitor].srv \notin {"greeting", "ready"}
  BY <1>1, <1>4, WatchDeaf
<1>5. CASE side[Monitor] \in {"listen", "send"} /\ link[Monitor].srv \in {"greeting", "ready"}
  <2>1. ~Ended(Monitor)
    BY <1>5 DEF Ended
  <2>2. CASE s = Monitor
    <3>1. Greet(s) \/ Execute(s)
      BY <1>5, <2>2 DEF Repeater, AskPassword, CheckPassword
    <3>2. CASE Greet(s)
      <4>1. level' = level /\ link'[s].down = link[s].down \o Ready
        BY <1>2, <2>1, <2>2, <3>2, GreetKeeps
      <4>2. Ready \in Seq(Line)
        BY ReadyLines
      <4>3. \A l : Quiet(Ready, l)
        BY ReadyLines DEF Quiet, About
      <4> QED
        BY <1>1, <2>2, <4>1, <4>2, <4>3, WatchQuiet
    <3>3. CASE Execute(s)
      <4> DEFINE x == <<Prompt("~ERROR")>> \o Ready
      <4>1. level' = level /\ link'[s].down = link[s].down \o x
        BY <1>2, <2>1, <2>2, <3>3, ExecuteKeeps
      <4>2. Prompt("~ERROR") \in Line /\ Current(Prompt("~ERROR")) /\ Prompt("~ERROR").kind # "level"
        BY LinesAre DEF Kinds, Current, Prompt
      <4>3. x \in Seq(Line) /\ \A i \in DOMAIN x : x[i].kind # "level"
        BY <4>2, BeforeReady
      <4> HIDE DEF x
      <4>4. \A l : Quiet(x, l)
        BY <4>3 DEF Quiet, About
      <4> QED
        BY <1>1, <2>2, <4>1, <4>3, <4>4, WatchQuiet
    <3> QED
      BY <3>1, <3>2, <3>3
  <2>3. CASE s # Monitor
    <3>1. \/ level' = level /\ link'[Monitor] = link[Monitor]
          \/ \E l \in Lights, v \in Levels : \E r \in Reports(l, v) :
               level' = [level EXCEPT ![l] = v] /\ link'[Monitor] = Told(r)[Monitor]
      <4>1. Monitor \in Sessions \ {s}
        BY <1>3, <2>3
      <4>2. CASE AskPassword(s)
        BY <1>2, <4>1, <4>2, AskPasswordKeeps
      <4>3. CASE CheckPassword(s)
        BY <1>2, <4>1, <4>3, CheckPasswordKeeps
      <4>4. CASE Greet(s)
        BY <1>2, <4>1, <4>4, GreetKeeps
      <4>5. CASE Execute(s)
        <5>1. CASE level' = level /\ \A j \in Sessions \ {s} : link'[j] = link[j]
          BY <4>1, <5>1
        <5>2. ASSUME NEW l \in Lights, NEW v \in Levels, NEW r \in Reports(l, v),
                     level' = [level EXCEPT ![l] = v],
                     \A j \in Sessions \ {s} : link'[j] = Told(r)[j]
              PROVE  \E l1 \in Lights, v1 \in Levels : \E r1 \in Reports(l1, v1) :
                       level' = [level EXCEPT ![l1] = v1] /\ link'[Monitor] = Told(r1)[Monitor]
          BY <4>1, <5>2
        <5> QED
          BY <1>2, <4>5, <5>1, <5>2, ExecuteKeeps
      <4> QED
        BY <4>2, <4>3, <4>4, <4>5 DEF Repeater
    <3>2. CASE level' = level /\ link'[Monitor] = link[Monitor]
      BY <1>1, <3>2, WatchQuiet
    <3>3. ASSUME NEW l \in Lights, NEW v \in Levels, NEW r \in Reports(l, v),
                 level' = [level EXCEPT ![l] = v], link'[Monitor] = Told(r)[Monitor]
          PROVE  Watched'
      BY <1>1, <1>3, <3>3, WatchTold
    <3> QED
      BY <3>1, <3>2, <3>3
  <2> QED
    BY <2>2, <2>3
<1> QED
  BY <1>4, <1>5

LEMMA WorldWatched ==
  ASSUME TypeOK, HistoryOK, \A j \in Sessions : SInv(j), Watched, Remembered,
         (\E l \in Lights : ByHand(l)) \/ (\E s \in Sessions : Break(s))
  PROVE  Watched'
<1>1. Session(Monitor) /\ Monitor \in Sessions
  BY DEF Sessions, SInv
<1>2. ASSUME NEW l \in Lights, ByHand(l) PROVE Watched'
  <2>1. side' = side /\ batch' = batch /\ channel' = channel /\ receiver' = receiver
    BY <1>2 DEF ByHand
  <2>2. PICK v \in Levels : level' = [level EXCEPT ![l] = v] /\ \E r \in Reports(l, v) : link' = Told(r)
    BY <1>2 DEF ByHand
  <2>3. PICK r \in Reports(l, v) : link' = Told(r)
    BY <2>2
  <2>4. link'[Monitor] = Told(r)[Monitor] /\ side'[Monitor] = side[Monitor]
    BY <2>1, <2>3
  <2> QED
    BY <1>1, <2>1, <2>2, <2>4, WatchTold
<1>3. ASSUME NEW s \in Sessions, Break(s) PROVE Watched'
  <2>1. /\ side' = side /\ batch' = batch /\ channel' = channel /\ receiver' = receiver
        /\ level' = level /\ link' = [link EXCEPT ![s].srv = "closed", ![s].up = <<>>]
    BY <1>3 DEF Break
  <2>2. link'[Monitor].down = link[Monitor].down
    <3>1. link \in [Sessions -> Links]
      BY DEF TypeOK, Links
    <3>2. link[s] = [srv |-> link[s].srv, up |-> link[s].up, down |-> link[s].down]
      BY <3>1 DEF Links
    <3>3. link'[s] = [srv |-> "closed", up |-> <<>>, down |-> link[s].down]
      BY <2>1, <3>1, <3>2
    <3>4. Monitor # s => link'[Monitor] = link[Monitor]
      BY <1>1, <2>1, <3>1
    <3> QED
      BY <3>3, <3>4
  <2> QED
    BY <2>1, <2>2, WatchQuiet
<1> QED
  BY <1>2, <1>3

\* What was seen is a level.
LEMMA SeenAreLevels ==
  ASSUME HistoryOK, Remembered, TypeOK', \A j \in Sessions : SInv(j)'
  PROVE  HistoryOK'
<1>1. ASSUME NEW c \in Conns, side'[c] \in {"login", "reply"}
      PROVE  \A l \in Alike[call'[c].req.light] : level'[l] \in Levels
  <2>1. c \in Sessions /\ c # Monitor
    BY LutronAssumption DEF Sessions
  <2>2. call'[c].req \in Asked
    BY <1>1, <2>1 DEF SInv, Session
  <2>3. call'[c].req.light \in Lights
    BY <2>2, LutronAssumption
  <2>4. Alike[call'[c].req.light] \subseteq Lights
    BY <2>3, LutronAssumption
  <2> QED
    BY <2>4 DEF TypeOK
<1>2. ASSUME NEW c \in Conns PROVE seen'[c] \in SUBSET Levels
  <2>1. seen'[c] = IF side'[c] \notin {"login", "reply"} THEN seen[c]
                   ELSE seen[c] \cup {level'[l] : l \in Alike[call'[c].req.light]}
    BY DEF Remembered
  <2>2. seen[c] \in SUBSET Levels
    BY DEF HistoryOK
  <2> QED
    BY <1>1, <2>1, <2>2
<1>3. seen' = [c \in Conns |-> seen'[c]]
  BY DEF Remembered
<1> QED
  BY <1>2, <1>3 DEF HistoryOK

-----------------------------------------------------------------------------
(* The invariant.                                                          *)

LEMMA InvInit ==
  ASSUME HInit
  PROVE  LInv
<1>1. /\ level = [l \in Lights |-> 0] /\ link = [s \in Sessions |-> Closed]
      /\ side = [s \in Sessions |-> IF s = Monitor /\ Monitored THEN "sleep" ELSE "idle"]
      /\ silent = {} /\ call = [c \in Conns |-> [req |-> None, lines |-> 0, got |-> None]]
      /\ batch = <<>> /\ channel = <<>> /\ receiver = TRUE
      /\ seen = [c \in Conns |-> {}] /\ taken = {} /\ misread = {}
      /\ told = [l \in Lights |-> None] /\ changed = {}
  BY DEF HInit, Init
<1>2. Closed \in Links /\ Closed.up = <<>> /\ Closed.down = <<>>
  BY DEF Closed, Links, SrvPcs
<1>3. Monitor \in Sessions /\ Monitor \notin Conns /\ Capacity \in Nat \ {0} /\ 0 \in Levels
  BY LutronAssumption DEF Sessions
<1>4. TypeOK
  <2>1. level \in [Lights -> Levels] /\ link \in [Sessions -> Links]
    BY <1>1, <1>2, <1>3
  <2>2. side \in [Sessions -> DriverPcs] /\ silent \subseteq Sessions
    BY <1>1 DEF DriverPcs
  <2>3. call \in [Conns -> Calls]
    <3>1. [req |-> None, lines |-> 0, got |-> None] \in Calls
      BY DEF Calls
    <3> QED
      BY <1>1, <3>1
  <2>4. batch \in Seq(Line) /\ (batch = <<>> <=> side[Monitor] # "send")
    BY <1>1, <1>3
  <2>5. channel \in Seq(Line) /\ Len(channel) <= Capacity
    BY <1>1, <1>3
  <2>6. \A s \in Sessions : link[s].down = <<>>
    BY <1>1, <1>2
  <2> QED
    BY <2>1, <2>2, <2>3, <2>4, <2>5, <2>6 DEF TypeOK, Links, Calls
<1>5. HistoryOK
  BY <1>1 DEF HistoryOK
<1>6. ASSUME NEW s \in Sessions PROVE SInv(s)
  <2>1. link[s] = Closed /\ side[s] = IF s = Monitor /\ Monitored THEN "sleep" ELSE "idle"
    BY <1>1
  <2>2. Written(s)
    BY <1>2, <2>1 DEF Written
  <2>3. Session(s)
    BY <2>1, <2>2 DEF Session, Sides
  <2>4. ASSUME s \in Conns PROVE Heard(s) /\ Witness(s)
    <3>1. side[s] = "idle" /\ s \notin misread /\ call[s].lines = 0
      BY <1>1, <1>3, <2>1, <2>4
    <3> QED
      BY <2>1, <3>1 DEF Heard, Witness
  <2> QED
    BY <2>3, <2>4 DEF SInv
<1>7. Watched
  BY <1>1 DEF Watched, AllLevels
<1> QED
  BY <1>4, <1>5, <1>6, <1>7 DEF LInv

LEMMA InvNext ==
  ASSUME LInv, [HNext]_<<lvars, history>>
  PROVE  LInv'
<1> USE DEF LInv
<1>1. CASE HNext
  <2>1. Remembered /\ Next
    BY <1>1 DEF HNext
  <2>2. TypeOK' /\ (\A j \in Sessions : SInv(j)') /\ Watched'
    <3>1. ASSUME NEW c \in Conns, Connect(c) \/ CallRuns(c)
          PROVE  TypeOK' /\ (\A j \in Sessions : SInv(j)') /\ Watched'
      BY <2>1, <3>1, CallStep
    <3>2. CASE MonitorRuns
      BY <2>1, <3>2, MonitorLogin, ReadEventsStep, SendEventStep, SendPanicsStep DEF MonitorRuns
    <3>3. CASE ReceiveEvent
      BY <2>1, <3>3, ReceiveEventStep
    <3>4. CASE DropReceiver
      BY <2>1, <3>4, DropReceiverStep
    <3>5. ASSUME NEW s \in Sessions, Repeater(s)
          PROVE  TypeOK' /\ (\A j \in Sessions : SInv(j)') /\ Watched'
      BY <2>1, <3>5, RepeaterStep, RepeaterWatched
    <3>6. ASSUME NEW s \in Sessions, Break(s)
          PROVE  TypeOK' /\ (\A j \in Sessions : SInv(j)') /\ Watched'
      BY <2>1, <3>6, BreakStep, WorldWatched
    <3>7. ASSUME NEW l \in Lights, ByHand(l)
          PROVE  TypeOK' /\ (\A j \in Sessions : SInv(j)') /\ Watched'
      BY <2>1, <3>7, ByHandStep, WorldWatched
    <3> QED
      BY <2>1, <3>1, <3>2, <3>3, <3>4, <3>5, <3>6, <3>7 DEF Next
  <2>3. HistoryOK'
    BY <2>1, <2>2, SeenAreLevels
  <2> QED
    BY <2>2, <2>3
<1>2. CASE UNCHANGED <<lvars, history>>
  <2>1. /\ level' = level /\ link' = link /\ side' = side /\ silent' = silent /\ call' = call
        /\ batch' = batch /\ channel' = channel /\ receiver' = receiver /\ seen' = seen
        /\ strange' = strange
        /\ taken' = taken /\ misread' = misread /\ told' = told /\ changed' = changed
    BY <1>2 DEF lvars, history
  <2>2. TypeOK'
    BY <2>1 DEF TypeOK, Ended
  <2>3. HistoryOK'
    BY <2>1 DEF HistoryOK
  <2>4. ASSUME NEW j \in Sessions PROVE SInv(j)'
    <3>1. SInv(j)
      OBVIOUS
    <3>2. Session(j)' <=> Session(j)
      BY <2>1 DEF Session, Written, LoginStands
    <3>3. Heard(j)' <=> Heard(j)
      BY <2>1 DEF Heard, Replied, Stuck
    <3>4. Witness(j)' <=> Witness(j)
      BY <2>1 DEF Witness, Witnessed, Heeded
    <3> QED
      BY <3>1, <3>2, <3>3, <3>4 DEF SInv
  <2>5. Watched'
    BY <2>1 DEF Watched, AllLevels, Known
  <2> QED
    BY <2>2, <2>3, <2>4, <2>5
<1> QED
  BY <1>1, <1>2

\* The invariant holds whatever the repeater, the calls, the people at the
\* wall and the receiver of the events do, and in any order.
THEOREM Inductive == HSpec => []LInv
<1>1. HInit => LInv
  BY InvInit
<1>2. LInv /\ [HNext]_<<lvars, history>> => LInv'
  BY InvNext
<1> QED
  BY <1>1, <1>2, PTL DEF HSpec

\* The threads of the driver, the repeater's sessions and the channel keep
\* their types; the channel never holds more than its capacity.
THEOREM Types == HSpec => []TypeOK
<1>1. LInv => TypeOK
  BY DEF LInv
<1> QED
  BY <1>1, Inductive, PTL

\* output_set says Ok only if the repeater took its command as a command, or
\* the login had timed out before: never when it was taken for a password.
THEOREM OkIsHeard == HSpec => []OkMeansHeard
<1>1. LInv => OkMeansHeard
  BY DEF LInv, SInv, Heard, OkMeansHeard, Sessions
<1> QED
  BY <1>1, Inductive, PTL

\* output_get returns a level that an output it may read had during the call,
\* or what a line of another action told the session about such an output:
\* never what was reported of another output or before the call.
THEOREM LevelIsCurrent == HSpec => []GetIsCurrent
<1>1. LInv => GetIsCurrent
  BY DEF LInv, SInv, Witness, Heeded, GetIsCurrent, Sessions
<1> QED
  BY <1>1, Inductive, PTL

\* Whoever receives the events of a monitor that has caught up knows the level
\* of every output that has changed since the monitor began to listen.
THEOREM WatcherIsRight == HSpec => []WatcherKnows
<1>1. LInv => WatcherKnows
  <2> SUFFICES ASSUME LInv, side[Monitor] = "listen", link[Monitor].down = <<>>, channel = <<>>,
                      receiver, NEW l \in changed
               PROVE  told[l] = level[l]
    BY DEF WatcherKnows
  <2>1. Tells(link[Monitor].down, batch, channel, told[l], l, level[l]) /\ batch = <<>>
    BY DEF LInv, Watched, Known, TypeOK
  <2>2. ~LastSays(<<>>, l, level[l])
    BY DEF LastSays
  <2> QED
    BY <2>1, <2>2 DEF Tells
<1> QED
  BY <1>1, Inductive, PTL

=============================================================================

--------------------------- MODULE RegistryProofs ---------------------------
(***************************************************************************)
(* Proofs about Registry, for any devices, scripts, clones and restarts.   *)
(*                                                                         *)
(* The heart is that a server without clones numbers its devices in one    *)
(* way: which names of the script are accepted, and the port and the light *)
(* id of each, do not depend on the run of the process.                    *)
(***************************************************************************)
EXTENDS Registry, FiniteSetTheorems, TLAPS

\* What the first owner registers, and the positions of the names that are
\* accepted: those that no earlier name equals up to case.
Wishes == Script[First]
Fresh  == {j \in 1..Len(Wishes) : \A k \in 1..(j - 1) : Lower[Wishes[k]] # Lower[Wishes[j]]}
Shown  == {j \in Fresh : Wishes[j] \in Dimmable}

Upto(A, n) == {j \in A : j <= n}
Count(A, n) == Cardinality(Upto(A, n))

\* The port that the name at position j is given.
PortAt(j) == StartPort + Count(Fresh, j - 1)

\* The port counter never wraps around.
NeverWraps == OverflowChecks \/ StartPort + Len(Wishes) <= LastPort + 1

\* Whoever adds a device holds the list and has a name to add; the name that
\* was looked up is still free when its device is pushed.
Adding ==
  \A h \in Handles : adding[h].pc # "idle" =>
    /\ writer = h /\ nextPort[h] # None /\ adding[h].at < Len(Script[h])
    /\ adding[h].pc = "push" => ~Exists(NameOf(h))

\* Every light id is one of a device.
Ranked ==
  \A i \in 1..Cardinality(DimmablePositions) : \E p \in DimmablePositions : Rank(p) = i

ListInv == TypeOK /\ Adding /\ NamesAreUnique /\ Ranked

Done == adding[First].at

\* The first owner is alone.
Alone == \A h \in Handles \ {First} : nextPort[h] = None

\* It goes through the script, and has accepted the fresh names so far.
Progress ==
  Done < Len(Wishes) =>
    /\ \A j \in 1..Done : Exists(Wishes[j])
    /\ Cardinality(DimmablePositions) = Count(Shown, Done)
    /\ NeverWraps => nextPort[First] = StartPort + Count(Fresh, Done)

\* Each listed device is a fresh one, with its port and its light id.
Placed ==
  \A p \in 1..Len(devices) : \E j \in Fresh :
    /\ j <= Done
    /\ devices[p].name = Wishes[j]
    /\ NeverWraps => devices[p].port = PortAt(j)
    /\ p \in DimmablePositions => Rank(p) = Count(Shown, j)

Numbered == Alone /\ Progress /\ Placed

\* What lives on, here or at the controller, agrees with the numbering.
Served ==
  \A s \in servers : \E j \in Fresh :
    s.name = Wishes[j] /\ (NeverWraps => s.port = PortAt(j))
Located ==
  \A u \in Uuids : located[u] # None =>
    \E j \in Fresh : Uuid[Wishes[j]] = u /\ (NeverWraps => located[u] = PortAt(j))
Lit ==
  \A i \in 1..Len(lights) : \E j \in Shown : lights[i] = Wishes[j] /\ Count(Shown, j) = i

Remembered == Served /\ Located /\ Lit

OrderInv == ~cloned => Numbered /\ Remembered

\* The inductive invariant.
RInv == ListInv /\ OrderInv

-----------------------------------------------------------------------------
(* Counting.                                                               *)

Positions(A) == \A x \in A : x \in Nat /\ x >= 1

LEMMA CountStep ==
  ASSUME NEW A, Positions(A), NEW n \in Nat
  PROVE  /\ IsFiniteSet(Upto(A, n)) /\ Count(A, n) \in 0..n
         /\ Count(A, n + 1) = IF n + 1 \in A THEN Count(A, n) + 1 ELSE Count(A, n)
<1>1. Upto(A, n) \subseteq 1..n
  BY DEF Upto, Positions
<1>2. IsFiniteSet(1..n) /\ Cardinality(1..n) = n
  BY FS_Interval
<1>3. IsFiniteSet(Upto(A, n)) /\ Cardinality(Upto(A, n)) <= n
  BY <1>1, <1>2, FS_Subset
<1>4. Cardinality(Upto(A, n)) \in Nat
  BY <1>3, FS_CardinalityType
<1>5. CASE n + 1 \in A
  <2>1. Upto(A, n + 1) = Upto(A, n) \cup {n + 1} /\ n + 1 \notin Upto(A, n)
    BY <1>5 DEF Upto, Positions
  <2>2. Cardinality(Upto(A, n + 1)) = Cardinality(Upto(A, n)) + 1
    BY <2>1, <1>3, FS_AddElement
  <2> QED
    BY <2>2, <1>3, <1>4, <1>5 DEF Count
<1>6. CASE n + 1 \notin A
  <2>1. Upto(A, n + 1) = Upto(A, n)
    BY <1>6 DEF Upto, Positions
  <2> QED
    BY <2>1, <1>3, <1>4, <1>6 DEF Count
<1> QED
  BY <1>5, <1>6

\* Later members of a set have higher counts.
LEMMA CountGrows ==
  ASSUME NEW A, Positions(A), NEW j \in Nat, NEW k \in A, j < k
  PROVE  Count(A, j) < Count(A, k)
<1>1. k \in Nat
  BY DEF Positions
<1>2. IsFiniteSet(Upto(A, k)) /\ Count(A, k) \in Nat /\ Count(A, j) \in Nat
  BY <1>1, CountStep
<1>3. Upto(A, j) \subseteq Upto(A, k) /\ k \in Upto(A, k) /\ k \notin Upto(A, j)
  BY DEF Upto, Positions
<1>4. Cardinality(Upto(A, j)) <= Cardinality(Upto(A, k))
      /\ Cardinality(Upto(A, j)) # Cardinality(Upto(A, k))
  BY <1>2, <1>3, FS_Subset
<1> QED
  BY <1>2, <1>4 DEF Count

LEMMA CountKeeps ==
  ASSUME NEW A, Positions(A), NEW j \in Nat, NEW k \in Nat, j <= k
  PROVE  Count(A, j) <= Count(A, k)
<1>1. Upto(A, j) \subseteq Upto(A, k)
  BY DEF Upto, Positions
<1> QED
  BY <1>1, CountStep, FS_Subset DEF Count

LEMMA FreshTypes ==
  /\ Wishes \in Seq(Names) /\ Len(Wishes) \in Nat
  /\ Positions(Fresh) /\ Positions(Shown)
  /\ \A j \in Fresh : j \in 1..Len(Wishes) /\ Wishes[j] \in Names
BY RegistryAssumption DEF Wishes, Fresh, Shown, Positions

\* Two fresh names have two ports, and two lights two ids.
LEMMA OneNumberEach ==
  /\ \A j, k \in Fresh : PortAt(j) = PortAt(k) => j = k
  /\ \A j, k \in Shown : Count(Shown, j) = Count(Shown, k) => j = k
<1>1. ASSUME NEW j \in Fresh, NEW k \in Fresh, j < k PROVE PortAt(j) < PortAt(k)
  <2>1. j \in Nat /\ k \in Nat /\ j >= 1 /\ j - 1 \in Nat /\ k - 1 \in Nat /\ j <= k - 1
    BY <1>1, FreshTypes DEF Positions
  <2>2. Count(Fresh, j - 1) < Count(Fresh, j)
    BY <2>1, FreshTypes, CountGrows
  <2>3. Count(Fresh, j) <= Count(Fresh, k - 1)
    BY <2>1, <1>1, FreshTypes, CountKeeps
  <2>4. \A n \in Nat : Count(Fresh, n) \in Nat
    <3> TAKE n \in Nat
    <3>1. Count(Fresh, n) \in 0..n
      BY FreshTypes, CountStep
    <3> QED
      BY <3>1
  <2>5. StartPort \in Nat
    BY RegistryAssumption DEF Ports
  <2> QED
    BY <2>1, <2>2, <2>3, <2>4, <2>5 DEF PortAt
<1>2. \A j \in Fresh : PortAt(j) \in Nat
  <2> TAKE j \in Fresh
  <2>1. j - 1 \in Nat
    BY FreshTypes
  <2>2. Count(Fresh, j - 1) \in Nat
    BY <2>1, FreshTypes, CountStep
  <2> QED
    BY <2>2, RegistryAssumption DEF PortAt, Ports
<1>3. \A j, k \in Fresh : PortAt(j) = PortAt(k) => j = k
  <2> SUFFICES ASSUME NEW j \in Fresh, NEW k \in Fresh, PortAt(j) = PortAt(k), j # k
               PROVE  FALSE
    OBVIOUS
  <2>1. j < k \/ k < j
    BY FreshTypes
  <2> QED
    BY <1>1, <1>2, <2>1
<1>4. \A j, k \in Shown : Count(Shown, j) = Count(Shown, k) => j = k
  <2> SUFFICES ASSUME NEW j \in Shown, NEW k \in Shown,
                      Count(Shown, j) = Count(Shown, k), j # k
               PROVE  FALSE
    OBVIOUS
  <2>1. (j < k \/ k < j) /\ j \in Nat /\ k \in Nat
    BY FreshTypes DEF Positions
  <2>2. Count(Shown, j) \in Nat /\ Count(Shown, k) \in Nat
    BY <2>1, FreshTypes, CountStep
  <2>3. (j < k => Count(Shown, j) < Count(Shown, k)) /\ (k < j => Count(Shown, k) < Count(Shown, j))
    BY <2>1, FreshTypes, CountGrows
  <2> QED
    BY <2>1, <2>2, <2>3
<1> QED
  BY <1>3, <1>4

-----------------------------------------------------------------------------
(* The list.                                                               *)

\* A set of positions grows by the next one, or does not.
LEMMA GrownSet ==
  ASSUME NEW n \in Nat, NEW A, \A x \in A : x \in 1..n, NEW B, \A x \in B : x \in 1..(n + 1),
         \A p \in 1..n : p \in B <=> p \in A
  PROVE  /\ Cardinality(A) \in Nat
         /\ \A p \in 1..n : {q \in B : q <= p} = {q \in A : q <= p}
         /\ {q \in B : q <= n + 1} = B
         /\ Cardinality(B) = IF n + 1 \in B THEN Cardinality(A) + 1 ELSE Cardinality(A)
<1>1. IsFiniteSet(1..n)
  BY FS_Interval
<1>2. IsFiniteSet(A)
  <2>1. A \in SUBSET (1..n)
    OBVIOUS
  <2> QED
    BY <1>1, <2>1, FS_Subset
<1>3. \A p \in 1..n : {q \in B : q <= p} = {q \in A : q <= p}
  OBVIOUS
<1>4. {q \in B : q <= n + 1} = B
  OBVIOUS
<1>5. CASE n + 1 \in B
  <2>1. B = A \cup {n + 1} /\ n + 1 \notin A
    BY <1>5
  <2> QED
    BY <2>1, <1>2, <1>3, <1>4, <1>5, FS_AddElement, FS_CardinalityType
<1>6. CASE n + 1 \notin B
  <2>1. B = A
    BY <1>6
  <2> QED
    BY <2>1, <1>2, <1>3, <1>4, <1>6, FS_CardinalityType
<1> QED
  BY <1>5, <1>6

\* A device is appended: the positions of the others keep their ranks.
LEMMA PushKeepsRanks ==
  ASSUME TypeOK, NEW d \in [name : Names, port : Ports], devices' = Append(devices, d)
  PROVE  /\ devices' \in Seq([name : Names, port : Ports]) /\ Len(devices') = Len(devices) + 1
         /\ devices'[Len(devices) + 1] = d
         /\ \A p \in 1..Len(devices) : devices'[p] = devices[p]
         /\ \A p \in 1..Len(devices) :
              /\ p \in DimmablePositions' <=> p \in DimmablePositions
              /\ Rank(p)' = Rank(p)
         /\ Len(devices) + 1 \in DimmablePositions' <=> IsDimmable(d)
         /\ Cardinality(DimmablePositions)' =
              IF IsDimmable(d) THEN Cardinality(DimmablePositions) + 1
              ELSE Cardinality(DimmablePositions)
         /\ \A p : p = Len(devices) + 1 /\ IsDimmable(d)
              => Rank(p)' = Cardinality(DimmablePositions) + 1
<1> DEFINE n == Len(devices)
<1>1. /\ devices \in Seq([name : Names, port : Ports]) /\ n \in Nat
      /\ devices' \in Seq([name : Names, port : Ports]) /\ Len(devices') = n + 1
      /\ devices'[n + 1] = d /\ \A p \in 1..n : devices'[p] = devices[p]
  BY DEF TypeOK
<1>2. DimmablePositions \subseteq 1..n /\ DimmablePositions' \subseteq 1..(n + 1)
  BY <1>1 DEF DimmablePositions
<1>3. \A p \in 1..n : p \in DimmablePositions' <=> p \in DimmablePositions
  BY <1>1 DEF DimmablePositions, IsDimmable
<1>4. n + 1 \in DimmablePositions' <=> IsDimmable(d)
  BY <1>1 DEF DimmablePositions, IsDimmable
<1>5. /\ \A p \in 1..n : {q \in DimmablePositions' : q <= p} = {q \in DimmablePositions : q <= p}
      /\ {q \in DimmablePositions' : q <= n + 1} = DimmablePositions'
      /\ Cardinality(DimmablePositions') =
           IF n + 1 \in DimmablePositions' THEN Cardinality(DimmablePositions) + 1
           ELSE Cardinality(DimmablePositions)
  <2> DEFINE A == DimmablePositions
             B == DimmablePositions'
  <2>1. n \in Nat /\ (\A x \in A : x \in 1..n) /\ (\A x \in B : x \in 1..(n + 1))
        /\ (\A p \in 1..n : p \in B <=> p \in A)
    BY <1>1, <1>2, <1>3
  <2> HIDE DEF n, A, B
  <2>2. /\ \A p \in 1..n : {q \in B : q <= p} = {q \in A : q <= p}
        /\ {q \in B : q <= n + 1} = B
        /\ Cardinality(B) = IF n + 1 \in B THEN Cardinality(A) + 1 ELSE Cardinality(A)
    BY <2>1, GrownSet
  <2> QED
    BY <2>2 DEF A, B
<1>6. \A p \in 1..n : Rank(p)' = Rank(p)
  BY <1>5 DEF Rank
<1>7. \A p : p = n + 1 /\ IsDimmable(d) => Rank(p)' = Cardinality(DimmablePositions) + 1
  BY <1>4, <1>5 DEF Rank
<1> QED
  BY <1>1, <1>3, <1>4, <1>5, <1>6, <1>7

\* The list does not change.
LEMMA SameList ==
  ASSUME UNCHANGED devices
  PROVE  /\ DimmablePositions' = DimmablePositions /\ \A p : Rank(p)' = Rank(p)
         /\ \A x : Exists(x)' <=> Exists(x)
         /\ NamesAreUnique' <=> NamesAreUnique
         /\ Ranked' <=> Ranked
         /\ PercentDevices' = PercentDevices
<1>1. DimmablePositions' = DimmablePositions
  BY DEF DimmablePositions
<1>2. \A p : Rank(p)' = Rank(p)
  BY <1>1 DEF Rank
<1>3. \A x : Exists(x)' <=> Exists(x)
  BY DEF Exists
<1>4. NamesAreUnique' <=> NamesAreUnique
  BY DEF NamesAreUnique
<1>5. Ranked' <=> Ranked
  BY <1>1, <1>2 DEF Ranked
<1>6. PercentDevices' = PercentDevices
  <2>1. ASSUME NEW p PROVE Rank(p)' = Rank(p)
    BY <1>2
  <2> QED
    BY <1>1, <2>1 DEF PercentDevices, Rank
<1> QED
  BY <1>1, <1>2, <1>3, <1>4, <1>5, <1>6

\* Light i is one of the listed devices, and number i of the dimmable ones.
LEMMA LightIsListed ==
  ASSUME TypeOK, Ranked
  PROVE  /\ Len(PercentDevices) = Cardinality(DimmablePositions)
         /\ Cardinality(DimmablePositions) \in Nat
         /\ \A i \in 1..Len(PercentDevices) :
              \E p \in DimmablePositions : Rank(p) = i /\ PercentDevices[i] = devices[p]
<1>1. DimmablePositions \subseteq 1..Len(devices) /\ Len(devices) \in Nat
  BY DEF DimmablePositions, TypeOK
<1>2. Cardinality(DimmablePositions) \in Nat
  <2> DEFINE A == DimmablePositions
  <2>1. \A x \in A : x \in 1..Len(devices) /\ x \in 1..(Len(devices) + 1)
    BY <1>1
  <2> QED
    BY <1>1, <2>1, GrownSet
<1>3. Len(PercentDevices) = Cardinality(DimmablePositions)
  BY <1>2 DEF PercentDevices
<1>4. ASSUME NEW i \in 1..Len(PercentDevices)
      PROVE  \E p \in DimmablePositions : Rank(p) = i /\ PercentDevices[i] = devices[p]
  <2>1. \E p \in DimmablePositions : Rank(p) = i
    BY <1>3 DEF Ranked
  <2>2. PercentDevices[i] = devices[CHOOSE p \in DimmablePositions : Rank(p) = i]
    BY <1>3 DEF PercentDevices
  <2> QED
    BY <2>1, <2>2
<1> QED
  BY <1>2, <1>3, <1>4

LEMMA InitList == Init => ListInv
<1> SUFFICES ASSUME Init PROVE ListInv
  OBVIOUS
<1>1. TypeOK
  <2>1. \A h \in Handles : Start(h) \in Ports \cup {None}
    BY RegistryAssumption DEF Start
  <2>2. nextPort \in [Handles -> Ports \cup {None}]
    BY <2>1 DEF Init
  <2>3. located \in [Uuids -> Ports \cup {None}]
    BY DEF Init
  <2>4. adding \in [Handles -> [pc : {"idle", "check", "push"}, at : Nat]]
    BY DEF Init
  <2>5. writer \in Handles \cup {None} /\ servers = {} /\ cloned \in BOOLEAN
    BY DEF Init
  <2>6. devices = <<>> /\ lights = <<>>
    BY DEF Init
  <2> QED
    BY <2>2, <2>3, <2>4, <2>5, <2>6 DEF TypeOK
<1>2. DimmablePositions = {} /\ Len(devices) = 0
  BY DEF Init, DimmablePositions
<1>3. Ranked
  BY <1>2, FS_EmptySet DEF Ranked
<1>4. NamesAreUnique /\ Adding
  BY <1>2 DEF Init, NamesAreUnique, Adding
<1> QED
  BY <1>1, <1>3, <1>4 DEF ListInv

\* The steps of internal_add_device that leave the list as it is.
LEMMA AddListInv ==
  ASSUME ListInv, NEW h \in Handles,
         LockList(h) \/ RefuseName(h) \/ CreateDevice(h) \/ OverflowPort(h)
  PROVE  ListInv'
<1> USE DEF ListInv
<1>1. UNCHANGED <<devices, nextPort, located, lights, cloned>>
  BY DEF LockList, RefuseName, CreateDevice, OverflowPort
<1>2. None \notin Handles
  BY RegistryAssumption
<1>3. NamesAreUnique' /\ Ranked'
  BY <1>1, SameList
<1>4. adding[h] \in [pc : {"idle", "check", "push"}, at : Nat] /\ Len(Script[h]) \in Nat
  BY RegistryAssumption DEF TypeOK
<1>5. CASE LockList(h)
  <2>1. writer = None /\ writer' = h /\ adding' = [adding EXCEPT ![h].pc = "check"]
        /\ nextPort[h] # None /\ adding[h].at < Len(Script[h]) /\ UNCHANGED servers
    BY <1>5 DEF LockList, CanWrite
  <2>2. TypeOK'
    BY <1>1, <2>1 DEF TypeOK
  <2>3. Adding'
    BY <1>1, <1>2, <2>1 DEF Adding, TypeOK
  <2> QED
    BY <1>3, <2>2, <2>3
<1>6. CASE RefuseName(h) \/ OverflowPort(h)
  <2>1. PICK m \in Nat : adding' = [adding EXCEPT ![h] = [pc |-> "idle", at |-> m]]
    BY <1>4, <1>6 DEF RefuseName, OverflowPort, Leave
  <2>2. writer' = None /\ adding[h].pc # "idle" /\ UNCHANGED servers
    BY <1>6 DEF RefuseName, OverflowPort, Leave
  <2>3. TypeOK'
    BY <1>1, <2>1, <2>2 DEF TypeOK
  <2>4. writer = h
    BY <2>2 DEF Adding
  <2>5. \A k \in Handles : adding'[k].pc = "idle"
    BY <2>1, <2>4 DEF Adding, TypeOK
  <2> QED
    BY <1>3, <2>3, <2>5 DEF Adding
<1>7. CASE CreateDevice(h)
  <2>1. /\ adding[h].pc = "check" /\ ~Exists(NameOf(h)) /\ UNCHANGED writer
        /\ adding' = [adding EXCEPT ![h].pc = "push"]
        /\ servers' = servers \cup {[name |-> NameOf(h), port |-> nextPort[h], up |-> FALSE]}
    BY <1>7 DEF CreateDevice
  <2>2. nextPort[h] \in Ports /\ adding[h].at < Len(Script[h]) /\ writer = h
    BY <2>1 DEF Adding, TypeOK
  <2>3. NameOf(h) \in Names
    BY <1>4, <2>2, RegistryAssumption DEF NameOf
  <2>4. TypeOK'
    <3>1. adding' \in [Handles -> [pc : {"idle", "check", "push"}, at : Nat]]
      BY <2>1 DEF TypeOK
    <3>2. servers' \subseteq [name : Names, port : Ports, up : BOOLEAN]
      <4> DEFINE s == [name |-> NameOf(h), port |-> nextPort[h], up |-> FALSE]
      <4>1. s \in [name : Names, port : Ports, up : BOOLEAN]
        BY <2>2, <2>3
      <4>2. servers' = servers \cup {s} /\ servers \subseteq [name : Names, port : Ports, up : BOOLEAN]
        BY <2>1 DEF TypeOK
      <4> HIDE DEF s
      <4> QED
        BY <4>1, <4>2
    <3> QED
      BY <1>1, <2>1, <3>1, <3>2 DEF TypeOK
  <2>5. adding'[h].at = adding[h].at /\ \A k \in Handles \ {h} : adding'[k] = adding[k]
    BY <2>1 DEF TypeOK
  <2>6. ~Exists(NameOf(h))'
    BY <1>1, <2>1, <2>5 DEF Exists, NameOf
  <2>7. \A k \in Handles : adding'[k].pc # "idle" => k = h
    BY <2>2, <2>5 DEF Adding
  <2>8. Adding'
    BY <1>1, <2>1, <2>2, <2>5, <2>6, <2>7 DEF Adding
  <2> QED
    BY <1>3, <2>4, <2>8
<1> QED
  BY <1>5, <1>6, <1>7

\* What is pushed is a device, and its port is one.
LEMMA PushTypes ==
  ASSUME ListInv, NEW h \in Handles, PushDevice(h)
  PROVE  /\ [name |-> NameOf(h), port |-> nextPort[h]] \in [name : Names, port : Ports]
         /\ devices' = Append(devices, [name |-> NameOf(h), port |-> nextPort[h]])
         /\ nextPort' = [nextPort EXCEPT ![h] = PortAfter(h)] /\ PortAfter(h) \in Ports
         /\ writer' = None /\ UNCHANGED <<servers, located, lights, cloned>>
         /\ adding' = [adding EXCEPT ![h] = [pc |-> "idle", at |-> adding[h].at + 1]]
         /\ adding[h].pc = "push" /\ writer = h /\ adding[h].at \in Nat
         /\ adding[h].at < Len(Script[h]) /\ nextPort[h] \in Ports
         /\ ~Exists(NameOf(h)) /\ ~Overflows(h)
<1>1. /\ adding[h].pc = "push" /\ ~Overflows(h)
      /\ devices' = Append(devices, [name |-> NameOf(h), port |-> nextPort[h]])
      /\ nextPort' = [nextPort EXCEPT ![h] = PortAfter(h)]
      /\ writer' = None /\ UNCHANGED <<servers, located, lights, cloned>>
  BY DEF PushDevice, Pushed, Leave
<1>2. /\ writer = h /\ adding[h].at < Len(Script[h]) /\ ~Exists(NameOf(h)) /\ adding[h].at \in Nat
      /\ nextPort[h] \in Ports
  BY <1>1 DEF ListInv, Adding, TypeOK
<1>3. adding' = [adding EXCEPT ![h] = [pc |-> "idle", at |-> adding[h].at + 1]]
  BY DEF PushDevice, Leave, ListInv, TypeOK
<1>4. NameOf(h) \in Names
  BY <1>2, RegistryAssumption DEF NameOf
<1>5. PortAfter(h) \in Ports
  <2>1. nextPort[h] \in Nat /\ nextPort[h] <= LastPort /\ LastPort \in Nat
    BY <1>2, RegistryAssumption DEF Ports
  <2>2. CASE nextPort[h] = LastPort
    <3>1. ~OverflowChecks
      BY <1>1, <2>2 DEF Overflows
    <3>2. PortAfter(h) = 0
      BY <2>2, <3>1 DEF PortAfter
    <3> QED
      BY <2>1, <3>2 DEF Ports
  <2>3. CASE nextPort[h] # LastPort
    <3>1. PortAfter(h) = nextPort[h] + 1
      BY <2>3 DEF PortAfter
    <3> QED
      BY <2>1, <2>3, <3>1 DEF Ports
  <2> QED
    BY <2>2, <2>3
<1> QED
  BY <1>1, <1>2, <1>3, <1>4, <1>5

LEMMA PushListInv ==
  ASSUME ListInv, NEW h \in Handles, PushDevice(h)
  PROVE  ListInv'
<1> DEFINE d == [name |-> NameOf(h), port |-> nextPort[h]]
<1> USE DEF ListInv
<1>1. d \in [name : Names, port : Ports] /\ devices' = Append(devices, d)
  BY PushTypes
<1>2. /\ devices' \in Seq([name : Names, port : Ports]) /\ Len(devices') = Len(devices) + 1
      /\ devices'[Len(devices) + 1] = d /\ Len(devices) \in Nat
      /\ \A p \in 1..Len(devices) : devices'[p] = devices[p]
  BY <1>1, PushKeepsRanks DEF TypeOK
<1>3. TypeOK'
  <2>1. nextPort' \in [Handles -> Ports \cup {None}]
    BY ZenonT(30), PushTypes DEF TypeOK
  <2>2. adding' \in [Handles -> [pc : {"idle", "check", "push"}, at : Nat]]
    <3>1. /\ adding' = [adding EXCEPT ![h] = [pc |-> "idle", at |-> adding[h].at + 1]]
          /\ adding[h].at \in Nat
      BY PushTypes
    <3> QED
      BY <3>1 DEF TypeOK
  <2> QED
    BY <1>2, <2>1, <2>2, PushTypes DEF TypeOK
<1>4. \A k \in Handles : adding'[k].pc = "idle"
  <2>1. /\ adding' = [adding EXCEPT ![h] = [pc |-> "idle", at |-> adding[h].at + 1]]
        /\ writer = h
    BY PushTypes
  <2> QED
    BY <2>1 DEF Adding, TypeOK
<1>5. NamesAreUnique'
  <2> SUFFICES ASSUME NEW i \in 1..Len(devices'), NEW j \in 1..Len(devices'),
                      Lower[devices'[i].name] = Lower[devices'[j].name]
               PROVE  i = j
    BY DEF NamesAreUnique
  <2>1. \A k \in 1..Len(devices) : Lower[devices[k].name] # Lower[d.name]
    BY PushTypes DEF Exists
  <2>2. (i \in 1..Len(devices) \/ i = Len(devices) + 1)
        /\ (j \in 1..Len(devices) \/ j = Len(devices) + 1)
    BY <1>2
  <2> HIDE DEF d
  <2> QED
    BY <1>2, <2>1, <2>2 DEF NamesAreUnique
<1>6. Ranked'
  <2> SUFFICES ASSUME NEW i \in 1..Cardinality(DimmablePositions')
               PROVE  \E p \in DimmablePositions' : Rank(p)' = i
    BY DEF Ranked
  <2>1. Cardinality(DimmablePositions) \in Nat
    BY LightIsListed
  <2>2. CASE i \in 1..Cardinality(DimmablePositions)
    <3>1. PICK p \in DimmablePositions : Rank(p) = i
      BY <2>2 DEF Ranked
    <3>2. p \in 1..Len(devices)
      BY DEF DimmablePositions
    <3> QED
      BY <1>1, <3>1, <3>2, PushKeepsRanks
  <2>3. CASE i \notin 1..Cardinality(DimmablePositions)
    <3>1. IsDimmable(d) /\ i = Cardinality(DimmablePositions) + 1
      BY <1>1, <2>1, <2>3, PushKeepsRanks
    <3> QED
      BY <1>1, <3>1, PushKeepsRanks
  <2> QED
    BY <2>2, <2>3
<1> QED
  BY <1>3, <1>4, <1>5, <1>6 DEF Adding

LEMMA CloneListInv ==
  ASSUME ListInv, NEW h \in Handles, NEW k \in Handles, CloneServer(h, k)
  PROVE  ListInv'
<1> USE DEF ListInv
<1>1. /\ nextPort' = [nextPort EXCEPT ![k] = nextPort[h]] /\ cloned' = TRUE
      /\ nextPort[k] = None /\ nextPort[h] # None
      /\ UNCHANGED <<devices, writer, adding, servers, located, lights>>
  BY DEF CloneServer
<1>2. nextPort' \in [Handles -> Ports \cup {None}]
  BY <1>1 DEF TypeOK
<1>3. TypeOK'
  BY <1>1, <1>2 DEF TypeOK
<1>4. \A j \in Handles : nextPort[j] # None => nextPort'[j] # None
  BY <1>1 DEF TypeOK
<1>5. Adding'
  BY <1>1, <1>4 DEF Adding, Exists, NameOf
<1> QED
  BY <1>1, <1>3, <1>5, SameList

\* The steps that leave internal_add_device alone.
LEMMA OtherListInv ==
  ASSUME ListInv, UNCHANGED <<devices, writer, adding, nextPort, cloned>>,
         servers' \subseteq [name : Names, port : Ports, up : BOOLEAN],
         located' \in [Uuids -> Ports \cup {None}],
         lights' \in Seq(Names)
  PROVE  ListInv'
<1>1. TypeOK'
  BY DEF ListInv, TypeOK
<1>2. Adding'
  BY DEF ListInv, Adding, Exists, NameOf
<1> QED
  BY <1>1, <1>2, SameList DEF ListInv

LEMMA ListedTypes ==
  ASSUME TypeOK, NEW p \in 1..Len(devices)
  PROVE  /\ devices[p] \in [name : Names, port : Ports]
         /\ devices[p].name \in Names /\ devices[p].port \in Ports
<1> DEFINE D == [name : Names, port : Ports]
<1>1. devices \in Seq(D)
  BY DEF TypeOK
<1>2. devices[p] \in D
  <2> HIDE DEF D
  <2> QED
    BY <1>1
<1> QED
  BY <1>2

\* What a search finds is listed.
LEMMA SearchTypes ==
  ASSUME TypeOK, NEW target, Search(target)
  PROVE  /\ \E p \in 1..Len(devices) : located' = [located EXCEPT ![Uuid[devices[p].name]] = devices[p].port]
         /\ located' \in [Uuids -> Ports \cup {None}]
         /\ UNCHANGED <<devices, writer, adding, nextPort, servers, lights, cloned>>
<1>1. PICK d \in BelkinAnswers(target) : located' = [located EXCEPT ![Uuid[d.name]] = d.port]
  BY DEF Search
<1>2. d \in ToSet(devices)
  BY DEF BelkinAnswers
<1>3. PICK p \in 1..Len(devices) : d = devices[p]
  BY <1>2 DEF ToSet, TypeOK
<1>4. d.name \in Names /\ d.port \in Ports
  BY <1>3, ListedTypes
<1> QED
  BY <1>1, <1>3, <1>4 DEF Search, TypeOK, Uuids

\* A listing of the lights names the dimmable devices by their rank.
LEMMA ListTypes ==
  ASSUME TypeOK, Ranked, ListLights
  PROVE  /\ lights' \in Seq(Names) /\ Len(lights') = Cardinality(DimmablePositions)
         /\ \A i \in 1..Len(lights') :
              \E p \in DimmablePositions : Rank(p) = i /\ lights'[i] = devices[p].name
<1>1. lights' = [i \in 1..Len(PercentDevices) |-> PercentDevices[i].name]
  BY DEF ListLights
<1>2. \A i \in 1..Len(PercentDevices) :
        \E p \in DimmablePositions : Rank(p) = i /\ PercentDevices[i] = devices[p]
  BY LightIsListed
<1>3. \A p \in DimmablePositions : devices[p].name \in Names
  BY ListedTypes DEF DimmablePositions
<1>4. Len(PercentDevices) = Cardinality(DimmablePositions) /\ Cardinality(DimmablePositions) \in Nat
  BY LightIsListed
<1>5. \A i \in 1..Len(PercentDevices) : PercentDevices[i].name \in Names
  BY <1>2, <1>3
<1> HIDE DEF PercentDevices
<1> QED
  BY <1>1, <1>2, <1>4, <1>5

LEMMA RestartListInv == ASSUME ListInv, Restart PROVE ListInv'
<1>1. TypeOK'
  <2>1. \A h \in Handles : Start(h) \in Ports \cup {None}
    BY RegistryAssumption DEF Start
  <2>2. nextPort' \in [Handles -> Ports \cup {None}]
    BY <2>1 DEF Restart
  <2>3. adding' \in [Handles -> [pc : {"idle", "check", "push"}, at : Nat]]
    BY DEF Restart
  <2>4. /\ devices' = <<>> /\ writer' = None /\ servers' = {}
        /\ UNCHANGED <<located, lights, cloned>>
    BY DEF Restart
  <2> QED
    BY <2>2, <2>3, <2>4 DEF TypeOK, ListInv
<1>2. DimmablePositions' = {} /\ Len(devices') = 0
  BY DEF Restart, DimmablePositions
<1>3. Ranked'
  BY <1>2, FS_EmptySet DEF Ranked
<1>4. NamesAreUnique' /\ Adding'
  BY <1>2 DEF Restart, NamesAreUnique, Adding
<1> QED
  BY <1>1, <1>3, <1>4 DEF ListInv

LEMMA NextListInv == ListInv /\ [Next]_vars => ListInv'
<1> SUFFICES ASSUME ListInv, [Next]_vars PROVE ListInv'
  OBVIOUS
<1>1. ASSUME NEW h \in Handles, Add(h) PROVE ListInv'
  BY <1>1, AddListInv, PushListInv DEF Add
<1>2. ASSUME NEW h \in Handles, NEW k \in Handles, CloneServer(h, k) PROVE ListInv'
  BY <1>2, CloneListInv
<1>3. ASSUME NEW s \in servers, Bind(s) PROVE ListInv'
  <2>1. servers' \subseteq [name : Names, port : Ports, up : BOOLEAN]
    BY <1>3 DEF Bind, ListInv, TypeOK
  <2> QED
    BY <1>3, <2>1, OtherListInv DEF Bind, ListInv, TypeOK
<1>4. ASSUME NEW target \in Targets, Search(target) PROVE ListInv'
  BY <1>4, SearchTypes, OtherListInv DEF ListInv, TypeOK
<1>5. CASE ListLights
  <2>1. UNCHANGED <<devices, writer, adding, nextPort, servers, located, cloned>>
    BY <1>5 DEF ListLights
  <2>2. lights' \in Seq(Names)
    BY <1>5, ListTypes DEF ListInv
  <2> QED
    BY <2>1, <2>2, OtherListInv DEF ListInv, TypeOK
<1>6. CASE Restart
  BY <1>6, RestartListInv
<1>7. CASE UNCHANGED vars
  BY <1>7, OtherListInv DEF vars, ListInv, TypeOK
<1> QED
  BY <1>1, <1>2, <1>3, <1>4, <1>5, <1>6, <1>7 DEF Next

-----------------------------------------------------------------------------
(* The numbering.                                                          *)

LEMMA InitOrder == Init => OrderInv
<1> SUFFICES ASSUME Init PROVE OrderInv
  OBVIOUS
<1>1. Alone
  BY DEF Init, Alone, Start
<1>2. Done = 0 /\ nextPort[First] = StartPort /\ Len(devices) = 0 /\ DimmablePositions = {}
  BY RegistryAssumption DEF Init, Done, Start, DimmablePositions
<1>3. Count(Shown, 0) = 0 /\ Count(Fresh, 0) = 0
  BY FreshTypes, CountStep
<1>4. Progress
  BY <1>2, <1>3, FS_EmptySet, RegistryAssumption DEF Progress, Ports
<1>5. Placed
  BY <1>2 DEF Placed
<1>6. Remembered
  BY DEF Init, Remembered, Served, Located, Lit
<1> QED
  BY <1>1, <1>4, <1>5, <1>6 DEF OrderInv, Numbered

\* The next name is accepted if and only if it is fresh.
LEMMA FreshNext ==
  ASSUME ListInv, Numbered, Done < Len(Wishes)
  PROVE  /\ Done \in Nat /\ Done + 1 \in 1..Len(Wishes)
         /\ Done + 1 \in Fresh <=> ~Exists(Wishes[Done + 1])
<1>1. Done \in Nat /\ Len(Wishes) \in Nat
  BY FreshTypes, RegistryAssumption DEF ListInv, TypeOK, Done
<1>2. ASSUME Exists(Wishes[Done + 1]) PROVE Done + 1 \notin Fresh
  <2>1. PICK p \in 1..Len(devices) : Lower[devices[p].name] = Lower[Wishes[Done + 1]]
    BY <1>2 DEF Exists
  <2>2. PICK j \in Fresh : j <= Done /\ devices[p].name = Wishes[j]
    BY DEF Numbered, Placed
  <2>3. j \in 1..((Done + 1) - 1)
    BY <1>1, <2>2, FreshTypes DEF Positions
  <2> QED
    BY <2>1, <2>2, <2>3 DEF Fresh
<1>3. ASSUME Done + 1 \notin Fresh PROVE Exists(Wishes[Done + 1])
  <2>1. PICK k \in 1..Done : Lower[Wishes[k]] = Lower[Wishes[Done + 1]]
    BY <1>1, <1>3 DEF Fresh
  <2>2. Exists(Wishes[k])
    BY DEF Numbered, Progress
  <2> QED
    BY <2>1, <2>2 DEF Exists
<1> QED
  BY <1>1, <1>2, <1>3

\* Only the first owner registers devices.
LEMMA OnlyFirst ==
  ASSUME ListInv, Numbered, NEW h \in Handles, adding[h].pc # "idle"
  PROVE  /\ h = First /\ adding[h].at = Done /\ Done < Len(Wishes)
         /\ NameOf(h) = Wishes[Done + 1]
<1>1. nextPort[h] # None /\ adding[h].at < Len(Script[h])
  BY DEF ListInv, Adding
<1>2. h = First
  BY <1>1 DEF Numbered, Alone
<1> QED
  BY <1>1, <1>2 DEF Done, NameOf, Wishes

\* The steps that leave the list, the ports and the position in the script alone.
LEMMA SameOrder ==
  ASSUME Numbered, UNCHANGED <<devices, nextPort>>, Done' = Done
  PROVE  Numbered'
<1>1. /\ DimmablePositions' = DimmablePositions
      /\ \A p : Rank(p)' = Rank(p)
      /\ \A x : Exists(x)' <=> Exists(x)
  BY SameList
<1>2. Alone'
  BY DEF Numbered, Alone
<1>3. Progress'
  BY <1>1 DEF Numbered, Progress
<1>4. Placed'
  BY <1>1 DEF Numbered, Placed
<1> QED
  BY <1>2, <1>3, <1>4 DEF Numbered

LEMMA LockOrder ==
  ASSUME ListInv, Numbered, NEW h \in Handles, LockList(h)
  PROVE  Numbered'
<1>1. adding' = [adding EXCEPT ![h].pc = "check"] /\ UNCHANGED <<devices, nextPort>>
  BY DEF LockList
<1>2. Done' = Done
  BY <1>1, RegistryAssumption DEF Done, ListInv, TypeOK
<1> QED
  BY <1>1, <1>2, SameOrder

LEMMA RefuseOrder ==
  ASSUME ListInv, Numbered, NEW h \in Handles, RefuseName(h)
  PROVE  Numbered'
<1>1. adding[h].pc = "check" /\ Exists(NameOf(h)) /\ UNCHANGED <<devices, nextPort>>
      /\ adding' = [adding EXCEPT ![h] = [pc |-> "idle", at |-> @.at + 1]]
  BY DEF RefuseName, Leave
<1>2. h = First /\ Done < Len(Wishes) /\ NameOf(h) = Wishes[Done + 1]
  BY <1>1, OnlyFirst
<1>3. Done \in Nat /\ Done' = Done + 1
  BY <1>1, <1>2, FreshNext DEF Done, ListInv, TypeOK
<1>4. Done + 1 \notin Fresh
  BY <1>1, <1>2, FreshNext
<1>5. Count(Fresh, Done + 1) = Count(Fresh, Done) /\ Count(Shown, Done + 1) = Count(Shown, Done)
  <2>1. Done + 1 \notin Shown
    BY <1>4 DEF Shown
  <2> QED
    BY <1>3, <1>4, <2>1, CountStep, FreshTypes
<1>6. /\ DimmablePositions' = DimmablePositions
      /\ \A p : Rank(p)' = Rank(p)
      /\ \A x : Exists(x)' <=> Exists(x)
  BY <1>1, SameList
<1>7. Alone'
  BY <1>1 DEF Numbered, Alone
<1>8. Progress'
  <2>1. \A j \in 1..(Done + 1) : Exists(Wishes[j])
    BY <1>1, <1>2, <1>3 DEF Numbered, Progress
  <2> QED
    BY <1>1, <1>2, <1>3, <1>5, <1>6, <2>1 DEF Numbered, Progress
<1>9. Placed'
  <2>1. \A j \in Fresh : j <= Done => j <= Done'
    BY <1>3, FreshTypes
  <2> QED
    BY <1>1, <1>6, <2>1 DEF Numbered, Placed
<1> QED
  BY <1>7, <1>8, <1>9 DEF Numbered

\* The name that is pushed is the next fresh one, and the counter its port.
LEMMA NextIsFresh ==
  ASSUME ListInv, Numbered, Done < Len(Wishes), ~Exists(Wishes[Done + 1])
  PROVE  /\ Done + 1 \in Fresh /\ Done \in Nat
         /\ Count(Fresh, Done + 1) = Count(Fresh, Done) + 1
         /\ Count(Fresh, Done) \in 0..Done
         /\ Count(Shown, Done + 1) =
              IF Wishes[Done + 1] \in Dimmable THEN Count(Shown, Done) + 1 ELSE Count(Shown, Done)
         /\ NeverWraps => nextPort[First] = PortAt(Done + 1)
<1>1. Done + 1 \in Fresh /\ Done \in Nat
  BY FreshNext
<1>2. Done + 1 \in Shown <=> Wishes[Done + 1] \in Dimmable
  BY <1>1 DEF Shown
<1>3. /\ Count(Fresh, Done + 1) = Count(Fresh, Done) + 1 /\ Count(Fresh, Done) \in 0..Done
      /\ Count(Shown, Done + 1) =
           IF Done + 1 \in Shown THEN Count(Shown, Done) + 1 ELSE Count(Shown, Done)
  BY <1>1, CountStep, FreshTypes
<1>4. NeverWraps => nextPort[First] = StartPort + Count(Fresh, (Done + 1) - 1)
  <2>1. (Done + 1) - 1 = Done
    BY <1>1
  <2> QED
    BY <2>1 DEF Numbered, Progress
<1> QED
  BY <1>1, <1>2, <1>3, <1>4 DEF PortAt

LEMMA PushOrder ==
  ASSUME ListInv, Numbered, NEW h \in Handles, PushDevice(h)
  PROVE  Numbered'
<1> DEFINE d == [name |-> NameOf(h), port |-> nextPort[h]]
           n == Len(devices)
<1>1. /\ d \in [name : Names, port : Ports] /\ devices' = Append(devices, d)
      /\ nextPort' = [nextPort EXCEPT ![h] = PortAfter(h)]
      /\ adding' = [adding EXCEPT ![h] = [pc |-> "idle", at |-> adding[h].at + 1]]
      /\ adding[h].pc = "push" /\ ~Exists(NameOf(h)) /\ ~Overflows(h)
  BY PushTypes
<1>2. h = First /\ Done < Len(Wishes) /\ NameOf(h) = Wishes[Done + 1]
  BY <1>1, OnlyFirst
<1>3. /\ Done + 1 \in Fresh /\ Done \in Nat
      /\ Count(Fresh, Done + 1) = Count(Fresh, Done) + 1 /\ Count(Fresh, Done) \in 0..Done
      /\ Count(Shown, Done + 1) =
           IF IsDimmable(d) THEN Count(Shown, Done) + 1 ELSE Count(Shown, Done)
      /\ NeverWraps => nextPort[First] = PortAt(Done + 1)
  BY <1>1, <1>2, NextIsFresh DEF IsDimmable
<1>4. Done' = Done + 1
  BY <1>1, <1>2 DEF Done, ListInv, TypeOK
<1>5. /\ n \in Nat /\ Len(devices') = n + 1 /\ devices'[n + 1] = d
      /\ \A p \in 1..n : devices'[p] = devices[p]
      /\ \A p \in 1..n : p \in DimmablePositions' <=> p \in DimmablePositions
      /\ n + 1 \in DimmablePositions' <=> IsDimmable(d)
      /\ Cardinality(DimmablePositions') =
           IF IsDimmable(d) THEN Cardinality(DimmablePositions) + 1
           ELSE Cardinality(DimmablePositions)
  BY <1>1, PushKeepsRanks DEF ListInv, TypeOK
<1>6. /\ \A p \in 1..n : Rank(p)' = Rank(p)
      /\ \A p : p = n + 1 /\ IsDimmable(d) => Rank(p)' = Cardinality(DimmablePositions) + 1
  BY <1>1, PushKeepsRanks DEF ListInv
<1>7. \A x : Exists(x) => Exists(x)'
  BY <1>5 DEF Exists
<1>8. \A x : x = Wishes[Done + 1] => Exists(x)'
  BY <1>2, <1>5 DEF Exists
<1>9. Alone'
  BY <1>1, <1>2 DEF Numbered, Alone, ListInv, TypeOK
<1>10. Cardinality(DimmablePositions) = Count(Shown, Done)
  BY <1>2 DEF Numbered, Progress
<1> HIDE DEF d, n
<1>11. Progress'
  <2> SUFFICES ASSUME Done + 1 < Len(Wishes)
               PROVE  /\ \A j \in 1..(Done + 1) : Exists(Wishes[j])'
                      /\ Cardinality(DimmablePositions') = Count(Shown, Done + 1)
                      /\ NeverWraps => nextPort'[First] = StartPort + Count(Fresh, Done + 1)
    BY <1>4 DEF Progress
  <2>1. \A j \in 1..(Done + 1) : Exists(Wishes[j])'
    <3>1. \A j \in 1..Done : Exists(Wishes[j])
      BY <1>2 DEF Numbered, Progress
    <3> QED
      BY <1>3, <1>7, <1>8, <3>1
  <2>2. Cardinality(DimmablePositions') = Count(Shown, Done + 1)
    BY <1>3, <1>5, <1>10
  <2>3. ASSUME NeverWraps PROVE nextPort'[First] = StartPort + Count(Fresh, Done + 1)
    <3>1. nextPort[First] = StartPort + Count(Fresh, Done)
      BY <1>2, <2>3 DEF Numbered, Progress
    <3>2. StartPort \in Nat /\ LastPort \in Nat /\ Len(Wishes) \in Nat
      BY RegistryAssumption, FreshTypes DEF Ports
    <3>3. OverflowChecks \/ nextPort[First] # LastPort
      BY <1>3, <2>3, <3>1, <3>2 DEF NeverWraps
    <3>4. PortAfter(First) = nextPort[First] + 1
      BY <3>3, <1>1, <1>2 DEF PortAfter, Overflows
    <3>5. nextPort'[First] = PortAfter(First)
      BY <1>1, <1>2 DEF ListInv, TypeOK
    <3> QED
      BY <1>3, <3>1, <3>2, <3>4, <3>5
  <2> QED
    BY <2>1, <2>2, <2>3
<1>12. ASSUME NEW p \in 1..(n + 1)
       PROVE  \E j \in Fresh :
                /\ j <= Done + 1 /\ devices'[p].name = Wishes[j]
                /\ NeverWraps => devices'[p].port = PortAt(j)
                /\ p \in DimmablePositions' => Rank(p)' = Count(Shown, j)
  <2>1. CASE p \in 1..n
    <3>1. PICK j \in Fresh : /\ j <= Done /\ devices[p].name = Wishes[j]
                             /\ NeverWraps => devices[p].port = PortAt(j)
                             /\ p \in DimmablePositions => Rank(p) = Count(Shown, j)
      BY <2>1 DEF Numbered, Placed, n
    <3>2. j \in Nat
      BY FreshTypes
    <3>3. j <= Done + 1
      BY <1>3, <3>1, <3>2
    <3>4. devices'[p] = devices[p]
      BY <1>5, <2>1
    <3>5. p \in DimmablePositions' => Rank(p)' = Count(Shown, j)
      BY <1>5, <1>6, <2>1, <3>1
    <3> QED
      BY <3>1, <3>3, <3>4, <3>5
  <2>2. CASE p \notin 1..n
    <3>1. p = n + 1
      BY <1>5, <2>2
    <3>2. devices'[p].name = Wishes[Done + 1] /\ devices'[p].port = nextPort[First]
      BY <1>2, <1>5, <3>1 DEF d
    <3>3. p \in DimmablePositions' => Rank(p)' = Count(Shown, Done + 1)
      BY <1>3, <1>5, <1>6, <1>10, <3>1
    <3> QED
      BY <1>3, <3>2, <3>3
  <2> QED
    BY <2>1, <2>2
<1>13. Placed'
  BY <1>4, <1>5, <1>12 DEF Placed
<1> QED
  BY <1>9, <1>11, <1>13 DEF Numbered

LEMMA OverflowOrder ==
  ASSUME ListInv, Numbered, NEW h \in Handles, OverflowPort(h)
  PROVE  Numbered'
<1>1. /\ adding[h].pc = "push" /\ UNCHANGED <<devices, nextPort>>
      /\ adding' = [adding EXCEPT ![h] = [pc |-> "idle", at |-> Len(Script[h])]]
  BY DEF OverflowPort
<1>2. h = First /\ Done < Len(Wishes)
  BY <1>1, OnlyFirst
<1>3. Done' = Len(Wishes) /\ Done \in Nat /\ Len(Wishes) \in Nat
  BY <1>1, <1>2, FreshTypes DEF Done, ListInv, TypeOK, Wishes
<1>4. DimmablePositions' = DimmablePositions /\ \A p : Rank(p)' = Rank(p)
  BY <1>1, SameList
<1>5. Alone'
  BY <1>1 DEF Numbered, Alone
<1>6. Progress'
  BY <1>3 DEF Progress
<1>7. \A j \in Fresh : j <= Done'
  BY <1>3, FreshTypes
<1>8. Placed'
  BY <1>1, <1>4, <1>7 DEF Numbered, Placed
<1> QED
  BY <1>5, <1>6, <1>8 DEF Numbered

LEMMA AddOrder ==
  ASSUME ListInv, Numbered, Remembered, NEW h \in Handles, Add(h)
  PROVE  Numbered' /\ Remembered'
<1>1. UNCHANGED <<located, lights>>
  BY DEF Add, LockList, RefuseName, CreateDevice, PushDevice, OverflowPort
<1>2. Located' /\ Lit'
  BY <1>1 DEF Remembered, Located, Lit
<1>3. CASE CreateDevice(h)
  <2> DEFINE s == [name |-> NameOf(h), port |-> nextPort[h], up |-> FALSE]
  <2>1. adding[h].pc = "check" /\ ~Exists(NameOf(h)) /\ servers' = servers \cup {s}
        /\ UNCHANGED <<devices, nextPort>> /\ adding' = [adding EXCEPT ![h].pc = "push"]
    BY <1>3 DEF CreateDevice
  <2>2. h = First /\ Done < Len(Wishes) /\ NameOf(h) = Wishes[Done + 1]
    BY <2>1, OnlyFirst
  <2>3. Done + 1 \in Fresh /\ (NeverWraps => nextPort[First] = PortAt(Done + 1))
    BY <2>1, <2>2, NextIsFresh
  <2>4. s.name = NameOf(h) /\ s.port = nextPort[h]
    OBVIOUS
  <2> HIDE DEF s
  <2>5. Served'
    BY <2>1, <2>2, <2>3, <2>4 DEF Remembered, Served
  <2>6. Done' = Done
    BY <2>1, RegistryAssumption DEF Done, ListInv, TypeOK
  <2>7. Numbered'
    BY <2>1, <2>6, SameOrder
  <2> QED
    BY <1>2, <2>5, <2>7 DEF Remembered
<1>4. CASE ~CreateDevice(h)
  <2>1. UNCHANGED servers
    BY <1>4 DEF Add, LockList, RefuseName, PushDevice, OverflowPort
  <2>2. Served'
    BY <2>1 DEF Remembered, Served
  <2> QED
    BY <1>2, <1>4, <2>2, LockOrder, RefuseOrder, PushOrder, OverflowOrder DEF Add, Remembered
<1> QED
  BY <1>3, <1>4

LEMMA RestartOrder ==
  ASSUME ListInv, Numbered, Remembered, Restart
  PROVE  Numbered' /\ Remembered'
<1>1. Alone'
  BY DEF Restart, Alone, Start
<1>2. Done' = 0 /\ nextPort'[First] = StartPort /\ Len(devices') = 0 /\ DimmablePositions' = {}
  BY RegistryAssumption DEF Restart, Done, Start, DimmablePositions
<1>3. Count(Shown, 0) = 0 /\ Count(Fresh, 0) = 0
  BY FreshTypes, CountStep
<1>4. Progress'
  BY <1>2, <1>3, FS_EmptySet, RegistryAssumption DEF Progress, Ports
<1>5. Placed'
  BY <1>2 DEF Placed
<1>6. Remembered'
  BY DEF Restart, Remembered, Served, Located, Lit
<1> QED
  BY <1>1, <1>4, <1>5, <1>6 DEF Numbered

LEMMA BindOrder ==
  ASSUME ListInv, Numbered, Remembered, NEW s \in servers, Bind(s)
  PROVE  Numbered' /\ Remembered'
<1>1. /\ servers' = (servers \ {s}) \cup IF PortFree(s.port) THEN {[s EXCEPT !.up = TRUE]} ELSE {}
      /\ UNCHANGED <<devices, adding, nextPort, located, lights>>
  BY DEF Bind
<1>2. Numbered'
  BY <1>1, SameOrder DEF Done
<1>3. Located' /\ Lit'
  BY <1>1 DEF Remembered, Located, Lit
<1>4. s \in [name : Names, port : Ports, up : BOOLEAN]
  BY DEF ListInv, TypeOK
<1>5. [s EXCEPT !.up = TRUE].name = s.name /\ [s EXCEPT !.up = TRUE].port = s.port
  BY <1>4
<1>6. ASSUME NEW t \in servers' PROVE \E q \in servers : t.name = q.name /\ t.port = q.port
  BY <1>1, <1>5
<1>7. Served'
  BY <1>6 DEF Remembered, Served
<1> QED
  BY <1>2, <1>3, <1>7 DEF Remembered

LEMMA SearchOrder ==
  ASSUME ListInv, Numbered, Remembered, NEW target, Search(target)
  PROVE  Numbered' /\ Remembered'
<1>1. PICK p \in 1..Len(devices) : located' = [located EXCEPT ![Uuid[devices[p].name]] = devices[p].port]
  BY SearchTypes DEF ListInv
<1>2. UNCHANGED <<devices, adding, nextPort, servers, lights>>
  BY SearchTypes DEF ListInv
<1>3. PICK j \in Fresh : devices[p].name = Wishes[j] /\ (NeverWraps => devices[p].port = PortAt(j))
  BY DEF Numbered, Placed
<1>4. Numbered'
  BY <1>2, SameOrder DEF Done
<1>5. Served' /\ Lit'
  BY <1>2 DEF Remembered, Served, Lit
<1>6. ASSUME NEW u \in Uuids, located'[u] # None
      PROVE  \E k \in Fresh : Uuid[Wishes[k]] = u /\ (NeverWraps => located'[u] = PortAt(k))
  <2>1. CASE u = Uuid[devices[p].name]
    <3>1. located'[u] = devices[p].port
      BY <1>1, <2>1 DEF ListInv, TypeOK
    <3> QED
      BY <1>3, <2>1, <3>1
  <2>2. CASE u # Uuid[devices[p].name]
    <3>1. located'[u] = located[u]
      BY <1>1, <2>2 DEF ListInv, TypeOK
    <3> QED
      BY <1>6, <3>1 DEF Remembered, Located
  <2> QED
    BY <2>1, <2>2
<1>7. Located'
  BY <1>6 DEF Located
<1> QED
  BY <1>4, <1>5, <1>7 DEF Remembered

LEMMA ListOrder ==
  ASSUME ListInv, Numbered, Remembered, ListLights
  PROVE  Numbered' /\ Remembered'
<1>1. UNCHANGED <<devices, adding, nextPort, servers, located>>
  BY DEF ListLights
<1>2. Numbered'
  BY <1>1, SameOrder DEF Done
<1>3. Served' /\ Located'
  BY <1>1 DEF Remembered, Served, Located
<1>4. ASSUME NEW i \in 1..Len(lights')
      PROVE  \E j \in Shown : lights'[i] = Wishes[j] /\ Count(Shown, j) = i
  <2>1. PICK p \in DimmablePositions : Rank(p) = i /\ lights'[i] = devices[p].name
    BY <1>4, ListTypes DEF ListInv
  <2>2. p \in 1..Len(devices) /\ devices[p].name \in Dimmable
    BY DEF DimmablePositions, IsDimmable
  <2>3. PICK j \in Fresh : devices[p].name = Wishes[j] /\ Rank(p) = Count(Shown, j)
    BY <2>2 DEF Numbered, Placed
  <2> QED
    BY <2>1, <2>2, <2>3 DEF Shown
<1>5. Lit'
  BY <1>4 DEF Lit
<1> QED
  BY <1>2, <1>3, <1>5 DEF Remembered

LEMMA StutterOrder ==
  ASSUME Numbered, Remembered, UNCHANGED vars
  PROVE  Numbered' /\ Remembered'
<1>1. Numbered'
  BY SameOrder DEF vars, Done
<1> QED
  BY <1>1 DEF vars, Remembered, Served, Located, Lit

LEMMA NextOrder == ListInv /\ OrderInv /\ [Next]_vars => OrderInv'
<1> SUFFICES ASSUME ListInv, OrderInv, [Next]_vars PROVE OrderInv'
  OBVIOUS
<1>1. ASSUME NEW h \in Handles, NEW k \in Handles, CloneServer(h, k) PROVE OrderInv'
  BY <1>1 DEF CloneServer, OrderInv
<1>2. CASE ~\E h, k \in Handles : CloneServer(h, k)
  <2>1. UNCHANGED cloned
    BY <1>2 DEF Next, Add, LockList, RefuseName, CreateDevice, PushDevice, OverflowPort,
                Bind, Search, ListLights, Restart, vars
  <2> SUFFICES ASSUME ~cloned PROVE Numbered' /\ Remembered'
    BY <2>1 DEF OrderInv
  <2>2. Numbered /\ Remembered
    BY DEF OrderInv
  <2> QED
    BY <1>2, <2>2, AddOrder, BindOrder, SearchOrder, ListOrder, RestartOrder, StutterOrder
    DEF Next
<1> QED
  BY <1>1, <1>2

-----------------------------------------------------------------------------
(* The theorems.                                                           *)

\* The inductive invariant: the list is consistent and, without clones, numbered
\* the one way that the script determines.
THEOREM Inductive == Spec => []RInv
<1>1. Init => RInv
  BY InitList, InitOrder DEF RInv
<1>2. RInv /\ [Next]_vars => RInv'
  BY NextListInv, NextOrder DEF RInv
<1> QED
  BY <1>1, <1>2, PTL DEF Spec

\* Type correctness of the server's list, its locks and the controller's memory.
THEOREM Types == Spec => []TypeOK
<1>1. RInv => TypeOK
  BY DEF RInv, ListInv
<1> QED
  BY <1>1, Inductive, PTL

\* However many clones of the server register devices at once, no two devices
\* have the same name up to case.
THEOREM UniqueNames == Spec => []NamesAreUnique
<1>1. RInv => NamesAreUnique
  BY DEF RInv, ListInv
<1> QED
  BY <1>1, Inductive, PTL

\* Without clones, a light id that a controller learned addresses the same device
\* for ever, through additions, refusals, overflows and restarts.
THEOREM LightIds == Spec => []LightsKeepTheirIds
<1>1. RInv => LightsKeepTheirIds
  <2> SUFFICES ASSUME RInv, ~cloned, NEW i \in 1..Len(lights), i <= Len(PercentDevices)
               PROVE  PercentDevices[i].name = lights[i]
    BY DEF LightsKeepTheirIds
  <2>1. i \in 1..Len(PercentDevices)
    BY LightIsListed DEF RInv, ListInv
  <2>2. PICK p \in DimmablePositions : Rank(p) = i /\ PercentDevices[i] = devices[p]
    BY <2>1, LightIsListed DEF RInv, ListInv
  <2>3. p \in 1..Len(devices) /\ devices[p].name \in Dimmable
    BY DEF DimmablePositions, IsDimmable
  <2>4. PICK j \in Fresh : devices[p].name = Wishes[j] /\ Rank(p) = Count(Shown, j)
    BY <2>3 DEF RInv, OrderInv, Numbered, Placed
  <2>5. PICK k \in Shown : lights[i] = Wishes[k] /\ Count(Shown, k) = i
    BY DEF RInv, OrderInv, Remembered, Lit
  <2>6. j \in Shown
    BY <2>3, <2>4 DEF Shown
  <2>7. j = k
    BY <2>2, <2>4, <2>5, <2>6, OneNumberEach
  <2> QED
    BY <2>2, <2>4, <2>5, <2>7
<1> QED
  BY <1>1, Inductive, PTL

\* Without clones, and if the counter never wraps around, no device ever serves
\* the port that a controller learned for another one.
THEOREM Locations == ASSUME NeverWraps PROVE Spec => []LocationsStayRight
<1>1. RInv => LocationsStayRight
  <2> SUFFICES ASSUME RInv, ~cloned, NEW u \in Uuids, NEW s \in servers, s.port = located[u]
               PROVE  Uuid[s.name] = u
    BY DEF LocationsStayRight
  <2>1. s.port \in Ports
    <3>1. s \in [name : Names, port : Ports, up : BOOLEAN]
      BY DEF RInv, ListInv, TypeOK
    <3> QED
      BY <3>1
  <2>2. located[u] # None
    BY <2>1, RegistryAssumption
  <2>3. PICK j \in Fresh : s.name = Wishes[j] /\ s.port = PortAt(j)
    BY DEF RInv, OrderInv, Remembered, Served
  <2>4. PICK k \in Fresh : Uuid[Wishes[k]] = u /\ located[u] = PortAt(k)
    BY <2>2 DEF RInv, OrderInv, Remembered, Located
  <2>5. j = k
    BY <2>3, <2>4, OneNumberEach
  <2> QED
    BY <2>3, <2>4, <2>5
<1> QED
  BY <1>1, Inductive, PTL

\* Each dimmable device is one of the lights.
LEMMA DimmableIsLight ==
  ASSUME TypeOK, Ranked, NEW p \in DimmablePositions
  PROVE  \E i \in 1..Len(PercentDevices) : PercentDevices[i] = devices[p]
<1> DEFINE A == DimmablePositions
<1>1. Len(devices) \in Nat /\ \A x \in A : x \in 1..Len(devices)
  BY DEF DimmablePositions, TypeOK
<1>2. Positions(A) /\ p \in Nat /\ p >= 1
  BY <1>1 DEF Positions
<1>3. \A q : Rank(q) = Count(A, q)
  BY DEF Rank, Count, Upto
<1>4. Cardinality(A) \in Nat /\ Count(A, Len(devices)) = Cardinality(A)
  <2>1. Upto(A, Len(devices)) = A
    BY <1>1 DEF Upto
  <2> QED
    BY <2>1, <1>1, <1>2, CountStep DEF Count
<1> HIDE DEF A
<1>5. Rank(p) \in 1..Cardinality(A)
  <2>1. p \in A
    BY DEF A
  <2>2. Count(A, 0) \in Nat /\ Count(A, p) \in Nat /\ Count(A, 0) < Count(A, p)
    BY <1>2, <2>1, CountStep, CountGrows
  <2>3. Count(A, p) <= Count(A, Len(devices))
    BY <1>1, <1>2, <2>1, CountKeeps
  <2> QED
    BY <1>3, <1>4, <2>2, <2>3
<1>6. PICK q \in A : Rank(q) = Rank(p) /\ PercentDevices[Rank(p)] = devices[q]
  BY <1>5, LightIsListed DEF A
<1>7. q = p
  <2>1. p \in A /\ q \in Nat /\ q >= 1
    BY <1>1 DEF A
  <2>2. (p < q => Count(A, p) < Count(A, q)) /\ (q < p => Count(A, q) < Count(A, p))
    BY <1>2, <2>1, CountGrows
  <2>3. Count(A, p) \in Nat /\ Count(A, q) = Count(A, p)
    BY <1>2, <1>3, <1>6, CountStep
  <2> QED
    BY <1>2, <2>1, <2>2, <2>3
<1> QED
  BY <1>5, <1>6, <1>7, LightIsListed DEF A

\* With a bridge, each device is found one way: by itself or as a light.
THEOREM OneRoute == Spec => []OneRoutePerDevice
<1>1. RInv => OneRoutePerDevice
  <2> SUFFICES ASSUME RInv, Bridge, NEW i \in 1..Len(devices)
               PROVE  LET viaHue == HueAnswers("all") /\ devices[i] \in ToSet(PercentDevices) IN
                      /\ (devices[i] \in BelkinAnswers("all")) # viaHue
                      /\ viaHue => devices[i] \notin BelkinAnswers("belkin")
    BY DEF OneRoutePerDevice
  <2>1. devices[i] \in ToSet(devices)
    BY DEF ToSet
  <2>2. CASE IsDimmable(devices[i])
    <3>1. PICK k \in 1..Len(PercentDevices) : PercentDevices[k] = devices[i]
      <4>1. i \in DimmablePositions
        BY <2>2 DEF DimmablePositions
      <4> QED
        BY <4>1, DimmableIsLight DEF RInv, ListInv
    <3>2. devices[i] \in ToSet(PercentDevices)
      BY <3>1 DEF ToSet
    <3>3. HueAnswers("all")
      BY <2>1, <2>2 DEF HueAnswers
    <3>4. devices[i] \notin BelkinAnswers("all") /\ devices[i] \notin BelkinAnswers("belkin")
      BY <2>2 DEF BelkinAnswers
    <3> QED
      BY <3>2, <3>3, <3>4
  <2>3. CASE ~IsDimmable(devices[i])
    <3>1. devices[i] \in BelkinAnswers("all")
      BY <2>1, <2>3 DEF BelkinAnswers
    <3>2. \A k \in 1..Len(PercentDevices) : IsDimmable(PercentDevices[k])
      BY LightIsListed DEF RInv, ListInv, DimmablePositions
    <3>3. devices[i] \notin ToSet(PercentDevices)
      BY <2>3, <3>2 DEF ToSet
    <3> QED
      BY <3>1, <3>3
  <2> QED
    BY <2>2, <2>3
<1> QED
  BY <1>1, Inductive, PTL
=============================================================================

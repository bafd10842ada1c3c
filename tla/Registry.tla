------------------------------ MODULE Registry ------------------------------
(***************************************************************************)
(* RustmoServer (lib.rs) and what the network learns from it: the list of  *)
(* registered devices, the ports they are given, the HTTP server thread of *)
(* each device, the answers to SSDP searches (ssdp.rs) and the light ids   *)
(* of the Hue bridge (upnp.rs).                                            *)
(*                                                                         *)
(* A controller remembers what it learned: the location of a Belkin device *)
(* by its uuid, and the name of a light by its id.  The process may be     *)
(* restarted, and then registers the same devices in the same order.       *)
(***************************************************************************)
EXTENDS Naturals, Sequences, SequencesExt, FiniteSets

CONSTANTS
  Handles,     \* RustmoServer values: the first one and its clones
  First,       \* the value RustmoServer::new returned
  Names,       \* device names
  Script,      \* Script[h]: the names that h's owner registers, in order
  Lower,       \* Lower[n]: the name in lower case
  Uuid,        \* Uuid[n]: what RustmoDevice::new makes of the name's first bytes
  Dimmable,    \* the names of devices that support percentages
  StartPort,   \* starting_port
  LastPort,    \* the largest u16, 65535 in the code
  OverflowChecks, \* `+=` panics on overflow (debug builds) or wraps (release)
  Taken,       \* ports that other processes listen on
  Bridge       \* the Hue bridge is enabled and its server could be bound

CONSTANTS None

Uuids == {Uuid[n] : n \in Names}
Ports == 0..LastPort

ASSUME RegistryAssumption ==
  /\ First \in Handles
  /\ Script \in [Handles -> Seq(Names)]
  /\ LastPort \in Nat
  /\ StartPort \in Ports
  /\ OverflowChecks \in BOOLEAN
  /\ None \notin Handles \cup Ports

VARIABLES
  devices,     \* the list behind the RwLock: [name, port]
  writer,      \* the handle that holds the list's write lock
  adding,      \* adding[h]: where internal_add_device is, [pc, at]
  nextPort,    \* nextPort[h], None while h does not exist
  servers,     \* the device server threads that live: [name, port, up]
  located,     \* located[u]: where the controller believes device u to be, or None
  lights,      \* the names of the lights the controller listed, by id
  cloned       \* RustmoServer::clone has been called

vars == <<devices, writer, adding, nextPort, servers, located, lights, cloned>>

-----------------------------------------------------------------------------
(* internal_add_device.  at counts the names of the script dealt with.     *)

NameOf(h) == Script[h][adding[h].at + 1]

Leave(h) ==
  /\ writer' = None
  /\ adding' = [adding EXCEPT ![h] = [pc |-> "idle", at |-> @.at + 1]]

\* Mutant: nobody locks the list.
CanWriteAlways == writer \in Handles \cup {None}

CanWrite == writer = None

LockList(h) ==
  /\ nextPort[h] # None /\ adding[h].pc = "idle" /\ adding[h].at < Len(Script[h])
  /\ CanWrite
  /\ writer' = h
  /\ adding' = [adding EXCEPT ![h].pc = "check"]
  /\ UNCHANGED <<devices, nextPort, servers, located, lights, cloned>>

Exists(name) ==
  \E i \in 1..Len(devices) : Lower[devices[i].name] = Lower[name]

\* DeviceAlreadyExistsByName.
RefuseName(h) ==
  /\ adding[h].pc = "check" /\ Exists(NameOf(h))
  /\ Leave(h)
  /\ UNCHANGED <<devices, nextPort, servers, located, lights, cloned>>

\* Mutant: the port is not moved on.
SamePort(h) == nextPort[h]

PortAfter(h) ==
  IF nextPort[h] = LastPort /\ ~OverflowChecks THEN 0 ELSE nextPort[h] + 1

\* Mutant: the limit is off by one.
OverflowsLate(h) == OverflowChecks /\ nextPort[h] > LastPort

Overflows(h) == OverflowChecks /\ nextPort[h] = LastPort

\* RustmoDevice::new: spawn the thread that is going to bind the port.
CreateDevice(h) ==
  /\ adding[h].pc = "check" /\ ~Exists(NameOf(h))
  /\ servers' = servers \cup {[name |-> NameOf(h), port |-> nextPort[h], up |-> FALSE]}
  /\ adding' = [adding EXCEPT ![h].pc = "push"]
  /\ UNCHANGED <<devices, writer, nextPort, located, lights, cloned>>

\* Mutant: new devices go to the front.
PushFront(name, port) == <<[name |-> name, port |-> port]>> \o devices

Pushed(name, port) == Append(devices, [name |-> name, port |-> port])

PushDevice(h) ==
  /\ adding[h].pc = "push" /\ ~Overflows(h)
  /\ devices' = Pushed(NameOf(h), nextPort[h])
  /\ nextPort' = [nextPort EXCEPT ![h] = PortAfter(h)]
  /\ Leave(h)
  /\ UNCHANGED <<servers, located, lights, cloned>>

\* The addition panics: the caller unwinds and unlocks the list.  The server of
\* the device that is not listed lives on.
OverflowPort(h) ==
  /\ adding[h].pc = "push" /\ Overflows(h)
  /\ writer' = None
  /\ adding' = [adding EXCEPT ![h] = [pc |-> "idle", at |-> Len(Script[h])]]
  /\ UNCHANGED <<devices, nextPort, servers, located, lights, cloned>>

\* #[derive(Clone)]: the copy shares the list and copies next_port.
CloneServer(h, k) ==
  /\ nextPort[h] # None /\ adding[h].pc = "idle" /\ nextPort[k] = None
  /\ nextPort' = [nextPort EXCEPT ![k] = nextPort[h]]
  /\ cloned' = TRUE
  /\ UNCHANGED <<devices, writer, adding, servers, located, lights>>

-----------------------------------------------------------------------------
(* The device server threads.                                              *)

\* Port 0 asks for any port.
PortFree(p) == p = 0 \/ (p \notin Taken /\ \A s \in servers : ~(s.up /\ s.port = p))

\* hyper::Server::http binds the port, or the thread panics and is gone.
Bind(s) ==
  /\ s \in servers /\ ~s.up
  /\ servers' = (servers \ {s}) \cup
                  IF PortFree(s.port) THEN {[s EXCEPT !.up = TRUE]} ELSE {}
  /\ UNCHANGED <<devices, writer, adding, nextPort, located, lights, cloned>>

-----------------------------------------------------------------------------
(* Discovery.  The listener answers under the read lock.                   *)

Targets == {"belkin", "hue_basic", "hue_root", "all"}

IsDimmable(d) == d.name \in Dimmable

\* The dimmable devices in the order of the list: the device at position p is
\* number Rank(p) of them.
DimmablePositions == {p \in 1..Len(devices) : IsDimmable(devices[p])}
Rank(p) == Cardinality({q \in DimmablePositions : q <= p})

PercentDevices ==
  [i \in 1..Cardinality(DimmablePositions) |->
     devices[CHOOSE p \in DimmablePositions : Rank(p) = i]]

\* Mutant: Belkin searches find the dimmable devices too.
BelkinAnswersAll(target) ==
  IF target \in {"belkin", "all"} THEN ToSet(devices) ELSE {}

\* The devices that answer a search as Belkin switches.
BelkinAnswers(target) ==
  IF target \in {"belkin", "all"}
  THEN {d \in ToSet(devices) : ~IsDimmable(d)} ELSE {}

\* The Hue bridge answers a search.
HueAnswers(target) ==
  /\ target \in {"hue_basic", "hue_root", "all"}
  /\ \E d \in ToSet(devices) : IsDimmable(d)
  /\ Bridge

\* A search, and one of the answers to it reaches the controller.
Search(target) ==
  /\ writer = None
  /\ \E d \in BelkinAnswers(target) :
       located' = [located EXCEPT ![Uuid[d.name]] = d.port]
  /\ UNCHANGED <<devices, writer, adding, nextPort, servers, lights, cloned>>

\* GET .../lights on the bridge.
ListLights ==
  /\ writer = None /\ Bridge
  /\ lights' = [i \in 1..Len(PercentDevices) |-> PercentDevices[i].name]
  /\ UNCHANGED <<devices, writer, adding, nextPort, servers, located, cloned>>

-----------------------------------------------------------------------------
Start(h) == IF h = First THEN StartPort ELSE None

Init ==
  /\ devices = <<>> /\ writer = None
  /\ adding = [h \in Handles |-> [pc |-> "idle", at |-> 0]]
  /\ nextPort = [h \in Handles |-> Start(h)]
  /\ servers = {}
  /\ located = [u \in Uuids |-> None]
  /\ lights = <<>>
  /\ cloned = FALSE

\* The process is restarted; the controller keeps what it knows.
Restart ==
  /\ devices # <<>>
  /\ devices' = <<>> /\ writer' = None
  /\ adding' = [h \in Handles |-> [pc |-> "idle", at |-> 0]]
  /\ nextPort' = [h \in Handles |-> Start(h)]
  /\ servers' = {}
  /\ UNCHANGED <<located, lights, cloned>>

Add(h) == LockList(h) \/ RefuseName(h) \/ CreateDevice(h) \/ PushDevice(h)
          \/ OverflowPort(h)

Next ==
  \/ \E h \in Handles : Add(h) \/ \E k \in Handles : CloneServer(h, k)
  \/ \E s \in servers : Bind(s)
  \/ \E target \in Targets : Search(target)
  \/ ListLights \/ Restart

Spec == Init /\ [][Next]_vars

\* Threads that can run do run; locks are eventually fair.
Fairness ==
  /\ \A h \in Handles : SF_vars(Add(h))
  /\ WF_vars(\E s \in servers : Bind(s))

FairSpec == Spec /\ Fairness

-----------------------------------------------------------------------------
(* Properties.                                                             *)

\* The list, the locks and what the controller knows have their types.
TypeOK ==
  /\ devices \in Seq([name : Names, port : Ports])
  /\ writer \in Handles \cup {None}
  /\ adding \in [Handles -> [pc : {"idle", "check", "push"}, at : Nat]]
  /\ nextPort \in [Handles -> Ports \cup {None}]
  /\ servers \subseteq [name : Names, port : Ports, up : BOOLEAN]
  /\ located \in [Uuids -> Ports \cup {None}]
  /\ lights \in Seq(Names)
  /\ cloned \in BOOLEAN

\* Names are unique up to case, however many clones register devices at once.
NamesAreUnique ==
  \A i, j \in 1..Len(devices) :
    Lower[devices[i].name] = Lower[devices[j].name] => i = j

\* A controller that uses a location it learned talks to the device it learned
\* it for, or to nobody: no other device ever answers there, not after devices
\* were refused or failed to bind, nor after a restart.
LocationsStayRight ==
  ~cloned => \A u \in Uuids : \A s \in servers :
               (s.up /\ s.port = located[u]) => Uuid[s.name] = u

\* A light id the controller learned still addresses the same device, also
\* when more devices have been added or the process was restarted.
LightsKeepTheirIds ==
  ~cloned => \A i \in 1..Len(lights) :
               i <= Len(PercentDevices) => PercentDevices[i].name = lights[i]

\* With a bridge, a search for everything finds each device in exactly one way:
\* itself, or the bridge that lists it; a search for Belkin devices never finds
\* a dimmable one (ssdp.rs:285), so no controller sees a device twice.
OneRoutePerDevice ==
  Bridge => \A i \in 1..Len(devices) :
    LET viaHue == HueAnswers("all") /\ devices[i] \in ToSet(PercentDevices) IN
    /\ (devices[i] \in BelkinAnswers("all")) # viaHue
    /\ viaHue => devices[i] \notin BelkinAnswers("belkin")

\* Every listed device gets its server, unless another process listens on its
\* port or the counter has wrapped to the port that means "any".
ListedIsServed ==
  \A n \in Names : \A p \in Ports \ (Taken \cup {0}) :
    (~cloned /\ [name |-> n, port |-> p] \in ToSet(devices))
    ~> (cloned \/ [name |-> n, port |-> p, up |-> TRUE] \in servers \/ devices = <<>>)
=============================================================================

# A verification development for rustmo

rustmo makes devices of the home (lights, projectors, players) controllable by
Alexa: it answers SSDP searches, pretends to be Belkin WeMo switches and a
Philips Hue bridge, and passes commands on to drivers. This directory holds TLA+
models of it, the TLC runs that check them, and TLAPS proofs. `PROJECT.json`
lists runs, mutants, the source lines each definition stands for, findings,
hazards and theorems.

    tlc -workers 2 -config devices.cfg MCDeviceHistory     # a run
    tlapm VirtualDevicesProofs.tla                         # the proofs

## 1. Inventory

Paths are below `src/`; `server/` is `rustmo-server/src/`, `devices/` is
`rustmo-devices/src/`.

| component | state | operations | interacts with |
|---|---|---|---|
| device wrappers, `server/virtual_device.rs` | the mutex of each `SynchronizedDevice`; `InstantOnDevice::believed_on`; the poll loop's counter; the activation of every call | `turn_on`, `turn_off`, `check_is_on`, `set_percent`, `check_percent`, `supports_percent` of `SynchronizedDevice`, `InstantOnDevice`, `PollingDevice`, `CompositeDevice`, `FunctionalDevice` | called by all server threads and by user code; groups call their members; call the drivers |
| registry, `server/lib.rs` | the list of devices behind an `RwLock`, `next_port` (one per clone of the server), one HTTP server thread per device | `RustmoServer::new`, `with_hue_bridge_port`, `add_*_device`, `clone` | the list is shared with SSDP and the Hue bridge |
| SSDP, `server/ssdp.rs` | the listener thread, its read guard | answer a search | reads the list; asks every device `supports_percent` |
| HTTP handlers, `server/upnp.rs` | per request: the read guard, the lights selected, answers so far | WeMo get/set at a device's port; Hue describe/list/set at the bridge and at a device's port | read the list; call the wrappers |
| Lutron RA2 driver, `devices/lutron/ra2.rs` | a telnet session per call; the monitor's session and its bounded channel | `output_set`, `output_get`, `monitor_output`, the `VirtualDevice` methods | the repeater, which tells every session of all changes |
| Apple TV, `devices/apple/appletv.rs` | a session behind a mutex, shared by the clones of a `Device` | `with_session` around every command and query | the Apple TV, through a client library |
| Kaleidescape, `devices/kaleidescape/kscp.rs` | per call: connections, retry counters, readers | power, keys, `play_movie`, `highlighted_section`, details of movies | the player, TCP lines |
| Anthem AVM 70, `devices/anthem/avm70.rs` | per exchange: a connection, lines skipped | power, inputs, volume, CEC | the receiver, which tells every connection of all changes |
| madVR Envy, `devices/madvr/envy.rs` | per exchange: a connection, the last line | power (Wake-on-LAN), standby, aspect ratio, zoom | the Envy, which speaks first |
| Oppo UDP-203, `devices/oppo/dvd_players/udp_203.rs` | per command: a connection | power, keys | the player, one read per reply |
| Sony projector, `devices/sony/projectors/pj_talk.rs` | per command: a connection | power, keys, picture settings | the projector, binary headers and data |
| Sony STR-ZA5000ES, `devices/sony/receivers/str_za5000_es.rs` | none | power, input, volume, mute | the receiver, HTTP requests without a time limit |

What is hard:

* **Threads and nested locks.** A call into a group keeps the group's mutex and
  takes those of its members one by one; groups share members and nest; the
  mutex is not reentrant; a call that panics unwinds through all of this. Around
  it there is the list's lock, held during device calls by SSDP and the bridge,
  with writers that keep new readers out.
* **Calls made of several calls.** A group's command is a probe and a command
  per member; a Hue answer is two queries; a Hue command is up to two commands.
  Other threads come between.
* **State that is believed, not observed.** `believed_on`, polled states, the
  locations and light ids that controllers remember across restarts.
* **Failure.** Drivers return errors, panic, hang, or act late; a port cannot be
  bound; an answer cannot be sent; a session breaks or is silent.
* **Lines on a wire.** Reads return parts of what was sent; replies, prompts and
  unsolicited reports are mixed; a read that times out counts as a login; a
  reader that is dropped takes lines with it.
* **Repetitions.** A command whose connection broke may have taken effect; the
  Apple TV driver sends it again. Several exchanges make up one answer, and the
  device changes between them.

What makes each component correct: locks are released and never form a circle;
every call and request ends unless a driver it needs hangs; answers agree with
the hardware; commands reach every device they are meant for; names, ports and
ids keep meaning the same device; a driver's Ok means that its device was told,
what a query answers was true during the call, and calls end.

## 2. Modules

| module | models | composes |
|---|---|---|
| `VirtualDevices` | the wrappers, their mutexes, threads that call them, drivers and hardware as environment | |
| `DeviceHistory` | history variables over `VirtualDevices` | extends `VirtualDevices` |
| `VirtualDevicesProofs` | theorems about types, locks, answers and beliefs | extends `VirtualDevices`, `TLAPS` |
| `GroupProofs` | lemmas about calls into groups: what they have done and found at each point | extends `VirtualDevicesProofs` |
| `DeviceHistoryProofs` | theorems about what groups deliver and answer | extends `DeviceHistory`, `GroupProofs` |
| `Brightness` | the percent/brightness conversions | |
| `Server` | list lock, SSDP listener, HTTP handlers, adding devices | extends `VirtualDevices`, `Brightness` |
| `ServerHistory` | a history variable over `Server` | extends `Server` |
| `ServerProofs` | theorems about the conversions, `Server` (among them that it implements `VirtualDevices`) and `ServerHistory` | extends `ServerHistory`, `GroupProofs` |
| `Registry`, `RegistryProofs` | names, ports, server threads, discovery, light ids, restarts, and theorems about them | |
| `Lutron`, `LutronHistory`, `LutronProofs` | the RA2 driver, the repeater as environment, history variables, theorems | |
| `Exchanges` | the vocabulary of the drivers: calls, commands, lines, reactions | |
| `AppleTv`, `Avm70`, `Envy`, `Kaleidescape`, `PjTalk`, `StrZa5000`, `Udp203` | one driver each, and what its device does with a command | extend `Exchanges` |
| `RawDriver` | abstract: what a caller of a driver may rely on | |
| `Drivers` | callers, connections and the device, for each of the seven drivers | instantiates the seven; implements `RawDriver` |
| `ExchangesProofs` | lemmas about each driver and its device: what its calls know, and what they expect in fair weather | extends `Drivers`, `TLAPS` |
| `DriversProofs` | theorems about `Drivers`, among them that it implements `RawDriver` and when its calls fail | extends `ExchangesProofs` |
| `MC*` | constants of the instances that TLC checks | |

### VirtualDevices

A device is a number, given in the order of creation; `Kind` and `Members` say
what it is. All devices are `SynchronizedDevice`s, as `add_*_device` makes them.
`act[d]` is the activation record of the call that holds `d`'s mutex,
`caller[d]` the group that made it, `top[t]` the innermost device of thread `t`,
so a thread's stack is the chain of callers from `top[t]`.

* `Call`, `Acquire`, `Return`: a call of a thread, the taking of a mutex (by the
  thread or by a group for its next member), the return (or unwinding) with the
  release of the guard and what the caller makes of the answer (`Resume`).
* `DriverCommand`, `DriverQuery`: the wrapped driver; it may answer, fail
  (`Faulty`), panic (`Panicky`), never return (`Hangs`, through fairness), or act
  only later (`Slow`, `Settle`). `ByHand` moves the hardware of `Handled` devices.
* `BelievedCheck`, `StoreBelief`: `InstantOnDevice`. `PollCheck`: one round of
  `PollingDevice`'s loop; the sleeps of the loop are left out, since in between
  anything may happen anyway.
* `GroupPhase`: a group at the end of its members; `Reached`, `AfterCheck`,
  `Brighter`: how each answer is folded into the group's.

### Server

A request is a sequence of phases (`Phases`): taking and leaving the list lock,
sending answers, and phases that consist of device calls (`CallsOf`), which are
made one after the other. `readers` and `writer` are parking_lot's `RwLock`: a
writer announces itself, which keeps new readers out, and then waits for those
inside. A panic drops the guard (`Unwinding`) and ends the request; a thread of
the HTTP pool then goes on, the SSDP listener does not. Requests that only depend on
`supports_percent` at the device's own port (`own_info`, `own_events`) are there
too, since that call takes the device's mutex. `hung` holds the
drivers that have stopped answering; they still answer `supports_percent`, which
every driver implements as a constant. `Hardware` lets slow hardware settle.

`Server` adds variables to those of `VirtualDevices` and uses its actions; a call
of a handler is one of `HandlerCalls`. `DevicesAreOnlyCalled` is `VirtualDevices`'
own specification: whatever the server does, the devices see calls of
threads, one at a time per thread, and nothing else. It is checked and proved,
so that everything proved of the wrappers holds in the server.

### Registry

`internal_add_device` is `LockList`, then `RefuseName` or `CreateDevice` (which
spawns the server thread) and `PushDevice` or `OverflowPort`. The server thread
binds later (`Bind`) and dies if it cannot. `CloneServer` copies the port counter
and shares the list. A controller keeps `located` (a port per uuid) and `lights`
(a name per light id) over a `Restart`.

### Lutron

`link[s]` is the repeater's side of a telnet session (its login state, what the
driver has written, what is on the way to the driver), `side[s]` where the
driver stands. A read takes any non-empty part of what is on the way, cut between
lines; the prompt is an empty line and the words after it, and a read may end
between the two. `Connect` may fail, in a call and in the monitor, which then
sleeps and starts again (`Wake`). `ByHand` is a wall control, of which all sessions
that are logged in are told, as they are of lines of other actions (`Others`). `ReadLogin`, `LoginSilence`: the login loop, which a time-out ends as if
it had succeeded. `ReadReply`, `ReplySilence`: `send_command`; the prompt ends
it, or a read that looks empty (`ReplyEnds`). `Hears` and `Kept` are what `output_get`
keeps of a read: its result is the value of the line it kept, or an `Err` if it
kept several. `ReadEvents`, `SendEvent`, `SendPanics`: the monitor thread.
`LutronHistory` remembers what levels a call's outputs had and what lines of other
actions said of them (`seen`, `strange`), what became of its command (`taken`,
`misread`), and what the receiver of the channel was told.

### Drivers

A driver serves a call by exchanges: connect, send, read until it has what it
takes for the reply. `call[c]` is the activation of the call (its loop counters,
the values collected, the command under way); `Exchanges` lists the operators by
which a driver's module says what its code does next:

| operator | the code |
|---|---|
| `First` | a method's first command |
| `Connected`, `Sent` | after the connection, after the write: read or return |
| `Hear` | what is made of a line: parsed, skipped, counted, the next exchange |
| `Broken` | no connection, a time-out, the end of the stream, an error: an `Err`, a retry, or a default |
| `Does` | the device (external): its reactions as the driver's parsers and tests know them |

`Drivers` runs one of them at a time (`driver` never changes). Steps of a caller:
`Begin`, `Lock` (the Apple TV's session), `Connect`, `CannotConnect`, `Send`,
`SendFails`, `Read` (which may return a part, or lose what its reader had
buffered), `Silence` (time-out, end, reset), `Wake`, `Return`. Steps of the
device and the network (the parts that one read may return of a reply are `Parts`
of the Oppo and the projector): `Execute` a command and reply; `ExecuteLate` one whose
connection is gone; `ByHand`; `Chatter`, a line nobody asked for; `Cut`. `times`,
`seen` and `trouble` are history: how often a call's command was executed, the
true answers since the call began, and whether something came between.

`RawDriver` says what a caller gets, by the class of the call:

| class | a call that does not fail | calls |
|---|---|---|
| confirmed | its command took effect during the call | power of Kaleidescape, Oppo, ZA5000 and Apple TV; keys of Oppo and Apple TV |
| query | answers what was true at some moment of the call, or the vague answer of that query | `check_is_on`, inputs, ratios, selections, mute |
| checked | saw the setting it asked for | `set_cec`, `set_video_input`, `play_movie` |
| sent | nothing: the command was written, no more | the rest, e.g. power of AVM 70, Envy and the projector, `change_input`, volume |

The vague answers are in `Vague`: an Oppo whose reply is cut is `Off`, and so is the
muting of a ZA5000 that cannot be asked; an unknown input is `Unknown`; an Envy's
last line that is about something else is `Other`, or a panic of
`get_nearest_aspect_ratio`. In `VirtualDevices` a
driver is a plain device, whose commands are confirmed and whose check has no
vague answer; of these drivers, Kaleidescape, Apple TV and ZA5000 are like that.

## 3. Runs

| run | shows |
|---|---|
| `devices` | safety of the wrappers: two threads call into a house of three nested groups that share members, over a polling, an instant-on and a plain device; the polling one is slow, fails and panics. `TypeOK` bounds what groups and wait loops count by the number of members and the poll limit. `SuccessIsDelivered`: a command that reports success has served every member, whichever member's check failed. `GroupDelivers`, `GroupAnswersTruly`: commands of the groups without the polling device, one of them nested and with the plain device twice below it, reach every driver, and its answers agree with them |
| `devices_live` | `HangsAreContained`: a call returns unless a driver below it hangs, also in a group that shares a member with a stuck group; `LiesComeTrue`: what an `InstantOnDevice` believes becomes true |
| `server` | `NoCircle` over list lock and mutexes; the two answers of a description fit together; after a Hue or WeMo command every device below is at the level asked for; a brightness that is read and set again changes nothing |
| `server_live` | `RequestsAreServed` with readers, writers, a panicking and hanging driver and a listener that may end; `ReadersLeave`: no panic leaves the read lock behind; `DevicesAreOnlyCalled`: the server implements `VirtualDevices` |
| `registry` | names unique up to case with two clones registering; learned locations and light ids never lead to another device, also after refusals, failed binds, overflow and restarts; each device has exactly one route of discovery; each listed device gets its server |
| `lutron` | an Ok of `output_set` means the repeater took the command as one (or will, after a silent login); a level that `output_get` returns was one during the call, or comes from a line of another action about such an output; calls end unless the repeater tells them of changes for ever |
| `lutron_monitor` | whoever listens to the monitor knows every change made while it listened; the monitor comes back after errors and panics unless the repeater refuses it for ever, or tells a session that is not logged in of changes for ever |
| `drivers` | `Promise`: each of the seven drivers implements `RawDriver`, with a device that is slow, operated by others, talkative, and connections that break; `FairWeather`: a call during which nothing came between does not fail but for replies that the driver cannot read, which `Unreadable` lists; `AtMostTwice`: no command is executed more often than the code repeats it; `DetailsAreOwn`: details collected over one connection are those of the movie asked for, in full; `CallsEnd`: every call ends, whatever its device does, except with an Envy that does not stop talking and with HTTP requests that are not answered: all those of the ZA5000 and the one for the Kaleidescape's list of movies |

Runs that find a statement of the documentation violated:

| run | statement | what the code does |
|---|---|---|
| `nested_turn_on` | a group works "as a single" device (virtual_device.rs:350) | `turn_on` skips an inner group of which one member is on, and leaves its others off |
| `instant_lie` | the lie ends when the device "actually does return ON" (lib.rs:234) | it ends with `turn_off` only; hardware turned off by hand is reported On |
| `add_blocked` | devices can be added "while we're listening" (ssdp.rs:20) | a hung device keeps the read lock taken, and `add_*_device` waits for ever |
| `lutron_other` | lines of action 29 are not levels (test at ra2.rs:733) | `output_get` returns the value of one if the reply comes in one read with the prompt |

### Bounds and why they are enough

* Two threads and six devices (`devices`): the least house with one of every
  wrapper, a nested group below which a device occurs twice and no driver fails, and
  another that shares its inner group and in which a member in the middle fails and
  panics. The requests are those whose calls differ in this house; a `turn_off` of
  the group with the failing member and the percentage of a group are left to
  `devices_live` and `server`. The properties about more threads and deeper nesting
  are proved (section 5). `PollLimit` 1 has both outcomes of the loop; levels 0 and 1
  are off and on.
* `server`: two lamps (one slow) and their group, one thread of the bridge, one
  of a device's port, one that adds; all devices are added during the run.
  `MaxLevel` is 100 because of the conversions. In this run `Work` holds one
  request of each kind that makes device calls in a way of its own; searches are
  in `server_live`.
* `server_live`: one driver that panics and may hang and one that does not, so
  that requests that must not be affected exist. Errors (`Faulty`) are left to
  `devices`: a handler treats them like answers.
* `registry`: `LastPort` 4 stands for 65535 so that the counter reaches its
  limit; five names of which two differ in case only; two handles. Wrapping of
  the counter without overflow checks is the constant `OverflowChecks`.
* `lutron` and `lutron_monitor`: calls and the monitor run apart (`Monitored`,
  `Conns`), since sessions affect each other only through lines about changes, which
  `ByHand` also causes. Changes, breaks, refused connections and attempts of the
  monitor are unlimited; `MaxUnderWay` (2 and 1) only bounds how many lines may be
  on the way when the next change comes, so that chains of changes as long as one
  likes meet a login or a reply, which is what the exceptions of `CallsEnd` and
  `MonitorReturns` are about. `Others` has one value, so each change may be reported
  with a line of another action. `Capacity` is 1, 100 in the code: a full channel is
  reached. Ids 5 and 59 are the confusable ones.
* `drivers`: one caller, since callers of the drivers share nothing but the
  device, which `ByHand` changes too; two for the Apple TV, whose clones share a
  session. `Tries`, `Movies`, `DetailLines`, `RetryLimit`, `Inputs` are 2, so that
  each loop goes round, ends early and reaches its limit; in the code they are
  30, all movies, the count in the overview, 10 and the receiver's count.
  `MaxLate` 1: one command of a broken connection is executed later. `MaxLines`
  1: an unsolicited line comes when nothing else is on the way; more of them
  come one after the other, beyond the retry limit.

Deadlock checking is off in `server_live`, where every thread may end up waiting
for a hung device, and in the runs of `Lutron`, where all calls may be over and the
receiver gone.

### Fairness and why the code justifies it

Threads that can run do run (weak fairness of what needs no lock). A thread that
waits for a lock that is free again and again gets it (strong fairness):
parking_lot's mutexes and `RwLock`s are eventually fair, and a waiting writer
keeps new readers out. Drivers return unless they are in `Hangs`. In `Lutron` the
threads of the driver take their steps: every read of a login or of a call has a
time limit of a second, so a step is always possible there, and the monitor's
sleep ends; its read for events has no limit. Nothing is assumed of the repeater:
what it can prevent by going on with something for ever stands as an alternative
in the properties, not as fairness: reporting changes to a call (`CallsEnd`) or to
the monitor's login, and refusing the monitor (`MonitorReturns`). In `Drivers` the
caller's own steps are fair and so is the session's mutex; of the device nothing
is assumed, a read ends by its time limit. `CallsEnd` names what that does not
cover: an Envy that never stops sending lines other than `OK` and `ERROR`, and
HTTP requests that are accepted and not answered, for which no time limit is set
(`Unlimited`). Nobody has to make a call, send a request, hang, break a session or
receive from the channel.

## 4. Hazards

`PROJECT.json` lists them at their lines with the properties that cover them.
Some are in the models, and the code does nothing against them, so that the
properties except them: a command of somebody else between the two queries of a
description (`AnswersFitTogether`), a selection that is moved before the
Kaleidescape's PLAY, a projector that does not heed a power command. A belief is
stored after an `Err` of the driver too; the properties about beliefs leave out
drivers that fail. That the ratio of the Envy is the nearest is not stated.
Not covered either: levels that change while the Lutron monitor sleeps or logs in (the
code does not ask for them afterwards); a monitor that reads at a login prompt
for ever after a silent login; clones of the server, which hand out the same
ports (lib.rs:120, while lib.rs:115 promises a unique port per device;
`Registry` states its port properties for the routes that exist); `change_input`
of the AVM 70, which takes the echo of any input for its own (avm70.rs:78-82), so
that the contract leaves it at "sent". Also seen while modelling, without a run:
a group talks to its members one after the other (virtual_device.rs:353 and
lib.rs:292 say "in parallel"), so a hung member keeps the next from being told;
a ZA5000 that cannot be reached counts as off (`is_off`), and so as not muted; output ids of which one begins the digits of another
(5 and 59) are confused by `output_get` (`GetIsCurrent` is stated accordingly); a
reply `~ERROR` that arrives in one read with the prompt counts as Ok;
`set_video_input` with `VideoInput::Unknown` sends a setting that there is not, and is
Ok if the receiver is off, or at an input without a variant, when it is read back;
the ZA5000's replies parse only if their fields are called `_id`, `_feature` and
`_event_available`; a server
made with `RustmoServer::new`, without bridge, answers no search for a dimmable
device.

## 5. Proofs

`VirtualDevicesProofs`, for any threads, devices, groups and nesting, from the
assumptions stated in `VirtualDevices` (`BoundsAssumption`, `NoneAssumption`, and
`MembersAssumption`: members were created before their groups, because a group
is made of handles that earlier `add_*_device` calls returned):

* `TypeCorrect`: `Spec => []TypeOK`, types and the bounds of what groups and wait loops
  count (`StepsBounded`).
* `LocksOrdered`: `Spec => []LockOrder`. `TypeOK /\ LockOrder` is inductive (`IInv`);
  `TypeOK` alone is not, since what a return does depends on the caller being a
  group that waits at a member. `LockOrder` says that the devices a thread
  holds are its call stack in ascending order. One lemma per action; `Acquire`
  (`AcquireIInv`) and `Return` (`ReturnIInv`) carry the weight.
* `NothingLeaks`: `Spec => []NoLeakedLock`, from `LockOrder`: a held device has a
  thread whose innermost device makes it be in a call.
* `NoDeadlock`: `Spec => []NoCircularWait`. In a set of waiting threads take one
  whose wanted device is the least (`LeastMember`, by well-foundedness of the
  naturals): its holder would want a lesser one, because threads only want
  devices below those they hold (`PendingBelow`).

Also in `VirtualDevicesProofs`, from the same assumptions and `AnswersAssumption`
(the answers On, Off, Yes, No, the levels, and the failures `Err` and `Panic` are
different things):

* `Answering`: `Spec => [](IInv /\ AInv /\ CInv)`, the inductive invariants. `AInv` says of
  each device what its call in progress and its belief are worth: only commands are
  followed up, by the wrapper that does so (`FollowUp`); a fresh answer is that of the
  hardware, which stays or is on its way to where the answer has it (`Current`); a
  belief is about to be stored, or was and nothing has switched the hardware off
  since (`Warranted`). `CInv` says that calls and answers fit together: each call in
  progress is the one its thread or its group makes (`Matching`), with an answer of
  the kind its operation has (`Suited`); a group would otherwise combine answers to
  something else.
* `CurrentAnswers`: `Spec => []AnswersAreCurrent`, from `Current`.
* `WarrantedBelief`: `Spec => []BeliefIsWarranted`, from `Warranted`.

`GroupProofs` and `DeviceHistoryProofs`, for any nesting and sharing of members:

* `Below` is a recursive function; that it is what its definition says
  (`BelowIs`) needs that such a function exists, which a least counterexample
  gives from `MembersAssumption` (`BelowExists`). That everything below a device is
  a driver (`BelowDrivers`) goes the same way.
* `EInv` holds of all calls, disturbed or not: hardware that is not slow is where it
  was told to go, a call fails only if a driver below its device does, and an
  answer to `supports_percent` speaks for all members.
* `Goes(g)` is about the call at `g` and all those it has led to, down to the
  innermost (`Under`): the hardware below has not been moved but by them and is
  where it was told to go, or on its way to where the call has it (`Settled`), and
  each of them `Fares` well: the drivers of the members it has been through
  have been told (`Does`), and what it has combined of their answers so far is so of
  the hardware (`Finds`). `GroupDelivers` speaks of calls that return; a
  call on the way to that is only covered with all calls below it, since a member's
  answer is worth what that member's own call has found.
* `GoesStart`: a call that starts on hardware that is at rest goes as it should;
  `GoesStep`: it goes on so if nobody else moves the hardware below. One lemma per kind of
  step; `Return` of a member to its group, where the answer is folded in (`Resume`),
  carries the weight.
* `GroupsDeliver`: `HSpec => []GroupDelivers`, `GroupsAnswerTruly`: `HSpec =>
  []GroupAnswersTruly`, from `GInv`, which adds to the invariants above that a call
  that is `clean` goes as it should.

`ServerProofs`, for any threads, requests, devices and groups, from the same
assumptions and those in `Server`: `WorkAssumption` (what requests are made of),
`CallsAssumption` (what handlers call is among the calls of `VirtualDevices`) and
`NobodyAssumption` (`None` is no job):

* Conversions: a percentage survives the way to a brightness and back
  (`RoundTrip`), conversions are monotone and stay in range (`Monotone`), and
  exactly the brightnesses 0 and 1 turn a light off (`OffBelowTwo`).
* `DevicesOnlyCalled`: `SSpec => DevicesAreOnlyCalled`, the refinement. A step that
  ends a call, or that starts one, is a step of `VirtualDevices`; all others
  leave its variables alone. With it `TypeCorrect`, `LocksOrdered`, `NothingLeaks`
  and `NoDeadlock` hold of the server.
* `ReadersAlwaysLeave`: `SSpec => []ReadersLeave`. The inductive invariant is `SInv`,
  which is `IInv` and `JobsFit`: a thread in a call makes it for a request; what
  is left of the request of a reader leaves the lock before any lock is taken;
  the writer stands at its writing. `ReadersLeave` is not inductive without it,
  since a panic cuts the request short at any phase (`Unwinding`).
* `NoCircleEver`: `SSpec => []NoCircle`. A circle through the list lock would need a
  reader that waits for the list, and readers do not (`JobsFit`); a circle without
  it is one of `VirtualDevices` (`WaitsForNoCircle`).

* `ServerTypes`: `SSpec => []ServerTypeOK`. `PercentsSurvive`: `SSpec =>
  []PercentSurvives`; what a request has read are levels (`ServerTypeOK`), and their
  way through the brightness is `RoundTrip`. `ServerAnswers`: by the refinement,
  `AnswersAreCurrent` and `BeliefIsWarranted` hold of the server.
* `LastWords`: `HSpec => []LastWordWins` and `AnswersFit`: `HSpec =>
  []AnswersFitTogether`, of `ServerHistory`. The invariant `HInv` has three parts. A
  request is `Formed`: its calls fit its phase (`Fitting`: in a phase that
  describes, a percentage and then the state of the same device; in one that
  sets, calls on one device of which the last `Closes` the request by asking for
  what `AskedLevel` says), and lights that it lists have only dimmable devices
  below them (`lights` keeps those that answered Yes, which `EInv` makes sound).
  A call in progress was made for the first of them, and is the outermost
  (`RootHeld`). And while the phase is calm, the next call is `Prepared`: its device
  is `Ready`, or the call is under way and `Goes`; the percentage heard is that of the
  hardware below (`Bright`) until the state is asked for. `GoesStart` and `GoesStep`
  then serve for the server as they do for groups. Two conditions of the
  properties came out of these proofs: a belief about to be stored counts as one
  (`Belief` in `Honest`), and a WeMo request is answered for a group with
  members that are not dimmable too, one of which may be on at 0 percent.

`RegistryProofs`, for any script of devices, any number of handles and restarts,
from `Registry`'s assumptions. The inductive invariant `RInv` is `ListInv` (the list,
and what each handle is about to push) and, as long as the server has not been
cloned, `OrderInv`: how names, ports and light ids follow from the script
(`Numbered`), and that what lives on in servers and at the controller agrees with
it (`Remembered`).

* `Types`, `UniqueNames`: the write lock is held from the check of the name to
  the push, which `Adding` says.
* `LightIds`: `LightsKeepTheirIds`. Without clones the list is a prefix of what the
  script produces (`Alone`, `Progress`), so the dimmable device number i is the
  same after a restart (`Ranked`, `Placed`, `Lit`).
* `Locations`: `LocationsStayRight`, with the hypothesis `NeverWraps`: the build
  checks overflow or the script has fewer devices than there are ports. It is the
  code's own condition; a release build wraps to port 0 otherwise.
* `OneRoute`: `OneRoutePerDevice`, from `Served` and `Located`.

`LutronProofs`, for any outputs, calls, requests, lines at the wall, breaks and
channel capacities, from `LutronAssumption`. The inductive invariant is `LInv`:

* `Session(s)` relates the two ends of a session. During the login it stands at
  one of seven points (`LoginStands`); from this follows that at most one prompt is
  under way when the login ends, and that the driver has read it.
* `Heard(c)`: a prompt that a call reads is therefore the one after its command,
  unless the login was silent; a command taken for a name or password is followed
  by no prompt (`Stuck`). This gives `OkIsHeard`: `HSpec => []OkMeansHeard`.
* `Witness(c)`: every line a call has kept or may read about an output it may read
  tells a level seen during the call, or is a line of another action and is
  remembered as one. This gives `LevelIsCurrent` (`HSpec => []GetIsCurrent`), for any
  `Others`; that the value may be one of theirs is what `lutron_other` shows.
* `Watched`: for every output that changed, the last report under way (on the
  wire, then in the batch, then in the channel), or else the last one received, tells
  its level (`Tells`). Four lemmas move a report along (`TellsRead`, which rests on
  the order of `Events`, `TellsSend`, `TellsReceive`, `TellsMore`). This gives
  `WatcherIsRight`: `HSpec => []WatcherKnows`.
* What a step does not touch is dealt with once: `Bystander` for the sessions the
  driver does nothing in, `DriverStep` for all steps of the driver in one session,
  `WatchQuiet`, `WatchTold` and `WatchDeaf` for the monitor.

`ExchangesProofs` and `DriversProofs`, for any callers, requests, settings,
limits and late commands and any of the seven drivers, from the assumptions in
`Drivers`: `RequestsAssumption` (callers ask for calls and settings that there
are), `LimitsAssumption` (tries, movies and the lines of details are at least
one), `AnswersAssumption` and `NoneAssumption` (answers
are different from the failures `Err` and `Panic`, `None` is no client,
connection, answer, command or call). A device may do all that `Does` has it do; nothing is assumed of
its timing or of the network.

* `ExchangesProofs` is about single calls. `Good(a, S, T)`: the record `a` of a
  call knows only what is among the true answers so far, `S`, and that its
  command took effect only if `T`. For every driver, `First`, `Connected`,
  `Sent`, `Broken` and `Hear` of a line that says the truth (`Says`) lead from
  good records to good ones, never send a command more often than `Sendings`
  counts, and end with an answer that `RawDriver` allows (`Kept`).
* The inductive invariant `DInv` adds the rest of the system. `Records`: all
  calls are good, and have seen what the device is like now. `Links`: what has
  come on the connection of a call in an exchange is true for it (`Hears`); the
  parts for the Kaleidescape (what of a movie's details is still to come) and
  the Envy (the welcome is the first line, before the command) are needed
  because these drivers interpret lines by their place. `Locked`: the Apple TV's
  session is used by its holder. `Wires`, `Belated`: what is under way are
  commands of the driver's callers. `Counting`: executions, the command under
  way and the late one are together no more than the call has sent.
* It is preserved because a step of the device tells truly on each connection
  (`DoesIs`, device by device; `TouchedIs` for `ByHand`), and calls see more by
  it, never less (`SeenIs`, `DeviceStep`), while a step of a caller concerns its
  own record and connection (`ClientStep`).
* `DriversTyped`: `Spec => []DriversTypeOK`. `ExecutedAtMostTwice`: `Spec =>
  []AtMostTwice`, from `Counting`. `OwnDetails`: `Spec => []DetailsAreOwn`, from
  the Kaleidescape's part of `Records` and `Links`.
* `DriversImplementRawDriver`: `Spec => Promise`, the refinement. `Begin`,
  `Return` and the steps of the device are steps of `RawDriver`, the others
  none, but for the one by which a call gets its answer: that it may is `Good`.
* `CallsFareWell`: `Spec => []FairWeather`. That lines are true is not enough
  for a call to succeed: they have to be there. The inductive invariant `FInv`
  adds to `DInv` that each call with no trouble so far is `Fine`: it is `Well`,
  and `Aloof`, with no command of its own left behind that could still be
  executed. `Well` says what is on its connection at each point of the exchange:
  before its command nothing that it would take for the reply (`Ready`); once the
  command is executed, what is left of the reply, in full and in order (`Due`);
  and that what the call counts or has set fits (`Stands`). `Due` is of another
  kind for each driver: the receiver's reply is a block of consecutive lines among
  those about other people's changes (`AvmBlock`), the Kaleidescape's as many
  lines as the call still counts, the Envy's ends in the ratio, or in the
  connection's end if it was switched off. `Dark` is needed for the Envy: one
  that is off has no connections.
* Its proof goes along the code and along the device. `ExchangesProofs` shows that
  calls that are well go on well (`ConnectedWell`, `SentWell`, `HearWell`), that
  what a device does with a heeded command of the call is what is due
  (`OwnWell`), and that what others have it do leaves the call well
  (`DoesCalm`, `TouchedCalm`, `Calm`); `DriversProofs` has one lemma for each action of
  `Drivers` (`ConnectFair` to `CutFair`).

With that every invariant that a run checks is a theorem, but for
`SuccessIsDelivered`, which speaks of drivers that fail, where the lemmas about
groups do not reach. Only model-checked is also liveness, `CallsEnd` among it, which is
out of the prover's reach. Induction
over data is too, where the library states it with an operator for a parameter;
`LeastMember`, of a set of naturals, takes its place.

## 6. Not modelled

* Formats: SSDP and HTTP messages, XML, JSON; requests answered with constants.
* User code that keeps a guard of `SynchronizedDevice::lock` or whose driver
  calls other registered devices; such code can deadlock and the lock order
  does not cover it. Raw devices used without the wrapper.
* In `Server`, hardware operated by hand (it is in `VirtualDevices`).
* In `Lutron`, lines cut in the middle by a read, telnet negotiation other than
  as an event without data, and the project's XML.
* In `Drivers`: what JSON, HTML and XML replies look like, the Apple TV's
  credentials and pairing, the connection pool of the HTTP client, the content of
  the Kaleidescape's list of movies, calls that take the same way as a modelled one
  (`note` of each component), and the bound of `blanking`'s value.

## 7. Plan

Done: the wrappers, server, registry, Lutron and the other drivers; the
refinements of `VirtualDevices` by `Server` and of `RawDriver` by `Drivers`; the
theorems above. Left:

1. `Drivers` below `VirtualDevices`: a plain device with the vague answers of
   `RawDriver`, and what groups make of them.
2. An atomic register that a command sets and a check reads, implemented by a
   `SynchronizedDevice` under contention.

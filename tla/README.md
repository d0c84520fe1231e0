# A verification project for sys-con

sys-con is a Nintendo Switch sysmodule that makes USB controllers usable on the console: it watches
`usb:hs` for controllers, opens them, reads their reports in one thread per controller and shows
them to the console as virtual gamepads. This directory holds TLA+ models of its concurrent core,
of its drivers and of its configuration file, TLC configurations that check them on small instances, and theorems proved by TLAPS.

Paths below are relative to `source/` of the repository.

## 1. The system and its parts

| Part | State | Operations | What makes it correct |
|---|---|---|---|
| USB discovery and removal, `Sysmodule/source/usb_module.cpp` | two threads with a running flag each, the wait's timeout | query and insert; wait, clear, query and remove; `Exit` | no plug and no unplug is lost; the shutdown ends |
| Vector of handlers, `controller_handler.cpp` | `controllerHandlers`, `controllerMutex` | `IsAtControllerLimit`, `Insert`, `RemoveAllNonPlugged`, `Clear` | limit kept, no interface served twice, only the unplugged removed, no deadlock |
| Power management, `psc_module.cpp` | thread, `is_psc_thread_running` | sleep, shutdown, `Exit` | requests are acknowledged, handlers gone before that |
| Entry points, `main.cpp`, `main_ams.cpp` | none of their own | start, poll, shut down | everything is joined and destroyed at the end |
| USB device, interface, endpoint, lock, `ControllerSwitch/SwitchUSB*.cpp` | `usb:hs` sessions, an armed transfer, one recursive mutex | open, close, read, write | closed once, never read after that; a transfer that timed out is picked up, not repeated |
| Virtual gamepad handler, `SwitchVirtualGamepadHandler.cpp`, `SwitchHDLHandler.cpp` | per input: connected, re-attach, handle; the thread's flag | `UpdateInput`, attach, detach, `Exit` | a pad that is off is not shown, no device leaks, a dropped pad stays dropped |
| Controller reader, `ControllerLib/Controllers/BaseController.cpp` | index of the next endpoint | initialise, sweep, drain, map | every endpoint has its turn, what is shown is what is held |
| Drivers, `ControllerLib/Controllers/*.cpp` | connection per pad, virtual key (Xbox One), packet and port (Wii) | initialise, parse, acknowledge | no change of connection is lost, an acknowledged key was understood, every port is shown |
| MITM (Atmosphere build), `SwitchMITM*.cpp`, `hid_mitm_*.cpp` | eight slots, a fake shared memory per client | attach, detach, update, touch mirror | players distinct, slots given back, clients agree, a pad that is gone is not shown, touches arrive in order |
| Configuration, `config_handler.cpp`, `Ini/ini.c` | a file, `GlobalConfig`, a `ControllerConfig` | load with overrides, append a section | order of overrides, one section per controller |
| Logger, applet companion, HID tool | a buffer; none; none | | |

How they meet. The event thread (a `do` loop around `waitObjects`) holds the recursive *usbLock*
for a whole iteration: query the five classes, ask the vector for room, build the driver, open the
interfaces, start the input thread, push the handler. The change thread reads the acquired
interfaces under usbLock, releases it, and walks the vector under *controllerMutex*, destroying the
handlers that have none of them. The power thread clears the vector on sleep and on shutdown, main()
when everything else has ended. Destroying a handler joins its input thread and closes its
interfaces, each under usbLock. An input thread holds usbLock for as long as it waits for a report.
In the Atmosphere build the input threads write what they read into the fake shared memories,
which the MITM server creates for its clients, and one more thread carries the touches of the screen
over into them. The configuration file is read at the start (its result decides which filters the
event thread waits on) and again, in up to five passes, for each controller that is plugged in, by the event thread.

What is hard here: two locks taken in two orders, a list that is read under one lock and used under
the other, signals that are cleared before or after the state they announce is read, timeouts that
switch between one millisecond and never, a flag that ends a module before its last answer is
given, a connection state spread over four variables and changed on failed reads as well as on
successful ones, a console that drops devices by itself, transfers that outlive the read that
posted them, packets that are dropped on purpose, a tail index compared with the tail of another
ring, and a file that is read, extended and read again on a card that may fail. `PROJECT.json` lists every such hazard
at its line.

## 2. Modules

| Module | Models | Uses |
|---|---|---|
| `ControllerRegistry` | what the vector promises: a bounded set of disjoint groups of interfaces, one more or one less at a time | |
| `UsbLifecycle` | event, change, power and main threads, the input thread of each handler, both locks, the vector | refines `ControllerRegistry` |
| `MCUsbLifecycle` | instances of `UsbLifecycle` for TLC | |
| `PadHandler` | one handler with several inputs: sweep, drain, connection, attach, detach, `Exit` | |
| `EndpointSweep` | what `ReadNextBuffer` promises: nothing new is passed over, the newest report is given, everyone has a turn | |
| `UsbTransfer` | one handler's reads: `ReadAsync` with its armed transfer, the drain and the sweep on top of it | refines `EndpointSweep` |
| `Drivers` | seven drivers: `Initialize`, `ParseData`, acknowledgements, ports, mapping of raw inputs to buttons | |
| `MCDrivers` | an instance of `Drivers` for TLC | |
| `ConfigLoad` | the line reader, the INI parser, the loads, the section that is appended | |
| `MCConfigLoad` | the files that TLC tries with `ConfigLoad` | |
| `UsbLifecycle_proofs`, `UsbUnplug_proofs` | theorems about `UsbLifecycle` | the second extends the first |
| `PadHandler_proofs` | theorems about `PadHandler` | |
| `MitmSlots` | the input threads of several handlers with one or more pads each, the manager's slots and list of memories, the server that creates memories | |
| `MCMitmSlots` | instances of `MitmSlots` for TLC | |
| `TouchMirror` | the thread that mirrors the touch screen into the clients' memories | |
| `MitmSlots_proofs`, `UsbTransfer_proofs`, `TouchMirror_proofs`, `Drivers_proofs`, `ConfigLoad_proofs` | theorems about the module in the name | |

The modules look at the same reader with different eyes. `UsbLifecycle` knows a read only as the time
for which usbLock is held; `UsbTransfer` knows what a read does with its transfer, and packets
only as numbers; `PadHandler` has a queue of packets per endpoint, of which the drain keeps the
last, and what they say about connections; `Drivers` has one endpoint, and what packets say about buttons.
`EndpointSweep` is where the second and the third meet: `UsbTransfer` implements it, and `PadHandler`'s `ProbeMisses`,
`ProbeHits`, `SweepEnds` and `Block...` are its actions with a longer queue: that queue also holds what the device has not
been asked for yet, so that a drain may end before it does.

### UsbLifecycle

Each thread has a program counter `pc[t]`; an action is the stretch of code between two points at
which another thread can interfere (a lock, a wait, a signal, a flag). A `SwitchUSBLock` that is
taken and released within one such stretch is a guard (`UsbFree`), one that is kept is a
variable (`usbLock`). `controllerMutex` is `mutex`, `controllerHandlers` is `handlers`, a sequence
of handler objects; `group[h]` holds the interfaces of object `h` and is empty while there is no
object at that address. The iterator of `RemoveAllNonPlugged` is `it`: `erase(it--)` followed by
`it++` leaves the index where it was. `Clear` is the same walk with every entry a victim; the
vector destroys its elements in order, and nobody sees the difference between an element that
has been destroyed and one that has been erased, because the mutex is held.

`usb:hs` is external: `bus[i]` and `session[i]` say who holds an interface, `avail` is the
auto-clear event for available interfaces, `changed` the state-change event that `eventClear`
clears. Whether `avail` is also signalled when an interface is *released* is not documented, so
`ReleaseSignals` is a constant and the runs use both values; `NoLostPlug` assumes it.
The five class queries are one atomic read of the bus, under usbLock; the driver then gets
every interface of the first class that has any (`TakesAll`) or the first one (generic).
`ChangeQuery` fetches all acquired interfaces, or any `MaxListed` of them when there are more
(`MaxUsbHsInterfacesSize`, 8, in the code): a controller that did not fit counts as unplugged.
Neither kind of query fails here; in the code one that fails counts as one that found nothing.
`Broken` interfaces are those whose driver never initialises. A failed `Initialize` destroys the
handler under usbLock; that `ExitThread` then works on an uninitialised thread is a hazard that is
listed and not modelled.

`cancel[t]` is a pending `svcCancelSynchronization`. `main()` is followed from its polling loop to
its end, with a `psc::Initialize` that may have failed, since its result is ignored. The last `Clear`, that of
`controllers::Exit`, is `MainAgain`, which takes the mutex and removes nothing: `NothingLeftAtExit` shows, without
help from a guard, that nothing is there to remove. The shutdown is the
one of `main.cpp`, not that of the Atmosphere build.

### PadHandler

The input thread of one handler: `ProbeMisses`, `ProbeHits`, `SweepEnds`, `BlockHits` and
`BlockEnds` are the sweep of `ReadNextBuffer`; `Receive` is the drain of `ReadEndpointLatest`
(a zero-timeout read may fail early, so any non-empty prefix of the waiting packets is drained and
the last is kept), `ParseData`, and `Follow`, the comparison of connection states at the head of
`UpdateInput`, which runs whether or not the read succeeded. `Attach` and `Update` are its end.
The owner's `Exit` is three steps: stop and cancel, join and close, detach. Pads are switched on
and off and send reports; the console drops devices. Packets are model strings: a connect or
disconnect packet, or a report with or without L+R held. A pad's `on` is the
receiver's view: a packet joins the queue in the step that changes it. `Driver` chooses who answers
`IsControllerConnected`: the wireless receiver, which changes its mind with connect and disconnect
packets only; the Steam driver, which takes every report for a connection and knows `MaxInputs` pads
(for an endpoint behind them `Answers` is whatever memory holds); or the base class, which always says yes.

### UsbTransfer

The action names are the outcomes of one `ReadAsync`: the transfer is `AlreadyArmed`, or it is
posted (`Posts`, `PostFails`); the wait ends without the event (`WaitFails`: a timeout,
zero in the drain and the probes, or `svcCancelSynchronization`), or with it (`Taken`), and then the
report is fetched or not (`Fetches`, `FetchFails`). Each read ends in `ReadSucceeds` or in `ReadFails`, and those contain
what the callers do next: the drain reads on, the sweep serves, goes on, blocks or ends. `WaitFails` needs the event not to be signalled, since
`eventWait` looks at it before the time. A report is the number of its transfer, so that
"newer" can be said; an empty answer does not touch the buffer. `answered`, `missed` and `overtaken` are history.
`Sweep` maps this to `EndpointSweep`: what waits is what was answered and is newer than the last report returned.
A fetch that fails is taken to leave its report with `usb:hs`. The next fetch, which asks for one report, then gets that one,
drops it because its number is not the one expected, and so on: every report comes one too late. Nothing is
promised for such an endpoint (`missed`, `lossy`).
One thread and the device take part; usbLock, which is held from the post to the fetch, keeps everybody else
out, and endpoints are closed only after the thread is joined. Transfer ids of `usb:hs` are taken to be non-zero, as the
code takes them.

### Drivers

`pc` is "init" during `Initialize`, an action per driver, with the failures that the code looks
at; packets that arrive meanwhile may be read away where it reads (Xbox One, Switch), and a flush may end with some
left, because a read failed for another reason than that nothing came. `Receives(n)`
is one `ReadInput`: the drain takes n packets, the driver parses the last one,
`UpdateInput` shows it. What a packet says is a set of raw inputs; an axis counts as one raw
input per direction, and so calibration, normalisation and dead zones are left out. `ParseBinding` goes
through the items as `parseBinding` does (two pins at most, the last axis, items that are neither; `TooLarge` are the numbers that are no pin), `Map`
through the combinations in the order of their slots; `MeansRaw` and `Meant` say what bindings and
combinations mean without going through anything. The two agree only if no combination simulates one of its own
keys or one of a later combination (`NoKeySimulated`): with one that does, the code shows a button that
nobody meant, and `MCDrivers` assumes that there is none, as in the repository's `config.ini`. The Xbox button of an Xbox One controller comes in packets of its own that it repeats until they
are acknowledged; `AckFails` is a `Write` that fails, whether or not the device got it. The
adapter's packet carries all ports: `ParsesWii` handles the first, `ServesNextPort` the others out of `m_buffer`.

### ConfigLoad

The file is a sequence of lines that are already classified the way the parser would classify
them (header, pair, indented, neither, blank or comment, too long), and a rest without
newline, which `IniReaderLineByLineCallback` does not deliver. An action is one turn of the loop in `ini_parse_stream`
(`Skips`, `EntersSection`, `TakesPair`, `Continues`, `Misreads`), with the handler's effect in it,
or the end of a pass: `PassEnds` goes from [default] to [vid-pid], appends a section if there
is none, reads it, reads its profile and then [vid-pid] again. `OpenFails` may end any of the five.
`ReadFails` is a read that fails before the end of the file, in any of the six passes: the callback returns
`nullptr` as it does at the end, so that the pass ends without an error and without the lines that
are left. In the pass over [global], whose result `main()` ignores, a failure at the first line is also the case of
a file that cannot be opened: both leave the defaults. `cut` is the history of such passes, by load.
A `discovery_vidpid` value is a comma list: `Tokens` is what `strtok_r` finds in it, none, one or several
controllers, and `Globally` appends them all; `Items` names the values with a comma and their parts.
An indented line is a pair; one that would be a header or nothing at all, were it not indented, is left out.
`Appends` writes the whole section; `AppendTears` leaves any prefix of its lines and any piece
of the next, with or without the load noticing, because `fail()` is asked before the text leaves the
stream's buffer. `Filters` and `Discovers` are `usb::Initialize` and `AddEvent`. `boot`, the lines at the start, is
history: appends come later, and what the filters should be is said of the file that was read. What the file *says* is
defined without the parser, from positions of lines only (`Says`, `Override`, `ValueOf`): that is the
reference against which loads are checked.

### MitmSlots

A handler has one or several inputs (`Owner`), of which its `GetInputCount()` covers some (`Counted`);
its one thread serves one of them at a time, and `pc[p]` is where it is with input `p` (or whoever destroys it).
`list` is `m_controller_list`, `held[p]` the handler's own pointer. `Exit` joins the thread (`ExitJoins`), detaches
the counted inputs one by one, and then the object goes with all its pointers (`ExitEnds`): a slot
that the manager still has for one of its inputs is nobody's from then on, which `lost` remembers. The manager's `AttachController` and
`DetachController` are one step each, being under `m_mutex_controller` as a whole; the
handler's `DetachController` is two (`Loses`, `Forgets`, and `ExitDetaches`, `ExitForgets`), because
the slot is free before the pointer is dropped. `UpdateLocks`, `Writes` once per memory and
`UpdateUnlocks` are `Update` under `m_mutex_sharedmemory`. `UpdateInput` does not look at the
result of its `AttachController`: with no slot left `UpdatesNull` goes through the null pointer,
and then every thread has stopped (`Crashed`). The server creates a memory with a copy of the
console's (`ServerCreates`) and adds it later (`ServerAdds`). Which pad wrote a state is a history
component (`by`) that the code does not have; `None` is what the console left there. The ring of
samples is reduced to its newest entry. The thread that mirrors the touch screen writes
nothing of this state and has a module of its own; left out are garbage collection and reuse of memories, which
are compiled out (`MITM_CONFIG_GC_ENABLED`, `MITM_CONFIG_REUSE_SHARED_MEMORY`).

### TouchMirror

A ring is its cells and its tail, a sample is its number. `Looks`, `Copies` and `Pushes` are the turns
of `OnRun`'s loop, split where `hid` may write another sample; `Creates` and `Adds` are the server,
`Publish` is `hid`. `prevTail` is compared with the tail of the real ring and assigned the tail of the fake one,
as in the code. `newest`, `lag` and `visited` are history. `visited` bounds `hid`: between two samples of a ring (5 ms
on the console, as the comment at `POLLING_FREQUENCY_US` says) the thread, which polls every 2 ms, has looked at it. Without that
bound the thread could fall a whole ring behind, find equal tails and skip. The copy of a memory at its creation is one step.

## 3. Runs

| Run | Instance | Shows |
|---|---|---|
| `usb_safety` | 3 generic interfaces, 3 handlers, limit 2, room for 1 interface in the acquired list | types, limit, no unplug and no plug overlooked |
| `usb_groups` | one driver that takes all and one generic, limit 2, release not signalled, room for 1 interface in the acquired list | groups disjoint, input threads safe, nothing left at the end, refinement of the registry (groups of several interfaces; the limit is `HandlerLimit` of `usb_safety`) |
| `usb_liveness` | 1 interface, 1 handler, fair threads | plugs and unplugs handled, sleep acknowledged, shutdown completes, unless deadlocked |
| `pad_wireless` | 2 pads, 2 packets per endpoint | no ghost pad, handles match devices, nothing shown after destruction, a dropped pad stays dropped; with a fair thread every endpoint has its turn and the destruction completes |
| `usb_transfer` | 2 endpoints, 3 transfers each | one transfer per endpoint, no report lost, every wait can end, a report overtaken at most once by the other endpoint, refinement of the sweep |
| `drivers` | 7 drivers, 3 ports, 4 raw inputs, 2 combinations, 5 packets | an acknowledged key is taken; the latest report is what is shown, through bindings and combinations, on every port |
| `config_load` | 33 files with 3 ends, 2 controllers, 3 plugs, 1 torn append, 1 read that fails | a successful load leaves what the file says, unless one of its own reads failed; a controller is appended once, and again only behind a torn append or a search cut short; the first controllers listed are watched |
| `mitm_slots` | a Puck with 2 pads of which 1 is counted, a wired controller, 2 slots, 2 clients, 2 reports | players distinct, a counted input's slot given back, refused only when connected pads and lost slots outnumber the slots, clients agree, the list of memories stands still during an update |
| `touch_mirror` | 2 clients, ring of 4 cells, 6 samples | a sample is skipped only if the game has it, time does not run back, and with a fair thread the newest sample arrives |

The other runs end in a counterexample and are the project's findings:

| Run | What the code does |
|---|---|
| `usb_deadlock` | A plug and an unplug (or sleep, or shutdown) together: the event thread holds usbLock and waits for controllerMutex, the remover holds controllerMutex and waits for usbLock (or for an input thread that waits for usbLock). |
| `usb_stale_list` | A controller inserted between the query of the acquired interfaces and the removal is destroyed although it is plugged. (The destruction makes its interfaces available, and it is normally found again.) The same happens with more than eight acquired interfaces, which `usb_safety` and `usb_groups` contain. |
| `pad_uncounted` | The Steam Puck's `GetInputCount()` is 1, because its constructor counts the interfaces before they are opened. The pads behind the first are attached but never detached. |

Seven more definitions state what a reader of the code or its documents might expect, and are refuted
by TLC. They have no run, since each follows from a choice the code makes openly, from a cause that a run shows elsewhere, or from a failing read. To see one, take the cfg
named here, put the definition in place of the properties, and remove SYMMETRY for a liveness property:

| Definition | cfg | What TLC shows |
|---|---|---|
| `UsbLifecycle!ShutdownAcknowledged` | `MCUsbLiveness.cfg` | The flag that lets `main()` close the power module is cleared before the request is acknowledged on it. |
| `UsbLifecycle!OneDevicePerHandler` | `MCUsbGroups.cfg` | Two controllers of one class plugged at once become one device with the interfaces of both. |
| `PadHandler!DrainKeepsConnection` | `PadWireless.cfg` | A connect packet that is followed by a report within one drain is overwritten: the pad stays invisible until it reconnects. |
| `MitmSlots!NoGhostPlayer` | `MCMitmSlots.cfg` | A pad that disconnects frees its slot, but its player stays connected in every client's memory. |
| `MitmSlots!AllSlotsFree` | `MCMitmSlots.cfg` | What `pad_uncounted` shows, in the Atmosphere build: a Puck's pads behind the first keep their slots in the manager when the Puck is unplugged, or the console sleeps, until no pad finds one and the null pointer of `AttachController` is used. |
| `ConfigLoad!OnlyUnknownAreAdded` | `MCConfigLoad.cfg` | A read that fails looks like the end of the file: a section that the file has is not found and is appended again, with defaults that override the user's settings. |
| `ConfigLoad!CombosOverride` | `MCConfigLoad.cfg`, with `MaxCombos = 2` | A combination in [default] or in the profile keeps its slot, and that of [vid-pid] comes behind it instead of replacing it. |

Bounds and why they are enough. Three interfaces with a limit of two give two entries in the vector at
once, an erase that shifts the rest, a limit that is reached, and a
device found while another is being closed; the properties relate at most two entries. A list of acquired
interfaces with room for one is the least that can be too short.
Threads are modelled one to one, so nothing is bounded there. `PadHandler` with two pads has a
busy and an idle endpoint and a wrap of the index; two packets per endpoint are the least with
which a drain drops one. `PadUncounted` has three endpoints, two pads and one that is counted: a counted pad, one that is not, and the dongle. Endpoints beyond that add repetitions of the same step. `usb:hs`
events are flags, not counters, as in the code. `MitmSlots` needs more pads than slots, so that one is
refused, a handler with an input that is not counted beside one that is, so that a slot is lost, two slots, so that players can be mixed up, and two clients, so that they can disagree.
`UsbTransfer` with two endpoints has one that is served while the other's transfer stays armed; three transfers are one
returned, one drained and one armed. `Drivers` has more than two ports, so that the index goes through the middle
one, a binding with more pins than are read, with an item that is no pin and with an item that is
nothing, two combinations that share a key, and five packets: two initialisation packets
can be answered and a key, its repetition and a newer one still be sent. `MCConfigLoad`'s files
have two of the sections that a load looks at, in either order or the controller's own twice, with one line
that overrides, misleads or breaks and an indented line behind it, or a [global] section with up to four
controllers listed over lines, in one comma list or both, with empty items, a comment or a setting without a name between; each of
these, and a few files with next to nothing in them, 33 in all, with three ends. Three plugs with one torn append are the least in which a
load meets what another one left half written, and a further one what that one made of it. One failing read is enough: of what a pass
has missed only a section that it made the load append outlives that load. `TouchMirror`'s ring of four
cells is overwritten once by six samples.

`CHECK_DEADLOCK FALSE` is set in the `UsbLifecycle` runs, where the system may really stop
(`usb_deadlock`, and the end of `main()`), and in those of `MitmSlots`, where the process may crash. The other modules have an explicit
final or idle step (`Destroyed`, `Closed`, `Stopped`, `Unplugged`, `Quiet`) and are checked
for deadlock.

Fairness. Each thread of `UsbLifecycle` is strongly fair: Horizon hands a contended mutex to a
waiting thread when it is unlocked (`svcArbitrateUnlock`), so one that waits for a lock which is
released again and again gets it. This assumes that threads of higher priority block often enough,
which they do (every loop waits). Nothing is assumed of the user, of `psc:pm` or of devices that are
plugged. A pending read of an input thread ends (the device answers, the timeout expires or
the wait is cancelled): that is part of `Input`'s fairness. In `PadHandler` the thread and the rest of an
`Exit` that has begun are weakly fair; nobody has to begin one. The touch thread is weakly fair: it
shares its core with the input threads only, which wait for reports most of the time, and takes no
lock that is held for long. `PlugHandled` is checked with one
interface only: with two, a user who keeps replugging one of them keeps the event thread busy.

The liveness properties all allow `CircularWait` as an excuse: the deadlock is reported by its own
run, and the others say what holds without it.

## 4. Proofs

The first two modules from `ConstantsOK` of `UsbLifecycle` (`MaxHandlers` is a natural number, handlers, threads and `None` are
distinct, `Class` and `TakesAll` have their types), for any set of interfaces and handlers; the others from
the assumption that their module states about its own constants. Every safety property of the passing
runs is a theorem.

* `UsbLifecycle_proofs`: the inductive invariant `Inv` = `TypeOK` /\ `PcOK` (which thread can be
  where) /\ `LocksOK` (who holds which lock at which place) /\ `WalkOK` (the iterator of whoever
  is inside the vector points into it) /\ `InsertOK` (between the check of the limit and the push the vector
  is below the limit, because only the event thread pushes) /\ `HandlerLimit`. One lemma per
  thread; the walk over the vector has its own, used by the three threads that walk. Theorems
  `TypeCorrect` and `LimitRespected`. The limit alone is not inductive: it is read
  under a mutex that is released long before the push.
  `NoPlugIsLost` proves that an available interface is always signalled, polled for or
  about to be queried: the event is consumed only on the way to a query, and polling is given up
  only by a query, under usbLock, that finds nothing.
  For the devices it adds `DeviceInv`: who has a session on which interface (`SessionsOK`: only the
  entry being closed has lost some, and then the event thread cannot be past the limit check,
  because it would have had to take controllerMutex), what a freshly built handler owns
  (`FreshOK`), and that an input thread is gone before its device is closed (`InputOK`). Theorems
  `NoDuplicates` and `InputThreadsAreSafe`.
  `RegistryImplemented` is the refinement. Push is `Serve` of a free group
  within the limit, erase is `Release`, every other step a stutter.
* `UsbUnplug_proofs`: `NoUnplugIsLost`, from `UnplugInv` = `StoppedOK` (the handler being destroyed has been told to stop) /\
  `EntriesSeen` (a running entry that is gone is announced: `changed`
  is signalled, or the change thread is between its wait and its query, or the list that it fetched
  does not have it and its walk has not passed it) /\ `FreshSeen` (nothing that is gone is pushed behind the
  thread's back: the same of the handler that waits to be pushed, where the list cannot have been fetched yet because the
  event thread holds usbLock). The delicate place is between `eventClear` and the query: the clear comes first, and so a change after it is
  either in the list or signalled again. `NothingLeft`, from `ShutdownOrder` (once `main()` has
  passed an `Exit`, the thread that it joins has ended) and `OwnersOK` (an interface is held by an entry or by the handler that
  the event thread is building): behind the last `Clear` there is nobody left who could insert.
* `PadHandler_proofs`, for any number of endpoints and any length of queue: `Inv` = `TypeOK` /\
  `DeviceOK` (what is shown is connected and has a handle; a pad that asks to be attached is not
  shown and was not dropped) /\ `HandleOK` (the converse for the inputs below `GetInputCount()`) /\
  `ConnectionOK` (a pad that is off is disconnected and is not about to be attached, or its
  disconnect packet is the *last* in its queue: this is why the drain, which keeps the last
  packet, never loses a disconnect, though it may lose a connect) /\ `EndOK`.
  `FollowKeeps` is the lemma about the comparison of connections that every read ends in.
  Theorems `TypeCorrect`, `OffMeansGone`, `OnlyTheUserReattaches`; and `HandlesAgree`,
  `NoneLeftBehind` under the assumption `InputCount = Endpoints`, which `pad_uncounted` shows to
  be necessary.
* `MitmSlots_proofs`, from `MitmConstantsOK` (finitely many pads, `None` is none of the other
  values), for any number of handlers, pads, slots and clients: `Inv` = `TypeOK` /\ `SlotsOK` (slot and
  pointer agree, except between the two halves of a detach) /\ `ReattachOK` (a connected pad
  without a slot asks for one with its next report) /\ `LockOK` (whoever writes holds
  m_mutex_sharedmemory, a slot and a report) /\ `PendingOK` (a memory that is not added yet is
  not in the list and was written by no pad) /\ `AgreeOK` (the clients agree on every player but the
  one being written; there, those that the iterator has passed have the new state).
  Theorems `TypeCorrect`, `SlotsAreReturned`, `PlayersAreDistinct`,
  `ClientsSeeTheSame`, `ListIsStable`, and `RefusalsAreJustified`, a pigeonhole argument: with
  no slot free, each is lost or has an owner that is a connected pad, and the refused one is one more. `SlotsAreReturned`
  says that only the inputs that `GetInputCount()` does not count lose a slot; that these do is what `AllSlotsFree` is refuted by. `ListIsStable`
  says that no memory is added under the iterator of an `Update`. The run of `MitmSlots` checks no type
  invariant; the theorem does.
* `UsbTransfer_proofs`, from `TransferConstantsOK`, for any number of endpoints and transfers: `Inv` = `TypeOK` /\
  `OneTransfer` /\ `WaitCanEnd` /\ `NothingLost` /\ `IdsOK` (an id that the code keeps is that of the last
  transfer posted; what is armed is not answered, what waits to be fetched is not armed) /\ `EventOK` (a
  signalled event belongs to the transfer that the code waits for, and as long as no fetch has
  failed its report is the only one) /\ `BufferOK` (the buffer holds the data that a
  matching report speaks of) /\ `OrderOK` (returned is older than being read, which is older than armed). The four
  properties are not inductive without the others: that nothing is lost when an id is taken
  needs the report to be there and to be the right one. One lemma per kind of outcome: `AnswerInv`, `PostsInv`,
  `DropsInv`, `SucceedsInv`, `QuietInv`. Theorems
  `TypeCorrect`, `OneTransferArmed`, `NoWaitIsLost`, `NoReportIsLost`, `ReportsInOrder`.
  `EndpointsTakeTurns` bounds what liveness only promises: a report is overtaken by fewer others than there are
  endpoints. Its invariant `TurnsOK` counts: whatever overtakes moves the turn nearer (`Distance`), and an endpoint that was
  overtaken once is not passed over again, because its report was there before the sweep began
  (`DrainIsComplete`: a read that fails has left nothing). `SweepImplemented` is the refinement: a read that fails is
  `Serves`, `PassesOver`, `Blocks` or `GivesUp`, an answer with data is `Arrives`, everything else a stutter.
  It contains `ReportsInOrder`, which therefore has no run of its own; nor has this module's `TypeOK`.
* `TouchMirror_proofs`, from `TouchConstantsOK` (a ring has at least three cells), for any games and any number of samples: `Inv` =
  `TypeOK` /\ `TailOK` (the tails differ by the lag, modulo the ring) /\ `LagOK` (the lag stays
  below the ring's size: a full ring is looked at between two samples, and each look catches up with one, while a ring that
  is not full has not lost more samples than it has) /\ `CopyOK` (what is copied is the newest
  sample or the one before) /\ `ShownOK` (with no lag, both rings end in the same sample). Equal tails then
  mean lag 0, which is why comparing the indices of two different rings works. Theorems `TypeCorrect`,
  `NothingNewIsSkipped`, `ScreenNeverGoesBack`.

* `Drivers_proofs`, from `DriverConstantsOK`, for any bindings, combinations, ports and packets:
  `TypeCorrect`, with `PluggedIn` (an Xbox One controller has no unplugged port).
  `BoundIsMeant` and `MapIsMeant` relate the loops to what they should compute: `Means` and `LoopUpTo` say
  it of a prefix, and `SetInduction` (well-foundedness of the naturals, as a statement about sets) carries it to the end.
  `AckedKeysAreTaken`, from `AckInv`: the keys under way are in the order of their numbers (`KeysInOrder`), the
  last one tells what the device holds (`LastKeyTold`), and once the device has its acknowledgement no older key is under way
  (`AckedIsLast`) and the driver holds what the device holds (`Taken`). `TheLatestIsShown`, from `LatestInv`: an input report that is the newest packet tells the device's
  state (`NewestTold`), stands last in the queue as long as that holds any (`NewestQueued`) and is forgotten with it
  by an initialisation that reads it away (`NewestDropped`), and while the adapter's ports are served one by one,
  those before `index` show what `m_buffer` holds (`PortsServed`); once the queue is empty, that is the newest packet (`NewestShown`). Its hypothesis is `NoKeySimulated`.
* `ConfigLoad_proofs`, from `ConfigConstantsOK`, for any file, any controllers and any number of loads,
  torn appends and failing reads. `OwnText` assumes that the twelve literals of the code are strings, which is so but is
  not known to the provers. `ReadInv` says what the parser knows at a line in terms of the lines above it:
  `section` is that of the last header, `prev` the name of the setting that an indented line
  would add to. `ParserHandles` concludes that the handlers get what `Says` and `Value` say of the line and nothing else;
  `PassInv` that a pass which found nothing has a section without settings before it.
  A pass that a failing read has cut stands behind the last line and knows nothing about the file;
  the invariants say so for each history of `cut`.
  `SectionsAreAppendedOnce`, from `KeptInv`: a section is appended at most once more than it was torn or its search cut
  *if the file has it with a setting in it*, and not even once more if it has not; the second half is needed because the load
  that appends has just found nothing. `KeysAreLoadedRight`, from `ValueInv`: as long as no read of the load has failed, at line n of a pass every key has the value that the lines above
  n give it over the value at the start of the pass (`Given`); `OverrideTwice` is why [vid-pid] may be read
  before and after its profile. `TheFirstListedAreWatched`, from `ListedInv` (the place of a listed controller
  is the number of those listed up to it, on the lines above and before it in its comma list), assumes three events, as `MaxUsbEvents` has.

Only model-checked: the liveness properties (`UnplugHandled`, `PlugHandled`, `ShutdownCompletes`, `SleepAcknowledged`,
`EveryEndpointHasItsTurn`, `ExitCompletes`, `Mirrored`), since fairness and ENABLED are out of this prover's reach.

## 5. Not modelled, and the plan

Left out for good: control transfers, rumble and LEDs (pure I/O), the values of axes (normalisation,
dead zones, the Switch calibration: arithmetic on data that no interleaving touches), the HID report parser
(a library of its own, `tools/HID_Parser`, whose result `Drivers` takes as which joystick a report names), colours, controller types and the parsing of numbers in the
configuration, the logger (one mutex around one buffer), the applet companion, the libstratosphere server and with it
the Atmosphere build's entry point, whose shutdown waits for a server loop that nobody in this
repository tells to stop. The npads' rings are reduced to their newest state, since how a game
reads them is not in this repository.

Done in this order: 1 `ControllerRegistry`, 2 `UsbLifecycle` with its instances, 3 the invariants and
the refinement proved, 4 `PadHandler` and its safety properties proved, 5 `MitmSlots` and its safety
properties proved, 6 `UsbTransfer` and `TouchMirror`, proved, 7 `ConfigLoad` and `Drivers`, 8 the Steam driver in `PadHandler`,
9 `UsbUnplug_proofs`, `Drivers_proofs` and `ConfigLoad_proofs`, 10 `EndpointSweep` and its refinement, proved.

Next:

1. The failures of `usb:hs` queries, and a failed `Initialize` in `UsbLifecycle`.
2. Indented headers in `ConfigLoad`.

---------------------------- MODULE UsbLifecycle ----------------------------
(***************************************************************************)
(* The life of a USB controller in sys-con: plugged, found, initialised,   *)
(* served by an input thread, unplugged (or put to sleep), destroyed.      *)
(*                                                                         *)
(* Four threads share the vector of handlers:                              *)
(*   "event"   UsbEventThreadFunc            finds and inserts controllers *)
(*   "change"  UsbInterfaceChangeThreadFunc  removes unplugged ones        *)
(*   "psc"     PscThreadFunc                 clears all on sleep/shutdown  *)
(*   "main"    main()                        stops everything at shutdown  *)
(* and every handler has an input thread of its own.  Two locks: usbLock   *)
(* (SwitchUSBLock, a recursive mutex) around the USB stack, and mutex      *)
(* (controllerMutex) around the vector.  usb:hs is external: bus, session, *)
(* avail and changed are what it remembers and signals.                    *)
(***************************************************************************)
EXTENDS Integers, Sequences, FiniteSets, SequencesExt

CONSTANTS
  Iface,          \* interface IDs of usb:hs
  Handler,        \* addresses at which a handler object can be built
  MaxHandlers,    \* MaxControllerHandlersSize
  MaxListed,      \* MaxUsbHsInterfacesSize, as the limit of the acquired interfaces' list
  Class,          \* Class[i]: place of i's class in the order of the queries
  TakesAll,       \* interfaces whose driver takes every interface found (not generic)
  Broken,         \* interfaces whose driver never initialises (keyboards, ...)
  Pad,            \* Pad[i]: the physical device that i belongs to
  ReleaseSignals, \* does usb:hs signal "available" for an interface that is released?
  None

Thread == {"event", "change", "psc", "main"}
\* The threads that empty the vector, wholly or in part.
Remover == {"change", "psc", "main"}

ASSUME ConstantsOK ==
  /\ Class \in [Iface -> Nat]
  /\ TakesAll \subseteq Iface
  /\ Broken \subseteq Iface
  /\ MaxHandlers \in Nat /\ MaxListed \in Nat
  /\ ReleaseSignals \in BOOLEAN
  /\ Handler \cap Thread = {}
  /\ None \notin Handler \cup Thread

VARIABLES
  bus,       \* usb:hs: "absent", "available" (nobody holds it) or "acquired"
  session,   \* session[i]: the handler whose UsbHsClientIfSession for i is open
  avail,     \* interface-available event (auto-clear)
  changed,   \* interface-state-change event (cleared by eventClear)
  request,   \* power request that psc:pm waits to see acknowledged
  usbLock,   \* who holds the recursive usbMutex
  mutex,     \* who holds controllerMutex
  handlers,  \* controllerHandlers
  it,        \* the iterator of whoever walks the vector (holds mutex)
  group,     \* group[h]: interfaces of handler object h, {} where there is none
  running,   \* m_ThreadIsRunning
  input,     \* the input thread: "none", "idle", "reading", "check"
  pc,        \* where each thread is
  run,       \* is_..._thread_running
  cancel,    \* a svcCancelSynchronization that the thread has not met yet
  poll,      \* timeoutNs: TRUE for 1 ms, FALSE for UINT64_MAX
  picked,    \* interfaces given to the SwitchUSBDevice under construction
  fresh,     \* the handler object Insert is working on
  snapshot   \* interfaceIDsPlugged

usb    == <<bus, session, avail, changed>>
locks  == <<usbLock, mutex>>
list   == <<handlers, it>>
object == <<group, running, input>>
finder == <<poll, picked, fresh>>
flow   == <<pc, run, cancel>>
vars == <<usb, request, locks, list, object, flow, finder, snapshot>>

At(t, where)   == pc[t] = where
Goto(t, where) == pc' = [pc EXCEPT ![t] = where]
UsbFree        == usbLock = None
MutexFree      == mutex = None
Listed         == {handlers[k] : k \in DOMAIN handlers}

\* psc::Initialize starts the power thread, or fails, which main() ignores; the others run.
Starts(pscStarted) ==
  /\ pc = [t \in Thread |-> CASE t = "main" -> "poll"
                              [] t = "psc" /\ ~pscStarted -> "done"
                              [] OTHER -> "wait"]
  /\ run = [t \in Thread |-> t # "psc" \/ pscStarted]

Init ==
  /\ bus \in [Iface -> {"absent", "available"}]
  /\ session = [i \in Iface |-> None]
  /\ avail = FALSE /\ changed = FALSE
  /\ request = "none"
  /\ usbLock = None /\ mutex = None
  /\ handlers = <<>> /\ it = 1
  /\ group = [h \in Handler |-> {}]
  /\ running = [h \in Handler |-> FALSE]
  /\ input = [h \in Handler |-> "none"]
  /\ \E pscStarted \in BOOLEAN : Starts(pscStarted)
  /\ cancel = [t \in Thread |-> FALSE]
  /\ poll = TRUE /\ picked = {} /\ fresh = None
  /\ snapshot = {}

-----------------------------------------------------------------------------
(* The outside: usb:hs and the user, psc:pm.                               *)

\* An interface appears.  Its ID is not reused while a session names it.
Plug(i) ==
  /\ bus[i] = "absent" /\ session[i] = None
  /\ bus' = [bus EXCEPT ![i] = "available"]
  /\ avail' = TRUE
  /\ UNCHANGED <<session, changed, request, locks, list, object, flow, finder, snapshot>>

\* An interface disappears; usb:hs signals it to the client that acquired it.
Unplug(i) ==
  /\ bus[i] # "absent"
  /\ bus' = [bus EXCEPT ![i] = "absent"]
  /\ changed' = (changed \/ bus[i] = "acquired")
  /\ UNCHANGED <<session, avail, request, locks, list, object, flow, finder, snapshot>>

\* The console goes to sleep or shuts down (wake-ups change nothing in sys-con).
PowerRequest(r) ==
  /\ request = "none"
  /\ pc["psc"] # "done" /\ run["psc"]
  /\ request' = r
  /\ UNCHANGED <<usb, locks, list, object, flow, finder, snapshot>>

-----------------------------------------------------------------------------
(* UsbEventThreadFunc.                                                     *)

\* waitObjects returns: an event (consumed, it is auto-clear) or the 1 ms timeout.
EventWake ==
  /\ At("event", "wait")
  /\ avail \/ poll
  /\ avail' = FALSE
  /\ Goto("event", "query")
  /\ UNCHANGED <<bus, session, changed, request, locks, list, object, run, cancel, finder, snapshot>>

\* waitObjects is cancelled: neither success nor TimedOut, the body is skipped.
EventCancelled ==
  /\ At("event", "wait")
  /\ cancel["event"]
  /\ cancel' = [cancel EXCEPT !["event"] = FALSE]
  /\ Goto("event", "check")
  /\ UNCHANGED <<usb, request, locks, list, object, run, finder, snapshot>>

Available == {i \in Iface : bus[i] = "available"}

\* What one round of the five queries may hand to a driver: the interfaces of
\* the first class that has any, or just the first of them if it is generic.
Offers ==
  LET found == {i \in Available : \A j \in Available : Class[i] <= Class[j]}
  IN  {IF first \in TakesAll THEN found ELSE {first} : first \in found}

\* Takes and releases usbLock; from now on the thread waits without a timeout.
EventFindsNothing ==
  /\ At("event", "query") /\ UsbFree
  /\ Available = {}
  /\ poll' = FALSE
  /\ Goto("event", "check")
  /\ UNCHANGED <<usb, request, locks, list, object, run, cancel, picked, fresh, snapshot>>

EventFindsKeepsTimeout ==                                         \* mutant
  /\ At("event", "query") /\ UsbFree
  /\ picked' \in Offers
  /\ usbLock' = "event"
  /\ Goto("event", "limit")
  /\ UNCHANGED <<usb, request, mutex, list, object, run, cancel, poll, fresh, snapshot>>

\* Takes usbLock and keeps it to the end of the iteration.
EventFinds ==
  /\ At("event", "query") /\ UsbFree
  /\ picked' \in Offers
  /\ usbLock' = "event"
  /\ poll' = TRUE
  /\ Goto("event", "limit")
  /\ UNCHANGED <<usb, request, mutex, list, object, run, cancel, fresh, snapshot>>

IsAtControllerLimitOffByOne == Len(handlers) > MaxHandlers        \* mutant
IsAtControllerLimit == Len(handlers) >= MaxHandlers

\* controllerMutex is taken while usbLock is held.
EventLimit ==
  /\ At("event", "limit") /\ MutexFree
  /\ IF IsAtControllerLimit
     THEN usbLock' = None /\ picked' = {} /\ Goto("event", "check")
     ELSE Goto("event", "init") /\ UNCHANGED <<usbLock, picked>>
  /\ UNCHANGED <<usb, request, mutex, list, object, run, cancel, poll, fresh, snapshot>>

Opens(g) == \A i \in g : bus[i] = "available" /\ i \notin Broken

AcquireForgotten(h) == UNCHANGED <<bus, session>>                 \* mutant
\* SwitchUSBInterface::Open for each interface of the handler's device.
Acquire(h) ==
  /\ bus' = [i \in Iface |-> IF i \in picked THEN "acquired" ELSE bus[i]]
  /\ session' = [i \in Iface |-> IF i \in picked THEN h ELSE session[i]]

\* InitThread, whose result Initialize returns (threads are taken to be created).
StartsInput(h) ==
  /\ running' = [running EXCEPT ![h] = TRUE]
  /\ input' = [input EXCEPT ![h] = "idle"]

\* The handler is built and initialised: interfaces open, input thread started.
EventInit(h) ==
  /\ At("event", "init")
  /\ group[h] = {}
  /\ Opens(picked)
  /\ Acquire(h)
  /\ fresh' = h
  /\ group' = [group EXCEPT ![h] = picked]
  /\ StartsInput(h)
  /\ Goto("event", "push")
  /\ UNCHANGED <<avail, changed, request, locks, list, run, cancel, poll, picked, snapshot>>

\* Initialize fails: the handler is destroyed again, all of it under usbLock.
EventInitFails ==
  /\ At("event", "init")
  /\ ~Opens(picked)
  /\ picked' = {}
  /\ usbLock' = None
  /\ Goto("event", "check")
  /\ UNCHANGED <<usb, request, mutex, list, object, run, cancel, poll, fresh, snapshot>>

EventPushesNull ==                                                \* mutant
  /\ At("event", "push") /\ MutexFree
  /\ handlers' = Append(handlers, None)
  /\ fresh' = None /\ picked' = {}
  /\ usbLock' = None
  /\ Goto("event", "check")
  /\ UNCHANGED <<usb, request, mutex, it, object, run, cancel, poll, snapshot>>

\* push_back under controllerMutex; the iteration ends and releases usbLock.
EventPush ==
  /\ At("event", "push") /\ MutexFree
  /\ handlers' = Append(handlers, fresh)
  /\ fresh' = None /\ picked' = {}
  /\ usbLock' = None
  /\ Goto("event", "check")
  /\ UNCHANGED <<usb, request, mutex, it, object, run, cancel, poll, snapshot>>

LoopAgainClears(t) ==                                             \* mutant
  /\ At(t, "check")
  /\ avail' = (avail /\ t # "event")
  /\ changed' = (changed /\ t # "change")
  /\ Goto(t, IF run[t] THEN "wait" ELSE "done")
  /\ UNCHANGED <<bus, session, request, locks, list, object, run, cancel, finder, snapshot>>

\* The "while (is_..._thread_running)" of the three service threads.
LoopAgain(t) ==
  /\ At(t, "check")
  /\ Goto(t, IF run[t] THEN "wait" ELSE "done")
  /\ UNCHANGED <<usb, request, locks, list, object, run, cancel, finder, snapshot>>

-----------------------------------------------------------------------------
(* UsbInterfaceChangeThreadFunc, up to the call of RemoveAllNonPlugged.    *)

ChangeWake ==
  /\ At("change", "wait")
  /\ changed
  /\ Goto("change", "clear")
  /\ UNCHANGED <<usb, request, locks, list, object, run, cancel, finder, snapshot>>

ChangeCancelled ==
  /\ At("change", "wait")
  /\ cancel["change"]
  /\ cancel' = [cancel EXCEPT !["change"] = FALSE]
  /\ Goto("change", "check")
  /\ UNCHANGED <<usb, request, locks, list, object, run, finder, snapshot>>

ChangeClear ==
  /\ At("change", "clear")
  /\ changed' = FALSE
  /\ Goto("change", "query")
  /\ UNCHANGED <<bus, session, avail, request, locks, list, object, run, cancel, finder, snapshot>>

Acquired == {i \in Iface : bus[i] = "acquired"}

\* What fits into the list: any of the acquired interfaces, if there are too many.
Listings ==
  IF Cardinality(Acquired) <= MaxListed
  THEN {Acquired}
  ELSE {s \in SUBSET Acquired : Cardinality(s) = MaxListed}

\* QueryAcquiredInterfaces takes usbLock and releases it before the removal.
ChangeQuery ==
  /\ At("change", "query") /\ UsbFree
  /\ snapshot' \in Listings
  /\ Goto("change", "lock")
  /\ UNCHANGED <<usb, request, locks, list, object, run, cancel, finder>>

-----------------------------------------------------------------------------
(* RemoveAllNonPlugged (change) and Clear (psc, main): a walk over the     *)
(* vector under controllerMutex that destroys handlers one by one.         *)

Victim(t, h) == t = "change" => group[h] \cap snapshot = {}

RemoverLocks(t) ==
  /\ At(t, "lock") /\ MutexFree
  /\ mutex' = t
  /\ it' = 1
  /\ Goto(t, "scan")
  /\ UNCHANGED <<usb, request, usbLock, handlers, object, run, cancel, finder, snapshot>>

RemoverSpares(t) ==
  /\ At(t, "scan")
  /\ it <= Len(handlers)
  /\ ~Victim(t, handlers[it])
  /\ it' = it + 1
  /\ UNCHANGED <<usb, request, locks, handlers, object, flow, finder, snapshot>>

\* ExitThread: tell the input thread to stop and cancel its wait ...
RemoverStops(t) ==
  /\ At(t, "scan")
  /\ it <= Len(handlers)
  /\ Victim(t, handlers[it])
  /\ running' = [running EXCEPT ![handlers[it]] = FALSE]
  /\ Goto(t, "join")
  /\ UNCHANGED <<usb, request, locks, list, group, input, run, cancel, finder, snapshot>>

RemoverJoinsNothing(t) ==                                         \* mutant
  /\ At(t, "join")
  /\ Goto(t, "close")
  /\ UNCHANGED <<usb, request, locks, list, object, run, cancel, finder, snapshot>>

\* ... and wait for it.
RemoverJoins(t) ==
  /\ At(t, "join")
  /\ input[handlers[it]] = "none"
  /\ Goto(t, "close")
  /\ UNCHANGED <<usb, request, locks, list, object, run, cancel, finder, snapshot>>

\* m_controller->Exit() closes the device: each interface under its own usbLock.
RemoverCloses(t) ==
  /\ At(t, "close") /\ UsbFree
  /\ \E i \in Iface :
       /\ session[i] = handlers[it]
       /\ session' = [session EXCEPT ![i] = None]
       /\ bus' = [bus EXCEPT ![i] = IF @ = "acquired" THEN "available" ELSE @]
       /\ avail' = (avail \/ (ReleaseSignals /\ bus[i] = "acquired"))
  /\ UNCHANGED <<changed, request, locks, list, object, flow, finder, snapshot>>

RemoverErasesAndSkips(t) ==                                       \* mutant
  /\ At(t, "close")
  /\ \A i \in Iface : session[i] # handlers[it]
  /\ group' = [group EXCEPT ![handlers[it]] = {}]
  /\ handlers' = RemoveAt(handlers, it)
  /\ it' = it + 1
  /\ Goto(t, "scan")
  /\ UNCHANGED <<usb, request, locks, running, input, run, cancel, finder, snapshot>>

\* The handler is gone; erase(it--) then it++ leave the index where it was.
RemoverErases(t) ==
  /\ At(t, "close")
  /\ \A i \in Iface : session[i] # handlers[it]
  /\ group' = [group EXCEPT ![handlers[it]] = {}]
  /\ handlers' = RemoveAt(handlers, it)
  /\ Goto(t, "scan")
  /\ UNCHANGED <<usb, request, locks, it, running, input, run, cancel, finder, snapshot>>

RemoverUnlocks(t) ==
  /\ At(t, "scan")
  /\ it > Len(handlers)
  /\ mutex' = None
  /\ it' = 1
  /\ snapshot' = IF t = "change" THEN {} ELSE snapshot
  /\ Goto(t, CASE t = "change" -> "check" [] t = "psc" -> "ack" [] t = "main" -> "again")
  /\ UNCHANGED <<usb, request, usbLock, handlers, object, run, cancel, finder>>

Removal(t) ==
  \/ RemoverLocks(t)  \/ RemoverSpares(t) \/ RemoverStops(t) \/ RemoverJoins(t)
  \/ RemoverCloses(t) \/ RemoverErases(t) \/ RemoverUnlocks(t)

-----------------------------------------------------------------------------
(* The input thread of a handler: OnRun, UpdateInput, a read of the device. *)

\* A read holds usbLock for as long as it waits for a report.
InputReads(h) ==
  /\ input[h] = "idle" /\ UsbFree
  /\ usbLock' = h
  /\ input' = [input EXCEPT ![h] = "reading"]
  /\ UNCHANGED <<usb, request, mutex, list, group, running, flow, finder, snapshot>>

InputGotReport(h) ==
  /\ input[h] = "reading"
  /\ usbLock' = None
  /\ input' = [input EXCEPT ![h] = "check"]
  /\ UNCHANGED <<usb, request, mutex, list, group, running, flow, finder, snapshot>>

InputLoops(h) ==
  /\ input[h] = "check"
  /\ input' = [input EXCEPT ![h] = IF running[h] THEN "idle" ELSE "none"]
  /\ UNCHANGED <<usb, request, locks, list, group, running, flow, finder, snapshot>>

Input(h) == InputReads(h) \/ InputGotReport(h) \/ InputLoops(h)

-----------------------------------------------------------------------------
(* PscThreadFunc.                                                          *)

PscRequest ==
  /\ At("psc", "wait")
  /\ request # "none"
  /\ run' = [run EXCEPT !["psc"] = @ /\ request # "shutdown"]
  /\ Goto("psc", "lock")
  /\ UNCHANGED <<usb, request, locks, list, object, cancel, finder, snapshot>>

\* psc::Exit has not finalised the module yet.
PmModuleOpen == At("main", "poll")

PscForgetsToAcknowledge ==                                        \* mutant
  /\ At("psc", "ack")
  /\ Goto("psc", "check")
  /\ UNCHANGED <<usb, request, locks, list, object, run, cancel, finder, snapshot>>

\* pscPmModuleAcknowledge: on a module that is closed it fails, unnoticed.
PscAcknowledge ==
  /\ At("psc", "ack")
  /\ request' = IF PmModuleOpen THEN "none" ELSE request
  /\ Goto("psc", "check")
  /\ UNCHANGED <<usb, locks, list, object, run, cancel, finder, snapshot>>

-----------------------------------------------------------------------------
(* main(), from the loop on psc::IsRunning to the end.                     *)

\* psc::Exit: the module is finalised and closed, then the thread is cancelled.
MainPscExit ==
  /\ At("main", "poll")
  /\ ~run["psc"]
  /\ cancel' = [cancel EXCEPT !["psc"] = TRUE]
  /\ Goto("main", "joinPsc")
  /\ UNCHANGED <<usb, request, locks, list, object, run, finder, snapshot>>

MainJoinsNobody(t, here, there) ==                                \* mutant
  /\ At("main", here)
  /\ Goto("main", there)
  /\ UNCHANGED <<usb, request, locks, list, object, run, cancel, finder, snapshot>>

MainJoins(t, here, there) ==
  /\ At("main", here)
  /\ At(t, "done")
  /\ Goto("main", there)
  /\ UNCHANGED <<usb, request, locks, list, object, run, cancel, finder, snapshot>>

MainStopsOnlyEvent ==                                             \* mutant
  /\ At("main", "stop")
  /\ run' = [run EXCEPT !["event"] = FALSE]
  /\ Goto("main", "cancelEvent")
  /\ UNCHANGED <<usb, request, locks, list, object, cancel, finder, snapshot>>

\* usb::Exit: both flags first ...
MainStops ==
  /\ At("main", "stop")
  /\ run' = [run EXCEPT !["event"] = FALSE, !["change"] = FALSE]
  /\ Goto("main", "cancelEvent")
  /\ UNCHANGED <<usb, request, locks, list, object, cancel, finder, snapshot>>

\* ... then each thread is woken and joined.
MainCancels(t, here, there) ==
  /\ At("main", here)
  /\ cancel' = [cancel EXCEPT ![t] = TRUE]
  /\ Goto("main", there)
  /\ UNCHANGED <<usb, request, locks, list, object, run, finder, snapshot>>

\* usbHsDestroyInterfaceAvailableEvent, under usbLock.
MainDestroysEvents ==
  /\ At("main", "destroy") /\ UsbFree
  /\ Goto("main", "lock")
  /\ UNCHANGED <<usb, request, locks, list, object, run, cancel, finder, snapshot>>

\* controllers::Exit clears once more.  Nothing is left to destroy (NothingLeftAtExit holds without
\* it), so that taking the mutex is all it does.
MainAgain ==
  /\ At("main", "again") /\ MutexFree
  /\ Goto("main", "done")
  /\ UNCHANGED <<usb, request, locks, list, object, run, cancel, finder, snapshot>>

-----------------------------------------------------------------------------
Event ==
  \/ EventWake \/ EventCancelled \/ EventFindsNothing \/ EventFinds \/ EventLimit
  \/ (\E h \in Handler : EventInit(h)) \/ EventInitFails \/ EventPush
  \/ LoopAgain("event")

Change ==
  \/ ChangeWake \/ ChangeCancelled \/ ChangeClear \/ ChangeQuery
  \/ Removal("change") \/ LoopAgain("change")

Psc == PscRequest \/ Removal("psc") \/ PscAcknowledge \/ LoopAgain("psc")

Main ==
  \/ MainPscExit
  \/ MainJoins("psc", "joinPsc", "stop")
  \/ MainStops
  \/ MainCancels("event", "cancelEvent", "joinEvent")
  \/ MainJoins("event", "joinEvent", "cancelChange")
  \/ MainCancels("change", "cancelChange", "joinChange")
  \/ MainJoins("change", "joinChange", "destroy")
  \/ MainDestroysEvents \/ Removal("main") \/ MainAgain

Outside ==
  \/ \E i \in Iface : Plug(i) \/ Unplug(i)
  \/ \E r \in {"sleep", "shutdown"} : PowerRequest(r)

Next == Event \/ Change \/ Psc \/ Main \/ Outside \/ \E h \in Handler : Input(h)

Spec == Init /\ [][Next]_vars

(* What the scheduler gives: a thread that can run does, and a thread that *)
(* waits for a lock gets it if the lock is released again and again.       *)
ThreadFairness ==
  /\ SF_vars(Event) /\ SF_vars(Change) /\ SF_vars(Psc) /\ SF_vars(Main)
  /\ \A h \in Handler : SF_vars(Input(h))

FairSpec == Spec /\ ThreadFairness

-----------------------------------------------------------------------------
(* Properties.                                                             *)

\* Every variable keeps its type.
TypeOK ==
  /\ bus \in [Iface -> {"absent", "available", "acquired"}]
  /\ session \in [Iface -> Handler \cup {None}]
  /\ avail \in BOOLEAN /\ changed \in BOOLEAN
  /\ request \in {"none", "sleep", "shutdown"}
  /\ usbLock \in {None, "event"} \cup Handler
  /\ mutex \in {None} \cup Remover
  /\ handlers \in Seq(Handler)
  /\ it \in Nat \ {0}
  /\ group \in [Handler -> SUBSET Iface]
  /\ running \in [Handler -> BOOLEAN]
  /\ input \in [Handler -> {"none", "idle", "reading", "check"}]
  /\ pc \in [Thread -> {"wait", "check", "done", "query", "limit", "init", "push", "clear",
                        "lock", "scan", "join", "close", "ack", "poll", "joinPsc", "stop",
                        "cancelEvent", "joinEvent", "cancelChange", "joinChange",
                        "destroy", "again"}]
  /\ run \in [Thread -> BOOLEAN]
  /\ cancel \in [Thread -> BOOLEAN]
  /\ poll \in BOOLEAN
  /\ picked \subseteq Iface
  /\ fresh \in Handler \cup {None}
  /\ snapshot \subseteq Iface

\* There are never more handlers than the limit, although the limit is read under
\* controllerMutex, the mutex is dropped, and the handler is pushed much later.
HandlerLimit == Len(handlers) <= MaxHandlers

\* No interface is served by two entries of the vector, and no entry stands there
\* twice, even while an entry is being closed and its interfaces are found again
\* (TestPlan TC7: "no duplicate entries").
NoDuplicateEntries ==
  \A k, l \in DOMAIN handlers :
    k # l => handlers[k] # handlers[l] /\ group[handlers[k]] \cap group[handlers[l]] = {}

\* An input thread never runs on a device that is closed or on a handler that is
\* destroyed: ExitThread joins it before anything is torn down.
InputThreadHasDevice ==
  \A h \in Handler :
    input[h] # "none" => group[h] # {} /\ \A i \in group[h] : session[i] = h

Gone(h) == \A i \in group[h] : bus[i] = "absent"

\* An unplugged controller is never overlooked: as long as its handler stands in the
\* vector and nobody destroys it, a state change is signalled, or the change thread is
\* about to look at the bus, or it holds a list without the controller and has not
\* passed its entry.
\* (eventClear before the query; insertion under the usbLock that the query needs.)
NoLostUnplug ==
  \A k \in DOMAIN handlers :
    running[handlers[k]] /\ Gone(handlers[k]) =>
      \/ changed
      \/ pc["change"] \in {"clear", "query", "done"}
      \/ /\ group[handlers[k]] \cap snapshot = {}
         /\ \/ At("change", "lock")
            \/ pc["change"] \in {"scan", "join", "close"} /\ it <= k

\* A plugged controller is never overlooked: whenever an interface is available, the
\* event is signalled, or the event thread polls, or it is about to query.
NoLostPlug ==
  ReleaseSignals /\ Available # {} => avail \/ poll \/ pc["event"] \in {"query", "done"}

\* When main() returns, no thread runs, no handler exists and no session is open.
NothingLeftAtExit ==
  At("main", "done") =>
    /\ \A t \in {"event", "change", "psc"} : At(t, "done")
    /\ handlers = <<>>
    /\ \A h \in Handler : input[h] = "none" /\ group[h] = {}
    /\ \A i \in Iface : session[i] = None

\* The threads implement the abstract registry.
Registry == INSTANCE ControllerRegistry
              WITH served <- {group[handlers[k]] : k \in DOMAIN handlers}
ImplementsRegistry == Registry!Spec

\* The event thread holds usbLock and waits for controllerMutex, whose holder waits for
\* an input thread or for an interface to close, that is for usbLock: nobody moves again.
CircularWait ==
  /\ pc["event"] \in {"limit", "push"}
  /\ mutex # None
  /\ \/ At(mutex, "join")
     \/ At(mutex, "close") /\ \E i \in Iface : session[i] = handlers[it]

\* TestPlan TC10: sleep, reboot and shutdown complete with the controllers connected.
NoCircularWait == ~CircularWait

\* RemoveAllNonPlugged erases only controllers that are unplugged
\* ("If we didn't find a single matching interface ID, we consider a controller removed").
OnlyUnpluggedRemoved ==
  [][RemoverStops("change") => Gone(handlers[it])]_vars

\* One handler serves one physical device
\* ("One XboxOne controller will expose 2 interfaces, thus we have to take all of them").
OneDevicePerHandler ==
  \A h \in Handler : \A i, j \in group[h] : Pad[i] = Pad[j]

\* Unless the threads block each other, an unplugged controller is removed.
UnplugHandled ==
  \A h \in Handler : (h \in Listed /\ Gone(h)) ~>
                       (h \notin Listed \/ At("change", "done") \/ CircularWait)

\* Unless the threads block each other, a plugged controller is taken over, or the limit
\* is reached, or sys-con ends.
PlugHandled ==
  \A i \in Iface : bus[i] = "available" ~>
                     \/ bus[i] # "available" \/ IsAtControllerLimit
                     \/ At("event", "done") \/ CircularWait

\* Unless the threads block each other, a shutdown runs to the end of main().
ShutdownCompletes == ~run["psc"] ~> (At("main", "done") \/ CircularWait)

\* Unless the threads block each other, a request to sleep is acknowledged.
SleepAcknowledged == request = "sleep" ~> (request # "sleep" \/ CircularWait)

\* TestPlan TC10: so is a shutdown.
ShutdownAcknowledged == request = "shutdown" ~> (request = "none" \/ CircularWait)
=============================================================================

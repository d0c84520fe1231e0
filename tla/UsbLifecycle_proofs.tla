------------------------ MODULE UsbLifecycle_proofs ------------------------
(***************************************************************************)
(* Proofs about UsbLifecycle, for every set of interfaces and handlers and *)
(* every limit.                                                            *)
(***************************************************************************)
EXTENDS UsbLifecycle, SequenceTheorems, FiniteSetTheorems, TLAPS

Walking == {"scan", "join", "close"}

\* Where each thread can be.
PcOK ==
  /\ pc["event"] \in {"wait", "check", "done", "query", "limit", "init", "push"}
  /\ pc["change"] \in {"wait", "check", "done", "clear", "query", "lock"} \cup Walking
  /\ pc["psc"] \in {"wait", "check", "done", "lock", "ack"} \cup Walking
  /\ pc["main"] \in {"poll", "joinPsc", "stop", "cancelEvent", "joinEvent", "cancelChange",
                     "joinChange", "destroy", "lock", "again", "done"} \cup Walking

\* Who holds which lock.
LocksOK ==
  /\ \A t \in Remover : mutex = t <=> pc[t] \in Walking
  /\ usbLock = "event" <=> pc["event"] \in {"limit", "init", "push"}
  /\ \A h \in Handler : usbLock = h <=> input[h] = "reading"

\* The iterator stands on an entry, or just behind the last one.
WalkOK ==
  \A t \in Remover :
    /\ pc[t] \in Walking => it <= Len(handlers) + 1
    /\ pc[t] \in {"join", "close"} => it <= Len(handlers)

\* The event thread has something to insert, and room for it.
InsertOK ==
  /\ pc["event"] = "push" => fresh \in Handler
  /\ pc["event"] \in {"init", "push"} => Len(handlers) < MaxHandlers

Inv == TypeOK /\ PcOK /\ LocksOK /\ WalkOK /\ InsertOK /\ HandlerLimit

-----------------------------------------------------------------------------
\* What the erasure of one entry leaves in the vector.
LEMMA RemoveAtProperties ==
  ASSUME NEW S, NEW s \in Seq(S), NEW k \in 1..Len(s)
  PROVE  /\ RemoveAt(s, k) \in Seq(S)
         /\ Len(RemoveAt(s, k)) = Len(s) - 1
         /\ \A j \in 1..(Len(s) - 1) :
              RemoveAt(s, k)[j] = IF j < k THEN s[j] ELSE s[j + 1]
<1> DEFINE a == SubSeq(s, 1, k - 1)
           b == SubSeq(s, k + 1, Len(s))
           n == Len(s)
<1>0. n \in Nat /\ k \in Nat /\ 1 <= k /\ k <= n /\ \A j \in 1..n : s[j] \in S
  BY LenProperties, ElementOfSeq
<1>1. a \in Seq(S) /\ Len(a) = k - 1 /\ \A j \in 1..(k - 1) : a[j] = s[j]
  <2>1. \A j \in 1..(k - 1) : s[j] \in S
    BY <1>0
  <2>2. /\ a \in Seq(S)
        /\ Len(a) = IF 1 <= k - 1 THEN (k - 1) - 1 + 1 ELSE 0
        /\ \A j \in 1..((k - 1) - 1 + 1) : a[j] = s[1 + j - 1]
    <3> HIDE DEF n
    <3> QED BY <1>0, <2>1, SubSeqProperties, SMT
  <2> QED
    BY <1>0, <2>2
<1>2. b \in Seq(S) /\ Len(b) = n - k /\ \A j \in 1..(n - k) : b[j] = s[k + j]
  <2>1. \A j \in (k + 1)..n : s[j] \in S
    BY <1>0
  <2>2. /\ b \in Seq(S)
        /\ Len(b) = IF k + 1 <= n THEN n - (k + 1) + 1 ELSE 0
        /\ \A j \in 1..(n - (k + 1) + 1) : b[j] = s[(k + 1) + j - 1]
    BY <1>0, <2>1, SubSeqProperties, SMT
  <2> QED
    BY <1>0, <2>2
<1>3. /\ a \o b \in Seq(S) /\ Len(a \o b) = Len(a) + Len(b)
      /\ \A j \in 1..(Len(a) + Len(b)) :
           (a \o b)[j] = IF j <= Len(a) THEN a[j] ELSE b[j - Len(a)]
  <2> HIDE DEF a, b
  <2> QED BY <1>1, <1>2, ConcatProperties
<1>4. ASSUME NEW j \in 1..(n - 1)
      PROVE  (a \o b)[j] = IF j < k THEN s[j] ELSE s[j + 1]
  <2> HIDE DEF a, b, n
  <2>1. CASE j < k
    BY <2>1, <1>0, <1>1, <1>2, <1>3
  <2>2. CASE ~(j < k)
    <3>1. (a \o b)[j] = b[j - (k - 1)] /\ j - (k - 1) \in 1..(n - k)
      BY <2>2, <1>0, <1>1, <1>2, <1>3
    <3>2. b[j - (k - 1)] = s[k + (j - (k - 1))] /\ k + (j - (k - 1)) = j + 1
      BY <3>1, <1>0, <1>2
    <3> QED
      BY <2>2, <3>1, <3>2
  <2> QED
    BY <2>1, <2>2
<1>5. RemoveAt(s, k) = a \o b
  BY DEF RemoveAt
<1>6. Len(a) + Len(b) = n - 1
  <2> HIDE DEF a, b, n
  <2> QED BY <1>0, <1>1, <1>2
<1> HIDE DEF a, b
<1> QED
  BY <1>3, <1>4, <1>5, <1>6

-----------------------------------------------------------------------------
\* The initial states satisfy the invariant.
LEMMA InitInv == Init => Inv
<1> SUFFICES ASSUME Init PROVE Inv
  OBVIOUS
<1> USE ConstantsOK DEF Init, Starts
<1>1. TypeOK
  <2>1. handlers \in Seq(Handler) /\ it \in Nat \ {0}
    BY EmptySeq
  <2>2. pc \in [Thread -> {"wait", "done", "poll"}] /\ run \in [Thread -> BOOLEAN]
    OBVIOUS
  <2>3. avail \in BOOLEAN /\ changed \in BOOLEAN /\ poll \in BOOLEAN
    OBVIOUS
  <2>4. running \in [Handler -> BOOLEAN] /\ cancel \in [Thread -> BOOLEAN]
    OBVIOUS
  <2>5. request \in {"none", "sleep", "shutdown"} /\ usbLock = None /\ mutex = None /\ fresh = None
    OBVIOUS
  <2>6. /\ bus \in [Iface -> {"absent", "available", "acquired"}]
        /\ session \in [Iface -> Handler \cup {None}]
        /\ group \in [Handler -> SUBSET Iface]
        /\ input \in [Handler -> {"none", "idle", "reading", "check"}]
        /\ picked = {} /\ snapshot = {}
    OBVIOUS
  <2> HIDE DEF Init, Starts
  <2> QED
    BY <2>1, <2>2, <2>3, <2>4, <2>5, <2>6 DEF TypeOK
<1>2. PcOK /\ LocksOK /\ WalkOK /\ InsertOK /\ HandlerLimit
  BY DEF PcOK, LocksOK, WalkOK, InsertOK, HandlerLimit, Thread, Remover, Walking
<1> QED
  BY <1>1, <1>2 DEF Inv

\* The event thread keeps the invariant.
LEMMA EventInv ==
  ASSUME Inv, Event
  PROVE  Inv'
<1> USE ConstantsOK DEF Inv, TypeOK, PcOK,
       LocksOK, WalkOK, InsertOK, HandlerLimit, At, Goto,
       UsbFree, MutexFree, Thread, Remover, Walking, usb, locks, list, object, finder, flow
<1>1. CASE EventWake
  <2>1. avail' \in BOOLEAN
    BY <1>1 DEF EventWake
  <2> QED
    BY <1>1, <2>1, SMTT(30) DEF EventWake
<1>2. CASE EventCancelled
  BY <1>2 DEF EventCancelled
<1>3. CASE EventFindsNothing
  <2>1. poll' \in BOOLEAN
    BY <1>3 DEF EventFindsNothing
  <2> QED
    BY <1>3, <2>1, SMTT(30) DEF EventFindsNothing
<1>4. CASE EventFinds
  BY <1>4 DEF EventFinds, Offers, Available
<1>5. CASE EventLimit
  BY <1>5 DEF EventLimit, IsAtControllerLimit
<1>6. CASE \E h \in Handler : EventInit(h)
  BY <1>6 DEF EventInit, StartsInput, Acquire
<1>7. CASE EventInitFails
  BY <1>7 DEF EventInitFails
<1>8. CASE EventPush
  BY <1>8 DEF EventPush
<1>9. CASE LoopAgain("event")
  BY <1>9 DEF LoopAgain
<1> QED
  BY <1>1, <1>2, <1>3, <1>4, <1>5, <1>6, <1>7, <1>8, <1>9 DEF Event

\* The change thread's list names acquired interfaces only.
LEMMA ListsAcquired ==
  ASSUME ChangeQuery
  PROVE  \A i \in snapshot' : i \in Iface /\ bus[i] = "acquired"
<1>1. snapshot' \in Listings
  BY DEF ChangeQuery
<1>2. snapshot' \subseteq Acquired
  BY <1>1 DEF Listings
<1> QED
  BY <1>2 DEF Acquired

\* The change thread keeps the invariant, too, up to the walk over the vector ...
LEMMA ChangeInv ==
  ASSUME Inv, ChangeWake \/ ChangeCancelled \/ ChangeClear \/ ChangeQuery \/ LoopAgain("change")
  PROVE  Inv'
<1> USE ConstantsOK DEF Inv, TypeOK, PcOK,
       LocksOK, WalkOK, InsertOK, HandlerLimit, At, Goto,
       UsbFree, MutexFree, Thread, Remover, Walking, usb, locks, list, object, finder, flow
<1>1. CASE ChangeWake
  BY <1>1 DEF ChangeWake
<1>2. CASE ChangeCancelled
  BY <1>2 DEF ChangeCancelled
<1>3. CASE ChangeClear
  <2>1. changed' \in BOOLEAN
    BY <1>3 DEF ChangeClear
  <2> QED
    BY <1>3, <2>1, SMTT(30) DEF ChangeClear
<1>4. CASE ChangeQuery
  <2>1. snapshot' \subseteq Iface
    BY <1>4, ListsAcquired
  <2> QED
    BY <1>4, <2>1 DEF ChangeQuery
<1>5. CASE LoopAgain("change")
  BY <1>5 DEF LoopAgain
<1> QED
  BY <1>1, <1>2, <1>3, <1>4, <1>5 DEF Change

\* ... and whoever walks over it.
LEMMA RemovalInv ==
  ASSUME Inv, NEW t \in Remover, Removal(t)
  PROVE  Inv'
<1> USE ConstantsOK DEF Inv, TypeOK, PcOK,
       LocksOK, WalkOK, InsertOK, HandlerLimit, At, Goto,
       UsbFree, MutexFree, Thread, Remover, Walking, usb, locks, list, object, finder, flow
<1>1. CASE RemoverLocks(t)
  BY <1>1 DEF RemoverLocks
<1>2. CASE RemoverSpares(t)
  BY <1>2 DEF RemoverSpares
<1>3. CASE RemoverStops(t)
  BY <1>3 DEF RemoverStops
<1>4. CASE RemoverJoins(t)
  BY <1>4 DEF RemoverJoins
<1>5. CASE RemoverCloses(t)
  BY <1>5 DEF RemoverCloses
<1>6. CASE RemoverErases(t)
  <2>1. it \in 1..Len(handlers)
    BY <1>6 DEF RemoverErases
  <2>2. handlers' \in Seq(Handler) /\ Len(handlers') = Len(handlers) - 1
    BY <1>6, <2>1, RemoveAtProperties DEF RemoverErases
  <2> QED
    BY <1>6, <2>1, <2>2 DEF RemoverErases
<1>7. CASE RemoverUnlocks(t)
  BY <1>7 DEF RemoverUnlocks
<1> QED
  BY <1>1, <1>2, <1>3, <1>4, <1>5, <1>6, <1>7 DEF Removal

\* The power thread.
LEMMA PscInv ==
  ASSUME Inv, PscRequest \/ PscAcknowledge \/ LoopAgain("psc")
  PROVE  Inv'
<1> USE ConstantsOK DEF Inv, TypeOK, PcOK,
       LocksOK, WalkOK, InsertOK, HandlerLimit, At, Goto,
       UsbFree, MutexFree, Thread, Remover, Walking, usb, locks, list, object, finder, flow
<1>1. CASE PscRequest
  BY <1>1 DEF PscRequest
<1>2. CASE PscAcknowledge
  BY <1>2 DEF PscAcknowledge, PmModuleOpen
<1>3. CASE LoopAgain("psc")
  BY <1>3 DEF LoopAgain
<1> QED
  BY <1>1, <1>2, <1>3

\* main(), but for its walks over the vector.
LEMMA MainInv ==
  ASSUME Inv, Main, ~Removal("main")
  PROVE  Inv'
<1> USE ConstantsOK DEF Inv, TypeOK, PcOK,
       LocksOK, WalkOK, InsertOK, HandlerLimit, At, Goto,
       UsbFree, MutexFree, Thread, Remover, Walking, usb, locks, list, object, finder, flow
<1>1. CASE MainPscExit
  BY <1>1 DEF MainPscExit
<1>2. CASE MainJoins("psc", "joinPsc", "stop")
  BY <1>2 DEF MainJoins
<1>3. CASE MainStops
  <2>1. run' \in [Thread -> BOOLEAN]
    BY <1>3 DEF MainStops
  <2>2. /\ pc["main"] = "stop" /\ pc' = [pc EXCEPT !["main"] = "cancelEvent"]
        /\ UNCHANGED <<usb, request, locks, list, object, cancel, finder, snapshot>>
    BY <1>3 DEF MainStops
  <2> QED
    BY <2>1, <2>2
<1>4. CASE MainCancels("event", "cancelEvent", "joinEvent")
  BY <1>4 DEF MainCancels
<1>5. CASE MainJoins("event", "joinEvent", "cancelChange")
  BY <1>5 DEF MainJoins
<1>6. CASE MainCancels("change", "cancelChange", "joinChange")
  BY <1>6 DEF MainCancels
<1>7. CASE MainJoins("change", "joinChange", "destroy")
  BY <1>7 DEF MainJoins
<1>8. CASE MainDestroysEvents
  BY <1>8 DEF MainDestroysEvents
<1>9. CASE MainAgain
  BY <1>9 DEF MainAgain
<1> QED
  BY <1>1, <1>2, <1>3, <1>4, <1>5, <1>6, <1>7, <1>8, <1>9 DEF Main

\* The input threads.
LEMMA InputInv ==
  ASSUME Inv, NEW h \in Handler, Input(h)
  PROVE  Inv'
<1> USE ConstantsOK DEF Inv, TypeOK, PcOK,
       LocksOK, WalkOK, InsertOK, HandlerLimit, At, Goto,
       UsbFree, MutexFree, Thread, Remover, Walking, usb, locks, list, object, finder, flow
<1>1. CASE InputReads(h)
  BY <1>1 DEF InputReads
<1>2. CASE InputGotReport(h)
  BY <1>2 DEF InputGotReport
<1>3. CASE InputLoops(h)
  BY <1>3 DEF InputLoops
<1> QED
  BY <1>1, <1>2, <1>3 DEF Input

\* usb:hs, the user and psc:pm.
LEMMA OutsideInv ==
  ASSUME Inv, Outside
  PROVE  Inv'
<1> USE DEF Inv, TypeOK, PcOK,
       LocksOK, WalkOK, InsertOK, HandlerLimit, At, Goto,
       UsbFree, MutexFree, Thread, Remover, Walking, usb, locks, list, object, finder, flow
<1>1. ASSUME NEW i \in Iface, Plug(i) PROVE Inv'
  <2>1. avail' \in BOOLEAN
    BY <1>1 DEF Plug
  <2> QED
    BY <1>1, <2>1, SMTT(30) DEF Plug
<1>2. ASSUME NEW i \in Iface, Unplug(i) PROVE Inv'
  <2>1. changed' \in BOOLEAN
    BY <1>2 DEF Unplug
  <2> QED
    BY <1>2, <2>1, SMTT(30) DEF Unplug
<1>3. ASSUME NEW r \in {"sleep", "shutdown"}, PowerRequest(r) PROVE Inv'
  BY <1>3 DEF PowerRequest
<1> QED
  BY <1>1, <1>2, <1>3 DEF Outside

\* Every step keeps the invariant.
LEMMA StepInv ==
  ASSUME Inv, [Next]_vars
  PROVE  Inv'
<1>1. CASE Event
  BY <1>1, EventInv
<1>2. CASE Change
  BY <1>2, ChangeInv, RemovalInv DEF Change, Remover
<1>3. CASE Psc
  BY <1>3, PscInv, RemovalInv DEF Psc, Remover
<1>4. CASE Main
  BY <1>4, MainInv, RemovalInv DEF Remover
<1>5. CASE Outside
  BY <1>5, OutsideInv
<1>6. ASSUME NEW h \in Handler, Input(h) PROVE Inv'
  BY <1>6, InputInv
<1>7. CASE UNCHANGED vars
  BY <1>7 DEF vars, Inv, TypeOK, PcOK, LocksOK, WalkOK, InsertOK, HandlerLimit,
              usb, locks, list, object, finder, flow
<1> QED
  BY <1>1, <1>2, <1>3, <1>4, <1>5, <1>6, <1>7 DEF Next

\* So it holds in every reachable state.
LEMMA Invariance == Spec => []Inv
  BY InitInv, StepInv, PTL DEF Spec

\* Every variable keeps its type.
THEOREM TypeCorrect == Spec => []TypeOK
<1>1. Inv => TypeOK
  BY DEF Inv
<1> QED
  BY <1>1, Invariance, PTL

\* The vector never outgrows the limit, although the limit is checked, controllerMutex
\* dropped, and the handler pushed much later: only the event thread pushes.
THEOREM LimitRespected == Spec => []HandlerLimit
<1>1. Inv => HandlerLimit
  BY DEF Inv
<1> QED
  BY <1>1, Invariance, PTL

-----------------------------------------------------------------------------
\* The event thread loses no available interface: it consumes the event only to query,
\* and stops polling only if the query under usbLock finds nothing.
LEMMA EventKeepsPlug ==
  ASSUME Inv, NoLostPlug, Event
  PROVE  NoLostPlug'
<1> USE DEF NoLostPlug, Available, At, Goto, usb, locks, list, object, finder, flow,
        Inv, TypeOK, PcOK, Thread
<1>1. CASE EventWake
  BY <1>1 DEF EventWake
<1>2. CASE EventCancelled
  BY <1>2 DEF EventCancelled
<1>3. CASE EventFindsNothing
  BY <1>3 DEF EventFindsNothing
<1>4. CASE EventFinds
  BY <1>4 DEF EventFinds
<1>5. CASE EventLimit
  BY <1>5 DEF EventLimit
<1>6. CASE \E h \in Handler : EventInit(h)
  BY <1>6 DEF EventInit, StartsInput, Acquire
<1>7. CASE EventInitFails
  BY <1>7 DEF EventInitFails
<1>8. CASE EventPush
  BY <1>8 DEF EventPush
<1>9. CASE LoopAgain("event")
  BY <1>9 DEF LoopAgain
<1> QED
  BY <1>1, <1>2, <1>3, <1>4, <1>5, <1>6, <1>7, <1>8, <1>9 DEF Event

\* Nobody else touches the timeout or consumes the event, and whoever makes an interface
\* available signals it.
LEMMA OthersKeepPlug ==
  ASSUME Inv, NoLostPlug, Change \/ Psc \/ Main \/ Outside \/ \E h \in Handler : Input(h)
  PROVE  NoLostPlug'
<1> USE DEF NoLostPlug, Available, At, Goto, usb, locks, list, object, finder, flow,
        Inv, TypeOK, PcOK, Thread
<1>1. ASSUME NEW t \in Remover, Removal(t) PROVE NoLostPlug'
  <2>1. pc'["event"] = pc["event"] /\ poll' = poll
    BY <1>1 DEF Removal, RemoverLocks, RemoverSpares, RemoverStops, RemoverJoins,
                RemoverCloses, RemoverErases, RemoverUnlocks, Remover
  <2>2. CASE RemoverCloses(t)
    <3>1. PICK i \in Iface :
             /\ bus' = [bus EXCEPT ![i] = IF @ = "acquired" THEN "available" ELSE @]
             /\ avail' = (avail \/ (ReleaseSignals /\ bus[i] = "acquired"))
      BY <2>2 DEF RemoverCloses
    <3>2. CASE bus[i] = "acquired"
      <4>1. ReleaseSignals => avail'
        BY <3>1, <3>2
      <4> QED
        BY <4>1
    <3>3. CASE bus[i] # "acquired"
      <4>1. bus' = bus
        BY <3>1, <3>3
      <4>2. avail => avail'
        BY <3>1
      <4> QED
        BY <2>1, <4>1, <4>2
    <3> QED
      BY <3>2, <3>3
  <2>3. CASE ~RemoverCloses(t)
    <3>1. bus' = bus /\ avail' = avail
      BY <1>1, <2>3 DEF Removal, RemoverLocks, RemoverSpares, RemoverStops, RemoverJoins,
                        RemoverErases, RemoverUnlocks
    <3> QED
      BY <2>1, <3>1
  <2> QED
    BY <2>2, <2>3
<1>2. ASSUME ~Removal("change"), Change PROVE NoLostPlug'
  BY <1>2 DEF Change, ChangeWake, ChangeCancelled, ChangeClear, ChangeQuery, LoopAgain
<1>3. ASSUME ~Removal("psc"), Psc PROVE NoLostPlug'
  BY <1>3 DEF Psc, PscRequest, PscAcknowledge, LoopAgain
<1>4. ASSUME ~Removal("main"), Main PROVE NoLostPlug'
  <2>1. bus' = bus /\ avail' = avail /\ poll' = poll /\ pc'["event"] = pc["event"]
    BY <1>4 DEF Main, MainPscExit, MainJoins, MainStops, MainCancels, MainDestroysEvents,
                MainAgain
  <2> QED
    BY <2>1
<1>5. CASE Outside
  <2>1. ASSUME NEW i \in Iface, Plug(i) PROVE NoLostPlug'
    BY <2>1 DEF Plug
  <2>2. ASSUME NEW i \in Iface, Unplug(i) PROVE NoLostPlug'
    BY <2>2 DEF Unplug
  <2>3. ASSUME NEW r \in {"sleep", "shutdown"}, PowerRequest(r) PROVE NoLostPlug'
    BY <2>3 DEF PowerRequest
  <2> QED
    BY <1>5, <2>1, <2>2, <2>3 DEF Outside
<1>6. ASSUME NEW h \in Handler, Input(h) PROVE NoLostPlug'
  BY <1>6 DEF Input, InputReads, InputGotReport, InputLoops
<1> QED
  BY <1>1, <1>2, <1>3, <1>4, <1>5, <1>6 DEF Remover

\* A plugged controller is never overlooked, if usb:hs signals what is released.
THEOREM NoPlugIsLost == Spec => []NoLostPlug
<1>1. Init => NoLostPlug
  BY DEF Init, Starts, NoLostPlug
<1>2. Inv /\ NoLostPlug /\ [Next]_vars => NoLostPlug'
  <2>1. CASE UNCHANGED vars
    BY <2>1 DEF vars, NoLostPlug, Available, usb, finder, flow
  <2> QED
    BY <2>1, EventKeepsPlug, OthersKeepPlug DEF Next
<1> QED
  BY <1>1, <1>2, Invariance, PTL DEF Spec

-----------------------------------------------------------------------------
(* The devices: no interface in two entries of the vector, no input thread *)
(* on a device that is being closed.                                       *)

\* A handler whose device is open on every interface.
Intact(h) == \A i \in group[h] : session[i] = h

\* The vector: handlers with a device, no two alike, no interface in two of them.
EntriesOK == NoDuplicateEntries /\ \A k \in DOMAIN handlers : group[handlers[k]] # {}

\* Nobody has a session on an available interface; only the entry that is being closed
\* has lost some of its own, and not while the event thread is past its limit check.
SessionsOK ==
  /\ \A i \in Iface : bus[i] = "available" => session[i] = None
  /\ \A k \in DOMAIN handlers :
       \/ Intact(handlers[k])
       \/ /\ \E t \in Remover : pc[t] = "close" /\ it = k
          /\ pc["event"] \notin {"init", "push"}

\* The handler that Insert has built is new, and its device is open.
FreshOK ==
  /\ pc["event"] \in {"limit", "init"} => picked # {}
  /\ pc["event"] = "push" => group[fresh] # {} /\ fresh \notin Listed /\ Intact(fresh)

\* An input thread is gone before its handler's device is closed.
InputOK ==
  /\ InputThreadHasDevice
  /\ \A t \in Remover : pc[t] = "close" => input[handlers[it]] = "none"

DeviceInv == EntriesOK /\ SessionsOK /\ FreshOK /\ InputOK

-----------------------------------------------------------------------------
\* At the start there are no handlers, hence no devices.
LEMMA InitDevices == Init => DeviceInv
<1> SUFFICES ASSUME Init PROVE DeviceInv
  OBVIOUS
<1>1. handlers = <<>> /\ DOMAIN handlers = {}
  BY DEF Init, Starts
<1> QED
  BY <1>1, ConstantsOK DEF Init, Starts, DeviceInv, EntriesOK, SessionsOK, FreshOK, InputOK, NoDuplicateEntries,
     InputThreadHasDevice, Thread, Remover

\* The event thread.
LEMMA EventDevices ==
  ASSUME Inv, Inv', DeviceInv, Event
  PROVE  DeviceInv'
<1> USE ConstantsOK DEF Inv, TypeOK, PcOK, LocksOK, WalkOK, InsertOK, DeviceInv, EntriesOK, SessionsOK,
       FreshOK, InputOK, NoDuplicateEntries, InputThreadHasDevice, Intact, Listed, At, Goto,
       UsbFree, MutexFree, Thread, Remover, Walking, usb, locks, list, object, finder, flow
<1>1. CASE EventWake
  BY <1>1 DEF EventWake
<1>2. CASE EventCancelled
  BY <1>2 DEF EventCancelled
<1>3. CASE EventFindsNothing
  BY <1>3 DEF EventFindsNothing
<1>4. CASE EventFinds
  <2>1. picked' # {}
    <3>1. picked' \in Offers
      BY <1>4 DEF EventFinds
    <3>2. ASSUME NEW g \in Offers PROVE g # {}
      <4> DEFINE found == {i \in Available : \A j \in Available : Class[i] <= Class[j]}
      <4>1. PICK first \in found : g = IF first \in TakesAll THEN found ELSE {first}
        BY Zenon DEF Offers
      <4> QED
        BY <4>1
    <3> QED
      BY <3>1, <3>2
  <2>2. /\ pc["event"] = "query" /\ pc' = [pc EXCEPT !["event"] = "limit"]
        /\ UNCHANGED <<usb, handlers, it, group, input, fresh>>
    BY <1>4 DEF EventFinds
  <2> QED
    BY <2>1, <2>2
<1>5. CASE EventLimit
  BY <1>5 DEF EventLimit
<1>6. CASE \E h \in Handler : EventInit(h)
  BY <1>6 DEF EventInit, StartsInput, Acquire, Opens
<1>7. CASE EventInitFails
  BY <1>7 DEF EventInitFails
<1>8. CASE EventPush
  BY <1>8 DEF EventPush
<1>9. CASE LoopAgain("event")
  BY <1>9 DEF LoopAgain
<1> QED
  BY <1>1, <1>2, <1>3, <1>4, <1>5, <1>6, <1>7, <1>8, <1>9 DEF Event

\* The walks over the vector.
LEMMA RemovalDevices ==
  ASSUME Inv, Inv', DeviceInv, NEW t \in Remover, Removal(t)
  PROVE  DeviceInv'
<1> USE ConstantsOK DEF Inv, TypeOK, PcOK, LocksOK, WalkOK, InsertOK, DeviceInv, EntriesOK, SessionsOK,
       FreshOK, InputOK, NoDuplicateEntries, InputThreadHasDevice, Intact, Listed, At, Goto,
       UsbFree, MutexFree, Thread, Remover, Walking, usb, locks, list, object, finder, flow
<1>1. CASE RemoverLocks(t)
  BY <1>1 DEF RemoverLocks
<1>2. CASE RemoverSpares(t)
  BY <1>2 DEF RemoverSpares
<1>3. CASE RemoverStops(t)
  BY <1>3 DEF RemoverStops
<1>4. CASE RemoverJoins(t)
  BY <1>4, SMTT(30) DEF RemoverJoins
<1>5. CASE RemoverCloses(t)
  BY <1>5 DEF RemoverCloses
<1>6. CASE RemoverErases(t)
  <2> DEFINE n == Len(handlers)
             old(j) == IF j < it THEN j ELSE j + 1
  <2>1. /\ it \in 1..n /\ n \in Nat /\ pc[t] = "close" /\ pc' = [pc EXCEPT ![t] = "scan"]
        /\ handlers' = RemoveAt(handlers, it) /\ group' = [group EXCEPT ![handlers[it]] = {}]
        /\ \A i \in Iface : session[i] # handlers[it]
        /\ UNCHANGED <<usb, it, running, input, picked, fresh>>
    BY <1>6 DEF RemoverErases
  <2>2. /\ DOMAIN handlers = 1..n /\ DOMAIN handlers' = 1..(n - 1)
        /\ \A j \in 1..(n - 1) : handlers'[j] = handlers[old(j)] /\ old(j) \in 1..n /\ old(j) # it
        /\ \A j, k \in 1..(n - 1) : j # k => old(j) # old(k)
    <3>1. /\ Len(handlers') = n - 1 /\ handlers' \in Seq(Handler)
          /\ \A j \in 1..(n - 1) : handlers'[j] = IF j < it THEN handlers[j] ELSE handlers[j + 1]
      <4>1. handlers \in Seq(Handler) /\ it \in 1..Len(handlers)
        BY <2>1
      <4>2. /\ Len(RemoveAt(handlers, it)) = Len(handlers) - 1
            /\ RemoveAt(handlers, it) \in Seq(Handler)
            /\ \A j \in 1..(Len(handlers) - 1) :
                 RemoveAt(handlers, it)[j] = IF j < it THEN handlers[j] ELSE handlers[j + 1]
        BY ONLY <4>1, RemoveAtProperties
      <4> QED
        BY <2>1, <4>2
    <3>2. DOMAIN handlers = 1..n /\ DOMAIN handlers' = 1..(n - 1)
      BY <3>1, LenProperties
    <3> QED
      BY <2>1, <3>1, <3>2
  <2> HIDE DEF n, old
  <2>3. \A j \in 1..(n - 1) : /\ handlers'[j] # handlers[it] /\ handlers'[j] \in Handler
                              /\ group'[handlers'[j]] = group[handlers'[j]]
    BY <2>1, <2>2
  <2>4. EntriesOK'
    <3>1. \A j, k \in DOMAIN handlers' : j # k =>
             /\ handlers'[j] # handlers'[k]
             /\ group'[handlers'[j]] \cap group'[handlers'[k]] = {}
      BY <2>2, <2>3
    <3>2. \A k \in DOMAIN handlers' : group'[handlers'[k]] # {}
      BY <2>2, <2>3
    <3> QED
      BY <3>1, <3>2
  <2>5. SessionsOK'
    <3>1. \A k \in DOMAIN handlers' : \A i \in group'[handlers'[k]] : session[i] = handlers'[k]
      BY <2>1, <2>2, <2>3
    <3> QED
      BY <2>1, <3>1
  <2>6. FreshOK'
    <3>1. CASE pc["event"] = "push"
      <4>1. fresh # handlers[it] /\ group'[fresh] = group[fresh]
        BY <2>1, <2>2, <3>1
      <4>2. \A j \in DOMAIN handlers' : handlers'[j] # fresh
        BY <2>2, <3>1
      <4> QED
        BY <2>1, <3>1, <4>1, <4>2
    <3>2. CASE pc["event"] # "push"
      BY <2>1, <3>2
    <3> QED
      BY <3>1, <3>2
  <2>7. InputOK'
    <3>1. input[handlers[it]] = "none"
      BY <2>1
    <3>2. \A r \in Remover : pc'[r] # "close"
      BY <2>1
    <3>3. InputThreadHasDevice'
      BY <2>1, <3>1
    <3> QED
      BY <3>2, <3>3
  <2> QED
    BY <2>4, <2>5, <2>6, <2>7
<1>7. CASE RemoverUnlocks(t)
  BY <1>7 DEF RemoverUnlocks
<1> QED
  BY <1>1, <1>2, <1>3, <1>4, <1>5, <1>6, <1>7 DEF Removal

\* The rest of the change thread.
LEMMA ChangeDevices ==
  ASSUME Inv, Inv', DeviceInv, Change, ~Removal("change")
  PROVE  DeviceInv'
<1> USE ConstantsOK DEF Inv, TypeOK, PcOK, LocksOK, WalkOK, InsertOK, DeviceInv, EntriesOK, SessionsOK,
       FreshOK, InputOK, NoDuplicateEntries, InputThreadHasDevice, Intact, Listed, At, Goto,
       UsbFree, MutexFree, Thread, Remover, Walking, usb, locks, list, object, finder, flow
<1>1. CASE ChangeWake
  BY <1>1 DEF ChangeWake
<1>2. CASE ChangeCancelled
  BY <1>2 DEF ChangeCancelled
<1>3. CASE ChangeClear
  BY <1>3 DEF ChangeClear
<1>4. CASE ChangeQuery
  BY <1>4 DEF ChangeQuery
<1>5. CASE LoopAgain("change")
  BY <1>5 DEF LoopAgain
<1> QED
  BY <1>1, <1>2, <1>3, <1>4, <1>5 DEF Change

\* The rest of the power thread.
LEMMA PscDevices ==
  ASSUME Inv, Inv', DeviceInv, Psc, ~Removal("psc")
  PROVE  DeviceInv'
<1> USE ConstantsOK DEF Inv, TypeOK, PcOK, LocksOK, WalkOK, InsertOK, DeviceInv, EntriesOK, SessionsOK,
       FreshOK, InputOK, NoDuplicateEntries, InputThreadHasDevice, Intact, Listed, At, Goto,
       UsbFree, MutexFree, Thread, Remover, Walking, usb, locks, list, object, finder, flow
<1>1. CASE PscRequest
  BY <1>1 DEF PscRequest
<1>2. CASE PscAcknowledge
  BY <1>2 DEF PscAcknowledge
<1>3. CASE LoopAgain("psc")
  BY <1>3 DEF LoopAgain
<1> QED
  BY <1>1, <1>2, <1>3 DEF Psc

\* The rest of main().
LEMMA MainDevices ==
  ASSUME Inv, Inv', DeviceInv, Main, ~Removal("main")
  PROVE  DeviceInv'
<1> USE ConstantsOK DEF Inv, TypeOK, PcOK, LocksOK, WalkOK, InsertOK, DeviceInv, EntriesOK, SessionsOK,
       FreshOK, InputOK, NoDuplicateEntries, InputThreadHasDevice, Intact, Listed, At, Goto,
       UsbFree, MutexFree, Thread, Remover, Walking, usb, locks, list, object, finder, flow
<1>1. CASE MainPscExit
  BY <1>1 DEF MainPscExit
<1>2. CASE MainJoins("psc", "joinPsc", "stop")
  BY <1>2 DEF MainJoins
<1>3. CASE MainStops
  BY <1>3 DEF MainStops
<1>4. CASE MainCancels("event", "cancelEvent", "joinEvent")
  BY <1>4 DEF MainCancels
<1>5. CASE MainJoins("event", "joinEvent", "cancelChange")
  <2>1. /\ pc["main"] = "joinEvent" /\ pc' = [pc EXCEPT !["main"] = "cancelChange"]
        /\ UNCHANGED <<usb, handlers, it, group, input, fresh, picked>>
    BY <1>5 DEF MainJoins
  <2> QED
    BY <2>1
<1>6. CASE MainCancels("change", "cancelChange", "joinChange")
  BY <1>6 DEF MainCancels
<1>7. CASE MainJoins("change", "joinChange", "destroy")
  BY <1>7 DEF MainJoins
<1>8. CASE MainDestroysEvents
  BY <1>8 DEF MainDestroysEvents
<1>9. CASE MainAgain
  BY <1>9 DEF MainAgain
<1> QED
  BY <1>1, <1>2, <1>3, <1>4, <1>5, <1>6, <1>7, <1>8, <1>9 DEF Main

\* usb:hs, the user and psc:pm.
LEMMA OutsideDevices ==
  ASSUME Inv, DeviceInv, Outside
  PROVE  DeviceInv'
<1> USE DEF Inv, TypeOK, DeviceInv, EntriesOK, SessionsOK, FreshOK, InputOK,
       NoDuplicateEntries, InputThreadHasDevice, Intact, Listed, usb, locks, list, object,
       finder, flow
<1>1. ASSUME NEW i \in Iface, Plug(i) PROVE DeviceInv'
  BY <1>1 DEF Plug
<1>2. ASSUME NEW i \in Iface, Unplug(i) PROVE DeviceInv'
  BY <1>2 DEF Unplug
<1>3. ASSUME NEW r \in {"sleep", "shutdown"}, PowerRequest(r) PROVE DeviceInv'
  BY <1>3 DEF PowerRequest
<1> QED
  BY <1>1, <1>2, <1>3 DEF Outside

\* The input threads.
LEMMA InputDevices ==
  ASSUME Inv, Inv', DeviceInv, NEW h \in Handler, Input(h)
  PROVE  DeviceInv'
<1> USE ConstantsOK DEF Inv, TypeOK, PcOK, LocksOK, WalkOK, InsertOK, DeviceInv, EntriesOK, SessionsOK,
       FreshOK, InputOK, NoDuplicateEntries, InputThreadHasDevice, Intact, Listed, At, Goto,
       UsbFree, MutexFree, Thread, Remover, Walking, usb, locks, list, object, finder, flow
<1>1. CASE InputReads(h)
  BY <1>1 DEF InputReads
<1>2. CASE InputGotReport(h)
  BY <1>2 DEF InputGotReport
<1>3. CASE InputLoops(h)
  BY <1>3 DEF InputLoops
<1> QED
  BY <1>1, <1>2, <1>3 DEF Input

\* Every step keeps the invariant on devices.
LEMMA StepDevices ==
  ASSUME Inv, DeviceInv, [Next]_vars
  PROVE  DeviceInv'
<1> USE StepInv
<1>1. CASE Event
  BY <1>1, EventDevices
<1>2. CASE Change
  BY <1>2, ChangeDevices, RemovalDevices DEF Remover
<1>3. CASE Psc
  BY <1>3, PscDevices, RemovalDevices DEF Remover
<1>4. CASE Main
  BY <1>4, MainDevices, RemovalDevices DEF Remover
<1>5. CASE Outside
  BY <1>5, OutsideDevices
<1>6. ASSUME NEW h \in Handler, Input(h) PROVE DeviceInv'
  BY <1>6, InputDevices
<1>7. CASE UNCHANGED vars
  BY <1>7 DEF vars, DeviceInv, EntriesOK, SessionsOK, FreshOK, InputOK, NoDuplicateEntries,
       InputThreadHasDevice, Intact, Listed, usb, list, object, finder, flow
<1> QED
  BY <1>1, <1>2, <1>3, <1>4, <1>5, <1>6, <1>7 DEF Next

\* So it holds in every reachable state.
LEMMA DeviceInvariance == Spec => []DeviceInv
  BY InitDevices, StepDevices, Invariance, PTL DEF Spec

\* No interface is ever served by two entries of the vector, even while one entry is being
\* closed and its interfaces are found again.
THEOREM NoDuplicates == Spec => []NoDuplicateEntries
<1>1. DeviceInv => NoDuplicateEntries
  BY DEF DeviceInv, EntriesOK
<1> QED
  BY <1>1, DeviceInvariance, PTL

\* An input thread never runs on a device that is closed or on a destroyed handler.
THEOREM InputThreadsAreSafe == Spec => []InputThreadHasDevice
<1>1. DeviceInv => InputThreadHasDevice
  BY DEF DeviceInv, InputOK
<1> QED
  BY <1>1, DeviceInvariance, PTL

-----------------------------------------------------------------------------
(* UsbLifecycle implements ControllerRegistry: its four threads and their  *)
(* vector behave like a bounded set of disjoint groups of interfaces that  *)
(* changes one group at a time.                                            *)

Served == {group[handlers[k]] : k \in DOMAIN handlers}

\* A step that leaves the vector and the groups of its entries alone is a stutter.
LEMMA SameServed ==
  ASSUME handlers' = handlers,
         \A k \in DOMAIN handlers : group'[handlers[k]] = group[handlers[k]]
  PROVE  Served' = Served
BY DEF Served

\* At most as many groups are served as the vector has entries.
LEMMA ServedCardinality ==
  ASSUME Inv
  PROVE  Cardinality(Served) \in Nat /\ Cardinality(Served) <= Len(handlers)
<1> DEFINE n == Len(handlers)
           f == [k \in 1..n |-> group[handlers[k]]]
<1>1. n \in Nat /\ DOMAIN handlers = 1..n
  BY LenProperties DEF Inv, TypeOK
<1>2. IsFiniteSet(1..n) /\ Cardinality(1..n) = n
  <2> HIDE DEF n
  <2> QED BY <1>1, FS_Interval
<1>3. f \in Surjection(1..n, Served)
  BY <1>1 DEF Served, Surjection
<1> QED
  <2> HIDE DEF n, f
  <2>1. IsFiniteSet(Served) /\ Cardinality(Served) <= Cardinality(1..n)
    BY <1>2, <1>3, FS_Surjection
  <2>2. Cardinality(Served) \in Nat
    BY <2>1, FS_CardinalityType
  <2> QED
    BY <1>2, <2>1, <2>2 DEF n

\* push_back serves a group that was free, within the limit.
LEMMA PushServes ==
  ASSUME Inv, Inv', DeviceInv, DeviceInv', EventPush
  PROVE  Registry!Serve(group[fresh])
<1> DEFINE n == Len(handlers)
<1>1. /\ pc["event"] = "push" /\ fresh \in Handler /\ group' = group
      /\ handlers' = Append(handlers, fresh) /\ handlers \in Seq(Handler)
      /\ Cardinality(Served) < MaxHandlers /\ group[fresh] # {}
  <2>1. Len(handlers) < MaxHandlers /\ Len(handlers) \in Nat
    BY LenProperties DEF EventPush, Inv, InsertOK, At, TypeOK
  <2> QED
    BY <2>1, ServedCardinality, ConstantsOK DEF EventPush, At, Inv, TypeOK, InsertOK, DeviceInv, FreshOK, object
<1>2. /\ n \in Nat /\ DOMAIN handlers = 1..n /\ DOMAIN handlers' = 1..(n + 1)
      /\ handlers'[n + 1] = fresh
      /\ \A k \in 1..n : handlers'[k] = handlers[k]
  BY <1>1, AppendProperties, LenProperties
<1>3. Served' = Served \cup {group[fresh]}
  BY <1>1, <1>2 DEF Served
<1>4. \A s \in Served : s \cap group[fresh] = {}
  <2>1. \A k, l \in DOMAIN handlers' : k # l => group'[handlers'[k]] \cap group'[handlers'[l]] = {}
    BY DEF DeviceInv, EntriesOK, NoDuplicateEntries
  <2>2. \A k \in 1..n : group[handlers[k]] \cap group[fresh] = {}
    <3> HIDE DEF n
    <3>1. ASSUME NEW k \in 1..n PROVE group[handlers[k]] \cap group[fresh] = {}
      <4>1. k \in DOMAIN handlers' /\ n + 1 \in DOMAIN handlers' /\ k # n + 1
        BY <1>2
      <4>2. group'[handlers'[k]] \cap group'[handlers'[n + 1]] = {}
        BY <2>1, <4>1
      <4> QED
        BY <1>1, <1>2, <4>2
    <3> QED
      BY <3>1
  <2> QED
    BY <1>2, <2>2 DEF Served
<1>5. Registry!Free(group[fresh])
  BY <1>4 DEF Registry!Free, Served
<1>6. Registry!Cardinality({group[handlers[k]] : k \in DOMAIN handlers}) < MaxHandlers
  BY <1>1, Zenon DEF Served, Registry!Cardinality, Cardinality
<1>7. {group[handlers[k]] : k \in DOMAIN handlers}' = {group[handlers[k]] : k \in DOMAIN handlers} \cup {group[fresh]}
  BY <1>3 DEF Served
<1> QED
  BY <1>1, <1>5, <1>6, <1>7, Zenon DEF Registry!Serve

\* The erasure of an entry releases its group, and no other.
LEMMA EraseReleases ==
  ASSUME Inv, DeviceInv, NEW t \in Remover, RemoverErases(t)
  PROVE  Registry!Release(group[handlers[it]])
<1> DEFINE n == Len(handlers)
           old(j) == IF j < it THEN j ELSE j + 1
<1>1. /\ handlers \in Seq(Handler) /\ n \in Nat /\ DOMAIN handlers = 1..n /\ it \in 1..n
      /\ handlers' = RemoveAt(handlers, it) /\ group \in [Handler -> SUBSET Iface]
      /\ group' = [group EXCEPT ![handlers[it]] = {}]
  BY LenProperties DEF RemoverErases, At, Inv, TypeOK, WalkOK
<1>2. /\ DOMAIN handlers' = 1..(n - 1)
      /\ \A j \in 1..(n - 1) : handlers'[j] = handlers[old(j)]
  <2>1. /\ Len(handlers') = n - 1 /\ handlers' \in Seq(Handler)
        /\ \A j \in 1..(n - 1) : handlers'[j] = IF j < it THEN handlers[j] ELSE handlers[j + 1]
    BY <1>1, RemoveAtProperties
  <2> QED
    BY <2>1, LenProperties
<1>3. /\ \A j \in 1..(n - 1) : old(j) \in 1..n /\ old(j) # it
      /\ \A k \in 1..n : k # it => \E j \in 1..(n - 1) : k = old(j)
  <2> HIDE DEF n
  <2>1. ASSUME NEW k \in 1..n, k # it PROVE \E j \in 1..(n - 1) : k = old(j)
    <3>1. CASE k < it
      BY <1>1, <2>1, <3>1
    <3>2. CASE k > it
      <4>1. k - 1 \in 1..(n - 1) /\ k = old(k - 1)
        BY <1>1, <2>1, <3>2
      <4> HIDE DEF old
      <4> QED
        BY <4>1
    <3> QED
      BY <1>1, <2>1, <3>1, <3>2
  <2> QED
    BY <1>1, <2>1
<1> HIDE DEF n, old
<1>4. \A k, l \in 1..n : k # l => handlers[k] # handlers[l] /\ group[handlers[k]] # group[handlers[l]]
  <2>1. \A k, l \in 1..n : k # l => /\ handlers[k] # handlers[l]
                                  /\ group[handlers[k]] \cap group[handlers[l]] = {}
                                  /\ group[handlers[k]] # {}
    BY <1>1 DEF DeviceInv, EntriesOK, NoDuplicateEntries
  <2> QED
    BY <2>1
<1>5. \A j \in 1..(n - 1) : group'[handlers'[j]] = group[handlers[old(j)]]
  <2>1. \A k \in 1..n : handlers[k] \in Handler
    BY <1>1, ElementOfSeq DEF n
  <2> QED
    BY <1>1, <1>2, <1>3, <1>4, <2>1
<1>6. Served' = Served \ {group[handlers[it]]}
  <2>1. ASSUME NEW g \in Served' PROVE g \in Served \ {group[handlers[it]]}
    <3>1. PICK j \in 1..(n - 1) : g = group[handlers[old(j)]]
      BY <1>2, <1>5 DEF Served
    <3> QED
      BY <3>1, <1>1, <1>3, <1>4 DEF Served
  <2>2. ASSUME NEW g \in Served, g # group[handlers[it]] PROVE g \in Served'
    <3>1. PICK k \in 1..n : g = group[handlers[k]]
      BY <1>1 DEF Served
    <3>2. PICK j \in 1..(n - 1) : k = old(j)
      BY <1>3, <2>2, <3>1
    <3> QED
      BY <1>2, <1>5, <3>1, <3>2 DEF Served
  <2> QED
    BY <2>1, <2>2
<1>7. group[handlers[it]] \in Served
  BY <1>1 DEF Served
<1> QED
  BY <1>6, <1>7 DEF Registry!Release, Served

\* Every other step leaves the served groups alone.
LEMMA OthersStutter ==
  ASSUME Inv, DeviceInv, [Next]_vars, ~EventPush, \A t \in Remover : ~RemoverErases(t)
  PROVE  Served' = Served
<1>1. CASE \E h \in Handler : EventInit(h)
  <2>1. PICK h \in Handler : /\ group[h] = {} /\ handlers' = handlers
                             /\ group' = [group EXCEPT ![h] = picked]
    BY <1>1 DEF EventInit, StartsInput, list
  <2>2. \A k \in DOMAIN handlers : handlers[k] # h
    BY <2>1 DEF DeviceInv, EntriesOK
  <2> QED
    BY <2>1, <2>2, SameServed DEF Inv, TypeOK
<1>2. CASE ~\E h \in Handler : EventInit(h)
  <2> USE DEF list, object
  <2>1. CASE Event
    BY <1>2, <2>1 DEF Event, EventWake, EventCancelled, EventFindsNothing, EventFinds,
                      EventLimit, EventInitFails, LoopAgain, Served
  <2>2. ASSUME NEW t \in Remover, Removal(t) PROVE Served' = Served
    BY <2>2 DEF Removal, RemoverLocks, RemoverSpares, RemoverStops, RemoverJoins,
                RemoverCloses, RemoverUnlocks, Served
  <2>3. ASSUME Change, ~Removal("change") PROVE Served' = Served
    BY <2>3 DEF Change, ChangeWake, ChangeCancelled, ChangeClear, ChangeQuery, LoopAgain, Served
  <2>4. ASSUME Psc, ~Removal("psc") PROVE Served' = Served
    BY <2>4 DEF Psc, PscRequest, PscAcknowledge, LoopAgain, Served
  <2>5. ASSUME Main, ~Removal("main") PROVE Served' = Served
    BY <2>5 DEF Main, MainPscExit, MainJoins, MainStops, MainCancels, MainDestroysEvents,
                MainAgain, Served
  <2>6. CASE Outside
    BY <2>6 DEF Outside, Plug, Unplug, PowerRequest, Served
  <2>7. ASSUME NEW h \in Handler, Input(h) PROVE Served' = Served
    BY <2>7 DEF Input, InputReads, InputGotReport, InputLoops, Served
  <2>8. CASE UNCHANGED vars
    BY <2>8 DEF vars, Served
  <2> QED
    BY <2>1, <2>2, <2>3, <2>4, <2>5, <2>6, <2>7, <2>8 DEF Next, Remover
<1> QED
  BY <1>1, <1>2

\* The four threads, two locks and vector implement the bounded registry of disjoint groups.
THEOREM RegistryImplemented == Spec => ImplementsRegistry
<1>1. Init => Registry!Init
  BY DEF Init, Starts, Registry!Init
<1>2. Inv /\ DeviceInv /\ [Next]_vars => [Registry!Next]_Served
  <2> SUFFICES ASSUME Inv, DeviceInv, [Next]_vars PROVE Registry!Next \/ Served' = Served
    OBVIOUS
  <2>1. Inv' /\ DeviceInv'
    BY StepInv, StepDevices
  <2>2. CASE EventPush
    <3>1. group[fresh] \in SUBSET Iface
      BY <2>2 DEF Inv, TypeOK, InsertOK, EventPush, At
    <3>2. Registry!Serve(group[fresh])
      BY <2>1, <2>2, PushServes
    <3> QED
      BY <3>1, <3>2, Zenon DEF Registry!Next, Registry!Serve
  <2>3. ASSUME NEW t \in Remover, RemoverErases(t) PROVE Registry!Next
    <3>1. group[handlers[it]] \in SUBSET Iface
      BY <2>3, ElementOfSeq DEF Inv, TypeOK, WalkOK, RemoverErases, At
    <3>2. Registry!Release(group[handlers[it]])
      BY <2>3, EraseReleases
    <3> QED
      BY <3>1, <3>2, Zenon DEF Registry!Next, Registry!Release
  <2> QED
    BY <2>2, <2>3, OthersStutter
<1> QED
  BY <1>1, <1>2, Invariance, DeviceInvariance, PTL DEF Spec, ImplementsRegistry, Registry!Spec, Served
=============================================================================

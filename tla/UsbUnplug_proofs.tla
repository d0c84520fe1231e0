--------------------------- MODULE UsbUnplug_proofs ---------------------------
(***************************************************************************)
(* Two promises of UsbLifecycle about handlers that must go: the change    *)
(* thread overlooks no unplugged controller, whatever the other threads do *)
(* between its eventClear, its query and its walk; and main() leaves       *)
(* nothing behind.                                                         *)
(***************************************************************************)
EXTENDS UsbLifecycle_proofs

\* The handler that is being destroyed has been told to stop.
StoppedOK == \A t \in Remover : pc[t] \in {"join", "close"} => ~running[handlers[it]]

\* A handler that is unplugged before it is pushed: its signal is still there, or the change
\* thread waits for usbLock, which the event thread holds, to query.
FreshSeen ==
  pc["event"] = "push" /\ Gone(fresh) => changed \/ pc["change"] \in {"clear", "query", "done"}

\* The change thread knows, or will know, that entry k is unplugged.
Noticed(k) ==
  \/ changed
  \/ pc["change"] \in {"clear", "query", "done"}
  \/ /\ group[handlers[k]] \cap snapshot = {}
     /\ \/ pc["change"] = "lock"
        \/ pc["change"] \in Walking /\ it <= k

EntriesSeen ==
  \A k \in DOMAIN handlers : running[handlers[k]] /\ Gone(handlers[k]) => Noticed(k)

UnplugInv == StoppedOK /\ FreshSeen /\ EntriesSeen

-----------------------------------------------------------------------------
\* At the start there is nothing to unplug.
LEMMA InitUnplug == Init => UnplugInv
<1> SUFFICES ASSUME Init PROVE UnplugInv
  OBVIOUS
<1>1. handlers = <<>> /\ DOMAIN handlers = {}
  BY DEF Init, Starts
<1> QED
  BY <1>1, ConstantsOK DEF Init, Starts, UnplugInv, StoppedOK, FreshSeen, EntriesSeen, Thread, Remover

\* A step keeps the invariant if it leaves alone what the invariant is about.
LEMMA SameUnplug ==
  ASSUME UnplugInv,
         UNCHANGED <<bus, changed, handlers, it, group, running, fresh, snapshot>>,
         \A t \in Remover : pc'[t] \in {"join", "close"} => pc[t] \in {"join", "close"},
         pc'["event"] = "push" => pc["event"] = "push",
         pc["change"] \in {"clear", "query", "done"} => pc'["change"] \in {"clear", "query", "done"},
         pc["change"] = "lock" => pc'["change"] = "lock",
         pc["change"] \in Walking => pc'["change"] \in Walking
  PROVE  UnplugInv'
<1>1. StoppedOK'
  BY DEF UnplugInv, StoppedOK
<1>2. FreshSeen'
  BY DEF UnplugInv, FreshSeen, Gone
<1>3. ASSUME NEW k \in DOMAIN handlers, Noticed(k) PROVE Noticed(k)'
  BY <1>3 DEF Noticed
<1>4. EntriesSeen'
  BY <1>3 DEF UnplugInv, EntriesSeen, Gone
<1> QED
  BY <1>1, <1>2, <1>4 DEF UnplugInv

\* The event thread: what it inserts was not unplugged unnoticed while it was fresh.
LEMMA EventUnplug ==
  ASSUME Inv, DeviceInv, UnplugInv, Event
  PROVE  UnplugInv'
<1> USE DEF Inv, TypeOK, PcOK, LocksOK, At, Goto, Thread, Remover, usb, locks, list, object,
       finder, flow
<1>1. ASSUME EventWake \/ EventCancelled \/ EventFindsNothing \/ EventFinds \/ EventLimit
             \/ EventInitFails \/ LoopAgain("event")
      PROVE  UnplugInv'
  <2>1. /\ UNCHANGED <<bus, changed, handlers, it, group, running, fresh, snapshot>>
        /\ pc' = [pc EXCEPT !["event"] = pc'["event"]] /\ pc'["event"] # "push"
    BY <1>1 DEF EventWake, EventCancelled, EventFindsNothing, EventFinds, EventLimit,
                EventInitFails, LoopAgain
  <2> QED
    BY <2>1, SameUnplug
<1>2. ASSUME NEW h \in Handler, EventInit(h) PROVE UnplugInv'
  <2>1. /\ group[h] = {} /\ group' = [group EXCEPT ![h] = picked] /\ fresh' = h
        /\ pc["event"] = "init" /\ pc' = [pc EXCEPT !["event"] = "push"]
        /\ running' = [running EXCEPT ![h] = TRUE]
        /\ \A i \in Iface : bus'[i] = IF i \in picked THEN "acquired" ELSE bus[i]
        /\ UNCHANGED <<changed, handlers, it, snapshot>>
    BY <1>2 DEF EventInit, StartsInput, Acquire
  <2>2. picked # {} /\ picked \subseteq Iface /\ \A k \in DOMAIN handlers : group[handlers[k]] # {}
    BY <2>1 DEF DeviceInv, FreshOK, EntriesOK
  <2>3. \A k \in DOMAIN handlers : handlers[k] # h /\ handlers[k] \in Handler
    BY <2>1, <2>2
  <2>4. ASSUME NEW g \in Handler, g # h
        PROVE  /\ group'[g] = group[g] /\ group[g] \subseteq Iface
               /\ (\A i \in group[g] : bus'[i] = "absent") => (\A i \in group[g] : bus[i] = "absent")
               /\ running[g] \in BOOLEAN /\ running'[g] = running[g]
    BY <2>1, <2>4
  <2>5. ASSUME NEW k \in DOMAIN handlers', Noticed(k) PROVE Noticed(k)'
    BY <2>1, <2>3, <2>4, <2>5 DEF Noticed
  <2>6. EntriesSeen'
    BY <2>1, <2>3, <2>4, <2>5 DEF EntriesSeen, Gone, UnplugInv
  <2>7. StoppedOK'
    <3>1. ASSUME NEW t \in Remover, pc'[t] \in {"join", "close"} PROVE ~running'[handlers'[it']]
      <4>1. pc[t] \in {"join", "close"} /\ it \in DOMAIN handlers
        BY <2>1, <3>1, LenProperties DEF WalkOK
      <4> QED
        BY <2>1, <2>3, <2>4, <4>1 DEF UnplugInv, StoppedOK
    <3> QED
      BY <3>1 DEF StoppedOK
  <2>8. FreshSeen'
    BY <2>1, <2>2 DEF FreshSeen, Gone
  <2> QED
    BY <2>6, <2>7, <2>8 DEF UnplugInv
<1>3. CASE EventPush
  <2> DEFINE n == Len(handlers)
  <2>1. /\ pc["event"] = "push" /\ mutex = None /\ fresh \in Handler
        /\ handlers' = Append(handlers, fresh) /\ handlers \in Seq(Handler)
        /\ pc' = [pc EXCEPT !["event"] = "check"]
        /\ UNCHANGED <<bus, changed, group, running, it, snapshot>>
    BY <1>3 DEF EventPush, InsertOK, MutexFree
  <2>2. /\ n \in Nat /\ DOMAIN handlers = 1..n /\ DOMAIN handlers' = 1..(n + 1)
        /\ handlers'[n + 1] = fresh
        /\ \A k \in 1..n : handlers'[k] = handlers[k]
    BY <2>1, AppendProperties, LenProperties
  <2> HIDE DEF n
  <2>3. \A t \in Remover : pc[t] \notin Walking /\ pc'[t] = pc[t]
    BY <2>1, ConstantsOK
  <2>4. ASSUME NEW k \in 1..n, Noticed(k) PROVE Noticed(k)'
    BY <2>1, <2>2, <2>3, <2>4 DEF Noticed
  <2>5. Gone(fresh) => changed \/ pc["change"] \in {"clear", "query", "done"}
    BY <2>1 DEF UnplugInv, FreshSeen
  <2>6. ASSUME NEW k \in 1..(n + 1), running'[handlers'[k]], Gone(handlers[k])'
        PROVE  Noticed(k)'
    <3>1. CASE k \in 1..n
      <4>1. running[handlers[k]] /\ Gone(handlers[k])
        BY <2>1, <2>2, <2>6, <3>1 DEF Gone
      <4> QED
        BY <2>2, <2>4, <3>1, <4>1 DEF UnplugInv, EntriesSeen
    <3>2. CASE k = n + 1
      <4>1. Gone(fresh)
        BY <2>1, <2>2, <2>6, <3>2 DEF Gone
      <4> QED
        BY <2>1, <2>3, <2>5, <4>1 DEF Noticed
    <3> QED
      BY <2>2, <3>1, <3>2
  <2> QED
    BY <2>1, <2>2, <2>3, <2>6 DEF UnplugInv, StoppedOK, FreshSeen, EntriesSeen, Walking
<1> QED
  BY <1>1, <1>2, <1>3 DEF Event

\* The change thread, up to its walk: it clears the signal before it looks at the bus, and it
\* cannot look while a handler is being inserted.
LEMMA ChangeUnplug ==
  ASSUME Inv, Inv', DeviceInv, UnplugInv, Change, ~Removal("change")
  PROVE  UnplugInv'
<1> USE ConstantsOK DEF Inv, TypeOK, PcOK, LocksOK, WalkOK,
       UnplugInv, StoppedOK, FreshSeen, EntriesSeen, Noticed, Gone, At, Goto,
       UsbFree, MutexFree, Thread, Remover, Walking, usb, locks, list, object, finder, flow
<1>1. CASE ChangeWake
  BY <1>1 DEF ChangeWake
<1>2. CASE ChangeCancelled
  BY <1>2 DEF ChangeCancelled
<1>3. CASE ChangeClear
  BY <1>3 DEF ChangeClear
<1>4. CASE ChangeQuery
  <2>1. \A i \in snapshot' : bus[i] = "acquired"
    BY <1>4, ListsAcquired
  <2> QED
    BY <1>4, <2>1 DEF ChangeQuery
<1>5. CASE LoopAgain("change")
  BY <1>5 DEF LoopAgain
<1> QED
  BY <1>1, <1>2, <1>3, <1>4, <1>5 DEF Change

\* The walks: the change thread's stops every handler that it finds unplugged, and the others'
\* exclude it.
LEMMA RemovalUnplug ==
  ASSUME Inv, DeviceInv, UnplugInv, NEW t \in Remover, Removal(t)
  PROVE  UnplugInv'
<1> USE DEF Inv, TypeOK, PcOK, LocksOK, At, Goto, Thread, Remover, Walking, usb, locks, list, object,
       finder, flow
<1>1. CASE RemoverLocks(t)
  <2>1. /\ pc[t] = "lock" /\ pc' = [pc EXCEPT ![t] = "scan"] /\ mutex = None /\ it' = 1
        /\ UNCHANGED <<bus, changed, handlers, group, running, fresh, snapshot>>
    BY <1>1 DEF RemoverLocks, MutexFree
  <2>2. \A r \in Remover : pc[r] \notin Walking
    BY <2>1, ConstantsOK
  <2>3. ASSUME NEW k \in DOMAIN handlers, Noticed(k) PROVE Noticed(k)'
    BY <2>1, <2>2, <2>3, LenProperties DEF Noticed
  <2> QED
    BY <2>1, <2>2, <2>3 DEF UnplugInv, StoppedOK, FreshSeen, EntriesSeen, Gone
<1>2. CASE RemoverSpares(t)
  <2>1. /\ pc[t] = "scan" /\ mutex = t /\ it' = it + 1 /\ it <= Len(handlers)
        /\ t = "change" => group[handlers[it]] \cap snapshot # {}
        /\ UNCHANGED <<bus, changed, handlers, group, running, fresh, pc, snapshot>>
    BY <1>2 DEF RemoverSpares, Victim
  <2>2. \A r \in Remover : pc[r] \in Walking => r = t
    BY <2>1
  <2>3. ASSUME NEW k \in DOMAIN handlers, Noticed(k) PROVE Noticed(k)'
    <3>1. k \in Nat /\ it \in Nat
      BY LenProperties
    <3>2. CASE pc["change"] \in Walking /\ k = it
      BY <2>1, <2>2, <2>3, <3>2 DEF Noticed
    <3>3. CASE ~(pc["change"] \in Walking /\ k = it)
      BY <2>1, <2>3, <3>1, <3>3 DEF Noticed
    <3> QED
      BY <3>2, <3>3
  <2> QED
    BY <2>1, <2>2, <2>3 DEF UnplugInv, StoppedOK, FreshSeen, EntriesSeen, Gone
<1>3. CASE RemoverStops(t)
  <2>1. /\ pc[t] = "scan" /\ pc' = [pc EXCEPT ![t] = "join"] /\ it \in DOMAIN handlers
        /\ running' = [running EXCEPT ![handlers[it]] = FALSE] /\ mutex = t
        /\ UNCHANGED <<bus, changed, handlers, it, group, fresh, snapshot>>
    BY <1>3, LenProperties DEF RemoverStops
  <2>2. \A k \in DOMAIN handlers :
           /\ handlers[k] \in Handler
           /\ running'[handlers[k]] => running[handlers[k]]
    BY <2>1
  <2>3. ASSUME NEW k \in DOMAIN handlers, Noticed(k) PROVE Noticed(k)'
    BY <2>1, <2>3 DEF Noticed
  <2>4. EntriesSeen'
    BY <2>1, <2>2, <2>3 DEF UnplugInv, EntriesSeen, Gone
  <2>5. StoppedOK'
    BY <2>1, <2>2 DEF StoppedOK
  <2> QED
    BY <2>1, <2>4, <2>5 DEF UnplugInv, FreshSeen, Gone
<1>4. CASE RemoverJoins(t)
  <2>1. /\ pc[t] = "join" /\ pc' = [pc EXCEPT ![t] = "close"]
        /\ UNCHANGED <<bus, changed, handlers, it, group, running, fresh, snapshot>>
    BY <1>4 DEF RemoverJoins
  <2> QED
    BY <2>1, SameUnplug
<1>5. CASE RemoverCloses(t)
  <2>1. \A i \in Iface : bus'[i] = "absent" <=> bus[i] = "absent"
    BY <1>5 DEF RemoverCloses
  <2>2. UNCHANGED <<changed, handlers, it, group, running, fresh, pc, snapshot>>
    BY <1>5 DEF RemoverCloses
  <2>3. ASSUME NEW h \in Handler PROVE (\A i \in group[h] : bus'[i] = "absent") => Gone(h)
    BY <2>1 DEF Gone
  <2>4. ASSUME NEW k \in DOMAIN handlers, Noticed(k) PROVE Noticed(k)'
    BY <2>2, <2>4 DEF Noticed
  <2>5. \A k \in DOMAIN handlers : handlers[k] \in Handler
    OBVIOUS
  <2>6. EntriesSeen'
    BY <2>2, <2>3, <2>4, <2>5 DEF UnplugInv, EntriesSeen, Gone
  <2> QED
    BY <2>2, <2>3, <2>6 DEF UnplugInv, StoppedOK, FreshSeen, Gone, InsertOK
<1>6. CASE RemoverErases(t)
  <2> DEFINE n == Len(handlers)
             old(j) == IF j < it THEN j ELSE j + 1
  <2>1. /\ it \in 1..n /\ n \in Nat /\ pc[t] = "close" /\ pc' = [pc EXCEPT ![t] = "scan"]
        /\ handlers' = RemoveAt(handlers, it) /\ group' = [group EXCEPT ![handlers[it]] = {}]
        /\ UNCHANGED <<bus, changed, it, running, fresh, snapshot>> /\ mutex = t
    BY <1>6, LenProperties DEF RemoverErases, WalkOK
  <2>2. /\ DOMAIN handlers = 1..n /\ DOMAIN handlers' = 1..(n - 1)
        /\ \A j \in 1..(n - 1) : /\ handlers'[j] = handlers[old(j)]
                                 /\ old(j) \in 1..n /\ old(j) # it
    <3>1. /\ Len(handlers') = n - 1 /\ handlers' \in Seq(Handler)
          /\ \A j \in 1..(n - 1) : handlers'[j] = IF j < it THEN handlers[j] ELSE handlers[j + 1]
      <4>1. handlers \in Seq(Handler) /\ it \in 1..Len(handlers)
        BY <2>1
      <4>2. /\ Len(RemoveAt(handlers, it)) = Len(handlers) - 1
            /\ RemoveAt(handlers, it) \in Seq(Handler)
            /\ \A j \in 1..(Len(handlers) - 1) :
                 RemoveAt(handlers, it)[j] = IF j < it THEN handlers[j] ELSE handlers[j + 1]
        BY ONLY <4>1, RemoveAtProperties
      <4> QED
        BY <2>1, <4>2
    <3>2. DOMAIN handlers = 1..n /\ DOMAIN handlers' = 1..(n - 1)
      BY <3>1, LenProperties
    <3> QED
      BY <2>1, <3>1, <3>2
  <2> HIDE DEF n
  <2>3. \A k \in 1..n : handlers[k] \in Handler /\ (k # it => handlers[k] # handlers[it])
    <3>1. handlers \in Seq(Handler)
      OBVIOUS
    <3>2. \A k \in DOMAIN handlers : handlers[k] \in Handler
      BY ONLY <3>1
    <3>3. \A k, l \in DOMAIN handlers : k # l => handlers[k] # handlers[l]
      BY Zenon DEF DeviceInv, EntriesOK, NoDuplicateEntries
    <3> QED
      BY <2>1, <2>2, <3>2, <3>3
  <2>4. ASSUME NEW h \in Handler, h # handlers[it] PROVE group'[h] = group[h]
    BY <2>1, <2>4
  <2>5. ASSUME NEW j \in 1..(n - 1), running'[handlers'[j]], Gone(handlers[j])'
        PROVE  Noticed(j)'
    <3> DEFINE k == old(j)
    <3>1. /\ k \in 1..n /\ handlers'[j] = handlers[k] /\ group'[handlers[k]] = group[handlers[k]]
          /\ it <= k => it <= j
      BY <2>1, <2>2, <2>3, <2>4
    <3> HIDE DEF k, old
    <3>2. running[handlers[k]] /\ Gone(handlers[k])
      BY <2>1, <2>5, <3>1 DEF Gone
    <3>3. Noticed(k)
      BY <2>2, <3>1, <3>2 DEF UnplugInv, EntriesSeen
    <3>4. /\ pc["change"] \in {"clear", "query", "done"} => pc'["change"] = pc["change"]
          /\ pc["change"] = "lock" => pc'["change"] = "lock"
          /\ pc["change"] \in Walking => pc'["change"] \in Walking
      BY <2>1
    <3> QED
      BY <2>1, <3>1, <3>3, <3>4 DEF Noticed
  <2>6. StoppedOK'
    BY <2>1 DEF StoppedOK
  <2>7. FreshSeen'
    <3>1. CASE pc["event"] = "push"
      <4>1. fresh \in Handler /\ fresh # handlers[it]
        BY <2>1, <2>2, <3>1 DEF DeviceInv, FreshOK, InsertOK, Listed
      <4>2. group'[fresh] = group[fresh]
        BY <2>4, <4>1
      <4> QED
        BY <2>1, <4>2 DEF UnplugInv, FreshSeen, Gone
    <3>2. CASE pc["event"] # "push"
      BY <2>1, <3>2 DEF FreshSeen
    <3> QED
      BY <3>1, <3>2
  <2> QED
    BY <2>2, <2>5, <2>6, <2>7 DEF UnplugInv, EntriesSeen
<1>7. CASE RemoverUnlocks(t)
  <2>1. /\ pc[t] = "scan" /\ it > Len(handlers) /\ mutex = t
        /\ pc' = [pc EXCEPT ![t] = pc'[t]] /\ pc'[t] \in {"check", "ack", "again"}
        /\ t # "change" => snapshot' = snapshot
        /\ UNCHANGED <<bus, changed, handlers, group, running, fresh>>
    BY <1>7 DEF RemoverUnlocks
  <2>2. \A r \in Remover : pc[r] \in Walking => r = t
    BY <2>1
  <2>3. ASSUME NEW k \in DOMAIN handlers, Noticed(k) PROVE Noticed(k)'
    <3>1. ~(it <= k)
      BY <2>1, LenProperties
    <3> QED
      BY <2>1, <2>2, <2>3, <3>1 DEF Noticed
  <2> QED
    BY <2>1, <2>2, <2>3 DEF UnplugInv, StoppedOK, FreshSeen, EntriesSeen, Gone
<1> QED
  BY <1>1, <1>2, <1>3, <1>4, <1>5, <1>6, <1>7 DEF Removal

\* usb:hs signals the disappearance of an interface that a handler holds, and every interface
\* of a running handler is held.
LEMMA OutsideUnplug ==
  ASSUME Inv, DeviceInv, UnplugInv, Outside
  PROVE  UnplugInv'
<1> USE DEF Inv, TypeOK, PcOK, DeviceInv, SessionsOK, FreshOK, Intact, UnplugInv, StoppedOK,
       FreshSeen, EntriesSeen, Noticed, Gone, Walking, Thread, Remover,
       usb, locks, list, object, finder, flow
<1>1. \A k \in DOMAIN handlers : running[handlers[k]] => Intact(handlers[k])
  OBVIOUS
<1>2. ASSUME NEW i \in Iface, Plug(i) PROVE UnplugInv'
  <2>1. /\ session[i] = None /\ bus' = [bus EXCEPT ![i] = "available"]
        /\ UNCHANGED <<changed, handlers, it, group, running, fresh, pc, snapshot>>
    BY <1>2 DEF Plug
  <2>2. ASSUME NEW h \in Handler, Intact(h) PROVE Gone(h)' => Gone(h)
    BY <2>1, <2>2, ConstantsOK
  <2> QED
    BY <1>1, <2>1, <2>2 DEF InsertOK
<1>3. ASSUME NEW i \in Iface, Unplug(i) PROVE UnplugInv'
  <2>1. /\ bus' = [bus EXCEPT ![i] = "absent"] /\ (changed \/ bus[i] = "acquired" => changed')
        /\ UNCHANGED <<handlers, it, group, running, fresh, pc, snapshot>>
    BY <1>3 DEF Unplug
  <2>2. ASSUME NEW h \in Handler, Intact(h), ~Gone(h), Gone(h)' PROVE changed'
    <3>1. PICK j \in group[h] : bus[j] # "absent"
      BY <2>2
    <3>2. j = i /\ j \in Iface
      BY <2>1, <2>2, <3>1
    <3>3. bus[i] = "acquired"
      BY <2>2, <3>1, <3>2, ConstantsOK
    <3> QED
      BY <2>1, <3>3
  <2> QED
    BY <1>1, <2>1, <2>2 DEF InsertOK
<1>4. ASSUME NEW r \in {"sleep", "shutdown"}, PowerRequest(r) PROVE UnplugInv'
  BY <1>4 DEF PowerRequest
<1> QED
  BY <1>2, <1>3, <1>4 DEF Outside

\* The power thread, main() and the input threads outside of the walks.
LEMMA OthersUnplug ==
  ASSUME Inv, Inv', UnplugInv,
         \/ Psc /\ ~Removal("psc")
         \/ Main /\ ~Removal("main")
         \/ \E h \in Handler : Input(h)
  PROVE  UnplugInv'
<1> USE DEF Inv, TypeOK, PcOK, Thread, Remover, At, Goto, usb, locks, list, object, finder, flow
<1>1. UNCHANGED <<bus, changed, handlers, it, group, running, fresh, snapshot>>
  <2>1. ASSUME Psc, ~Removal("psc")
        PROVE  UNCHANGED <<bus, changed, handlers, it, group, running, fresh, snapshot>>
    BY <2>1 DEF Psc, PscRequest, PscAcknowledge, LoopAgain
  <2>2. ASSUME Main, ~Removal("main")
        PROVE  UNCHANGED <<bus, changed, handlers, it, group, running, fresh, snapshot>>
    BY <2>2 DEF Main, MainPscExit, MainJoins, MainStops, MainCancels, MainDestroysEvents, MainAgain
  <2>3. ASSUME NEW h \in Handler, Input(h)
        PROVE  UNCHANGED <<bus, changed, handlers, it, group, running, fresh, snapshot>>
    BY <2>3 DEF Input, InputReads, InputGotReport, InputLoops
  <2> QED
    BY <2>1, <2>2, <2>3
<1>2. /\ pc'["event"] = pc["event"] /\ pc'["change"] = pc["change"]
      /\ \A t \in Remover : pc'[t] \in {"join", "close"} => pc'[t] = pc[t]
  <2>1. ASSUME Psc, ~Removal("psc")
        PROVE  pc' = [pc EXCEPT !["psc"] = pc'["psc"]] /\ pc'["psc"] \notin {"join", "close"}
    BY <2>1 DEF Psc, PscRequest, PscAcknowledge, LoopAgain
  <2>2. ASSUME Main, ~Removal("main")
        PROVE  pc' = [pc EXCEPT !["main"] = pc'["main"]] /\ pc'["main"] \notin {"join", "close"}
    BY <2>2 DEF Main, MainPscExit, MainJoins, MainStops, MainCancels, MainDestroysEvents, MainAgain
  <2>3. ASSUME NEW h \in Handler, Input(h) PROVE pc' = pc
    BY <2>3 DEF Input, InputReads, InputGotReport, InputLoops
  <2> QED
    BY <2>1, <2>2, <2>3
<1> QED
  BY <1>1, <1>2, SameUnplug

\* Every step keeps the invariant.
LEMMA StepUnplug ==
  ASSUME Inv, DeviceInv, UnplugInv, [Next]_vars
  PROVE  UnplugInv'
<1> USE StepInv
<1>1. CASE Event
  BY <1>1, EventUnplug
<1>2. CASE Change
  BY <1>2, ChangeUnplug, RemovalUnplug DEF Remover
<1>3. CASE Psc
  BY <1>3, OthersUnplug, RemovalUnplug DEF Remover
<1>4. CASE Main
  BY <1>4, OthersUnplug, RemovalUnplug DEF Remover
<1>5. CASE Outside
  BY <1>5, OutsideUnplug
<1>6. ASSUME NEW h \in Handler, Input(h) PROVE UnplugInv'
  BY <1>6, OthersUnplug
<1>7. CASE UNCHANGED vars
  BY <1>7 DEF vars, UnplugInv, StoppedOK, FreshSeen, EntriesSeen, Noticed, Gone, Walking,
              usb, list, object, finder, flow
<1> QED
  BY <1>1, <1>2, <1>3, <1>4, <1>5, <1>6, <1>7 DEF Next

\* An unplugged controller is never overlooked: eventClear comes before the query, and the
\* query needs the usbLock under which a controller is inserted.
THEOREM NoUnplugIsLost == Spec => []NoLostUnplug
<1>1. UnplugInv => NoLostUnplug
  BY DEF UnplugInv, EntriesSeen, Noticed, NoLostUnplug, At, Walking
<1> QED
  BY <1>1, InitUnplug, StepUnplug, Invariance, DeviceInvariance, PTL DEF Spec

-----------------------------------------------------------------------------
\* main() goes on only when the thread it waits for has ended.  Its first walk over the vector
\* destroys whatever it meets, and leaves it empty: by then nobody is left to push a handler.
ShutdownOrder ==
  /\ pc["main"] \notin {"poll", "joinPsc"} => pc["psc"] = "done"
  /\ pc["main"] \notin {"poll", "joinPsc", "stop", "cancelEvent", "joinEvent"} => pc["event"] = "done"
  /\ pc["main"] \in {"destroy", "lock", "again", "done"} \cup Walking => pc["change"] = "done"
  /\ pc["main"] \in Walking => it = 1
  /\ pc["main"] \in {"again", "done"} => handlers = <<>>

\* Every handler stands in the vector, or the event thread is about to push it; every session
\* belongs to a handler, and is for an interface of it.
OwnersOK ==
  /\ fresh # None => pc["event"] = "push"
  /\ \A h \in Handler : group[h] # {} => h \in Listed \/ h = fresh
  /\ \A i \in Iface : session[i] # None => i \in group[session[i]]

\* At the start nothing has been built.
LEMMA InitExit == Init => ShutdownOrder /\ OwnersOK
BY ConstantsOK DEF Init, Starts, ShutdownOrder, OwnersOK, Thread, Walking

\* A thread that has ended does nothing more, and main() waits for each in turn.
LEMMA StepOrder ==
  ASSUME Inv, ShutdownOrder, [Next]_vars
  PROVE  ShutdownOrder'
<1> USE DEF Inv, TypeOK, PcOK, At, Goto, Thread, Remover, Walking, usb, locks, list, object,
       finder, flow
<1>1. CASE Event
  <2>1. /\ pc["event"] # "done" /\ pc' = [pc EXCEPT !["event"] = pc'["event"]]
    BY <1>1 DEF Event, EventWake, EventCancelled, EventFindsNothing, EventFinds, EventLimit,
                EventInit, EventInitFails, EventPush, LoopAgain
  <2> QED
    BY <2>1 DEF ShutdownOrder
<1>2. ASSUME NEW t \in Remover, Removal(t) PROVE ShutdownOrder'
  <2>1. /\ pc[t] \in {"lock"} \cup Walking /\ pc' = [pc EXCEPT ![t] = pc'[t]]
        /\ pc'[t] \in {"check", "ack", "again"} \cup Walking
        /\ t = "main" => pc'[t] \in {"again"} \cup Walking
    BY <1>2 DEF Removal, RemoverLocks, RemoverSpares, RemoverStops, RemoverJoins, RemoverCloses,
                RemoverErases, RemoverUnlocks
  <2>2. CASE t = "main"
    <3>1. pc'["main"] \in Walking => it' = 1
      BY <1>2, <2>1, <2>2 DEF ShutdownOrder, Removal, RemoverLocks, RemoverSpares, RemoverStops,
                              RemoverJoins, RemoverCloses, RemoverErases, RemoverUnlocks, Victim
    <3>2. pc'["main"] = "again" => it = 1 /\ it > Len(handlers) /\ handlers' = handlers
      BY <1>2, <2>2 DEF ShutdownOrder, Removal, RemoverLocks, RemoverSpares, RemoverStops,
                        RemoverJoins, RemoverCloses, RemoverErases, RemoverUnlocks
    <3>3. pc'["main"] = "again" => handlers' = <<>>
      BY <3>2, EmptySeq, LenProperties
    <3> QED
      BY <2>1, <2>2, <3>1, <3>3 DEF ShutdownOrder
  <2>3. CASE t # "main"
    <3>1. pc["main"] \notin {"destroy", "lock", "again", "done"} \cup Walking
      BY <2>1, <2>3 DEF ShutdownOrder
    <3> QED
      BY <2>1, <2>3, <3>1 DEF ShutdownOrder
  <2> QED
    BY <2>2, <2>3
<1>3. ASSUME Change, ~Removal("change") PROVE ShutdownOrder'
  <2>1. /\ pc["change"] # "done" /\ pc' = [pc EXCEPT !["change"] = pc'["change"]]
        /\ handlers' = handlers
    BY <1>3 DEF Change, ChangeWake, ChangeCancelled, ChangeClear, ChangeQuery, LoopAgain
  <2> QED
    BY <2>1 DEF ShutdownOrder
<1>4. ASSUME Psc, ~Removal("psc") PROVE ShutdownOrder'
  <2>1. /\ pc["psc"] # "done" /\ pc' = [pc EXCEPT !["psc"] = pc'["psc"]]
        /\ handlers' = handlers
    BY <1>4 DEF Psc, PscRequest, PscAcknowledge, LoopAgain
  <2> QED
    BY <2>1 DEF ShutdownOrder
<1>5. ASSUME Main, ~Removal("main") PROVE ShutdownOrder'
  <2>1. handlers' = handlers /\ pc' = [pc EXCEPT !["main"] = pc'["main"]]
    BY <1>5 DEF Main, MainPscExit, MainJoins, MainStops, MainCancels, MainDestroysEvents, MainAgain
  <2>2. \/ pc'["main"] = "joinPsc"
        \/ pc["main"] = "joinPsc" /\ pc["psc"] = "done" /\ pc'["main"] = "stop"
        \/ pc["main"] = "stop" /\ pc'["main"] = "cancelEvent"
        \/ pc["main"] = "cancelEvent" /\ pc'["main"] = "joinEvent"
        \/ pc["main"] = "joinEvent" /\ pc["event"] = "done" /\ pc'["main"] = "cancelChange"
        \/ pc["main"] = "cancelChange" /\ pc'["main"] = "joinChange"
        \/ pc["main"] = "joinChange" /\ pc["change"] = "done" /\ pc'["main"] = "destroy"
        \/ pc["main"] = "destroy" /\ pc'["main"] = "lock"
        \/ pc["main"] = "again" /\ pc'["main"] = "done"
    BY <1>5 DEF Main, MainPscExit, MainJoins, MainStops, MainCancels, MainDestroysEvents, MainAgain
  <2> QED
    BY <2>1, <2>2 DEF ShutdownOrder
<1>6. CASE Outside
  BY <1>6 DEF Outside, Plug, Unplug, PowerRequest, ShutdownOrder
<1>7. ASSUME NEW h \in Handler, Input(h) PROVE ShutdownOrder'
  BY <1>7 DEF Input, InputReads, InputGotReport, InputLoops, ShutdownOrder
<1>8. CASE UNCHANGED vars
  BY <1>8 DEF vars, ShutdownOrder
<1> QED
  BY <1>1, <1>2, <1>3, <1>4, <1>5, <1>6, <1>7, <1>8 DEF Next

\* A step keeps the owners if it leaves handlers and sessions alone.
LEMMA SameOwners ==
  ASSUME OwnersOK, UNCHANGED <<session, handlers, group>>, fresh' # None => fresh' = fresh,
         fresh # None => fresh' = fresh, pc["event"] = "push" => pc'["event"] = "push"
  PROVE  OwnersOK'
BY DEF OwnersOK, Listed

\* Handlers and sessions come and go together.
LEMMA StepOwners ==
  ASSUME Inv, DeviceInv, OwnersOK, [Next]_vars
  PROVE  OwnersOK'
<1> USE DEF Inv, TypeOK, PcOK, At, Goto, Thread, Remover, Walking, usb, locks, list, object,
       finder, flow
<1>1. ASSUME Event, \A h \in Handler : ~EventInit(h), ~EventPush PROVE OwnersOK'
  <2>1. /\ UNCHANGED <<session, handlers, group, fresh>> /\ pc["event"] # "push"
    BY <1>1 DEF Event, EventWake, EventCancelled, EventFindsNothing, EventFinds, EventLimit,
                EventInitFails, LoopAgain
  <2> QED
    BY <2>1, SameOwners
<1>2. ASSUME NEW h \in Handler, EventInit(h) PROVE OwnersOK'
  <2>1. /\ group[h] = {} /\ group' = [group EXCEPT ![h] = picked] /\ fresh' = h
        /\ pc["event"] = "init" /\ pc'["event"] = "push" /\ handlers' = handlers
        /\ session' = [i \in Iface |-> IF i \in picked THEN h ELSE session[i]]
    BY <1>2 DEF EventInit, StartsInput, Acquire
  <2>2. fresh = None
    BY <2>1 DEF OwnersOK
  <2>3. \A g \in Handler : g # h => group'[g] = group[g]
    BY <2>1
  <2>4. \A g \in Handler : group'[g] # {} => g \in Listed \/ g = h
    BY <2>1, <2>2, <2>3, ConstantsOK DEF OwnersOK
  <2>5. ASSUME NEW i \in Iface, session'[i] # None PROVE i \in group'[session'[i]]
    BY <2>1, <2>3, <2>5 DEF OwnersOK
  <2>6. Listed' = Listed
    BY <2>1 DEF Listed
  <2> QED
    BY <2>1, <2>4, <2>5, <2>6 DEF OwnersOK
<1>3. CASE EventPush
  <2>1. /\ handlers' = Append(handlers, fresh) /\ handlers \in Seq(Handler) /\ fresh \in Handler
        /\ fresh' = None /\ UNCHANGED <<session, group>>
    BY <1>3 DEF EventPush, InsertOK
  <2>2. Listed' = Listed \cup {fresh}
    <3>1. /\ Len(handlers) \in Nat /\ DOMAIN handlers = 1..Len(handlers)
          /\ DOMAIN handlers' = 1..(Len(handlers) + 1) /\ handlers'[Len(handlers) + 1] = fresh
          /\ \A k \in 1..Len(handlers) : handlers'[k] = handlers[k]
      BY <2>1, AppendProperties, LenProperties
    <3>2. Listed' \subseteq Listed \cup {fresh}
      BY <3>1 DEF Listed
    <3>3. fresh \in Listed'
      <4>1. Len(handlers) + 1 \in DOMAIN handlers'
        BY <3>1
      <4> QED
        BY <3>1, <4>1 DEF Listed
    <3>4. Listed \subseteq Listed'
      <4>1. ASSUME NEW k \in DOMAIN handlers PROVE handlers[k] \in Listed'
        <5>1. k \in DOMAIN handlers' /\ handlers'[k] = handlers[k]
          BY <3>1
        <5> QED
          BY <5>1 DEF Listed
      <4> QED
        BY <4>1 DEF Listed
    <3> QED
      BY <3>2, <3>3, <3>4
  <2> QED
    BY <2>1, <2>2 DEF OwnersOK
<1>4. ASSUME NEW t \in Remover, RemoverCloses(t) PROVE OwnersOK'
  <2>1. /\ UNCHANGED <<handlers, group, fresh, pc>>
        /\ \A i \in Iface : session'[i] # None => session'[i] = session[i]
    BY <1>4 DEF RemoverCloses
  <2> QED
    BY <2>1 DEF OwnersOK, Listed
<1>5. ASSUME NEW t \in Remover, RemoverErases(t) PROVE OwnersOK'
  <2>1. /\ it \in 1..Len(handlers) /\ handlers' = RemoveAt(handlers, it)
        /\ group' = [group EXCEPT ![handlers[it]] = {}] /\ handlers[it] \in Handler
        /\ \A i \in Iface : session[i] # handlers[it]
        /\ UNCHANGED <<session, fresh>> /\ pc'["event"] = pc["event"]
    BY <1>5, LenProperties DEF RemoverErases, WalkOK
  <2>2. \A h \in Listed : h = handlers[it] \/ h \in Listed'
    <3> DEFINE n == Len(handlers)
    <3>1. /\ n \in Nat /\ DOMAIN handlers = 1..n /\ DOMAIN handlers' = 1..(n - 1)
          /\ \A j \in 1..(n - 1) : handlers'[j] = IF j < it THEN handlers[j] ELSE handlers[j + 1]
      <4>1. handlers \in Seq(Handler) /\ it \in 1..Len(handlers)
        BY <2>1
      <4>2. /\ Len(RemoveAt(handlers, it)) = Len(handlers) - 1
            /\ RemoveAt(handlers, it) \in Seq(Handler)
            /\ \A j \in 1..(Len(handlers) - 1) :
                 RemoveAt(handlers, it)[j] = IF j < it THEN handlers[j] ELSE handlers[j + 1]
        BY ONLY <4>1, RemoveAtProperties
      <4> QED
        BY <2>1, <4>1, <4>2, LenProperties
    <3> HIDE DEF n
    <3>2. ASSUME NEW k \in 1..n, k # it PROVE handlers[k] \in Listed'
      <4>1. CASE k < it
        <5>1. k \in 1..(n - 1) /\ handlers'[k] = handlers[k]
          BY <2>1, <3>1, <4>1 DEF n
        <5> QED
          BY <3>1, <5>1 DEF Listed
      <4>2. CASE k > it
        <5>1. k - 1 \in 1..(n - 1) /\ handlers'[k - 1] = handlers[k]
          BY <2>1, <3>1, <4>2 DEF n
        <5> QED
          BY <3>1, <5>1 DEF Listed
      <4> QED
        BY <2>1, <3>1, <3>2, <4>1, <4>2
    <3> QED
      BY <3>1, <3>2 DEF Listed
  <2>3. \A h \in Handler : h # handlers[it] => group'[h] = group[h]
    BY <2>1
  <2>4. \A h \in Handler : group'[h] # {} => h # handlers[it] /\ group[h] # {}
    BY <2>1, <2>3
  <2>5. \A i \in Iface : session[i] # None => session[i] \in Handler /\ session[i] # handlers[it]
    BY <2>1
  <2> QED
    BY <2>1, <2>2, <2>3, <2>4, <2>5 DEF OwnersOK
<1>6. ASSUME NEW t \in Remover, Removal(t), ~RemoverCloses(t), ~RemoverErases(t) PROVE OwnersOK'
  <2>1. UNCHANGED <<session, handlers, group, fresh>> /\ pc'["event"] = pc["event"]
    BY <1>6 DEF Removal, RemoverLocks, RemoverSpares, RemoverStops, RemoverJoins, RemoverUnlocks
  <2> QED
    BY <2>1, SameOwners
<1>7. ASSUME Change \/ Psc \/ Main, \A t \in Remover : ~Removal(t) PROVE OwnersOK'
  <2>1. UNCHANGED <<session, handlers, group, fresh>> /\ pc'["event"] = pc["event"]
    BY <1>7 DEF Change, ChangeWake, ChangeCancelled, ChangeClear, ChangeQuery, LoopAgain, Psc,
                PscRequest, PscAcknowledge, Main, MainPscExit, MainJoins, MainStops, MainCancels,
                MainDestroysEvents, MainAgain
  <2> QED
    BY <2>1, SameOwners
<1>8. ASSUME Outside \/ (\E h \in Handler : Input(h)) \/ UNCHANGED vars PROVE OwnersOK'
  <2>1. UNCHANGED <<session, handlers, group, fresh, pc>>
    BY <1>8 DEF Outside, Plug, Unplug, PowerRequest, Input, InputReads, InputGotReport, InputLoops,
                vars
  <2> QED
    BY <2>1, SameOwners
<1>9. ASSUME NEW t \in Remover, Removal(t) PROVE OwnersOK'
  BY <1>4, <1>5, <1>6, <1>9
<1> QED
  BY <1>1, <1>2, <1>3, <1>7, <1>8, <1>9 DEF Next

\* When main() returns, its threads have ended, no handler is left and no session is open.
THEOREM NothingLeft == Spec => []NothingLeftAtExit
<1>1. Inv /\ DeviceInv /\ ShutdownOrder /\ OwnersOK => NothingLeftAtExit
  <2> SUFFICES ASSUME Inv, DeviceInv, ShutdownOrder, OwnersOK, pc["main"] = "done"
               PROVE  NothingLeftAtExit
    BY DEF NothingLeftAtExit, At
  <2>1. handlers = <<>> /\ \A t \in {"event", "change", "psc"} : pc[t] = "done"
    BY DEF ShutdownOrder, Walking
  <2>2. fresh = None /\ Listed = {}
    BY <2>1 DEF OwnersOK, Listed
  <2>3. \A h \in Handler : group[h] = {}
    BY <2>2, ConstantsOK DEF OwnersOK
  <2>4. \A h \in Handler : input[h] = "none"
    BY <2>3 DEF DeviceInv, InputOK, InputThreadHasDevice
  <2>5. \A i \in Iface : session[i] = None
    BY <2>3 DEF OwnersOK, Inv, TypeOK
  <2> QED
    BY <2>1, <2>3, <2>4, <2>5 DEF NothingLeftAtExit, At
<1> QED
  BY <1>1, InitExit, StepOrder, StepOwners, Invariance, DeviceInvariance, PTL DEF Spec
=============================================================================

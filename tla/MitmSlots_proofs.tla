-------------------------- MODULE MitmSlots_proofs --------------------------
(***************************************************************************)
(* Proofs about MitmSlots, for any number of handlers, pads, slots and     *)
(* clients.                                                                *)
(***************************************************************************)
EXTENDS MitmSlots, SequenceTheorems, FiniteSetTheorems, TLAPS

\* Places where a handler's pointer and the manager's list agree.
Settled == {"idle", "attach", "update", "write", "exit"}

\* A taken slot belongs to a connected pad whose settled handler points back; a settled handler's
\* slot is its; a lost one was that of an input that is not counted.
SlotsOK ==
  /\ \A i \in Slot :
       list[i] # None => held[list[i]] = i /\ pc[list[i]] \in Settled /\ known[list[i]]
  /\ \A i \in Slot : lost[i] # None => list[i] = None /\ lost[i] \notin Counted
  /\ \A p \in Pad : held[p] # None /\ pc[p] \in Settled => list[held[p]] = p
  /\ \A p \in Pad : pc[p] = "absent" => held[p] = None

\* A connected pad without a slot asks for one with its next report.
ReattachOK ==
  /\ \A p \in Pad : pc[p] \in {"idle", "attach"} /\ known[p] /\ held[p] = None => reattach[p]
  /\ \A p \in Pad : pc[p] = "attach" => known[p]
  /\ \A p \in Pad : pc[p] \in {"absent", "detach"} => ~known[p]

\* Whoever writes holds the mutex, has a slot, and has a report to write.
LockOK ==
  /\ \A p \in Pad : pc[p] = "write" <=> shm = p
  /\ \A p \in Pad : pc[p] = "write" => held[p] # None
  /\ \A p \in Pad : pc[p] \in {"attach", "update", "write"} => report[p] \in Report

\* The memory that is to be added is not in the list and was written by no pad.
PendingOK ==
  pending # None => pending \notin Entered /\ \A i \in Slot : npad[pending][i].by = None

\* Two clients that were both shown a pad as player i were shown the same.
Agree(c, d, i) ==
  npad[c][i].by # None /\ npad[d][i].by # None => npad[c][i] = npad[d][i]

\* Clients agree on every player but the one that is being written; there, the clients that the
\* iterator has passed have the new state.
AgreeOK ==
  /\ \A c, d \in Entered, i \in Slot :
       (\A p \in Pad : pc[p] = "write" => i # held[p]) => Agree(c, d, i)
  /\ \A p \in Pad : pc[p] = "write" =>
       \A k \in 1 .. Len(entries) :
         k < at[p] => npad[entries[k]][held[p]] = [by |-> p, val |-> report[p]]

Inv == TypeOK /\ SlotsOK /\ ReattachOK /\ LockOK /\ PendingOK /\ AgreeOK

-----------------------------------------------------------------------------
\* The clients in a list that grew at its end.
LEMMA EnteredGrows ==
  ASSUME NEW c \in Client, entries \in Seq(Client), entries' = Append(entries, c)
  PROVE  /\ entries' \in Seq(Client)
         /\ Entered' = Entered \cup {c}
         /\ Len(entries') = Len(entries) + 1
         /\ \A k \in 1 .. Len(entries) : entries'[k] = entries[k]
<1>1. /\ Append(entries, c) \in Seq(Client)
      /\ Len(Append(entries, c)) = Len(entries) + 1
      /\ \A k \in 1 .. Len(entries) : Append(entries, c)[k] = entries[k]
      /\ Append(entries, c)[Len(entries) + 1] = c
  BY AppendProperties
<1>2. Len(entries) \in Nat /\ DOMAIN entries = 1 .. Len(entries)
  BY LenProperties
<1>3. DOMAIN entries' = 1 .. Len(entries) + 1
  BY <1>1, LenProperties
<1>4. Entered' = {entries'[k] : k \in 1 .. Len(entries) + 1}
  BY <1>3 DEF Entered
<1>5. Entered = {entries[k] : k \in 1 .. Len(entries)}
  BY <1>2 DEF Entered
<1>6. \A k \in 1 .. Len(entries) + 1 : entries'[k] = IF k = Len(entries) + 1 THEN c ELSE entries[k]
  BY <1>1, <1>2
<1>7. Entered' = Entered \cup {c}
  BY <1>2, <1>4, <1>5, <1>6
<1> QED BY <1>1, <1>7

\* No pad is handled and no memory made at the start.
LEMMA InitInv == Init => Inv
<1> SUFFICES ASSUME Init PROVE Inv
  OBVIOUS
<1>1. <<>> \in Seq(Client) /\ Len(<<>>) = 0 /\ DOMAIN <<>> = {}
  BY EmptySeq
<1>2. TypeOK
  BY <1>1 DEF Init, TypeOK, State
<1> QED
  BY <1>1, <1>2, MitmConstantsOK DEF Init, Inv, SlotsOK, ReattachOK, LockOK, PendingOK, AgreeOK, Entered, Settled

\* What the manager's two operations do to slots and pointers.
LEMMA ManagerSteps ==
  ASSUME TypeOK, NEW p \in Pad
  PROVE  /\ ManagerAttaches(p) =>
              \/ UNCHANGED <<list, held>>
              \/ \E i \in Slot : /\ list[i] = None /\ lost[i] = None
                                 /\ list' = [list EXCEPT ![i] = p]
                                 /\ held' = [held EXCEPT ![p] = i]
         /\ ManagerDetaches(p) =>
              /\ list' \in [Slot -> Pad \cup {None}]
              /\ \A i \in Slot : list'[i] = IF list[i] = p THEN None ELSE list[i]
<1>1. ManagerAttaches(p) =>
              \/ UNCHANGED <<list, held>>
              \/ \E i \in Slot : /\ list[i] = None /\ lost[i] = None
                                 /\ list' = [list EXCEPT ![i] = p]
                                 /\ held' = [held EXCEPT ![p] = i]
  BY DEF ManagerAttaches, FreeSlots
<1>2. ASSUME ManagerDetaches(p)
      PROVE  /\ list' \in [Slot -> Pad \cup {None}]
             /\ \A i \in Slot : list'[i] = IF list[i] = p THEN None ELSE list[i]
  BY <1>2 DEF ManagerDetaches, TypeOK
<1> QED BY <1>1, <1>2

\* Attaches as one of three cases: a slot is taken, refused, or not asked for.
LEMMA AttachesCases ==
  ASSUME TypeOK, NEW p \in Pad, Attaches(p)
  PROVE  /\ pc[p] = "attach" /\ pc' = [pc EXCEPT ![p] = "update"]
         /\ reattach' = [reattach EXCEPT ![p] = FALSE]
         /\ UNCHANGED <<known, report, at, lost, shm, memory>>
         /\ \/ UNCHANGED <<list, held>>
            \/ \E i \in Slot : /\ held[p] = None /\ list[i] = None /\ lost[i] = None
                               /\ list' = [list EXCEPT ![i] = p]
                               /\ held' = [held EXCEPT ![p] = i]
         /\ list' \in [Slot -> Pad \cup {None}] /\ held' \in [Pad -> Slot \cup {None}]
         /\ \A q \in Pad : q # p => held'[q] = held[q]
<1>1. /\ pc[p] = "attach" /\ pc' = [pc EXCEPT ![p] = "update"]
      /\ reattach' = [reattach EXCEPT ![p] = FALSE]
      /\ UNCHANGED <<known, report, at, lost, shm, memory>>
  BY DEF Attaches, At, Goto
<1>2. \/ UNCHANGED <<list, held>>
      \/ \E i \in Slot : /\ held[p] = None /\ list[i] = None /\ lost[i] = None
                         /\ list' = [list EXCEPT ![i] = p]
                         /\ held' = [held EXCEPT ![p] = i]
  BY ManagerSteps DEF Attaches
<1>3. CASE UNCHANGED <<list, held>>
  BY <1>1, <1>3 DEF TypeOK
<1>4. ASSUME NEW i \in Slot, held[p] = None, list[i] = None,
             list' = [list EXCEPT ![i] = p], held' = [held EXCEPT ![p] = i]
      PROVE  /\ list' \in [Slot -> Pad \cup {None}] /\ held' \in [Pad -> Slot \cup {None}]
             /\ \A q \in Pad : q # p => held'[q] = held[q]
  BY <1>4 DEF TypeOK
<1> QED BY <1>1, <1>2, <1>3, <1>4

\* What happens to a handler as a whole: it is inserted, joined or destroyed.
HandlerMoves(h) == Inserted(h) \/ ExitJoins(h) \/ ExitEnds(h)

\* It moves the handler's own inputs, and touches neither the mutex nor the memories.
LEMMA HandlerSteps ==
  ASSUME TypeOK, NEW h \in Handler, HandlerMoves(h)
  PROVE  /\ UNCHANGED <<report, at, shm, entries, pending, npad>>
         /\ \A q \in Pad : Owner[q] # h => /\ pc'[q] = pc[q] /\ held'[q] = held[q]
                                           /\ known'[q] = known[q] /\ reattach'[q] = reattach[q]
         /\ \A q \in Pad : Owner[q] = h => /\ pc[q] \in {"absent", "idle", "exit"}
                                           /\ pc'[q] \in {"absent", "idle", "exit"}
         /\ \A q \in Pad : held'[q] \in {held[q], None}
<1>1. CASE Inserted(h) \/ ExitJoins(h)
  BY <1>1 DEF Inserted, ExitJoins, AllAt, AllGoto, Inputs, TypeOK, memory
<1>2. CASE ExitEnds(h)
  BY <1>2 DEF ExitEnds, AllAt, AllGoto, Inputs, TypeOK, memory
<1> QED BY <1>1, <1>2 DEF HandlerMoves

\* Variables keep their types.
LEMMA TypeInv ==
  ASSUME Inv, Next
  PROVE  TypeOK'
<1> USE DEF Inv
<1>1. ASSUME NEW h \in Handler, HandlerMoves(h) PROVE TypeOK'
  <2>1. CASE Inserted(h) \/ ExitJoins(h)
    BY <2>1 DEF Inserted, ExitJoins, AllGoto, TypeOK, memory, slots
  <2>2. CASE ExitEnds(h)
    BY <2>2 DEF ExitEnds, AllGoto, Inputs, TypeOK, memory
  <2> QED BY <1>1, <2>1, <2>2 DEF HandlerMoves
<1>2. ASSUME NEW p \in Pad, Reads(p) PROVE TypeOK'
  BY <1>2 DEF Reads, At, Goto, TypeOK, memory, slots
<1>3. ASSUME NEW p \in Pad, Loses(p) PROVE TypeOK'
  <2>1. list' \in [Slot -> Pad \cup {None}]
    BY <1>3, ManagerSteps DEF Loses, TypeOK
  <2>2. pc' \in [Pad -> {"absent", "idle", "attach", "update", "write", "detach", "exit", "exiting",
                         "crashed"}]
    BY <1>3 DEF Loses, Goto, TypeOK
  <2> QED BY <1>3, <2>1, <2>2 DEF Loses, TypeOK, memory
<1>4. ASSUME NEW p \in Pad, Forgets(p) PROVE TypeOK'
  BY <1>4 DEF Forgets, At, Goto, TypeOK, memory, slots
<1>5. ASSUME NEW p \in Pad, Attaches(p) PROVE TypeOK'
  <2>1. /\ UNCHANGED <<known, report, at, lost, shm, entries, pending, npad>>
        /\ pc' = [pc EXCEPT ![p] = "update"] /\ reattach' = [reattach EXCEPT ![p] = FALSE]
    BY <1>5, AttachesCases DEF memory
  <2>2. list' \in [Slot -> Pad \cup {None}] /\ held' \in [Pad -> Slot \cup {None}]
    BY <1>5, AttachesCases
  <2> QED BY <2>1, <2>2 DEF TypeOK
<1>6. ASSUME NEW p \in Pad, UpdateLocks(p) PROVE TypeOK'
  BY <1>6 DEF UpdateLocks, At, Goto, TypeOK, memory, slots
<1>7. ASSUME NEW p \in Pad, UpdatesNull(p) PROVE TypeOK'
  BY <1>7 DEF UpdatesNull, At, Goto, TypeOK, memory, slots
<1>8. ASSUME NEW p \in Pad, Writes(p) PROVE TypeOK'
  <2>1. pc[p] = "write" /\ at[p] <= Len(entries) /\ at[p] \in 1 .. Len(entries)
    BY <1>8, LenProperties DEF Writes, At, TypeOK
  <2>2. entries[at[p]] \in Client /\ held[p] \in Slot /\ report[p] \in Report
    BY <2>1, ElementOfSeq DEF TypeOK, LockOK
  <2>3. [by |-> p, val |-> report[p]] \in State
    BY <2>2 DEF State
  <2>4. npad' \in [Client -> [Slot -> State]]
    BY <1>8, <2>2, <2>3 DEF Writes, TypeOK
  <2>5. at' \in [Pad -> Nat \ {0}]
    BY <1>8 DEF Writes, TypeOK
  <2> QED BY <1>8, <2>4, <2>5 DEF Writes, TypeOK, slots
<1>9. ASSUME NEW p \in Pad, UpdateUnlocks(p) PROVE TypeOK'
  BY <1>9 DEF UpdateUnlocks, At, Goto, TypeOK, memory, slots
<1>10. ASSUME NEW p \in Pad, Exit(p) PROVE TypeOK'
  <2>1. CASE ExitDetaches(p)
    <3>1. list' \in [Slot -> Pad \cup {None}]
      BY <2>1, ManagerSteps DEF ExitDetaches, TypeOK
    <3>2. pc' \in [Pad -> {"absent", "idle", "attach", "update", "write", "detach", "exit",
                           "exiting", "crashed"}]
      BY <2>1 DEF ExitDetaches, Goto, TypeOK
    <3> QED BY <2>1, <3>1, <3>2 DEF ExitDetaches, TypeOK, memory
  <2>2. CASE ExitForgets(p)
    BY <2>2 DEF ExitForgets, Goto, TypeOK, memory, slots
  <2> QED BY <1>10, <2>1, <2>2 DEF Exit
<1>11. ASSUME NEW c \in Client, ServerCreates(c) PROVE TypeOK'
  <2>1. npad' \in [Client -> [Slot -> State]]
    BY <1>11 DEF ServerCreates, TypeOK, State
  <2> QED BY <1>11, <2>1 DEF ServerCreates, TypeOK, handler, slots
<1>12. CASE ServerAdds
  <2>1. entries' \in Seq(Client)
    <3>1. pending \in Client /\ entries \in Seq(Client)
      BY <1>12 DEF ServerAdds, TypeOK
    <3>2. Append(entries, pending) \in Seq(Client)
      BY <3>1, AppendProperties
    <3> QED BY <1>12, <3>1, <3>2 DEF ServerAdds
  <2> QED BY <1>12, <2>1 DEF ServerAdds, TypeOK, handler, slots
<1> QED
  BY <1>1, <1>2, <1>3, <1>4, <1>5, <1>6, <1>7, <1>8, <1>9, <1>10, <1>11, <1>12
     DEF Next, Thread, Server, HandlerMoves

\* Slots and pointers agree.
LEMMA SlotsInv ==
  ASSUME Inv, Next
  PROVE  SlotsOK'
<1> USE DEF Inv
<1>1. ASSUME NEW p \in Pad, Reads(p) \/ UpdateLocks(p) \/ Writes(p) \/ UpdateUnlocks(p)
      PROVE  SlotsOK'
  <2>1. /\ UNCHANGED <<list, lost, held>> /\ pc[p] \in Settled /\ pc'[p] \in Settled
        /\ pc'[p] # "absent"
        /\ \A q \in Pad : q # p => pc'[q] = pc[q]
        /\ \A q \in Pad : known[q] => known'[q]
    BY <1>1 DEF Reads, UpdateLocks, Writes, UpdateUnlocks, At, Goto, TypeOK, Settled, slots
  <2> QED BY <2>1, MitmConstantsOK DEF SlotsOK, TypeOK, Settled
<1>2. ASSUME NEW p \in Pad, Loses(p) \/ ExitDetaches(p)
      PROVE  SlotsOK'
  <2>1. /\ pc[p] \in {"idle", "exit"} /\ UNCHANGED <<held, lost>>
        /\ \A q \in Pad : q # p => pc'[q] = pc[q] /\ known'[q] = known[q]
        /\ \/ held[p] = None /\ list' = list /\ pc' = pc
           \/ held[p] # None /\ ManagerDetaches(p) /\ pc'[p] \in {"detach", "exiting"}
    BY <1>2 DEF Loses, ExitDetaches, At, Goto, TypeOK
  <2>2. CASE list' = list /\ held[p] = None /\ pc' = pc
    <3>1. \A i \in Slot : list[i] # p
      BY <2>2, MitmConstantsOK DEF SlotsOK
    <3> QED BY <2>1, <2>2, <3>1 DEF SlotsOK, TypeOK
  <2>3. CASE held[p] # None /\ ManagerDetaches(p) /\ pc'[p] \in {"detach", "exiting"}
    <3>1. \A i \in Slot : list'[i] = IF list[i] = p THEN None ELSE list[i]
      BY <2>3, ManagerSteps
    <3>2. \A i \in Slot : list'[i] # None => list'[i] = list[i] /\ list[i] # p /\ list[i] \in Pad
      BY <3>1 DEF TypeOK
    <3>3. \A i \in Slot :
            list'[i] # None => held'[list'[i]] = i /\ pc'[list'[i]] \in Settled /\ known'[list'[i]]
      BY <2>1, <3>2 DEF SlotsOK
    <3>4. \A q \in Pad : held'[q] # None /\ pc'[q] \in Settled => list'[held'[q]] = q
      <4> SUFFICES ASSUME NEW q \in Pad, held[q] # None, pc'[q] \in Settled PROVE list'[held[q]] = q
        BY <2>1
      <4>1. q # p
        BY <2>3 DEF Settled
      <4>2. list[held[q]] = q /\ held[q] \in Slot
        BY <2>1, <4>1 DEF SlotsOK, TypeOK
      <4> QED BY <3>1, <4>1, <4>2
    <3>5. \A q \in Pad : pc'[q] = "absent" => held'[q] = None
      BY <2>1, <2>3 DEF SlotsOK
    <3>6. \A i \in Slot : lost'[i] # None => list'[i] = None /\ lost'[i] \notin Counted
      BY <2>1, <3>1 DEF SlotsOK
    <3> QED BY <3>3, <3>4, <3>5, <3>6 DEF SlotsOK
  <2> QED BY <2>1, <2>2, <2>3
<1>3. ASSUME NEW p \in Pad, Forgets(p) \/ ExitForgets(p)
      PROVE  SlotsOK'
  <2>1. /\ pc[p] \in {"detach", "exiting"} /\ held' = [held EXCEPT ![p] = None]
        /\ UNCHANGED <<list, lost, known>>
        /\ \A q \in Pad : q # p => pc'[q] = pc[q]
    BY <1>3 DEF Forgets, ExitForgets, At, Goto, TypeOK, slots
  <2>2. \A i \in Slot : list[i] # p
    BY <2>1, MitmConstantsOK DEF SlotsOK, Settled
  <2> QED BY <2>1, <2>2, MitmConstantsOK DEF SlotsOK, TypeOK
<1>4. ASSUME NEW p \in Pad, Attaches(p)
      PROVE  SlotsOK'
  <2>1. /\ pc[p] = "attach" /\ pc'[p] = "update" /\ \A q \in Pad : q # p => pc'[q] = pc[q]
        /\ UNCHANGED <<known, lost>> /\ known[p]
    BY <1>4, AttachesCases DEF TypeOK, ReattachOK
  <2>2. CASE UNCHANGED <<list, held>>
    <3>1. \A q \in Pad : /\ pc'[q] \in Settled <=> pc[q] \in Settled
                         /\ pc'[q] = "absent" <=> pc[q] = "absent"
      BY <2>1 DEF Settled
    <3>2. \A i \in Slot : list[i] \in Pad \cup {None}
      BY DEF TypeOK
    <3> QED BY <2>1, <2>2, <3>1, <3>2 DEF SlotsOK
  <2>3. CASE \E i \in Slot : /\ held[p] = None /\ list[i] = None /\ lost[i] = None
                             /\ list' = [list EXCEPT ![i] = p]
                             /\ held' = [held EXCEPT ![p] = i]
    <3>1. PICK i \in Slot : /\ held[p] = None /\ list[i] = None /\ lost[i] = None
                            /\ list' = [list EXCEPT ![i] = p]
                            /\ held' = [held EXCEPT ![p] = i]
      BY <2>3
    <3>2. /\ list'[i] = p /\ \A j \in Slot : j # i => list'[j] = list[j]
          /\ held'[p] = i /\ \A q \in Pad : q # p => held'[q] = held[q]
      BY <3>1 DEF TypeOK
    <3>3. \A j \in Slot : list[j] # p
      BY <3>1, MitmConstantsOK DEF SlotsOK
    <3>4. \A j \in Slot :
            list'[j] # None => held'[list'[j]] = j /\ pc'[list'[j]] \in Settled /\ known'[list'[j]]
      BY <2>1, <3>2, <3>3 DEF SlotsOK, Settled, TypeOK
    <3>5. \A q \in Pad : held'[q] # None /\ pc'[q] \in Settled => list'[held'[q]] = q
      <4> SUFFICES ASSUME NEW q \in Pad, q # p, held[q] # None, pc[q] \in Settled
                   PROVE  list'[held[q]] = q
        BY <2>1, <3>2
      <4>1. list[held[q]] = q /\ held[q] \in Slot
        BY DEF SlotsOK, TypeOK
      <4>2. held[q] # i
        BY <3>1, <4>1, MitmConstantsOK
      <4> QED BY <3>2, <4>1, <4>2
    <3>6. \A q \in Pad : pc'[q] = "absent" => held'[q] = None
      BY <2>1, <3>2 DEF SlotsOK
    <3>7. \A j \in Slot : lost'[j] # None => list'[j] = None /\ lost'[j] \notin Counted
      BY <2>1, <3>1, <3>2 DEF SlotsOK
    <3> QED BY <3>4, <3>5, <3>6, <3>7 DEF SlotsOK
  <2> QED BY <1>4, <2>2, <2>3, AttachesCases
<1>5. ASSUME NEW p \in Pad, UpdatesNull(p)
      PROVE  SlotsOK'
  <2>1. /\ UNCHANGED <<list, lost, held, known>> /\ held[p] = None /\ pc'[p] = "crashed"
        /\ \A q \in Pad : q # p => pc'[q] = pc[q]
    BY <1>5 DEF UpdatesNull, At, Goto, TypeOK, slots
  <2>2. \A i \in Slot : list[i] # p
    BY <2>1, MitmConstantsOK DEF SlotsOK
  <2> QED BY <2>1, <2>2, MitmConstantsOK DEF SlotsOK, TypeOK, Settled
<1>6. CASE Server
  BY <1>6 DEF Server, ServerAdds, ServerCreates, handler, slots, SlotsOK
<1>7. ASSUME NEW h \in Handler, Inserted(h) \/ ExitJoins(h)
      PROVE  SlotsOK'
  <2>1. /\ UNCHANGED <<list, lost, held, known>>
        /\ \A q \in Pad : \/ pc'[q] = pc[q]
                          \/ pc[q] = "absent" /\ pc'[q] = "idle"
                          \/ pc[q] = "idle" /\ pc'[q] = "exit"
    <3>1. CASE Inserted(h)
      BY <3>1 DEF Inserted, AllAt, AllGoto, Inputs, TypeOK, slots
    <3>2. CASE ExitJoins(h)
      BY <3>2 DEF ExitJoins, AllAt, AllGoto, Inputs, TypeOK, slots
    <3> QED BY <1>7, <3>1, <3>2
  <2> QED BY <2>1, MitmConstantsOK DEF SlotsOK, TypeOK, Settled
<1>8. ASSUME NEW h \in Handler, ExitEnds(h)
      PROVE  SlotsOK'
  <2>1. /\ \A q \in Pad : Owner[q] # h =>
               pc'[q] = pc[q] /\ held'[q] = held[q] /\ known'[q] = known[q]
        /\ \A q \in Pad : Owner[q] = h =>
               /\ pc[q] = "exit" /\ pc'[q] = "absent" /\ held'[q] = None
               /\ q \in Counted => held[q] = None
    BY <1>8 DEF ExitEnds, AllAt, AllGoto, Inputs, TypeOK
  <2>2. \A i \in Slot : /\ list'[i] = IF list[i] \in Inputs(h) THEN None ELSE list[i]
                        /\ lost'[i] = IF list[i] \in Inputs(h) THEN list[i] ELSE lost[i]
    BY <1>8 DEF ExitEnds
  <2>3. \A i \in Slot : list[i] \in Inputs(h) => list[i] \notin Counted
    BY <2>1, MitmConstantsOK DEF SlotsOK, Inputs
  <2>4. \A i \in Slot : list[i] \in Pad \/ list[i] = None
    BY DEF TypeOK
  <2>5. \A i \in Slot :
          list'[i] # None => held'[list'[i]] = i /\ pc'[list'[i]] \in Settled /\ known'[list'[i]]
    BY <2>1, <2>2, <2>4 DEF SlotsOK, Inputs
  <2>6. \A i \in Slot : lost'[i] # None => list'[i] = None /\ lost'[i] \notin Counted
    BY <2>2, <2>3 DEF SlotsOK
  <2>7. \A q \in Pad : held'[q] # None /\ pc'[q] \in Settled => list'[held'[q]] = q
    <3> SUFFICES ASSUME NEW q \in Pad, held'[q] # None, pc'[q] \in Settled PROVE list'[held'[q]] = q
      OBVIOUS
    <3>1. Owner[q] # h /\ held'[q] = held[q] /\ held[q] \in Slot
      BY <2>1 DEF TypeOK
    <3>2. list[held[q]] = q
      BY <2>1, <3>1 DEF SlotsOK
    <3> QED BY <2>2, <3>1, <3>2 DEF Inputs
  <2>8. \A q \in Pad : pc'[q] = "absent" => held'[q] = None
    BY <2>1 DEF SlotsOK
  <2> QED BY <2>5, <2>6, <2>7, <2>8 DEF SlotsOK
<1> QED BY <1>1, <1>2, <1>3, <1>4, <1>5, <1>6, <1>7, <1>8 DEF Next, Thread, Exit

\* Only a writer and the server change the memories.
LEMMA MemoryUnchanged ==
  ASSUME TypeOK, NEW p \in Pad,
         Reads(p) \/ Loses(p) \/ Forgets(p) \/ Attaches(p) \/ UpdatesNull(p) \/ Exit(p)
  PROVE  /\ UNCHANGED <<at, entries, pending, npad>> /\ pc[p] # "write" /\ pc'[p] # "write"
         /\ \A q \in Pad : q # p => pc'[q] = pc[q] /\ held'[q] = held[q] /\ report'[q] = report[q]
<1>1. CASE Attaches(p)
  <2>1. UNCHANGED <<report, at, memory>> /\ pc[p] = "attach" /\ pc' = [pc EXCEPT ![p] = "update"]
        /\ \A q \in Pad : q # p => held'[q] = held[q]
    BY <1>1, AttachesCases
  <2> QED BY <2>1 DEF TypeOK, memory
<1>2. CASE Reads(p)
  BY <1>2 DEF Reads, At, Goto, TypeOK, memory
<1>3. CASE Loses(p)
  BY <1>3 DEF Loses, At, Goto, TypeOK, memory
<1>4. CASE Forgets(p)
  BY <1>4 DEF Forgets, At, Goto, TypeOK, memory
<1>5. CASE UpdatesNull(p)
  BY <1>5 DEF UpdatesNull, At, Goto, TypeOK, memory
<1>6. CASE Exit(p)
  BY <1>6 DEF Exit, ExitDetaches, ExitForgets, At, Goto, TypeOK, memory
<1> QED BY <1>1, <1>2, <1>3, <1>4, <1>5, <1>6

\* A connected pad without a slot is about to ask for one.
LEMMA ReattachInv ==
  ASSUME Inv, Next
  PROVE  ReattachOK'
<1> USE DEF Inv
<1>1. ASSUME NEW p \in Pad, Thread(p) \/ Exit(p)
      PROVE  /\ \A q \in Pad : q # p => /\ pc'[q] = pc[q] /\ held'[q] = held[q]
                                        /\ known'[q] = known[q] /\ reattach'[q] = reattach[q]
             /\ pc'[p] \in {"idle", "attach"} /\ known'[p] /\ held'[p] = None => reattach'[p]
             /\ pc'[p] = "attach" => known'[p]
             /\ pc'[p] \in {"absent", "detach"} => ~known'[p]
  <2>2. CASE Reads(p)
    BY <2>2 DEF Reads, At, Goto, TypeOK, ReattachOK
  <2>3. CASE Loses(p)
    BY <2>3 DEF Loses, At, Goto, TypeOK, ReattachOK
  <2>4. CASE Forgets(p)
    BY <2>4 DEF Forgets, At, Goto, TypeOK, ReattachOK
  <2>5. CASE Attaches(p)
    <3>1. pc'[p] = "update" /\ known' = known
          /\ \A q \in Pad : q # p => pc'[q] = pc[q] /\ reattach'[q] = reattach[q]
      BY <2>5, AttachesCases DEF TypeOK
    <3> QED BY <2>5, <3>1, MemoryUnchanged
  <2>6. CASE UpdateLocks(p) \/ UpdatesNull(p)
    BY <2>6 DEF UpdateLocks, UpdatesNull, At, Goto, TypeOK
  <2>7. CASE Writes(p)
    BY <2>7 DEF Writes, ReattachOK
  <2>8. CASE UpdateUnlocks(p)
    BY <2>8 DEF UpdateUnlocks, At, Goto, TypeOK, LockOK
  <2>9. CASE Exit(p)
    BY <2>9 DEF Exit, ExitDetaches, ExitForgets, At, Goto, TypeOK
  <2> QED BY <1>1, <2>2, <2>3, <2>4, <2>5, <2>6, <2>7, <2>8, <2>9 DEF Thread
<1>2. ASSUME NEW p \in Pad, Thread(p) \/ Exit(p) PROVE ReattachOK'
  BY <1>1, <1>2 DEF ReattachOK
<1>3. CASE Server
  BY <1>3 DEF Server, ServerAdds, ServerCreates, handler, ReattachOK
<1>4. ASSUME NEW h \in Handler, HandlerMoves(h) PROVE ReattachOK'
  <2>1. CASE Inserted(h) \/ ExitJoins(h)
    BY <2>1 DEF Inserted, ExitJoins, AllAt, AllGoto, Inputs, TypeOK, ReattachOK
  <2>2. CASE ExitEnds(h)
    BY <2>2 DEF ExitEnds, AllAt, AllGoto, Inputs, TypeOK, ReattachOK
  <2> QED BY <1>4, <2>1, <2>2 DEF HandlerMoves
<1> QED BY <1>2, <1>3, <1>4 DEF Next, HandlerMoves

\* The mutex is held by whoever writes.
LEMMA LockInv ==
  ASSUME Inv, Next
  PROVE  LockOK'
<1> USE DEF Inv
<1>1. ASSUME NEW p \in Pad,
             Reads(p) \/ Loses(p) \/ Forgets(p) \/ UpdatesNull(p) \/ Exit(p)
      PROVE  LockOK'
  <2>1. /\ shm' = shm /\ pc[p] # "write" /\ pc'[p] # "write"
        /\ \A q \in Pad : q # p => pc'[q] = pc[q] /\ held'[q] = held[q] /\ report'[q] = report[q]
        /\ pc'[p] \in {"attach", "update"} => report'[p] \in Report
    <3>1. ASSUME Reads(p) \/ Loses(p) \/ UpdatesNull(p) \/ ExitDetaches(p)
          PROVE  held' = held
      BY <3>1 DEF Reads, Loses, UpdatesNull, ExitDetaches
    <3>2. ASSUME Forgets(p) \/ ExitForgets(p) PROVE \A q \in Pad : q # p => held'[q] = held[q]
      BY <3>2 DEF Forgets, ExitForgets, TypeOK
    <3>3. CASE Reads(p)
      BY <3>1, <3>3 DEF Reads, At, Goto, TypeOK
    <3>4. CASE ~Reads(p)
      BY <1>1, <3>1, <3>2, <3>4 DEF Loses, Forgets, UpdatesNull, Exit, ExitDetaches, ExitForgets,
                        At, Goto, TypeOK
    <3> QED BY <3>3, <3>4
  <2> QED BY <2>1 DEF LockOK, TypeOK
<1>2. ASSUME NEW p \in Pad, Attaches(p)
      PROVE  LockOK'
  <2>1. /\ UNCHANGED <<shm, report>> /\ pc[p] = "attach" /\ pc'[p] = "update"
        /\ \A q \in Pad : q # p => pc'[q] = pc[q] /\ held'[q] = held[q]
    <3>1. UNCHANGED <<shm, report>> /\ pc[p] = "attach" /\ pc'[p] = "update"
      BY <1>2, AttachesCases DEF TypeOK
    <3> QED BY <1>2, <3>1, MemoryUnchanged
  <2> QED BY <2>1 DEF LockOK, TypeOK
<1>3. ASSUME NEW p \in Pad, UpdateLocks(p)
      PROVE  LockOK'
  <2>1. /\ shm = None /\ shm' = p /\ pc[p] = "update" /\ pc'[p] = "write" /\ held[p] # None
        /\ UNCHANGED <<held, report>>
        /\ \A q \in Pad : q # p => pc'[q] = pc[q]
    BY <1>3 DEF UpdateLocks, At, Goto, TypeOK
  <2> QED BY <2>1, MitmConstantsOK DEF LockOK
<1>4. ASSUME NEW p \in Pad, Writes(p)
      PROVE  LockOK'
  BY <1>4 DEF Writes, LockOK
<1>5. ASSUME NEW p \in Pad, UpdateUnlocks(p)
      PROVE  LockOK'
  <2>1. /\ shm' = None /\ pc[p] = "write" /\ pc'[p] = "idle" /\ held' = held
        /\ \A q \in Pad : q # p => pc'[q] = pc[q] /\ report'[q] = report[q]
    BY <1>5 DEF UpdateUnlocks, At, Goto, TypeOK
  <2>2. shm = p
    BY <2>1 DEF LockOK
  <2> QED BY <2>1, <2>2, MitmConstantsOK DEF LockOK
<1>6. CASE Server
  BY <1>6 DEF Server, ServerAdds, ServerCreates, handler, LockOK
<1>7. ASSUME NEW h \in Handler, HandlerMoves(h) PROVE LockOK'
  <2>1. /\ UNCHANGED <<shm, report>>
        /\ \A q \in Pad : \/ pc'[q] = pc[q] /\ held'[q] = held[q]
                          \/ {pc[q], pc'[q]} \subseteq {"absent", "idle", "exit"}
    BY <1>7, HandlerSteps
  <2> QED BY <2>1 DEF LockOK
<1> QED BY <1>1, <1>2, <1>3, <1>4, <1>5, <1>6, <1>7 DEF Next, Thread, HandlerMoves

\* No pad writes into a memory that is not in the list yet.
LEMMA PendingInv ==
  ASSUME Inv, Next
  PROVE  PendingOK'
<1> USE DEF Inv
<1>1. ASSUME NEW p \in Pad, Writes(p) PROVE PendingOK'
  <2>1. pc[p] = "write" /\ at[p] \in 1 .. Len(entries)
    BY <1>1, LenProperties DEF Writes, At, TypeOK
  <2>2. entries[at[p]] \in Entered
    BY <2>1, LenProperties DEF Entered, TypeOK
  <2>3. entries' = entries /\ pending' = pending
    BY <1>1 DEF Writes
  <2>4. \A c \in Client : c # entries[at[p]] => npad'[c] = npad[c]
    BY <1>1 DEF Writes, TypeOK
  <2> QED BY <2>2, <2>3, <2>4 DEF PendingOK, Entered, TypeOK
<1>2. ASSUME NEW p \in Pad, ~Writes(p), Thread(p) \/ Exit(p)
      PROVE  PendingOK'
  <2>1. UNCHANGED <<entries, pending, npad>>
    BY <1>2, MemoryUnchanged DEF Thread, UpdateLocks, UpdateUnlocks, memory
  <2> QED BY <2>1 DEF PendingOK, Entered
<1>3. ASSUME NEW c \in Client, ServerCreates(c) PROVE PendingOK'
  <2>1. /\ pending' = c /\ c \notin Entered /\ entries' = entries
        /\ \A i \in Slot : npad'[c][i] = Console
    BY <1>3 DEF ServerCreates, TypeOK
  <2>2. Console.by = None
    BY DEF Console
  <2> QED BY <2>1, <2>2 DEF PendingOK, Entered
<1>4. CASE ServerAdds
  BY <1>4 DEF ServerAdds, PendingOK
<1>5. ASSUME NEW h \in Handler, HandlerMoves(h) PROVE PendingOK'
  <2>1. UNCHANGED <<entries, pending, npad>>
    BY <1>5, HandlerSteps
  <2> QED BY <2>1 DEF PendingOK, Entered
<1> QED BY <1>1, <1>2, <1>3, <1>4, <1>5 DEF Next, Server, Thread, HandlerMoves

\* Clients agree.
LEMMA AgreeInv ==
  ASSUME Inv, Next
  PROVE  AgreeOK'
<1> USE DEF Inv
<1>1. ASSUME NEW p \in Pad, UpdateLocks(p) PROVE AgreeOK'
  <2>1. /\ shm = None /\ pc'[p] = "write" /\ at'[p] = 1
        /\ UNCHANGED <<held, report, entries, npad>>
        /\ \A q \in Pad : pc[q] # "write"
        /\ \A q \in Pad : q # p => pc'[q] = pc[q]
    BY <1>1, MitmConstantsOK DEF UpdateLocks, At, Goto, TypeOK, LockOK, memory
  <2>2. \A c, d \in Entered', i \in Slot : Agree(c, d, i)'
    BY <2>1 DEF AgreeOK, Agree, Entered
  <2>3. \A k \in 1 .. Len(entries) : ~(k < at'[p])
    BY <2>1
  <2> QED BY <2>1, <2>2, <2>3 DEF AgreeOK
<1>2. ASSUME NEW p \in Pad, Writes(p) PROVE AgreeOK'
  <2> DEFINE new == [by |-> p, val |-> report[p]]
             here == entries[at[p]]
  <2>1. /\ pc[p] = "write" /\ at[p] \in 1 .. Len(entries) /\ here \in Client /\ held[p] \in Slot
        /\ UNCHANGED <<pc, held, report, entries>>
        /\ at' = [at EXCEPT ![p] = @ + 1]
        /\ npad' = [npad EXCEPT ![here][held[p]] = new]
    BY <1>2, LenProperties, ElementOfSeq DEF Writes, At, TypeOK, LockOK
  <2>2. \A q \in Pad : pc[q] = "write" => q = p
    BY <2>1 DEF LockOK
  <2>3. /\ npad'[here][held[p]] = new
        /\ \A c \in Client, i \in Slot : i # held[p] \/ c # here => npad'[c][i] = npad[c][i]
    BY <2>1 DEF TypeOK
  <2>4. Entered \subseteq Client /\ Entered' = Entered
    BY <2>1, LenProperties, ElementOfSeq DEF Entered, TypeOK
  <2>5. \A c, d \in Entered, i \in Slot : i # held[p] => Agree(c, d, i)'
    <3> SUFFICES ASSUME NEW c \in Entered, NEW d \in Entered, NEW i \in Slot, i # held[p]
                 PROVE  Agree(c, d, i)'
      OBVIOUS
    <3>1. Agree(c, d, i)
      BY <2>2 DEF AgreeOK
    <3> QED BY <2>3, <2>4, <3>1 DEF Agree
  <2>6. \A k \in 1 .. Len(entries) : k < at'[p] => npad'[entries[k]][held[p]] = new
    <3> SUFFICES ASSUME NEW k \in 1 .. Len(entries), k < at[p] + 1
                 PROVE  npad'[entries[k]][held[p]] = new
      BY <2>1 DEF TypeOK
    <3>1. k < at[p] \/ k = at[p]
      BY <2>1, LenProperties DEF TypeOK
    <3>2. k < at[p] => npad[entries[k]][held[p]] = new
      BY <2>1 DEF AgreeOK
    <3>3. entries[k] \in Client
      BY LenProperties, ElementOfSeq DEF TypeOK
    <3> QED BY <2>1, <2>3, <3>1, <3>2, <3>3
  <2> QED BY <2>1, <2>2, <2>4, <2>5, <2>6 DEF AgreeOK
<1>3. ASSUME NEW p \in Pad, UpdateUnlocks(p) PROVE AgreeOK'
  <2> DEFINE new == [by |-> p, val |-> report[p]]
  <2>1. /\ pc[p] = "write" /\ pc'[p] = "idle" /\ at[p] > Len(entries)
        /\ UNCHANGED <<held, entries, npad>>
        /\ \A q \in Pad : q # p => pc'[q] = pc[q]
    BY <1>3 DEF UpdateUnlocks, At, Goto, TypeOK, memory
  <2>2. \A q \in Pad : pc[q] = "write" => q = p
    BY <2>1 DEF LockOK
  <2>3. \A k \in 1 .. Len(entries) : npad[entries[k]][held[p]] = new
    <3> SUFFICES ASSUME NEW k \in 1 .. Len(entries) PROVE npad[entries[k]][held[p]] = new
      OBVIOUS
    <3>1. k < at[p]
      BY <2>1, LenProperties DEF TypeOK
    <3> QED BY <2>1, <3>1 DEF AgreeOK
  <2>4. \A c \in Entered : npad[c][held[p]] = new
    BY <2>3, LenProperties DEF Entered, TypeOK
  <2>5. \A c, d \in Entered, i \in Slot : Agree(c, d, i)
    <3> SUFFICES ASSUME NEW c \in Entered, NEW d \in Entered, NEW i \in Slot PROVE Agree(c, d, i)
      OBVIOUS
    <3>1. CASE i = held[p]
      BY <2>4, <3>1 DEF Agree
    <3>2. CASE i # held[p]
      BY <2>2, <3>2 DEF AgreeOK
    <3> QED BY <3>1, <3>2
  <2> QED BY <2>1, <2>2, <2>5 DEF AgreeOK, Agree, Entered
<1>4. ASSUME NEW p \in Pad,
             Reads(p) \/ Loses(p) \/ Forgets(p) \/ Attaches(p) \/ UpdatesNull(p) \/ Exit(p)
      PROVE  AgreeOK'
  <2>1. /\ UNCHANGED <<at, entries, npad>> /\ pc[p] # "write" /\ pc'[p] # "write"
        /\ \A q \in Pad : q # p => pc'[q] = pc[q] /\ held'[q] = held[q] /\ report'[q] = report[q]
    BY <1>4, MemoryUnchanged
  <2> QED BY <2>1 DEF AgreeOK, Agree, Entered
<1>5. ASSUME NEW c \in Client, ServerCreates(c) PROVE AgreeOK'
  <2>1. /\ c \notin Entered /\ UNCHANGED <<pc, held, report, at, entries>>
        /\ \A d \in Client : d # c => npad'[d] = npad[d]
    BY <1>5 DEF ServerCreates, TypeOK, handler
  <2>2. Entered \subseteq Client /\ Entered' = Entered
        /\ \A k \in 1 .. Len(entries) : entries[k] \in Entered
    BY <2>1, LenProperties, ElementOfSeq DEF Entered, TypeOK
  <2>3. \A d \in Entered : npad'[d] = npad[d]
    BY <2>1, <2>2
  <2> QED BY <2>1, <2>2, <2>3 DEF AgreeOK, Agree
<1>6. CASE ServerAdds
  <2>1. /\ shm = None /\ pending \in Client
        /\ UNCHANGED <<pc, held, report, at, npad>>
        /\ entries' = entries \/ entries' = Append(entries, pending)
    BY <1>6 DEF ServerAdds, TypeOK, handler
  <2>2. \A p \in Pad : pc[p] # "write"
    BY <2>1, MitmConstantsOK DEF LockOK
  <2>3. \A i \in Slot : npad[pending][i].by = None
    BY <1>6 DEF ServerAdds, PendingOK
  <2>4. Entered' \subseteq Entered \cup {pending}
    <3>1. entries \in Seq(Client)
      BY DEF TypeOK
    <3>2. CASE entries' = entries
      BY <3>2 DEF Entered
    <3>3. CASE entries' = Append(entries, pending)
      BY <2>1, <3>1, <3>3, EnteredGrows
    <3> QED BY <2>1, <3>2, <3>3
  <2>5. \A c, d \in Entered', i \in Slot : Agree(c, d, i)
    BY <2>2, <2>3, <2>4 DEF AgreeOK, Agree
  <2> QED BY <2>1, <2>2, <2>5 DEF AgreeOK, Agree
<1>7. ASSUME NEW h \in Handler, HandlerMoves(h) PROVE AgreeOK'
  <2>1. /\ UNCHANGED <<report, at, entries, npad>>
        /\ \A q \in Pad : \/ pc'[q] = pc[q] /\ held'[q] = held[q]
                          \/ pc[q] # "write" /\ pc'[q] # "write"
    BY <1>7, HandlerSteps
  <2> QED BY <2>1 DEF AgreeOK, Agree, Entered
<1> QED BY <1>1, <1>2, <1>3, <1>4, <1>5, <1>6, <1>7 DEF Next, Server, Thread, HandlerMoves

\* Every step keeps the invariant, which therefore always holds.
LEMMA Invariance == Spec => []Inv
<1>1. Inv /\ [Next]_vars => Inv'
  <2> SUFFICES ASSUME Inv, [Next]_vars PROVE Inv'
    OBVIOUS
  <2>1. CASE Next
    BY <2>1, TypeInv, SlotsInv, ReattachInv, LockInv, PendingInv, AgreeInv DEF Inv
  <2>2. CASE UNCHANGED vars
    <3>1. UNCHANGED <<pc, known, reattach, held, report, at, list, lost, shm, entries, pending, npad>>
      BY <2>2 DEF vars, handler, slots, memory
    <3> QED BY <3>1 DEF Inv, TypeOK, SlotsOK, ReattachOK, LockOK, PendingOK, AgreeOK, Agree, Entered
  <2> QED BY <2>1, <2>2
<1> QED BY <1>1, InitInv, PTL DEF Spec

\* Every variable keeps its type.
THEOREM TypeCorrect == Spec => []TypeOK
<1>1. Inv => TypeOK
  BY DEF Inv
<1> QED BY <1>1, Invariance, PTL

\* A taken slot belongs to a handler that lives and points back to it, and only the slots of inputs
\* that GetInputCount() does not count are ever lost.
THEOREM SlotsAreReturned == Spec => []NoSlotIsLost
<1>1. Inv => NoSlotIsLost
  BY DEF Inv, SlotsOK, NoSlotIsLost, Settled
<1> QED BY <1>1, Invariance, PTL

\* No two pads write as the same player.
THEOREM PlayersAreDistinct == Spec => []OneWriterPerSlot
<1>1. Inv => OneWriterPerSlot
  BY DEF Inv, SlotsOK, OneWriterPerSlot, Settled
<1> QED BY <1>1, Invariance, PTL

\* All games see the same state of a player when no update is under way.
THEOREM ClientsSeeTheSame == Spec => []ClientsAgree
<1>1. Inv => ClientsAgree
  BY MitmConstantsOK DEF Inv, AgreeOK, Agree, LockOK, ClientsAgree
<1> QED BY <1>1, Invariance, PTL

\* The list of memories does not change under an iterator.
THEOREM ListIsStable == Spec => NoPushDuringUpdate
<1>1. Inv /\ [Next]_vars => [entries' # entries => \A p \in Pad : pc[p] # "write"]_vars
  <2> SUFFICES ASSUME Inv, Next, entries' # entries PROVE \A p \in Pad : pc[p] # "write"
    OBVIOUS
  <2>1. ASSUME NEW p \in Pad, Thread(p) \/ Exit(p) PROVE FALSE
    BY <2>1, MemoryUnchanged DEF Thread, UpdateLocks, Writes, UpdateUnlocks, memory, Inv
  <2>2. ASSUME NEW h \in Handler, HandlerMoves(h) PROVE FALSE
    BY <2>2, HandlerSteps DEF Inv
  <2>3. shm = None
    BY <2>1, <2>2 DEF Next, Server, ServerAdds, ServerCreates, HandlerMoves
  <2> QED BY <2>3, MitmConstantsOK DEF Inv, LockOK
<1> QED BY <1>1, Invariance, PTL DEF Spec, NoPushDuringUpdate

-----------------------------------------------------------------------------
\* If no slot is free, and the connected pad p has none, then the connected pads and the lost slots
\* outnumber the slots: otherwise two slots would belong to one pad.
LEMMA FullMeansMorePads ==
  ASSUME Inv, NEW p \in Pad, known[p], held[p] = None, FreeSlots = {}
  PROVE  Cardinality({q \in Pad : known[q]}) + Cardinality({i \in Slot : lost[i] # None}) > NumSlots
<1> DEFINE live == {q \in Pad : known[q]}
           others == live \ {p}
           gone == {i \in Slot : lost[i] # None}
           taken == Slot \ gone
<1> USE DEF Inv
<1>1. IsFiniteSet(live) /\ Cardinality(live) \in Nat
  BY MitmConstantsOK, FS_Subset, FS_CardinalityType
<1>2. IsFiniteSet(others) /\ Cardinality(others) = Cardinality(live) - 1
  BY <1>1, FS_RemoveElement
<1>3. IsFiniteSet(Slot) /\ Cardinality(Slot) = NumSlots
  <2>1. 0 \in Int /\ NumSlots - 1 \in Int /\ NumSlots \in Nat
    BY MitmConstantsOK
  <2> QED BY <2>1, FS_Interval DEF Slot
<1>4. IsFiniteSet(gone) /\ Cardinality(gone) \in Nat
  BY <1>3, FS_Subset, FS_CardinalityType
<1>5. IsFiniteSet(taken) /\ Cardinality(taken) = NumSlots - Cardinality(gone)
  <2>1. gone \subseteq Slot
    OBVIOUS
  <2>2. Slot \cap gone = gone
    BY <2>1
  <2> QED BY <1>3, <2>2, FS_Difference
<1>6. \A i \in taken : list[i] \in others
  <2>1. \A i \in taken : list[i] \in Pad /\ held[list[i]] = i /\ known[list[i]]
    BY DEF FreeSlots, TypeOK, SlotsOK
  <2> QED BY <2>1, MitmConstantsOK
<1>7. \A i, j \in taken : i # j => list[i] # list[j]
  BY DEF FreeSlots, SlotsOK
<1>8. ~(Cardinality(others) < Cardinality(taken))
  <2> DEFINE f == [i \in taken |-> list[i]]
  <2>1. f \in [taken -> others]
    BY <1>6
  <2>2. \A i, j \in taken : i # j => f[i] # f[j]
    BY <1>7
  <2> HIDE DEF f, taken, others
  <2> QED BY <1>2, <1>5, <2>1, <2>2, FS_PigeonHole
<1> QED BY <1>1, <1>2, <1>4, <1>5, <1>8, MitmConstantsOK

\* A handler is refused a slot only when the connected pads and the lost slots outnumber the slots.
THEOREM RefusalsAreJustified == Spec => RefusedOnlyWhenFull
<1> DEFINE Justified ==
      \A p \in Pad :
        pc[p] = "attach" /\ pc'[p] = "update" /\ held'[p] = None =>
          Cardinality({q \in Pad : known[q]}) + Cardinality({i \in Slot : lost[i] # None}) > NumSlots
<1>1. Inv /\ [Next]_vars => [Justified]_vars
  <2> SUFFICES ASSUME Inv, Next, NEW p \in Pad,
                      pc[p] = "attach", pc'[p] = "update", held'[p] = None
               PROVE  Cardinality({q \in Pad : known[q]}) + Cardinality({i \in Slot : lost[i] # None})
                        > NumSlots
    BY DEF vars
  <2>1. Attaches(p)
    <3>1. ASSUME NEW q \in Pad, q # p, Thread(q) \/ Exit(q) PROVE FALSE
      BY <3>1, MemoryUnchanged DEF Thread, UpdateLocks, Writes, UpdateUnlocks, Goto, Inv, TypeOK
    <3>2. ~Server
      BY DEF Server, ServerCreates, ServerAdds, handler
    <3>3. ASSUME NEW h \in Handler, HandlerMoves(h) PROVE FALSE
      BY <3>3, HandlerSteps DEF Inv
    <3> QED
      BY <3>1, <3>2, <3>3 DEF Next, Thread, Exit, HandlerMoves, Reads, Loses, Forgets, UpdateLocks,
                              UpdatesNull, Writes, UpdateUnlocks, ExitDetaches, ExitForgets, At
  <2>2. known[p] /\ held[p] = None /\ FreeSlots = {}
    <3>1. PICK LplusR \in BOOLEAN :
            IF (reattach[p] \/ LplusR) /\ held[p] = None
            THEN ManagerAttaches(p) ELSE UNCHANGED <<list, held>>
      BY <2>1 DEF Attaches
    <3>2. held[p] = None
      BY <2>1, AttachesCases, MitmConstantsOK DEF Inv, TypeOK
    <3>3. known[p] /\ reattach[p]
      BY <3>2 DEF Inv, ReattachOK
    <3>4. ManagerAttaches(p)
      BY <3>1, <3>2, <3>3
    <3>5. FreeSlots = {}
      BY <3>2, <3>4, MitmConstantsOK DEF ManagerAttaches, FreeSlots, Inv, TypeOK
    <3> QED BY <3>2, <3>3, <3>5
  <2> QED BY <2>2, FullMeansMorePads
<1> QED BY <1>1, Invariance, PTL DEF Spec, RefusedOnlyWhenFull
=============================================================================

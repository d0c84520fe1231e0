-------------------------- MODULE PadHandler_proofs --------------------------
(***************************************************************************)
(* Proofs about PadHandler, for any number of endpoints: a pad that is off *)
(* is not shown, what is shown has a handle, and the handler leaves none   *)
(* of the devices behind that it counts.                                   *)
(***************************************************************************)
EXTENDS PadHandler, SequenceTheorems, TLAPS

\* What the console shows is connected and has a handle; what it dropped was connected, and
\* a pad that asks to be attached is not shown and was not dropped.
DeviceOK ==
  /\ \A i \in Input :
       /\ console[i] # "none" => known[i] /\ handle[i]
       /\ waived[i] => known[i]
       /\ reattach[i] => ~waived[i] /\ console[i] = "none"
  /\ pc = "attach" => known[idx]

\* The converse, for the inputs that GetInputCount() counts.
HandleOK == \A i \in Counted : handle[i] => console[i] # "none"

\* A pad that is off is disconnected, or its disconnect packet is the last that waits.
ConnectionOK ==
  owner \in {"serve", "join"} =>
    \A i \in Pad :
      /\ Wired => on[i]
      /\ ~on[i] =>
           \/ /\ queue[i] = <<>> /\ ~known[i] /\ ~connected[i]
              /\ ~(pc = "attach" /\ idx = i)
           \/ queue[i] # <<>> /\ queue[i][Len(queue[i])] = "disconnect"

\* The thread has ended when the owner detaches.
EndOK ==
  /\ owner \in {"detach", "gone"} => pc = "stopped"
  /\ owner = "gone" => \A i \in Counted : console[i] = "none"

Inv == TypeOK /\ DeviceOK /\ HandleOK /\ ConnectionOK /\ EndOK

-----------------------------------------------------------------------------
\* The index of the next endpoint wraps around.
LEMMA Wraps == \A n \in Nat : n % Endpoints \in Input
BY ConstantsOK DEF Input

\* What is left of a queue behind its n-th packet.
LEMMA RestProperties ==
  ASSUME NEW S, NEW s \in Seq(S), NEW n \in 1 .. Len(s)
  PROVE  /\ SubSeq(s, n + 1, Len(s)) \in Seq(S)
         /\ n = Len(s) => SubSeq(s, n + 1, Len(s)) = <<>>
         /\ n < Len(s) => /\ SubSeq(s, n + 1, Len(s)) # <<>>
                          /\ SubSeq(s, n + 1, Len(s))[Len(SubSeq(s, n + 1, Len(s)))] = s[Len(s)]
<1> DEFINE r == SubSeq(s, n + 1, Len(s))
<1>1. Len(s) \in Nat /\ n \in Nat /\ \A k \in 1 .. Len(s) : s[k] \in S
  BY LenProperties, ElementOfSeq
<1>2. /\ r \in Seq(S)
      /\ Len(r) = IF n + 1 <= Len(s) THEN Len(s) - (n + 1) + 1 ELSE 0
      /\ \A k \in 1 .. Len(s) - (n + 1) + 1 : r[k] = s[n + 1 + k - 1]
  <2>1. n + 1 \in Int /\ Len(s) \in Int /\ \A k \in n + 1 .. Len(s) : s[k] \in S
    BY <1>1
  <2> QED BY <2>1, SubSeqProperties
<1>3. n = Len(s) => r = <<>>
  BY <1>1, SubSeqEmpty
<1>4. n < Len(s) => r # <<>> /\ r[Len(r)] = s[Len(s)]
  <2> HIDE DEF r
  <2> SUFFICES ASSUME n < Len(s) PROVE r # <<>> /\ r[Len(r)] = s[Len(s)]
    OBVIOUS
  <2>1. Len(r) = Len(s) - n /\ Len(r) > 0
    BY <1>1, <1>2
  <2>2. r # <<>>
    BY <2>1, <1>2, EmptySeq
  <2>3. Len(r) \in 1 .. Len(s) - (n + 1) + 1 /\ n + 1 + Len(r) - 1 = Len(s)
    BY <1>1, <2>1
  <2>4. r[Len(r)] = s[n + 1 + Len(r) - 1]
    BY <1>2, <2>3
  <2> QED BY <2>2, <2>3, <2>4
<1> QED BY <1>2, <1>3, <1>4

-----------------------------------------------------------------------------
\* No pad is connected and no device shown at the start.
LEMMA InitInv == Init => Inv
<1> SUFFICES ASSUME Init PROVE Inv
  OBVIOUS
<1>1. TypeOK
  <2>1. 0 \in Input
    BY ConstantsOK DEF Input
  <2>2. <<>> \in Seq(Packet)
    BY EmptySeq
  <2> QED BY <2>1, <2>2, ConstantsOK DEF Init, TypeOK, All, Packet, Data
<1> QED
  BY <1>1, ConstantsOK DEF Init, Inv, DeviceOK, HandleOK, ConnectionOK, EndOK, All, Counted, Pad

\* A packet joins a queue, a pad is switched on or off, the console drops a device.
LEMMA OutsideInv ==
  ASSUME Inv, Outside
  PROVE  Inv'
<1> USE DEF Inv
<1>1. ASSUME NEW i \in Input, NEW p \in Packet, Send(i, p), on' \in [Input -> BOOLEAN],
             \A j \in Input : j # i => on'[j] = on[j],
             Wired => on' = on, i \in Pad => on'[i] \/ p = "disconnect", owner \in {"serve", "join"}
      PROVE  Inv'
  <2>1. /\ queue' = [queue EXCEPT ![i] = Append(@, p)] /\ queue[i] \in Seq(Packet)
        /\ queue \in [Input -> Seq(Packet)]
    BY <1>1 DEF Send, TypeOK
  <2>2. /\ Append(queue[i], p) \in Seq(Packet) /\ Append(queue[i], p) # <<>>
        /\ Append(queue[i], p)[Len(Append(queue[i], p))] = p
    BY <1>1, <2>1, AppendProperties, LenProperties, EmptySeq
  <2>3. queue' \in [Input -> Seq(Packet)] /\ queue'[i] = Append(queue[i], p)
        /\ \A j \in Input : j # i => queue'[j] = queue[j]
    BY <2>1, <2>2
  <2>4. TypeOK'
    BY <1>1, <2>3 DEF Send, TypeOK, sweep, state, virtual
  <2>5. DeviceOK' /\ HandleOK' /\ EndOK'
    BY <1>1 DEF Send, DeviceOK, HandleOK, EndOK, sweep, state, virtual
  <2>6. ConnectionOK'
    <3> SUFFICES ASSUME owner \in {"serve", "join"}, NEW j \in Pad
                 PROVE /\ Wired => on'[j]
                       /\ ~on'[j] =>
                            \/ queue'[j] = <<>> /\ ~known[j] /\ ~connected[j]
                               /\ ~(pc = "attach" /\ idx = j)
                            \/ queue'[j] # <<>> /\ queue'[j][Len(queue'[j])] = "disconnect"
      BY <1>1 DEF Send, ConnectionOK, sweep, state, virtual
    <3>1. j \in Input
      BY DEF Pad
    <3>2. CASE j = i
      BY <1>1, <2>2, <2>3, <3>1, <3>2 DEF ConnectionOK
    <3>3. CASE j # i
      BY <1>1, <2>3, <3>1, <3>3 DEF ConnectionOK
    <3> QED BY <3>2, <3>3
  <2> QED BY <2>4, <2>5, <2>6
<1>2. ASSUME NEW i \in Input, ConsoleDrops(i), owner \in {"serve", "join"} PROVE Inv'
  <2>1. TypeOK'
    BY <1>2 DEF ConsoleDrops, TypeOK, pads, sweep, state
  <2>2. DeviceOK' /\ HandleOK' /\ EndOK' /\ ConnectionOK'
    BY <1>2 DEF ConsoleDrops, TypeOK, DeviceOK, HandleOK, EndOK, ConnectionOK, Counted, pads, sweep, state
  <2> QED BY <2>1, <2>2
<1>3. PICK i \in Input :
        \/ SwitchOn(i) \/ SwitchOff(i) \/ ConsoleDrops(i)
        \/ \E p \in Data : Report(i, p)
  BY DEF Outside
<1>4. owner \in {"serve", "join"}
  BY DEF Outside
<1>5. CASE SwitchOn(i)
  BY <1>1, <1>4, <1>5 DEF SwitchOn, Packet, TypeOK
<1>6. CASE SwitchOff(i)
  BY <1>1, <1>4, <1>6 DEF SwitchOff, Packet, TypeOK
<1>7. CASE ConsoleDrops(i)
  BY <1>2, <1>4, <1>7
<1>8. CASE \E p \in Data : Report(i, p)
  BY <1>1, <1>4, <1>8 DEF Report, Packet, TypeOK
<1> QED BY <1>3, <1>5, <1>6, <1>7, <1>8

\* Whatever the connection turns out to be, devices and handles follow it.
LEMMA FollowKeeps ==
  ASSUME Inv, NEW i \in Input, NEW now \in BOOLEAN, Follow(i, now)
  PROVE  /\ known' \in [Input -> BOOLEAN] /\ reattach' \in [Input -> BOOLEAN]
         /\ handle' \in [Input -> BOOLEAN] /\ waived' \in [Input -> BOOLEAN]
         /\ console' \in [Input -> {"none", "shown", "dropped"}]
         /\ known' = [known EXCEPT ![i] = now]
         /\ \A j \in Input :
              /\ console'[j] # "none" => known'[j] /\ handle'[j]
              /\ waived'[j] => known'[j]
              /\ reattach'[j] => ~waived'[j] /\ console'[j] = "none"
         /\ HandleOK'
<1> USE DEF Inv
<1>1. CASE known[i] /\ ~now
  <2>1. /\ known' = [known EXCEPT ![i] = FALSE]
        /\ handle' = [handle EXCEPT ![i] = FALSE]
        /\ console' = IF handle[i] THEN [console EXCEPT ![i] = "none"] ELSE console
        /\ waived' = [waived EXCEPT ![i] = FALSE]
    BY <1>1 DEF Follow, Detach
  <2>2. reattach' = reattach
    BY <1>1 DEF Follow, TypeOK
  <2>3. console'[i] = "none" /\ \A j \in Input : j # i => console'[j] = console[j]
    BY <2>1 DEF TypeOK, DeviceOK
  <2>4. console' \in [Input -> {"none", "shown", "dropped"}]
    BY <2>1 DEF TypeOK
  <2> QED BY <1>1, <2>1, <2>2, <2>3, <2>4 DEF TypeOK, DeviceOK, HandleOK, Counted
<1>2. CASE ~(known[i] /\ ~now)
  BY <1>2 DEF Follow, KeepsDevice, virtual, TypeOK, DeviceOK, HandleOK, Counted
<1> QED BY <1>1, <1>2

\* The last of the packets that were read decides; those behind it still wait.
LEMMA ReceiveInv ==
  ASSUME Inv, NEW i \in Input, Receive(i), pc \in {"sweep", "block"},
         probe' \in 0 .. Endpoints, current' \in Input
  PROVE  Inv'
<1> USE DEF Inv
<1>1. PICK n \in 1 .. Len(queue[i]) :
        LET p == queue[i][n] IN
        /\ queue' = [queue EXCEPT ![i] = SubSeq(@, n + 1, Len(@))]
        /\ idx' = i /\ packet' = p
        /\ connected' = Parsed(i, p)
        /\ \E now \in Answers(Parsed(i, p), i) :
             /\ Follow(i, now)
             /\ pc' = IF i \in Pad /\ p \in Data /\ now THEN "attach" ELSE "loop"
        /\ UNCHANGED <<on, running, owner>>
  BY DEF Receive
<1> DEFINE p == queue[i][n]
           rest == SubSeq(queue[i], n + 1, Len(queue[i]))
<1>2. queue[i] \in Seq(Packet) /\ Len(queue[i]) \in Nat /\ p \in Packet
  BY LenProperties, ElementOfSeq DEF TypeOK
<1>3. /\ rest \in Seq(Packet)
      /\ n = Len(queue[i]) => rest = <<>>
      /\ n < Len(queue[i]) => rest # <<>> /\ rest[Len(rest)] = queue[i][Len(queue[i])]
  BY <1>2, RestProperties
<1>4. /\ queue' \in [Input -> Seq(Packet)] /\ queue'[i] = rest
      /\ \A j \in Input : j # i => queue'[j] = queue[j]
  BY <1>1, <1>3 DEF TypeOK
<1>5. /\ connected' \in [Input -> BOOLEAN]
      /\ \A j \in Input : j # i => connected'[j] = connected[j]
      /\ ~Wired /\ i \in Pad /\ p = "disconnect" => ~connected'[i]
  BY <1>1, <1>2, ConstantsOK
  DEF Parsed, ParsedWireless, ParsedSteam, OnControllerConnect, OnControllerDisconnect, Wired, TypeOK
<1>6. PICK now \in BOOLEAN :
        /\ Follow(i, now)
        /\ pc' = IF i \in Pad /\ p \in Data /\ now THEN "attach" ELSE "loop"
        /\ i \in Pad => now = (Wired \/ connected'[i])
  BY <1>1, <1>5 DEF Answers, TypeOK
<1>7. known' = [known EXCEPT ![i] = now]
  BY <1>6, FollowKeeps
<1>8. pc' \in {"attach", "loop"} /\ (pc' = "attach" => p \in Data /\ now)
  BY <1>6
<1>9. TypeOK'
  BY <1>1, <1>2, <1>4, <1>5, <1>6, <1>8, FollowKeeps DEF TypeOK
<1>10. DeviceOK' /\ HandleOK'
  BY <1>1, <1>6, <1>7, <1>8, FollowKeeps DEF DeviceOK, TypeOK
<1>11. EndOK'
  BY <1>1 DEF EndOK
<1>12. ConnectionOK'
  <2> SUFFICES ASSUME owner \in {"serve", "join"}, NEW j \in Pad
               PROVE /\ Wired => on[j]
                     /\ ~on[j] =>
                          \/ /\ queue'[j] = <<>> /\ ~known'[j] /\ ~connected'[j]
                             /\ ~(pc' = "attach" /\ idx' = j)
                          \/ queue'[j] # <<>> /\ queue'[j][Len(queue'[j])] = "disconnect"
    BY <1>1 DEF ConnectionOK
  <2> j \in Input
    BY DEF Pad
  <2>1. CASE j # i
    BY <1>1, <1>4, <1>5, <1>7, <2>1 DEF ConnectionOK, TypeOK
  <2>2. CASE j = i /\ n < Len(queue[i])
    <3>1. queue[i] # <<>>
      BY <1>2, <2>2, EmptySeq
    <3>2. (Wired => on[i]) /\ (~on[i] => queue[i][Len(queue[i])] = "disconnect")
      BY <3>1, <2>2 DEF ConnectionOK
    <3> QED BY <1>3, <1>4, <2>2, <3>2
  <2>3. CASE j = i /\ n = Len(queue[i])
    <3>1. ~on[i] => p = "disconnect" /\ ~Wired
      BY <2>3, <1>2, EmptySeq DEF ConnectionOK
    <3>2. ~on[i] => ~connected'[i] /\ ~known'[i] /\ pc' # "attach"
      BY <3>1, <1>5, <1>6, <1>7, <1>8, <2>3 DEF Data, TypeOK
    <3> QED BY <2>3, <1>3, <1>4, <3>2 DEF ConnectionOK
  <2> QED BY <2>1, <2>2, <2>3, <1>2
<1> QED BY <1>9, <1>10, <1>11, <1>12

\* The input thread.
LEMMA ThreadInv ==
  ASSUME Inv, Thread
  PROVE  Inv'
<1> USE DEF Inv
<1>1. CASE ProbeMisses
  BY <1>1, ConstantsOK DEF ProbeMisses, TypeOK, DeviceOK, HandleOK, ConnectionOK, EndOK,
                          pads, state, virtual
<1>2. CASE ProbeHits
  <2>1. Probed \in Input /\ (Probed + 1) % Endpoints \in Input
    <3>1. current + probe \in Nat
      BY DEF TypeOK, Input
    <3>2. Probed \in Input
      BY <3>1, Wraps DEF Probed
    <3> QED BY <3>2, Wraps DEF Input
  <2>2. probe' \in 0 .. Endpoints
    BY <1>2, ConstantsOK DEF ProbeHits
  <2> QED BY <1>2, <2>1, <2>2, ReceiveInv DEF ProbeHits
<1>3. CASE SweepEnds
  <2>1. (current + 1) % Endpoints \in Input
    <3>1. current + 1 \in Nat
      BY DEF TypeOK, Input
    <3> QED BY <3>1, Wraps
  <2> QED
    BY <1>3, <2>1 DEF SweepEnds, TypeOK, DeviceOK, HandleOK, ConnectionOK, EndOK,
                      pads, state, virtual
<1>4. CASE BlockHits
  BY <1>4, ReceiveInv DEF BlockHits, sweep, TypeOK
<1>5. CASE BlockEnds
  <2>1. 0 \in Pad /\ 0 \in Input
    BY ConstantsOK DEF Input, Pad
  <2>2. PICK now \in BOOLEAN : Follow(0, now) /\ now = (Wired \/ connected[0])
    BY <1>5, <2>1 DEF BlockEnds, Answers, TypeOK
  <2>3. known' = [known EXCEPT ![0] = now]
    BY <2>1, <2>2, FollowKeeps
  <2>4. TypeOK'
    BY <1>5, <2>1, <2>2, FollowKeeps DEF BlockEnds, TypeOK, pads, sweep
  <2>5. DeviceOK' /\ HandleOK'
    BY <1>5, <2>1, <2>2, FollowKeeps DEF BlockEnds, DeviceOK
  <2>6. ConnectionOK' /\ EndOK'
    BY <1>5, <2>2, <2>3 DEF BlockEnds, ConnectionOK, EndOK, TypeOK, Pad, pads
  <2> QED BY <2>4, <2>5, <2>6
<1>6. CASE Attach
  <2>1. /\ pc = "attach" /\ pc' = "update" /\ idx \in Input /\ known[idx]
        /\ reattach' = [reattach EXCEPT ![idx] = FALSE]
        /\ UNCHANGED <<on, queue, current, probe, idx, packet, connected, known, running, owner>>
    BY <1>6 DEF Attach, DeviceOK, TypeOK, pads, sweep
  <2>2. ConnectionOK' /\ EndOK'
    <3>1. owner \notin {"detach", "gone"}
      BY <2>1 DEF EndOK
    <3> QED BY <2>1, <3>1 DEF ConnectionOK, EndOK
  <2>3. CASE AsksToAttach(idx) /\ ~handle[idx]
    <3>1. PICK accepted \in BOOLEAN :
            /\ handle' = [handle EXCEPT ![idx] = accepted]
            /\ console' = [console EXCEPT ![idx] = IF accepted THEN "shown" ELSE @]
            /\ waived' = [waived EXCEPT ![idx] = FALSE]
      BY <1>6, <2>3 DEF Attach
    <3>2. console[idx] = "none"
      BY <2>1, <2>3 DEF DeviceOK
    <3>3. TypeOK'
      BY <2>1, <3>1 DEF TypeOK
    <3>4. DeviceOK'
      BY <2>1, <3>1, <3>2 DEF DeviceOK, TypeOK
    <3>5. HandleOK'
      BY <2>1, <3>1 DEF HandleOK, TypeOK, Counted
    <3> QED BY <2>2, <3>3, <3>4, <3>5
  <2>4. CASE ~(AsksToAttach(idx) /\ ~handle[idx])
    <3>1. UNCHANGED <<console, handle, waived>>
      BY <1>6, <2>4 DEF Attach, KeepsDevice, virtual
    <3>2. TypeOK' /\ HandleOK'
      BY <2>1, <3>1 DEF TypeOK, HandleOK
    <3>3. DeviceOK'
      BY <2>1, <3>1 DEF DeviceOK, TypeOK
    <3> QED BY <2>2, <3>2, <3>3
  <2> QED BY <2>3, <2>4
<1>7. CASE Update
  <2>1. /\ pc = "update" /\ pc' = "loop" /\ idx \in Input
        /\ UNCHANGED <<on, queue, current, probe, idx, packet, connected, known, reattach, waived,
                      running, owner>>
    BY <1>7 DEF Update, KeepsDevice, TypeOK, pads, sweep, state, virtual
  <2>2. ConnectionOK' /\ EndOK'
    <3>1. owner \notin {"detach", "gone"}
      BY <2>1 DEF EndOK
    <3> QED BY <2>1, <3>1 DEF ConnectionOK, EndOK
  <2>3. CASE handle[idx] /\ console[idx] # "shown"
    <3>1. /\ handle' = [handle EXCEPT ![idx] = FALSE]
          /\ console' = [console EXCEPT ![idx] = "none"]
      BY <1>7, <2>3 DEF Update
    <3>2. TypeOK'
      BY <2>1, <3>1 DEF TypeOK
    <3>3. DeviceOK' /\ HandleOK'
      BY <2>1, <3>1 DEF DeviceOK, HandleOK, TypeOK, Counted
    <3> QED BY <2>2, <3>2, <3>3
  <2>4. CASE ~(handle[idx] /\ console[idx] # "shown")
    <3>1. UNCHANGED <<console, handle>>
      BY <1>7, <2>4 DEF Update, KeepsDevice, virtual
    <3> QED BY <2>1, <2>2, <3>1 DEF TypeOK, DeviceOK, HandleOK
  <2> QED BY <2>3, <2>4
<1>8. CASE Loop
  BY <1>8, ConstantsOK DEF Loop, TypeOK, DeviceOK, HandleOK, ConnectionOK, EndOK, Input,
                          Packet, Data, pads, sweep, state, virtual
<1> QED BY <1>1, <1>2, <1>3, <1>4, <1>5, <1>6, <1>7, <1>8 DEF Thread

\* The owner's Exit.
LEMMA OwnerInv ==
  ASSUME Inv, Owner
  PROVE  Inv'
<1> USE DEF Inv
<1>1. CASE OwnerStops
  BY <1>1 DEF OwnerStops, TypeOK, DeviceOK, HandleOK, ConnectionOK, EndOK,
              pads, sweep, state, virtual
<1>2. CASE OwnerCloses
  BY <1>2 DEF OwnerCloses, TypeOK, DeviceOK, HandleOK, ConnectionOK, EndOK,
              All, sweep, virtual
<1>3. CASE OwnerDetaches
  BY <1>3 DEF OwnerDetaches, TypeOK, DeviceOK, HandleOK, ConnectionOK, EndOK,
              Counted, pads, sweep, state
<1> QED BY <1>1, <1>2, <1>3 DEF Owner

\* Every step keeps the invariant, which therefore always holds.
LEMMA Invariance == Spec => []Inv
<1>1. Inv /\ [Next]_vars => Inv'
  <2> SUFFICES ASSUME Inv, [Next]_vars PROVE Inv'
    OBVIOUS
  <2>1. CASE UNCHANGED vars
    BY <2>1 DEF vars, pads, sweep, state, virtual, Inv, TypeOK, DeviceOK, HandleOK,
                ConnectionOK, EndOK
  <2> QED BY <2>1, ThreadInv, OwnerInv, OutsideInv DEF Next, Destroyed
<1> QED BY <1>1, InitInv, PTL DEF Spec

\* Every variable keeps its type; the index of the next endpoint never leaves the pipes.
THEOREM TypeCorrect == Spec => []TypeOK
<1>1. Inv => TypeOK
  BY DEF Inv
<1> QED BY <1>1, Invariance, PTL

\* A pad that is off, and whose last packet was read, is shown to no game, whatever the
\* drain skipped before that packet.
THEOREM OffMeansGone == Spec => []NoGhostPad
<1>1. Inv => NoGhostPad
  BY DEF Inv, NoGhostPad, ConnectionOK, DeviceOK, Pad
<1> QED BY <1>1, Invariance, PTL

\* If GetInputCount() covers the endpoints, then sys-con and the console agree on the devices.
THEOREM HandlesAgree ==
  ASSUME InputCount = Endpoints
  PROVE  Spec => []HandlesMatch
<1>1. Inv => HandlesMatch
  <2>1. Counted = Input
    BY ConstantsOK DEF Counted, Input
  <2> QED BY <2>1 DEF Inv, HandlesMatch, DeviceOK, HandleOK, TypeOK
<1> QED BY <1>1, Invariance, PTL

\* ... and a handler that was destroyed leaves none of them behind.
THEOREM NoneLeftBehind ==
  ASSUME InputCount = Endpoints
  PROVE  Spec => []NothingShownAtEnd
<1>1. Inv => NothingShownAtEnd
  <2>1. Counted = Input
    BY ConstantsOK DEF Counted, Input
  <2> QED BY <2>1 DEF Inv, NothingShownAtEnd, EndOK
<1> QED BY <1>1, Invariance, PTL

\* A device that the console dropped is attached again only by L+R (or by a reconnection,
\* which ends the wait for it).
THEOREM OnlyTheUserReattaches == Spec => DroppedStaysDropped
<1> DEFINE Kept == \A i \in Input : waived[i] /\ ~handle[i] /\ handle'[i] => packet = "L+R"
<1>1. Inv /\ [Next]_vars => [Kept]_vars
  <2> SUFFICES ASSUME Inv, Next PROVE Kept
    OBVIOUS
  <2>1. CASE Attach
    BY <2>1 DEF Attach, AsksToAttach, KeepsDevice, virtual, Inv, DeviceOK, TypeOK
  <2>2. ASSUME NEW i \in Input, NEW now, Follow(i, now) PROVE Kept
    BY <2>2 DEF Follow, Detach, KeepsDevice, virtual, Inv, TypeOK
  <2>3. CASE Thread /\ ~Attach
    <3>1. CASE ProbeHits
      <4>1. Probed \in Input
        <5>1. current + probe \in Nat
          BY DEF Inv, TypeOK, Input
        <5> QED BY <5>1, Wraps DEF Probed
      <4> QED BY <3>1, <4>1, <2>2 DEF ProbeHits, Receive
    <3>2. CASE BlockHits
      BY <3>2, <2>2 DEF BlockHits, Receive, Inv, TypeOK
    <3>3. CASE BlockEnds
      <4>1. 0 \in Input
        BY ConstantsOK DEF Input
      <4> QED BY <3>3, <4>1, <2>2 DEF BlockEnds
    <3>4. CASE Update
      BY <3>4 DEF Update, KeepsDevice, virtual, Inv, TypeOK
    <3>5. CASE ProbeMisses \/ SweepEnds \/ Loop
      BY <3>5 DEF ProbeMisses, SweepEnds, Loop, virtual
    <3> QED BY <2>3, <3>1, <3>2, <3>3, <3>4, <3>5 DEF Thread
  <2>4. CASE Owner
    BY <2>4 DEF Owner, OwnerStops, OwnerCloses, OwnerDetaches, virtual, Inv, TypeOK
  <2>5. CASE Outside \/ Destroyed
    BY <2>5 DEF Outside, SwitchOn, SwitchOff, Report, Send, ConsoleDrops, Destroyed, vars, virtual
  <2> QED BY <2>1, <2>3, <2>4, <2>5 DEF Next
<1> QED BY <1>1, Invariance, PTL DEF Spec, DroppedStaysDropped

=============================================================================

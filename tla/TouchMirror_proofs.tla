-------------------------- MODULE TouchMirror_proofs --------------------------
(***************************************************************************)
(* Proofs about TouchMirror, for any clients and any size of the rings:    *)
(* comparing the real ring's tail with the fake ring's skips nothing that  *)
(* the game has not seen, and the game never sees an older sample again.   *)
(***************************************************************************)
EXTENDS TouchMirror, SequenceTheorems, TLAPS

\* The two tails are lag samples apart, modulo the size of the rings.
TailOK ==
  \A c \in Client :
    /\ c \in created => tail[c] = fakeTail[c] + lag[c] \/ tail[c] = fakeTail[c] + lag[c] - BufferCount
    /\ c \notin created => lag[c] = 0

\* A ring that is not full has lost no more samples than it has; one that is full is looked at
\* between two samples, and each look catches up with one.
LagOK ==
  \A c \in created :
    /\ count[c] < BufferCount - 1 => lag[c] <= count[c] /\ ~Busy(c)
    /\ ~Busy(c) => lag[c] <= IF visited[c] /\ count[c] = BufferCount - 1
                             THEN BufferCount - 2 ELSE BufferCount - 1
    /\ Busy(c) => /\ lag[c] >= IF visited[c] THEN 1 ELSE 2
                  /\ lag[c] <= IF visited[c] THEN BufferCount - 1 ELSE BufferCount

\* What the thread copies is the newest sample, or the one before it.
CopyOK ==
  \A c \in created :
    Busy(c) =>
      /\ visited[c] => seen = tail[c]
      /\ ~visited[c] => /\ newest[c] >= 1 /\ tail[c] = Next1(seen)
                        /\ real[c][seen] = newest[c] - 1 /\ Shown(c) <= newest[c] - 1
      /\ pc = "push" => tmp = real[c][seen]

\* The tail points at the newest sample, and so does the fake ring's if it is not behind.
ShownOK ==
  /\ \A c \in Client : real[c][tail[c]] = newest[c]
  /\ \A c \in created : Shown(c) <= newest[c] /\ (lag[c] = 0 => Shown(c) = newest[c])

Inv == TypeOK /\ TailOK /\ LagOK /\ CopyOK /\ ShownOK

-----------------------------------------------------------------------------
\* The successor of a cell is another cell.
LEMMA NextCell ==
  ASSUME NEW i \in Cell
  PROVE  /\ Next1(i) \in Cell /\ Next1(i) # i
         /\ Next1(i) = i + 1 \/ Next1(i) = i + 1 - BufferCount
BY TouchConstantsOK DEF Cell, Next1

\* While the thread is busy, it is so with an entry of the list.
LEMMA BusyIsEntered ==
  ASSUME TypeOK, NEW c, Busy(c)
  PROVE  c \in Client /\ c \in Entered /\ c \in created
<1>1. at \in 1 .. Len(entries) /\ entries[at] = c /\ entries \in Seq(Client)
  BY LenProperties DEF Busy, TypeOK
<1>2. at \in DOMAIN entries /\ entries[at] \in Client
  BY <1>1, LenProperties, ElementOfSeq
<1> QED BY <1>1, <1>2 DEF Entered, TypeOK

\* No memory has been created at the start.
LEMMA InitInv == Init => Inv
<1> SUFFICES ASSUME Init PROVE Inv
  OBVIOUS
<1>1. 0 \in Cell /\ 0 \in Sample /\ 0 \in 0 .. BufferCount
  BY TouchConstantsOK DEF Cell, Sample
<1>2. <<>> \in Seq(Client) /\ Entered = {}
  BY EmptySeq DEF Init, Entered
<1>3. TypeOK
  BY <1>1, <1>2 DEF Init, TypeOK
<1> QED BY <1>1, <1>3 DEF Init, Inv, TailOK, LagOK, CopyOK, ShownOK

\* A new sample: the thread has looked at the memory since the last one.
LEMMA PublishInv ==
  ASSUME Inv, NEW c \in Client, Publish(c)
  PROVE  Inv'
<1> USE DEF Inv
<1> DEFINE n == newest[c] + 1
           i == Next1(tail[c])
<1>1. /\ n \in Sample /\ n \in Nat /\ i \in Cell /\ i # tail[c] /\ tail[c] \in Cell
      /\ i = tail[c] + 1 \/ i = tail[c] + 1 - BufferCount
  <2>1. tail[c] \in Cell
    BY DEF TypeOK
  <2>2. n \in Sample /\ n \in Nat
    BY TouchConstantsOK DEF Publish, TypeOK, Sample
  <2> QED BY <2>1, <2>2, NextCell
<1>2. /\ newest'[c] = n /\ tail'[c] = i /\ real'[c][i] = n
      /\ \A k \in Cell : k # i => real'[c][k] = real[c][k]
      /\ count'[c] = IF count[c] + 1 < BufferCount THEN count[c] + 1 ELSE count[c]
      /\ lag'[c] = IF c \in created THEN lag[c] + 1 ELSE lag[c]
      /\ ~visited'[c]
      /\ \A d \in Client : d # c =>
           /\ newest'[d] = newest[d] /\ tail'[d] = tail[d] /\ real'[d] = real[d]
           /\ count'[d] = count[d] /\ lag'[d] = lag[d] /\ visited'[d] = visited[d]
      /\ UNCHANGED <<fake, fakeTail, prevTail, entries, created, running, pc, at, seen, tmp>>
  BY <1>1 DEF Publish, TypeOK, mirror, local
<1>3. \A d \in Client : Busy(d)' = Busy(d) /\ Shown(d)' = Shown(d)
  BY <1>2 DEF Busy, Shown
<1>4. /\ count[c] \in Nat /\ count[c] <= BufferCount - 1 /\ lag[c] \in Nat /\ newest[c] \in Nat
      /\ BufferCount \in Nat /\ BufferCount >= 3
      /\ c \in created => visited[c]
  BY TouchConstantsOK DEF Publish, TypeOK, Cell, Sample
<1>5. c \in created => /\ count[c] < BufferCount - 1 => lag[c] <= count[c] /\ ~Busy(c)
                       /\ ~Busy(c) => lag[c] <= BufferCount - 2
                       /\ Busy(c) => lag[c] >= 1 /\ lag[c] <= BufferCount - 1
  BY <1>4 DEF LagOK
<1>6. TypeOK'
  <2>1. lag' \in [Client -> 0 .. BufferCount]
    BY <1>4, <1>5 DEF Publish, TypeOK
  <2>2. count' \in [Client -> Cell]
    BY <1>4 DEF Publish, TypeOK, Cell
  <2>3. real' \in [Client -> [Cell -> Sample]] /\ newest' \in [Client -> Sample] /\ tail' \in [Client -> Cell]
    BY <1>1 DEF Publish, TypeOK
  <2>4. visited' \in [Client -> BOOLEAN]
    BY DEF Publish, TypeOK
  <2> QED BY <1>2, <2>1, <2>2, <2>3, <2>4 DEF TypeOK, Entered
<1>7. TailOK'
  <2> SUFFICES ASSUME NEW d \in Client
               PROVE  /\ d \in created => \/ tail'[d] = fakeTail[d] + lag'[d]
                                         \/ tail'[d] = fakeTail[d] + lag'[d] - BufferCount
                      /\ d \notin created => lag'[d] = 0
    BY <1>2 DEF TailOK
  <2>1. CASE d = c
    <3>1. fakeTail[c] \in Nat /\ tail[c] \in Nat /\ fakeTail[c] < BufferCount /\ tail[c] < BufferCount
      BY TouchConstantsOK DEF TypeOK, Cell
    <3>2. c \in created => lag[c] <= BufferCount - 1
      BY <1>4, <1>5
    <3>3. i \in Nat /\ i < BufferCount
      BY <1>1, <1>4 DEF Cell
    <3> HIDE DEF i
    <3> QED BY <1>1, <1>2, <1>4, <2>1, <3>1, <3>2, <3>3 DEF TailOK
  <2>2. CASE d # c
    BY <1>2, <2>2 DEF TailOK
  <2> QED BY <2>1, <2>2
<1>8. created \subseteq Client
  BY DEF TypeOK
<1>9. LagOK'
  <2> SUFFICES ASSUME NEW d \in created
               PROVE  /\ count'[d] < BufferCount - 1 => lag'[d] <= count'[d] /\ ~Busy(d)
                      /\ ~Busy(d) => lag'[d] <= IF visited'[d] /\ count'[d] = BufferCount - 1
                                                THEN BufferCount - 2 ELSE BufferCount - 1
                      /\ Busy(d) => /\ lag'[d] >= IF visited'[d] THEN 1 ELSE 2
                                    /\ lag'[d] <= IF visited'[d] THEN BufferCount - 1 ELSE BufferCount
    BY <1>2, <1>3, <1>8 DEF LagOK
  <2>1. CASE d = c
    BY <1>2, <1>4, <1>5, <2>1
  <2>2. CASE d # c
    BY <1>2, <1>8, <2>2 DEF LagOK
  <2> QED BY <2>1, <2>2
<1>10. CopyOK'
  <2> SUFFICES ASSUME NEW d \in created, Busy(d)
               PROVE  /\ visited'[d] => seen = tail'[d]
                      /\ ~visited'[d] => /\ newest'[d] >= 1 /\ tail'[d] = Next1(seen)
                                         /\ real'[d][seen] = newest'[d] - 1
                                         /\ Shown(d) <= newest'[d] - 1
                      /\ pc = "push" => tmp = real'[d][seen]
    BY <1>2, <1>3, <1>8 DEF CopyOK
  <2>1. CASE d = c
    <3>1. seen = tail[c] /\ visited[c] /\ seen # i /\ seen \in Cell
      BY <1>1, <1>4, <2>1 DEF CopyOK
    <3>2. real'[c][seen] = newest[c] /\ real[c][seen] = newest[c]
      BY <1>2, <3>1 DEF ShownOK
    <3>3. Shown(c) <= newest[c]
      BY <2>1 DEF ShownOK
    <3>4. newest'[c] = newest[c] + 1 /\ newest'[c] >= 1 /\ newest'[c] - 1 = newest[c]
      BY <1>2, <1>4
    <3> QED BY <1>2, <2>1, <3>1, <3>2, <3>3, <3>4 DEF CopyOK
  <2>2. CASE d # c
    BY <1>2, <1>8, <2>2 DEF CopyOK
  <2> QED BY <2>1, <2>2
<1>11. ShownOK'
  <2>1. \A d \in Client : real'[d][tail'[d]] = newest'[d]
    BY <1>2 DEF ShownOK
  <2>2. ASSUME NEW d \in created
        PROVE  Shown(d) <= newest'[d] /\ (lag'[d] = 0 => Shown(d) = newest'[d])
    <3>1. CASE d = c
      <4>1. Shown(c) <= newest[c] /\ Shown(c) \in Nat
        BY <3>1 DEF ShownOK, Shown, TypeOK, Sample
      <4> QED BY <1>2, <1>4, <3>1, <4>1
    <3>2. CASE d # c
      BY <1>2, <1>8, <3>2 DEF ShownOK
    <3> QED BY <3>1, <3>2
  <2> QED BY <1>2, <1>3, <1>8, <2>1, <2>2 DEF ShownOK
<1> QED BY <1>6, <1>7, <1>9, <1>10, <1>11

\* A memory is created as a copy: nothing is behind.
LEMMA CreatesInv ==
  ASSUME Inv, NEW c \in Client, Creates(c)
  PROVE  Inv'
<1> USE DEF Inv
<1>1. /\ c \notin created /\ created' = created \cup {c} /\ ~Busy(c)
      /\ fake'[c] = real[c] /\ fakeTail'[c] = tail[c] /\ prevTail'[c] = tail[c] /\ visited'[c] = TRUE
      /\ \A d \in Client : d # c => /\ fake'[d] = fake[d] /\ fakeTail'[d] = fakeTail[d]
                                   /\ prevTail'[d] = prevTail[d] /\ visited'[d] = visited[d]
      /\ UNCHANGED <<hid, entries, running, local, lag>>
  BY BusyIsEntered DEF Creates, TypeOK
<1>2. /\ UNCHANGED <<real, tail, count, newest, entries, running, pc, at, seen, tmp, lag>>
  BY <1>1 DEF hid, local
<1>3. /\ \A d \in Client : Busy(d)' = Busy(d)
      /\ \A d \in Client : d # c => Shown(d)' = Shown(d)
      /\ Shown(c)' = real[c][tail[c]]
  BY <1>1, <1>2 DEF Busy, Shown
<1>4. TypeOK'
  <2>1. fake' \in [Client -> [Cell -> Sample]] /\ fakeTail' \in [Client -> Cell] /\ prevTail' = fakeTail'
    BY DEF Creates, TypeOK
  <2>2. visited' \in [Client -> BOOLEAN]
    BY DEF Creates, TypeOK
  <2>3. created' \subseteq Client /\ Entered' \subseteq created'
    BY <1>1, <1>2 DEF TypeOK, Entered
  <2> QED BY <1>2, <2>1, <2>2, <2>3 DEF TypeOK
<1>5. /\ lag[c] = 0 /\ tail[c] \in Nat /\ count[c] \in Nat
      /\ BufferCount \in Nat /\ BufferCount >= 3 /\ created \subseteq Client
  BY <1>1, TouchConstantsOK DEF TailOK, TypeOK, Cell
<1>6. TailOK'
  BY <1>1, <1>2, <1>5 DEF TailOK
<1>7. LagOK'
  <2> SUFFICES ASSUME NEW d \in created'
               PROVE  /\ count[d] < BufferCount - 1 => lag[d] <= count[d] /\ ~Busy(d)
                      /\ ~Busy(d) => lag[d] <= IF visited'[d] /\ count[d] = BufferCount - 1
                                               THEN BufferCount - 2 ELSE BufferCount - 1
                      /\ Busy(d) => /\ lag[d] >= IF visited'[d] THEN 1 ELSE 2
                                    /\ lag[d] <= IF visited'[d] THEN BufferCount - 1 ELSE BufferCount
    BY <1>1, <1>2, <1>3, <1>5 DEF LagOK
  <2>1. CASE d = c
    BY <1>1, <1>5, <2>1
  <2>2. CASE d # c
    BY <1>1, <1>5, <2>2 DEF LagOK
  <2> QED BY <2>1, <2>2
<1>8. CopyOK'
  BY <1>1, <1>2, <1>3, <1>5 DEF CopyOK
<1>9. ShownOK'
  <2>1. real[c][tail[c]] = newest[c] /\ newest[c] \in Nat
    BY DEF ShownOK, TypeOK, Sample
  <2>2. \A d \in created' : Shown(d)' <= newest[d] /\ (lag[d] = 0 => Shown(d)' = newest[d])
    BY <1>1, <1>3, <1>5, <2>1 DEF ShownOK
  <2> QED BY <1>2, <2>2 DEF ShownOK
<1> QED BY <1>4, <1>6, <1>7, <1>8, <1>9

\* A memory joins the list while the thread is not in it.
LEMMA AddsInv ==
  ASSUME Inv, NEW c \in Client, Adds(c)
  PROVE  Inv'
<1> USE DEF Inv
<1>1. /\ c \in created /\ entries' = Append(entries, c) /\ entries \in Seq(Client)
      /\ pc \notin {"copy", "push"}
      /\ UNCHANGED <<real, tail, count, newest, fake, fakeTail, prevTail, created, running, pc, at,
                     seen, tmp, lag, visited>>
  BY DEF Adds, hid, mirror, local, TypeOK
<1>2. entries' \in Seq(Client) /\ Entered' \subseteq Entered \cup {c}
  <2>1. /\ Append(entries, c) \in Seq(Client) /\ Len(Append(entries, c)) = Len(entries) + 1
        /\ DOMAIN Append(entries, c) = 1 .. Len(entries) + 1 /\ DOMAIN entries = 1 .. Len(entries)
        /\ \A k \in 1 .. Len(entries) : Append(entries, c)[k] = entries[k]
        /\ Append(entries, c)[Len(entries) + 1] = c
        /\ Len(entries) \in Nat
    BY <1>1, AppendProperties, LenProperties
  <2>2. \A k \in 1 .. Len(entries) + 1 : k \in 1 .. Len(entries) \/ k = Len(entries) + 1
    BY <2>1
  <2>3. \A k \in 1 .. Len(entries) + 1 : entries'[k] = c \/ entries'[k] \in Entered
    BY <1>1, <2>1, <2>2 DEF Entered
  <2> QED BY <1>1, <2>1, <2>3 DEF Entered
<1>3. \A d : ~Busy(d) /\ ~Busy(d)' /\ Shown(d)' = Shown(d)
  BY <1>1 DEF Busy, Shown
<1>4. TypeOK'
  BY <1>1, <1>2 DEF TypeOK
<1>5. TailOK' /\ CopyOK' /\ ShownOK'
  BY <1>1, <1>3 DEF TailOK, CopyOK, ShownOK
<1>6. LagOK'
  BY <1>1, <1>3 DEF LagOK
<1> QED BY <1>4, <1>5, <1>6

\* The thread moves between its loops, or stops.
LEMMA QuietInv ==
  ASSUME Inv, UNCHANGED <<hid, mirror, entries, created, seen, tmp, lag, visited>>,
         pc \notin {"copy", "push"} \/ (pc' = pc /\ at' = at),
         pc' \in {"sleep", "look", "exited"} \/ pc' = pc,
         at' \in Nat \ {0}, running' \in BOOLEAN
  PROVE  Inv'
<1> USE DEF Inv
<1>1. \A d : (Busy(d)' <=> Busy(d)) /\ Shown(d)' = Shown(d)
  BY DEF Busy, Shown, mirror
<1>2. TypeOK'
  BY DEF TypeOK, hid, mirror, Entered
<1>3. TailOK' /\ ShownOK'
  BY <1>1 DEF TailOK, ShownOK, hid, mirror
<1>4. LagOK'
  BY <1>1 DEF LagOK, hid
<1>5. CopyOK'
  <2> SUFFICES ASSUME NEW d \in created, Busy(d)
               PROVE  /\ visited[d] => seen = tail[d]
                      /\ ~visited[d] => /\ newest[d] >= 1 /\ tail[d] = Next1(seen)
                                        /\ real[d][seen] = newest[d] - 1 /\ Shown(d) <= newest[d] - 1
                      /\ pc' = "push" => tmp = real[d][seen]
    BY <1>1 DEF CopyOK, hid
  <2>1. pc' = pc
    BY DEF Busy
  <2> QED BY <2>1 DEF CopyOK
<1> QED BY <1>2, <1>3, <1>4, <1>5

\* A look at a memory: with equal tails nothing is behind, because the rings' distance is
\* smaller than their size.
LEMMA LooksInv ==
  ASSUME Inv, Looks
  PROVE  Inv'
<1> USE DEF Inv
<1>0. PICK c : c = entries[at]
  OBVIOUS
<1>1. /\ c \in Client /\ c \in created /\ at \in 1 .. Len(entries) /\ at \in Nat /\ pc = "look"
  <2>1. at \in DOMAIN entries /\ at \in 1 .. Len(entries) /\ at \in Nat /\ pc = "look"
    BY LenProperties DEF Looks, TypeOK
  <2> QED BY <1>0, <2>1, ElementOfSeq DEF TypeOK, Entered
<1>2. /\ visited' = [visited EXCEPT ![c] = TRUE]
      /\ \/ FullAt(c) /\ tail[c] # prevTail[c] /\ pc' = "copy" /\ seen' = tail[c] /\ at' = at
         \/ ~(FullAt(c) /\ tail[c] # prevTail[c]) /\ at' = at + 1 /\ pc' = pc /\ seen' = seen
      /\ UNCHANGED <<real, tail, count, newest, fake, fakeTail, prevTail, entries, created, running, tmp, lag>>
  BY <1>0 DEF Looks, hid, mirror
<1>3. visited'[c] = TRUE /\ \A d \in Client : d # c => visited'[d] = visited[d]
  BY <1>1, <1>2 DEF TypeOK
<1>4. /\ \A d : ~Busy(d)
      /\ \A d : Busy(d)' <=> (pc' = "copy" /\ d = c)
      /\ \A d : Shown(d)' = Shown(d)
  BY <1>0, <1>1, <1>2 DEF Busy, Shown
<1>5. /\ lag[c] \in Nat /\ count[c] \in Nat /\ BufferCount \in Nat /\ BufferCount >= 3
      /\ tail[c] \in Cell /\ fakeTail[c] \in Cell /\ created \subseteq Client
      /\ fakeTail[c] \in Nat /\ fakeTail[c] < BufferCount /\ tail[c] \in Nat /\ tail[c] < BufferCount
  BY <1>1, TouchConstantsOK DEF TypeOK, Cell
<1>6. /\ lag[c] <= BufferCount - 1
      /\ tail[c] = fakeTail[c] + lag[c] \/ tail[c] = fakeTail[c] + lag[c] - BufferCount
      /\ count[c] < BufferCount - 1 => lag[c] <= count[c]
  BY <1>1, <1>4, <1>5 DEF LagOK, TailOK
<1>7. prevTail[c] = fakeTail[c]
  BY <1>1 DEF TypeOK
<1>8. tail[c] = prevTail[c] <=> lag[c] = 0
  BY <1>5, <1>6, <1>7
<1>9. TypeOK'
  <2>1. visited' \in [Client -> BOOLEAN]
    BY <1>2 DEF TypeOK
  <2>2. seen' \in Cell /\ at' \in Nat \ {0} /\ (pc' \in {"copy", "push"} => at' <= Len(entries))
    BY <1>1, <1>2, <1>5 DEF TypeOK
  <2>3. pc' \in {"sleep", "look", "copy", "push", "exited"}
    BY <1>1, <1>2
  <2> QED BY <1>2, <2>1, <2>2, <2>3 DEF TypeOK, Entered
<1>10. TailOK' /\ ShownOK'
  BY <1>2, <1>4 DEF TailOK, ShownOK
<1>11. LagOK'
  <2> SUFFICES ASSUME NEW d \in created
               PROVE  /\ count[d] < BufferCount - 1 => lag[d] <= count[d] /\ ~Busy(d)'
                      /\ ~Busy(d)' => lag[d] <= IF visited'[d] /\ count[d] = BufferCount - 1
                                                THEN BufferCount - 2 ELSE BufferCount - 1
                      /\ Busy(d)' => /\ lag[d] >= IF visited'[d] THEN 1 ELSE 2
                                     /\ lag[d] <= IF visited'[d] THEN BufferCount - 1 ELSE BufferCount
    BY <1>2 DEF LagOK
  <2>1. CASE d = c
    <3>1. FullAt(c) <=> count[c] = BufferCount - 1
      BY DEF FullAt
    <3>2. count[c] <= BufferCount - 1
      BY <1>1, <1>5 DEF TypeOK, Cell
    <3>3. Busy(c)' => lag[c] >= 1 /\ count[c] = BufferCount - 1
      BY <1>1, <1>2, <1>4, <1>5, <1>8, <3>1
    <3>4. ~Busy(c)' /\ count[c] = BufferCount - 1 => lag[c] = 0
      BY <1>1, <1>2, <1>4, <1>8, <3>1
    <3> QED BY <1>3, <1>5, <1>6, <2>1, <3>2, <3>3, <3>4
  <2>2. CASE d # c
    BY <1>3, <1>4, <1>5, <2>2 DEF LagOK
  <2> QED BY <2>1, <2>2
<1>12. CopyOK'
  <2> SUFFICES ASSUME NEW d \in created, Busy(d)'
               PROVE  /\ visited'[d] /\ seen' = tail[d] /\ pc' # "push"
    BY <1>2 DEF CopyOK
  <2> QED BY <1>1, <1>2, <1>3, <1>4
<1> QED BY <1>9, <1>10, <1>11, <1>12

\* The copy that the thread takes to its stack.
LEMMA CopiesInv ==
  ASSUME Inv, Copies
  PROVE  Inv'
<1> USE DEF Inv
<1>1. /\ pc = "copy" /\ pc' = "push" /\ tmp' = real[entries[at]][seen]
      /\ UNCHANGED <<real, tail, count, newest, fake, fakeTail, prevTail, entries, created, running, at,
                     seen, lag, visited>>
  BY DEF Copies, hid, mirror
<1>2. \A d : (Busy(d)' <=> Busy(d)) /\ Shown(d)' = Shown(d)
  BY <1>1 DEF Busy, Shown
<1>3. Busy(entries[at])
  BY <1>1 DEF Busy
<1>4. TypeOK'
  <2>1. tmp' \in Sample
    BY <1>1, <1>3, BusyIsEntered DEF TypeOK
  <2> QED BY <1>1, <2>1 DEF TypeOK, Entered
<1>5. TailOK' /\ ShownOK'
  BY <1>1, <1>2 DEF TailOK, ShownOK
<1>6. LagOK'
  BY <1>1, <1>2 DEF LagOK
<1>7. CopyOK'
  BY <1>1, <1>2 DEF CopyOK, Busy
<1> QED BY <1>4, <1>5, <1>6, <1>7

\* A push brings the fake ring one sample nearer, and what it shows is not older.
LEMMA PushesGive ==
  ASSUME Inv, Pushes
  PROVE  \E c \in created :
           /\ Busy(c) /\ pc = "push" /\ at' = at + 1 /\ pc' = "look"
           /\ fakeTail'[c] = Next1(fakeTail[c]) /\ lag'[c] = lag[c] - 1
           /\ Shown(c)' = tmp /\ tmp <= newest[c] /\ tmp >= Shown(c)
           /\ visited[c] => tmp = newest[c]
           /\ TypeOK'
           /\ \A d \in Client : d # c => Shown(d)' = Shown(d) /\ fakeTail'[d] = fakeTail[d] /\ lag'[d] = lag[d]
           /\ UNCHANGED <<real, tail, count, newest, entries, created, running, seen, tmp, visited>>
<1> USE DEF Inv
<1>0. PICK c : c = entries[at]
  OBVIOUS
<1> DEFINE i == Next1(fakeTail[c])
<1>1. /\ pc = "push" /\ at' = at + 1 /\ pc' = "look"
      /\ fake' = [fake EXCEPT ![c][i] = tmp] /\ fakeTail' = [fakeTail EXCEPT ![c] = i]
      /\ prevTail' = [prevTail EXCEPT ![c] = i] /\ lag' = [lag EXCEPT ![c] = @ - 1]
      /\ UNCHANGED <<real, tail, count, newest, entries, created, running, seen, tmp, visited>>
  BY <1>0 DEF Pushes, hid
<1>2. Busy(c) /\ c \in Client /\ c \in created
  <2>1. Busy(c)
    BY <1>0, <1>1 DEF Busy
  <2> QED BY <2>1, BusyIsEntered
<1>3. i \in Cell
  BY <1>2, NextCell DEF TypeOK
<1> HIDE DEF i
<1>4. /\ fakeTail'[c] = i /\ lag'[c] = lag[c] - 1 /\ fake'[c][i] = tmp
      /\ \A d \in Client : d # c => fake'[d] = fake[d] /\ fakeTail'[d] = fakeTail[d] /\ lag'[d] = lag[d]
  BY <1>1, <1>2, <1>3 DEF TypeOK
<1>5. Shown(c)' = tmp /\ \A d \in Client : d # c => Shown(d)' = Shown(d)
  BY <1>2, <1>4 DEF Shown
<1>6. /\ newest[c] \in Nat /\ tmp = real[c][seen]
      /\ visited[c] => tmp = newest[c]
      /\ ~visited[c] => tmp = newest[c] - 1 /\ Shown(c) <= newest[c] - 1
      /\ Shown(c) <= newest[c]
  <2>1. newest[c] \in Nat /\ Shown(c) <= newest[c] /\ real[c][tail[c]] = newest[c]
    BY <1>2 DEF ShownOK, TypeOK, Sample
  <2>2. /\ tmp = real[c][seen]
        /\ visited[c] => seen = tail[c]
        /\ ~visited[c] => real[c][seen] = newest[c] - 1 /\ Shown(c) <= newest[c] - 1
    BY <1>1, <1>2 DEF CopyOK
  <2> QED BY <2>1, <2>2
<1>7. tmp <= newest[c] /\ tmp >= Shown(c)
  <2>1. Shown(c) \in Nat
    BY <1>2 DEF Shown, TypeOK, Sample
  <2> QED BY <1>6, <2>1
<1>8. TypeOK'
  <2>1. lag' \in [Client -> 0 .. BufferCount]
    <3>1. lag[c] \in 0 .. BufferCount /\ lag[c] >= 1
      <4>1. lag[c] \in 0 .. BufferCount
        BY <1>2 DEF TypeOK
      <4>2. lag[c] >= IF visited[c] THEN 1 ELSE 2
        BY <1>2 DEF LagOK
      <4> QED BY <4>1, <4>2
    <3>2. lag[c] - 1 \in 0 .. BufferCount
      BY <3>1, TouchConstantsOK
    <3> QED BY <1>1, <3>2 DEF TypeOK
  <2>2. /\ fake' \in [Client -> [Cell -> Sample]] /\ fakeTail' \in [Client -> Cell]
        /\ prevTail' = fakeTail'
    BY <1>1, <1>3 DEF TypeOK
  <2>3. at' \in Nat \ {0}
    BY <1>1 DEF TypeOK
  <2> QED BY <1>1, <2>1, <2>2, <2>3 DEF TypeOK, Entered
<1> QED BY <1>1, <1>2, <1>4, <1>5, <1>6, <1>7, <1>8 DEF i

LEMMA PushesInv ==
  ASSUME Inv, Pushes
  PROVE  Inv'
<1> USE DEF Inv
<1>1. PICK c \in created :
           /\ Busy(c) /\ pc = "push" /\ at' = at + 1 /\ pc' = "look"
           /\ fakeTail'[c] = Next1(fakeTail[c]) /\ lag'[c] = lag[c] - 1
           /\ Shown(c)' = tmp /\ tmp <= newest[c] /\ tmp >= Shown(c)
           /\ visited[c] => tmp = newest[c]
           /\ TypeOK'
           /\ \A d \in Client : d # c => Shown(d)' = Shown(d) /\ fakeTail'[d] = fakeTail[d] /\ lag'[d] = lag[d]
           /\ UNCHANGED <<real, tail, count, newest, entries, created, running, seen, tmp, visited>>
  BY PushesGive
<1>2. /\ created \subseteq Client /\ c \in Client /\ BufferCount \in Nat /\ BufferCount >= 3
      /\ lag[c] \in Nat /\ lag[c] >= IF visited[c] THEN 1 ELSE 2
      /\ lag[c] <= IF visited[c] THEN BufferCount - 1 ELSE BufferCount
      /\ count[c] = BufferCount - 1
  <2>1. created \subseteq Client /\ c \in Client /\ lag[c] \in Nat /\ count[c] \in Cell
    BY <1>1 DEF TypeOK
  <2>2. /\ lag[c] >= IF visited[c] THEN 1 ELSE 2
        /\ lag[c] <= IF visited[c] THEN BufferCount - 1 ELSE BufferCount
        /\ ~(count[c] < BufferCount - 1)
    BY <1>1 DEF LagOK
  <2> QED BY <2>1, <2>2, TouchConstantsOK DEF Cell
<1>3. /\ \A d : ~Busy(d)'
      /\ \A d \in created : d # c => ~Busy(d)
  BY <1>1 DEF Busy
<1>4. TailOK'
  <2> SUFFICES ASSUME NEW d \in Client
               PROVE  /\ d \in created => \/ tail[d] = fakeTail'[d] + lag'[d]
                                         \/ tail[d] = fakeTail'[d] + lag'[d] - BufferCount
                      /\ d \notin created => lag'[d] = 0
    BY <1>1 DEF TailOK
  <2>1. CASE d = c
    <3>1. /\ fakeTail[c] \in Cell /\ tail[c] \in Nat /\ tail[c] < BufferCount
          /\ fakeTail[c] \in Nat /\ fakeTail[c] < BufferCount
      BY <1>2 DEF TypeOK, Cell
    <3>2. Next1(fakeTail[c]) \in Nat /\ Next1(fakeTail[c]) = IF fakeTail[c] + 1 = BufferCount THEN 0 ELSE fakeTail[c] + 1
      BY <1>2, <3>1 DEF Next1
    <3>3. tail[c] = fakeTail[c] + lag[c] \/ tail[c] = fakeTail[c] + lag[c] - BufferCount
      BY <1>1, <1>2 DEF TailOK
    <3> QED BY <1>1, <1>2, <2>1, <3>1, <3>2, <3>3
  <2>2. CASE d # c
    BY <1>1, <2>2 DEF TailOK
  <2> QED BY <2>1, <2>2
<1>5. LagOK'
  <2> SUFFICES ASSUME NEW d \in created
               PROVE  /\ count[d] < BufferCount - 1 => lag'[d] <= count[d]
                      /\ lag'[d] <= IF visited[d] /\ count[d] = BufferCount - 1
                                    THEN BufferCount - 2 ELSE BufferCount - 1
    BY <1>1, <1>3 DEF LagOK
  <2>1. CASE d = c
    BY <1>1, <1>2, <2>1
  <2>2. CASE d # c
    BY <1>1, <1>2, <1>3, <2>2 DEF LagOK
  <2> QED BY <2>1, <2>2
<1>6. CopyOK'
  BY <1>1, <1>3 DEF CopyOK
<1>7. ShownOK'
  <2>1. \A d \in created : Shown(d)' <= newest[d] /\ (lag'[d] = 0 => Shown(d)' = newest[d])
    BY <1>1, <1>2 DEF ShownOK
  <2> QED BY <1>1, <2>1 DEF ShownOK
<1> QED BY <1>1, <1>4, <1>5, <1>6, <1>7

\* Inv is inductive.
LEMMA Invariance == Spec => []Inv
<1>1. Inv /\ [Next]_vars => Inv'
  <2> SUFFICES ASSUME Inv, [Next]_vars PROVE Inv'
    OBVIOUS
  <2>0. at \in Nat \ {0} /\ running \in BOOLEAN
    BY DEF Inv, TypeOK
  <2>1. CASE Wakes \/ Unlocks \/ Exits \/ Stop \/ Stopped \/ UNCHANGED vars
    <3>1. CASE Wakes \/ Unlocks \/ Exits
      BY <2>0, <3>1, QuietInv DEF Wakes, Unlocks, Exits
    <3>2. CASE Stop \/ Stopped \/ UNCHANGED vars
      BY <2>0, <3>2, QuietInv DEF Stop, Stopped, vars, local
    <3> QED BY <2>1, <3>1, <3>2
  <2>2. CASE Looks
    BY <2>2, LooksInv
  <2>3. CASE Copies
    BY <2>3, CopiesInv
  <2>4. CASE Pushes
    BY <2>4, PushesInv
  <2>5. CASE \E c \in Client : Publish(c) \/ Creates(c) \/ Adds(c)
    BY <2>5, PublishInv, CreatesInv, AddsInv
  <2> QED BY <2>1, <2>2, <2>3, <2>4, <2>5 DEF Next, Thread
<1> QED BY <1>1, InitInv, PTL DEF Spec

-----------------------------------------------------------------------------
\* Every variable keeps its type, for rings of any size and any number of games.
THEOREM TypeCorrect == Spec => []TypeOK
BY Invariance, PTL DEF Inv

\* The loop compares positions in two different rings, and yet never skips a sample that the
\* game has not seen: the rings are never a whole turn apart when it looks.
THEOREM NothingNewIsSkipped == Spec => []SkipsOnlyTheKnown
<1>1. Inv => SkipsOnlyTheKnown
  <2> SUFFICES ASSUME Inv, NEW c \in created, tail[c] = prevTail[c], ~Busy(c)
               PROVE  Shown(c) = newest[c]
    BY DEF SkipsOnlyTheKnown
  <2>1. /\ lag[c] \in Nat /\ fakeTail[c] \in Nat /\ prevTail[c] = fakeTail[c] /\ c \in Client
        /\ BufferCount \in Nat /\ BufferCount >= 3
    BY TouchConstantsOK DEF Inv, TypeOK, Cell
  <2>2. /\ lag[c] <= BufferCount - 1
        /\ tail[c] = fakeTail[c] + lag[c] \/ tail[c] = fakeTail[c] + lag[c] - BufferCount
    BY <2>1 DEF Inv, LagOK, TailOK
  <2>3. lag[c] = 0
    BY <2>1, <2>2
  <2> QED BY <2>3 DEF Inv, ShownOK
<1> QED BY <1>1, Invariance, PTL

\* What a game sees never goes back, although samples are copied twice when the rings differ.
THEOREM ScreenNeverGoesBack == Spec => NeverBack
<1> DEFINE Kept == \A c \in created : Shown(c)' >= Shown(c)
<1>1. Inv /\ [Next]_vars => [Kept]_vars
  <2> SUFFICES ASSUME Inv, Next PROVE Kept
    OBVIOUS
  <2>1. /\ created \subseteq Client
        /\ \A c \in created : Shown(c) \in Nat
    BY DEF Inv, TypeOK, Shown, Sample
  <2>2. CASE Pushes
    BY <2>1, <2>2, PushesGive
  <2>3. CASE \E c \in Client : Creates(c)
    <3> SUFFICES ASSUME NEW c \in Client, Creates(c), NEW d \in created PROVE Shown(d)' = Shown(d)
      BY <2>1, <2>3
    <3>1. c \notin created
      BY DEF Creates
    <3> QED BY <2>1, <3>1 DEF Creates, Shown, Inv, TypeOK
  <2>4. CASE UNCHANGED mirror
    BY <2>1, <2>4 DEF mirror, Shown
  <2> QED
    BY <2>2, <2>3, <2>4 DEF Next, Thread, Wakes, Looks, Copies, Unlocks, Exits, Stop, Stopped,
                            Publish, Adds, vars
<1> QED BY <1>1, Invariance, PTL DEF Spec, NeverBack

=============================================================================

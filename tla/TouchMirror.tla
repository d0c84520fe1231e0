------------------------------ MODULE TouchMirror ------------------------------
(***************************************************************************)
(* The Atmosphere build hands games a fake shared memory, so that the      *)
(* touches of the screen have to be carried over into it: the thread of    *)
(* HidSharedMemoryManager copies, memory by memory, the newest sample of   *)
(* the console's ring into the ring that the game reads.  A sample is      *)
(* named by its number; a ring is its storage and its tail.                *)
(* External: hid, which writes the real memories, and the games, which ask *)
(* the MITM server for theirs.                                             *)
(***************************************************************************)
EXTENDS Integers, Sequences

CONSTANTS
  Client,      \* applet resources that games ask for
  BufferCount, \* lifo.header.buffer_count (17)
  MaxSample    \* bound: samples of a client's real ring

ASSUME TouchConstantsOK ==
  /\ BufferCount \in Nat /\ BufferCount >= 3
  /\ MaxSample \in Nat

Cell   == 0 .. BufferCount - 1
Sample == 0 .. MaxSample

VARIABLES
  real,      \* real[c]: storage of the real ring
  tail,      \* its header.tail
  count,     \* its header.count
  fake,      \* fake[c]: storage of the fake ring
  fakeTail,  \* its header.tail
  prevTail,  \* m_touchscreen_prev_tail
  entries,   \* m_sharedmemory_entry_list
  created,   \* memories that have been copied
  running,   \* m_running
  pc,        \* the thread
  at,        \* its iterator
  seen,      \* the tail it has read
  tmp,       \* tmp_atomic_storage
  newest,    \* history: the number of c's last sample
  lag,       \* history: how many samples the fake ring is behind
  visited    \* history: the thread has looked at c since that sample

hid    == <<real, tail, count, newest>>
mirror == <<fake, fakeTail, prevTail>>
local  == <<pc, at, seen, tmp>>
vars == <<hid, mirror, entries, created, running, local, lag, visited>>

Entered == {entries[k] : k \in DOMAIN entries}
Next1(i) == IF i + 1 >= BufferCount THEN 0 ELSE i + 1

Init ==
  /\ real = [c \in Client |-> [i \in Cell |-> 0]]
  /\ tail = [c \in Client |-> 0] /\ count = [c \in Client |-> 0]
  /\ fake = real /\ fakeTail = tail /\ prevTail = tail
  /\ entries = <<>> /\ created = {}
  /\ running = TRUE
  /\ pc = "sleep" /\ at = 1 /\ seen = 0 /\ tmp = 0
  /\ newest = [c \in Client |-> 0] /\ lag = [c \in Client |-> 0]
  /\ visited = [c \in Client |-> TRUE]

-----------------------------------------------------------------------------
(* hid takes a sample every 5 ms; the thread polls every 2 ms, so that it   *)
(* has looked at each memory between two of them (visited).                *)

Publish(c) ==
  /\ newest[c] < MaxSample
  /\ c \in created => visited[c]
  /\ newest' = [newest EXCEPT ![c] = @ + 1]
  /\ real' = [real EXCEPT ![c][Next1(tail[c])] = newest[c] + 1]
  /\ tail' = [tail EXCEPT ![c] = Next1(@)]
  /\ count' = [count EXCEPT ![c] = IF @ + 1 < BufferCount THEN @ + 1 ELSE @]
  /\ lag' = IF c \in created THEN [lag EXCEPT ![c] = @ + 1] ELSE lag
  /\ visited' = [visited EXCEPT ![c] = FALSE]
  /\ UNCHANGED <<mirror, entries, created, running, local>>

-----------------------------------------------------------------------------
(* The MITM server creates a memory as a copy of the real one, and adds it *)
(* to the list (under m_mutex_sharedmemory, which the thread holds from    *)
(* Wakes to Unlocks).                                                      *)

CreatesWithoutTail(c) ==                                          \* mutant
  /\ c \notin created
  /\ created' = created \cup {c}
  /\ fake' = [fake EXCEPT ![c] = real[c]]
  /\ fakeTail' = [fakeTail EXCEPT ![c] = tail[c]]
  /\ visited' = [visited EXCEPT ![c] = TRUE]
  /\ UNCHANGED <<hid, prevTail, entries, running, local, lag>>

Creates(c) ==
  /\ c \notin created
  /\ created' = created \cup {c}
  /\ fake' = [fake EXCEPT ![c] = real[c]]
  /\ fakeTail' = [fakeTail EXCEPT ![c] = tail[c]]
  /\ prevTail' = [prevTail EXCEPT ![c] = tail[c]]
  /\ visited' = [visited EXCEPT ![c] = TRUE]
  /\ UNCHANGED <<hid, entries, running, local, lag>>

Adds(c) ==
  /\ c \in created \ Entered /\ pc \in {"sleep", "exited"}
  /\ entries' = Append(entries, c)
  /\ UNCHANGED <<hid, mirror, created, running, local, lag, visited>>

-----------------------------------------------------------------------------
(* OnRun.                                                                  *)

Wakes ==
  /\ pc = "sleep" /\ running
  /\ pc' = "look" /\ at' = 1
  /\ UNCHANGED <<hid, mirror, entries, created, running, seen, tmp, lag, visited>>

FullAtCells(c) == count[c] = BufferCount                          \* mutant

\* The loop counts on rings that are full: count stops one short of the number of cells.
FullAt(c) == count[c] = BufferCount - 1

Looks ==
  /\ pc = "look" /\ at <= Len(entries)
  /\ LET c == entries[at] IN
     /\ visited' = [visited EXCEPT ![c] = TRUE]
     /\ IF FullAt(c) /\ tail[c] # prevTail[c]
        THEN pc' = "copy" /\ seen' = tail[c] /\ UNCHANGED at
        ELSE at' = at + 1 /\ UNCHANGED <<pc, seen>>
  /\ UNCHANGED <<hid, mirror, entries, created, running, tmp, lag>>

CopiesOldest ==                                                   \* mutant
  /\ pc = "copy"
  /\ tmp' = real[entries[at]][Next1(seen)]
  /\ pc' = "push"
  /\ UNCHANGED <<hid, mirror, entries, created, running, at, seen, lag, visited>>

Copies ==
  /\ pc = "copy"
  /\ tmp' = real[entries[at]][seen]
  /\ pc' = "push"
  /\ UNCHANGED <<hid, mirror, entries, created, running, at, seen, lag, visited>>

PushesUnwrapped ==                                                \* mutant
  /\ pc = "push"
  /\ LET c == entries[at] IN
     /\ fake' = [fake EXCEPT ![c][Next1(fakeTail[c])] = tmp]
     /\ fakeTail' = [fakeTail EXCEPT ![c] = @ + 1]
     /\ prevTail' = [prevTail EXCEPT ![c] = fakeTail[c] + 1]
     /\ lag' = [lag EXCEPT ![c] = @ - 1]
  /\ at' = at + 1
  /\ pc' = "look"
  /\ UNCHANGED <<hid, entries, created, running, seen, tmp, visited>>

Pushes ==
  /\ pc = "push"
  /\ LET c == entries[at]
         current == Next1(fakeTail[c])
     IN /\ fake' = [fake EXCEPT ![c][current] = tmp]
        /\ fakeTail' = [fakeTail EXCEPT ![c] = current]
        /\ prevTail' = [prevTail EXCEPT ![c] = current]
        /\ lag' = [lag EXCEPT ![c] = @ - 1]
  /\ at' = at + 1
  /\ pc' = "look"
  /\ UNCHANGED <<hid, entries, created, running, seen, tmp, visited>>

Unlocks ==
  /\ pc = "look" /\ at > Len(entries)
  /\ pc' = "sleep"
  /\ UNCHANGED <<hid, mirror, entries, created, running, at, seen, tmp, lag, visited>>

Exits ==
  /\ pc = "sleep" /\ ~running
  /\ pc' = "exited"
  /\ UNCHANGED <<hid, mirror, entries, created, running, at, seen, tmp, lag, visited>>

\* HidSharedMemoryManager::Stop
Stop ==
  /\ running
  /\ running' = FALSE
  /\ UNCHANGED <<hid, mirror, entries, created, local, lag, visited>>

Stopped == pc = "exited" /\ UNCHANGED vars

-----------------------------------------------------------------------------

Thread == Wakes \/ Looks \/ Copies \/ Pushes \/ Unlocks \/ Exits
Next == Thread \/ Stop \/ Stopped \/ \E c \in Client : Publish(c) \/ Creates(c) \/ Adds(c)

Spec == Init /\ [][Next]_vars

\* The thread is never starved: what else runs on its core are input threads, which wait for
\* reports most of the time.
FairSpec == Spec /\ WF_vars(Thread)
-----------------------------------------------------------------------------
(* Properties.                                                             *)

TypeOK ==
  /\ real \in [Client -> [Cell -> Sample]] /\ fake \in [Client -> [Cell -> Sample]]
  /\ tail \in [Client -> Cell] /\ fakeTail \in [Client -> Cell]
  /\ prevTail = fakeTail
  /\ count \in [Client -> Cell]
  /\ newest \in [Client -> Sample] /\ lag \in [Client -> 0 .. BufferCount]
  /\ visited \in [Client -> BOOLEAN]
  /\ entries \in Seq(Client) /\ created \in SUBSET Client /\ Entered \subseteq created
  /\ running \in BOOLEAN
  /\ pc \in {"sleep", "look", "copy", "push", "exited"}
  /\ at \in Nat \ {0} /\ seen \in Cell /\ tmp \in Sample
  /\ pc \in {"copy", "push"} => at <= Len(entries)

Shown(c) == fake[c][fakeTail[c]]
Busy(c) == pc \in {"copy", "push"} /\ entries[at] = c

\* A sample is skipped only because it is already there: when the thread finds a tail that it
\* takes for known, what the game sees is the newest sample of the console, a release of the
\* finger included, although the number that is compared is the position in the other ring.
SkipsOnlyTheKnown ==
  \A c \in created : tail[c] = prevTail[c] /\ ~Busy(c) => Shown(c) = newest[c]

\* A game never sees the screen go back in time.
NeverBack == [][\A c \in created : Shown(c)' >= Shown(c)]_vars

\* What the console samples reaches every game (whose real ring is full), unless the thread stops.
Mirrored ==
  \A c \in Client, n \in Sample :
    (c \in Entered /\ newest[c] = n /\ count[c] = BufferCount - 1) ~> (Shown(c) >= n \/ ~running)
=============================================================================

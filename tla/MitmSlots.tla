----------------------------- MODULE MitmSlots ------------------------------
(***************************************************************************)
(* The Atmosphere build: pads are shown to the games by writing into the   *)
(* fake shared memory that the MITM server hands to each client.  The      *)
(* handlers' input threads share the manager's player slots (under         *)
(* m_mutex_controller) and its list of memories (m_mutex_sharedmemory).    *)
(* A handler may serve several pads, one at a time: a receiver or a Puck.  *)
(* A memory is abstracted to the newest npad state of each player; the     *)
(* touch screen is left out, and so is the thread that mirrors it, which   *)
(* writes nothing else.  External: the pads, the clients, the console's    *)
(* own pads in the memory that is copied.                                  *)
(***************************************************************************)
EXTENDS Integers, Sequences, FiniteSets

CONSTANTS
  Handler,    \* handlers, each with an input thread of its own
  Pad,        \* inputs of handlers: pads that may be there
  Owner,      \* Owner[p]: the handler that p is an input of
  Counted,    \* inputs with an index below their handler's GetInputCount()
  NumSlots,   \* m_controller_list.size() (8)
  Client,     \* applet resources that games ask for
  Report,     \* what a pad can report
  None

Slot == 0 .. NumSlots - 1

ASSUME MitmConstantsOK ==
  /\ IsFiniteSet(Pad) /\ NumSlots \in Nat
  /\ Owner \in [Pad -> Handler] /\ Counted \subseteq Pad
  /\ None \notin Slot /\ None \notin Pad /\ None \notin Client

VARIABLES
  pc,        \* pc[p]: what p's handler (its input thread, or who destroys it) does with p
  known,     \* m_controllerData.m_is_connected
  reattach,  \* m_controllerData.m_reattach_controller
  held,      \* held[p]: player index of the handler's m_controllerList entry
  list,      \* m_controller_list: whose controller is in each slot
  lost,      \* lost[i]: whose controller was left in slot i by a handler that is gone
  report,    \* report[p]: what the thread is about to write
  at,        \* at[p]: the iterator of Update
  shm,       \* the pad whose Update holds m_mutex_sharedmemory
  entries,   \* m_sharedmemory_entry_list
  pending,   \* the memory that the server has created and not added yet
  npad       \* npad[c][i]: newest state of player i in c's fake memory

handler == <<pc, known, reattach, held, report, at>>
memory  == <<entries, pending, npad>>
slots == <<list, lost>>
vars == <<handler, slots, shm, memory>>

Console == [by |-> None, val |-> None]   \* what the console left: nothing, or a pad of its own
State   == {Console} \cup [by : Pad, val : Report]

Entered == {entries[k] : k \in DOMAIN entries}
\* A null m_controllerList entry was used: the process is gone.
Crashed == \E p \in Pad : pc[p] = "crashed"

Init ==
  /\ pc = [p \in Pad |-> "absent"]
  /\ known = [p \in Pad |-> FALSE] /\ reattach = [p \in Pad |-> FALSE]
  /\ held = [p \in Pad |-> None]
  /\ list = [i \in Slot |-> None] /\ lost = [i \in Slot |-> None]
  /\ report = [p \in Pad |-> None] /\ at = [p \in Pad |-> 1]
  /\ shm = None
  /\ entries = <<>> /\ pending = None
  /\ npad = [c \in Client |-> [i \in Slot |-> Console]]

Inputs(h) == {p \in Pad : Owner[p] = h}

\* p's handler is at a place, or all of h is, in a process that lives.
At(p, where) == ~Crashed /\ pc[p] = where
AllAt(h, where) == ~Crashed /\ \A p \in Inputs(h) : pc[p] = where
Goto(p, where) == pc' = [pc EXCEPT ![p] = where]
AllGoto(h, where) == pc' = [p \in Pad |-> IF Owner[p] = h THEN where ELSE pc[p]]

-----------------------------------------------------------------------------
(* HidSharedMemoryManager::AttachController and DetachController, each     *)
(* under m_mutex_controller from its first line to its last.               *)

FreeSlots == {i \in Slot : list[i] = None /\ lost[i] = None}

ManagerAttachesUnrecorded(p) ==                                   \* mutant
  IF FreeSlots = {}
  THEN UNCHANGED <<list, held>>
  ELSE \E i \in FreeSlots :
         /\ \A j \in FreeSlots : i <= j
         /\ UNCHANGED list
         /\ held' = [held EXCEPT ![p] = i]

\* The first free slot, if there is one.
ManagerAttaches(p) ==
  IF FreeSlots = {}
  THEN UNCHANGED <<list, held>>
  ELSE \E i \in FreeSlots :
         /\ \A j \in FreeSlots : i <= j
         /\ list' = [list EXCEPT ![i] = p]
         /\ held' = [held EXCEPT ![p] = i]

ManagerDetachesNothing(p) == UNCHANGED list                       \* mutant
ManagerDetaches(p) == list' = [i \in Slot |-> IF list[i] = p THEN None ELSE list[i]]

-----------------------------------------------------------------------------
(* The input thread: OnRun and UpdateInput.                                *)

\* A controller is inserted; its thread starts.
Inserted(h) ==
  /\ AllAt(h, "absent")
  /\ AllGoto(h, "idle")
  /\ UNCHANGED <<known, reattach, held, report, at, slots, shm, memory>>

\* A round of the thread: ReadInput gives input p and finds its pad connected.  Without a
\* report the thread goes round.
Reads(p) ==
  /\ At(p, "idle") /\ AllAt(Owner[p], "idle")
  /\ known' = [known EXCEPT ![p] = TRUE]
  /\ reattach' = [reattach EXCEPT ![p] = @ \/ ~known[p]]
  /\ \/ Goto(p, "attach") /\ \E r \in Report : report' = [report EXCEPT ![p] = r]
     \/ UNCHANGED <<pc, report>>
  /\ UNCHANGED <<held, at, slots, shm, memory>>

\* ReadInput finds it disconnected: DetachController, whose first half is the manager's.
Loses(p) ==
  /\ At(p, "idle") /\ AllAt(Owner[p], "idle") /\ known[p]
  /\ known' = [known EXCEPT ![p] = FALSE]
  /\ IF held[p] = None THEN UNCHANGED <<pc, list>> ELSE ManagerDetaches(p) /\ Goto(p, "detach")
  /\ UNCHANGED <<reattach, held, report, at, lost, shm, memory>>

\* Its second half: the handler drops its pointer.
Forgets(p) ==
  /\ At(p, "detach")
  /\ held' = [held EXCEPT ![p] = None]
  /\ Goto(p, "idle")
  /\ UNCHANGED <<known, reattach, report, at, slots, shm, memory>>

AttachesAnew(p) ==                                                \* mutant
  /\ At(p, "attach")
  /\ \E LplusR \in BOOLEAN :
       IF reattach[p] \/ LplusR THEN ManagerAttaches(p) ELSE UNCHANGED <<list, held>>
  /\ reattach' = [reattach EXCEPT ![p] = FALSE]
  /\ Goto(p, "update")
  /\ UNCHANGED <<known, report, at, lost, shm, memory>>

\* A newly connected pad, or L+R on one without a slot, asks for a slot; UpdateInput does not
\* look at the answer.
Attaches(p) ==
  /\ At(p, "attach")
  /\ \E LplusR \in BOOLEAN :
       IF (reattach[p] \/ LplusR) /\ held[p] = None
       THEN ManagerAttaches(p)
       ELSE UNCHANGED <<list, held>>
  /\ reattach' = [reattach EXCEPT ![p] = FALSE]
  /\ Goto(p, "update")
  /\ UNCHANGED <<known, report, at, lost, shm, memory>>

\* UpdateControllerState: Update of the slot's controller, if there is one ...
UpdateLocks(p) ==
  /\ At(p, "update") /\ held[p] # None /\ shm = None
  /\ shm' = p
  /\ at' = [at EXCEPT ![p] = 1]
  /\ Goto(p, "write")
  /\ UNCHANGED <<known, reattach, held, report, slots, memory>>

\* ... and the null pointer where there is none.
UpdatesNull(p) ==
  /\ At(p, "update") /\ held[p] = None
  /\ Goto(p, "crashed")
  /\ UNCHANGED <<known, reattach, held, report, at, slots, shm, memory>>

\* The next npad state of one client; a blank npad is initialised first.
Writes(p) ==
  /\ At(p, "write") /\ at[p] <= Len(entries)
  /\ npad' = [npad EXCEPT ![entries[at[p]]][held[p]] = [by |-> p, val |-> report[p]]]
  /\ at' = [at EXCEPT ![p] = @ + 1]
  /\ UNCHANGED <<pc, known, reattach, held, report, slots, shm, entries, pending>>

UpdateStopsEarly(p) ==                                            \* mutant
  /\ At(p, "write") /\ at[p] >= Len(entries)
  /\ shm' = None
  /\ report' = [report EXCEPT ![p] = None] /\ at' = [at EXCEPT ![p] = 1]
  /\ Goto(p, "idle")
  /\ UNCHANGED <<known, reattach, held, slots, memory>>
UpdateUnlocks(p) ==
  /\ At(p, "write") /\ at[p] > Len(entries)
  /\ shm' = None
  /\ report' = [report EXCEPT ![p] = None] /\ at' = [at EXCEPT ![p] = 1]
  /\ Goto(p, "idle")
  /\ UNCHANGED <<known, reattach, held, slots, memory>>

Thread(p) ==
  \/ Reads(p) \/ Loses(p) \/ Forgets(p) \/ Attaches(p)
  \/ UpdateLocks(p) \/ UpdatesNull(p) \/ Writes(p) \/ UpdateUnlocks(p)

-----------------------------------------------------------------------------
(* Whoever destroys the handler: SwitchVirtualGamepadHandler::Exit.        *)

\* The thread is joined between two rounds, the controller closed.
ExitJoins(h) ==
  /\ AllAt(h, "idle")
  /\ AllGoto(h, "exit")
  /\ UNCHANGED <<known, reattach, held, report, at, slots, shm, memory>>

\* DetachController of each counted input that has a slot (in any order): its first half ...
ExitDetaches(p) ==
  /\ At(p, "exit") /\ AllAt(Owner[p], "exit")
  /\ p \in Counted /\ held[p] # None
  /\ ManagerDetaches(p)
  /\ Goto(p, "exiting")
  /\ UNCHANGED <<known, reattach, held, report, at, lost, shm, memory>>

\* ... and its second.
ExitForgets(p) ==
  /\ At(p, "exiting")
  /\ held' = [held EXCEPT ![p] = None]
  /\ Goto(p, "exit")
  /\ UNCHANGED <<known, reattach, report, at, slots, shm, memory>>

\* The object is destroyed, with its pointers: the manager keeps the controllers of the inputs
\* that the loop over GetInputCount() did not reach.
ExitEnds(h) ==
  /\ AllAt(h, "exit")
  /\ \A p \in Inputs(h) \cap Counted : held[p] = None
  /\ list' = [i \in Slot |-> IF list[i] \in Inputs(h) THEN None ELSE list[i]]
  /\ lost' = [i \in Slot |-> IF list[i] \in Inputs(h) THEN list[i] ELSE lost[i]]
  /\ held' = [p \in Pad |-> IF Owner[p] = h THEN None ELSE held[p]]
  /\ known' = [p \in Pad |-> Owner[p] # h /\ known[p]]
  /\ reattach' = [p \in Pad |-> Owner[p] # h /\ reattach[p]]
  /\ AllGoto(h, "absent")
  /\ UNCHANGED <<report, at, shm, memory>>

Exit(p) == ExitDetaches(p) \/ ExitForgets(p)

-----------------------------------------------------------------------------
(* The MITM server's thread: CreateIfNotExists.                            *)

\* A fake memory is created with a copy of the real one.
ServerCreates(c) ==
  /\ ~Crashed /\ pending = None /\ c \notin Entered
  /\ pending' = c
  /\ npad' = [npad EXCEPT ![c] = [i \in Slot |-> Console]]
  /\ UNCHANGED <<handler, slots, shm, entries>>

ServerAddsUnlocked ==                                             \* mutant
  /\ ~Crashed /\ pending # None
  /\ entries' \in {entries, Append(entries, pending)}
  /\ pending' = None
  /\ UNCHANGED <<handler, slots, shm, npad>>

\* Add: push_back under m_mutex_sharedmemory (nothing if the creation failed).
ServerAdds ==
  /\ ~Crashed /\ pending # None /\ shm = None
  /\ entries' \in {entries, Append(entries, pending)}
  /\ pending' = None
  /\ UNCHANGED <<handler, slots, shm, npad>>

Server == ServerAdds \/ \E c \in Client : ServerCreates(c)

-----------------------------------------------------------------------------
Next ==
  \/ Server
  \/ \E h \in Handler : Inserted(h) \/ ExitJoins(h) \/ ExitEnds(h)
  \/ \E p \in Pad : Thread(p) \/ Exit(p)

Spec == Init /\ [][Next]_vars
-----------------------------------------------------------------------------
(* Properties.                                                             *)

\* Every variable keeps its type.
TypeOK ==
  /\ pc \in [Pad -> {"absent", "idle", "attach", "update", "write", "detach", "exit", "exiting",
                     "crashed"}]
  /\ known \in [Pad -> BOOLEAN] /\ reattach \in [Pad -> BOOLEAN]
  /\ held \in [Pad -> Slot \cup {None}]
  /\ list \in [Slot -> Pad \cup {None}] /\ lost \in [Slot -> Pad \cup {None}]
  /\ report \in [Pad -> Report \cup {None}]
  /\ at \in [Pad -> Nat \ {0}]
  /\ shm \in Pad \cup {None}
  /\ entries \in Seq(Client)
  /\ pending \in Client \cup {None}
  /\ npad \in [Client -> [Slot -> State]]

\* Two pads never write as the same player, although a slot is free for the next pad before
\* the handler that had it has dropped its pointer.
OneWriterPerSlot ==
  \A p, q \in Pad :
    p # q /\ {pc[p], pc[q]} \subseteq {"update", "write"} /\ held[p] # None => held[p] # held[q]

\* A slot that is taken belongs to a handler that lives and knows it: no sequence of connections,
\* L+R, sleeps and unplugs loses the slot of an input that GetInputCount() counts.  (It does lose
\* the others': AllSlotsFree.)
NoSlotIsLost ==
  \A i \in Slot :
    /\ list[i] # None => pc[list[i]] # "absent" /\ held[list[i]] = i
    /\ lost[i] # None => lost[i] \notin Counted

\* AttachController returns null, which UpdateInput goes on to use, only when the connected pads
\* and the slots lost for good outnumber the slots: a pad takes one slot, and gives it back when
\* it leaves or its handler is destroyed, unless the slot is then lost.
RefusedOnlyWhenFull ==
  [][\A p \in Pad :
       pc[p] = "attach" /\ pc'[p] = "update" /\ held'[p] = None =>
         Cardinality({q \in Pad : known[q]}) + Cardinality({i \in Slot : lost[i] # None})
           > NumSlots]_vars

\* "The controller disconnects cleanly ... the system remains stable" (doc/TestPlan.md, on
\* unplugging): with no controller left, every slot is free for the next one.
AllSlotsFree ==
  (\A p \in Pad : pc[p] = "absent") => \A i \in Slot : list[i] = None /\ lost[i] = None

\* Between two updates all games see the same state of a player (those that joined since its last
\* update do not see it yet).
ClientsAgree ==
  shm = None =>
    \A c, d \in Entered, i \in Slot :
      npad[c][i].by # None /\ npad[d][i].by # None => npad[c][i] = npad[d][i]

\* A memory is never added while an Update iterates over the list.
NoPushDuringUpdate == [][entries' # entries => \A p \in Pad : pc[p] # "write"]_vars

\* "The controller disconnects cleanly" (doc/TestPlan.md): a game sees a pad of sys-con's only as
\* a player whose slot it has.
NoGhostPlayer ==
  \A c \in Entered, i \in Slot :
    LET p == npad[c][i].by IN p # None /\ pc[p] \notin {"detach", "exiting"} => list[i] = p
=============================================================================

----------------------------- MODULE PadHandler -----------------------------
(***************************************************************************)
(* One handler of a multi-input controller: the Xbox 360 wireless receiver *)
(* or the Steam Puck with up to four pads, or a wired controller whose     *)
(* inputs are always connected.  Its input thread sweeps the endpoints     *)
(* (BaseController), follows the pads' connect and disconnect packets      *)
(* (Xbox360WirelessController, SteamController2026), and shows each        *)
(* connected pad to the console as a virtual HDL device                    *)
(* (SwitchVirtualGamepadHandler, SwitchHDLHandler).                        *)
(* The owner, who holds the handler in the vector, finally destroys it.    *)
(* External: the pads and the receiver (on, queue), the console's list of  *)
(* virtual devices (console).                                              *)
(***************************************************************************)
EXTENDS Integers, Sequences

CONSTANTS
  Endpoints,   \* number of input endpoints, m_inPipe.size() (at most CONTROLLER_MAX_INPUTS)
  InputCount,  \* what GetInputCount() returns
  Driver,      \* "wireless", "steam", or "wired": a class whose inputs are always connected
  MaxInputs,   \* XBOX360_MAX_INPUTS, STEAMCONTROLLER_MAX_INPUTS: pads that the driver knows
  QueueMax     \* bound: packets that wait at an endpoint

ASSUME ConstantsOK ==
  /\ Endpoints \in Nat \ {0} /\ InputCount \in 1 .. Endpoints
  /\ Driver \in {"wireless", "steam", "wired"}
  /\ MaxInputs \in Nat \ {0} /\ (Driver = "wireless" => Endpoints <= MaxInputs)
  /\ QueueMax \in Nat \ {0}

Input == 0 .. Endpoints - 1
Wired == Driver = "wired"
Pad == {i \in Input : Wired \/ i < MaxInputs}    \* the Puck's last endpoint is the dongle's
Counted == {i \in Input : i < InputCount}
Data  == {"plain", "L+R"}                       \* reports without and with L+R held
Packet == Data \cup {"connect", "disconnect"}

VARIABLES
  on,         \* on[i]: pad i is switched on
  queue,      \* queue[i]: packets that the receiver can deliver on endpoint i
  console,    \* console[i]: "none", "shown", or "dropped" by the console itself
  current,    \* m_current_controller_idx
  probe,      \* endpoints probed in this sweep
  idx,        \* input_idx
  packet,     \* what ReadInput has parsed
  connected,  \* the controller's m_is_connected
  known,      \* m_controllerData[i].m_is_connected
  reattach,   \* m_controllerData[i].m_reattach_controller
  handle,     \* m_hdlsData[i].m_hdlHandle.handle # 0
  running,    \* m_ThreadIsRunning
  pc,         \* the input thread
  owner,      \* the thread that destroys the handler
  waived      \* history: the console dropped pad i and nobody pressed L+R since

pads    == <<on, queue>>
sweep   == <<current, probe>>
state   == <<connected, known, reattach>>
virtual == <<console, handle, waived>>
vars == <<pads, sweep, idx, packet, state, virtual, running, pc, owner>>

All(v) == [i \in Input |-> v]

\* IsControllerConnected(i), where c is m_is_connected; past the end of that array it is
\* whatever memory holds.
Answers(c, i) == IF i \notin Pad THEN BOOLEAN ELSE {Wired \/ c[i]}

Init ==
  /\ on = All(Wired) /\ queue = All(<<>>)
  /\ console = All("none") /\ waived = All(FALSE)
  /\ handle \in [Input -> BOOLEAN]          \* only the counted ones are initialised
  /\ \A i \in Counted : ~handle[i]
  /\ current = 0 /\ probe = 0 /\ idx = 0 /\ packet = "plain"
  /\ connected = All(FALSE) /\ known = All(FALSE) /\ reattach = All(FALSE)
  /\ running = TRUE
  /\ pc = "sweep" /\ owner = "serve"

-----------------------------------------------------------------------------
(* The pads, the user and the console.                                     *)

Send(i, p) ==
  /\ Len(queue[i]) < QueueMax
  /\ queue' = [queue EXCEPT ![i] = Append(@, p)]
  /\ UNCHANGED <<sweep, idx, packet, state, virtual, running, pc, owner>>

SwitchOn(i)  == ~Wired /\ i \in Pad /\ ~on[i] /\ on' = [on EXCEPT ![i] = TRUE] /\ Send(i, "connect")
SwitchOff(i) == ~Wired /\ on[i] /\ on' = [on EXCEPT ![i] = FALSE] /\ Send(i, "disconnect")
Report(i, p) == (i \in Pad => on[i]) /\ UNCHANGED on /\ Send(i, p)

\* The console drops a device by itself (SYNC menu, a game for fewer players).
ConsoleDrops(i) ==
  /\ console[i] = "shown"
  /\ console' = [console EXCEPT ![i] = "dropped"]
  /\ waived' = [waived EXCEPT ![i] = TRUE]
  /\ UNCHANGED <<pads, sweep, idx, packet, state, handle, running, pc, owner>>

-----------------------------------------------------------------------------
(* DetachController, and what UpdateInput does whether or not the read     *)
(* succeeded: compare the connection with the one it knows.                *)

KeepsDevice == UNCHANGED virtual

DetachKeepsHandle(i) ==                                           \* mutant
  /\ console' = [console EXCEPT ![i] = "none"]
  /\ waived' = [waived EXCEPT ![i] = FALSE]
  /\ UNCHANGED handle
Detach(i) ==
  /\ handle' = [handle EXCEPT ![i] = FALSE]
  /\ console' = IF handle[i] THEN [console EXCEPT ![i] = "none"] ELSE console
  /\ waived' = [waived EXCEPT ![i] = FALSE]

FollowIgnoresDisconnect(i, now) ==                                \* mutant
  /\ known' = [known EXCEPT ![i] = now]
  /\ reattach' = [reattach EXCEPT ![i] = @ \/ (now /\ ~known[i])]
  /\ KeepsDevice
Follow(i, now) ==
  /\ known' = [known EXCEPT ![i] = now]
  /\ reattach' = [reattach EXCEPT ![i] = @ \/ (now /\ ~known[i])]
  /\ IF known[i] /\ ~now THEN Detach(i) ELSE KeepsDevice

\* A pad that has left is told to switch off: if it is back already, that is one more
\* SwitchOff, which may come at any time.
OnControllerConnect(i) == [connected EXCEPT ![i] = TRUE]
OnControllerDisconnect(i) == [connected EXCEPT ![i] = FALSE]

\* The connection after packet p.
ParsedWireless(i, p) ==
  CASE p = "connect"    -> OnControllerConnect(i)
    [] p = "disconnect" -> OnControllerDisconnect(i)
    [] OTHER            -> connected

\* A report connects a Steam controller, too; the dongle's endpoint is ignored.
ParsedSteam(i, p) ==
  CASE i \notin Pad     -> connected
    [] p = "disconnect" -> OnControllerDisconnect(i)
    [] OTHER            -> OnControllerConnect(i)

Parsed(i, p) ==
  CASE Driver = "wireless" -> ParsedWireless(i, p)
    [] Driver = "steam"    -> ParsedSteam(i, p)
    [] Driver = "wired"    -> connected

\* ReadEndpointLatest drains endpoint i and keeps the last packet it gets; the zero-timeout
\* reads may end before the queue does.
Receive(i) ==
  \E n \in 1 .. Len(queue[i]) :
    LET p == queue[i][n] IN
    /\ queue' = [queue EXCEPT ![i] = SubSeq(@, n + 1, Len(@))]
    /\ idx' = i /\ packet' = p
    /\ connected' = Parsed(i, p)
    /\ \E now \in Answers(Parsed(i, p), i) :
         /\ Follow(i, now)
         /\ pc' = IF i \in Pad /\ p \in Data /\ now THEN "attach" ELSE "loop"
    /\ UNCHANGED <<on, running, owner>>

-----------------------------------------------------------------------------
(* The input thread: ReadNextBuffer, UpdateInput, OnRun.                   *)

Probed == (current + probe) % Endpoints

ProbeMisses ==
  /\ pc = "sweep" /\ probe < Endpoints
  /\ queue[Probed] = <<>>
  /\ probe' = probe + 1
  /\ UNCHANGED <<pads, current, idx, packet, state, virtual, running, pc, owner>>

ProbeHitsWithoutRotation ==                                       \* mutant
  /\ pc = "sweep" /\ probe < Endpoints
  /\ Receive(Probed)
  /\ UNCHANGED sweep

\* The first endpoint with data is served, and the next sweep starts behind it.
ProbeHits ==
  /\ pc = "sweep" /\ probe < Endpoints
  /\ Receive(Probed)
  /\ current' = (Probed + 1) % Endpoints
  /\ probe' = 0

SweepEndsUnwrapped ==                                             \* mutant
  /\ pc = "sweep" /\ probe = Endpoints
  /\ idx' = current
  /\ current' = current + 1 /\ probe' = 0
  /\ pc' = "block"
  /\ UNCHANGED <<pads, packet, state, virtual, running, owner>>

\* All idle: block once, on the next endpoint.
SweepEnds ==
  /\ pc = "sweep" /\ probe = Endpoints
  /\ idx' = current
  /\ current' = (current + 1) % Endpoints /\ probe' = 0
  /\ pc' = "block"
  /\ UNCHANGED <<pads, packet, state, virtual, running, owner>>

BlockHits == pc = "block" /\ Receive(idx) /\ UNCHANGED sweep

\* Timeout (or svcCancelSynchronization): input_idx is still 0, and is followed all the same.
BlockEnds ==
  /\ pc = "block"
  /\ queue[idx] = <<>> \/ ~running
  /\ idx' = 0
  /\ \E now \in Answers(connected, 0) : Follow(0, now)
  /\ pc' = "loop"
  /\ UNCHANGED <<pads, sweep, packet, connected, running, owner>>

AsksToAttach(i) == reattach[i] \/ (~handle[i] /\ packet = "L+R")

AttachForgetsFlag ==                                              \* mutant
  /\ pc = "attach"
  /\ IF AsksToAttach(idx) /\ ~handle[idx]
     THEN \E accepted \in BOOLEAN :
            /\ handle' = [handle EXCEPT ![idx] = accepted]
            /\ console' = [console EXCEPT ![idx] = IF accepted THEN "shown" ELSE @]
            /\ waived' = [waived EXCEPT ![idx] = FALSE]
     ELSE KeepsDevice
  /\ pc' = "update"
  /\ UNCHANGED <<pads, sweep, idx, packet, connected, known, reattach, running, owner>>

\* A newly connected pad, or L+R on one that is not attached: hiddbgAttachHdlsVirtualDevice,
\* whose failure UpdateInput ignores.
Attach ==
  /\ pc = "attach"
  /\ IF AsksToAttach(idx) /\ ~handle[idx]
     THEN \E accepted \in BOOLEAN :
            /\ handle' = [handle EXCEPT ![idx] = accepted]
            /\ console' = [console EXCEPT ![idx] = IF accepted THEN "shown" ELSE @]
            /\ waived' = [waived EXCEPT ![idx] = FALSE]
     ELSE KeepsDevice
  /\ reattach' = [reattach EXCEPT ![idx] = FALSE]
  /\ pc' = "update"
  /\ UNCHANGED <<pads, sweep, idx, packet, connected, known, running, owner>>

\* hiddbgSetHdlsState fails on a device that the console dropped: detach ours, too.
Update ==
  /\ pc = "update"
  /\ IF handle[idx] /\ console[idx] # "shown"
     THEN /\ handle' = [handle EXCEPT ![idx] = FALSE]
          /\ console' = [console EXCEPT ![idx] = "none"]
          /\ UNCHANGED waived
     ELSE KeepsDevice
  /\ pc' = "loop"
  /\ UNCHANGED <<pads, sweep, idx, packet, state, running, owner>>

LoopForever ==                                                    \* mutant
  /\ pc = "loop"
  /\ pc' = "sweep" /\ idx' = 0 /\ packet' = "plain"
  /\ UNCHANGED <<pads, sweep, state, virtual, running, owner>>

\* The next UpdateInput starts with cleared locals.
Loop ==
  /\ pc = "loop"
  /\ pc' = IF running THEN "sweep" ELSE "stopped"
  /\ idx' = 0 /\ packet' = "plain"
  /\ UNCHANGED <<pads, sweep, state, virtual, running, owner>>

Thread ==
  ProbeMisses \/ ProbeHits \/ SweepEnds \/ BlockHits \/ BlockEnds \/ Attach \/ Update \/ Loop

-----------------------------------------------------------------------------
(* The owner destroys the handler: Exit.                                   *)

OwnerStops ==
  /\ owner = "serve"
  /\ running' = FALSE
  /\ owner' = "join"
  /\ UNCHANGED <<pads, sweep, idx, packet, state, virtual, pc>>

\* The thread is joined and the controller closed: pads of the receiver that are connected are
\* switched off.
OwnerCloses ==
  /\ owner = "join" /\ pc = "stopped"
  /\ on' = [i \in Input |-> on[i] /\ (Driver = "wireless" => ~connected[i])]
  /\ connected' = IF Driver = "wireless" THEN All(FALSE) ELSE connected
  /\ owner' = "detach"
  /\ UNCHANGED <<queue, sweep, idx, packet, known, reattach, virtual, running, pc>>

OwnerDetachesConnected ==                                         \* mutant
  /\ owner = "detach"
  /\ handle' = [i \in Input |-> handle[i] /\ ~connected[i]]
  /\ console' = [i \in Input |-> IF connected[i] THEN "none" ELSE console[i]]
  /\ owner' = "gone"
  /\ UNCHANGED <<pads, sweep, idx, packet, state, waived, running, pc>>

\* DetachController for every index below GetInputCount().
OwnerDetaches ==
  /\ owner = "detach"
  /\ handle' = [i \in Input |-> handle[i] /\ i \notin Counted]
  /\ console' = [i \in Input |-> IF handle[i] /\ i \in Counted THEN "none" ELSE console[i]]
  /\ owner' = "gone"
  /\ UNCHANGED <<pads, sweep, idx, packet, state, waived, running, pc>>

Owner == OwnerStops \/ OwnerCloses \/ OwnerDetaches

Outside ==
  /\ owner \in {"serve", "join"}
  /\ \E i \in Input :
       \/ SwitchOn(i) \/ SwitchOff(i) \/ ConsoleDrops(i)
       \/ \E p \in Data : Report(i, p)

\* The end: the handler no longer exists.
Destroyed == owner = "gone" /\ UNCHANGED vars

Next == Thread \/ Owner \/ Outside \/ Destroyed

Spec == Init /\ [][Next]_vars
\* Threads that can run do; nobody has to destroy the handler.
FairSpec == Spec /\ WF_vars(Thread) /\ WF_vars(OwnerCloses \/ OwnerDetaches)
-----------------------------------------------------------------------------
(* Properties.                                                             *)

\* Every variable keeps its type.
TypeOK ==
  /\ on \in [Input -> BOOLEAN]
  /\ queue \in [Input -> Seq(Packet)]
  /\ console \in [Input -> {"none", "shown", "dropped"}]
  /\ current \in Input /\ probe \in 0 .. Endpoints /\ idx \in Input
  /\ packet \in Packet
  /\ connected \in [Input -> BOOLEAN]
  /\ known \in [Input -> BOOLEAN]
  /\ reattach \in [Input -> BOOLEAN]
  /\ handle \in [Input -> BOOLEAN]
  /\ waived \in [Input -> BOOLEAN]
  /\ running \in BOOLEAN
  /\ pc \in {"sweep", "block", "attach", "update", "loop", "stopped"}
  /\ owner \in {"serve", "join", "detach", "gone"}

\* A pad that is off, and whose last packet was read, is shown to no game: however many
\* packets the drain skips, the last one is the disconnect, and it is followed although
\* ReadInput reports a failure ("we must not return here if readInput fail").
NoGhostPad ==
  owner \in {"serve", "join"} =>
    \A i \in Pad : ~on[i] /\ queue[i] = <<>> => ~known[i] /\ console[i] = "none"

\* sys-con holds a handle for exactly the devices that the console was given and that it
\* has not detached: none leaks, and none is updated after it was detached.
HandlesMatch == \A i \in Input : handle[i] <=> console[i] # "none"

\* When the handler is destroyed none of its devices is left in the console.
NothingShownAtEnd == owner = "gone" => \A i \in Input : console[i] = "none"

\* A pad that the console dropped comes back only when the user presses L+R on it (or
\* reconnects it), never by itself.
DroppedStaysDropped ==
  [][\A i \in Input : waived[i] /\ ~handle[i] /\ handle'[i] => packet = "L+R"]_vars

\* An endpoint whose packets pile up is read, however busy the others are ("rotate so every
\* endpoint gets a turn").
EveryEndpointHasItsTurn ==
  \A i \in Input : Len(queue[i]) = QueueMax ~> (Len(queue[i]) < QueueMax \/ ~running)

\* ExitThread and what follows it come to an end, whatever the pads send meanwhile.
ExitCompletes == ~running ~> owner = "gone"

\* "For a gamepad only the latest state matters" (the drain in BaseController): a pad that is
\* on, and all of whose packets were read, is connected.
DrainKeepsConnection ==
  owner = "serve" => \A i \in Pad : on[i] /\ queue[i] = <<>> /\ ~Wired => known[i]
=============================================================================

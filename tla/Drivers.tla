-------------------------------- MODULE Drivers --------------------------------
(***************************************************************************)
(* What the drivers make of a controller's packets: Initialize of each     *)
(* driver, the drain of ReadEndpointLatest, ParseData, the virtual key     *)
(* that an Xbox One controller wants acknowledged, the four ports of a     *)
(* GameCube adapter, and the mapping of raw inputs to the buttons that     *)
(* games see.  One endpoint (UsbTransfer and PadHandler have several); an  *)
(* axis counts as one raw input for each of its directions.                *)
(* External: the device.  It sends its state when that changes, and other  *)
(* packets at any time; an unacknowledged key is sent again, until a newer *)
(* one replaces it.                                                        *)
(***************************************************************************)
EXTENDS Integers, Sequences, FiniteSets

CONSTANTS
  Raw,          \* raw inputs: pins, and directions of axes ("12" is the Xbox button)
  Axis,         \* those that are directions of axes
  TooLarge,     \* numbers that are no pin
  Button,       \* ControllerButton
  Binding,      \* Binding[b]: the items of the setting b
  Combos,       \* simulateCombos: records of the simulated button and its two keys
  Ports,        \* WII_MAX_INPUTS, and the joysticks of a HID device
  InitPackets,  \* packets of xboxone_init_packets that fit the device
  MaxSent       \* bound: packets of the device

Mode == "12"
Port == 0 .. Ports - 1
Driver == {"hid", "switch", "dualshock3", "xbox", "xbox360", "xboxone", "wii"}

ASSUME DriverConstantsOK ==
  /\ Mode \in Raw \ Axis /\ Axis \subseteq Raw /\ "unplugged" \notin Raw
  /\ TooLarge \cap Raw = {}
  /\ \A b \in Button : Binding[b] \in Seq(STRING)
  /\ Combos \in Seq([simulated : Button, keys : SUBSET Button])
  /\ Ports \in Nat \ {0} /\ InitPackets \in Nat /\ MaxSent \in Nat

Unplugged == {"unplugged"}     \* a port without a controller, and a pad that is detached

VARIABLES
  driver,   \* the class that ControllerHandler made
  outPipe,  \* m_outPipe is not empty
  device,   \* the device's own state: what is held, by port
  queue,    \* packets that it can deliver
  sent,     \* how many it has sent
  seq,      \* sequence number of its last key
  unacked,  \* that number while no acknowledgement has come, otherwise 0
  step,     \* Initialize: how far
  pc,       \* "init", "run", or "failed"
  rawInput, \* m_rawInput (Xbox One)
  buffer,   \* m_buffer (Wii)
  index,    \* m_current_wii_controller_idx
  shown,    \* by port: the buttons of the virtual pad, or Unplugged
  newest    \* history: the last packet sent, unless Initialize has discarded it

world == <<device, queue, sent, seq, newest>>
local == <<rawInput, buffer, index, shown>>
vars == <<driver, outPipe, world, unacked, step, pc, local>>

Packet(kind, port, state, n) == [kind |-> kind, port |-> port, state |-> state, seq |-> n]
Nothing == Packet("other", 0, [p \in Port |-> {}], 0)
HasPorts == driver = "wii"

Init ==
  /\ driver \in Driver /\ outPipe \in BOOLEAN
  /\ device = [p \in Port |-> IF HasPorts THEN Unplugged ELSE {}]
  /\ queue = <<>> /\ sent = 0 /\ seq = 0 /\ unacked = 0
  /\ step = 0 /\ pc = "init"
  /\ rawInput = {} /\ buffer = Nothing /\ index = 0
  /\ shown = device
  /\ newest = Nothing

-----------------------------------------------------------------------------
(* The device.                                                             *)

Sends(p) ==
  /\ sent < MaxSent /\ sent' = sent + 1
  /\ queue' = Append(queue, p)
  /\ newest' = p
  /\ UNCHANGED <<driver, outPipe, step, pc, local>>

Toggled(S, r) == IF r \in S THEN S \ {r} ELSE S \cup {r}

\* A button or an axis moves.  The adapter reports all its ports, a HID device one joystick.
Moves(p, r) ==
  /\ device[p] # Unplugged /\ r # Mode
  /\ p # 0 => driver \in {"wii", "hid"}
  /\ device' = [device EXCEPT ![p] = Toggled(@, r)]
  /\ Sends(Packet("input", p, device', 0))
  /\ UNCHANGED <<seq, unacked>>

ModeKey ==
  /\ driver = "xboxone"
  /\ device' = [device EXCEPT ![0] = Toggled(@, Mode)]
  /\ seq' = seq + 1 /\ unacked' = seq + 1
  /\ Sends(Packet("key", 0, device', seq + 1))

KeyAgain ==
  /\ unacked # 0
  /\ Sends(Packet("key", 0, device, unacked))
  /\ UNCHANGED <<device, seq, unacked>>

PlugsOrUnplugs(p) ==
  /\ HasPorts
  /\ device' = [device EXCEPT ![p] = IF @ = Unplugged THEN {} ELSE Unplugged]
  /\ Sends(Packet("input", p, device', 0))
  /\ UNCHANGED <<seq, unacked>>

\* A status, a short packet, a report of a joystick that does not exist: no driver takes it for
\* input.
SendsOther == Sends(Nothing) /\ UNCHANGED <<device, seq, unacked>>

-----------------------------------------------------------------------------
(* Initialize.                                                             *)

\* A read whose result nobody looks at.
ReadsAway ==
  \/ queue # <<>> /\ queue' = Tail(queue) /\ newest' = IF Len(queue) = 1 THEN Nothing ELSE newest
  \/ UNCHANGED <<queue, newest>>

Starts == pc' = "run" /\ step' = 0

InitFails == pc' = "failed" /\ step' = 0

Initializing(d) ==
  pc = "init" /\ driver \in d /\ UNCHANGED <<driver, outPipe, device, sent, seq, unacked, local>>

InitializesXbox == Initializing({"xbox"}) /\ Starts /\ UNCHANGED <<queue, newest>>

\* SetLED, whose result nobody looks at.
InitializesXbox360 == Initializing({"xbox360"}) /\ Starts /\ UNCHANGED <<queue, newest>>

\* Ds3FeatureStartDevice may fail; SetLED as above.
InitializesDualshock3 ==
  Initializing({"dualshock3"}) /\ (Starts \/ InitFails) /\ UNCHANGED <<queue, newest>>

\* The report descriptor cannot be read, or describes no joystick.
InitializesHid == Initializing({"hid"}) /\ (Starts \/ InitFails) /\ UNCHANGED <<queue, newest>>

NoOutPipe ==
  /\ Initializing({"switch", "wii", "xboxone"}) /\ ~outPipe
  /\ IF driver = "xboxone" THEN Starts ELSE InitFails
  /\ UNCHANGED <<queue, newest>>

InitializesWii ==
  /\ Initializing({"wii"}) /\ outPipe
  /\ Starts
  /\ UNCHANGED <<queue, newest>>

\* SwitchController: flush until a read fails, which may leave packets, then a command, a read
\* for its answer, which may take one of them, a command.
FlushesSwitch ==
  /\ Initializing({"switch"}) /\ outPipe
  /\ queue # <<>> /\ ReadsAway
  /\ UNCHANGED <<step, pc>>

InitializesSwitch ==
  /\ Initializing({"switch"}) /\ outPipe
  /\ Starts
  /\ ReadsAway

\* SendInitBytes, numbered from 1; after each packet one is read and dropped.
SendsInitBytes ==
  /\ Initializing({"xboxone"}) /\ outPipe
  /\ IF step = InitPackets THEN Starts /\ UNCHANGED <<queue, newest>>
     ELSE step' = step + 1 /\ ReadsAway /\ UNCHANGED pc

InitBytesFail ==
  /\ Initializing({"xboxone"}) /\ outPipe /\ step < InitPackets
  /\ InitFails
  /\ UNCHANGED <<queue, newest>>

Initialize ==
  \/ InitializesXbox \/ InitializesXbox360 \/ InitializesDualshock3 \/ InitializesHid
  \/ NoOutPipe \/ InitializesWii
  \/ FlushesSwitch \/ InitializesSwitch \/ SendsInitBytes \/ InitBytesFail

-----------------------------------------------------------------------------
(* The mapping.                                                            *)

Pin == Raw \ Axis

\* One item of parseBinding's loop: a pin takes a slot while there is one; anything that is no
\* number takes the place of the axis, and leaves none when it names none.
TakesItem(bound, item) ==
  CASE item \in Pin      -> IF bound.slots = 2 THEN bound
                            ELSE [bound EXCEPT !.slots = @ + 1, !.pins = @ \cup {item}]
    [] item \in TooLarge -> bound
    [] OTHER             -> [bound EXCEPT !.axes = {item} \cap Axis]

\* parseBinding, item after item.
Unbound == [slots |-> 0, pins |-> {}, axes |-> {}]
ParseBinding(items) ==
  LET after[n \in 0 .. Len(items)] ==
        IF n = 0 THEN Unbound ELSE TakesItem(after[n - 1], items[n])
  IN  after[Len(items)]

Bound(items) == ParseBinding(items).pins \cup ParseBinding(items).axes

\* ControllerConfig: the bindings, as they were read once.
Config == [b \in Button |-> Bound(Binding[b])]

Pressed(raw) == {b \in Button : Config[b] \cap raw # {}}

\* A combination shows its button in place of its two keys.
Combine(buttons, combo) ==
  IF combo.keys \subseteq buttons THEN (buttons \cup {combo.simulated}) \ combo.keys ELSE buttons

\* MapRawInputToNormalized, combinations in the order of their slots.
Map(raw) ==
  LET after[n \in 0 .. Len(Combos)] ==
        IF n = 0 THEN Pressed(raw) ELSE Combine(after[n - 1], Combos[n])
  IN  after[Len(Combos)]

-----------------------------------------------------------------------------
(* ReadInput and UpdateInput.                                              *)

Show(p, raw) == shown' = [shown EXCEPT ![p] = IF raw = Unplugged THEN Unplugged ELSE Map(raw)]

Unparsed == UNCHANGED <<local, unacked>>

\* An input report is shown; whatever else the device sends is not.
ShowsInput(packet, port) ==
  IF packet.kind = "input"
  THEN Show(port, packet.state[port]) /\ UNCHANGED <<rawInput, buffer, index, unacked>>
  ELSE Unparsed

\* Each of these drivers knows its input report in its own way: the Switch one by its report
\* id, the Dualshock 3 and Xbox 360 ones by their type, the Xbox one by its length alone.
ParsesSwitch(packet)     == ShowsInput(packet, 0)
ParsesDualshock3(packet) == ShowsInput(packet, 0)
ParsesXbox360(packet)    == ShowsInput(packet, 0)
ParsesXbox(packet)       == ShowsInput(packet, 0)

\* A HID report goes to the joystick that it names.
ParsesHid(packet) == ShowsInput(packet, packet.port)

AckFailsUntaken(packet) ==                                        \* mutant
  /\ unacked' = IF unacked = packet.seq THEN 0 ELSE unacked
  /\ UNCHANGED local

\* The acknowledgement is written, and reaches the device.
Acks(packet) == unacked' = IF unacked = packet.seq THEN 0 ELSE unacked

\* WriteAckModeReport fails, on the way there or on the way back: the key is taken, not shown.
AckFails(packet) ==
  /\ Acks(packet) \/ UNCHANGED unacked
  /\ rawInput' = (rawInput \ {Mode}) \cup (packet.state[0] \cap {Mode})
  /\ UNCHANGED <<buffer, index, shown>>

TakesKey(packet) ==
  /\ rawInput' = (rawInput \ {Mode}) \cup (packet.state[0] \cap {Mode})
  /\ IF outPipe THEN Acks(packet) ELSE UNCHANGED unacked
  /\ Show(0, rawInput')
  /\ UNCHANGED <<buffer, index>>

\* An Xbox One controller has no room for its mode button in an input report.
TakesInput(packet) ==
  /\ rawInput' = (packet.state[0] \ {Mode}) \cup (rawInput \cap {Mode})
  /\ Show(0, rawInput')
  /\ UNCHANGED <<unacked, buffer, index>>

ParsesXboxOne(packet) ==
  \/ packet.kind = "input" /\ TakesInput(packet)
  \/ packet.kind = "key"   /\ (TakesKey(packet) \/ (outPipe /\ AckFails(packet)))
  \/ packet.kind = "other" /\ Unparsed

\* WiiController::ReadNextBuffer at index 0: m_buffer is overwritten whatever the packet is.
ParsesWii(packet) ==
  /\ buffer' = packet
  /\ IF packet.kind = "input"
     THEN Show(0, packet.state[0]) /\ index' = 1 % Ports
     ELSE UNCHANGED <<shown, index>>
  /\ UNCHANGED <<rawInput, unacked>>

ParseData(packet) ==
  \/ driver = "switch"     /\ ParsesSwitch(packet)
  \/ driver = "dualshock3" /\ ParsesDualshock3(packet)
  \/ driver = "xbox360"    /\ ParsesXbox360(packet)
  \/ driver = "xbox"       /\ ParsesXbox(packet)
  \/ driver = "hid"        /\ ParsesHid(packet)
  \/ driver = "xboxone"    /\ ParsesXboxOne(packet)
  \/ driver = "wii"        /\ ParsesWii(packet)

ReceivesFirst(n) ==                                               \* mutant
  /\ pc = "run" /\ (driver = "wii" => index = 0)
  /\ n \in DOMAIN queue
  /\ queue' = SubSeq(queue, n + 1, Len(queue))
  /\ ParseData(queue[1])
  /\ UNCHANGED <<driver, outPipe, device, sent, seq, newest, step, pc>>

\* ReadEndpointLatest keeps the last of the n packets that it drains.
Receives(n) ==
  /\ pc = "run" /\ (driver = "wii" => index = 0)
  /\ n \in DOMAIN queue
  /\ queue' = SubSeq(queue, n + 1, Len(queue))
  /\ ParseData(queue[n])
  /\ UNCHANGED <<driver, outPipe, device, sent, seq, newest, step, pc>>

ServesPastTheEnd ==                                               \* mutant
  /\ pc = "run" /\ index # 0
  /\ Show(index, buffer.state[index])
  /\ index' = (index + 1) % (Ports + 1)
  /\ UNCHANGED <<driver, outPipe, world, unacked, step, pc, rawInput, buffer>>

\* The other ports of the adapter come out of m_buffer, without a read.
ServesNextPort ==
  /\ pc = "run" /\ index # 0
  /\ Show(index, buffer.state[index])
  /\ index' = (index + 1) % Ports
  /\ UNCHANGED <<driver, outPipe, world, unacked, step, pc, rawInput, buffer>>

\* The device has nothing more to send, or the handler was never made.
Quiet == pc # "init" /\ (pc = "run" => queue = <<>> /\ index = 0) /\ UNCHANGED vars

-----------------------------------------------------------------------------

Device == \/ ModeKey \/ KeyAgain \/ SendsOther
          \/ \E p \in Port : PlugsOrUnplugs(p) \/ \E r \in Raw : Moves(p, r)

Reads == ServesNextPort \/ \E n \in 1 .. MaxSent : Receives(n)

Next == (pc # "failed" /\ Device) \/ Initialize \/ Reads \/ Quiet
Spec == Init /\ [][Next]_vars
-----------------------------------------------------------------------------
(* What a pad should show.                                                 *)

\* The items of a setting as config.ini describes them: up to two pins and one axis.
MeansRaw(items, r) ==
  \E i \in DOMAIN items :
    /\ items[i] = r
    /\ r \in Pin  => Cardinality({j \in 1 .. i : items[j] \in Pin}) <= 2
    /\ r \in Axis => \A j \in i + 1 .. Len(items) : items[j] \in Pin \cup TooLarge

Held(raw) == {b \in Button : \E r \in raw : MeansRaw(Binding[b], r)}

\* A combination counts when its keys are held and no earlier one uses one of them.
Counting(raw) ==
  CHOOSE F \in SUBSET DOMAIN Combos : \A i \in DOMAIN Combos :
    i \in F <=> /\ Combos[i].keys \subseteq Held(raw)
                /\ \A j \in F : j < i => Combos[j].keys \cap Combos[i].keys = {}

Meant(raw) ==
  LET F == Counting(raw)
  IN (Held(raw) \ UNION {Combos[i].keys : i \in F}) \cup {Combos[i].simulated : i \in F}

\* What config.ini must keep to: the simulated button of a combination is no key of it, nor of a
\* later one (which would be pressed by the first).
NoKeySimulated ==
  \A i, j \in DOMAIN Combos : i <= j => Combos[i].simulated \notin Combos[j].keys

-----------------------------------------------------------------------------
(* Properties.                                                             *)

State == {Unplugged} \cup SUBSET Raw
PacketOK(p) ==
  /\ p.kind \in {"input", "key", "other"} /\ p.port \in Port
  /\ p.state \in [Port -> State] /\ p.seq \in 0 .. MaxSent

TypeOK ==
  /\ driver \in Driver /\ outPipe \in BOOLEAN
  /\ device \in [Port -> State]
  /\ \A i \in 1 .. Len(queue) : PacketOK(queue[i])
  /\ Len(queue) <= sent /\ sent \in 0 .. MaxSent
  /\ seq \in 0 .. sent /\ unacked \in {0, seq}
  /\ step \in 0 .. InitPackets /\ pc \in {"init", "run", "failed"}
  /\ rawInput \subseteq Raw /\ PacketOK(buffer) /\ index \in Port
  /\ \A p \in Port : shown[p] = Unplugged \/ shown[p] \subseteq Button
  /\ PacketOK(newest)

\* A controller that stops sending its Xbox button again, because it was acknowledged, has been
\* understood: the driver holds the button as the user does, although the initialisation and
\* the drain drop packets, keys are sent twice, and the acknowledgement of a key may arrive
\* when a newer one is under way.
AckedIsTaken ==
  driver = "xboxone" /\ outPipe /\ seq > 0 /\ unacked = 0 => (Mode \in rawInput <=> Mode \in device[0])

Raws(p) ==
  IF driver = "xboxone" THEN (device[0] \ {Mode}) \cup (rawInput \cap {Mode}) ELSE device[p]

Shows(p) ==
  shown[p] = IF device[p] = Unplugged THEN Unplugged ELSE Meant(Raws(p))

\* "For a gamepad only the latest state matters" (BaseController.cpp:151): when the last packet
\* of a controller is an input report, and all were read, its pad shows the controller as the
\* user holds it, through the bindings and combinations of config.ini; and an adapter's report
\* has reached all its ports, or disconnected them.
LatestIsShown ==
  pc = "run" /\ queue = <<>> /\ index = 0 /\ newest.kind = "input" =>
    /\ Shows(newest.port)
    /\ driver = "wii" => \A p \in Port : Shows(p)
=============================================================================

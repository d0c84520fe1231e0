------------------------------ MODULE UsbTransfer ------------------------------
(***************************************************************************)
(* How one controller's input thread reads its endpoints: the asynchronous *)
(* transfer that SwitchUSBEndpoint::ReadAsync keeps armed across timeouts, *)
(* the drain of ReadEndpointLatest on top of it, and the sweep of          *)
(* ReadNextBuffer on top of both.  A report is named by the number of the  *)
(* transfer that carried it: transfers of an endpoint are numbered from 1. *)
(* External: usb:hs and the device, which answer armed transfers.  The     *)
(* thread holds usbLock during a read, so no other thread takes part.      *)
(***************************************************************************)
EXTENDS Integers, Sequences

CONSTANTS
  Endpoints,   \* m_inPipe.size()
  MaxTransfer  \* bound: transfers of an endpoint

ASSUME TransferConstantsOK == Endpoints \in Nat \ {0} /\ MaxTransfer \in Nat

Endpoint == 0 .. Endpoints - 1
Kind == {"data", "empty", "error"}  \* a report, a zero-length answer, a failed transfer

VARIABLES
  xferIdRead,  \* m_xferIdRead[e], 0 if none
  posted,      \* number of the last transfer posted on e
  armed,       \* usb:hs: transfers of e that are waiting for the device
  reports,     \* usb:hs: transfer reports of e that nobody has fetched
  signalled,   \* usb:hs: the transfer event of e
  buffer,      \* number of the transfer that last filled m_usb_buffer_in of e
  current,     \* m_current_controller_idx
  probe,       \* endpoints probed in this sweep
  idx,         \* the endpoint being read
  latest,      \* what ReadEndpointLatest has in its buffer, 0 if nothing yet
  output,      \* output[e]: the last report of e that ReadNextBuffer returned
  running,     \* m_ThreadIsRunning
  pc,          \* the input thread
  answered,    \* history: transfers of e that were answered with data
  missed,      \* history: a report of e could not be fetched
  overtaken    \* history: reports of others that were returned while one of e waited

usbhs   == <<armed, reports, signalled, buffer, answered>>
code    == <<xferIdRead, posted, missed>>
sweep   == <<current, probe, idx>>
vars == <<usbhs, code, sweep, latest, output, overtaken, running, pc>>

All(v) == [e \in Endpoint |-> v]

Init ==
  /\ xferIdRead = All(0) /\ posted = All(0)
  /\ armed = All({}) /\ reports = All(<<>>) /\ signalled = All(FALSE) /\ buffer = All(0)
  /\ current = 0 /\ probe = 0 /\ idx = 0
  /\ latest = 0 /\ output = All(0)
  /\ running = TRUE /\ pc = "start"
  /\ answered = All({}) /\ missed = All(FALSE) /\ overtaken = All(0)

\* What the device has sent on e and ReadNextBuffer has not returned.
Unread(e) == {n \in answered[e] : n > output[e]}

-----------------------------------------------------------------------------
(* The device answers a transfer; usb:hs fills the buffer and signals.     *)

Answer(e, n, kind) ==
  /\ n \in armed[e]
  /\ armed' = [armed EXCEPT ![e] = @ \ {n}]
  /\ reports' = [reports EXCEPT ![e] = Append(@, [id |-> n, kind |-> kind])]
  /\ signalled' = [signalled EXCEPT ![e] = TRUE]
  /\ buffer' = IF kind = "empty" THEN buffer ELSE [buffer EXCEPT ![e] = n]
  /\ answered' = IF kind = "data" THEN [answered EXCEPT ![e] = @ \cup {n}] ELSE answered
  /\ UNCHANGED <<code, sweep, latest, output, overtaken, running, pc>>

-----------------------------------------------------------------------------
(* What follows a read: the drain reads on, and ends with the first read   *)
(* that fails; a sweep goes on to the next endpoint, blocks once when all  *)
(* were idle, and starts behind the endpoint it served.                    *)

ReadSucceedsKeepsFirst(n) ==                                      \* mutant
  /\ latest' = IF latest = 0 THEN n ELSE latest
  /\ pc' = "post"
  /\ UNCHANGED <<sweep, output, overtaken>>

ReadSucceeds(n) ==
  /\ latest' = n
  /\ pc' = "post"
  /\ UNCHANGED <<sweep, output, overtaken>>

Overtakes ==
  overtaken' = [e \in Endpoint |-> IF e = idx \/ Unread(e) = {} THEN 0 ELSE overtaken[e] + 1]

SweepServesWithoutRotation ==                                     \* mutant
  /\ latest # 0
  /\ output' = [output EXCEPT ![idx] = latest]
  /\ Overtakes
  /\ pc' = "start"
  /\ UNCHANGED sweep

\* An endpoint had data: return the freshest.
SweepServes ==
  /\ latest # 0
  /\ output' = [output EXCEPT ![idx] = latest]
  /\ Overtakes
  /\ current' = (idx + 1) % Endpoints
  /\ pc' = "start"
  /\ UNCHANGED <<probe, idx>>

SweepGoesOn ==
  /\ latest = 0 /\ probe + 1 < Endpoints
  /\ probe' = probe + 1
  /\ idx' = (current + probe + 1) % Endpoints
  /\ pc' = "post"
  /\ UNCHANGED <<current, output, overtaken>>

\* All idle: one read with a timeout, on the endpoint whose turn it is.
SweepBlocks ==
  /\ latest = 0 /\ probe + 1 = Endpoints
  /\ probe' = Endpoints
  /\ idx' = current
  /\ current' = (current + 1) % Endpoints
  /\ pc' = "post"
  /\ UNCHANGED <<output, overtaken>>

SweepEndsIdle ==
  /\ latest = 0 /\ probe = Endpoints
  /\ pc' = "start"
  /\ UNCHANGED <<sweep, output, overtaken>>

ReadFails ==
  /\ latest' = 0
  /\ SweepServes \/ SweepGoesOn \/ SweepBlocks \/ SweepEndsIdle

-----------------------------------------------------------------------------
(* SwitchUSBEndpoint::ReadAsync on endpoint idx.                           *)

AlreadyArmed ==
  /\ pc = "post" /\ xferIdRead[idx] # 0
  /\ pc' = "wait"
  /\ UNCHANGED <<usbhs, code, sweep, latest, output, overtaken, running>>

PostsAnyway ==                                                    \* mutant
  /\ pc = "post" /\ posted[idx] < MaxTransfer
  /\ posted' = [posted EXCEPT ![idx] = @ + 1]
  /\ xferIdRead' = [xferIdRead EXCEPT ![idx] = posted[idx] + 1]
  /\ armed' = [armed EXCEPT ![idx] = @ \cup {posted[idx] + 1}]
  /\ pc' = "wait"
  /\ UNCHANGED <<reports, signalled, buffer, answered, missed, sweep, latest, output, overtaken, running>>

Posts ==
  /\ pc = "post" /\ xferIdRead[idx] = 0 /\ posted[idx] < MaxTransfer
  /\ posted' = [posted EXCEPT ![idx] = @ + 1]
  /\ xferIdRead' = [xferIdRead EXCEPT ![idx] = posted[idx] + 1]
  /\ armed' = [armed EXCEPT ![idx] = @ \cup {posted[idx] + 1}]
  /\ pc' = "wait"
  /\ UNCHANGED <<reports, signalled, buffer, answered, missed, sweep, latest, output, overtaken, running>>

PostFails ==
  /\ pc = "post" /\ xferIdRead[idx] = 0
  /\ ReadFails
  /\ UNCHANGED <<usbhs, code, running>>

ForgetsTransfer ==                                                \* mutant
  /\ pc = "wait" /\ ~signalled[idx]
  /\ ReadFails
  /\ xferIdRead' = [xferIdRead EXCEPT ![idx] = 0]
  /\ UNCHANGED <<usbhs, posted, missed, running>>

WaitFailsAndClears ==                                             \* mutant
  /\ pc = "wait"
  /\ ReadFails
  /\ signalled' = [signalled EXCEPT ![idx] = FALSE]
  /\ UNCHANGED <<armed, reports, buffer, answered, code, running>>

\* The timeout expires, or the wait is cancelled: the transfer stays armed.
WaitFails ==
  /\ pc = "wait" /\ ~signalled[idx]
  /\ ReadFails
  /\ UNCHANGED <<usbhs, code, running>>

\* The event is cleared and the transfer's number taken, whatever the report says.
Taken == /\ pc = "wait" /\ signalled[idx]
         /\ signalled' = [signalled EXCEPT ![idx] = FALSE]
         /\ xferIdRead' = [xferIdRead EXCEPT ![idx] = 0]
         /\ UNCHANGED <<posted, armed, buffer, answered, running>>

FetchFails ==
  /\ Taken /\ ReadFails
  /\ missed' = [missed EXCEPT ![idx] = TRUE]
  /\ UNCHANGED reports

Good(r) == r.id = xferIdRead[idx] /\ r.kind = "data"

\* A report of another transfer, an empty or a failed one is dropped.  (A signalled event has
\* a report, so that a count of 0 does not occur.)
Fetches ==
  /\ Taken /\ reports[idx] # <<>>
  /\ reports' = [reports EXCEPT ![idx] = Tail(@)]
  /\ IF Good(Head(reports[idx])) THEN ReadSucceeds(buffer[idx]) ELSE ReadFails
  /\ UNCHANGED missed

-----------------------------------------------------------------------------

StartsSweep ==
  /\ pc = "start" /\ running
  /\ probe' = 0 /\ idx' = current
  /\ pc' = "post"
  /\ UNCHANGED <<usbhs, code, current, latest, output, overtaken, running>>

Stops == pc = "start" /\ ~running /\ pc' = "stopped"
         /\ UNCHANGED <<usbhs, code, sweep, latest, output, overtaken, running>>

\* SwitchUSBEndpoint::Close, of every endpoint, by whoever joined the thread: usb:hs gives
\* armed transfers up.
Closes ==
  /\ pc = "stopped"
  /\ armed' = All({})
  /\ pc' = "closed"
  /\ UNCHANGED <<reports, signalled, buffer, answered, code, sweep, latest, output, overtaken, running>>

Stop == running /\ running' = FALSE
        /\ UNCHANGED <<usbhs, code, sweep, latest, output, overtaken, pc>>

Closed == pc = "closed" /\ UNCHANGED vars

Thread == \/ StartsSweep \/ AlreadyArmed \/ Posts \/ PostFails
          \/ WaitFails \/ FetchFails \/ Fetches
          \/ Stops \/ Closes
Device == \E e \in Endpoint, n \in 1 .. MaxTransfer, kind \in Kind : Answer(e, n, kind)

Next == Thread \/ Device \/ Stop \/ Closed
Spec == Init /\ [][Next]_vars
-----------------------------------------------------------------------------
(* Properties.                                                             *)

Pending(e) == {reports[e][i].id : i \in DOMAIN reports[e]}

TypeOK ==
  /\ xferIdRead \in [Endpoint -> 0 .. MaxTransfer]
  /\ posted \in [Endpoint -> 0 .. MaxTransfer]
  /\ armed \in [Endpoint -> SUBSET (1 .. MaxTransfer)]
  /\ reports \in [Endpoint -> Seq([id : 1 .. MaxTransfer, kind : Kind])]
  /\ signalled \in [Endpoint -> BOOLEAN]
  /\ buffer \in [Endpoint -> 0 .. MaxTransfer]
  /\ current \in Endpoint /\ probe \in 0 .. Endpoints /\ idx \in Endpoint
  /\ latest \in 0 .. MaxTransfer
  /\ output \in [Endpoint -> 0 .. MaxTransfer]
  /\ running \in BOOLEAN
  /\ pc \in {"start", "post", "wait", "stopped", "closed"}
  /\ answered \in [Endpoint -> SUBSET (1 .. MaxTransfer)]
  /\ missed \in [Endpoint -> BOOLEAN]
  /\ overtaken \in [Endpoint -> Nat]

\* A timeout does not lead to a second transfer: what usb:hs has armed on an endpoint is the
\* one transfer that the code waits for, so that nothing fills m_usb_buffer_in while a report
\* is being copied out of it.
OneTransfer == \A e \in Endpoint : armed[e] \subseteq {xferIdRead[e]}

\* No report gets lost between timeouts, probes and drains: one that the device has sent
\* was returned, or is superseded by a newer one that was or is about to be, or waits to be
\* fetched.  (Unless usbHsEpGetXferReport failed.)
NothingLost ==
  \A e \in Endpoint : \A n \in answered[e] :
    \/ n <= output[e]
    \/ idx = e /\ n <= latest
    \/ n \in Pending(e)
    \/ missed[e]

\* What an endpoint delivers is data of its own device, each report newer than the one
\* before: none twice, none stale.
DeliveredInOrder ==
  [][\A e \in Endpoint : output'[e] # output[e] =>
       output'[e] > output[e] /\ output'[e] \in answered'[e]]_vars

\* No wait is lost: the transfer that the code waits for is still armed, or its event is
\* signalled, so that a read with a long enough timeout ends with the device's answer.
WaitCanEnd ==
  pc # "closed" =>
    \A e \in Endpoint : xferIdRead[e] # 0 => xferIdRead[e] \in armed[e] \/ signalled[e]

\* A report waits for fewer reports of other endpoints than there are endpoints, however busy
\* they are: "rotate so every endpoint gets a turn" also holds for one that was passed over just
\* before its report came, and when the turn moves on without a report because all were
\* idle.  (Unless usbHsEpGetXferReport failed.)
EveryEndpointInTurn == \A e \in Endpoint : ~missed[e] => overtaken[e] < Endpoints

\* The transfers, their events and timeouts do not show in what a sweep gives: an endpoint is
\* passed over only when the device has sent nothing new on it, one that is served gives
\* its newest report ("only the latest state matters"), and gets its next turn after the
\* others ("rotate so every endpoint gets a turn").
Sweep == INSTANCE EndpointSweep
           WITH Report <- 1 .. MaxTransfer,
                waiting <- [e \in Endpoint |-> Unread(e)],
                given <- output,
                lossy <- missed,
                sweeping <- pc \in {"post", "wait"}
ImplementsSweep == Sweep!Spec
=============================================================================

----------------------------- MODULE EndpointSweep -----------------------------
(***************************************************************************)
(* What BaseController::ReadNextBuffer promises about the reports of a     *)
(* controller's endpoints, whatever timeouts, transfers and events are     *)
(* behind it: an endpoint is passed over only when nothing waits there,    *)
(* one that is served gives its newest report and forgets the older ones,  *)
(* and the next sweep starts behind the endpoint served.  UsbTransfer      *)
(* implements this with one asynchronous transfer per endpoint.            *)
(***************************************************************************)
EXTENDS Integers

CONSTANTS Endpoints,  \* number of endpoints
          Report      \* the reports of an endpoint: numbers, in the order they are sent

VARIABLES
  waiting,   \* waiting[e]: reports that the device has sent and nobody has read
  given,     \* given[e]: the last report of e that was returned, 0 if none
  lossy,     \* lossy[e]: fetching a report of e has failed, and no more is promised for it
  sweeping,  \* a call of ReadNextBuffer is under way
  current,   \* m_current_controller_idx
  probe,     \* endpoints passed over in this sweep
  idx        \* the endpoint whose turn it is

vars == <<waiting, given, lossy, sweeping, current, probe, idx>>

Endpoint == 0 .. Endpoints - 1

Init ==
  /\ waiting = [e \in Endpoint |-> {}]
  /\ given = [e \in Endpoint |-> 0]
  /\ lossy = [e \in Endpoint |-> FALSE]
  /\ sweeping = FALSE
  /\ current = 0 /\ probe = 0 /\ idx = 0

\* The device sends a report, the newest of its endpoint.
Arrives(e, n) ==
  /\ n > given[e] /\ \A m \in waiting[e] : n > m
  /\ waiting' = [waiting EXCEPT ![e] = @ \cup {n}]
  /\ UNCHANGED <<given, lossy, sweeping, current, probe, idx>>

Starts ==
  /\ ~sweeping /\ sweeping' = TRUE
  /\ probe' = 0 /\ idx' = current
  /\ UNCHANGED <<waiting, given, lossy, current>>

\* A read of endpoint idx may fail to fetch a report.
MayFail == lossy' \in {lossy, [lossy EXCEPT ![idx] = TRUE]}

\* The freshest report is returned, and those that it supersedes never will be.
Serves ==
  /\ sweeping /\ sweeping' = FALSE
  /\ \E n \in waiting[idx] :
       /\ lossy'[idx] \/ \A m \in waiting[idx] : m <= n
       /\ given' = [given EXCEPT ![idx] = n]
       /\ waiting' = [waiting EXCEPT ![idx] = {m \in @ : m > n}]
  /\ current' = (idx + 1) % Endpoints
  /\ UNCHANGED <<probe, idx>>

FindsNothing ==
  /\ sweeping
  /\ waiting[idx] = {} \/ lossy'[idx]
  /\ UNCHANGED <<waiting, given>>

PassesOver ==
  /\ FindsNothing /\ probe + 1 < Endpoints
  /\ probe' = probe + 1 /\ idx' = (current + probe + 1) % Endpoints
  /\ UNCHANGED <<sweeping, current>>

\* All endpoints were idle: the one whose turn it is gets the rest of the time.
Blocks ==
  /\ FindsNothing /\ probe + 1 = Endpoints
  /\ probe' = Endpoints /\ idx' = current
  /\ current' = (current + 1) % Endpoints
  /\ UNCHANGED sweeping

GivesUp ==
  /\ FindsNothing /\ probe = Endpoints
  /\ sweeping' = FALSE
  /\ UNCHANGED <<current, probe, idx>>

Next ==
  \/ \E e \in Endpoint, n \in Report : Arrives(e, n)
  \/ Starts
  \/ MayFail /\ (Serves \/ PassesOver \/ Blocks \/ GivesUp)

Spec == Init /\ [][Next]_vars
=============================================================================

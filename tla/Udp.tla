-------------------------------- MODULE Udp --------------------------------
(***************************************************************************)
(* UDP endpoints of src/kernel/net/udp.c: udp_open, udp_close, the packet  *)
(* path of udp_input and the receive loop of udp_recvfrom, with the       *)
(* endpoint reference count of udp_endpoint_acquire_ref/_release_ref.     *)
(*                                                                         *)
(* A packet is a count: the queue is its length, the blocking semaphore    *)
(* its count.  Each input thread carries one packet through udp_input at  *)
(* a time; each receiver thread runs one udp_recvfrom at a time on an     *)
(* endpoint it was handed while the endpoint was open.  The socket layer   *)
(* that calls udp_close and udp_recvfrom is outside src/: nothing in      *)
(* udp.c keeps a close from running while a receive is in progress, so    *)
(* the model lets them interleave.                                         *)
(***************************************************************************)
EXTENDS Naturals, FiniteSets

CONSTANTS
  Endpoints,     \* udp_endpoint records udp_open may allocate
  Ports,         \* destination ports
  Inputs,        \* threads running udp_input
  Receivers,     \* threads running udp_recvfrom
  NoEndpoint,
  MaxPackets,    \* bound on the packets udp_input is given
  AllocCanFail   \* whether kmalloc of a queue element may fail

ASSUME NoEndpoint \notin Endpoints /\ MaxPackets \in Nat

VARIABLES
  estate,     \* "unused", "open" (in the endpoints hash) or "closed"
  port,       \* e->port
  ref_count,  \* e->ref_count
  destroyed,  \* e->lock and e->blocking_sem destroyed by the last release
  qlen,       \* e->q.count
  sem,        \* count of e->blocking_sem
  ipc, ie,    \* where each input thread is in udp_input, its endpoint
  rpc, re,    \* where each receiver is in udp_recvfrom, its endpoint
  sent        \* packets handed to udp_input so far

uvars == <<estate, port, ref_count, destroyed, qlen, sem, ipc, ie, rpc, re, sent>>

TypeOK ==
  /\ estate \in [Endpoints -> {"unused", "open", "closed"}]
  /\ port \in [Endpoints -> Ports]
  /\ ref_count \in [Endpoints -> Nat]
  /\ destroyed \in [Endpoints -> BOOLEAN]
  /\ qlen \in [Endpoints -> Nat] /\ sem \in [Endpoints -> Nat]
  /\ ipc \in [Inputs -> {"idle", "held", "pushed", "signalled"}]
  /\ ie \in [Inputs -> Endpoints \cup {NoEndpoint}]
  /\ rpc \in [Receivers -> {"idle", "wait", "acq", "locked"}]
  /\ re \in [Receivers -> Endpoints \cup {NoEndpoint}]
  /\ sent \in 0..MaxPackets

\* udp_init: the endpoints hash is empty.
UInit ==
  /\ estate = [e \in Endpoints |-> "unused"]
  /\ port = [e \in Endpoints |-> CHOOSE p \in Ports : TRUE]
  /\ ref_count = [e \in Endpoints |-> 0]
  /\ destroyed = [e \in Endpoints |-> FALSE]
  /\ qlen = [e \in Endpoints |-> 0] /\ sem = [e \in Endpoints |-> 0]
  /\ ipc = [i \in Inputs |-> "idle"] /\ ie = [i \in Inputs |-> NoEndpoint]
  /\ rpc = [r \in Receivers |-> "idle"] /\ re = [r \in Receivers |-> NoEndpoint]
  /\ sent = 0

\* udp_endpoint_release_ref: the thread whose decrement took the count from
\* 1 destroys the lock and the semaphore and empties the queue, without
\* taking e->lock.  The record itself is never freed.
ReleaseRef(e) ==
  /\ ref_count' = [ref_count EXCEPT ![e] = @ - 1]
  /\ IF ref_count[e] = 1
       THEN /\ destroyed' = [destroyed EXCEPT ![e] = TRUE]
            /\ qlen' = [qlen EXCEPT ![e] = 0]
            /\ sem' = [sem EXCEPT ![e] = 0]
       ELSE UNCHANGED <<destroyed, qlen, sem>>

\* Nobody holds e->lock.  Once the mutex is destroyed mutex_lock no longer
\* excludes anyone.
LockFree(e) ==
  destroyed[e] \/ \A r \in Receivers : ~(rpc[r] = "locked" /\ re[r] = e)

\* Mutant: the semaphore created with count 1 instead of 0.
OpenSemOne(e, p) ==
  /\ estate[e] = "unused"
  /\ estate' = [estate EXCEPT ![e] = "open"]
  /\ port' = [port EXCEPT ![e] = p]
  /\ ref_count' = [ref_count EXCEPT ![e] = 1]
  /\ qlen' = [qlen EXCEPT ![e] = 0]
  /\ sem' = [sem EXCEPT ![e] = 1]
  /\ UNCHANGED <<destroyed, ipc, ie, rpc, re, sent>>

\* udp_open: a fresh endpoint with one reference, an empty queue and a
\* semaphore of count 0, inserted into the hash with no check that another
\* endpoint already has the port.
Open(e, p) ==
  /\ estate[e] = "unused"
  /\ estate' = [estate EXCEPT ![e] = "open"]
  /\ port' = [port EXCEPT ![e] = p]
  /\ ref_count' = [ref_count EXCEPT ![e] = 1]
  /\ qlen' = [qlen EXCEPT ![e] = 0]
  /\ sem' = [sem EXCEPT ![e] = 0]
  /\ UNCHANGED <<destroyed, ipc, ie, rpc, re, sent>>

\* udp_close: remove from the hash under endpoints_lock, then drop the
\* hash's reference.
Close(e) ==
  /\ estate[e] = "open"
  /\ estate' = [estate EXCEPT ![e] = "closed"]
  /\ ReleaseRef(e)
  /\ UNCHANGED <<port, ipc, ie, rpc, re, sent>>

\* udp_input up to the lookup: a packet with a bad length or checksum, or
\* for a port no open endpoint has, is dropped; otherwise the endpoint the
\* hash returns is referenced under endpoints_lock.
InputLookup(i, p) ==
  /\ ipc[i] = "idle" /\ sent < MaxPackets
  /\ sent' = sent + 1
  /\ LET found == {e \in Endpoints : estate[e] = "open" /\ port[e] = p}
     IN \/ UNCHANGED <<ipc, ie, ref_count>>
        \/ /\ found # {}
           /\ \E e \in found :
                /\ ipc' = [ipc EXCEPT ![i] = "held"]
                /\ ie' = [ie EXCEPT ![i] = e]
                /\ ref_count' = [ref_count EXCEPT ![e] = @ + 1]
  /\ UNCHANGED <<estate, port, destroyed, qlen, sem, rpc, re>>

\* Mutant: the kmalloc failure path forgets udp_endpoint_release_ref.
InputNoMemKeepsRef(i) ==
  /\ AllocCanFail /\ ipc[i] = "held"
  /\ ipc' = [ipc EXCEPT ![i] = "idle"] /\ ie' = [ie EXCEPT ![i] = NoEndpoint]
  /\ UNCHANGED <<estate, port, ref_count, destroyed, qlen, sem, rpc, re, sent>>

\* kmalloc of the queue element failed: release the reference, drop.
InputNoMem(i) ==
  /\ AllocCanFail /\ ipc[i] = "held"
  /\ ReleaseRef(ie[i])
  /\ ipc' = [ipc EXCEPT ![i] = "idle"] /\ ie' = [ie EXCEPT ![i] = NoEndpoint]
  /\ UNCHANGED <<estate, port, rpc, re, sent>>

\* udp_queue_push under e->lock.
InputPush(i) ==
  /\ ipc[i] = "held" /\ LockFree(ie[i])
  /\ qlen' = [qlen EXCEPT ![ie[i]] = @ + 1]
  /\ ipc' = [ipc EXCEPT ![i] = "pushed"]
  /\ UNCHANGED <<estate, port, ref_count, destroyed, sem, ie, rpc, re, sent>>

\* sem_release(e->blocking_sem, 1).
InputSignal(i) ==
  /\ ipc[i] = "pushed"
  /\ sem' = [sem EXCEPT ![ie[i]] = @ + 1]
  /\ ipc' = [ipc EXCEPT ![i] = "signalled"]
  /\ UNCHANGED <<estate, port, ref_count, destroyed, qlen, ie, rpc, re, sent>>

\* The closing udp_endpoint_release_ref of udp_input.
InputRelease(i) ==
  /\ ipc[i] = "signalled"
  /\ ReleaseRef(ie[i])
  /\ ipc' = [ipc EXCEPT ![i] = "idle"] /\ ie' = [ie EXCEPT ![i] = NoEndpoint]
  /\ UNCHANGED <<estate, port, rpc, re, sent>>

\* A receiver enters udp_recvfrom with the prot_data of an open socket; it
\* takes no reference on the endpoint.
RecvBegin(r, e) ==
  /\ rpc[r] = "idle" /\ estate[e] = "open"
  /\ rpc' = [rpc EXCEPT ![r] = "wait"] /\ re' = [re EXCEPT ![r] = e]
  /\ UNCHANGED <<estate, port, ref_count, destroyed, qlen, sem, ipc, ie, sent>>

\* Mutant: the error of sem_acquire is not checked.
RecvAcquireNoErrCheck(r) ==
  /\ rpc[r] = "wait"
  /\ \/ destroyed[re[r]] /\ rpc' = [rpc EXCEPT ![r] = "acq"] /\ UNCHANGED sem
     \/ /\ ~destroyed[re[r]] /\ sem[re[r]] > 0
        /\ sem' = [sem EXCEPT ![re[r]] = @ - 1]
        /\ rpc' = [rpc EXCEPT ![r] = "acq"]
  /\ UNCHANGED <<estate, port, ref_count, destroyed, qlen, ipc, ie, re, sent>>

\* retry: sem_acquire blocks until the count is positive; on a deleted
\* semaphore it fails and udp_recvfrom returns the error.
RecvAcquire(r) ==
  /\ rpc[r] = "wait"
  /\ IF destroyed[re[r]]
       THEN /\ rpc' = [rpc EXCEPT ![r] = "idle"]
            /\ re' = [re EXCEPT ![r] = NoEndpoint]
            /\ UNCHANGED sem
       ELSE /\ sem[re[r]] > 0
            /\ sem' = [sem EXCEPT ![re[r]] = @ - 1]
            /\ rpc' = [rpc EXCEPT ![r] = "acq"]
            /\ UNCHANGED re
  /\ UNCHANGED <<estate, port, ref_count, destroyed, qlen, ipc, ie, sent>>

\* mutex_lock(&e->lock).
RecvLock(r) ==
  /\ rpc[r] = "acq" /\ LockFree(re[r])
  /\ rpc' = [rpc EXCEPT ![r] = "locked"]
  /\ UNCHANGED <<estate, port, ref_count, destroyed, qlen, sem, ipc, ie, re, sent>>

\* Mutant: udp_queue_pop without its empty-queue test.
RecvPopNoEmptyCheck(r) ==
  /\ rpc[r] = "locked"
  /\ qlen' = [qlen EXCEPT ![re[r]] = @ - 1]
  /\ rpc' = [rpc EXCEPT ![r] = "idle"]
  /\ re' = [re EXCEPT ![r] = NoEndpoint]
  /\ UNCHANGED <<estate, port, ref_count, destroyed, sem, ipc, ie, sent>>

\* udp_queue_pop and mutex_unlock: with a packet the receive returns it,
\* on an empty queue it goes back to retry.
RecvPop(r) ==
  /\ rpc[r] = "locked"
  /\ IF qlen[re[r]] > 0
       THEN /\ qlen' = [qlen EXCEPT ![re[r]] = @ - 1]
            /\ rpc' = [rpc EXCEPT ![r] = "idle"]
            /\ re' = [re EXCEPT ![r] = NoEndpoint]
       ELSE /\ rpc' = [rpc EXCEPT ![r] = "wait"]
            /\ UNCHANGED <<qlen, re>>
  /\ UNCHANGED <<estate, port, ref_count, destroyed, sem, ipc, ie, sent>>

UNext ==
  \/ \E e \in Endpoints : Close(e) \/ \E p \in Ports : Open(e, p)
  \/ \E i \in Inputs :
       \/ \E p \in Ports : InputLookup(i, p)
       \/ InputNoMem(i) \/ InputPush(i) \/ InputSignal(i) \/ InputRelease(i)
  \/ \E r \in Receivers :
       \/ \E e \in Endpoints : RecvBegin(r, e)
       \/ RecvAcquire(r) \/ RecvLock(r) \/ RecvPop(r)

\* Receivers are kernel threads the scheduler keeps running while they are
\* runnable.
USpec ==
  /\ UInit /\ [][UNext]_uvars
  /\ \A r \in Receivers :
       WF_uvars(RecvAcquire(r)) /\ WF_uvars(RecvLock(r)) /\ WF_uvars(RecvPop(r))

-----------------------------------------------------------------------------
\* Input threads that hold a reference on e.
Holders(e) == {i \in Inputs : ipc[i] # "idle" /\ ie[i] = e}

\* Receivers of e between taking a semaphore unit and popping.
Claimants(e) == {r \in Receivers : rpc[r] \in {"acq", "locked"} /\ re[r] = e}

\* The reference count of every endpoint is the hash's reference while it
\* is open plus one per udp_input holding it, and the lock and semaphore
\* are destroyed exactly when the endpoint is closed and the count reached
\* 0 (udp_open, udp_close, udp_input's three release paths).
RefCountAccurate ==
  \A e \in Endpoints :
    /\ ref_count[e] = (IF estate[e] = "open" THEN 1 ELSE 0) + Cardinality(Holders(e))
    /\ destroyed[e] <=> (estate[e] = "closed" /\ ref_count[e] = 0)

\* On a live endpoint every queued packet is either counted by the
\* semaphore, pushed by a udp_input that has not yet called sem_release,
\* or claimed by a receiver that has acquired the semaphore and not yet
\* popped; so a receiver that got a unit always finds a packet and the
\* `goto retry' of udp_recvfrom is taken only on a destroyed endpoint.
SemMatchesQueue ==
  \A e \in Endpoints :
    estate[e] # "unused" /\ ~destroyed[e] =>
      qlen[e] = sem[e] + Cardinality({i \in Holders(e) : ipc[i] = "pushed"})
                       + Cardinality(Claimants(e))

\* A receiver that has taken a semaphore unit returns from udp_recvfrom:
\* with a packet, or, if the endpoint is destroyed under it, with the
\* error of sem_acquire on the deleted semaphore after one retry.
RecvReturns ==
  \A r \in Receivers : rpc[r] \in {"acq", "locked"} ~> rpc[r] = "idle"

\* No receiver takes or holds e->lock of an endpoint whose lock has been
\* destroyed (spec.md: the release that takes the count from 1 frees the
\* endpoint), i.e. udp_recvfrom never runs on a released endpoint.
RecvNeverUsesDestroyed ==
  \A r \in Receivers : rpc[r] = "locked" => ~destroyed[re[r]]

=============================================================================

----------------------------- MODULE OutputAck ------------------------------
(***************************************************************************)
(* The renderer's side of output flow control: OutputAckCoordinator        *)
(* (components/terminal/outputAckCoordinator.ts), for one session.         *)
(*                                                                         *)
(* Each mounted terminal takes a lease and reports the bytes it has drawn; *)
(* the coordinator sends them to the backend in batches, one at a time,    *)
(* retries a failed batch after a delay, and gives a disposed lease one    *)
(* final attempt.  JavaScript runs every callback to completion, so each   *)
(* callback is one action.  A session without leases is deleted from the   *)
(* map; its state then equals that of a session just created, so the map   *)
(* is not modelled.  Lease ids only grow, so leaseOrder always lists the   *)
(* ids of the map in increasing order; the order of the ids stands for it. *)
(* Log throttling and the length of the retry delay are left out.          *)
(***************************************************************************)
EXTENDS Naturals

CONSTANTS
    MaxLeases,      \* bound: leases ever acquired
    MaxBytes,       \* bound: bytes ever reported
    MaxFailures     \* bound: batches the backend refuses

ASSUME AckAssumption ==
    MaxLeases \in Nat /\ MaxBytes \in Nat /\ MaxFailures \in Nat

NoLease == 0

VARIABLES
    activeLeaseId,  \* the lease whose reports are accepted, or NoLease
    leases,         \* Map from lease id to its state
    inFlight,       \* [leaseId, bytes] of the batch being sent; NoLease if none
    retryTimer,     \* the lease whose retry timer runs, or NoLease
    nextLeaseId,
    reported,       \* history: bytes accepted from each lease
    confirmed,      \* history: bytes the backend has taken from each lease
    dropped,        \* history: bytes given up for each lease
    finals,         \* history: batches sent for each lease after its disposal
    failures        \* batches refused so far

session == <<activeLeaseId, leases, inFlight, retryTimer>>
vars == <<session, nextLeaseId, reported, confirmed, dropped, finals, failures>>

LeaseState ==
    [accepting : BOOLEAN, disposed : BOOLEAN, pendingBytes : Nat,
     finalAttemptAvailable : BOOLEAN]

NewLease ==
    [accepting |-> TRUE, disposed |-> FALSE, pendingBytes |-> 0,
     finalAttemptAvailable |-> FALSE]

NoBatch == [leaseId |-> NoLease, bytes |-> 0]

Leases == 1..MaxLeases

Init ==
    /\ activeLeaseId = NoLease
    /\ leases = << >>
    /\ inFlight = NoBatch
    /\ retryTimer = NoLease
    /\ nextLeaseId = 1
    /\ reported = [l \in Leases |-> 0]
    /\ confirmed = [l \in Leases |-> 0]
    /\ dropped = [l \in Leases |-> 0]
    /\ finals = [l \in Leases |-> 0]
    /\ failures = 0

-----------------------------------------------------------------------------
(* The session as a record, so that callbacks compose.                      *)

SessionOf(active, map, flying, retry) ==
    [active |-> active, leases |-> map, inFlight |-> flying, retry |-> retry]

Session == SessionOf(activeLeaseId, leases, inFlight, retryTimer)

(* The map with the pending bytes of one lease set.                         *)
SetPending(map, l, bytes) == [map EXCEPT ![l].pendingBytes = bytes]

(* The callback leaves the session as next.  With outstanding the batch it  *)
(* found or settled, finals counts the batches started after disposal.      *)
Becomes(outstanding, next) ==
    \E s \in {next} :
        /\ activeLeaseId' = s.active
        /\ leases' = s.leases
        /\ inFlight' = s.inFlight
        /\ retryTimer' = s.retry
        /\ finals' = [l \in DOMAIN finals |->
                        IF /\ s.inFlight # outstanding
                           /\ s.inFlight.leaseId = l
                           /\ s.leases[l].disposed
                        THEN finals[l] + 1 ELSE finals[l]]

Completed(s, l) ==
    /\ s.leases[l].disposed
    /\ s.leases[l].pendingBytes = 0
    /\ s.inFlight.leaseId # l
    /\ s.retry # l

pruneCompletedLeases(s) ==
    LET kept == {l \in DOMAIN s.leases : ~Completed(s, l)}
    IN  SessionOf(s.active, [l \in kept |-> s.leases[l]], s.inFlight, s.retry)

(* Variant that sends empty batches.                                        *)
Sendable_Empty(lease) == lease.disposed => lease.finalAttemptAvailable

(* A lease pump may send for: it has bytes, and if it is disposed its final *)
(* attempt is still available.                                              *)
Sendable(lease) ==
    lease.pendingBytes > 0 /\ (lease.disposed => lease.finalAttemptAvailable)

(* pump gives up the bytes of the leases it passes over.                    *)
PassOver(map, ids) ==
    [l \in DOMAIN map |-> IF l \in ids THEN [map[l] EXCEPT !.pendingBytes = 0] ELSE map[l]]

(* Variant: the newest lease first.                                         *)
pump_NewestFirst(s) ==
    LET p == pruneCompletedLeases(s)
        ready == {l \in DOMAIN p.leases : Sendable(p.leases[l])}
        first == CHOOSE l \in ready : \A k \in ready : l >= k
    IN  IF s.inFlight # NoBatch \/ s.retry # NoLease THEN s
        ELSE IF ready = {} THEN p
        ELSE SessionOf(p.active,
                       [p.leases EXCEPT ![first].pendingBytes = 0,
                                        ![first].finalAttemptAvailable = FALSE],
                       [leaseId |-> first, bytes |-> p.leases[first].pendingBytes],
                       p.retry)

(* pump: nothing while a batch or a retry is outstanding, else one batch    *)
(* with all the bytes of the oldest lease that may send.                    *)
pump(s) ==
    LET p == pruneCompletedLeases(s)
        ready == {l \in DOMAIN p.leases : Sendable(p.leases[l])}
        first == CHOOSE l \in ready : \A k \in ready : l <= k
        sent == [p.leases[first] EXCEPT !.pendingBytes = 0, !.finalAttemptAvailable = FALSE]
    IN  IF s.inFlight # NoBatch \/ s.retry # NoLease THEN s
        ELSE IF ready = {} THEN pruneCompletedLeases(SessionOf(
                                    p.active, PassOver(p.leases, DOMAIN p.leases), p.inFlight, p.retry))
        ELSE SessionOf(p.active,
                       [PassOver(p.leases, {l \in DOMAIN p.leases : l < first})
                            EXCEPT ![first] = sent],
                       [leaseId |-> first, bytes |-> p.leases[first].pendingBytes],
                       p.retry)

(* The session with lease l closed: it may send once more.                  *)
Closed(s, l) ==
    SessionOf(IF s.active = l THEN NoLease ELSE s.active,
              [s.leases EXCEPT ![l] = [accepting |-> FALSE, disposed |-> TRUE,
                                       pendingBytes |-> s.leases[l].pendingBytes,
                                       finalAttemptAvailable |-> TRUE]],
              s.inFlight,
              IF s.retry = l THEN NoLease ELSE s.retry)

Closeable(s, l) == l \in DOMAIN s.leases /\ ~s.leases[l].disposed

(* Variant that cancels the retry of the closed lease and sends nothing.    *)
closeLease_NoPump(s, l) == IF Closeable(s, l) THEN Closed(s, l) ELSE s

closeLease(s, l) == IF Closeable(s, l) THEN pump(Closed(s, l)) ELSE s

-----------------------------------------------------------------------------
acquire ==
    /\ nextLeaseId <= MaxLeases
    /\ LET added == SessionOf(nextLeaseId,
                              [l \in DOMAIN leases \cup {nextLeaseId} |->
                                  IF l = nextLeaseId THEN NewLease ELSE leases[l]],
                              inFlight, retryTimer)
           closed == IF activeLeaseId = NoLease THEN added ELSE closeLease(added, activeLeaseId)
       IN  Becomes(inFlight, pump(closed))
    /\ nextLeaseId' = nextLeaseId + 1
    /\ UNCHANGED <<reported, confirmed, dropped, failures>>

(* A lease reports bytes; only the active one is heard.                     *)
addAck(l, bytes) ==
    /\ l \in DOMAIN leases
    /\ leases[l].accepting
    /\ activeLeaseId = l
    /\ LET more == SetPending(leases, l, leases[l].pendingBytes + bytes)
       IN  Becomes(inFlight, pump(SessionOf(activeLeaseId, more, inFlight, retryTimer)))
    /\ reported' = [reported EXCEPT ![l] = @ + bytes]
    /\ UNCHANGED <<nextLeaseId, confirmed, dropped, failures>>

dispose(l) ==
    /\ l \in DOMAIN leases
    /\ Becomes(inFlight, closeLease(Session, l))
    /\ UNCHANGED <<nextLeaseId, reported, confirmed, dropped, failures>>

(* invokeAck resolved.                                                      *)
completeBatch ==
    /\ inFlight # NoBatch
    /\ Becomes(NoBatch, pump(SessionOf(activeLeaseId, leases, NoBatch, retryTimer)))
    /\ confirmed' = [confirmed EXCEPT ![inFlight.leaseId] = @ + inFlight.bytes]
    /\ UNCHANGED <<nextLeaseId, reported, dropped, failures>>

(* Variant: bytes reported while the failed batch was in flight are lost.   *)
failBatch_Overwrites ==
    /\ inFlight # NoBatch
    /\ failures < MaxFailures
    /\ LET l == inFlight.leaseId
           back == SetPending(leases, l, inFlight.bytes)
       IN  Becomes(NoBatch, IF leases[l].disposed
                            THEN pump(SessionOf(activeLeaseId, back, NoBatch, retryTimer))
                            ELSE SessionOf(activeLeaseId, back, NoBatch, l))
    /\ failures' = failures + 1
    /\ UNCHANGED <<nextLeaseId, reported, confirmed, dropped>>

(* invokeAck rejected: the bytes go back to the lease.  A live lease waits  *)
(* for the retry timer; a disposed one has its final attempt or gives up.   *)
failBatch ==
    /\ inFlight # NoBatch
    /\ failures < MaxFailures
    /\ LET l == inFlight.leaseId
           pending == leases[l].pendingBytes + inFlight.bytes
           gone == leases[l].disposed /\ ~leases[l].finalAttemptAvailable
           back == SetPending(leases, l, IF gone THEN 0 ELSE pending)
       IN  /\ Becomes(NoBatch, IF leases[l].disposed
                               THEN pump(SessionOf(activeLeaseId, back, NoBatch, retryTimer))
                               ELSE SessionOf(activeLeaseId, back, NoBatch, l))
           /\ dropped' = [dropped EXCEPT ![l] = IF gone THEN @ + pending ELSE @]
    /\ failures' = failures + 1
    /\ UNCHANGED <<nextLeaseId, reported, confirmed>>

(* Variant: the timer that fired still counts as armed, so pump sends       *)
(* nothing.                                                                 *)
retryFires_StaysArmed ==
    /\ retryTimer # NoLease
    /\ Becomes(inFlight, pump(Session))
    /\ UNCHANGED <<nextLeaseId, reported, confirmed, dropped, failures>>

(* The retry timer clears itself and pumps.                                 *)
retryFires ==
    /\ retryTimer # NoLease
    /\ Becomes(inFlight, pump(SessionOf(activeLeaseId, leases, inFlight, NoLease)))
    /\ UNCHANGED <<nextLeaseId, reported, confirmed, dropped, failures>>

TotalReported ==
    LET sum[l \in 0..MaxLeases] == IF l = 0 THEN 0 ELSE sum[l - 1] + reported[l]
    IN  sum[MaxLeases]

Next ==
    \/ acquire
    \/ \E l \in DOMAIN leases, bytes \in 1..(MaxBytes - TotalReported) : addAck(l, bytes)
    \/ \E l \in DOMAIN leases : dispose(l)
    \/ completeBatch
    \/ failBatch
    \/ retryFires

Spec == Init /\ [][Next]_vars

(* The backend answers every call, by success once it has stopped refusing, *)
(* and retry timers fire.                                                   *)
FairSpec == Spec /\ WF_vars(completeBatch) /\ WF_vars(retryFires)

-----------------------------------------------------------------------------
(* Properties.                                                              *)

(* The types of the coordinator's state.                                    *)
TypeOK ==
    /\ activeLeaseId \in DOMAIN leases \cup {NoLease}
    /\ DOMAIN leases \subseteq Leases
    /\ \A l \in DOMAIN leases : leases[l] \in LeaseState
    /\ inFlight = NoBatch \/ (inFlight.leaseId \in DOMAIN leases /\ inFlight.bytes \in Nat \ {0})
    /\ retryTimer \in DOMAIN leases \cup {NoLease}
    /\ nextLeaseId \in 1..(MaxLeases + 1)
    /\ failures \in Nat
    /\ \A history \in {reported, confirmed, dropped, finals} : history \in [Leases -> Nat]

Waiting(l) == IF l \in DOMAIN leases THEN leases[l].pendingBytes ELSE 0
Flying(l)  == IF inFlight.leaseId = l THEN inFlight.bytes ELSE 0

Settled(l) == reported[l] = confirmed[l] + dropped[l]

(* Bytes that wait always have something that will move them: a batch in    *)
(* flight or a retry timer.  Every path of every callback must pump.        *)
NoStall ==
    (\E l \in DOMAIN leases : leases[l].pendingBytes > 0) =>
        inFlight # NoBatch \/ retryTimer # NoLease

(* Every reported byte is confirmed, waiting, in flight or given up, and    *)
(* none is given up while its lease is live, through any number of failed   *)
(* batches.  An undercount would leave the backend's source paused.         *)
NoAckLost ==
    \A l \in Leases :
        /\ reported[l] = confirmed[l] + dropped[l] + Waiting(l) + Flying(l)
        /\ dropped[l] > 0 => activeLeaseId # l

(* Nothing of a lease is sent before all its predecessors are settled, and  *)
(* a disposed one, which they wait for, gets at most one attempt that       *)
(* starts after disposal.                                                   *)
GenerationsSerialized ==
    \A l \in Leases :
        /\ Flying(l) > 0 \/ confirmed[l] > 0 => \A k \in 1..(l - 1) : Settled(k)
        /\ finals[l] <= 1

(* Every report is settled in the end.                                      *)
ReportsSettle == \A l \in Leases : ~Settled(l) ~> Settled(l)
=============================================================================

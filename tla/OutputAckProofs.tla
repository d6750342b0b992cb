-------------------------- MODULE OutputAckProofs ---------------------------
(***************************************************************************)
(* Proofs about OutputAck, for any number of leases, bytes and failures.   *)
(***************************************************************************)
EXTENDS OutputAck, Integers, TLAPS, WellFoundedInduction

(* Every nonempty set of naturals has a least element.                      *)
LEMMA LeastNatural ==
  ASSUME NEW T \in SUBSET Nat, T # {}
  PROVE  \E m \in T : \A k \in T : m <= k
<1>1. PICK m \in T : \A k \in T : ~(<<k, m>> \in OpToRel(<, Nat))
  BY NatLessThanWellFounded, WFMin
<1>2. m \in T /\ \A k \in T : ~(k < m)
  BY <1>1, Zenon DEF OpToRel
<1>3. T \subseteq Int
  BY SMT
<1>4. \A k \in T : m <= k
  <2> HIDE <1>1
  <2> QED BY <1>2, <1>3, SMT
<1> QED BY <1>2, <1>4

-----------------------------------------------------------------------------
(* The session between two statements of a callback.                        *)

Busy(s) == s.inFlight # NoBatch \/ s.retry # NoLease

ShapeOK(s) ==
    /\ s = [active |-> s.active, leases |-> s.leases,
            inFlight |-> s.inFlight, retry |-> s.retry]
    /\ DOMAIN s.leases \subseteq Leases
    /\ \A l \in DOMAIN s.leases : s.leases[l] \in LeaseState
    /\ s.active \in DOMAIN s.leases \cup {NoLease}
    /\ s.retry \in DOMAIN s.leases \cup {NoLease}
    /\ s.inFlight = NoBatch \/ s.inFlight \in [leaseId : DOMAIN s.leases, bytes : Nat \ {0}]

(* What a lease's flags say of each other, and of its being active or       *)
(* retried.                                                                 *)
FlagsOK(s) ==
    /\ s.active # NoLease => ~s.leases[s.active].disposed
    /\ s.retry # NoLease => s.inFlight = NoBatch /\ ~s.leases[s.retry].disposed
    /\ \A l \in DOMAIN s.leases :
          LET lease == s.leases[l] IN
          /\ lease.disposed <=> ~lease.accepting
          /\ ~lease.disposed => ~lease.finalAttemptAvailable
          /\ lease.disposed /\ lease.pendingBytes > 0 => lease.finalAttemptAvailable

Well(s) == ShapeOK(s) /\ FlagsOK(s)

(* Only the active lease is not disposed.                                   *)
OnlyActive(s) ==
    \A l \in DOMAIN s.leases : ~s.leases[l].disposed => s.active = l

(* Bytes wait only for something outstanding.                               *)
Calm(s) == ~Busy(s) => \A l \in DOMAIN s.leases : s.leases[l].pendingBytes = 0

Held(s, l)  == IF l \in DOMAIN s.leases THEN s.leases[l].pendingBytes ELSE 0
Aloft(s, l) == IF s.inFlight.leaseId = l THEN s.inFlight.bytes ELSE 0
Unsettled(s, l) == Held(s, l) + Aloft(s, l)

(* What pump may do to a session: send for the oldest lease with bytes, and *)
(* forget disposed leases.                                                  *)
Pumped(s, t) ==
    /\ t.active = s.active
    /\ t.retry = s.retry
    /\ DOMAIN t.leases \subseteq DOMAIN s.leases
    /\ \A l \in DOMAIN s.leases \ DOMAIN t.leases : s.leases[l].disposed
    /\ \A l \in DOMAIN t.leases : t.leases[l].disposed <=> s.leases[l].disposed
    /\ \A l \in Leases : Unsettled(t, l) = Unsettled(s, l)
    /\ \/ /\ t.inFlight = s.inFlight
          /\ \A l \in DOMAIN t.leases :
                t.leases[l].finalAttemptAvailable <=> s.leases[l].finalAttemptAvailable
       \/ /\ s.inFlight = NoBatch
          /\ t.inFlight # NoBatch
          /\ LET f == t.inFlight.leaseId IN
             /\ f \in DOMAIN t.leases
             /\ \A k \in 1..(f - 1) : Unsettled(t, k) = 0
             /\ ~t.leases[f].finalAttemptAvailable
             /\ s.leases[f].disposed => s.leases[f].finalAttemptAvailable
             /\ \A l \in DOMAIN t.leases \ {f} :
                   t.leases[l].finalAttemptAvailable <=> s.leases[l].finalAttemptAvailable

-----------------------------------------------------------------------------
(* The inductive invariant.                                                 *)

Histories(rep, conf, drop, fin, next) ==
    /\ next \in Nat \ {0}
    /\ next <= MaxLeases + 1
    /\ rep \in [Leases -> Nat]
    /\ conf \in [Leases -> Nat]
    /\ drop \in [Leases -> Nat]
    /\ fin \in [Leases -> Nat]

(* Ids grow, the active lease is the newest, and nothing has happened to    *)
(* leases not yet acquired.                                                 *)
IdsGrow(s, rep, fin, next) ==
    /\ \A l \in DOMAIN s.leases : l < next
    /\ s.active # NoLease => s.active = next - 1
    /\ \A l \in Leases : l >= next => rep[l] = 0 /\ fin[l] = 0

Balanced(s, rep, conf, drop) ==
    \A l \in Leases :
        /\ rep[l] = conf[l] + drop[l] + Unsettled(s, l)
        /\ drop[l] > 0 => s.active # l

(* Predecessors of a lease that has sent something have nothing unsettled.  *)
OldestFirst(s, conf) ==
    \A l \in Leases :
        Aloft(s, l) > 0 \/ conf[l] > 0 =>
            \A k \in 1..(l - 1) : Unsettled(s, k) = 0

(* A lease whose final attempt has started has none left.                   *)
FinalOnce(s, fin) ==
    \A l \in Leases :
        /\ fin[l] <= 1
        /\ fin[l] > 0 /\ l \in DOMAIN s.leases =>
              s.leases[l].disposed /\ ~s.leases[l].finalAttemptAvailable

Ledger(s, rep, conf, drop, fin, next) ==
    /\ OnlyActive(s)
    /\ Histories(rep, conf, drop, fin, next)
    /\ IdsGrow(s, rep, fin, next)
    /\ Balanced(s, rep, conf, drop)
    /\ OldestFirst(s, conf)
    /\ FinalOnce(s, fin)

IInv ==
    /\ Well(Session)
    /\ Calm(Session)
    /\ Ledger(Session, reported, confirmed, dropped, finals, nextLeaseId)
    /\ failures \in Nat

-----------------------------------------------------------------------------
LEMMA Constants == MaxLeases \in Nat /\ NoLease \notin Leases /\ Leases \subseteq Nat
BY AckAssumption DEF NoLease, Leases

LEMMA Fields ==
  ASSUME NEW a, NEW map, NEW b, NEW r
  PROVE  LET s == SessionOf(a, map, b, r) IN
         s.active = a /\ s.leases = map /\ s.inFlight = b /\ s.retry = r
BY DEF SessionOf

LEMMA LeaseEmptied ==
  ASSUME NEW b \in LeaseState, NEW n \in Nat
  PROVE  LET c == [b EXCEPT !.pendingBytes = n] IN
         /\ c \in LeaseState
         /\ c.disposed = b.disposed
         /\ c.accepting = b.accepting
         /\ c.pendingBytes = n
         /\ c.finalAttemptAvailable = b.finalAttemptAvailable
         /\ n = b.pendingBytes => c = b
BY DEF LeaseState

LEMMA LeaseSent ==
  ASSUME NEW b \in LeaseState
  PROVE  LET c == [b EXCEPT !.pendingBytes = 0, !.finalAttemptAvailable = FALSE] IN
         /\ c \in LeaseState
         /\ c.disposed = b.disposed
         /\ c.accepting = b.accepting
         /\ c.pendingBytes = 0
         /\ c.finalAttemptAvailable = FALSE
BY DEF LeaseState

(* pruneCompletedLeases removes settled leases only.                        *)
LEMMA PruneWell ==
  ASSUME NEW s, Well(s), ~Busy(s)
  PROVE  LET p == pruneCompletedLeases(s) IN
         /\ DOMAIN p.leases \subseteq DOMAIN s.leases
         /\ \A l \in DOMAIN p.leases : p.leases[l] = s.leases[l]
         /\ ~Busy(p)
         /\ Well(p)
         /\ Pumped(s, p)
<1> DEFINE p == pruneCompletedLeases(s)
           kept == {l \in DOMAIN s.leases : ~Completed(s, l)}
<1>1. /\ p.active = s.active /\ p.inFlight = NoBatch /\ p.retry = NoLease
      /\ s.inFlight = NoBatch /\ s.retry = NoLease
      /\ p.leases = [l \in kept |-> s.leases[l]]
      /\ p = [active |-> p.active, leases |-> p.leases, inFlight |-> p.inFlight, retry |-> p.retry]
  BY Fields DEF pruneCompletedLeases, Busy, SessionOf
<1>2. DOMAIN p.leases = kept /\ \A l \in kept : p.leases[l] = s.leases[l]
  BY <1>1
<1>3. \A l \in DOMAIN s.leases \ kept : s.leases[l].disposed /\ s.leases[l].pendingBytes = 0
  BY DEF Completed
<1> HIDE DEF p
<1>4. s.active \in kept \cup {NoLease}
  BY <1>3 DEF Well, ShapeOK, FlagsOK
<1>5. ShapeOK(p)
  BY <1>1, <1>2, <1>4 DEF Well, ShapeOK
<1>6. FlagsOK(p)
  BY <1>1, <1>2, <1>4, Constants DEF Well, FlagsOK
<1>7. \A l \in Leases : Unsettled(p, l) = Unsettled(s, l)
  BY <1>1, <1>2, <1>3 DEF Unsettled, Held, Aloft
<1>8. Pumped(s, p)
  BY <1>1, <1>2, <1>3, <1>7 DEF Pumped
<1> QED BY <1>1, <1>2, <1>5, <1>6, <1>8 DEF Well, Busy, p

(* One batch: what pump does when some lease may send.                      *)
LEMMA SendWell ==
  ASSUME NEW p, Well(p), ~Busy(p),
         NEW f \in DOMAIN p.leases,
         Sendable(p.leases[f]),
         \A k \in DOMAIN p.leases : Sendable(p.leases[k]) => f <= k
  PROVE  LET t == SessionOf(p.active,
                            [PassOver(p.leases, {l \in DOMAIN p.leases : l < f}) EXCEPT
                                ![f] = [p.leases[f] EXCEPT !.pendingBytes = 0,
                                                           !.finalAttemptAvailable = FALSE]],
                            [leaseId |-> f, bytes |-> p.leases[f].pendingBytes],
                            p.retry)
         IN  Well(t) /\ Busy(t) /\ Pumped(p, t)
<1> DEFINE older == {l \in DOMAIN p.leases : l < f}
           sent == [p.leases[f] EXCEPT !.pendingBytes = 0, !.finalAttemptAvailable = FALSE]
           emptied(l) == [p.leases[l] EXCEPT !.pendingBytes = 0]
           map == [PassOver(p.leases, older) EXCEPT ![f] = sent]
           batch == [leaseId |-> f, bytes |-> p.leases[f].pendingBytes]
           t == SessionOf(p.active, map, batch, p.retry)
<1>1. p.inFlight = NoBatch /\ p.retry = NoLease
  BY DEF Busy
<1>2. /\ DOMAIN p.leases \subseteq Nat \ {NoLease}
      /\ \A l \in DOMAIN p.leases : p.leases[l] \in LeaseState
  BY Constants DEF Well, ShapeOK
<1>3. \A l \in older : p.leases[l].pendingBytes = 0
  BY <1>2 DEF Well, FlagsOK, Sendable, LeaseState
<1>4. p.leases[f].pendingBytes \in Nat \ {0}
  BY <1>2 DEF Sendable, LeaseState
<1>5. /\ t.active = p.active /\ t.leases = map /\ t.inFlight = batch /\ t.retry = NoLease
      /\ batch.leaseId = f /\ batch.bytes = p.leases[f].pendingBytes
  BY <1>1, Fields
<1>6. /\ DOMAIN map = DOMAIN p.leases
      /\ \A l \in DOMAIN p.leases :
            map[l] = IF l = f THEN sent ELSE IF l \in older THEN emptied(l) ELSE p.leases[l]
  <2> HIDE DEF older, sent
  <2> QED BY DEF PassOver
<1>7. /\ sent \in LeaseState
      /\ sent.disposed = p.leases[f].disposed
      /\ sent.accepting = p.leases[f].accepting
      /\ sent.pendingBytes = 0
      /\ sent.finalAttemptAvailable = FALSE
  BY <1>2, LeaseSent
<1>8. \A l \in older : emptied(l) = p.leases[l]
  BY <1>2, <1>3, LeaseEmptied
<1> HIDE DEF map, sent, emptied
<1>9. \A l \in DOMAIN p.leases : map[l] = IF l = f THEN sent ELSE p.leases[l]
  BY <1>6, <1>8
<1>10. \A l \in DOMAIN p.leases :
         /\ map[l] \in LeaseState
         /\ map[l].disposed = p.leases[l].disposed
         /\ map[l].accepting = p.leases[l].accepting
         /\ map[l].pendingBytes = IF l = f THEN 0 ELSE p.leases[l].pendingBytes
         /\ l # f => map[l].finalAttemptAvailable = p.leases[l].finalAttemptAvailable
  BY <1>2, <1>7, <1>9
<1>11. map[f].finalAttemptAvailable = FALSE
  BY <1>7, <1>9
<1>12. t = [active |-> t.active, leases |-> t.leases, inFlight |-> t.inFlight, retry |-> t.retry]
  BY DEF SessionOf
<1>13. batch \in [leaseId : DOMAIN p.leases, bytes : Nat \ {0}] /\ batch # NoBatch
  BY <1>2, <1>4, <1>5 DEF NoBatch
<1> HIDE DEF t, batch, older
<1>14. ShapeOK(t)
  BY <1>5, <1>6, <1>10, <1>12, <1>13 DEF Well, ShapeOK
<1>15. FlagsOK(t)
  BY <1>5, <1>6, <1>10, <1>11 DEF Well, FlagsOK, ShapeOK
<1>16. \A l \in Leases : Unsettled(t, l) = Unsettled(p, l)
  BY <1>1, <1>2, <1>4, <1>5, <1>6, <1>10, Constants
     DEF Unsettled, Held, Aloft, NoBatch, NoLease, LeaseState
<1>17. \A k \in 1..(f - 1) : Unsettled(t, k) = 0
  BY <1>2, <1>3, <1>5, <1>6, <1>10 DEF Unsettled, Held, Aloft, older
<1>18. Pumped(p, t)
  <2>1. p.leases[f].disposed => p.leases[f].finalAttemptAvailable
    BY DEF Sendable
  <2> QED BY <1>1, <1>5, <1>6, <1>10, <1>11, <1>13, <1>16, <1>17, <2>1 DEF Pumped
<1> QED BY <1>5, <1>13, <1>14, <1>15, <1>18 DEF Well, Busy, t, map, sent, older, batch

(* pump does nothing more once it has pumped a session without a batch.     *)
LEMMA PumpedTwice ==
  ASSUME NEW s, NEW t, NEW u, Pumped(s, t), Pumped(t, u), t.inFlight = s.inFlight
  PROVE  Pumped(s, u)
BY DEF Pumped

(* pump keeps a session well formed, accounts for every byte, and leaves    *)
(* none waiting for nothing.                                                *)
LEMMA PumpWell ==
  ASSUME NEW s, Well(s)
  PROVE  Well(pump(s)) /\ Calm(pump(s)) /\ Pumped(s, pump(s))
<1> DEFINE p == pruneCompletedLeases(s)
           ready == {l \in DOMAIN p.leases : Sendable(p.leases[l])}
           f == CHOOSE l \in ready : \A k \in ready : l <= k
           all == SessionOf(p.active, PassOver(p.leases, DOMAIN p.leases), p.inFlight, p.retry)
<1>1. CASE Busy(s)
  <2>1. pump(s) = s
    BY <1>1 DEF pump, Busy
  <2> QED BY <1>1, <2>1 DEF Calm, Pumped
<1>2. CASE ~Busy(s)
  <2>1. /\ Well(p) /\ ~Busy(p) /\ Pumped(s, p)
        /\ DOMAIN p.leases \subseteq Nat
        /\ \A l \in DOMAIN p.leases : p.leases[l] \in LeaseState
        /\ p.inFlight = s.inFlight
    BY <1>2, PruneWell, Constants DEF Well, ShapeOK, Busy
  <2>2. CASE ready = {}
    <3>1. \A l \in DOMAIN p.leases : p.leases[l].pendingBytes = 0
      BY <2>1, <2>2 DEF Well, FlagsOK, Sendable, LeaseState
    <3>2. \A l \in DOMAIN p.leases : [p.leases[l] EXCEPT !.pendingBytes = 0] = p.leases[l]
      BY <2>1, <3>1, LeaseEmptied
    <3>3. /\ all = [active |-> all.active, leases |-> all.leases,
                    inFlight |-> all.inFlight, retry |-> all.retry]
          /\ all.active = p.active /\ all.inFlight = p.inFlight /\ all.retry = p.retry
          /\ all.leases = PassOver(p.leases, DOMAIN p.leases)
      BY Fields DEF SessionOf
    <3>4. /\ DOMAIN all.leases = DOMAIN p.leases
          /\ \A l \in DOMAIN p.leases : all.leases[l] = p.leases[l]
      BY <3>2, <3>3 DEF PassOver
    <3>5. pump(s) = pruneCompletedLeases(all)
      BY <1>2, <2>2 DEF pump, Busy
    <3> HIDE DEF all, p, ready
    <3>6. Well(all) /\ ~Busy(all)
      BY <2>1, <3>3, <3>4 DEF Well, ShapeOK, FlagsOK, Busy
    <3>7. Pumped(p, all)
      BY <2>1, <3>3, <3>4 DEF Pumped, Unsettled, Held, Aloft
    <3>8. /\ Well(pump(s)) /\ ~Busy(pump(s)) /\ Pumped(all, pump(s))
          /\ DOMAIN pump(s).leases \subseteq DOMAIN all.leases
          /\ \A l \in DOMAIN pump(s).leases : pump(s).leases[l] = all.leases[l]
      BY <3>5, <3>6, PruneWell
    <3>9. Calm(pump(s))
      BY <3>1, <3>4, <3>8 DEF Calm
    <3>10. Pumped(s, pump(s))
      BY <2>1, <3>3, <3>7, <3>8, PumpedTwice
    <3> QED BY <3>8, <3>9, <3>10
  <2>3. CASE ready # {}
    <3>1. ready \in SUBSET Nat
      BY <2>1
    <3>2. f \in ready /\ \A k \in ready : f <= k
      <4> HIDE DEF ready
      <4>1. \E m \in ready : \A k \in ready : m <= k
        BY <2>3, <3>1, LeastNatural
      <4> QED BY <4>1
    <3>3. pump(s) = SessionOf(p.active,
                              [PassOver(p.leases, {l \in DOMAIN p.leases : l < f}) EXCEPT
                                  ![f] = [p.leases[f] EXCEPT !.pendingBytes = 0,
                                                             !.finalAttemptAvailable = FALSE]],
                              [leaseId |-> f, bytes |-> p.leases[f].pendingBytes],
                              p.retry)
      BY <1>2, <2>3 DEF pump, Busy
    <3>4. /\ f \in DOMAIN p.leases /\ Sendable(p.leases[f])
          /\ \A k \in DOMAIN p.leases : Sendable(p.leases[k]) => f <= k
      BY <3>2
    <3> HIDE DEF p, f, ready
    <3>5. Well(pump(s)) /\ Busy(pump(s)) /\ Pumped(p, pump(s))
      BY <2>1, <3>3, <3>4, SendWell
    <3>6. Pumped(s, pump(s))
      BY <2>1, <3>5, PumpedTwice
    <3> QED BY <3>5, <3>6 DEF Calm
  <2> QED BY <2>2, <2>3
<1> QED BY <1>1, <1>2

-----------------------------------------------------------------------------
(* The count of final attempts after a callback that found batch old.       *)
Finals(old, t, fin) ==
    [l \in DOMAIN fin |->
        IF t.inFlight # old /\ t.inFlight.leaseId = l /\ t.leases[l].disposed
        THEN fin[l] + 1 ELSE fin[l]]

LEMMA UnsettledNat ==
  ASSUME NEW s, ShapeOK(s), NEW l \in Leases
  PROVE  Unsettled(s, l) \in Nat /\ Aloft(s, l) \in Nat /\ Held(s, l) \in Nat
BY Constants DEF ShapeOK, Unsettled, Held, Aloft, NoBatch, LeaseState

(* A callback that ends in pump keeps the books.                            *)
LEMMA PumpLedger ==
  ASSUME NEW s, NEW t, Well(s), Well(t), Pumped(s, t),
         NEW rep, NEW conf, NEW drop, NEW fin, NEW next,
         Ledger(s, rep, conf, drop, fin, next)
  PROVE  Ledger(t, rep, conf, drop, Finals(s.inFlight, t, fin), next)
<1> DEFINE fin2 == Finals(s.inFlight, t, fin)
<1>1. /\ DOMAIN s.leases \subseteq Leases
      /\ DOMAIN t.leases \subseteq DOMAIN s.leases
      /\ NoLease \notin Leases /\ Leases \subseteq Nat
  BY Constants DEF Well, ShapeOK, Pumped
<1>2. OnlyActive(t)
  BY DEF Ledger, OnlyActive, Pumped
<1>3. fin \in [Leases -> Nat]
  BY DEF Ledger, Histories
<1>4. fin2 \in [Leases -> Nat]
  BY <1>3 DEF Finals
<1>5. \A l \in Leases :
         fin2[l] = IF t.inFlight # s.inFlight /\ t.inFlight.leaseId = l /\ t.leases[l].disposed
                   THEN fin[l] + 1 ELSE fin[l]
  BY <1>3 DEF Finals
<1> HIDE DEF fin2
<1>6. Histories(rep, conf, drop, fin2, next)
  BY <1>4 DEF Ledger, Histories
<1>7. IdsGrow(t, rep, fin2, next)
  <2>1. t.inFlight # s.inFlight => t.inFlight.leaseId \in DOMAIN t.leases
    BY DEF Pumped
  <2>2. \A l \in DOMAIN s.leases : l < next
    BY DEF Ledger, IdsGrow
  <2>3. \A l \in Leases : l >= next => fin2[l] = fin[l]
    BY <1>1, <1>5, <1>6, <2>1, <2>2 DEF Histories
  <2> QED BY <1>1, <2>2, <2>3 DEF Ledger, IdsGrow, Pumped
<1>8. Balanced(t, rep, conf, drop)
  BY DEF Ledger, Balanced, Pumped
<1>9. OldestFirst(t, conf)
  <2> SUFFICES ASSUME NEW l \in Leases, Aloft(t, l) > 0 \/ conf[l] > 0,
                      NEW k \in 1..(l - 1)
               PROVE  Unsettled(t, k) = 0
    BY DEF OldestFirst
  <2>1. k \in Leases
    BY <1>1, AckAssumption DEF Leases
  <2>2. CASE Aloft(s, l) > 0 \/ conf[l] > 0
    BY <2>1, <2>2 DEF Ledger, OldestFirst, Pumped
  <2>3. CASE ~(Aloft(s, l) > 0 \/ conf[l] > 0)
    <3>1. Aloft(t, l) > 0 /\ t.inFlight # s.inFlight
      BY <2>3 DEF Aloft
    <3>2. t.inFlight.leaseId = l
      BY <3>1 DEF Aloft
    <3> QED BY <3>1, <3>2 DEF Pumped
  <2> QED BY <2>2, <2>3
<1>10. FinalOnce(t, fin2)
  <2> SUFFICES ASSUME NEW l \in Leases
               PROVE  /\ fin2[l] <= 1
                      /\ fin2[l] > 0 /\ l \in DOMAIN t.leases =>
                            t.leases[l].disposed /\ ~t.leases[l].finalAttemptAvailable
    BY DEF FinalOnce
  <2>1. /\ fin[l] \in Nat /\ fin[l] <= 1
        /\ fin[l] > 0 /\ l \in DOMAIN s.leases =>
              s.leases[l].disposed /\ ~s.leases[l].finalAttemptAvailable
    BY <1>3 DEF Ledger, FinalOnce
  <2>2. CASE t.inFlight # s.inFlight /\ t.inFlight.leaseId = l /\ t.leases[l].disposed
    <3>1. l \in DOMAIN t.leases /\ l \in DOMAIN s.leases
      BY <2>2 DEF Pumped
    <3>2. s.leases[l].disposed /\ s.leases[l].finalAttemptAvailable
      BY <2>2, <3>1 DEF Pumped
    <3>3. ~t.leases[l].finalAttemptAvailable
      BY <2>2 DEF Pumped
    <3>4. fin[l] = 0
      BY <2>1, <3>1, <3>2
    <3> QED BY <1>5, <2>2, <3>3, <3>4
  <2>3. CASE ~(t.inFlight # s.inFlight /\ t.inFlight.leaseId = l /\ t.leases[l].disposed)
    <3>1. fin2[l] = fin[l]
      BY <1>5, <2>3
    <3>2. ASSUME l \in DOMAIN t.leases, s.leases[l].disposed, ~s.leases[l].finalAttemptAvailable
          PROVE  t.leases[l].disposed /\ ~t.leases[l].finalAttemptAvailable
      BY <2>3, <3>2 DEF Pumped
    <3> QED BY <1>1, <2>1, <3>1, <3>2
  <2> QED BY <2>2, <2>3
<1> QED BY <1>2, <1>6, <1>7, <1>8, <1>9, <1>10 DEF Ledger, fin2

-----------------------------------------------------------------------------
(* The callbacks.                                                           *)

LEMMA SessionFields ==
  /\ Session = [active |-> Session.active, leases |-> Session.leases,
                inFlight |-> Session.inFlight, retry |-> Session.retry]
  /\ Session.active = activeLeaseId
  /\ Session.leases = leases
  /\ Session.inFlight = inFlight
  /\ Session.retry = retryTimer
BY DEF Session, SessionOf

LEMMA BecomesFields ==
  ASSUME NEW old, NEW t, ShapeOK(t), Becomes(old, t)
  PROVE  Session' = t /\ finals' = Finals(old, t, finals)
BY DEF Becomes, Session, SessionOf, Finals, ShapeOK

(* Every callback but the arming of a retry ends in pump.                   *)
LEMMA CallbackPumps ==
  ASSUME NEW s, Well(s), Becomes(s.inFlight, pump(s)), failures' \in Nat,
         Ledger(s, reported', confirmed', dropped', finals, nextLeaseId')
  PROVE  IInv'
<1>1. Well(pump(s)) /\ Calm(pump(s)) /\ Pumped(s, pump(s))
  BY PumpWell
<1>2. Session' = pump(s) /\ finals' = Finals(s.inFlight, pump(s), finals)
  BY <1>1, BecomesFields DEF Well
<1>3. Ledger(pump(s), reported', confirmed', dropped', finals', nextLeaseId')
  BY <1>1, <1>2, PumpLedger
<1>4. Well(Session') /\ Calm(Session')
  BY <1>1, <1>2
<1>5. Ledger(Session', reported', confirmed', dropped', finals', nextLeaseId')
  BY <1>2, <1>3
<1> QED BY <1>4, <1>5 DEF IInv

LEMMA PendingSet ==
  ASSUME NEW map, NEW l \in DOMAIN map, NEW n \in Nat,
         \A k \in DOMAIN map : map[k] \in LeaseState
  PROVE  LET new == SetPending(map, l, n) IN
         /\ DOMAIN new = DOMAIN map
         /\ \A k \in DOMAIN map :
               /\ new[k] \in LeaseState
               /\ new[k].disposed = map[k].disposed
               /\ new[k].accepting = map[k].accepting
               /\ new[k].pendingBytes = IF k = l THEN n ELSE map[k].pendingBytes
               /\ new[k].finalAttemptAvailable = map[k].finalAttemptAvailable
BY LeaseEmptied DEF SetPending, LeaseState

(* A lease that has sent something has been acquired.                       *)
LEMMA SenderAcquired ==
  ASSUME IInv, NEW k \in Leases, Aloft(Session, k) > 0 \/ confirmed[k] > 0
  PROVE  k < nextLeaseId
<1>1. /\ ShapeOK(Session) /\ Histories(reported, confirmed, dropped, finals, nextLeaseId)
      /\ IdsGrow(Session, reported, finals, nextLeaseId)
      /\ Balanced(Session, reported, confirmed, dropped)
  BY DEF IInv, Ledger, Well
<1>2. CASE Aloft(Session, k) > 0
  <2>1. k \in DOMAIN leases
    BY <1>1, <1>2, SessionFields DEF ShapeOK, Aloft, NoBatch
  <2> QED BY <1>1, <2>1, SessionFields DEF IdsGrow
<1>3. CASE confirmed[k] > 0
  <2>1. reported[k] > 0
    BY <1>1, <1>3, UnsettledNat DEF Balanced, Histories
  <2> QED BY <1>1, <2>1, Constants DEF IdsGrow, Histories
<1> QED BY <1>2, <1>3

(* A lease reports bytes.                                                   *)
LEMMA ReportStep ==
  ASSUME IInv, NEW l \in DOMAIN leases, NEW bytes \in Nat \ {0}, addAck(l, bytes)
  PROVE  IInv'
<1> DEFINE n == leases[l].pendingBytes + bytes
           map == SetPending(leases, l, n)
           s == SessionOf(activeLeaseId, map, inFlight, retryTimer)
<1>1. /\ activeLeaseId = l
      /\ reported' = [reported EXCEPT ![l] = @ + bytes]
      /\ Becomes(inFlight, pump(s))
      /\ UNCHANGED <<nextLeaseId, confirmed, dropped, failures>>
  BY DEF addAck
<1>2. /\ Well(Session) /\ Ledger(Session, reported, confirmed, dropped, finals, nextLeaseId)
      /\ failures \in Nat
      /\ \A k \in DOMAIN leases : k \in Leases /\ leases[k] \in LeaseState
  BY SessionFields DEF IInv, Well, ShapeOK
<1>3. n \in Nat
  BY <1>2 DEF LeaseState
<1> HIDE DEF n
<1>4. /\ DOMAIN map = DOMAIN leases
      /\ \A k \in DOMAIN leases :
            /\ map[k] \in LeaseState
            /\ map[k].disposed = leases[k].disposed
            /\ map[k].accepting = leases[k].accepting
            /\ map[k].pendingBytes = IF k = l THEN n ELSE leases[k].pendingBytes
            /\ map[k].finalAttemptAvailable = leases[k].finalAttemptAvailable
  BY <1>2, <1>3, PendingSet
<1>5. /\ s = [active |-> s.active, leases |-> s.leases, inFlight |-> s.inFlight, retry |-> s.retry]
      /\ s.active = l /\ s.leases = map /\ s.inFlight = inFlight /\ s.retry = retryTimer
  BY <1>1 DEF SessionOf
<1> HIDE DEF map, s
<1>6. ~leases[l].disposed
  BY <1>1, <1>2, SessionFields, Constants DEF Well, FlagsOK
<1>7. ShapeOK(s)
  BY <1>2, <1>4, <1>5, SessionFields DEF Well, ShapeOK
<1>8. FlagsOK(s)
  BY <1>1, <1>2, <1>4, <1>5, <1>6, SessionFields DEF Well, FlagsOK, ShapeOK
<1>9. \A k \in Leases : /\ Aloft(s, k) = Aloft(Session, k)
                        /\ Held(s, k) = IF k = l THEN Held(Session, k) + bytes ELSE Held(Session, k)
  BY <1>4, <1>5, SessionFields DEF Aloft, Held, n
<1>10. ShapeOK(Session)
  BY <1>2 DEF Well
<1>11. \A k \in Leases :
          Unsettled(s, k) = IF k = l THEN Unsettled(Session, k) + bytes ELSE Unsettled(Session, k)
  BY <1>9, <1>10, UnsettledNat DEF Unsettled
<1>12. /\ OnlyActive(Session) /\ Histories(reported, confirmed, dropped, finals, nextLeaseId)
       /\ IdsGrow(Session, reported, finals, nextLeaseId)
       /\ Balanced(Session, reported, confirmed, dropped)
       /\ OldestFirst(Session, confirmed) /\ FinalOnce(Session, finals)
  BY <1>2 DEF Ledger
<1>13. l \in Leases /\ l = nextLeaseId - 1 /\ l # NoLease
  BY <1>1, <1>2, <1>12, SessionFields, Constants DEF IdsGrow
<1>14. Histories(reported', confirmed', dropped', finals, nextLeaseId')
  <2>1. reported' \in [Leases -> Nat]
    BY <1>1, <1>12, <1>13 DEF Histories
  <2> QED BY <1>1, <1>12, <2>1 DEF Histories
<1>15. IdsGrow(s, reported', finals, nextLeaseId')
  BY <1>1, <1>4, <1>5, <1>12, <1>13, SessionFields DEF IdsGrow, Histories
<1>16. Balanced(s, reported', confirmed', dropped')
  BY <1>1, <1>5, <1>10, <1>11, <1>12, SessionFields, UnsettledNat DEF Balanced, Histories
<1>17. OldestFirst(s, confirmed')
  <2> SUFFICES ASSUME NEW k \in Leases, Aloft(s, k) > 0 \/ confirmed[k] > 0,
                      NEW j \in 1..(k - 1)
               PROVE  Unsettled(s, j) = 0
    BY <1>1 DEF OldestFirst
  <2>1. j \in Leases
    BY AckAssumption DEF Leases
  <2>2. Unsettled(Session, j) = 0
    BY <1>9, <1>12 DEF OldestFirst
  <2>3. k < nextLeaseId
    BY <1>9, SenderAcquired
  <2>4. j # l
    BY <1>12, <1>13, <2>3, Constants DEF Histories
  <2> QED BY <1>11, <2>1, <2>2, <2>4
<1>18. OnlyActive(s) /\ FinalOnce(s, finals)
  BY <1>1, <1>4, <1>5, <1>12, SessionFields DEF OnlyActive, FinalOnce
<1>19. Ledger(s, reported', confirmed', dropped', finals, nextLeaseId')
  BY <1>14, <1>15, <1>16, <1>17, <1>18 DEF Ledger
<1> QED BY <1>1, <1>2, <1>5, <1>7, <1>8, <1>19, CallbackPumps DEF Well

(* The parts of the invariant, by name.                                     *)
LEMMA Parts ==
  ASSUME IInv
  PROVE  /\ ShapeOK(Session) /\ FlagsOK(Session) /\ Calm(Session) /\ OnlyActive(Session)
         /\ Histories(reported, confirmed, dropped, finals, nextLeaseId)
         /\ IdsGrow(Session, reported, finals, nextLeaseId)
         /\ Balanced(Session, reported, confirmed, dropped)
         /\ OldestFirst(Session, confirmed) /\ FinalOnce(Session, finals)
         /\ failures \in Nat
         /\ \A k \in DOMAIN leases : k \in Leases /\ leases[k] \in LeaseState
BY SessionFields DEF IInv, Ledger, Well, ShapeOK

(* The retry timer fires.                                                   *)
LEMMA RetryStep ==
  ASSUME IInv, retryFires
  PROVE  IInv'
<1> DEFINE s == SessionOf(activeLeaseId, leases, inFlight, NoLease)
<1>1. /\ s = [active |-> s.active, leases |-> s.leases, inFlight |-> s.inFlight, retry |-> s.retry]
      /\ s.active = activeLeaseId /\ s.leases = leases /\ s.inFlight = inFlight
      /\ s.retry = NoLease
  BY DEF SessionOf
<1>2. /\ Becomes(s.inFlight, pump(s))
      /\ UNCHANGED <<nextLeaseId, reported, confirmed, dropped, failures>>
  BY <1>1 DEF retryFires
<1> HIDE DEF s
<1>3. Well(s)
  BY <1>1, Parts, SessionFields DEF Well, ShapeOK, FlagsOK
<1>4. \A k : Unsettled(s, k) = Unsettled(Session, k) /\ Aloft(s, k) = Aloft(Session, k)
  BY <1>1, SessionFields DEF Unsettled, Held, Aloft
<1>5. Ledger(s, reported', confirmed', dropped', finals, nextLeaseId')
  BY <1>1, <1>2, <1>4, Parts, SessionFields
     DEF Ledger, OnlyActive, IdsGrow, Balanced, OldestFirst, FinalOnce
<1> QED BY <1>2, <1>3, <1>5, Parts, CallbackPumps

(* The backend has taken the batch.                                         *)
LEMMA CompleteStep ==
  ASSUME IInv, completeBatch
  PROVE  IInv'
<1> DEFINE s == SessionOf(activeLeaseId, leases, NoBatch, retryTimer)
           f == inFlight.leaseId
<1>1. /\ s = [active |-> s.active, leases |-> s.leases, inFlight |-> s.inFlight, retry |-> s.retry]
      /\ s.active = activeLeaseId /\ s.leases = leases /\ s.inFlight = NoBatch
      /\ s.retry = retryTimer
  BY DEF SessionOf
<1>2. /\ Becomes(s.inFlight, pump(s))
      /\ inFlight # NoBatch
      /\ confirmed' = [confirmed EXCEPT ![f] = @ + inFlight.bytes]
      /\ UNCHANGED <<nextLeaseId, reported, dropped, failures>>
  BY <1>1 DEF completeBatch
<1> HIDE DEF s
<1>3. f \in Leases /\ inFlight.bytes \in Nat \ {0}
  BY <1>2, Parts, SessionFields DEF ShapeOK
<1> HIDE DEF f
<1>4. Well(s)
  BY <1>1, Parts, SessionFields DEF Well, ShapeOK, FlagsOK
<1>5. \A k \in Leases :
         /\ Aloft(s, k) = 0
         /\ Aloft(Session, k) = IF k = f THEN inFlight.bytes ELSE 0
         /\ Held(s, k) = Held(Session, k)
         /\ Unsettled(Session, k) = Unsettled(s, k) + Aloft(Session, k)
         /\ Unsettled(s, k) \in Nat
  BY <1>1, <1>3, <1>4, Parts, SessionFields, UnsettledNat, Constants
     DEF Unsettled, Held, Aloft, NoBatch, f, Well
<1>6. /\ confirmed \in [Leases -> Nat]
      /\ confirmed' \in [Leases -> Nat]
      /\ \A k \in Leases : confirmed'[k] = confirmed[k] + Aloft(Session, k)
  BY <1>2, <1>3, <1>5, Parts DEF Histories
<1>7. Histories(reported', confirmed', dropped', finals, nextLeaseId')
  BY <1>2, <1>6, Parts DEF Histories
<1>8. IdsGrow(s, reported', finals, nextLeaseId') /\ OnlyActive(s) /\ FinalOnce(s, finals)
  BY <1>1, <1>2, Parts, SessionFields DEF IdsGrow, OnlyActive, FinalOnce
<1>9. Balanced(s, reported', confirmed', dropped')
  BY <1>1, <1>2, <1>3, <1>5, <1>6, Parts, SessionFields DEF Balanced, Histories
<1>10. OldestFirst(s, confirmed')
  <2> SUFFICES ASSUME NEW l \in Leases, Aloft(s, l) > 0 \/ confirmed'[l] > 0,
                      NEW k \in 1..(l - 1)
               PROVE  Unsettled(s, k) = 0
    BY DEF OldestFirst
  <2>1. k \in Leases
    BY AckAssumption DEF Leases
  <2>2. Aloft(Session, l) > 0 \/ confirmed[l] > 0
    BY <1>3, <1>5, <1>6
  <2>3. Unsettled(Session, k) = 0
    BY <2>2, Parts DEF OldestFirst
  <2> QED BY <1>3, <1>5, <2>1, <2>3
<1>11. Ledger(s, reported', confirmed', dropped', finals, nextLeaseId')
  BY <1>7, <1>8, <1>9, <1>10 DEF Ledger
<1> QED BY <1>2, <1>4, <1>11, Parts, CallbackPumps

(* The session after the bytes of a failed batch went back to its lease:    *)
(* what holds in each of the three ways in which failBatch goes on.         *)
LEMMA FailStep ==
  ASSUME IInv, failBatch
  PROVE  IInv'
<1> DEFINE f == inFlight.leaseId
           pending == leases[f].pendingBytes + inFlight.bytes
           gone == leases[f].disposed /\ ~leases[f].finalAttemptAvailable
           n == IF gone THEN 0 ELSE pending
           map == SetPending(leases, f, n)
           r == IF leases[f].disposed THEN retryTimer ELSE f
           s == SessionOf(activeLeaseId, map, NoBatch, r)
<1>1. /\ inFlight # NoBatch
      /\ Becomes(NoBatch, IF leases[f].disposed THEN pump(s) ELSE s)
      /\ dropped' = [dropped EXCEPT ![f] = IF gone THEN @ + pending ELSE @]
      /\ failures' = failures + 1
      /\ UNCHANGED <<nextLeaseId, reported, confirmed>>
  BY DEF failBatch
<1>2. /\ f \in Leases /\ f \in DOMAIN leases /\ f # NoLease
      /\ inFlight.bytes \in Nat \ {0} /\ leases[f] \in LeaseState
  BY <1>1, Parts, SessionFields, Constants DEF ShapeOK
<1>3. pending \in Nat /\ n \in Nat
  BY <1>2 DEF LeaseState
<1>4. retryTimer = NoLease
  BY <1>1, Parts, SessionFields DEF FlagsOK
<1> HIDE DEF n
<1>5. /\ DOMAIN map = DOMAIN leases
      /\ \A k \in DOMAIN leases :
            /\ map[k] \in LeaseState
            /\ map[k].disposed = leases[k].disposed
            /\ map[k].accepting = leases[k].accepting
            /\ map[k].pendingBytes = IF k = f THEN n ELSE leases[k].pendingBytes
            /\ map[k].finalAttemptAvailable = leases[k].finalAttemptAvailable
  BY <1>2, <1>3, PendingSet, Parts
<1>6. /\ s = [active |-> s.active, leases |-> s.leases, inFlight |-> s.inFlight, retry |-> s.retry]
      /\ s.active = activeLeaseId /\ s.leases = map /\ s.inFlight = NoBatch /\ s.retry = r
  BY DEF SessionOf
<1> HIDE DEF map, s, f
<1>7. ShapeOK(s)
  BY <1>2, <1>4, <1>5, <1>6, Parts, SessionFields DEF ShapeOK
<1>8. FlagsOK(s)
  <2>1. ASSUME leases[f].disposed, n > 0 PROVE leases[f].finalAttemptAvailable
    BY <2>1 DEF n
  <2> QED BY <1>2, <1>4, <1>5, <1>6, <2>1, Parts, SessionFields DEF FlagsOK, ShapeOK
<1>9. \A k \in Leases :
         /\ Aloft(s, k) = 0
         /\ Aloft(Session, k) = IF k = f THEN inFlight.bytes ELSE 0
         /\ Held(s, k) = IF k = f THEN n ELSE Held(Session, k)
         /\ Held(Session, f) = leases[f].pendingBytes
  BY <1>2, <1>5, <1>6, SessionFields, Constants DEF Held, Aloft, NoBatch, f
<1>10. \A k \in Leases :
          /\ Unsettled(s, k) = IF k = f /\ gone THEN 0 ELSE Unsettled(Session, k)
          /\ Unsettled(Session, k) \in Nat
          /\ Unsettled(Session, f) = pending
  BY <1>2, <1>9, Parts, UnsettledNat DEF Unsettled, n
<1>11. /\ dropped \in [Leases -> Nat]
       /\ dropped' \in [Leases -> Nat]
       /\ \A k \in Leases : dropped'[k] = IF k = f /\ gone THEN dropped[k] + pending ELSE dropped[k]
  BY <1>1, <1>2, <1>3, Parts DEF Histories
<1>12. Histories(reported', confirmed', dropped', finals, nextLeaseId')
  BY <1>1, <1>11, Parts DEF Histories
<1>13. IdsGrow(s, reported', finals, nextLeaseId') /\ OnlyActive(s) /\ FinalOnce(s, finals)
  BY <1>1, <1>5, <1>6, Parts, SessionFields DEF IdsGrow, OnlyActive, FinalOnce
<1>14. Balanced(s, reported', confirmed', dropped')
  <2>1. \A k \in Leases : reported[k] = confirmed[k] + dropped'[k] + Unsettled(s, k)
    BY <1>2, <1>3, <1>10, <1>11, Parts DEF Balanced, Histories
  <2>2. \A k \in Leases : dropped'[k] > 0 => activeLeaseId # k
    <3>1. gone => activeLeaseId # f
      BY <1>2, Parts, SessionFields DEF FlagsOK
    <3> QED BY <1>11, <3>1, Parts, SessionFields DEF Balanced
  <2> QED BY <1>1, <1>6, <2>1, <2>2 DEF Balanced
<1>15. OldestFirst(s, confirmed')
  <2> SUFFICES ASSUME NEW l \in Leases, Aloft(s, l) > 0 \/ confirmed'[l] > 0,
                      NEW k \in 1..(l - 1)
               PROVE  Unsettled(s, k) = 0
    BY DEF OldestFirst
  <2>1. k \in Leases
    BY AckAssumption DEF Leases
  <2>2. confirmed[l] > 0
    BY <1>1, <1>9
  <2>3. Unsettled(Session, k) = 0
    BY <2>2, Parts DEF OldestFirst
  <2> QED BY <1>10, <2>1, <2>3
<1>16. Ledger(s, reported', confirmed', dropped', finals, nextLeaseId')
  BY <1>12, <1>13, <1>14, <1>15 DEF Ledger
<1>17. failures' \in Nat
  BY <1>1, Parts
<1>18. CASE leases[f].disposed
  BY <1>1, <1>6, <1>7, <1>8, <1>16, <1>17, <1>18, CallbackPumps DEF Well
<1>19. CASE ~leases[f].disposed
  <2>1. Becomes(NoBatch, s) /\ s.retry # NoLease
    BY <1>1, <1>2, <1>6, <1>19
  <2>2. Session' = s /\ finals' = Finals(NoBatch, s, finals)
    BY <1>7, <2>1, BecomesFields
  <2>3. finals' = finals
    BY <1>6, <2>2, Parts DEF Finals, Histories
  <2>4. Ledger(Session', reported', confirmed', dropped', finals', nextLeaseId')
    BY <1>16, <2>2, <2>3
  <2>5. Well(Session') /\ Calm(Session')
    BY <1>7, <1>8, <2>1, <2>2 DEF Well, Calm, Busy
  <2> QED BY <1>17, <2>4, <2>5 DEF IInv
<1> QED BY <1>18, <1>19

(* What closing a lease leaves of a session.                                *)
LEMMA ClosedWell ==
  ASSUME NEW s, Well(s), NEW l \in DOMAIN s.leases, ~s.leases[l].disposed
  PROVE  LET c == Closed(s, l) IN
         /\ Well(c)
         /\ c.inFlight = s.inFlight
         /\ c.active = IF s.active = l THEN NoLease ELSE s.active
         /\ DOMAIN c.leases = DOMAIN s.leases
         /\ c.leases[l].disposed = TRUE
         /\ \A k \in DOMAIN s.leases \ {l} : c.leases[k] = s.leases[k]
         /\ \A k : Unsettled(c, k) = Unsettled(s, k) /\ Aloft(c, k) = Aloft(s, k)
<1> DEFINE last == [accepting |-> FALSE, disposed |-> TRUE,
                    pendingBytes |-> s.leases[l].pendingBytes, finalAttemptAvailable |-> TRUE]
           map == [s.leases EXCEPT ![l] = last]
           a == IF s.active = l THEN NoLease ELSE s.active
           r == IF s.retry = l THEN NoLease ELSE s.retry
           c == Closed(s, l)
<1>1. /\ c = [active |-> c.active, leases |-> c.leases, inFlight |-> c.inFlight, retry |-> c.retry]
      /\ c.active = a /\ c.leases = map /\ c.inFlight = s.inFlight /\ c.retry = r
  BY DEF Closed, SessionOf
<1>2. /\ DOMAIN map = DOMAIN s.leases
      /\ map[l] = last
      /\ \A k \in DOMAIN s.leases \ {l} : map[k] = s.leases[k]
  OBVIOUS
<1>3. s.leases[l] \in LeaseState
  BY DEF Well, ShapeOK
<1>4. /\ last \in LeaseState
      /\ last.accepting = FALSE /\ last.disposed = TRUE /\ last.finalAttemptAvailable = TRUE
      /\ last.pendingBytes = s.leases[l].pendingBytes
  BY <1>3 DEF LeaseState
<1> HIDE DEF last, map, c
<1>5. ShapeOK(c)
  BY <1>1, <1>2, <1>4 DEF Well, ShapeOK
<1>6. FlagsOK(c)
  BY <1>1, <1>2, <1>4 DEF Well, FlagsOK, ShapeOK
<1>7. \A k : Unsettled(c, k) = Unsettled(s, k) /\ Aloft(c, k) = Aloft(s, k)
  BY <1>1, <1>2, <1>4 DEF Unsettled, Held, Aloft
<1> QED BY <1>1, <1>2, <1>4, <1>5, <1>6, <1>7 DEF Well, c

(* A terminal disposes of its lease.                                        *)
LEMMA DisposeStep ==
  ASSUME IInv, NEW l \in DOMAIN leases, dispose(l)
  PROVE  IInv'
<1>1. /\ Becomes(inFlight, closeLease(Session, l))
      /\ UNCHANGED <<nextLeaseId, reported, confirmed, dropped, failures>>
  BY DEF dispose
<1>2. CASE leases[l].disposed
  <2>1. closeLease(Session, l) = Session
    BY <1>2, SessionFields DEF closeLease, Closeable
  <2>2. Session' = Session /\ finals' = Finals(inFlight, Session, finals)
    BY <1>1, <2>1, BecomesFields, Parts
  <2>3. finals' = finals
    BY <2>2, SessionFields, Parts DEF Finals, Histories
  <2> QED BY <1>1, <2>2, <2>3 DEF IInv
<1>3. CASE ~leases[l].disposed
  <2> DEFINE c == Closed(Session, l)
  <2>1. closeLease(Session, l) = pump(c)
    BY <1>3, SessionFields DEF closeLease, Closeable
  <2>2. Well(Session)
    BY DEF IInv
  <2>3. /\ Well(c) /\ c.inFlight = inFlight
        /\ c.active = IF activeLeaseId = l THEN NoLease ELSE activeLeaseId
        /\ DOMAIN c.leases = DOMAIN leases
        /\ c.leases[l].disposed = TRUE
        /\ \A k \in DOMAIN leases \ {l} : c.leases[k] = leases[k]
        /\ \A k : Unsettled(c, k) = Unsettled(Session, k) /\ Aloft(c, k) = Aloft(Session, k)
    <3>1. l \in DOMAIN Session.leases /\ ~Session.leases[l].disposed
      BY <1>3, SessionFields
    <3> HIDE DEF c
    <3>2. /\ Well(c) /\ c.inFlight = Session.inFlight
          /\ c.active = IF Session.active = l THEN NoLease ELSE Session.active
          /\ DOMAIN c.leases = DOMAIN Session.leases
          /\ c.leases[l].disposed = TRUE
          /\ \A k \in DOMAIN Session.leases \ {l} : c.leases[k] = Session.leases[k]
          /\ \A k : Unsettled(c, k) = Unsettled(Session, k) /\ Aloft(c, k) = Aloft(Session, k)
      BY <2>2, <3>1, ClosedWell, Zenon DEF c
    <3> QED BY <3>2, SessionFields
  <2> HIDE DEF c
  <2>4. OnlyActive(c)
    BY <2>3, Parts, SessionFields DEF OnlyActive
  <2>5. IdsGrow(c, reported, finals, nextLeaseId)
    BY <2>3, Parts, SessionFields DEF IdsGrow
  <2>6. Balanced(c, reported, confirmed, dropped) /\ OldestFirst(c, confirmed)
    BY <2>3, Parts, SessionFields, Constants DEF Balanced, OldestFirst
  <2>7. FinalOnce(c, finals)
    BY <1>3, <2>3, Parts, SessionFields DEF FinalOnce
  <2>8. Ledger(c, reported', confirmed', dropped', finals, nextLeaseId')
    BY <1>1, <2>4, <2>5, <2>6, <2>7, Parts DEF Ledger
  <2> QED BY <1>1, <2>1, <2>3, <2>8, Parts, CallbackPumps
<1> QED BY <1>2, <1>3

(* A terminal takes a lease; the lease it replaces is closed.               *)
LEMMA AcquireStep ==
  ASSUME IInv, acquire
  PROVE  IInv'
<1> DEFINE map == [l \in DOMAIN leases \cup {nextLeaseId} |->
                      IF l = nextLeaseId THEN NewLease ELSE leases[l]]
           s == SessionOf(nextLeaseId, map, inFlight, retryTimer)
           c == IF activeLeaseId = NoLease THEN s ELSE Closed(s, activeLeaseId)
           q == IF activeLeaseId = NoLease THEN s ELSE closeLease(s, activeLeaseId)
<1>1. /\ nextLeaseId <= MaxLeases
      /\ Becomes(inFlight, pump(q))
      /\ nextLeaseId' = nextLeaseId + 1
      /\ UNCHANGED <<reported, confirmed, dropped, failures>>
  BY DEF acquire
<1>2. nextLeaseId \in Leases /\ nextLeaseId # NoLease /\ nextLeaseId \notin DOMAIN leases
  BY <1>1, Parts, SessionFields, AckAssumption, Constants DEF Histories, IdsGrow, Leases
<1>3. /\ s = [active |-> s.active, leases |-> s.leases, inFlight |-> s.inFlight, retry |-> s.retry]
      /\ s.active = nextLeaseId /\ s.leases = map /\ s.inFlight = inFlight
      /\ s.retry = retryTimer
  BY DEF SessionOf
<1>4. /\ DOMAIN map = DOMAIN leases \cup {nextLeaseId}
      /\ map[nextLeaseId] = NewLease
      /\ \A k \in DOMAIN leases : map[k] = leases[k]
  BY <1>2
<1>5. /\ NewLease \in LeaseState
      /\ NewLease.disposed = FALSE /\ NewLease.accepting = TRUE
      /\ NewLease.pendingBytes = 0 /\ NewLease.finalAttemptAvailable = FALSE
  BY DEF NewLease, LeaseState
<1> HIDE DEF map, s
<1>6. ShapeOK(s)
  BY <1>2, <1>3, <1>4, <1>5, Parts, SessionFields DEF ShapeOK
<1>7. FlagsOK(s)
  BY <1>2, <1>3, <1>4, <1>5, Parts, SessionFields DEF FlagsOK, ShapeOK
<1>8. \A k : Unsettled(s, k) = Unsettled(Session, k) /\ Aloft(s, k) = Aloft(Session, k)
  BY <1>2, <1>3, <1>4, <1>5, SessionFields DEF Unsettled, Held, Aloft
(* The session once the lease replaced, if any, is closed.                  *)
<1>9. /\ Well(c) /\ c.inFlight = inFlight /\ c.active = nextLeaseId
      /\ DOMAIN c.leases = DOMAIN leases \cup {nextLeaseId}
      /\ c.leases[nextLeaseId] = NewLease
      /\ \A k \in DOMAIN leases : c.leases[k].disposed
      /\ \A k \in DOMAIN leases : leases[k].disposed => c.leases[k] = leases[k]
      /\ \A k : Unsettled(c, k) = Unsettled(Session, k) /\ Aloft(c, k) = Aloft(Session, k)
  <2>1. CASE activeLeaseId = NoLease
    <3>1. \A k \in DOMAIN leases : leases[k].disposed
      BY <2>1, Parts, SessionFields, Constants DEF OnlyActive
    <3> QED BY <1>3, <1>4, <1>6, <1>7, <1>8, <2>1, <3>1 DEF Well
  <2>2. CASE activeLeaseId # NoLease
    <3>1. /\ activeLeaseId \in DOMAIN leases /\ ~leases[activeLeaseId].disposed
          /\ activeLeaseId # nextLeaseId
      BY <1>2, <2>2, Parts, SessionFields DEF ShapeOK, FlagsOK
    <3>2. activeLeaseId \in DOMAIN s.leases /\ ~s.leases[activeLeaseId].disposed
      BY <1>3, <1>4, <3>1
    <3>3. /\ Well(c) /\ c.inFlight = s.inFlight
          /\ c.active = IF s.active = activeLeaseId THEN NoLease ELSE s.active
          /\ DOMAIN c.leases = DOMAIN s.leases
          /\ c.leases[activeLeaseId].disposed = TRUE
          /\ \A k \in DOMAIN s.leases \ {activeLeaseId} : c.leases[k] = s.leases[k]
          /\ \A k : Unsettled(c, k) = Unsettled(s, k) /\ Aloft(c, k) = Aloft(s, k)
      <4> DEFINE d == Closed(s, activeLeaseId)
      <4>1. c = d
        BY <2>2
      <4>2. Well(s)
        BY <1>6, <1>7 DEF Well
      <4>3. /\ Well(d) /\ d.inFlight = s.inFlight
            /\ d.active = IF s.active = activeLeaseId THEN NoLease ELSE s.active
            /\ DOMAIN d.leases = DOMAIN s.leases
            /\ d.leases[activeLeaseId].disposed = TRUE
            /\ \A k \in DOMAIN s.leases \ {activeLeaseId} : d.leases[k] = s.leases[k]
            /\ \A k : Unsettled(d, k) = Unsettled(s, k) /\ Aloft(d, k) = Aloft(s, k)
        BY <3>2, <4>2, ClosedWell
      <4> HIDE DEF c, d
      <4> QED BY <4>1, <4>3
    <3> HIDE DEF c
    <3>4. \A k \in DOMAIN leases \ {activeLeaseId} : c.leases[k] = leases[k] /\ leases[k].disposed
      BY <1>3, <1>4, <3>3, Parts, SessionFields DEF OnlyActive
    <3>5. c.active = nextLeaseId /\ c.leases[nextLeaseId] = NewLease
      BY <1>2, <1>3, <1>4, <3>1, <3>3
    <3> QED BY <1>3, <1>4, <1>8, <3>1, <3>3, <3>4, <3>5
  <2> QED BY <2>1, <2>2
(* A pump that sent a batch leaves the second one nothing to do.            *)
<1>10. pump(q) = pump(c) \/ (q = pump(c) /\ pump(q) = pump(pump(c)))
  <2>1. CASE activeLeaseId = NoLease
    BY <2>1
  <2>2. CASE activeLeaseId # NoLease
    <3>1. /\ activeLeaseId \in DOMAIN leases /\ ~leases[activeLeaseId].disposed
      BY <2>2, Parts, SessionFields DEF ShapeOK, FlagsOK
    <3>2. Closeable(s, activeLeaseId)
      BY <1>3, <1>4, <3>1 DEF Closeable
    <3> QED BY <2>2, <3>2 DEF closeLease
  <2> QED BY <2>1, <2>2
<1> HIDE DEF c, q
<1>11. Well(pump(q)) /\ Calm(pump(q)) /\ Pumped(c, pump(q))
  <2>1. Well(pump(c)) /\ Calm(pump(c)) /\ Pumped(c, pump(c))
    BY <1>9, PumpWell
  <2>2. Well(pump(pump(c))) /\ Calm(pump(pump(c))) /\ Pumped(pump(c), pump(pump(c)))
    BY <2>1, PumpWell
  <2>3. CASE pump(c).inFlight = c.inFlight
    BY <1>10, <2>1, <2>2, <2>3, PumpedTwice
  <2>4. CASE pump(c).inFlight # c.inFlight
    <3>1. pump(c).inFlight # NoBatch
      BY <2>1, <2>4 DEF Pumped
    <3>2. pump(pump(c)) = pump(c)
      BY <3>1 DEF pump
    <3> QED BY <1>10, <2>1, <3>2
  <2> QED BY <2>3, <2>4
<1>12. Ledger(c, reported', confirmed', dropped', finals, nextLeaseId')
  <2>1. OnlyActive(c)
    BY <1>9 DEF OnlyActive
  <2>2. Histories(reported, confirmed, dropped, finals, nextLeaseId')
    BY <1>1, Parts, AckAssumption DEF Histories
  <2>3. IdsGrow(c, reported, finals, nextLeaseId')
    BY <1>1, <1>9, Parts, SessionFields, Constants DEF IdsGrow, Histories
  <2>4. Balanced(c, reported, confirmed, dropped)
    <3>1. dropped[nextLeaseId] = 0
      BY <1>2, Parts, UnsettledNat, Constants DEF Balanced, IdsGrow, Histories
    <3> QED BY <1>2, <1>9, <3>1, Parts DEF Balanced
  <2>5. OldestFirst(c, confirmed)
    BY <1>9, Parts DEF OldestFirst
  <2>6. FinalOnce(c, finals)
    <3>1. finals[nextLeaseId] = 0
      BY <1>2, Parts, Constants DEF IdsGrow, Histories
    <3> QED BY <1>2, <1>9, <3>1, Parts, SessionFields DEF FinalOnce
  <2> QED BY <1>1, <2>1, <2>2, <2>3, <2>4, <2>5, <2>6 DEF Ledger
<1>13. Session' = pump(q) /\ finals' = Finals(c.inFlight, pump(q), finals)
  BY <1>1, <1>9, <1>11, BecomesFields DEF Well
<1>14. Ledger(pump(q), reported', confirmed', dropped', finals', nextLeaseId')
  BY <1>9, <1>11, <1>12, <1>13, PumpLedger
<1>15. Well(Session') /\ Calm(Session')
  BY <1>11, <1>13
<1>16. Ledger(Session', reported', confirmed', dropped', finals', nextLeaseId')
  BY <1>13, <1>14
<1> QED BY <1>1, <1>15, <1>16, Parts DEF IInv

-----------------------------------------------------------------------------
LEMMA InitIInv == Init => IInv
<1> SUFFICES ASSUME Init PROVE IInv
  OBVIOUS
<1>1. /\ Session.active = NoLease /\ Session.leases = << >> /\ Session.inFlight = NoBatch
      /\ Session.retry = NoLease /\ DOMAIN leases = {} /\ nextLeaseId = 1
  BY SessionFields DEF Init
<1>2. Well(Session) /\ Calm(Session) /\ OnlyActive(Session)
  BY <1>1, SessionFields DEF Well, ShapeOK, FlagsOK, Calm, OnlyActive
<1>3. Histories(reported, confirmed, dropped, finals, nextLeaseId)
  BY AckAssumption DEF Init, Histories, Leases
<1>4. \A l \in Leases : /\ reported[l] = 0 /\ confirmed[l] = 0
                        /\ dropped[l] = 0 /\ finals[l] = 0
                        /\ Unsettled(Session, l) = 0 /\ Aloft(Session, l) = 0
  BY <1>1 DEF Init, Unsettled, Held, Aloft, NoBatch
<1>5. /\ IdsGrow(Session, reported, finals, nextLeaseId)
      /\ Balanced(Session, reported, confirmed, dropped)
      /\ OldestFirst(Session, confirmed)
      /\ FinalOnce(Session, finals)
  BY <1>1, <1>4 DEF IdsGrow, Balanced, OldestFirst, FinalOnce
<1>6. failures \in Nat
  BY DEF Init
<1> QED BY <1>2, <1>3, <1>5, <1>6 DEF IInv, Ledger

LEMMA NextIInv == IInv /\ [Next]_vars => IInv'
<1> SUFFICES ASSUME IInv, [Next]_vars PROVE IInv'
  OBVIOUS
<1>1. CASE acquire
  BY <1>1, AcquireStep
<1>2. ASSUME NEW l \in DOMAIN leases, NEW bytes \in 1..(MaxBytes - TotalReported), addAck(l, bytes)
      PROVE  IInv'
  <2>1. bytes \in Nat \ {0}
    OBVIOUS
  <2> QED BY <1>2, <2>1, ReportStep
<1>3. ASSUME NEW l \in DOMAIN leases, dispose(l) PROVE IInv'
  BY <1>3, DisposeStep
<1>4. CASE completeBatch
  BY <1>4, CompleteStep
<1>5. CASE failBatch
  BY <1>5, FailStep
<1>6. CASE retryFires
  BY <1>6, RetryStep
<1>7. CASE UNCHANGED vars
  <2>1. Session' = Session
    BY <1>7 DEF vars, session, Session, SessionOf
  <2> QED BY <1>7, <2>1 DEF vars, session, IInv
<1> QED BY <1>1, <1>2, <1>3, <1>4, <1>5, <1>6, <1>7 DEF Next

LEMMA AckInvariant == Spec => []IInv
BY InitIInv, NextIInv, PTL DEF Spec

(* The coordinator's state keeps its types: a batch in flight and a retry   *)
(* timer always name a lease that is still in the map, so no callback meets *)
(* a lease that pruneCompletedLeases has removed.                           *)
THEOREM AckTypes == Spec => []TypeOK
<1>1. IInv => TypeOK
  <2> SUFFICES ASSUME IInv PROVE TypeOK
    OBVIOUS
  <2>1. nextLeaseId \in 1..(MaxLeases + 1)
    BY Parts, AckAssumption DEF Histories
  <2>2. inFlight = NoBatch \/ (inFlight.leaseId \in DOMAIN leases /\ inFlight.bytes \in Nat \ {0})
    BY Parts, SessionFields DEF ShapeOK
  <2> QED BY <2>1, <2>2, Parts, SessionFields DEF TypeOK, ShapeOK, Histories
<1> QED BY <1>1, AckInvariant, PTL

(* Bytes never wait for nothing, whatever the order of reports, failures,   *)
(* retries, disposals and acquisitions: every callback ends in pump or in   *)
(* the arming of a retry timer.                                             *)
THEOREM AckNoStall == Spec => []NoStall
<1>1. IInv => NoStall
  BY Parts, SessionFields DEF NoStall, Calm, Busy, ShapeOK, LeaseState
<1> QED BY <1>1, AckInvariant, PTL

(* Every reported byte is confirmed, waiting, in flight or given up, and    *)
(* none is given up while its lease is live.                                *)
THEOREM AckAccounted == Spec => []NoAckLost
<1>1. IInv => NoAckLost
  <2> SUFFICES ASSUME IInv, NEW l \in Leases
               PROVE  /\ reported[l] = confirmed[l] + dropped[l] + Waiting(l) + Flying(l)
                      /\ dropped[l] > 0 => activeLeaseId # l
    BY DEF NoAckLost
  <2>1. Held(Session, l) = Waiting(l) /\ Aloft(Session, l) = Flying(l)
    BY SessionFields DEF Held, Waiting, Aloft, Flying
  <2>2. Held(Session, l) \in Nat /\ Aloft(Session, l) \in Nat
    BY Parts, UnsettledNat
  <2>3. /\ reported[l] = confirmed[l] + dropped[l] + (Waiting(l) + Flying(l))
        /\ confirmed[l] \in Nat /\ dropped[l] \in Nat
        /\ dropped[l] > 0 => activeLeaseId # l
    BY <2>1, Parts, SessionFields DEF Balanced, Unsettled, Histories
  <2> QED BY <2>1, <2>2, <2>3
<1> QED BY <1>1, AckInvariant, PTL

(* Generations are served in order, each lease before its successors, and   *)
(* a disposed lease gets at most one attempt that starts after disposal.    *)
THEOREM AckGenerations == Spec => []GenerationsSerialized
<1>1. IInv => GenerationsSerialized
  <2> SUFFICES ASSUME IInv, NEW l \in Leases
               PROVE  /\ Flying(l) > 0 \/ confirmed[l] > 0 => \A k \in 1..(l - 1) : Settled(k)
                      /\ finals[l] <= 1
    BY DEF GenerationsSerialized
  <2>1. ASSUME Flying(l) > 0 \/ confirmed[l] > 0, NEW k \in 1..(l - 1)
        PROVE  Settled(k)
    <3>1. k \in Leases
      BY AckAssumption DEF Leases
    <3>2. Unsettled(Session, k) = 0
      BY <2>1, Parts, SessionFields DEF OldestFirst, Aloft, Flying
    <3> QED BY <3>1, <3>2, Parts DEF Balanced, Settled, Histories
  <2> QED BY <2>1, Parts DEF FinalOnce
<1> QED BY <1>1, AckInvariant, PTL
=============================================================================

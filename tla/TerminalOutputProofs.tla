------------------------ MODULE TerminalOutputProofs ------------------------
(***************************************************************************)
(* Proofs about TerminalOutput for every size of chunks, batches and       *)
(* backlogs, every sequence of output events, waits and mode changes and   *)
(* every bound, while the frame gate does not collapse frames: it is off   *)
(* in release builds and only observes in development ones                 *)
(* (resolveDec2026FrameGateMode).                                          *)
(***************************************************************************)
EXTENDS TerminalOutput, FiniteSetTheorems, SequenceTheorems, WellFoundedInduction, TLAPS

Link == [data : Seq(Units), then : Nat]

Drains ==
    [queue : Seq(Units), mode : Modes, writingBytes : Nat, backendUnackedBytes : Nat,
     pendingAckBytes : Nat, writeInFlight : BOOLEAN, writeQueue : Seq(Link),
     foreground : BOOLEAN, microtaskPending : BOOLEAN, microtasks : Nat,
     backgroundTimer : {"none", "normal", "catchup"}, backgroundCatchUp : BOOLEAN,
     ackTimer : BOOLEAN, disposed : BOOLEAN, onAck : Nat]

-----------------------------------------------------------------------------
(* The methods of the drain.                                                *)

(* The queue, the chain of writes and the mode are left alone.              *)
Kept(d, e) ==
    /\ e.queue = d.queue /\ e.writeQueue = d.writeQueue
    /\ e.writingBytes = d.writingBytes /\ e.writeInFlight = d.writeInFlight
    /\ e.mode = d.mode /\ e.disposed = d.disposed

(* No callback is armed or cancelled.                                       *)
SameSchedule(d, e) ==
    /\ e.foreground = d.foreground /\ e.microtaskPending = d.microtaskPending
    /\ e.microtasks = d.microtasks /\ e.backgroundTimer = d.backgroundTimer

(* Some of the drawn bytes are acknowledged, and no others.                 *)
Paid(d, e) ==
    \E n \in 0 .. d.pendingAckBytes :
        /\ e.pendingAckBytes = d.pendingAckBytes - n
        /\ e.backendUnackedBytes = d.backendUnackedBytes - n
        /\ e.onAck = d.onAck + n

(* Drawn bytes that wait for their acknowledgement have a timer.            *)
AckArmed(d) == ~d.disposed /\ d.pendingAckBytes > 0 => d.ackTimer

(* The backend is owed at least what is drawn.                              *)
Covered(d) == d \in Drains /\ d.pendingAckBytes <= d.backendUnackedBytes

(* flushPendingAck acknowledges what is drawn, or leaves it to the timer.   *)
LEMMA FlushAck ==
    ASSUME NEW d, Covered(d), NEW force \in BOOLEAN
    PROVE  LET e == flushPendingAck(d, force) IN
           /\ e \in Drains /\ Kept(d, e) /\ SameSchedule(d, e) /\ Paid(d, e) /\ AckArmed(e)
           /\ force => e.pendingAckBytes = 0
<1> DEFINE e == flushPendingAck(d, force)
<1> USE DEF Covered
<1>1. CASE d.pendingAckBytes = 0
  <2> DEFINE b == IF force THEN FALSE ELSE d.ackTimer
  <2>1. b \in BOOLEAN
    BY DEF Drains
  <2>2. e = [d EXCEPT !.ackTimer = b]
    BY <1>1 DEF flushPendingAck
  <2> HIDE DEF b, e
  <2>3. e \in Drains /\ Kept(d, e) /\ SameSchedule(d, e)
    BY <2>1, <2>2 DEF Drains, Kept, SameSchedule
  <2>4. e.pendingAckBytes = 0 /\ e.backendUnackedBytes = d.backendUnackedBytes /\ e.onAck = d.onAck
    BY <1>1, <2>2 DEF Drains
  <2>5. Paid(d, e)
    <3>1. d.backendUnackedBytes \in Nat /\ d.onAck \in Nat
      BY DEF Drains
    <3>2. 0 \in 0 .. d.pendingAckBytes /\ e.pendingAckBytes = d.pendingAckBytes - 0
      BY <1>1, <2>4
    <3> QED BY <2>4, <3>1, <3>2 DEF Paid
  <2> QED BY <2>3, <2>4, <2>5 DEF AckArmed, e
<1>2. CASE d.pendingAckBytes # 0 /\ ~force /\ d.pendingAckBytes < AckBatch
  <2> DEFINE b == ~d.disposed \/ d.ackTimer
  <2>1. b \in BOOLEAN
    BY DEF Drains
  <2>2. e = [d EXCEPT !.ackTimer = b]
    BY <1>2 DEF flushPendingAck
  <2>3. ~d.disposed => b
    BY Zenon
  <2> HIDE DEF b, e
  <2>4. e \in Drains /\ Kept(d, e) /\ SameSchedule(d, e) /\ e.ackTimer = b
    BY <2>1, <2>2 DEF Drains, Kept, SameSchedule
  <2>5. /\ e.pendingAckBytes = d.pendingAckBytes
        /\ e.backendUnackedBytes = d.backendUnackedBytes /\ e.onAck = d.onAck
    BY <2>2 DEF Drains
  <2>6. Paid(d, e)
    BY <2>5 DEF Paid, Drains
  <2> QED BY <1>2, <2>3, <2>4, <2>5, <2>6 DEF AckArmed, Kept, e
<1>3. CASE d.pendingAckBytes # 0 /\ ~(~force /\ d.pendingAckBytes < AckBatch)
  <2> DEFINE p == d.pendingAckBytes
             f == [d EXCEPT !.ackTimer = FALSE, !.pendingAckBytes = 0]
  <2>1. f \in Drains /\ f.backendUnackedBytes = d.backendUnackedBytes /\ f.onAck = d.onAck
    BY DEF Drains
  <2>2. AtMost(p, f.backendUnackedBytes) = p
    BY <2>1 DEF AtMost, Drains
  <2>3. e = [f EXCEPT !.backendUnackedBytes = f.backendUnackedBytes - p, !.onAck = f.onAck + p]
    BY <1>3, <2>2 DEF flushPendingAck, sendAck
  <2>4. p \in Nat /\ f.backendUnackedBytes - p \in Nat /\ f.onAck + p \in Nat
    BY <2>1, SMTT(30) DEF Drains
  <2>5. Kept(d, f) /\ SameSchedule(d, f) /\ f.pendingAckBytes = 0
    BY DEF Drains, Kept, SameSchedule
  <2> HIDE DEF e, f, p
  <2>6. e \in Drains
    BY <2>1, <2>3, <2>4 DEF Drains
  <2>7. /\ Kept(f, e) /\ SameSchedule(f, e) /\ e.pendingAckBytes = f.pendingAckBytes
        /\ e.backendUnackedBytes = f.backendUnackedBytes - p /\ e.onAck = f.onAck + p
    BY <2>1, <2>3 DEF Drains, Kept, SameSchedule
  <2>8. Kept(d, e) /\ SameSchedule(d, e)
    BY <2>5, <2>7 DEF Kept, SameSchedule
  <2>9. Paid(d, e)
    BY <2>1, <2>4, <2>5, <2>7, SMTT(30) DEF Paid, p, Drains
  <2> QED BY <2>5, <2>6, <2>7, <2>8, <2>9 DEF AckArmed, e
<1> QED BY <1>1, <1>2, <1>3


(* What a scheduler arms leaves everything else alone.                      *)
Unpaid(d, e) ==
    /\ e.pendingAckBytes = d.pendingAckBytes /\ e.ackTimer = d.ackTimer
    /\ e.backendUnackedBytes = d.backendUnackedBytes /\ e.onAck = d.onAck

LEMMA UnpaidIsPaid ==
    ASSUME NEW d \in Drains, NEW e, Unpaid(d, e)
    PROVE  Paid(d, e)
  BY DEF Unpaid, Paid, Drains

(* The foreground scheduler arms one of its callbacks.                      *)
LEMMA ForegroundArmed ==
    ASSUME NEW d \in Drains, NEW fast \in BOOLEAN
    PROVE  LET e == scheduleForeground(d, fast) IN
           /\ e \in Drains /\ Kept(d, e) /\ Unpaid(d, e) /\ e.microtasks >= d.microtasks
           /\ ~d.disposed => e.foreground \/ e.microtaskPending
<1> DEFINE e == scheduleForeground(d, fast)
<1>1. CASE d.foreground \/ d.microtaskPending \/ d.disposed
  <2>1. e = d
    BY <1>1 DEF scheduleForeground
  <2> HIDE DEF e
  <2>2. e \in Drains /\ Kept(d, e) /\ Unpaid(d, e) /\ e.microtasks >= d.microtasks
    BY <2>1 DEF Kept, Unpaid, Drains
  <2> QED BY <1>1, <2>1, <2>2 DEF e
<1>2. CASE e = [d EXCEPT !.microtaskPending = TRUE, !.microtasks = d.microtasks + 1]
  <2> HIDE DEF e
  <2>1. d.microtasks + 1 \in Nat
    BY DEF Drains
  <2>2. e \in Drains /\ e.microtasks = d.microtasks + 1 /\ e.microtaskPending
    BY <1>2, <2>1 DEF Drains
  <2>3. Kept(d, e) /\ Unpaid(d, e)
    BY <1>2 DEF Kept, Unpaid, Drains
  <2> QED BY <2>1, <2>2, <2>3 DEF e, Drains
<1>3. CASE e = [d EXCEPT !.foreground = TRUE]
  <2> HIDE DEF e
  <2>1. e \in Drains /\ Kept(d, e) /\ Unpaid(d, e) /\ e.foreground /\ e.microtasks = d.microtasks
    BY <1>3 DEF Kept, Unpaid, Drains
  <2> QED BY <2>1 DEF e, Drains
<1> QED BY <1>1, <1>2, <1>3 DEF scheduleForeground

(* The cadence of the background timer is a matter of its own.              *)
LEMMA Resolves ==
    ASSUME NEW d \in Drains
    PROVE  LET r == resolveBackgroundSchedule(d) IN
           r \in Drains /\ Kept(d, r) /\ Unpaid(d, r) /\ SameSchedule(d, r)
<1> DEFINE b == IF d.backgroundCatchUp THEN Len(d.queue) > LowLatencyBacklog
                                       ELSE Len(d.queue) >= StrainedBacklog
           r == [d EXCEPT !.backgroundCatchUp = b]
<1>1. resolveBackgroundSchedule(d) = r
  BY DEF resolveBackgroundSchedule
<1>2. b \in BOOLEAN
  <2>1. /\ (Len(d.queue) > LowLatencyBacklog) \in BOOLEAN
        /\ (Len(d.queue) >= StrainedBacklog) \in BOOLEAN
    OBVIOUS
  <2> QED BY <2>1, Zenon
<1> HIDE DEF b
<1>3. r \in Drains /\ Kept(d, r) /\ Unpaid(d, r) /\ SameSchedule(d, r)
  BY <1>2 DEF Drains, Kept, Unpaid, SameSchedule
<1> QED BY <1>1, <1>3

(* The background scheduler arms its timer.                                 *)
LEMMA BackgroundArmed ==
    ASSUME NEW d \in Drains
    PROVE  LET e == scheduleBackground(d) IN
           /\ e \in Drains /\ Kept(d, e) /\ Unpaid(d, e) /\ e.microtasks >= d.microtasks
           /\ ~d.disposed => e.backgroundTimer # "none"
<1> DEFINE e == scheduleBackground(d)
           r == resolveBackgroundSchedule(d)
           c == IF r.backgroundCatchUp THEN "catchup" ELSE "normal"
<1>1. r \in Drains /\ Kept(d, r) /\ Unpaid(d, r) /\ SameSchedule(d, r)
  BY Resolves
<1>2. e = r \/ e = [r EXCEPT !.backgroundTimer = c]
  BY DEF scheduleBackground
<1>3. e = r => d.disposed \/ d.backgroundTimer # "none" \/ r.backgroundTimer = c
  <2>1. CASE d.disposed \/ d.backgroundTimer # "none"
    BY <2>1
  <2>2. CASE ~d.disposed /\ d.backgroundTimer = "none"
    <3>1. e = [r EXCEPT !.backgroundTimer = c]
      BY <2>2 DEF scheduleBackground
    <3>2. e.backgroundTimer = c
      BY <1>1, <3>1 DEF Drains
    <3> QED BY <3>2
  <2> QED BY <2>1, <2>2
<1>4. c \in {"catchup", "normal"}
  OBVIOUS
<1> HIDE DEF e, r, c
<1>5. CASE e = r
  BY <1>1, <1>3, <1>4, <1>5 DEF SameSchedule, Drains, e
<1>6. CASE e = [r EXCEPT !.backgroundTimer = c]
  <2>1. /\ e \in Drains /\ Kept(r, e) /\ Unpaid(r, e)
        /\ e.microtasks = r.microtasks /\ e.backgroundTimer = c
    BY <1>1, <1>4, <1>6 DEF Drains, Kept, Unpaid
  <2>2. Kept(d, e) /\ Unpaid(d, e) /\ e.microtasks = d.microtasks
    BY <1>1, <2>1 DEF Kept, Unpaid, SameSchedule
  <2> QED BY <1>4, <2>1, <2>2 DEF e, Drains
<1> QED BY <1>2, <1>5, <1>6

(* schedule: output that may be drained now gets a callback; with an empty   *)
(* queue what is drawn is acknowledged.                                      *)
LEMMA Scheduled ==
    ASSUME NEW d, Covered(d), NEW fast \in BOOLEAN
    PROVE  LET e == schedule(d, fast) IN
           /\ e \in Drains /\ Kept(d, e) /\ Paid(d, e) /\ e.microtasks >= d.microtasks
           /\ AckArmed(d) => AckArmed(e)
           /\ (/\ ~d.disposed /\ ~d.writeInFlight /\ d.mode \in {"foreground", "background"})
                  => ~Unscheduled(e)
<1> DEFINE e == schedule(d, fast)
<1>0. d \in Drains
  BY DEF Covered
<1>1. CASE e = d /\ (d.disposed \/ d.writeInFlight \/ d.mode \in {"hibernating", "hibernated"})
  <2> HIDE DEF e
  <2>1. Kept(d, e) /\ Unpaid(d, e) /\ e.microtasks >= d.microtasks
    BY <1>0, <1>1 DEF Kept, Unpaid, Drains
  <2>2. Paid(d, e)
    BY <1>0, <2>1, UnpaidIsPaid
  <2>3. ~(/\ ~d.disposed /\ ~d.writeInFlight /\ d.mode \in {"foreground", "background"})
    BY <1>1
  <2>4. AckArmed(d) => AckArmed(e)
    BY <1>1
  <2> QED BY <1>0, <1>1, <2>1, <2>2, <2>3, <2>4 DEF e
<1>2. CASE ~d.disposed /\ d.queue = <<>> /\ e = flushPendingAck(d, TRUE)
  <2> HIDE DEF e
  <2>1. /\ e \in Drains /\ Kept(d, e) /\ SameSchedule(d, e) /\ Paid(d, e) /\ AckArmed(e)
    BY <1>2, FlushAck
  <2>2. e.queue = <<>>
    BY <1>2, <2>1 DEF Kept
  <2>3. e.microtasks >= d.microtasks
    BY <1>0, <2>1 DEF SameSchedule, Drains
  <2> QED BY <2>1, <2>2, <2>3 DEF e, Unscheduled
<1>3. ASSUME /\ e \in Drains /\ Kept(d, e) /\ Unpaid(d, e) /\ e.microtasks >= d.microtasks
             /\ e.foreground \/ e.microtaskPending \/ e.backgroundTimer # "none"
      PROVE  /\ e \in Drains /\ Kept(d, e) /\ Paid(d, e) /\ e.microtasks >= d.microtasks
             /\ AckArmed(d) => AckArmed(e)
             /\ ~Unscheduled(e)
  <2> HIDE DEF e
  <2>1. Paid(d, e)
    BY <1>0, <1>3, UnpaidIsPaid
  <2>2. AckArmed(d) => AckArmed(e)
    BY <1>3 DEF AckArmed, Unpaid, Kept
  <2> QED BY <1>3, <2>1, <2>2 DEF Unscheduled
<1>4. CASE ~d.disposed /\ e = scheduleBackground(d)
  <2>1. /\ e \in Drains /\ Kept(d, e) /\ Unpaid(d, e) /\ e.microtasks >= d.microtasks
        /\ e.backgroundTimer # "none"
    BY <1>0, <1>4, BackgroundArmed
  <2> HIDE DEF e
  <2> QED BY <1>3, <2>1 DEF e
<1>5. CASE ~d.disposed /\ e = scheduleForeground(d, fast)
  <2>1. /\ e \in Drains /\ Kept(d, e) /\ Unpaid(d, e) /\ e.microtasks >= d.microtasks
        /\ e.foreground \/ e.microtaskPending
    BY <1>0, <1>5, ForegroundArmed
  <2> HIDE DEF e
  <2> QED BY <1>3, <2>1 DEF e
<1> QED BY <1>1, <1>2, <1>4, <1>5 DEF schedule

-----------------------------------------------------------------------------
(* The books of the drain.                                                  *)

(* What the backend sent, less what it gets credit for: new output adds to  *)
(* it.  What was drawn: acknowledged or not.  What is owed and lost.        *)
Entered(d) == d.onAck + d.backendUnackedBytes
Painted(d) == d.onAck + d.pendingAckBytes
Held(d) == Len(d.queue) + d.writingBytes + d.pendingAckBytes
Lost(d) == d.backendUnackedBytes - Held(d)

(* Nothing enters, is drawn or gets lost; credit only grows.                *)
SameBooks(d, e) ==
    /\ Entered(e) = Entered(d) /\ Painted(e) = Painted(d) /\ Lost(e) = Lost(d)
    /\ e.onAck >= d.onAck

(* The drains the renderer is in: never credit for what is not drawn.       *)
Solvent(d) == d \in Drains /\ Lost(d) >= 0

LEMMA SolventCovered ==
    ASSUME NEW d, Solvent(d)
    PROVE  Covered(d)
<1>1. /\ d \in Drains /\ Len(d.queue) \in Nat /\ d.writingBytes \in Nat
      /\ d.pendingAckBytes \in Nat /\ d.backendUnackedBytes \in Nat
  BY LenProperties DEF Solvent, Drains
<1>2. Lost(d) >= 0
  BY DEF Solvent
<1> QED BY <1>1, <1>2 DEF Covered, Lost, Held

(* Acknowledging keeps the books.                                           *)
LEMMA PaidBooks ==
    ASSUME NEW d \in Drains, NEW e \in Drains, Kept(d, e), Paid(d, e)
    PROVE  SameBooks(d, e)
<1>1. PICK n \in 0 .. d.pendingAckBytes :
          /\ e.pendingAckBytes = d.pendingAckBytes - n
          /\ e.backendUnackedBytes = d.backendUnackedBytes - n
          /\ e.onAck = d.onAck + n
  BY DEF Paid
<1>2. /\ Len(d.queue) \in Nat /\ d.writingBytes \in Nat /\ d.pendingAckBytes \in Nat
      /\ d.backendUnackedBytes \in Nat /\ d.onAck \in Nat /\ n \in Nat
  BY LenProperties DEF Drains
<1>3. Len(e.queue) = Len(d.queue) /\ e.writingBytes = d.writingBytes
  BY DEF Kept
<1>4. Entered(e) = Entered(d) /\ Painted(e) = Painted(d) /\ e.onAck >= d.onAck
  BY <1>1, <1>2 DEF Entered, Painted
<1>5. Held(e) = Held(d) - n
  BY <1>1, <1>2, <1>3 DEF Held
<1>6. Lost(e) = Lost(d)
  <2>1. Held(d) \in Nat
    BY <1>2 DEF Held
  <2> QED BY <1>1, <1>2, <1>5, <2>1 DEF Lost
<1> QED BY <1>4, <1>6 DEF SameBooks

(* A link with this payload joins the chain of writes.                      *)
Wrote(d, e, data, then) ==
    /\ e.writeQueue = Append(d.writeQueue, [data |-> data, then |-> then])
    /\ e.writingBytes = d.writingBytes + Len(data)
    /\ e.writeInFlight
    /\ data \in Seq(Units) /\ data # <<>>

(* A scheduler has run on d: output that may be drained is being written or *)
(* has a callback.                                                          *)
Ran(d, e) ==
    /\ e \in Drains /\ (AckArmed(d) => AckArmed(e))
    /\ e.mode = d.mode /\ e.disposed = d.disposed
    /\ SameBooks(d, e)
    /\ \/ /\ Kept(d, e)
          /\ ~d.disposed /\ ~d.writeInFlight /\ d.mode \in {"foreground", "background"}
                => ~Unscheduled(e)
       \/ /\ ~d.disposed
          /\ \E data : Wrote(d, e, data, Scheduler)

LEMMA ScheduleRan ==
    ASSUME NEW d, Solvent(d), NEW fast \in BOOLEAN
    PROVE  Ran(d, schedule(d, fast))
<1> DEFINE e == schedule(d, fast)
<1>1. /\ e \in Drains /\ Kept(d, e) /\ Paid(d, e)
      /\ AckArmed(d) => AckArmed(e)
      /\ (/\ ~d.disposed /\ ~d.writeInFlight /\ d.mode \in {"foreground", "background"})
             => ~Unscheduled(e)
  BY SolventCovered, Scheduled
<1> HIDE DEF e
<1>2. SameBooks(d, e)
  BY <1>1, PaidBooks DEF Solvent
<1>3. e.mode = d.mode /\ e.disposed = d.disposed
  BY <1>1 DEF Kept
<1>4. Ran(d, e)
  BY <1>1, <1>2, <1>3 DEF Ran
<1> QED BY <1>4 DEF e

(* A chunk of the queue starts with its front, and is not empty unless the  *)
(* queue is.                                                                *)
LEMMA Dequeued ==
    ASSUME NEW d \in Drains, NEW max \in Nat \ {0}
    PROVE  LET p == dequeueOutputChunk(d, max) IN
           /\ p \in Seq(Units) /\ Len(p) \in 0 .. Len(d.queue)
           /\ p = <<>> <=> d.queue = <<>>
<1> DEFINE n == AtMost(max, Len(d.queue))
           p == SubSeq(d.queue, 1, n)
<1>1. d.queue \in Seq(Units) /\ Len(d.queue) \in Nat
  BY LenProperties DEF Drains
<1>2. n \in 0 .. Len(d.queue) /\ (n = 0 <=> Len(d.queue) = 0)
  BY <1>1 DEF AtMost
<1> HIDE DEF n
<1>3. p \in Seq(Units) /\ Len(p) = n
  BY <1>1, <1>2, SubSeqProperties
<1>4. dequeueOutputChunk(d, max) = p
  BY DEF dequeueOutputChunk, n
<1> HIDE DEF p
<1>5. (p = <<>> <=> Len(p) = 0) /\ (d.queue = <<>> <=> Len(d.queue) = 0)
  BY <1>1, <1>3, EmptySeq
<1> QED BY <1>2, <1>3, <1>4, <1>5

(* writePayload moves the front of the queue to the chain.                  *)
LEMMA PayloadMoves ==
    ASSUME NEW d \in Drains, NEW p \in Seq(Units), Len(p) \in 0 .. Len(d.queue), p # <<>>,
           NEW then \in Nat
    PROVE  LET e == writePayload(d, p, then) IN
           /\ e \in Drains /\ SameBooks(d, e) /\ Wrote(d, e, p, then) /\ SameSchedule(d, e)
           /\ e.mode = d.mode /\ e.disposed = d.disposed /\ (AckArmed(d) => AckArmed(e))
<1> DEFINE q == SubSeq(d.queue, Len(p) + 1, Len(d.queue))
           w == d.writingBytes + Len(p)
           c == Append(d.writeQueue, [data |-> p, then |-> then])
           e == [d EXCEPT !.queue = q, !.writingBytes = w, !.writeInFlight = TRUE, !.writeQueue = c]
<1>1. writePayload(d, p, then) = e
  BY DEF writePayload
<1>2. d.queue \in Seq(Units) /\ Len(d.queue) \in Nat /\ Len(p) \in Nat /\ d.writingBytes \in Nat
      /\ d.pendingAckBytes \in Nat /\ d.backendUnackedBytes \in Nat /\ d.onAck \in Nat
  BY LenProperties DEF Drains
<1>3. q \in Seq(Units) /\ Len(q) = Len(d.queue) - Len(p)
  BY <1>2, SubSeqProperties
<1>4. c \in Seq(Link)
  <2>1. [data |-> p, then |-> then] \in Link
    BY DEF Link
  <2>2. d.writeQueue \in Seq(Link)
    BY DEF Drains
  <2> QED BY <2>1, <2>2, AppendProperties
<1>5. w \in Nat
  BY <1>2
<1>6. w = d.writingBytes + Len(p) /\ c = Append(d.writeQueue, [data |-> p, then |-> then])
  OBVIOUS
<1> HIDE DEF q, w, c
<1>7. e \in Drains
  BY <1>3, <1>4, <1>5 DEF Drains
<1>8. /\ e.queue = q /\ e.writingBytes = w /\ e.writeInFlight /\ e.writeQueue = c
      /\ e.pendingAckBytes = d.pendingAckBytes /\ e.backendUnackedBytes = d.backendUnackedBytes
      /\ e.onAck = d.onAck /\ e.ackTimer = d.ackTimer
      /\ e.mode = d.mode /\ e.disposed = d.disposed /\ SameSchedule(d, e)
  BY DEF Drains, SameSchedule
<1> HIDE DEF e
<1>9. SameBooks(d, e)
  BY <1>2, <1>3, <1>6, <1>8 DEF SameBooks, Entered, Painted, Held, Lost
<1>10. Wrote(d, e, p, then)
  BY <1>6, <1>8 DEF Wrote
<1>11. AckArmed(d) => AckArmed(e)
  BY <1>8 DEF AckArmed
<1> QED BY <1>1, <1>7, <1>8, <1>9, <1>10, <1>11

(* flushOne and the two callbacks that call it.                             *)
LEMMA FlushOneRan ==
    ASSUME NEW d, Solvent(d), NEW max \in Nat \ {0}, NEW fast \in BOOLEAN
    PROVE  Ran(d, flushOne(d, max, fast))
<1> DEFINE e == flushOne(d, max, fast)
           p == dequeueOutputChunk(d, max)
<1>0. d \in Drains
  BY DEF Solvent
<1>1. CASE d.writeInFlight \/ d.disposed
  BY <1>1, ScheduleRan DEF flushOne
<1>2. CASE ~d.writeInFlight /\ ~d.disposed /\ p = <<>>
  <2>1. e = flushPendingAck(d, TRUE)
    BY <1>2 DEF flushOne
  <2> HIDE DEF e
  <2>2. e \in Drains /\ Kept(d, e) /\ Paid(d, e) /\ AckArmed(e)
    BY <2>1, SolventCovered, FlushAck
  <2>3. d.queue = <<>>
    BY <1>0, <1>2, Dequeued
  <2>4. SameBooks(d, e)
    BY <1>0, <2>2, PaidBooks
  <2>5. ~Unscheduled(e) /\ e.mode = d.mode /\ e.disposed = d.disposed
    BY <2>2, <2>3 DEF Kept, Unscheduled
  <2>6. Ran(d, e)
    BY <2>2, <2>4, <2>5 DEF Ran
  <2> QED BY <2>6 DEF e
<1>3. CASE ~d.writeInFlight /\ ~d.disposed /\ p # <<>>
  <2>1. e = writePayload(d, p, Scheduler)
    BY <1>3 DEF flushOne
  <2>2. p \in Seq(Units) /\ Len(p) \in 0 .. Len(d.queue)
    BY <1>0, Dequeued
  <2> HIDE DEF e, p
  <2>3. /\ e \in Drains /\ SameBooks(d, e) /\ Wrote(d, e, p, Scheduler)
        /\ e.mode = d.mode /\ e.disposed = d.disposed /\ (AckArmed(d) => AckArmed(e))
    BY <1>0, <1>3, <2>1, <2>2, PayloadMoves DEF Scheduler
  <2>4. Ran(d, e)
    BY <1>3, <2>3 DEF Ran
  <2> QED BY <2>4 DEF e
<1> QED BY <1>1, <1>2, <1>3

LEMMA ForegroundRan ==
    ASSUME NEW d, Solvent(d), NEW fast \in BOOLEAN
    PROVE  Ran(d, flushForeground(d, fast))
  BY ScheduleRan, FlushOneRan, DrainAssumption DEF flushForeground

LEMMA BackgroundRan ==
    ASSUME NEW d, Solvent(d), NEW fast \in BOOLEAN
    PROVE  Ran(d, flushBackground(d, fast))
<1>1. CASE d.mode # "background" \/ d.disposed
  BY <1>1, ScheduleRan DEF flushBackground
<1>2. CASE ~(d.mode # "background" \/ d.disposed)
  <2> DEFINE r == resolveBackgroundSchedule(d)
             m == IF r.backgroundCatchUp THEN CatchUpChunk ELSE BackgroundChunk
             e == flushOne(r, m, fast)
  <2>1. flushBackground(d, fast) = e
    BY <1>2 DEF flushBackground
  <2>2. r \in Drains /\ Kept(d, r) /\ Unpaid(d, r)
    BY Resolves DEF Solvent
  <2>3. m \in Nat \ {0}
    BY DrainAssumption
  <2> HIDE DEF r, m
  <2>4. SameBooks(d, r)
    BY <2>2, PaidBooks, UnpaidIsPaid DEF Solvent
  <2>5. Solvent(r)
    BY <2>2, <2>4 DEF Solvent, SameBooks
  <2>6. Ran(r, e)
    BY <2>3, <2>5, FlushOneRan
  <2> HIDE DEF e
  <2>7. AckArmed(d) => AckArmed(r)
    BY <2>2 DEF AckArmed, Unpaid, Kept
  <2>8. SameBooks(d, e)
    <3>1. d.onAck \in Nat /\ r.onAck \in Nat /\ e.onAck \in Nat
      BY <2>2, <2>6 DEF Solvent, Drains, Ran
    <3> QED BY <2>4, <2>6, <3>1 DEF SameBooks, Ran
  <2>9. Kept(r, e) => Kept(d, e)
    BY <2>2 DEF Kept
  <2>10. \A data : Wrote(r, e, data, Scheduler) => Wrote(d, e, data, Scheduler)
    BY <2>2 DEF Kept, Wrote
  <2>11. Ran(d, e)
    BY <2>2, <2>6, <2>7, <2>8, <2>9, <2>10 DEF Ran, Kept
  <2> QED BY <2>1, <2>11
<1> QED BY <1>1, <1>2

-----------------------------------------------------------------------------
(* Turns of the event loop that end in a scheduler.                         *)

SameChain(d, e) ==
    /\ e.writeQueue = d.writeQueue
    /\ e.writingBytes = d.writingBytes /\ e.writeInFlight = d.writeInFlight

(* The drain d became e, and took over "in" bytes.                          *)
Turn(d, e, in) ==
    /\ e \in Drains /\ (AckArmed(d) => AckArmed(e)) /\ e.disposed = d.disposed
    /\ Entered(e) = Entered(d) + in /\ Painted(e) = Painted(d) /\ Lost(e) = Lost(d)
    /\ e.onAck >= d.onAck
    /\ \/ /\ SameChain(d, e)
          /\ ~e.disposed /\ ~e.writeInFlight /\ e.mode \in {"foreground", "background"}
                => ~Unscheduled(e)
       \/ /\ ~d.disposed
          /\ \E data : Wrote(d, e, data, Scheduler)

(* f is d with other callbacks, another mode or a longer queue.             *)
Prepared(d, f, in) ==
    /\ f \in Drains /\ SameChain(d, f) /\ f.disposed = d.disposed
    /\ f.ackTimer = d.ackTimer /\ f.pendingAckBytes = d.pendingAckBytes /\ f.onAck = d.onAck
    /\ f.backendUnackedBytes = d.backendUnackedBytes + in
    /\ Len(f.queue) = Len(d.queue) + in

LEMMA PreparedSolvent ==
    ASSUME NEW d, Solvent(d), NEW in \in Nat, NEW f, Prepared(d, f, in)
    PROVE  /\ Solvent(f) /\ Lost(f) = Lost(d)
           /\ Entered(f) = Entered(d) + in /\ Painted(f) = Painted(d)
<1>1. /\ Len(d.queue) \in Nat /\ d.writingBytes \in Nat /\ d.pendingAckBytes \in Nat
      /\ d.backendUnackedBytes \in Nat /\ d.onAck \in Nat
  BY LenProperties DEF Solvent, Drains
<1>2. Held(f) = Held(d) + in /\ Held(d) \in Nat
  BY <1>1 DEF Held, Prepared, SameChain
<1>3. Lost(f) = Lost(d)
  BY <1>1, <1>2 DEF Lost, Prepared
<1>4. Entered(f) = Entered(d) + in /\ Painted(f) = Painted(d)
  BY <1>1 DEF Entered, Painted, Prepared
<1> QED BY <1>3, <1>4 DEF Solvent, Prepared

LEMMA TurnOf ==
    ASSUME NEW d, Solvent(d), NEW in \in Nat, NEW f, Prepared(d, f, in), NEW e, Ran(f, e)
    PROVE  Turn(d, e, in)
<1>1. /\ Solvent(f) /\ Lost(f) = Lost(d)
      /\ Entered(f) = Entered(d) + in /\ Painted(f) = Painted(d)
  BY PreparedSolvent
<1>2. SameBooks(f, e) /\ e \in Drains /\ e.disposed = d.disposed /\ e.mode = f.mode
  BY DEF Ran, Prepared
<1>3. Entered(e) = Entered(d) + in /\ Painted(e) = Painted(d) /\ Lost(e) = Lost(d)
  BY <1>1, <1>2 DEF SameBooks
<1>4. e.onAck >= d.onAck
  BY <1>2 DEF SameBooks, Prepared
<1>5. AckArmed(d) => AckArmed(e)
  BY DEF Ran, Prepared, AckArmed
<1>6. Kept(f, e) => SameChain(d, e)
  BY DEF Kept, SameChain, Prepared
<1>7. \A data : Wrote(f, e, data, Scheduler) => Wrote(d, e, data, Scheduler)
  BY DEF Wrote, Prepared, SameChain
<1>8. Kept(f, e) => f.writeInFlight = e.writeInFlight /\ f.disposed = e.disposed
  BY DEF Kept
<1> QED BY <1>2, <1>3, <1>4, <1>5, <1>6, <1>7, <1>8 DEF Turn, Ran, Prepared

(* Bytes arrive at the drain; with none it is left alone.                   *)
LEMMA EnqueueTurn ==
    ASSUME NEW d, Solvent(d), NEW data \in Seq(Units), NEW fast \in BOOLEAN, ~d.disposed
    PROVE  /\ data # <<>> => Turn(d, enqueue(d, data, fast), Len(data))
           /\ data = <<>> => enqueue(d, data, fast) = d
<1>1. data = <<>> => enqueue(d, data, fast) = d
  BY DEF enqueue
<1>2. ASSUME data # <<>> PROVE Turn(d, enqueue(d, data, fast), Len(data))
  <2> DEFINE q == d.queue \o data
             b == d.backendUnackedBytes + Len(data)
             f == [d EXCEPT !.queue = q, !.backendUnackedBytes = b]
  <2>0. d \in Drains
    BY DEF Solvent
  <2>1. enqueue(d, data, fast) = schedule(f, fast)
    BY <1>2 DEF enqueue
  <2>2. q \in Seq(Units) /\ Len(q) = Len(d.queue) + Len(data)
    BY <2>0, ConcatProperties DEF Drains
  <2>3. b \in Nat /\ Len(data) \in Nat
    BY <2>0, LenProperties DEF Drains
  <2>4. b = d.backendUnackedBytes + Len(data)
    OBVIOUS
  <2> HIDE DEF q, b
  <2>5. f \in Drains
    BY <2>0, <2>2, <2>3 DEF Drains
  <2>6. f.queue = q /\ f.backendUnackedBytes = b
    BY <2>0 DEF Drains
  <2>7. /\ SameChain(d, f) /\ f.disposed = d.disposed /\ f.ackTimer = d.ackTimer
        /\ f.pendingAckBytes = d.pendingAckBytes /\ f.onAck = d.onAck
    BY <2>0 DEF Drains, SameChain
  <2> HIDE DEF f
  <2>8. Prepared(d, f, Len(data))
    BY <2>2, <2>4, <2>5, <2>6, <2>7 DEF Prepared
  <2>9. Ran(f, schedule(f, fast))
    BY <2>3, <2>8, PreparedSolvent, ScheduleRan
  <2> QED BY <2>1, <2>3, <2>8, <2>9, TurnOf
<1> QED BY <1>1, <1>2

(* Callbacks are armed or cancelled, and the mode may change.               *)
LEMMA CallbacksPrepared ==
    ASSUME NEW d \in Drains, NEW f \in Drains, SameChain(d, f), f.disposed = d.disposed,
           f.queue = d.queue, Unpaid(d, f)
    PROVE  Prepared(d, f, 0)
<1>1. d.backendUnackedBytes \in Nat /\ Len(d.queue) \in Nat
  BY LenProperties DEF Drains
<1> QED BY <1>1 DEF Prepared, Unpaid

LEMMA SetModeTurn ==
    ASSUME NEW d, Solvent(d), NEW mode \in Modes, NEW fast \in BOOLEAN, ~d.disposed
    PROVE  Turn(d, setMode(d, mode, fast), 0)
<1>0. d \in Drains
  BY DEF Solvent
<1>1. PICK f \in Drains : /\ setMode(d, mode, fast) = schedule(f, fast)
                          /\ SameChain(d, f) /\ f.disposed = d.disposed
                          /\ f.queue = d.queue /\ Unpaid(d, f)
  <2>1. CASE d.mode = mode
    <3>1. setMode(d, mode, fast) = schedule(d, fast)
      BY <2>1 DEF setMode
    <3> QED BY <1>0, <3>1 DEF SameChain, Unpaid
  <2>2. CASE d.mode # mode
    <3> DEFINE entered == [d EXCEPT !.mode = mode]
               fg == IF mode # "foreground" THEN cancelForeground(entered) ELSE entered
               bg == IF mode # "background"
                     THEN [cancelBackground(fg) EXCEPT !.backgroundCatchUp = FALSE]
                     ELSE fg
    <3>1. setMode(d, mode, fast) = schedule(bg, fast)
      BY <2>2 DEF setMode
    <3>2. /\ entered \in Drains /\ SameChain(d, entered) /\ entered.disposed = d.disposed
          /\ entered.queue = d.queue /\ Unpaid(d, entered)
      BY <1>0 DEF Drains, SameChain, Unpaid
    <3> HIDE DEF entered
    <3>3. /\ fg \in Drains /\ SameChain(entered, fg) /\ fg.disposed = entered.disposed
          /\ fg.queue = entered.queue /\ Unpaid(entered, fg)
      BY <3>2 DEF Drains, SameChain, Unpaid, cancelForeground
    <3> HIDE DEF fg
    <3>4. /\ bg \in Drains /\ SameChain(fg, bg) /\ bg.disposed = fg.disposed
          /\ bg.queue = fg.queue /\ Unpaid(fg, bg)
      BY <3>3 DEF Drains, SameChain, Unpaid, cancelBackground
    <3> HIDE DEF bg
    <3>5. /\ SameChain(d, bg) /\ bg.disposed = d.disposed /\ bg.queue = d.queue /\ Unpaid(d, bg)
      BY <3>2, <3>3, <3>4 DEF SameChain, Unpaid
    <3> QED BY <3>1, <3>4, <3>5
  <2> QED BY <2>1, <2>2
<1>2. Prepared(d, f, 0)
  BY <1>0, <1>1, CallbacksPrepared
<1>3. Ran(f, schedule(f, fast))
  BY <1>2, PreparedSolvent, ScheduleRan
<1> QED BY <1>1, <1>2, <1>3, TurnOf

(* The callbacks fire.                                                      *)
LEMMA ForegroundTurn ==
    ASSUME NEW d, Solvent(d), NEW fast \in BOOLEAN
    PROVE  Turn(d, flushForeground([d EXCEPT !.foreground = FALSE], fast), 0)
<1> DEFINE f == [d EXCEPT !.foreground = FALSE]
<1>0. d \in Drains
  BY DEF Solvent
<1>1. f \in Drains /\ SameChain(d, f) /\ f.disposed = d.disposed /\ f.queue = d.queue /\ Unpaid(d, f)
  BY <1>0 DEF Drains, SameChain, Unpaid
<1> HIDE DEF f
<1>2. Prepared(d, f, 0)
  BY <1>0, <1>1, CallbacksPrepared
<1>3. Ran(f, flushForeground(f, fast))
  BY <1>2, PreparedSolvent, ForegroundRan
<1>4. Turn(d, flushForeground(f, fast), 0)
  BY <1>2, <1>3, TurnOf
<1> QED BY <1>4 DEF f

LEMMA MicrotaskTurn ==
    ASSUME NEW d, Solvent(d), NEW fast \in BOOLEAN, d.microtasks > 0
    PROVE  Turn(d, flushForeground([d EXCEPT !.microtasks = d.microtasks - 1,
                                             !.microtaskPending = FALSE], fast), 0)
<1> DEFINE m == d.microtasks - 1
           f == [d EXCEPT !.microtasks = m, !.microtaskPending = FALSE]
<1>0. d \in Drains /\ m \in Nat
  BY DEF Solvent, Drains
<1> HIDE DEF m
<1>1. f \in Drains /\ SameChain(d, f) /\ f.disposed = d.disposed /\ f.queue = d.queue /\ Unpaid(d, f)
  BY <1>0 DEF Drains, SameChain, Unpaid
<1> HIDE DEF f
<1>2. Prepared(d, f, 0)
  BY <1>0, <1>1, CallbacksPrepared
<1>3. Ran(f, flushForeground(f, fast))
  BY <1>2, PreparedSolvent, ForegroundRan
<1>4. Turn(d, flushForeground(f, fast), 0)
  BY <1>2, <1>3, TurnOf
<1> QED BY <1>4 DEF f, m

LEMMA BackgroundTurn ==
    ASSUME NEW d, Solvent(d), NEW fast \in BOOLEAN
    PROVE  Turn(d, flushBackground([d EXCEPT !.backgroundTimer = "none"], fast), 0)
<1> DEFINE f == [d EXCEPT !.backgroundTimer = "none"]
<1>0. d \in Drains
  BY DEF Solvent
<1>1. f \in Drains /\ SameChain(d, f) /\ f.disposed = d.disposed /\ f.queue = d.queue /\ Unpaid(d, f)
  BY <1>0 DEF Drains, SameChain, Unpaid
<1> HIDE DEF f
<1>2. Prepared(d, f, 0)
  BY <1>0, <1>1, CallbacksPrepared
<1>3. Ran(f, flushBackground(f, fast))
  BY <1>2, PreparedSolvent, BackgroundRan
<1>4. Turn(d, flushBackground(f, fast), 0)
  BY <1>2, <1>3, TurnOf
<1> QED BY <1>4 DEF f

-----------------------------------------------------------------------------
(* The chain of writes.                                                     *)

(* r[i]: the bytes of the chain's links from i on.                          *)
Sums(c, r) ==
    /\ r \in [1 .. Len(c) + 1 -> Nat] /\ r[Len(c) + 1] = 0
    /\ \A i \in 1 .. Len(c) : r[i] = Len(c[i].data) + r[i + 1]

Weighs(c, n) == \E r : Sums(c, r) /\ r[1] = n

(* Payloads that a wait has written know their wait, one each.              *)
Linked(c, ws) ==
    /\ \A i \in DOMAIN c : IsPayload(c[i]) /\ c[i].then # Scheduler =>
          c[i].then \in DOMAIN ws /\ ws[c[i].then].pc = "writing"
    /\ \A i, j \in DOMAIN c :
          (/\ IsPayload(c[i]) /\ IsPayload(c[j])
           /\ c[i].then # Scheduler /\ c[i].then = c[j].then) => i = j

Unlinked(c, w) == \A i \in DOMAIN c : IsPayload(c[i]) => c[i].then # w

(* A write in flight is in the chain.                                       *)
Flies(d) == d.writeInFlight => \E i \in DOMAIN d.writeQueue : IsPayload(d.writeQueue[i])

LEMMA EmptyWeighs == Weighs(<<>>, 0)
<1> DEFINE r == [i \in 1 .. 1 |-> 0]
<1>1. Sums(<<>>, r) /\ r[1] = 0
  BY DEF Sums
<1> QED BY <1>1 DEF Weighs

LEMMA DataHasLength ==
    ASSUME NEW c \in Seq(Link), NEW i \in 1 .. Len(c)
    PROVE  Len(c[i].data) \in Nat
<1>1. c[i] \in Link
  BY ElementOfSeq
<1>2. c[i].data \in Seq(Units)
  BY <1>1 DEF Link
<1> QED BY <1>2, LenProperties

LEMMA AppendWeighs ==
    ASSUME NEW c \in Seq(Link), NEW l \in Link, NEW n \in Nat, Weighs(c, n)
    PROVE  Weighs(Append(c, l), n + Len(l.data))
<1>1. PICK r : Sums(c, r) /\ r[1] = n
  BY DEF Weighs
<1> DEFINE k == Len(c)
           m == Len(l.data)
           a == Append(c, l)
           q == [i \in 1 .. k + 2 |-> IF i = k + 2 THEN 0 ELSE r[i] + m]
<1>2. k \in Nat /\ m \in Nat
  BY LenProperties DEF Link
<1>3. Len(a) = k + 1 /\ (\A i \in 1 .. k : a[i] = c[i]) /\ a[k + 1] = l
  BY AppendProperties
<1> HIDE DEF a
<1>4. r \in [1 .. k + 1 -> Nat] /\ r[k + 1] = 0 /\ \A i \in 1 .. k : r[i] = Len(c[i].data) + r[i + 1]
  BY <1>1 DEF Sums
<1>5. m = Len(l.data)
  OBVIOUS
<1> HIDE DEF k, m
<1>6. q \in [1 .. k + 2 -> Nat] /\ q[k + 2] = 0
  BY <1>2, <1>4
<1>7. ASSUME NEW i \in 1 .. k + 1 PROVE q[i] = Len(a[i].data) + q[i + 1]
  <2>1. CASE i = k + 1
    BY <1>2, <1>3, <1>4, <1>5, <2>1
  <2>2. CASE i # k + 1
    <3>1. i \in 1 .. k /\ i + 1 \in 1 .. k + 1
      BY <1>2, <2>2
    <3>2. r[i] = Len(a[i].data) + r[i + 1] /\ r[i] \in Nat /\ r[i + 1] \in Nat
      BY <1>3, <1>4, <3>1
    <3>3. q[i] = r[i] + m /\ q[i + 1] = r[i + 1] + m
      BY <1>2, <3>1
    <3>4. Len(c[i].data) \in Nat
      BY <3>1, DataHasLength DEF k
    <3>5. Len(a[i].data) \in Nat
      BY <1>3, <3>1, <3>4
    <3> QED BY <1>2, <3>2, <3>3, <3>5, SMTT(30)
  <2> QED BY <2>1, <2>2
<1>8. q[1] = n + m
  BY <1>1, <1>2
<1>9. Sums(a, q)
  <2>1. (k + 1) + 1 = k + 2
    BY <1>2
  <2> HIDE DEF q
  <2> QED BY <1>3, <1>6, <1>7, <2>1 DEF Sums
<1> QED BY <1>5, <1>8, <1>9 DEF Weighs, a

LEMMA TailWeighs ==
    ASSUME NEW c \in Seq(Link), c # <<>>, NEW n \in Nat, Weighs(c, n)
    PROVE  LET m == Len(Head(c).data) IN m \in Nat /\ m <= n /\ Weighs(Tail(c), n - m)
<1>1. PICK r : Sums(c, r) /\ r[1] = n
  BY DEF Weighs
<1> DEFINE k == Len(c)
           m == Len(Head(c).data)
           q == [i \in 1 .. k |-> r[i + 1]]
<1>2. k \in Nat /\ k >= 1
  BY EmptySeq, LenProperties
<1>3. /\ Tail(c) \in Seq(Link) /\ Len(Tail(c)) = k - 1
      /\ \A i \in 1 .. k - 1 : Tail(c)[i] = c[i + 1]
      /\ Head(c) = c[1]
  BY <1>2, HeadTailProperties
<1>4. r \in [1 .. k + 1 -> Nat] /\ r[k + 1] = 0 /\ \A i \in 1 .. k : r[i] = Len(c[i].data) + r[i + 1]
  BY <1>1 DEF Sums
<1>5. m \in Nat
  BY <1>2, <1>3, DataHasLength
<1>6. r[1] = m + r[2] /\ r[1] \in Nat /\ r[2] \in Nat
  BY <1>2, <1>3, <1>4
<1> HIDE DEF k, m
<1>7. q \in [1 .. k -> Nat] /\ q[k] = 0 /\ q[1] = r[2]
  BY <1>2, <1>4
<1>8. \A i \in 1 .. k - 1 : q[i] = Len(Tail(c)[i].data) + q[i + 1]
  BY <1>2, <1>3, <1>4
<1>9. (k - 1) + 1 = k
  BY <1>2
<1>10. Sums(Tail(c), q)
  BY <1>3, <1>7, <1>8, <1>9 DEF Sums
<1>11. r[2] = n - m /\ m <= n
  BY <1>1, <1>5, <1>6
<1> QED BY <1>5, <1>7, <1>10, <1>11 DEF Weighs, m

(* A link is added.                                                         *)
LEMMA LinkedAppend ==
    ASSUME NEW c \in Seq(Link), NEW ws, NEW l \in Link, Linked(c, ws),
           IsPayload(l) /\ l.then # Scheduler =>
              /\ l.then \in DOMAIN ws /\ ws[l.then].pc = "writing"
              /\ Unlinked(c, l.then)
    PROVE  Linked(Append(c, l), ws)
<1> DEFINE a == Append(c, l)
           k == Len(c)
<1>1. k \in Nat /\ DOMAIN c = 1 .. k
  BY LenProperties
<1>2. DOMAIN a = 1 .. k + 1 /\ (\A i \in 1 .. k : a[i] = c[i]) /\ a[k + 1] = l
  BY AppendProperties, LenProperties
<1> HIDE DEF a, k
<1>3. ASSUME NEW i \in DOMAIN a, IsPayload(a[i]), a[i].then # Scheduler
      PROVE  a[i].then \in DOMAIN ws /\ ws[a[i].then].pc = "writing"
  <2>1. CASE i \in 1 .. k
    BY <1>1, <1>2, <1>3, <2>1 DEF Linked
  <2>2. CASE i = k + 1
    BY <1>2, <1>3, <2>2
  <2> QED BY <1>1, <1>2, <2>1, <2>2
<1>4. ASSUME NEW i \in DOMAIN a, NEW j \in DOMAIN a, IsPayload(a[i]), IsPayload(a[j]),
             a[i].then # Scheduler, a[i].then = a[j].then
      PROVE  i = j
  <2>1. CASE i \in 1 .. k /\ j \in 1 .. k
    BY <1>1, <1>2, <1>4, <2>1 DEF Linked
  <2>2. CASE i = k + 1 /\ j \in 1 .. k
    BY <1>1, <1>2, <1>4, <2>2 DEF Unlinked
  <2>3. CASE j = k + 1 /\ i \in 1 .. k
    BY <1>1, <1>2, <1>4, <2>3 DEF Unlinked
  <2> QED BY <1>1, <1>2, <2>1, <2>2, <2>3
<1>5. Linked(a, ws)
  BY <1>3, <1>4 DEF Linked
<1> QED BY <1>5 DEF a

(* A link is taken off.                                                     *)
LEMMA LinkedTail ==
    ASSUME NEW c \in Seq(Link), c # <<>>, NEW ws, Linked(c, ws)
    PROVE  /\ Linked(Tail(c), ws)
           /\ IsPayload(Head(c)) /\ Head(c).then # Scheduler => Unlinked(Tail(c), Head(c).then)
<1> DEFINE t == Tail(c)
           k == Len(c)
<1>1. k \in Nat /\ k >= 1 /\ DOMAIN c = 1 .. k
  BY EmptySeq, LenProperties
<1>2. DOMAIN t = 1 .. k - 1 /\ (\A i \in 1 .. k - 1 : t[i] = c[i + 1]) /\ Head(c) = c[1]
  BY <1>1, HeadTailProperties, LenProperties
<1> HIDE DEF t, k
<1>3. \A i \in DOMAIN t : i + 1 \in DOMAIN c /\ t[i] = c[i + 1] /\ i + 1 # 1
  BY <1>1, <1>2
<1>4. \A i, j \in DOMAIN t : i + 1 = j + 1 => i = j
  BY <1>1, <1>2
<1>5. Linked(t, ws)
  <2>1. \A i \in DOMAIN t : IsPayload(t[i]) /\ t[i].then # Scheduler =>
           t[i].then \in DOMAIN ws /\ ws[t[i].then].pc = "writing"
    BY <1>3 DEF Linked
  <2>2. ASSUME NEW i \in DOMAIN t, NEW j \in DOMAIN t, IsPayload(t[i]), IsPayload(t[j]),
               t[i].then # Scheduler, t[i].then = t[j].then
        PROVE  i = j
    <3>1. i + 1 = j + 1
      BY <1>3, <2>2 DEF Linked
    <3> QED BY <1>4, <3>1
  <2> QED BY <2>1, <2>2 DEF Linked
<1>6. ASSUME IsPayload(Head(c)), Head(c).then # Scheduler PROVE Unlinked(t, Head(c).then)
  <2>1. ASSUME NEW i \in DOMAIN t, IsPayload(t[i]), t[i].then = Head(c).then PROVE FALSE
    <3>1. i + 1 = 1
      BY <1>1, <1>2, <1>3, <1>6, <2>1 DEF Linked
    <3> QED BY <1>3, <3>1
  <2> QED BY <2>1 DEF Unlinked
<1> QED BY <1>5, <1>6 DEF t

(* A wait that has no link changes its place; a wait begins.                *)
LEMMA LinkedWait ==
    ASSUME NEW c, NEW ws \in Seq(Waits), Linked(c, ws), NEW w \in DOMAIN ws, Unlinked(c, w),
           NEW pc \in {"writing", "polling", "idle", "timeout"}
    PROVE  LET v == [ws EXCEPT ![w].pc = pc] IN
           /\ Linked(c, v) /\ v \in Seq(Waits) /\ DOMAIN v = DOMAIN ws /\ v[w].pc = pc
<1> DEFINE x == [ws[w] EXCEPT !.pc = pc]
           v == [ws EXCEPT ![w] = x]
<1>1. [ws EXCEPT ![w].pc = pc] = v
  OBVIOUS
<1>2. ws[w] \in Waits /\ Len(ws) \in Nat /\ DOMAIN ws = 1 .. Len(ws)
  BY ElementOfSeq, LenProperties
<1>3. x \in Waits /\ x.pc = pc
  BY <1>2 DEF Waits
<1> HIDE DEF x
<1>4. v \in Seq(Waits) /\ DOMAIN v = DOMAIN ws /\ v[w] = x
  BY <1>2, <1>3, ExceptSeq
<1>5. \A u \in DOMAIN ws : u # w => v[u] = ws[u]
  OBVIOUS
<1> HIDE DEF v
<1>6. Linked(c, v)
  <2>1. \A i \in DOMAIN c : IsPayload(c[i]) /\ c[i].then # Scheduler =>
           c[i].then \in DOMAIN v /\ v[c[i].then].pc = "writing"
    BY <1>4, <1>5 DEF Linked, Unlinked
  <2> QED BY <2>1 DEF Linked
<1> QED BY <1>1, <1>3, <1>4, <1>6

-----------------------------------------------------------------------------
(* The drain and the waits together.                                        *)

(* d became e: so many bytes came in, were drawn and were refused.          *)
Advanced(d, e, in, drawn, refused) ==
    /\ e \in Drains /\ e.disposed = d.disposed /\ e.onAck >= d.onAck
    /\ Entered(e) = Entered(d) + in
    /\ Painted(e) = Painted(d) + drawn
    /\ Lost(e) = Lost(d) + refused

Sane(d, ws) ==
    /\ Solvent(d) /\ AckArmed(d) /\ Flies(d)
    /\ Weighs(d.writeQueue, d.writingBytes)
    /\ ws \in Seq(Waits) /\ Linked(d.writeQueue, ws)

(* A queue that may be drained is looked at again, unless it was abandoned. *)
Watched(d, ws, ab) ==
    ~d.disposed /\ d.queue # <<>> /\ d.mode \in {"foreground", "background"} =>
        \/ ~Unscheduled(d)
        \/ d.microtasks > 0
        \/ \E i \in DOMAIN d.writeQueue :
              IsPayload(d.writeQueue[i]) /\ d.writeQueue[i].then = Scheduler
        \/ \E w \in DOMAIN ws : ws[w].pc \in {"writing", "polling"}
        \/ ab

LEMMA BooksTyped ==
    ASSUME NEW d \in Drains
    PROVE  /\ Entered(d) \in Nat /\ Painted(d) \in Nat /\ Lost(d) \in Int /\ d.onAck \in Nat
<1>1. /\ Len(d.queue) \in Nat /\ d.writingBytes \in Nat /\ d.pendingAckBytes \in Nat
      /\ d.backendUnackedBytes \in Nat /\ d.onAck \in Nat
  BY LenProperties DEF Drains
<1>2. Held(d) \in Nat
  BY <1>1 DEF Held
<1> QED BY <1>1, <1>2 DEF Entered, Painted, Lost

LEMMA AdvancedTwice ==
    ASSUME NEW d \in Drains, NEW f \in Drains, NEW e \in Drains,
           NEW i1 \in Nat, NEW i2 \in Nat, NEW d1 \in Nat, NEW d2 \in Nat,
           NEW r1 \in Nat, NEW r2 \in Nat,
           Advanced(d, f, i1, d1, r1), Advanced(f, e, i2, d2, r2)
    PROVE  Advanced(d, e, i1 + i2, d1 + d2, r1 + r2)
  BY BooksTyped DEF Advanced

LEMMA BooksAdvanced ==
    ASSUME NEW d \in Drains, NEW e \in Drains, SameBooks(d, e), e.disposed = d.disposed
    PROVE  Advanced(d, e, 0, 0, 0)
  BY BooksTyped DEF Advanced, SameBooks

LEMMA AdvancedSolvent ==
    ASSUME NEW d, Solvent(d), NEW e, NEW in \in Nat, NEW drawn \in Nat, NEW refused \in Nat,
           Advanced(d, e, in, drawn, refused)
    PROVE  Solvent(e)
  BY BooksTyped DEF Advanced, Solvent

(* A payload joins the chain.                                               *)
LEMMA WroteSane ==
    ASSUME NEW d, NEW ws, Sane(d, ws), NEW e, Solvent(e), AckArmed(e),
           NEW data, NEW then \in Nat, Wrote(d, e, data, then),
           then # Scheduler =>
              then \in DOMAIN ws /\ ws[then].pc = "writing" /\ Unlinked(d.writeQueue, then)
    PROVE  /\ Sane(e, ws)
           /\ \E i \in DOMAIN e.writeQueue :
                 IsPayload(e.writeQueue[i]) /\ e.writeQueue[i].then = then
<1> DEFINE l == [data |-> data, then |-> then]
           c == d.writeQueue
           k == Len(c) + 1
<1>1. c \in Seq(Link) /\ d.writingBytes \in Nat
  BY DEF Sane, Solvent, Drains
<1>2. l \in Link /\ IsPayload(l) /\ l.then = then /\ l.data = data
  BY DEF Link, Wrote, IsPayload
<1>3. e.writeQueue = Append(c, l) /\ e.writingBytes = d.writingBytes + Len(l.data)
  BY <1>2 DEF Wrote
<1> HIDE DEF l
<1>4. Weighs(e.writeQueue, e.writingBytes)
  BY <1>1, <1>2, <1>3, AppendWeighs DEF Sane
<1>5. Linked(e.writeQueue, ws)
  BY <1>1, <1>2, <1>3, LinkedAppend DEF Sane
<1>6. k \in DOMAIN e.writeQueue /\ e.writeQueue[k] = l
  BY <1>1, <1>2, <1>3, AppendProperties, LenProperties
<1> HIDE DEF c, k
<1>7. Flies(e)
  BY <1>2, <1>6 DEF Flies
<1> QED BY <1>2, <1>4, <1>5, <1>6, <1>7 DEF Sane

(* A turn that ends in a scheduler.                                         *)
LEMMA TurnSane ==
    ASSUME NEW d, NEW ws, Sane(d, ws), NEW e, NEW in \in Nat, Turn(d, e, in)
    PROVE  /\ Sane(e, ws) /\ Advanced(d, e, in, 0, 0)
           /\ \A ab : Watched(e, ws, ab)
<1>1. d \in Drains /\ e \in Drains
  BY DEF Sane, Solvent, Turn
<1>2. Advanced(d, e, in, 0, 0)
  BY <1>1, BooksTyped DEF Advanced, Turn
<1>3. Solvent(e) /\ AckArmed(e)
  BY <1>2, AdvancedSolvent DEF Sane, Turn
<1>4. CASE /\ SameChain(d, e)
           /\ ~e.disposed /\ ~e.writeInFlight /\ e.mode \in {"foreground", "background"}
                 => ~Unscheduled(e)
  <2>1. Sane(e, ws)
    BY <1>3, <1>4 DEF Sane, SameChain, Flies
  <2>2. ASSUME NEW ab PROVE Watched(e, ws, ab)
    <3>1. CASE e.writeInFlight
      <4>1. PICK i \in DOMAIN e.writeQueue : IsPayload(e.writeQueue[i])
        BY <2>1, <3>1 DEF Sane, Flies
      <4>2. \/ e.writeQueue[i].then = Scheduler
            \/ \E w \in DOMAIN ws : ws[w].pc = "writing"
        BY <2>1, <4>1 DEF Sane, Linked
      <4> QED BY <4>1, <4>2 DEF Watched
    <3>2. CASE ~e.writeInFlight
      BY <1>4, <3>2 DEF Watched
    <3> QED BY <3>1, <3>2
  <2> QED BY <1>2, <2>1, <2>2
<1>5. CASE \E data : Wrote(d, e, data, Scheduler)
  <2>1. PICK data : Wrote(d, e, data, Scheduler)
    BY <1>5
  <2>2. Scheduler \in Nat
    BY DEF Scheduler
  <2>3. /\ Sane(e, ws)
        /\ \E i \in DOMAIN e.writeQueue :
              IsPayload(e.writeQueue[i]) /\ e.writeQueue[i].then = Scheduler
    BY <1>3, <2>1, <2>2, WroteSane
  <2> QED BY <1>2, <2>3 DEF Watched
<1> QED BY <1>4, <1>5 DEF Turn

(* Acknowledging what is drawn.                                             *)
LEMMA AckSane ==
    ASSUME NEW d, NEW ws, Sane(d, ws)
    PROVE  LET e == flushPendingAck(d, TRUE) IN
           /\ Sane(e, ws) /\ Advanced(d, e, 0, 0, 0) /\ Kept(d, e) /\ SameSchedule(d, e)
<1> DEFINE e == flushPendingAck(d, TRUE)
<1>1. e \in Drains /\ Kept(d, e) /\ SameSchedule(d, e) /\ Paid(d, e) /\ AckArmed(e)
  BY SolventCovered, FlushAck DEF Sane
<1> HIDE DEF e
<1>2. d \in Drains
  BY DEF Sane, Solvent
<1>3. Advanced(d, e, 0, 0, 0)
  BY <1>1, <1>2, PaidBooks, BooksAdvanced DEF Kept
<1>4. Sane(e, ws)
  BY <1>1, <1>3, AdvancedSolvent DEF Sane, Kept, Flies
<1> QED BY <1>1, <1>3, <1>4 DEF e

(* The chain gets a link without bytes.                                     *)
LEMMA ExternalSane ==
    ASSUME NEW d, NEW ws, Sane(d, ws), NEW text \in Nat
    PROVE  LET e == writeExternal(d, text) IN
           /\ Sane(e, ws) /\ Advanced(d, e, 0, 0, 0) /\ e.queue = d.queue
<1> DEFINE l == [data |-> <<>>, then |-> text]
           c == Append(d.writeQueue, l)
           e == [d EXCEPT !.writeQueue = c]
<1>1. writeExternal(d, text) = e
  BY DEF writeExternal
<1>2. d \in Drains /\ d.writeQueue \in Seq(Link) /\ d.writingBytes \in Nat
  BY DEF Sane, Solvent, Drains
<1>3. l \in Link /\ ~IsPayload(l) /\ l.data = <<>>
  BY EmptySeq DEF Link, IsPayload
<1> HIDE DEF l
<1>4. /\ c \in Seq(Link)
      /\ Len(c) = Len(d.writeQueue) + 1 /\ \A i \in 1 .. Len(d.writeQueue) : c[i] = d.writeQueue[i]
  BY <1>2, <1>3, AppendProperties
<1>5. Weighs(c, d.writingBytes)
  <2>1. Weighs(c, d.writingBytes + Len(l.data))
    BY <1>2, <1>3, AppendWeighs DEF Sane
  <2>2. d.writingBytes + Len(l.data) = d.writingBytes
    BY <1>2, <1>3, EmptySeq
  <2> QED BY <2>1, <2>2
<1>6. Linked(c, ws)
  BY <1>2, <1>3, LinkedAppend DEF Sane
<1>7. \A i \in DOMAIN d.writeQueue : i \in DOMAIN c /\ c[i] = d.writeQueue[i]
  BY <1>2, <1>4, LenProperties
<1> HIDE DEF c
<1>8. e \in Drains
  BY <1>2, <1>4 DEF Drains
<1>9. /\ e.writeQueue = c /\ e.queue = d.queue /\ e.writingBytes = d.writingBytes
      /\ e.disposed = d.disposed /\ e.writeInFlight = d.writeInFlight /\ Unpaid(d, e)
  BY <1>2 DEF Drains, Unpaid
<1> HIDE DEF e
<1>10. SameBooks(d, e)
  <2>1. d.onAck \in Nat
    BY <1>2 DEF Drains
  <2> QED BY <1>9, <2>1 DEF SameBooks, Unpaid, Entered, Painted, Held, Lost
<1>11. Advanced(d, e, 0, 0, 0)
  BY <1>2, <1>8, <1>9, <1>10, BooksAdvanced
<1>12. AckArmed(e) /\ Flies(e)
  BY <1>7, <1>9 DEF AckArmed, Flies, Unpaid, Sane
<1>13. Sane(e, ws)
  BY <1>5, <1>6, <1>9, <1>11, <1>12, AdvancedSolvent DEF Sane
<1> QED BY <1>1, <1>9, <1>11, <1>13

-----------------------------------------------------------------------------
(* waitForIdle.                                                             *)

(* Call w, which is writing nothing, settles.                               *)
LEMMA SettleSane ==
    ASSUME NEW d, NEW ws, Sane(d, ws), NEW w \in DOMAIN ws, Unlinked(d.writeQueue, w),
           NEW ok \in BOOLEAN
    PROVE  LET r == Settle(d, ws, w, ok) IN
           /\ Sane(r.drain, r.waits) /\ Advanced(d, r.drain, 0, 0, 0) /\ r.drain.queue = d.queue
           /\ r.waits \in Seq(Waits)
<1> DEFINE r == Settle(d, ws, w, ok)
           pc == IF ok THEN "idle" ELSE "timeout"
           v == [ws EXCEPT ![w].pc = pc]
<1>1. d \in Drains /\ ws \in Seq(Waits) /\ Linked(d.writeQueue, ws)
  BY DEF Sane, Solvent
<1>2. r.waits = v /\ r.drain = IF ws[w].notice THEN writeExternal(d, NoticeText(w)) ELSE d
  BY DEF Settle
<1>3. pc \in {"writing", "polling", "idle", "timeout"}
  OBVIOUS
<1> HIDE DEF pc, r
<1>4. v \in Seq(Waits) /\ Linked(d.writeQueue, v)
  BY <1>1, <1>3, LinkedWait
<1> HIDE DEF v
<1>5. Sane(d, v)
  BY <1>4 DEF Sane
<1>6. NoticeText(w) \in Nat
  BY <1>1, LenProperties DEF NoticeText
<1>7. Advanced(d, d, 0, 0, 0)
  BY <1>1, BooksTyped DEF Advanced
<1>8. Sane(r.drain, v) /\ Advanced(d, r.drain, 0, 0, 0) /\ r.drain.queue = d.queue
  BY <1>2, <1>5, <1>6, <1>7, ExternalSane
<1> QED BY <1>2, <1>4, <1>8 DEF r

(* Call w, which is writing nothing, polls.                                 *)
LEMMA PollSane ==
    ASSUME NEW d, NEW ws, Sane(d, ws), NEW w \in DOMAIN ws, Unlinked(d.writeQueue, w)
    PROVE  LET r == Poll(d, ws, w) IN
           /\ Sane(r.drain, r.waits) /\ Advanced(d, r.drain, 0, 0, 0)
           /\ \A ab : Watched(r.drain, r.waits, ab)
<1> DEFINE r == Poll(d, ws, w)
<1>1. /\ d \in Drains /\ ws \in Seq(Waits) /\ Linked(d.writeQueue, ws) /\ AckArmed(d)
  BY DEF Sane, Solvent
<1>2. w \in Nat /\ w # Scheduler
  BY <1>1, LenProperties DEF Scheduler
<1>3. CASE d.queue # <<>>
  <2> DEFINE p == dequeueOutputChunk(d, WriteChunk)
             e == writePayload(d, p, w)
             v == [ws EXCEPT ![w].pc = "writing"]
  <2>1. r.drain = e /\ r.waits = v
    BY <1>3 DEF Poll
  <2>2. p \in Seq(Units) /\ Len(p) \in 0 .. Len(d.queue) /\ p # <<>>
    BY <1>1, <1>3, Dequeued, DrainAssumption
  <2> HIDE DEF p, r
  <2>3. /\ e \in Drains /\ SameBooks(d, e) /\ Wrote(d, e, p, w) /\ e.disposed = d.disposed
        /\ AckArmed(d) => AckArmed(e)
    BY <1>1, <1>2, <2>2, PayloadMoves
  <2>4. /\ Linked(d.writeQueue, v) /\ v \in Seq(Waits) /\ DOMAIN v = DOMAIN ws
        /\ v[w].pc = "writing"
    BY <1>1, LinkedWait
  <2> HIDE DEF e, v
  <2>5. Sane(d, v)
    BY <2>4 DEF Sane
  <2>6. Advanced(d, e, 0, 0, 0)
    BY <1>1, <2>3, BooksAdvanced
  <2>7. Solvent(e) /\ AckArmed(e)
    BY <1>1, <2>3, <2>6, AdvancedSolvent DEF Sane
  <2>8. Sane(e, v)
    BY <1>2, <2>3, <2>4, <2>5, <2>7, WroteSane
  <2>9. \A ab : Watched(e, v, ab)
    BY <2>4 DEF Watched
  <2> QED BY <2>1, <2>6, <2>8, <2>9 DEF r
<1>4. CASE d.queue = <<>> /\ (d.writeInFlight \/ d.writingBytes > 0)
  <2> DEFINE v == [ws EXCEPT ![w].pc = "polling"]
  <2>1. r.drain = d /\ r.waits = v
    BY <1>4 DEF Poll
  <2>2. v \in Seq(Waits) /\ Linked(d.writeQueue, v)
    BY <1>1, LinkedWait
  <2> HIDE DEF v, r
  <2>3. Sane(d, v) /\ Advanced(d, d, 0, 0, 0)
    BY <1>1, <2>2, BooksTyped DEF Sane, Advanced
  <2>4. \A ab : Watched(d, v, ab)
    BY <1>4 DEF Watched
  <2> QED BY <2>1, <2>3, <2>4 DEF r
<1>5. CASE d.queue = <<>> /\ ~(d.writeInFlight \/ d.writingBytes > 0)
  <2> DEFINE e == flushPendingAck(d, TRUE)
  <2>1. r = Settle(e, ws, w, TRUE)
    BY <1>5 DEF Poll
  <2>2. Sane(e, ws) /\ Advanced(d, e, 0, 0, 0) /\ Kept(d, e)
    BY AckSane
  <2> HIDE DEF e, r
  <2>3. Unlinked(e.writeQueue, w) /\ e.queue = <<>>
    BY <1>5, <2>2 DEF Kept
  <2>4. /\ Sane(r.drain, r.waits) /\ Advanced(e, r.drain, 0, 0, 0) /\ r.drain.queue = <<>>
    BY <2>1, <2>2, <2>3, SettleSane
  <2>5. e \in Drains /\ r.drain \in Drains
    BY <2>2, <2>4 DEF Advanced
  <2>6. Advanced(d, r.drain, 0, 0, 0)
    <3>1. 0 \in Nat /\ 0 + 0 = 0
      OBVIOUS
    <3>2. Advanced(d, r.drain, 0 + 0, 0 + 0, 0 + 0)
      BY <1>1, <2>2, <2>4, <2>5, <3>1, AdvancedTwice
    <3> QED BY <3>1, <3>2
  <2>7. \A ab : Watched(r.drain, r.waits, ab)
    BY <2>4 DEF Watched
  <2> QED BY <2>4, <2>6, <2>7 DEF r
<1> QED BY <1>3, <1>4, <1>5

-----------------------------------------------------------------------------
(* xterm answers for the head of the chain.                                 *)

(* The head of the chain is gone.                                           *)
Answered(d, e, ws, drawn, refused) ==
    /\ Sane(e, ws) /\ Advanced(d, e, 0, drawn, refused)
    /\ e.writeQueue = Tail(d.writeQueue) /\ ~e.writeInFlight
    /\ e.mode = d.mode /\ e.queue = d.queue

(* What the chain loses with its head.                                      *)
LEMMA HeadAnswered ==
    ASSUME NEW d, NEW ws, Sane(d, ws), d.writeQueue # <<>>
    PROVE  LET n == Len(Head(d.writeQueue).data) IN
           /\ n \in Nat /\ n <= d.writingBytes
           /\ Minus(d.writingBytes, n) = d.writingBytes - n
           /\ Tail(d.writeQueue) \in Seq(Link)
           /\ Weighs(Tail(d.writeQueue), d.writingBytes - n) /\ Linked(Tail(d.writeQueue), ws)
<1> DEFINE n == Len(Head(d.writeQueue).data)
<1>1. d.writeQueue \in Seq(Link) /\ d.writingBytes \in Nat
  BY DEF Sane, Solvent, Drains
<1>2. n \in Nat /\ n <= d.writingBytes /\ Weighs(Tail(d.writeQueue), d.writingBytes - n)
  BY <1>1, TailWeighs DEF Sane
<1>3. Minus(d.writingBytes, n) = d.writingBytes - n
  BY <1>2 DEF Minus
<1>4. Tail(d.writeQueue) \in Seq(Link)
  BY <1>1, HeadTailProperties
<1>5. Linked(Tail(d.writeQueue), ws)
  BY <1>1, LinkedTail DEF Sane
<1> QED BY <1>2, <1>3, <1>4, <1>5

LEMMA CallbackAnswers ==
    ASSUME NEW d, NEW ws, Sane(d, ws), d.writeQueue # <<>>
    PROVE  Answered(d, writeCallback(d), ws, Len(Head(d.writeQueue).data), 0)
<1> DEFINE n == Len(Head(d.writeQueue).data)
           c == Tail(d.writeQueue)
           m == d.writingBytes - n
           p == d.pendingAckBytes + n
           f == [d EXCEPT !.writeQueue = c, !.writingBytes = m, !.pendingAckBytes = p,
                          !.writeInFlight = FALSE]
           b == (d.queue = <<>>)
           e == flushPendingAck(f, b)
<1>1. /\ n \in Nat /\ n <= d.writingBytes /\ Minus(d.writingBytes, n) = m
      /\ c \in Seq(Link) /\ Weighs(c, m) /\ Linked(c, ws)
  BY HeadAnswered
<1>2. writeCallback(d) = e
  BY <1>1 DEF writeCallback
<1>3. /\ d \in Drains /\ d.writingBytes \in Nat /\ d.pendingAckBytes \in Nat
      /\ d.backendUnackedBytes \in Nat /\ d.onAck \in Nat /\ Len(d.queue) \in Nat
  BY LenProperties DEF Sane, Solvent, Drains
<1> HIDE DEF n, c
<1>4. m \in Nat /\ p \in Nat /\ m = d.writingBytes - n /\ p = d.pendingAckBytes + n
  BY <1>1, <1>3
<1> HIDE DEF m, p
<1>5. f \in Drains
  BY <1>1, <1>3, <1>4 DEF Drains
<1>6. /\ f.writeQueue = c /\ f.writingBytes = m /\ f.pendingAckBytes = p /\ ~f.writeInFlight
      /\ f.queue = d.queue /\ f.mode = d.mode /\ f.disposed = d.disposed
      /\ f.backendUnackedBytes = d.backendUnackedBytes /\ f.onAck = d.onAck
  BY <1>3 DEF Drains
<1> HIDE DEF f
<1>7. Held(f) = Held(d) /\ Held(d) \in Nat
  <2>1. Held(f) = Len(d.queue) + m + p
    BY <1>6 DEF Held
  <2>2. Held(d) = Len(d.queue) + d.writingBytes + d.pendingAckBytes
    BY DEF Held
  <2>3. /\ n \in Nat /\ d.writingBytes \in Nat /\ d.pendingAckBytes \in Nat
        /\ Len(d.queue) \in Nat
    BY <1>1, <1>3
  <2>4. m + p = d.writingBytes + d.pendingAckBytes /\ m \in Nat /\ p \in Nat
    BY <1>4, <2>3
  <2>5. Held(f) = Len(d.queue) + (m + p)
    <3>1. \A x, y, z \in Nat : x + y + z = x + (y + z)
      OBVIOUS
    <3>2. Len(d.queue) \in Nat /\ m \in Nat /\ p \in Nat
      BY <2>3, <2>4
    <3> QED BY <2>1, <3>1, <3>2, Zenon
  <2>6. Held(d) = Len(d.queue) + (d.writingBytes + d.pendingAckBytes) /\ Held(d) \in Nat
    BY <2>2, <2>3
  <2> QED BY <2>4, <2>5, <2>6
<1>8. Lost(f) = Lost(d) /\ Entered(f) = Entered(d) /\ Painted(f) = Painted(d) + n
  BY <1>1, <1>3, <1>4, <1>6, <1>7 DEF Lost, Entered, Painted
<1>9. Advanced(d, f, 0, n, 0)
  BY <1>1, <1>3, <1>5, <1>6, <1>8, BooksTyped DEF Advanced
<1>10. Solvent(f)
  BY <1>1, <1>9, AdvancedSolvent DEF Sane
<1>11. b \in BOOLEAN
  BY Zenon
<1> HIDE DEF b
<1>12. e \in Drains /\ Kept(f, e) /\ Paid(f, e) /\ AckArmed(e)
  BY <1>10, <1>11, SolventCovered, FlushAck
<1> HIDE DEF e
<1>13. Advanced(f, e, 0, 0, 0)
  BY <1>5, <1>12, PaidBooks, BooksAdvanced DEF Kept
<1>14. Advanced(d, e, 0, n, 0)
  <2>1. 0 \in Nat /\ 0 + 0 = 0 /\ n + 0 = n
    BY <1>1
  <2>2. Advanced(d, e, 0 + 0, n + 0, 0 + 0)
    BY <1>1, <1>3, <1>5, <1>9, <1>12, <1>13, <2>1, AdvancedTwice
  <2> QED BY <2>1, <2>2
<1>15. Solvent(e)
  BY <1>10, <1>13, AdvancedSolvent
<1>16. e.writeQueue = c /\ e.writingBytes = m /\ ~e.writeInFlight /\ e.mode = d.mode
       /\ e.queue = d.queue
  BY <1>6, <1>12 DEF Kept
<1>17. Sane(e, ws)
  BY <1>1, <1>12, <1>15, <1>16 DEF Sane, Flies
<1>18. Answered(d, e, ws, n, 0)
  BY <1>14, <1>16, <1>17 DEF Answered, c
<1> QED BY <1>2, <1>18 DEF n

LEMMA ErrorAnswers ==
    ASSUME NEW d, NEW ws, Sane(d, ws), d.writeQueue # <<>>
    PROVE  Answered(d, writeError(d), ws, 0, Len(Head(d.writeQueue).data))
<1> DEFINE n == Len(Head(d.writeQueue).data)
           c == Tail(d.writeQueue)
           m == d.writingBytes - n
           e == [d EXCEPT !.writeQueue = c, !.writingBytes = m, !.writeInFlight = FALSE]
<1>1. /\ n \in Nat /\ n <= d.writingBytes /\ Minus(d.writingBytes, n) = m
      /\ c \in Seq(Link) /\ Weighs(c, m) /\ Linked(c, ws)
  BY HeadAnswered
<1>2. writeError(d) = e
  BY <1>1 DEF writeError
<1>3. /\ d \in Drains /\ d.writingBytes \in Nat /\ d.pendingAckBytes \in Nat
      /\ d.backendUnackedBytes \in Nat /\ d.onAck \in Nat /\ Len(d.queue) \in Nat
  BY LenProperties DEF Sane, Solvent, Drains
<1> HIDE DEF n, c
<1>4. m \in Nat /\ m = d.writingBytes - n
  BY <1>1, <1>3
<1> HIDE DEF m
<1>5. e \in Drains
  BY <1>1, <1>3, <1>4 DEF Drains
<1>6. /\ e.writeQueue = c /\ e.writingBytes = m /\ ~e.writeInFlight
      /\ e.queue = d.queue /\ e.mode = d.mode /\ e.disposed = d.disposed /\ Unpaid(d, e)
  BY <1>3 DEF Drains, Unpaid
<1> HIDE DEF e
<1>7. Held(e) = Held(d) - n /\ Held(d) \in Nat
  <2>1. Held(e) = Len(d.queue) + m + d.pendingAckBytes
    BY <1>6 DEF Held, Unpaid
  <2>2. Held(d) = Len(d.queue) + d.writingBytes + d.pendingAckBytes
    BY DEF Held
  <2>3. /\ n \in Nat /\ d.writingBytes \in Nat /\ d.pendingAckBytes \in Nat
        /\ Len(d.queue) \in Nat
    BY <1>1, <1>3
  <2>4. PICK a, b, p \in Nat :
            a = Len(d.queue) /\ b = d.writingBytes /\ p = d.pendingAckBytes
    BY <2>3, Zenon
  <2>5. n \in Nat /\ m = b - n /\ Held(e) = a + m + p /\ Held(d) = a + b + p
    BY <1>4, <2>1, <2>2, <2>3, <2>4, Zenon
  <2> QED BY <2>5
<1>8. Lost(e) = Lost(d) + n /\ Entered(e) = Entered(d) /\ Painted(e) = Painted(d)
  BY <1>1, <1>3, <1>6, <1>7 DEF Lost, Entered, Painted, Unpaid
<1>9. Advanced(d, e, 0, 0, n)
  BY <1>1, <1>3, <1>5, <1>6, <1>8, BooksTyped DEF Advanced, Unpaid
<1>10. Solvent(e)
  BY <1>1, <1>9, AdvancedSolvent DEF Sane
<1>11. AckArmed(e)
  BY <1>6 DEF AckArmed, Unpaid, Sane
<1>12. Sane(e, ws)
  BY <1>1, <1>6, <1>10, <1>11 DEF Sane, Flies
<1>13. Answered(d, e, ws, 0, n)
  BY <1>6, <1>9, <1>12 DEF Answered, c
<1> QED BY <1>2, <1>13 DEF n

(* A notice leaves the chain.                                               *)
LEMMA NoticeGone ==
    ASSUME NEW d, NEW ws, Sane(d, ws), d.writeQueue # <<>>, ~IsPayload(Head(d.writeQueue))
    PROVE  LET e == [d EXCEPT !.writeQueue = Tail(d.writeQueue)] IN
           /\ Sane(e, ws) /\ Advanced(d, e, 0, 0, 0)
           /\ \A ab : Watched(d, ws, ab) => Watched(e, ws, ab)
<1> DEFINE n == Len(Head(d.writeQueue).data)
           c == Tail(d.writeQueue)
           e == [d EXCEPT !.writeQueue = c]
<1>1. /\ n \in Nat /\ c \in Seq(Link) /\ Weighs(c, d.writingBytes - n) /\ Linked(c, ws)
  BY HeadAnswered
<1>2. n = 0
  BY EmptySeq DEF IsPayload
<1>3. d \in Drains /\ d.writeQueue \in Seq(Link) /\ d.writingBytes \in Nat
  BY DEF Sane, Solvent, Drains
<1> HIDE DEF n
<1>4. Weighs(c, d.writingBytes)
  <2>1. d.writingBytes - n = d.writingBytes
    BY <1>2, <1>3
  <2> QED BY <1>1, <2>1
<1>5. ASSUME NEW i \in DOMAIN d.writeQueue, IsPayload(d.writeQueue[i])
      PROVE  \E j \in DOMAIN c : c[j] = d.writeQueue[i]
  <2>1. /\ DOMAIN d.writeQueue = 1 .. Len(d.writeQueue) /\ Len(d.writeQueue) \in Nat
        /\ Head(d.writeQueue) = d.writeQueue[1]
        /\ DOMAIN c = 1 .. Len(d.writeQueue) - 1
        /\ \A j \in 1 .. Len(d.writeQueue) - 1 : c[j] = d.writeQueue[j + 1]
    BY <1>3, HeadTailProperties, LenProperties
  <2>2. i # 1
    BY <1>5, <2>1
  <2> HIDE DEF c
  <2>3. i - 1 \in DOMAIN c /\ (i - 1) + 1 = i
    BY <2>1, <2>2
  <2>4. c[i - 1] = d.writeQueue[i]
    BY <2>1, <2>3
  <2> QED BY <2>3, <2>4
<1>6. c \in Seq(Link)
  BY <1>1
<1> HIDE DEF c
<1>7. e \in Drains
  BY <1>3, <1>6 DEF Drains
<1>8. /\ e.writeQueue = c /\ e.queue = d.queue /\ e.writingBytes = d.writingBytes
      /\ e.disposed = d.disposed /\ e.writeInFlight = d.writeInFlight /\ Unpaid(d, e)
      /\ e.mode = d.mode /\ SameSchedule(d, e)
  BY <1>3 DEF Drains, Unpaid, SameSchedule
<1> HIDE DEF e
<1>9. SameBooks(d, e)
  <2>1. d.onAck \in Nat
    BY <1>3 DEF Drains
  <2> QED BY <1>8, <2>1 DEF SameBooks, Unpaid, Entered, Painted, Held, Lost
<1>10. Advanced(d, e, 0, 0, 0)
  BY <1>3, <1>7, <1>8, <1>9, BooksAdvanced
<1>11. AckArmed(e)
  BY <1>8 DEF AckArmed, Unpaid, Sane
<1>12. Flies(e)
  BY <1>5, <1>8 DEF Flies, Sane
<1>13. Sane(e, ws)
  BY <1>1, <1>4, <1>8, <1>10, <1>11, <1>12, AdvancedSolvent DEF Sane
<1>14. ASSUME NEW ab, Watched(d, ws, ab) PROVE Watched(e, ws, ab)
  <2>1. Unscheduled(e) <=> Unscheduled(d)
    BY <1>8 DEF Unscheduled, SameSchedule
  <2>2. ASSUME NEW i \in DOMAIN d.writeQueue, IsPayload(d.writeQueue[i]),
               d.writeQueue[i].then = Scheduler
        PROVE  \E j \in DOMAIN e.writeQueue :
                  IsPayload(e.writeQueue[j]) /\ e.writeQueue[j].then = Scheduler
    BY <1>5, <1>8, <2>2
  <2> QED BY <1>8, <1>14, <2>1, <2>2 DEF Watched, SameSchedule
<1> QED BY <1>10, <1>13, <1>14 DEF e, c

(* The acknowledgement timer fires.                                         *)
LEMMA AckTimerSane ==
    ASSUME NEW d, NEW ws, Sane(d, ws)
    PROVE  LET e == flushPendingAck([d EXCEPT !.ackTimer = FALSE], TRUE) IN
           /\ Sane(e, ws) /\ Advanced(d, e, 0, 0, 0)
           /\ \A ab : Watched(d, ws, ab) => Watched(e, ws, ab)
<1> DEFINE f == [d EXCEPT !.ackTimer = FALSE]
           e == flushPendingAck(f, TRUE)
<1>1. d \in Drains
  BY DEF Sane, Solvent
<1>2. /\ f \in Drains /\ Kept(d, f) /\ SameSchedule(d, f)
      /\ f.pendingAckBytes = d.pendingAckBytes /\ f.onAck = d.onAck
      /\ f.backendUnackedBytes = d.backendUnackedBytes
  BY <1>1 DEF Drains, Kept, SameSchedule
<1> HIDE DEF f
<1>3. SameBooks(d, f)
  <2>1. d.onAck \in Nat
    BY <1>1 DEF Drains
  <2> QED BY <1>2, <2>1 DEF SameBooks, Entered, Painted, Held, Lost, Kept
<1>4. Solvent(f)
  BY <1>2, <1>3 DEF Solvent, SameBooks, Sane
<1>5. e \in Drains /\ Kept(f, e) /\ SameSchedule(f, e) /\ Paid(f, e) /\ AckArmed(e)
  BY <1>4, SolventCovered, FlushAck
<1> HIDE DEF e
<1>6. Kept(d, e) /\ SameSchedule(d, e)
  BY <1>2, <1>5 DEF Kept, SameSchedule
<1>7. SameBooks(d, e)
  <2>1. SameBooks(f, e)
    BY <1>2, <1>5, PaidBooks
  <2>2. d.onAck \in Nat /\ f.onAck \in Nat /\ e.onAck \in Nat
    BY <1>1, <1>2, <1>5 DEF Drains
  <2> QED BY <1>3, <2>1, <2>2 DEF SameBooks
<1>8. Advanced(d, e, 0, 0, 0)
  BY <1>1, <1>5, <1>6, <1>7, BooksAdvanced DEF Kept
<1>9. Sane(e, ws)
  BY <1>5, <1>6, <1>8, AdvancedSolvent DEF Sane, Kept, Flies
<1>10. ASSUME NEW ab, Watched(d, ws, ab) PROVE Watched(e, ws, ab)
  <2>1. Unscheduled(e) <=> Unscheduled(d)
    BY <1>6 DEF Unscheduled, SameSchedule, Kept
  <2> QED BY <1>6, <1>10, <2>1 DEF Watched, SameSchedule, Kept
<1> QED BY <1>8, <1>9, <1>10 DEF e, f

(* waitForIdle cancels the schedulers and begins a wait.                    *)
LEMMA WaitBegins ==
    ASSUME NEW d, NEW ws, Sane(d, ws), NEW x \in Waits
    PROVE  LET e == cancelBackground(cancelForeground(d))
               v == Append(ws, x)
           IN  /\ Sane(e, v) /\ Advanced(d, e, 0, 0, 0)
               /\ Len(v) \in DOMAIN v /\ Unlinked(e.writeQueue, Len(v))
<1> DEFINE f == cancelForeground(d)
           e == cancelBackground(f)
           v == Append(ws, x)
<1>1. d \in Drains /\ ws \in Seq(Waits) /\ d.writeQueue \in Seq(Link)
  BY DEF Sane, Solvent, Drains
<1>2. f \in Drains /\ Kept(d, f) /\ Unpaid(d, f)
  BY <1>1 DEF Drains, Kept, Unpaid, cancelForeground
<1> HIDE DEF f
<1>3. e \in Drains /\ Kept(f, e) /\ Unpaid(f, e)
  BY <1>2 DEF Drains, Kept, Unpaid, cancelBackground
<1> HIDE DEF e
<1>4. Kept(d, e) /\ Unpaid(d, e)
  BY <1>2, <1>3 DEF Kept, Unpaid
<1>5. Advanced(d, e, 0, 0, 0)
  BY <1>1, <1>3, <1>4, UnpaidIsPaid, PaidBooks, BooksAdvanced DEF Kept
<1>6. /\ v \in Seq(Waits) /\ Len(v) = Len(ws) + 1 /\ Len(ws) \in Nat
      /\ DOMAIN ws = 1 .. Len(ws) /\ DOMAIN v = 1 .. Len(v)
      /\ \A w \in 1 .. Len(ws) : v[w] = ws[w]
  BY <1>1, AppendProperties, LenProperties
<1> HIDE DEF v
<1>7. Linked(d.writeQueue, v)
  <2>1. \A w \in DOMAIN ws : w \in DOMAIN v /\ v[w] = ws[w]
    BY <1>6
  <2>2. \A i \in DOMAIN d.writeQueue :
           IsPayload(d.writeQueue[i]) /\ d.writeQueue[i].then # Scheduler =>
              d.writeQueue[i].then \in DOMAIN v /\ v[d.writeQueue[i].then].pc = "writing"
    BY <2>1 DEF Sane, Linked
  <2> QED BY <2>2 DEF Sane, Linked
<1>8. Unlinked(d.writeQueue, Len(v))
  <2>1. Len(v) \notin DOMAIN ws /\ Len(v) # Scheduler
    BY <1>6 DEF Scheduler
  <2> QED BY <2>1 DEF Sane, Linked, Unlinked
<1>9. Sane(e, v)
  BY <1>3, <1>4, <1>5, <1>6, <1>7, AdvancedSolvent DEF Sane, Kept, Flies, AckArmed, Unpaid
<1>10. Len(v) \in DOMAIN v /\ Unlinked(e.writeQueue, Len(v))
  BY <1>4, <1>6, <1>8 DEF Kept
<1> QED BY <1>5, <1>9, <1>10 DEF e, f, v

(* Clean-up acknowledges what is drawn and forgets the rest.                *)
LEMMA DisposeSane ==
    ASSUME NEW d, NEW ws, Sane(d, ws)
    PROVE  LET e == dispose(d, FALSE) IN
           /\ Sane(e, ws) /\ e.disposed /\ e.onAck = Painted(d) /\ e.pendingAckBytes = 0
<1> DEFINE f == [d EXCEPT !.disposed = TRUE, !.ackTimer = FALSE]
           g == flushPendingAck(f, TRUE)
           e == [InitDrain EXCEPT !.mode = d.mode, !.disposed = TRUE, !.onAck = g.onAck,
                                  !.microtasks = d.microtasks]
<1>1. dispose(d, FALSE) = e
  BY DEF dispose
<1>2. d \in Drains /\ d.mode \in Modes /\ d.microtasks \in Nat /\ d.pendingAckBytes \in Nat
  BY DEF Sane, Solvent, Drains
<1>3. /\ f \in Drains /\ f.pendingAckBytes = d.pendingAckBytes /\ f.onAck = d.onAck
      /\ f.backendUnackedBytes = d.backendUnackedBytes
  BY <1>2 DEF Drains
<1> HIDE DEF f
<1>4. Covered(f)
  BY <1>3, SolventCovered DEF Covered, Sane
<1>5. g \in Drains /\ Paid(f, g) /\ g.pendingAckBytes = 0
  BY <1>4, FlushAck
<1> HIDE DEF g
<1>6. g.onAck = Painted(d) /\ g.onAck \in Nat
  <2>1. PICK n \in 0 .. f.pendingAckBytes :
            g.pendingAckBytes = f.pendingAckBytes - n /\ g.onAck = f.onAck + n
    BY <1>5 DEF Paid
  <2>2. n = d.pendingAckBytes
    BY <1>2, <1>3, <1>5, <2>1
  <2> QED BY <1>3, <1>5, <2>1, <2>2 DEF Painted, Drains
<1>7. /\ e.queue = <<>> /\ e.writeQueue = <<>> /\ e.writingBytes = 0 /\ e.pendingAckBytes = 0
      /\ e.backendUnackedBytes = 0 /\ e.writeInFlight = FALSE /\ e.disposed /\ e.onAck = g.onAck
  BY DEF InitDrain
<1>8. e \in Drains
  BY <1>2, <1>6, EmptySeq DEF InitDrain, Drains, Modes
<1> HIDE DEF e
<1>9. Lost(e) = 0
  <2>1. Len(e.queue) = 0
    BY <1>7
  <2>2. Held(e) = 0
    BY <1>7, <2>1 DEF Held
  <2> QED BY <1>7, <2>2 DEF Lost
<1>10. Weighs(e.writeQueue, e.writingBytes) /\ Linked(e.writeQueue, ws)
  BY <1>7, EmptyWeighs DEF Linked
<1>11. Sane(e, ws)
  BY <1>7, <1>8, <1>9, <1>10 DEF Sane, Solvent, AckArmed, Flies
<1> QED BY <1>1, <1>6, <1>7, <1>11

-----------------------------------------------------------------------------
(* The screen and the gate.                                                 *)

Notices == [pos : Nat, kind : {"notice"}]

Drawings == Units \cup Notices

(* The bytes among what xterm has processed.                                *)
Shown(s) == {k \in DOMAIN s : s[k].kind # "notice"}

LEMMA UnitsAreNoNotices ==
    ASSUME NEW u \in Units
    PROVE  u.kind # "notice"
  BY DEF Units, Kinds

LEMMA ShownFinite ==
    ASSUME NEW s \in Seq(Drawings)
    PROVE  IsFiniteSet(Shown(s)) /\ Cardinality(Shown(s)) \in Nat
<1>1. Shown(s) \subseteq 1 .. Len(s) /\ Len(s) \in Nat
  BY LenProperties DEF Shown
<1>2. IsFiniteSet(1 .. Len(s))
  BY <1>1, FS_Interval
<1>3. IsFiniteSet(Shown(s))
  BY <1>1, <1>2, FS_Subset
<1> QED BY <1>3, FS_CardinalityType

(* A payload is drawn.                                                      *)
LEMMA PayloadShown ==
    ASSUME NEW s \in Seq(Drawings), NEW data \in Seq(Units)
    PROVE  /\ s \o data \in Seq(Drawings)
           /\ Shown(s \o data) = Shown(s) \cup (Len(s) + 1 .. Len(s) + Len(data))
           /\ Cardinality(Shown(s \o data)) = Cardinality(Shown(s)) + Len(data)
<1> DEFINE m == Len(s)
           n == Len(data)
           t == s \o data
           I == m + 1 .. m + n
<1>1. data \in Seq(Drawings)
  BY SeqMonotonic DEF Drawings
<1>2. m \in Nat /\ n \in Nat
  BY LenProperties
<1>3. /\ t \in Seq(Drawings) /\ Len(t) = m + n
      /\ \A i \in 1 .. m + n : t[i] = IF i <= m THEN s[i] ELSE data[i - m]
  BY <1>1, ConcatProperties
<1>4. DOMAIN t = 1 .. m + n /\ DOMAIN s = 1 .. m
  BY <1>3, LenProperties
<1>5. \A i \in 1 .. n : data[i].kind # "notice"
  BY ElementOfSeq, UnitsAreNoNotices
<1> HIDE DEF m, n, t
<1>6. Shown(t) = Shown(s) \cup I
  <2>1. ASSUME NEW i \in 1 .. m PROVE i \in Shown(t) <=> i \in Shown(s)
    <3>1. i \in 1 .. m + n /\ i <= m
      BY <1>2
    <3> QED BY <1>3, <1>4, <3>1 DEF Shown
  <2>2. ASSUME NEW i \in I PROVE i \in Shown(t)
    <3>1. i \in 1 .. m + n /\ ~(i <= m) /\ i - m \in 1 .. n
      BY <1>2
    <3>2. t[i] = data[i - m]
      BY <1>3, <3>1
    <3> QED BY <1>4, <1>5, <3>1, <3>2 DEF Shown
  <2>3. \A i \in 1 .. m + n : i \in 1 .. m \/ i \in I
    BY <1>2
  <2>4. Shown(t) \subseteq 1 .. m + n /\ Shown(s) \subseteq 1 .. m
    BY <1>4 DEF Shown
  <2> HIDE DEF I
  <2> QED BY <2>1, <2>2, <2>3, <2>4
<1>7. Shown(s) \cap I = {}
  BY <1>2, <1>4 DEF Shown
<1>8. IsFiniteSet(I) /\ Cardinality(I) = n
  <2>1. m + 1 \in Int /\ m + n \in Int
    BY <1>2
  <2>2. /\ IsFiniteSet(I)
        /\ Cardinality(I) = IF m + 1 > m + n THEN 0 ELSE (m + n) - (m + 1) + 1
    BY <2>1, FS_Interval
  <2> QED BY <1>2, <2>2
<1>9. IsFiniteSet(Shown(s)) /\ Cardinality(Shown(s)) \in Nat
  BY ShownFinite
<1> HIDE DEF I
<1>10. Cardinality(Shown(t)) = Cardinality(Shown(s)) + n
  <2>1. Cardinality(Shown(s) \cup I) =
           Cardinality(Shown(s)) + Cardinality(I) - Cardinality(Shown(s) \cap I)
    BY <1>8, <1>9, FS_Union
  <2>2. Cardinality(Shown(s) \cap I) = 0
    BY <1>7, FS_EmptySet
  <2> QED BY <1>2, <1>6, <1>8, <1>9, <2>1, <2>2
<1> QED BY <1>3, <1>6, <1>10 DEF t, n, m, I

(* A notice is drawn.                                                       *)
LEMMA NoticeShown ==
    ASSUME NEW s \in Seq(Drawings), NEW x \in Notices
    PROVE  /\ Append(s, x) \in Seq(Drawings)
           /\ Shown(Append(s, x)) = Shown(s)
           /\ Cardinality(Shown(Append(s, x))) = Cardinality(Shown(s))
<1> DEFINE t == Append(s, x)
<1>1. x \in Drawings /\ x.kind = "notice"
  BY DEF Drawings, Notices
<1>2. /\ t \in Seq(Drawings) /\ Len(t) = Len(s) + 1 /\ t[Len(s) + 1] = x
      /\ \A i \in 1 .. Len(s) : t[i] = s[i]
  BY <1>1, AppendProperties
<1>3. Len(s) \in Nat /\ DOMAIN s = 1 .. Len(s) /\ DOMAIN t = 1 .. Len(s) + 1
  BY <1>2, LenProperties
<1> HIDE DEF t
<1>4. Shown(t) = Shown(s)
  <2>1. Len(s) + 1 \notin Shown(t)
    BY <1>1, <1>2 DEF Shown
  <2>2. \A i \in 1 .. Len(s) : i \in Shown(t) <=> i \in Shown(s)
    BY <1>2, <1>3 DEF Shown
  <2>3. \A i \in 1 .. Len(s) + 1 : i \in 1 .. Len(s) \/ i = Len(s) + 1
    BY <1>3
  <2>4. Shown(t) \subseteq 1 .. Len(s) + 1 /\ Shown(s) \subseteq 1 .. Len(s)
    BY <1>3 DEF Shown
  <2> QED BY <2>1, <2>2, <2>3, <2>4
<1> QED BY <1>2, <1>4 DEF t

(* A gate that does not collapse holds nothing: it hands over what arrives. *)
Gates ==
    [pendingPrefix : Seq(Units), currentFrameData : Seq(Units), heldFrame : Seq(Units),
     failOpenTimer : BOOLEAN, disposed : BOOLEAN, out : Seq(Units), dropped : Seq(Units)]

LEMMA GateIsReset ==
    ASSUME NEW g \in Gates,
           g.pendingPrefix = <<>>, g.currentFrameData = <<>>, g.heldFrame = <<>>,
           g.failOpenTimer = FALSE, g.disposed = FALSE
    PROVE  [g EXCEPT !.out = <<>>, !.dropped = <<>>] = InitGate
<1> DEFINE x == [g EXCEPT !.out = <<>>, !.dropped = <<>>]
<1>1. <<>> \in Seq(Units)
  BY EmptySeq
<1>2. x \in Gates
  BY <1>1 DEF Gates
<1>3. /\ x.pendingPrefix = <<>> /\ x.currentFrameData = <<>> /\ x.heldFrame = <<>>
      /\ x.failOpenTimer = FALSE /\ x.disposed = FALSE /\ x.out = <<>> /\ x.dropped = <<>>
  BY DEF Gates
<1> HIDE DEF x
<1>4. x = [pendingPrefix |-> x.pendingPrefix, currentFrameData |-> x.currentFrameData,
           heldFrame |-> x.heldFrame, failOpenTimer |-> x.failOpenTimer,
           disposed |-> x.disposed, out |-> x.out, dropped |-> x.dropped]
  BY <1>2 DEF Gates
<1>5. x = InitGate
  BY <1>3, <1>4 DEF InitGate
<1> QED BY <1>5 DEF x

LEMMA GateForwards ==
    ASSUME NEW units \in Seq(Units)
    PROVE  LET g == forwardText(InitGate, units) IN
           g.out = units /\ g.dropped = <<>> /\ [g EXCEPT !.out = <<>>, !.dropped = <<>>] = InitGate
<1> DEFINE g == forwardText(InitGate, units)
<1>1. <<>> \o units = units
  BY ConcatEmptySeq
<1>2. InitGate.out = <<>>
  BY DEF InitGate
<1>3. g = [InitGate EXCEPT !.out = units]
  BY <1>1, <1>2 DEF forwardText
<1> HIDE DEF g
<1>4. g = [pendingPrefix |-> <<>>, currentFrameData |-> <<>>, heldFrame |-> <<>>,
           failOpenTimer |-> FALSE, disposed |-> FALSE, out |-> units, dropped |-> <<>>]
  BY <1>3 DEF InitGate
<1>5. g.out = units /\ g.dropped = <<>>
  BY <1>4
<1>6. [g EXCEPT !.out = <<>>, !.dropped = <<>>] = InitGate
  <2>1. g \in Gates
    BY <1>4, EmptySeq DEF Gates
  <2> QED BY <1>4, <2>1, GateIsReset
<1> QED BY <1>5, <1>6 DEF g

LEMMA GateFlushes ==
    /\ HeldUnits(InitGate) = <<>>
    /\ LET g == flush(InitGate) IN
       g.out = <<>> /\ g.dropped = <<>> /\ [g EXCEPT !.out = <<>>, !.dropped = <<>>] = InitGate
<1>1. <<>> \o <<>> = <<>>
  BY EmptySeq, ConcatEmptySeq
<1>2. HeldUnits(InitGate) = <<>>
  BY <1>1 DEF HeldUnits, InitGate
<1>3. flush(InitGate) = InitGate
  BY <1>1, <1>2 DEF flush, forwardText, InitGate
<1>4. InitGate.out = <<>> /\ InitGate.dropped = <<>>
  BY DEF InitGate
<1>5. [InitGate EXCEPT !.out = <<>>, !.dropped = <<>>] = InitGate
  <2>1. InitGate \in Gates
    BY EmptySeq DEF Gates, InitGate
  <2>2. /\ InitGate.pendingPrefix = <<>> /\ InitGate.currentFrameData = <<>>
        /\ InitGate.heldFrame = <<>>
        /\ InitGate.failOpenTimer = FALSE /\ InitGate.disposed = FALSE
    BY DEF InitGate
  <2> QED BY <2>1, <2>2, GateIsReset
<1> DEFINE g == flush(InitGate)
<1>6. g.out = <<>> /\ g.dropped = <<>> /\ [g EXCEPT !.out = <<>>, !.dropped = <<>>] = InitGate
  BY <1>3, <1>4, <1>5
<1> QED BY <1>2, <1>6

-----------------------------------------------------------------------------
(* The inductive invariant.                                                 *)

HoldsNothing(g) ==
    /\ g \in Gates
    /\ g.pendingPrefix = <<>> /\ g.currentFrameData = <<>> /\ g.heldFrame = <<>>
    /\ g.out = <<>> /\ g.dropped = <<>>

Inv ==
    /\ HoldsNothing(gate) /\ (~drain.disposed => gate = InitGate)
    /\ received \in Seq(Units) /\ forwarded = received /\ dropped = <<>>
    /\ screen \in Seq(Drawings) /\ failed \in Seq(Units)
    /\ Sane(drain, waits) /\ Watched(drain, waits, abandoned)
    /\ drain.disposed => drain.pendingAckBytes = 0
    /\ ~drain.disposed =>
          /\ Entered(drain) = Len(received)
          /\ Painted(drain) = Cardinality(Shown(screen))
          /\ Lost(drain) = Len(failed)

(* What a step does while the renderer lives, and a stuttering one after.   *)
Works(in, drawn, refused) ==
    /\ drain.disposed => in = 0 /\ drawn = 0 /\ refused = 0
    /\ Advanced(drain, drain', in, drawn, refused)
    /\ Sane(drain', waits') /\ Watched(drain', waits', abandoned')
    /\ gate' = gate /\ dropped' = dropped
    /\ received' \in Seq(Units) /\ Len(received') = Len(received) + in /\ forwarded' = received'
    /\ screen' \in Seq(Drawings)
    /\ Cardinality(Shown(screen')) = Cardinality(Shown(screen)) + drawn
    /\ failed' \in Seq(Units) /\ Len(failed') = Len(failed) + refused

Closes ==
    /\ ~drain.disposed /\ drain'.disposed /\ drain'.onAck = Painted(drain)
    /\ drain'.pendingAckBytes = 0 /\ Sane(drain', waits')
    /\ HoldsNothing(gate') /\ dropped' = <<>>
    /\ received' = received /\ forwarded' = forwarded /\ screen' = screen /\ failed' = failed

LEMMA InvUnchanged ==
    ASSUME Inv
    PROVE  /\ Len(received) \in Nat /\ Len(failed) \in Nat
           /\ Len(received) + 0 = Len(received) /\ Len(failed) + 0 = Len(failed)
           /\ Cardinality(Shown(screen)) \in Nat
           /\ Cardinality(Shown(screen)) + 0 = Cardinality(Shown(screen))
<1>1. Len(received) \in Nat /\ Len(failed) \in Nat
  BY LenProperties DEF Inv
<1>2. Cardinality(Shown(screen)) \in Nat
  BY ShownFinite DEF Inv
<1> QED BY <1>1, <1>2

(* A turn that ends in a scheduler.                                         *)
LEMMA TurnWorks ==
    ASSUME Inv, NEW e, Turn(drain, e, 0), drain' = e,
           UNCHANGED <<gate, waits, received, forwarded, dropped, screen, failed>>
    PROVE  Works(0, 0, 0)
<1>1. /\ Sane(e, waits) /\ Advanced(drain, e, 0, 0, 0)
      /\ \A ab : Watched(e, waits, ab)
  BY TurnSane DEF Inv
<1>2. /\ drain' = e /\ waits' = waits /\ gate' = gate /\ received' = received
      /\ forwarded' = forwarded /\ dropped' = dropped /\ screen' = screen /\ failed' = failed
  OBVIOUS
<1> QED BY <1>1, <1>2, InvUnchanged DEF Works, Inv

LEMMA PolledSane ==
    ASSUME NEW d, Sane(d, waits), NEW w \in DOMAIN waits, Unlinked(d.writeQueue, w),
           NEW expired \in BOOLEAN, PollOrExpire(d, w, expired)
    PROVE  /\ Sane(drain', waits') /\ Advanced(d, drain', 0, 0, 0)
           /\ Watched(drain', waits', abandoned')
<1>1. CASE expired
  <2> DEFINE r == Settle(d, waits, w, FALSE)
  <2>1. Sane(r.drain, r.waits) /\ Advanced(d, r.drain, 0, 0, 0)
    BY SettleSane
  <2>2. drain' = r.drain /\ waits' = r.waits /\ (Unscheduled(r.drain) => abandoned')
    <3>1. /\ drain' = r.drain /\ waits' = r.waits
          /\ abandoned' = ((abandoned \/ expired) /\ Unscheduled(r.drain))
      BY <1>1, Zenon DEF PollOrExpire
    <3> QED BY <1>1, <3>1, Zenon
  <2> HIDE DEF r
  <2>3. Watched(drain', waits', abandoned')
    BY <2>2, Zenon DEF Watched
  <2> QED BY <2>1, <2>2, <2>3
<1>2. CASE ~expired
  <2> DEFINE r == Poll(d, waits, w)
  <2>1. /\ Sane(r.drain, r.waits) /\ Advanced(d, r.drain, 0, 0, 0)
        /\ \A ab : Watched(r.drain, r.waits, ab)
    BY PollSane
  <2>2. drain' = r.drain /\ waits' = r.waits
    BY <1>2 DEF PollOrExpire
  <2> HIDE DEF r
  <2> QED BY <2>1, <2>2
<1> QED BY <1>1, <1>2

(* After the answer of xterm the scheduler or the wait goes on.             *)
LEMMA SettlesSane ==
    ASSUME Sane(drain, waits), ~drain.disposed, drain.writeQueue # <<>>,
           IsPayload(Head(drain.writeQueue)),
           NEW e, NEW drawn \in Nat, NEW refused \in Nat,
           Answered(drain, e, waits, drawn, refused), WriteSettles(e)
    PROVE  /\ Sane(drain', waits') /\ Advanced(drain, drain', 0, drawn, refused)
           /\ Watched(drain', waits', abandoned')
<1> DEFINE then == Head(drain.writeQueue).then
<1>1. /\ Sane(e, waits) /\ Advanced(drain, e, 0, drawn, refused)
      /\ e.writeQueue = Tail(drain.writeQueue)
  BY DEF Answered
<1>2. drain \in Drains /\ drain.writeQueue \in Seq(Link) /\ e \in Drains /\ Solvent(e)
  BY <1>1 DEF Sane, Solvent, Drains
<1>3. ASSUME NEW f, Advanced(e, f, 0, 0, 0) PROVE Advanced(drain, f, 0, drawn, refused)
  <2>1. f \in Drains
    BY <1>3 DEF Advanced
  <2>2. 0 \in Nat /\ 0 + 0 = 0 /\ drawn + 0 = drawn /\ refused + 0 = refused
    OBVIOUS
  <2>3. Advanced(drain, f, 0 + 0, drawn + 0, refused + 0)
    BY <1>1, <1>2, <1>3, <2>1, <2>2, AdvancedTwice
  <2> QED BY <2>2, <2>3
<1>4. CASE then = Scheduler
  <2>1. PICK fast \in BOOLEAN : drain' = schedule(e, fast) /\ waits' = waits
    BY <1>4 DEF WriteSettles, DrainBecomes
  <2> DEFINE f == schedule(e, fast)
  <2>2. Ran(e, f)
    BY <1>2, ScheduleRan
  <2>3. Prepared(e, e, 0)
    <3>1. SameChain(e, e) /\ Unpaid(e, e)
      BY DEF SameChain, Unpaid
    <3> QED BY <1>2, <3>1, CallbacksPrepared
  <2> HIDE DEF f
  <2>4. Turn(e, f, 0)
    BY <1>2, <2>2, <2>3, TurnOf
  <2>5. /\ Sane(f, waits) /\ Advanced(e, f, 0, 0, 0)
        /\ \A ab : Watched(f, waits, ab)
    BY <1>1, <2>4, TurnSane
  <2>6. Advanced(drain, f, 0, drawn, refused)
    BY <1>3, <2>5
  <2>7. drain' = f
    BY <2>1 DEF f
  <2> QED BY <2>1, <2>5, <2>6, <2>7
<1>5. CASE then # Scheduler
  <2> DEFINE f == flushPendingAck(e, TRUE)
  <2>1. PICK expired \in BOOLEAN : PollOrExpire(f, then, expired)
    BY <1>5 DEF WriteSettles, Expirations
  <2>2. Sane(f, waits) /\ Advanced(e, f, 0, 0, 0) /\ Kept(e, f)
    BY <1>1, AckSane
  <2> HIDE DEF f
  <2>3. then \in DOMAIN waits
    <3>1. 1 \in DOMAIN drain.writeQueue /\ Head(drain.writeQueue) = drain.writeQueue[1]
      BY <1>2, EmptySeq, LenProperties, HeadTailProperties
    <3> QED BY <1>5, <3>1 DEF Sane, Linked
  <2>4. Unlinked(f.writeQueue, then)
    BY <1>1, <1>2, <1>5, <2>2, LinkedTail DEF Sane, Kept
  <2> HIDE DEF then
  <2>5. /\ Sane(drain', waits') /\ Advanced(f, drain', 0, 0, 0)
        /\ Watched(drain', waits', abandoned')
    BY <2>1, <2>2, <2>3, <2>4, PolledSane
  <2>6. Advanced(drain, f, 0, drawn, refused)
    BY <1>3, <2>2
  <2>7. Advanced(drain, drain', 0, drawn, refused)
    <3>1. f \in Drains /\ drain' \in Drains
      BY <2>2, <2>5 DEF Advanced
    <3>2. 0 \in Nat /\ 0 + 0 = 0 /\ drawn + 0 = drawn /\ refused + 0 = refused
      OBVIOUS
    <3>3. Advanced(drain, drain', 0 + 0, drawn + 0, refused + 0)
      BY <1>2, <2>5, <2>6, <3>1, <3>2, AdvancedTwice
    <3> QED BY <3>2, <3>3
  <2> QED BY <2>5, <2>7
<1> QED BY <1>4, <1>5

-----------------------------------------------------------------------------
(* The actions.                                                             *)

LEMMA AbandonedWatched ==
    ASSUME NEW d, NEW ws, NEW ab, Watched(d, ws, ab)
    PROVE  Watched(d, ws, ab /\ Unscheduled(d))
  BY Zenon DEF Watched

LEMMA ReceiveWorks ==
    ASSUME GateMode # "collapse", Inv, NEW chunk \in Chunks, NEW alternateScreen \in BOOLEAN,
           Receive(chunk, alternateScreen)
    PROVE  \E in \in Nat : Works(in, 0, 0)
<1> DEFINE units == [i \in DOMAIN chunk |-> [pos |-> Len(received) + i, kind |-> chunk[i]]]
           g == enqueueGate(gate, units, alternateScreen, Len(drain.queue))
<1>1. ~drain.disposed /\ gate = InitGate /\ received \in Seq(Units) /\ forwarded = received
  BY DEF Receive, NextTurn, Inv
<1>2. chunk \in Seq(Kinds) /\ Len(received) \in Nat
  BY <1>1, OutputAssumption, LenProperties
<1>3. units \in Seq(Units)
  <2>1. DOMAIN chunk = 1 .. Len(chunk) /\ Len(chunk) \in Nat
        /\ \A i \in 1 .. Len(chunk) : chunk[i] \in Kinds
    BY <1>2, LenProperties, ElementOfSeq
  <2>2. \A i \in 1 .. Len(chunk) : [pos |-> Len(received) + i, kind |-> chunk[i]] \in Units
    BY <1>2, <2>1 DEF Units
  <2> QED BY <2>1, <2>2
<1>4. PICK fast \in BOOLEAN :
         /\ received' = received \o units /\ GateBecomes(g)
         /\ DrainBecomes(enqueue(drain, g.out, fast))
         /\ waits' = waits /\ screen' = screen /\ failed' = failed
  BY DEF Receive
<1> HIDE DEF units
<1>5. g = forwardText(InitGate, units)
  <2>1. InitGate.disposed = FALSE
    BY DEF InitGate
  <2> QED BY <1>1, <2>1 DEF enqueueGate
<1> HIDE DEF g
<1>6. g.out = units /\ g.dropped = <<>> /\ [g EXCEPT !.out = <<>>, !.dropped = <<>>] = InitGate
  BY <1>3, <1>5, GateForwards
<1>7. gate' = gate /\ forwarded' = received' /\ dropped' = dropped
  <2>1. dropped = <<>> /\ <<>> \o <<>> = <<>>
    BY EmptySeq, ConcatEmptySeq DEF Inv
  <2> QED BY <1>1, <1>4, <1>6, <2>1 DEF GateBecomes
<1> DEFINE n == Len(units)
           e == enqueue(drain, units, fast)
<1>8. drain' = e
  BY <1>4, <1>6 DEF DrainBecomes
<1>9. received' \in Seq(Units) /\ Len(received') = Len(received) + n /\ n \in Nat
  BY <1>1, <1>3, <1>4, ConcatProperties, LenProperties
<1>10. Solvent(drain) /\ Sane(drain, waits) /\ Watched(drain, waits, abandoned)
  BY DEF Inv, Sane
<1>11. Sane(e, waits) /\ Advanced(drain, e, n, 0, 0) /\ Watched(e, waits, abandoned')
  <2>1. CASE units = <<>>
    <3>1. e = drain /\ n = 0
      BY <1>1, <1>3, <1>10, <2>1, EnqueueTurn, EmptySeq
    <3> HIDE DEF e, n
    <3>2. Advanced(drain, drain, 0, 0, 0)
      BY <1>10, BooksTyped DEF Advanced, Solvent
    <3>3. abandoned' = (abandoned /\ Unscheduled(drain))
      BY <1>4, <1>6, <3>1 DEF DrainBecomes, e
    <3>4. Watched(drain, waits, abandoned /\ Unscheduled(drain))
      BY <1>10, AbandonedWatched
    <3> QED BY <1>10, <3>1, <3>2, <3>3, <3>4
  <2>2. CASE units # <<>>
    <3>1. Turn(drain, e, n)
      BY <1>1, <1>3, <1>10, <2>2, EnqueueTurn
    <3> HIDE DEF e, n
    <3> QED BY <1>9, <1>10, <3>1, TurnSane
  <2> QED BY <2>1, <2>2
<1> HIDE DEF n, e
<1>12. Works(n, 0, 0)
  BY <1>1, <1>4, <1>7, <1>8, <1>9, <1>11, InvUnchanged DEF Works, Inv
<1> QED BY <1>9, <1>12

LEMMA SetModeWorks ==
    ASSUME Inv, NEW mode \in Modes, SetMode(mode)
    PROVE  Works(0, 0, 0)
<1>1. PICK fast \in BOOLEAN :
         /\ drain' = setMode(drain, mode, fast)
         /\ UNCHANGED <<gate, waits, received, forwarded, dropped, screen, failed>>
  BY DEF SetMode, DrainBecomes
<1>2. Turn(drain, setMode(drain, mode, fast), 0)
  BY SetModeTurn DEF SetMode, NextTurn, Inv, Sane
<1> QED BY <1>1, <1>2, TurnWorks

LEMMA CallbacksWork ==
    ASSUME Inv, ForegroundFires \/ MicrotaskRuns \/ BackgroundFires
    PROVE  Works(0, 0, 0)
<1>0. Solvent(drain)
  BY DEF Inv, Sane
<1>1. CASE ForegroundFires
  <2>1. PICK fast \in BOOLEAN : DrainTurn(flushForeground([drain EXCEPT !.foreground = FALSE], fast))
    BY <1>1 DEF ForegroundFires
  <2> QED BY <1>0, <2>1, ForegroundTurn, TurnWorks DEF DrainTurn, DrainBecomes
<1>2. CASE MicrotaskRuns
  <2>1. PICK fast \in BOOLEAN :
            DrainTurn(flushForeground([drain EXCEPT !.microtasks = drain.microtasks - 1,
                                                    !.microtaskPending = FALSE], fast))
    BY <1>2 DEF MicrotaskRuns
  <2>2. drain.microtasks > 0
    BY <1>2 DEF MicrotaskRuns
  <2> QED BY <1>0, <2>1, <2>2, MicrotaskTurn, TurnWorks DEF DrainTurn, DrainBecomes
<1>3. CASE BackgroundFires
  <2>1. PICK fast \in BOOLEAN :
            DrainTurn(flushBackground([drain EXCEPT !.backgroundTimer = "none"], fast))
    BY <1>3 DEF BackgroundFires
  <2> QED BY <1>0, <2>1, BackgroundTurn, TurnWorks DEF DrainTurn, DrainBecomes
<1> QED BY <1>1, <1>2, <1>3

LEMMA AckTimerWorks ==
    ASSUME Inv, AckTimerFires
    PROVE  Works(0, 0, 0)
<1> DEFINE e == flushPendingAck([drain EXCEPT !.ackTimer = FALSE], TRUE)
<1>1. /\ Sane(e, waits) /\ Advanced(drain, e, 0, 0, 0)
      /\ \A ab : Watched(drain, waits, ab) => Watched(e, waits, ab)
  BY AckTimerSane DEF Inv
<1>2. DrainTurn(e)
  BY DEF AckTimerFires
<1> HIDE DEF e
<1>3. /\ drain' = e /\ waits' = waits /\ gate' = gate /\ received' = received
      /\ forwarded' = forwarded /\ dropped' = dropped /\ screen' = screen /\ failed' = failed
      /\ abandoned' = (abandoned /\ Unscheduled(e))
  BY <1>2 DEF DrainTurn, DrainBecomes
<1>4. Watched(e, waits, abandoned')
  <2>1. Watched(e, waits, abandoned)
    BY <1>1 DEF Inv
  <2>2. Watched(e, waits, abandoned /\ Unscheduled(e))
    BY <2>1, AbandonedWatched
  <2> QED BY <1>3, <2>2
<1> QED BY <1>1, <1>3, <1>4, InvUnchanged DEF Works, Inv

LEMMA WaitWorks ==
    ASSUME Inv, NEW notice \in BOOLEAN, waitForIdle(notice)
    PROVE  Works(0, 0, 0)
<1> DEFINE g == flush(gate)
           x == [pc |-> "polling", notice |-> notice, after |-> Len(forwarded \o g.out)]
           ws == Append(waits, x)
           d == cancelBackground(cancelForeground(drain))
           r == Poll(d, ws, Len(ws))
<1>1. ~drain.disposed /\ gate = InitGate /\ forwarded = received /\ received \in Seq(Units)
  BY DEF waitForIdle, NextTurn, Inv
<1>2. PICK fast \in BOOLEAN :
         LET f == cancelBackground(cancelForeground(enqueue(drain, g.out, fast)))
             q == Poll(f, ws, Len(ws))
         IN  DrainBecomes(q.drain) /\ waits' = q.waits
  BY DEF waitForIdle
<1>3. GateBecomes(g) /\ UNCHANGED <<received, screen, failed>>
  BY DEF waitForIdle
<1>4. g.out = <<>> /\ g.dropped = <<>> /\ [g EXCEPT !.out = <<>>, !.dropped = <<>>] = InitGate
  BY <1>1, GateFlushes
<1>5. <<>> \in Seq(Units) /\ received \o <<>> = received
  BY <1>1, EmptySeq, ConcatEmptySeq
<1>6. gate' = gate /\ forwarded' = forwarded /\ dropped' = dropped
  <2>1. dropped = <<>> /\ <<>> \o <<>> = <<>>
    BY EmptySeq, ConcatEmptySeq DEF Inv
  <2> QED BY <1>1, <1>3, <1>4, <1>5, <2>1 DEF GateBecomes
<1>7. x \in Waits
  <2>1. Len(forwarded \o g.out) \in Nat
    BY <1>1, <1>4, <1>5, LenProperties
  <2> QED BY <2>1 DEF Waits
<1>8. enqueue(drain, g.out, fast) = drain
  BY <1>4 DEF enqueue
<1>9. drain' = r.drain /\ waits' = r.waits
  BY <1>2, <1>8 DEF DrainBecomes
<1> HIDE DEF x, g
<1>10. /\ Sane(d, ws) /\ Advanced(drain, d, 0, 0, 0)
       /\ Len(ws) \in DOMAIN ws /\ Unlinked(d.writeQueue, Len(ws))
  BY <1>7, WaitBegins DEF Inv
<1> HIDE DEF d, ws
<1>11. /\ Sane(r.drain, r.waits) /\ Advanced(d, r.drain, 0, 0, 0)
       /\ \A ab : Watched(r.drain, r.waits, ab)
  BY <1>10, PollSane
<1> HIDE DEF r
<1>12. Advanced(drain, r.drain, 0, 0, 0)
  <2>1. drain \in Drains /\ d \in Drains /\ r.drain \in Drains
    BY <1>10, <1>11 DEF Advanced, Inv, Sane, Solvent
  <2>2. 0 \in Nat /\ 0 + 0 = 0
    OBVIOUS
  <2>3. Advanced(drain, r.drain, 0 + 0, 0 + 0, 0 + 0)
    BY <1>10, <1>11, <2>1, <2>2, AdvancedTwice
  <2> QED BY <2>2, <2>3
<1> QED BY <1>3, <1>6, <1>9, <1>11, <1>12, InvUnchanged DEF Works, Inv

LEMMA PollTimerWorks ==
    ASSUME Inv, NEW w \in DOMAIN waits, PollTimer(w)
    PROVE  Works(0, 0, 0)
<1>1. PICK expired \in BOOLEAN : PollOrExpire(drain, w, expired)
  BY DEF PollTimer, Expirations
<1>2. waits[w].pc = "polling" /\ Sane(drain, waits)
  BY DEF PollTimer, Inv
<1>3. Unlinked(drain.writeQueue, w)
  <2>1. w # Scheduler
    BY <1>2, LenProperties DEF Sane, Scheduler
  <2> QED BY <1>2, <2>1 DEF Sane, Linked, Unlinked
<1>4. /\ Sane(drain', waits') /\ Advanced(drain, drain', 0, 0, 0)
      /\ Watched(drain', waits', abandoned')
  BY <1>1, <1>2, <1>3, PolledSane
<1>5. /\ gate' = gate /\ received' = received /\ forwarded' = forwarded
      /\ dropped' = dropped /\ screen' = screen /\ failed' = failed
  BY DEF PollTimer
<1> QED BY <1>4, <1>5, InvUnchanged DEF Works, Inv

LEMMA PayloadWorks ==
    ASSUME Inv, PayloadWritten \/ PayloadRefused
    PROVE  \E n \in Nat : Works(0, n, 0) \/ Works(0, 0, n)
<1> DEFINE data == Head(drain.writeQueue).data
           n == Len(data)
<1>1. /\ ~drain.disposed /\ drain.writeQueue # <<>> /\ IsPayload(Head(drain.writeQueue))
      /\ Sane(drain, waits)
      /\ gate' = gate /\ received' = received /\ forwarded' = forwarded /\ dropped' = dropped
  BY DEF PayloadWritten, PayloadRefused, NextTurn, Inv
<1>2. data \in Seq(Units) /\ n \in Nat
  <2>1. drain.writeQueue \in Seq(Link)
    BY <1>1 DEF Sane, Solvent, Drains
  <2>2. Head(drain.writeQueue) \in Link
    BY <1>1, <2>1, HeadTailProperties
  <2> QED BY <2>2, LenProperties DEF Link
<1>3. CASE PayloadWritten
  <2>1. Answered(drain, writeCallback(drain), waits, n, 0)
    BY <1>1, CallbackAnswers
  <2>2. WriteSettles(writeCallback(drain)) /\ screen' = screen \o data /\ failed' = failed
    BY <1>3 DEF PayloadWritten
  <2> HIDE DEF data, n
  <2>3. /\ Sane(drain', waits') /\ Advanced(drain, drain', 0, n, 0)
        /\ Watched(drain', waits', abandoned')
    BY <1>1, <1>2, <2>1, <2>2, SettlesSane
  <2>4. screen' \in Seq(Drawings) /\ Cardinality(Shown(screen')) = Cardinality(Shown(screen)) + n
    BY <1>2, <2>2, PayloadShown DEF Inv, n
  <2>5. Works(0, n, 0)
    BY <1>1, <2>2, <2>3, <2>4, InvUnchanged DEF Works, Inv
  <2> QED BY <1>2, <2>5
<1>4. CASE PayloadRefused
  <2>1. Answered(drain, writeError(drain), waits, 0, n)
    BY <1>1, ErrorAnswers
  <2>2. WriteSettles(writeError(drain)) /\ failed' = failed \o data /\ screen' = screen
    BY <1>4 DEF PayloadRefused
  <2> HIDE DEF data, n
  <2>3. /\ Sane(drain', waits') /\ Advanced(drain, drain', 0, 0, n)
        /\ Watched(drain', waits', abandoned')
    BY <1>1, <1>2, <2>1, <2>2, SettlesSane
  <2>4. failed' \in Seq(Units) /\ Len(failed') = Len(failed) + n
    BY <1>2, <2>2, ConcatProperties DEF Inv, n
  <2>5. Works(0, 0, n)
    BY <1>1, <2>2, <2>3, <2>4, InvUnchanged DEF Works, Inv
  <2> QED BY <1>2, <2>5
<1> QED BY <1>3, <1>4

LEMMA NoticeWorks ==
    ASSUME Inv, NoticeWritten
    PROVE  Works(0, 0, 0)
<1> DEFINE e == [drain EXCEPT !.writeQueue = Tail(drain.writeQueue)]
           x == [pos |-> Head(drain.writeQueue).then, kind |-> "notice"]
<1>1. /\ drain.writeQueue # <<>> /\ ~IsPayload(Head(drain.writeQueue)) /\ Sane(drain, waits)
      /\ DrainBecomes(e) /\ screen' = Append(screen, x)
      /\ gate' = gate /\ received' = received /\ forwarded' = forwarded /\ dropped' = dropped
      /\ waits' = waits /\ failed' = failed
  BY DEF NoticeWritten, Inv
<1>2. /\ Sane(e, waits) /\ Advanced(drain, e, 0, 0, 0)
      /\ \A ab : Watched(drain, waits, ab) => Watched(e, waits, ab)
  BY <1>1, NoticeGone
<1>3. x \in Notices
  <2>1. drain.writeQueue \in Seq(Link)
    BY <1>1 DEF Sane, Solvent, Drains
  <2>2. Head(drain.writeQueue) \in Link
    BY <1>1, <2>1, HeadTailProperties
  <2> QED BY <2>2 DEF Link, Notices
<1> HIDE DEF e, x
<1>4. drain' = e /\ abandoned' = (abandoned /\ Unscheduled(e))
  BY <1>1 DEF DrainBecomes
<1>5. Watched(e, waits, abandoned')
  <2>1. Watched(e, waits, abandoned)
    BY <1>2 DEF Inv
  <2>2. Watched(e, waits, abandoned /\ Unscheduled(e))
    BY <2>1, AbandonedWatched
  <2> QED BY <1>4, <2>2
<1>6. screen' \in Seq(Drawings) /\ Cardinality(Shown(screen')) = Cardinality(Shown(screen)) + 0
  BY <1>1, <1>3, NoticeShown, InvUnchanged DEF Inv
<1> QED BY <1>1, <1>2, <1>4, <1>5, <1>6, InvUnchanged DEF Works, Inv

LEMMA DisposeCloses ==
    ASSUME Inv, Dispose
    PROVE  Closes
<1>1. /\ ~drain.disposed /\ gate = InitGate /\ GateBecomes(disposeGate(gate))
      /\ drain' = dispose(drain, FALSE) /\ waits' = waits
      /\ received' = received /\ screen' = screen /\ failed' = failed
  BY DEF Dispose, NextTurn, Inv
<1> DEFINE e == dispose(drain, FALSE)
           g == disposeGate(InitGate)
<1>2. Sane(e, waits) /\ e.disposed /\ e.onAck = Painted(drain) /\ e.pendingAckBytes = 0
  BY DisposeSane DEF Inv
<1> HIDE DEF e
<1>3. g = [InitGate EXCEPT !.disposed = TRUE, !.dropped = <<>>]
  <2>1. InitGate.disposed = FALSE
    BY DEF InitGate
  <2> QED BY <2>1, GateFlushes DEF disposeGate
<1> HIDE DEF g
<1>4. g = [pendingPrefix |-> <<>>, currentFrameData |-> <<>>, heldFrame |-> <<>>,
           failOpenTimer |-> FALSE, disposed |-> TRUE, out |-> <<>>, dropped |-> <<>>]
  BY <1>3 DEF InitGate
<1>5. g \in Gates /\ g.out = <<>> /\ g.dropped = <<>>
  BY <1>4, EmptySeq DEF Gates
<1> DEFINE h == [g EXCEPT !.out = <<>>, !.dropped = <<>>]
<1>6. HoldsNothing(h)
  <2>1. h \in Gates
    BY <1>5, EmptySeq DEF Gates
  <2>2. /\ h.pendingPrefix = g.pendingPrefix /\ h.currentFrameData = g.currentFrameData
        /\ h.heldFrame = g.heldFrame /\ h.out = <<>> /\ h.dropped = <<>>
    BY <1>5 DEF Gates
  <2>3. g.pendingPrefix = <<>> /\ g.currentFrameData = <<>> /\ g.heldFrame = <<>>
    BY <1>4
  <2> QED BY <2>1, <2>2, <2>3 DEF HoldsNothing
<1>7. gate' = h /\ forwarded' = forwarded /\ dropped' = <<>>
  <2>1. dropped = <<>> /\ <<>> \o <<>> = <<>> /\ forwarded \o <<>> = forwarded
    BY EmptySeq, ConcatEmptySeq DEF Inv
  <2>2. disposeGate(gate) = g
    BY <1>1 DEF g
  <2> QED BY <1>1, <1>5, <2>1, <2>2 DEF GateBecomes
<1> HIDE DEF h
<1>8. drain' = e
  BY <1>1 DEF e
<1> QED BY <1>1, <1>2, <1>6, <1>7, <1>8 DEF Closes

-----------------------------------------------------------------------------
(* Every step works, or closes the renderer.                                *)

LEMMA NextWorks ==
    ASSUME GateMode # "collapse", Inv, [Next]_vars
    PROVE  (\E in, drawn, refused \in Nat : Works(in, drawn, refused)) \/ Closes
<1>0. 0 \in Nat
  OBVIOUS
<1>1. ASSUME Works(0, 0, 0) PROVE \E in, drawn, refused \in Nat : Works(in, drawn, refused)
  BY <1>0, <1>1
<1>2. CASE UNCHANGED vars
  <2>1. /\ drain' = drain /\ waits' = waits /\ abandoned' = abandoned /\ gate' = gate
        /\ received' = received /\ forwarded' = forwarded /\ dropped' = dropped
        /\ screen' = screen /\ failed' = failed
    BY <1>2 DEF vars
  <2>2. drain \in Drains
    BY DEF Inv, Sane, Solvent
  <2>3. Advanced(drain, drain', 0, 0, 0)
    BY <2>1, <2>2, BooksTyped DEF Advanced
  <2>4. Works(0, 0, 0)
    BY <2>1, <2>3, InvUnchanged DEF Works, Inv
  <2> QED BY <1>1, <2>4
<1>3. ASSUME NEW chunk \in Chunks, NEW alternateScreen \in BOOLEAN, Receive(chunk, alternateScreen)
      PROVE  \E in, drawn, refused \in Nat : Works(in, drawn, refused)
  BY <1>0, <1>3, ReceiveWorks
<1>4. ASSUME NEW mode \in Modes, SetMode(mode) PROVE Works(0, 0, 0)
  BY <1>4, SetModeWorks
<1>5. ASSUME NEW notice \in BOOLEAN, waitForIdle(notice) PROVE Works(0, 0, 0)
  BY <1>5, WaitWorks
<1>6. ASSUME FailOpen PROVE FALSE
  BY <1>6 DEF FailOpen, NextTurn, Inv, InitGate
<1>7. ASSUME NEW w \in DOMAIN waits, PollTimer(w) PROVE Works(0, 0, 0)
  BY <1>7, PollTimerWorks
<1>8. CASE PayloadWritten \/ PayloadRefused
  <2>1. PICK n \in Nat : Works(0, n, 0) \/ Works(0, 0, n)
    BY <1>8, PayloadWorks
  <2> QED BY <1>0, <2>1
<1>9. CASE Callback
  BY <1>1, <1>6, <1>7, <1>8, <1>9, CallbacksWork, AckTimerWorks, NoticeWorks DEF Callback
<1>10. CASE Dispose
  BY <1>10, DisposeCloses
<1> QED BY <1>1, <1>2, <1>3, <1>4, <1>5, <1>9, <1>10 DEF Next

(* In books the acknowledged bytes are among the drawn, these among those   *)
(* that came in.                                                            *)
LEMMA BooksOrdered ==
    ASSUME NEW d, Solvent(d)
    PROVE  d.onAck <= Painted(d) /\ Painted(d) <= Entered(d)
<1>1. d.onAck \in Nat /\ d.pendingAckBytes \in Nat /\ d.backendUnackedBytes \in Nat
  BY DEF Solvent, Drains
<1>2. d.pendingAckBytes <= d.backendUnackedBytes
  BY SolventCovered DEF Covered
<1> QED BY <1>1, <1>2 DEF Painted, Entered

(* After the clean-up nothing is acknowledged any more.                     *)
LEMMA ClosedWorks ==
    ASSUME Inv, NEW in \in Nat, NEW drawn \in Nat, NEW refused \in Nat,
           Works(in, drawn, refused), drain.disposed
    PROVE  drain'.pendingAckBytes = 0 /\ drain'.onAck = drain.onAck
<1>1. drain \in Drains /\ drain' \in Drains
  BY DEF Inv, Sane, Solvent, Works, Advanced
<1>2. /\ drain.onAck \in Nat /\ drain'.onAck \in Nat /\ drain'.pendingAckBytes \in Nat
      /\ drain.pendingAckBytes = 0
  BY <1>1 DEF Drains, Inv
<1>3. drain'.onAck >= drain.onAck /\ Painted(drain') = Painted(drain) + drawn /\ drawn = 0
  BY DEF Works, Advanced
<1>4. drain'.onAck + drain'.pendingAckBytes = drain.onAck
  BY <1>2, <1>3 DEF Painted
<1> QED BY <1>2, <1>3, <1>4

LEMMA WorksKeepsInv ==
    ASSUME Inv, NEW in \in Nat, NEW drawn \in Nat, NEW refused \in Nat, Works(in, drawn, refused)
    PROVE  Inv'
<1>1. drain'.disposed = drain.disposed
  BY DEF Works, Advanced
<1>2. drain'.disposed => drain'.pendingAckBytes = 0
  BY <1>1, ClosedWorks
<1>3. ~drain'.disposed =>
          /\ Entered(drain') = Len(received')
          /\ Painted(drain') = Cardinality(Shown(screen'))
          /\ Lost(drain') = Len(failed')
  BY <1>1 DEF Works, Advanced, Inv
<1>4. Sane(drain', waits') /\ Watched(drain', waits', abandoned')
  BY DEF Works
<1>5. /\ HoldsNothing(gate') /\ (~drain'.disposed => gate' = InitGate)
      /\ received' \in Seq(Units) /\ forwarded' = received' /\ dropped' = <<>>
      /\ screen' \in Seq(Drawings) /\ failed' \in Seq(Units)
  BY <1>1 DEF Works, Inv
<1> QED BY <1>2, <1>3, <1>4, <1>5 DEF Inv

LEMMA ClosesKeepsInv ==
    ASSUME Inv, Closes
    PROVE  Inv'
<1>1. /\ drain'.disposed /\ drain'.pendingAckBytes = 0 /\ Sane(drain', waits')
      /\ HoldsNothing(gate') /\ dropped' = <<>>
      /\ received' \in Seq(Units) /\ forwarded' = received'
      /\ screen' \in Seq(Drawings) /\ failed' \in Seq(Units)
  BY DEF Closes, Inv
<1>2. Watched(drain', waits', abandoned')
  BY <1>1 DEF Watched
<1> QED BY <1>1, <1>2 DEF Inv

LEMMA InitInv ==
    ASSUME Init
    PROVE  Inv
<1>1. /\ gate = InitGate /\ drain = InitDrain /\ waits = <<>> /\ received = <<>>
      /\ forwarded = <<>> /\ dropped = <<>> /\ screen = <<>> /\ failed = <<>>
  BY DEF Init
<1>2. HoldsNothing(InitGate)
  BY EmptySeq DEF HoldsNothing, InitGate, Gates
<1>3. InitDrain \in Drains
  BY EmptySeq DEF InitDrain, Drains, Modes
<1>4. /\ InitDrain.queue = <<>> /\ InitDrain.writeQueue = <<>> /\ InitDrain.writingBytes = 0
      /\ InitDrain.pendingAckBytes = 0 /\ InitDrain.backendUnackedBytes = 0
      /\ InitDrain.writeInFlight = FALSE /\ InitDrain.disposed = FALSE /\ InitDrain.onAck = 0
  BY DEF InitDrain
<1>5. Len(<<>>) = 0
  OBVIOUS
<1>6. Held(InitDrain) = 0
  BY <1>4, <1>5 DEF Held
<1>7. Lost(InitDrain) = 0 /\ Entered(InitDrain) = 0 /\ Painted(InitDrain) = 0
  BY <1>4, <1>6 DEF Lost, Entered, Painted
<1>8. Sane(InitDrain, <<>>)
  BY <1>3, <1>4, <1>7, EmptySeq, EmptyWeighs DEF Sane, Solvent, AckArmed, Flies, Linked
<1>9. \A ws, ab : Watched(InitDrain, ws, ab)
  BY <1>4 DEF Watched
<1>10. Cardinality(Shown(<<>>)) = 0
  <2>1. Shown(<<>>) = {}
    BY DEF Shown
  <2> QED BY <2>1, FS_EmptySet
<1>11. \A S : <<>> \in Seq(S)
  BY EmptySeq
<1> QED BY <1>1, <1>2, <1>4, <1>5, <1>7, <1>8, <1>9, <1>10, <1>11 DEF Inv

(* The invariant all the theorems below rest on.                            *)
LEMMA TerminalInduction == GateMode # "collapse" => (Spec => []Inv)
<1> SUFFICES ASSUME GateMode # "collapse" PROVE Spec => []Inv
  OBVIOUS
<1>1. Init => Inv
  BY InitInv
<1>2. Inv /\ [Next]_vars => Inv'
  BY NextWorks, WorksKeepsInv, ClosesKeepsInv
<1> QED BY <1>1, <1>2, PTL DEF Spec

-----------------------------------------------------------------------------
(* While frames are not collapsed, the gate, the drain and the waits have   *)
(* their types.                                                             *)
THEOREM TerminalTypes == GateMode # "collapse" => (Spec => []TypeOK)
<1>1. Inv => TypeOK
  <2> SUFFICES ASSUME Inv PROVE TypeOK
    OBVIOUS
  <2>1. /\ gate.pendingPrefix \in Seq(Units) /\ gate.currentFrameData \in Seq(Units)
        /\ gate.heldFrame \in Seq(Units) /\ gate.failOpenTimer \in BOOLEAN
        /\ gate.out = <<>> /\ gate.dropped = <<>>
    BY DEF Inv, HoldsNothing, Gates
  <2>2. drain \in Drains /\ waits \in Seq(Waits)
    BY DEF Inv, Sane, Solvent
  <2>3. /\ drain.queue \in Seq(Units) /\ drain.mode \in Modes
        /\ drain.writingBytes \in Nat /\ drain.pendingAckBytes \in Nat
        /\ drain.backendUnackedBytes \in Nat /\ drain.onAck \in Nat
        /\ drain.writeQueue \in Seq([data : Seq(Units), then : Nat])
        /\ drain.microtasks \in Nat
    BY <2>2 DEF Drains, Link
  <2> QED BY <2>1, <2>2, <2>3 DEF TypeOK
<1> QED BY <1>1, TerminalInduction, PTL

(* No sequence of output events, waits, mode changes, answers and refusals  *)
(* of xterm leaves output in a queue that may be drained without somebody   *)
(* to look at it, or drawn bytes without a timer that acknowledges them.    *)
THEOREM TerminalWakes == GateMode # "collapse" => (Spec => []NoLostWakeup)
<1>1. Inv => NoLostWakeup
  <2> SUFFICES ASSUME Inv, Open PROVE NoLostWakeup
    BY DEF NoLostWakeup
  <2>1. drain.queue # <<>> /\ drain.mode \in {"foreground", "background"} =>
           QueueIsWatched \/ abandoned
    BY DEF Inv, Watched, QueueIsWatched, Open
  <2>2. drain.pendingAckBytes > 0 => drain.ackTimer
    BY DEF Inv, Sane, AckArmed, Open
  <2>3. gate.currentFrameData = <<>> /\ gate.heldFrame = <<>>
    BY DEF Inv, HoldsNothing
  <2> QED BY <2>1, <2>2, <2>3 DEF NoLostWakeup
<1> QED BY <1>1, TerminalInduction, PTL

(* Gate and drain keep the promise of OutputCredit: bytes are acknowledged  *)
(* only once they are drawn, and after the clean-up no more.                *)
THEOREM TerminalKeepsCredit == GateMode # "collapse" => (Spec => KeepsCredit)
<1> SUFFICES ASSUME GateMode # "collapse" PROVE Spec => KeepsCredit
  OBVIOUS
<1> DEFINE c == DrawnBytes + Len(dropped)
           a == drain.onAck + Len(dropped)
<1>0. ASSUME Inv
      PROVE  /\ c = Cardinality(Shown(screen)) /\ a = drain.onAck
             /\ Len(received) \in Nat /\ drain.onAck \in Nat
             /\ Cardinality(Shown(screen)) \in Nat
  <2>1. Len(dropped) = 0 /\ DrawnBytes = Cardinality(Shown(screen))
    BY <1>0 DEF Inv, DrawnBytes, Shown
  <2>2. drain.onAck \in Nat
    BY <1>0 DEF Inv, Sane, Solvent, Drains
  <2> QED BY <1>0, <2>1, <2>2, InvUnchanged
<1>1. Init => Credit!Init
  <2> SUFFICES ASSUME Init PROVE Credit!Init
    OBVIOUS
  <2>1. Inv /\ received = <<>> /\ drain.onAck = 0 /\ drain.disposed = FALSE /\ screen = <<>>
    BY InitInv DEF Init, InitDrain
  <2>2. Cardinality(Shown(screen)) = 0
    <3>1. Shown(screen) = {}
      BY <2>1 DEF Shown
    <3> QED BY <3>1, FS_EmptySet
  <2>3. c = 0 /\ a = 0
    BY <1>0, <2>1, <2>2
  <2>4. Len(received) = 0 /\ Open = TRUE
    BY <2>1 DEF Open
  <2> QED BY <2>3, <2>4 DEF Credit!Init
<1>2. Inv /\ Inv' /\ [Next]_vars => [Credit!Next]_Credit!vars
  <2> SUFFICES ASSUME Inv, Inv', [Next]_vars PROVE [Credit!Next]_Credit!vars
    OBVIOUS
  <2>1. /\ c = Cardinality(Shown(screen)) /\ a = drain.onAck
        /\ Len(received) \in Nat /\ drain.onAck \in Nat /\ Cardinality(Shown(screen)) \in Nat
    BY <1>0
  <2>2. /\ c' = Cardinality(Shown(screen')) /\ a' = drain'.onAck
        /\ Len(received') \in Nat /\ drain'.onAck \in Nat /\ Cardinality(Shown(screen')) \in Nat
    <3>1. Len(dropped') = 0 /\ DrawnBytes' = Cardinality(Shown(screen'))
      BY DEF Inv, DrawnBytes, Shown
    <3>2. drain'.onAck \in Nat
      BY DEF Inv, Sane, Solvent, Drains
    <3>3. Len(received') \in Nat /\ screen' \in Seq(Drawings)
      BY LenProperties DEF Inv
    <3>4. Cardinality(Shown(screen')) \in Nat
      BY <3>3, ShownFinite
    <3> QED BY <3>1, <3>2, <3>3, <3>4
  <2> HIDE DEF c, a
  <2>3. CASE Closes
    <3>1. /\ Len(received') = Len(received) /\ c' = c /\ a' = Painted(drain)
          /\ Open /\ Open' = FALSE
      BY <2>1, <2>2, <2>3 DEF Closes, Open
    <3>2. /\ Painted(drain) = c /\ Entered(drain) = Len(received)
          /\ drain.onAck <= Painted(drain) /\ Painted(drain) <= Entered(drain)
      BY <2>1, <2>3, BooksOrdered DEF Closes, Inv, Sane
    <3>3. c' \in c .. Len(received') /\ a' \in a .. c'
      BY <2>1, <2>2, <3>1, <3>2
    <3> QED BY <3>1, <3>3 DEF Credit!Next, Credit!Close, Credit!Advance, c, a
  <2>4. ASSUME NEW in \in Nat, NEW drawn \in Nat, NEW refused \in Nat, Works(in, drawn, refused)
        PROVE  [Credit!Next]_Credit!vars
    <3>1. drain'.disposed = drain.disposed /\ drain'.onAck >= drain.onAck
      BY <2>4 DEF Works, Advanced
    <3>2. Len(received') = Len(received) + in /\ c' = c + drawn
      BY <2>1, <2>2, <2>4 DEF Works
    <3>3. CASE drain.disposed
      <4>1. in = 0 /\ drawn = 0 /\ drain'.onAck = drain.onAck
        BY <2>4, <3>3, ClosedWorks DEF Works
      <4>2. Len(received') = Len(received) /\ c' = c /\ a' = a
        BY <2>1, <2>2, <3>2, <4>1
      <4>3. Open' = Open
        BY <3>1 DEF Open
      <4> QED BY <4>2, <4>3 DEF Credit!vars, c, a
    <3>4. CASE ~drain.disposed
      <4>1. /\ Painted(drain') = c' /\ Entered(drain') = Len(received')
        BY <2>2, <3>1, <3>4 DEF Inv
      <4>2. drain'.onAck <= Painted(drain') /\ Painted(drain') <= Entered(drain')
        BY BooksOrdered DEF Inv, Sane
      <4>3. c' \in c .. Len(received') /\ a' \in a .. c' /\ Len(received') >= Len(received)
        BY <2>1, <2>2, <3>1, <3>2, <4>1, <4>2
      <4>4. Open /\ Open' = TRUE
        BY <3>1, <3>4 DEF Open
      <4> QED BY <4>3, <4>4 DEF Credit!Next, Credit!Work, Credit!Advance, c, a
    <3> QED BY <3>3, <3>4
  <2> QED BY <2>3, <2>4, NextWorks
<1>3. Spec => []Inv
  BY TerminalInduction
<1> QED BY <1>1, <1>2, <1>3, PTL DEF Spec, KeepsCredit, Credit!Spec

-----------------------------------------------------------------------------
(* The bytes in flight.                                                     *)

(* Every nonempty set of naturals has a least element.                      *)
LEMMA LeastNatural ==
    ASSUME NEW T \in SUBSET Nat, T # {}
    PROVE  \E m \in T : \A k \in T : m <= k
<1>1. PICK m \in T : \A k \in T : ~(<<k, m>> \in OpToRel(<, Nat))
  BY NatLessThanWellFounded, WFMin
<1>2. m \in T /\ \A k \in T : ~(k < m)
  BY <1>1, Zenon DEF OpToRel
<1>3. T \subseteq Int
  BY SMT
<1>4. \A k \in T : m <= k
  <2> HIDE <1>1
  <2> QED BY <1>2, <1>3, SMT
<1> QED BY <1>2, <1>4

(* f[i] is the concatenation of the first i members of s.                   *)
Joins(s, k, f) == f = [i \in 1 .. k |-> IF i = 1 THEN s[i] ELSE f[i - 1] \o s[i]]

LEMMA JoinExists ==
    ASSUME NEW s, NEW n \in Nat
    PROVE  \E f : Joins(s, n, f)
<1> DEFINE T == {k \in Nat : ~\E f : Joins(s, k, f)}
<1>1. SUFFICES T = {}
  OBVIOUS
<1>2. SUFFICES ASSUME T # {} PROVE FALSE
  OBVIOUS
<1>3. PICK k \in T : \A j \in T : k <= j
  <2>1. T \in SUBSET Nat
    OBVIOUS
  <2> HIDE DEF T
  <2> QED BY <1>2, <2>1, LeastNatural
<1>4. k \in Nat /\ ~\E f : Joins(s, k, f)
  OBVIOUS
<1>5. CASE k = 0
  <2> DEFINE f == [i \in 1 .. 0 |-> 0]
  <2>1. f = [i \in 1 .. 0 |-> IF i = 1 THEN s[i] ELSE f[i - 1] \o s[i]]
    <3>1. 1 .. 0 = {}
      OBVIOUS
    <3> QED BY <3>1
  <2> QED BY <1>4, <1>5, <2>1 DEF Joins
<1>6. CASE k # 0
  <2>1. k - 1 \in Nat /\ ~(k <= k - 1)
    BY <1>4, <1>6
  <2>2. PICK f : Joins(s, k - 1, f)
    BY <1>3, <2>1
  <2> DEFINE g == [i \in 1 .. k |-> IF i = 1 THEN s[i] ELSE f[i - 1] \o s[i]]
  <2>3. \A i \in 1 .. k - 1 : f[i] = IF i = 1 THEN s[i] ELSE f[i - 1] \o s[i]
    BY <2>2 DEF Joins
  <2>4. \A i \in 1 .. k - 1 : i \in 1 .. k
    BY <1>4
  <2>5. \A i \in 1 .. k - 1 : g[i] = f[i]
    BY <2>3, <2>4
  <2>6. \A i \in 1 .. k : i # 1 => i - 1 \in 1 .. k - 1
    BY <1>4
  <2>7. \A i \in 1 .. k : i # 1 => f[i - 1] = g[i - 1]
    BY <2>5, <2>6
  <2>8. g = [i \in 1 .. k |-> IF i = 1 THEN s[i] ELSE g[i - 1] \o s[i]]
    BY <2>7
  <2> HIDE DEF g
  <2> QED BY <1>4, <2>8 DEF Joins
<1> QED BY <1>5, <1>6

(* What a chain of writes flattens to has the bytes that it weighs.         *)
LEMMA FlattenWeighs ==
    ASSUME NEW c \in Seq(Link), NEW n \in Nat, Weighs(c, n)
    PROVE  Len(FlattenSeq([i \in DOMAIN c |-> c[i].data])) = n
<1> DEFINE s == [i \in DOMAIN c |-> c[i].data]
           k == Len(c)
<1>1. k \in Nat /\ DOMAIN c = 1 .. k /\ \A i \in 1 .. k : c[i] \in Link
  BY LenProperties, ElementOfSeq
<1>2. \A i \in 1 .. k : s[i] = c[i].data /\ s[i] \in Seq(Units)
  BY <1>1 DEF Link
<1>3. s \in Seq(Seq(Units)) /\ Len(s) = k
  BY <1>1, <1>2
<1>4. PICK r : Sums(c, r) /\ r[1] = n
  BY DEF Weighs
<1>5. /\ r \in [1 .. k + 1 -> Nat] /\ r[k + 1] = 0
      /\ \A i \in 1 .. k : r[i] = Len(c[i].data) + r[i + 1]
  BY <1>4 DEF Sums
<1>6. \A i \in 1 .. k : r[i] = Len(s[i]) + r[i + 1] /\ r[i] \in Nat /\ r[i + 1] \in Nat
  BY <1>1, <1>2, <1>5
<1> HIDE DEF k, s
<1>7. CASE k = 0
  <2>1. FlattenSeq(s) = s
    BY <1>3, <1>7 DEF FlattenSeq
  <2> QED BY <1>3, <1>4, <1>5, <1>7, <2>1 DEF s
<1>8. CASE k # 0
  <2>1. PICK f : FlattenSeq(s) = f[k] /\ Joins(s, k, f)
    <3> DEFINE g == CHOOSE f : Joins(s, k, f)
    <3>1. Joins(s, k, g)
      BY <1>1, JoinExists
    <3>2. FlattenSeq(s) = g[k]
      BY <1>3, <1>8 DEF FlattenSeq, Joins
    <3> QED BY <3>1, <3>2
  <2> DEFINE Fits(i) == f[i] \in Seq(Units) /\ Len(f[i]) + r[i + 1] = n
             T == {i \in 1 .. k : ~Fits(i)}
  <2>2. T = {}
    <3> SUFFICES ASSUME T # {} PROVE FALSE
      OBVIOUS
    <3>1. PICK j \in T : \A i \in T : j <= i
      <4>1. T \in SUBSET Nat
        BY <1>1
      <4> HIDE DEF T
      <4> QED BY <4>1, LeastNatural
    <3>2. j \in 1 .. k /\ ~Fits(j)
      OBVIOUS
    <3>3. f[j] = IF j = 1 THEN s[j] ELSE f[j - 1] \o s[j]
      BY <2>1, <3>2 DEF Joins
    <3>4. CASE j = 1
      BY <1>2, <1>4, <1>6, <3>2, <3>3, <3>4
    <3>5. CASE j # 1
      <4>1. j - 1 \in 1 .. k /\ ~(j <= j - 1) /\ (j - 1) + 1 = j
        BY <1>1, <3>2, <3>5
      <4>2. Fits(j - 1)
        BY <3>1, <4>1
      <4>3. f[j - 1] \in Seq(Units) /\ Len(f[j - 1]) + r[j] = n
        BY <4>1, <4>2
      <4>4. s[j] \in Seq(Units) /\ r[j] = Len(s[j]) + r[j + 1] /\ r[j + 1] \in Nat
        BY <1>2, <1>6, <3>2
      <4>5. f[j] = f[j - 1] \o s[j]
        BY <3>3, <3>5
      <4>6. f[j] \in Seq(Units) /\ Len(f[j]) = Len(f[j - 1]) + Len(s[j])
        BY <4>3, <4>4, <4>5, ConcatProperties
      <4>7. Len(f[j - 1]) \in Nat /\ Len(s[j]) \in Nat
        BY <4>3, <4>4, LenProperties
      <4>8. Len(f[j]) + r[j + 1] = n
        <5> DEFINE x == Len(f[j - 1])
                   y == Len(s[j])
                   z == r[j + 1]
        <5>1. x \in Nat /\ y \in Nat /\ z \in Nat
          BY <4>4, <4>7
        <5>2. Len(f[j]) = x + y /\ r[j] = y + z /\ x + r[j] = n
          BY <4>3, <4>4, <4>6
        <5>3. n = x + (y + z)
          BY <5>2
        <5> HIDE DEF x, y, z
        <5>4. (x + y) + z = n
          BY <5>1, <5>3
        <5> QED BY <5>2, <5>4 DEF z
      <4> QED BY <3>2, <4>6, <4>8
    <3> QED BY <3>4, <3>5
  <2>3. k \in 1 .. k
    BY <1>1, <1>8
  <2>4. f[k] \in Seq(Units) /\ Len(f[k]) + r[k + 1] = n
    BY <2>2, <2>3
  <2>5. Len(f[k]) \in Nat
    BY <2>4, LenProperties
  <2> QED BY <1>5, <2>1, <2>4, <2>5 DEF s
<1> QED BY <1>7, <1>8

(* However foreground, background and waitForIdle writes overlap, every     *)
(* byte the backend is owed is queued, in flight, drawn or refused.         *)
THEOREM TerminalAccounts == GateMode # "collapse" => (Spec => []BytesAccounted)
<1>1. Inv => BytesAccounted
  <2> SUFFICES ASSUME Inv, Open PROVE BytesAccounted
    BY DEF BytesAccounted
  <2>1. /\ drain \in Drains /\ drain.writeQueue \in Seq(Link) /\ drain.writingBytes \in Nat
        /\ Weighs(drain.writeQueue, drain.writingBytes)
    BY DEF Inv, Sane, Solvent, Drains
  <2>2. drain.writingBytes = Len(InFlight)
    BY <2>1, FlattenWeighs DEF InFlight
  <2>3. /\ Len(drain.queue) \in Nat /\ drain.pendingAckBytes \in Nat
        /\ drain.backendUnackedBytes \in Nat /\ Len(failed) \in Nat
    BY <2>1, LenProperties DEF Drains, Inv
  <2>4. Lost(drain) = Len(failed)
    BY DEF Inv, Open
  <2>5. drain.backendUnackedBytes - Held(drain) = Len(failed) /\ Held(drain) \in Nat
    BY <2>1, <2>3, <2>4 DEF Lost, Held
  <2>6. drain.backendUnackedBytes = Held(drain) + Len(failed)
    BY <2>3, <2>5
  <2>7. drain.backendUnackedBytes =
           Len(drain.queue) + drain.writingBytes + drain.pendingAckBytes + Len(failed)
    BY <2>6 DEF Held
  <2> QED BY <2>2, <2>7 DEF BytesAccounted
<1> QED BY <1>1, TerminalInduction, PTL
-----------------------------------------------------------------------------
(* What the chain of writes says.                                           *)

Flat(c) == FlattenSeq([i \in DOMAIN c |-> c[i].data])

(* f[i] is what the first i links of c say.                                 *)
Spells(c, f) ==
    /\ \A i \in 1 .. Len(c) :
          f[i] \in Seq(Units) /\ f[i] = IF i = 1 THEN c[i].data ELSE f[i - 1] \o c[i].data
    /\ c # <<>> => Flat(c) = f[Len(c)]

LEMMA EmptyFlat == Flat(<<>>) = <<>>
<1> DEFINE s == [i \in DOMAIN <<>> |-> <<>>[i].data]
<1>1. s = <<>>
  OBVIOUS
<1>2. Len(s) = 0
  BY <1>1
<1> HIDE DEF s
<1>3. FlattenSeq(s) = s
  BY <1>2 DEF FlattenSeq
<1> QED BY <1>1, <1>3 DEF Flat, s

LEMMA ChainSpelled ==
    ASSUME NEW c \in Seq(Link)
    PROVE  \E f : Spells(c, f)
<1> DEFINE s == [i \in DOMAIN c |-> c[i].data]
           k == Len(c)
<1>1. k \in Nat /\ DOMAIN c = 1 .. k /\ \A i \in 1 .. k : c[i] \in Link
  BY LenProperties, ElementOfSeq
<1>2. \A i \in 1 .. k : s[i] = c[i].data /\ s[i] \in Seq(Units)
  BY <1>1 DEF Link
<1>3. s \in Seq(Seq(Units)) /\ Len(s) = k
  BY <1>1, <1>2
<1> HIDE DEF s
<1>4. CASE k = 0
  <2>1. c = <<>> /\ 1 .. Len(c) = {}
    BY <1>4, EmptySeq
  <2> QED BY <2>1 DEF Spells
<1>5. CASE k # 0
  <2>1. PICK f : FlattenSeq(s) = f[k] /\ Joins(s, k, f)
    <3> DEFINE g == CHOOSE f : Joins(s, k, f)
    <3>1. Joins(s, k, g)
      BY <1>1, JoinExists
    <3>2. FlattenSeq(s) = g[k]
      BY <1>3, <1>5 DEF FlattenSeq, Joins
    <3> QED BY <3>1, <3>2
  <2>2. \A i \in 1 .. k : f[i] = IF i = 1 THEN s[i] ELSE f[i - 1] \o s[i]
    BY <2>1 DEF Joins
  <2> DEFINE T == {i \in 1 .. k : f[i] \notin Seq(Units)}
  <2>3. T = {}
    <3> SUFFICES ASSUME T # {} PROVE FALSE
      OBVIOUS
    <3>1. PICK j \in T : \A i \in T : j <= i
      <4>1. T \in SUBSET Nat
        BY <1>1
      <4> HIDE DEF T
      <4> QED BY <4>1, LeastNatural
    <3>2. j \in 1 .. k /\ f[j] \notin Seq(Units)
      OBVIOUS
    <3>3. CASE j = 1
      BY <1>2, <2>2, <3>2, <3>3
    <3>4. CASE j # 1
      <4>1. j - 1 \in 1 .. k /\ ~(j <= j - 1)
        BY <1>1, <3>2, <3>4
      <4>2. f[j - 1] \in Seq(Units)
        BY <3>1, <4>1
      <4>3. f[j] = f[j - 1] \o s[j] /\ s[j] \in Seq(Units)
        BY <1>2, <2>2, <3>2, <3>4
      <4> QED BY <3>2, <4>2, <4>3, ConcatProperties
    <3> QED BY <3>3, <3>4
  <2>4. \A i \in 1 .. k : f[i] \in Seq(Units)
    BY <2>3
  <2>5. Flat(c) = f[k]
    BY <2>1 DEF Flat, s
  <2>6. \A i \in 1 .. Len(c) :
          f[i] \in Seq(Units) /\ f[i] = IF i = 1 THEN c[i].data ELSE f[i - 1] \o c[i].data
    BY <1>2, <2>2, <2>4
  <2> QED BY <2>5, <2>6 DEF Spells
<1> QED BY <1>4, <1>5

LEMMA FlatType ==
    ASSUME NEW c \in Seq(Link)
    PROVE  Flat(c) \in Seq(Units)
<1>1. CASE c = <<>>
  BY <1>1, EmptyFlat, EmptySeq
<1>2. CASE c # <<>>
  <2>1. PICK f : Spells(c, f)
    BY ChainSpelled
  <2>2. Len(c) \in 1 .. Len(c)
    BY <1>2, EmptySeq, LenProperties
  <2> QED BY <1>2, <2>1, <2>2 DEF Spells
<1> QED BY <1>1, <1>2

(* Two chains that begin alike say the same so far.                         *)
LEMMA SpellsAlike ==
    ASSUME NEW c \in Seq(Link), NEW b \in Seq(Link), NEW f, NEW g, Spells(c, f), Spells(b, g),
           Len(c) <= Len(b), \A i \in 1 .. Len(c) : b[i] = c[i]
    PROVE  \A i \in 1 .. Len(c) : g[i] = f[i]
<1>1. Len(c) \in Nat /\ Len(b) \in Nat
  BY LenProperties
<1> DEFINE T == {i \in 1 .. Len(c) : g[i] # f[i]}
<1>2. SUFFICES ASSUME T # {} PROVE FALSE
  OBVIOUS
<1>3. PICK j \in T : \A i \in T : j <= i
  <2>1. T \in SUBSET Nat
    BY <1>1
  <2> HIDE DEF T
  <2> QED BY <1>2, <2>1, LeastNatural
<1>4. j \in 1 .. Len(c) /\ j \in 1 .. Len(b) /\ g[j] # f[j]
  BY <1>1
<1>5. /\ f[j] = IF j = 1 THEN c[j].data ELSE f[j - 1] \o c[j].data
      /\ g[j] = IF j = 1 THEN b[j].data ELSE g[j - 1] \o b[j].data
  BY <1>4 DEF Spells
<1>6. CASE j = 1
  BY <1>4, <1>5, <1>6
<1>7. CASE j # 1
  <2>1. j - 1 \in 1 .. Len(c) /\ ~(j <= j - 1)
    BY <1>1, <1>4, <1>7
  <2>2. g[j - 1] = f[j - 1]
    BY <1>3, <2>1
  <2> QED BY <1>4, <1>5, <1>7, <2>2
<1> QED BY <1>6, <1>7

(* A link joins the chain.                                                  *)
LEMMA FlatAppend ==
    ASSUME NEW c \in Seq(Link), NEW l \in Link
    PROVE  Flat(Append(c, l)) = Flat(c) \o l.data
<1> DEFINE b == Append(c, l)
           k == Len(c)
<1>1. /\ b \in Seq(Link) /\ Len(b) = k + 1 /\ b # <<>> /\ b[k + 1] = l
      /\ \A i \in 1 .. k : b[i] = c[i]
  BY AppendProperties
<1>2. k \in Nat /\ l.data \in Seq(Units)
  BY LenProperties DEF Link
<1> HIDE DEF b
<1>3. PICK g : Spells(b, g)
  BY <1>1, ChainSpelled
<1>4. /\ Flat(b) = g[k + 1]
      /\ g[k + 1] = IF k + 1 = 1 THEN l.data ELSE g[(k + 1) - 1] \o l.data
  <2>1. k + 1 \in 1 .. Len(b)
    BY <1>1, <1>2
  <2> QED BY <1>1, <1>3, <2>1 DEF Spells
<1>5. CASE c = <<>>
  <2>1. k = 0
    BY <1>5
  <2>2. Flat(b) = l.data
    BY <1>4, <2>1
  <2>3. Flat(c) \o l.data = l.data
    BY <1>2, <1>5, EmptyFlat, ConcatEmptySeq
  <2> QED BY <2>2, <2>3 DEF b
<1>6. CASE c # <<>>
  <2>1. k \in 1 .. k /\ (k + 1) - 1 = k /\ k + 1 # 1
    BY <1>2, <1>6, EmptySeq
  <2>2. PICK f : Spells(c, f)
    BY ChainSpelled
  <2>3. \A i \in 1 .. k : g[i] = f[i]
    <3>1. Len(c) <= Len(b)
      BY <1>1, <1>2
    <3> QED BY <1>1, <1>3, <2>2, <3>1, SpellsAlike
  <2>4. Flat(c) = g[k]
    BY <1>6, <2>1, <2>2, <2>3 DEF Spells
  <2> QED BY <1>4, <2>1, <2>4 DEF b
<1> QED BY <1>5, <1>6

(* The head of the chain is said first.                                     *)
LEMMA FlatTail ==
    ASSUME NEW c \in Seq(Link), c # <<>>
    PROVE  /\ Head(c).data \in Seq(Units)
           /\ Flat(c) = Head(c).data \o Flat(Tail(c))
<1> DEFINE b == Tail(c)
           h == Head(c).data
           k == Len(c)
<1>1. /\ Head(c) \in Link /\ b \in Seq(Link) /\ Len(b) = k - 1
      /\ \A i \in 1 .. k - 1 : b[i] = c[i + 1]
  BY HeadTailProperties
<1>2. k \in Nat \ {0} /\ Head(c) = c[1] /\ h \in Seq(Units)
  BY <1>1, EmptySeq DEF Link
<1> HIDE DEF b
<1>3. PICK f : Spells(c, f)
  BY ChainSpelled
<1>4. PICK g : Spells(b, g)
  BY <1>1, ChainSpelled
<1>5. /\ Flat(c) = f[k] /\ f[1] = h
  <2>1. 1 \in 1 .. k
    BY <1>2
  <2> QED BY <1>2, <1>3, <2>1 DEF Spells
<1>6. CASE k = 1
  <2>1. b = <<>>
    BY <1>1, <1>6, EmptySeq
  <2>2. h \o Flat(b) = h
    BY <1>2, <2>1, EmptyFlat, ConcatEmptySeq
  <2> QED BY <1>2, <1>5, <1>6, <2>2 DEF b
<1>7. CASE k # 1
  <2> DEFINE T == {i \in 1 .. k - 1 : f[i + 1] # h \o g[i]}
  <2>1. T = {}
    <3> SUFFICES ASSUME T # {} PROVE FALSE
      OBVIOUS
    <3>1. PICK j \in T : \A i \in T : j <= i
      <4>1. 1 .. k - 1 \subseteq Nat
        BY <1>2
      <4>2. T \subseteq 1 .. k - 1
        OBVIOUS
      <4> HIDE DEF T
      <4> QED BY <4>1, <4>2, LeastNatural
    <3>2. j \in 1 .. k - 1 /\ f[j + 1] # h \o g[j]
      OBVIOUS
    <3> HIDE DEF T
    <3>3. /\ j + 1 \in 1 .. k /\ j \in 1 .. Len(b) /\ (j + 1) - 1 = j /\ j + 1 # 1
          /\ c[j + 1] = b[j]
      BY <1>1, <1>2, <3>2
    <3>4. f[j + 1] = f[j] \o b[j].data
      <4>1. f[j + 1] = f[(j + 1) - 1] \o c[j + 1].data
        BY <1>3, <3>3 DEF Spells
      <4> QED BY <3>3, <4>1
    <3>5. g[j] = IF j = 1 THEN b[j].data ELSE g[j - 1] \o b[j].data
      BY <1>4, <3>3 DEF Spells
    <3>6. b[j].data \in Seq(Units)
      <4>1. b[j] \in Link
        BY <1>1, <3>3, ElementOfSeq
      <4> QED BY <4>1 DEF Link
    <3>7. CASE j = 1
      BY <1>5, <3>2, <3>4, <3>5, <3>7
    <3>8. CASE j # 1
      <4>1. j - 1 \in 1 .. k - 1 /\ ~(j <= j - 1) /\ (j - 1) + 1 = j /\ j - 1 \in 1 .. Len(b)
        BY <1>1, <1>2, <3>2, <3>8
      <4>2. f[j] = h \o g[j - 1]
        <5>1. f[(j - 1) + 1] = h \o g[j - 1]
          BY <3>1, <4>1 DEF T
        <5> QED BY <4>1, <5>1
      <4>3. g[j - 1] \in Seq(Units)
        BY <1>4, <4>1 DEF Spells
      <4>4. (h \o g[j - 1]) \o b[j].data = h \o (g[j - 1] \o b[j].data)
        <5> DEFINE x == g[j - 1]
                   y == b[j].data
        <5>1. h \in Seq(Units) /\ x \in Seq(Units) /\ y \in Seq(Units)
          BY <1>2, <3>6, <4>3
        <5> HIDE DEF h, x, y
        <5>2. (h \o x) \o y = h \o (x \o y)
          BY <5>1, ConcatAssociative
        <5> QED BY <5>2 DEF x, y
      <4> QED BY <3>2, <3>4, <3>5, <3>8, <4>2, <4>4
    <3> QED BY <3>7, <3>8
  <2>2. k - 1 \in 1 .. k - 1 /\ (k - 1) + 1 = k
    BY <1>2, <1>7
  <2>3. f[k] = h \o g[k - 1]
    <3>1. f[(k - 1) + 1] = h \o g[k - 1]
      BY <2>1, <2>2
    <3> QED BY <2>2, <3>1
  <2>4. Flat(b) = g[k - 1]
    <3>1. b # <<>>
      BY <1>1, <2>2
    <3> QED BY <1>1, <1>4, <3>1 DEF Spells
  <2> QED BY <1>2, <1>5, <2>3, <2>4 DEF b
<1> QED BY <1>6, <1>7
-----------------------------------------------------------------------------
(* Subsequences.                                                            *)

(* s is q at the places in I, taken in their order by h.                    *)
Picks(q, I, s, h) ==
    /\ h \in [1 .. Len(s) -> I]
    /\ \A a, b \in 1 .. Len(s) : a < b => h[a] < h[b]
    /\ \A i \in I : \E k \in 1 .. Len(s) : h[k] = i
    /\ \A k \in 1 .. Len(s) : s[k] = q[h[k]]

Selects(q, I, s) == \E h : Picks(q, I, s, h)

LEMMA SelectedIs ==
    ASSUME NEW S, NEW q, NEW I \in SUBSET Nat, NEW s \in Seq(S), Selects(q, I, s)
    PROVE  Selected(q, I) = s
<1> DEFINE n == Len(s)
           low(i) == {j \in I : j <= i}
<1>1. n \in Nat /\ s = [k \in 1 .. n |-> s[k]]
  BY LenProperties
<1>2. PICK h : Picks(q, I, s, h)
  BY DEF Selects
<1>3. /\ h \in [1 .. n -> I] /\ \A a, b \in 1 .. n : a < b => h[a] < h[b]
      /\ \A i \in I : \E k \in 1 .. n : h[k] = i
      /\ \A k \in 1 .. n : s[k] = q[h[k]] /\ h[k] \in Nat
  BY <1>2 DEF Picks
<1> HIDE DEF n
<1>4. \A a, b \in 1 .. n : h[a] <= h[b] <=> a <= b
  BY <1>1, <1>3
<1>5. ASSUME NEW k \in 0 .. n
      PROVE  Cardinality({j \in I : \E a \in 1 .. k : h[a] = j}) = k
  <2> DEFINE T == {j \in I : \E a \in 1 .. k : h[a] = j}
             g == [a \in 1 .. k |-> h[a]]
  <2>1. \A a \in 1 .. k : a \in 1 .. n
    BY <1>1
  <2>2. \A a, b \in 1 .. k : h[a] = h[b] => a = b
    BY <1>1, <1>4, <2>1
  <2>3. g \in Bijection(1 .. k, T)
    <3>1. \A a \in 1 .. k : g[a] = h[a] /\ h[a] \in T
      BY <1>3, <2>1
    <3>2. g \in [1 .. k -> T]
      BY <3>1
    <3>3. \A j \in T : \E a \in 1 .. k : g[a] = j
      OBVIOUS
    <3>4. \A a, b \in 1 .. k : g[a] = g[b] => a = b
      BY <2>2, <3>1
    <3> HIDE DEF T, g
    <3>5. DOMAIN g = 1 .. k
      BY <3>2
    <3>6. g \in Injection(1 .. k, T)
      BY <3>2, <3>4, <3>5 DEF Injection, IsInjective
    <3>7. g \in Surjection(1 .. k, T)
      BY <3>2, <3>3 DEF Surjection
    <3> QED BY <3>6, <3>7 DEF Bijection
  <2> HIDE DEF T, g
  <2>4. ExistsBijection(1 .. k, T)
    BY <2>3 DEF ExistsBijection
  <2>5. Cardinality(T) = k
    <3>1. k \in Nat
      BY <1>1
    <3> QED BY <2>4, <3>1, FS_CountingElements
  <2> QED BY <2>5 DEF T
<1>6. Cardinality(I) = n
  <2>1. n \in 0 .. n
    BY <1>1
  <2>2. {j \in I : \E a \in 1 .. n : h[a] = j} = I
    BY <1>3
  <2> QED BY <1>5, <2>1, <2>2
<1>7. ASSUME NEW k \in 1 .. n PROVE Cardinality(low(h[k])) = k
  <2>1. low(h[k]) = {j \in I : \E a \in 1 .. k : h[a] = j}
    <3>1. ASSUME NEW j \in I, j <= h[k] PROVE \E a \in 1 .. k : h[a] = j
      <4>1. PICK a \in 1 .. n : h[a] = j
        BY <1>3
      <4>2. a \in 1 .. k
        BY <1>1, <1>4, <3>1, <4>1
      <4> QED BY <4>1, <4>2
    <3>2. ASSUME NEW a \in 1 .. k PROVE h[a] <= h[k]
      BY <1>1, <1>4
    <3> QED BY <3>1, <3>2
  <2>2. k \in 0 .. n
    BY <1>1
  <2> QED BY <1>5, <2>1, <2>2
<1>8. ASSUME NEW k \in 1 .. n
      PROVE  (CHOOSE i \in I : Cardinality({j \in I : j <= i}) = k) = h[k]
  <2>1. h[k] \in I /\ Cardinality({j \in I : j <= h[k]}) = k
    BY <1>3, <1>7
  <2>2. ASSUME NEW i \in I, Cardinality({j \in I : j <= i}) = k PROVE i = h[k]
    <3>1. PICK a \in 1 .. n : h[a] = i
      BY <1>3
    <3>2. Cardinality(low(h[a])) = a
      BY <1>7
    <3> QED BY <2>2, <3>1, <3>2
  <2> QED BY <2>1, <2>2
<1>9. Selected(q, I) = [k \in 1 .. n |-> s[k]]
  BY <1>3, <1>6, <1>8 DEF Selected
<1> QED BY <1>1, <1>9

(* A payload is drawn behind the rest.                                      *)
LEMMA PayloadSelects ==
    ASSUME NEW q \in Seq(Drawings), NEW u \in Seq(Units), NEW s \in Seq(Units),
           Selects(q, Shown(q), s)
    PROVE  /\ s \o u \in Seq(Units)
           /\ Selects(q \o u, Shown(q \o u), s \o u)
<1> DEFINE m == Len(q)
           n == Len(s)
           k == Len(u)
           p == q \o u
           t == s \o u
           I == Shown(q)
           J == Shown(p)
<1>1. /\ m \in Nat /\ n \in Nat /\ k \in Nat /\ DOMAIN q = 1 .. m
  BY LenProperties
<1>2. u \in Seq(Drawings)
  BY SeqMonotonic DEF Drawings
<1>3. /\ t \in Seq(Units) /\ Len(t) = n + k
      /\ \A i \in 1 .. n + k : t[i] = IF i <= n THEN s[i] ELSE u[i - n]
  BY ConcatProperties
<1>4. \A i \in 1 .. m + k : p[i] = IF i <= m THEN q[i] ELSE u[i - m]
  BY <1>2, ConcatProperties
<1>5. J = I \cup (m + 1 .. m + k) /\ I \subseteq 1 .. m
  BY <1>1, PayloadShown DEF Shown
<1>6. PICK h : Picks(q, I, s, h)
  BY DEF Selects
<1>7. /\ h \in [1 .. n -> I] /\ \A a, b \in 1 .. n : a < b => h[a] < h[b]
      /\ \A i \in I : \E a \in 1 .. n : h[a] = i
      /\ \A a \in 1 .. n : s[a] = q[h[a]] /\ h[a] \in 1 .. m
  BY <1>5, <1>6 DEF Picks
<1> DEFINE g == [a \in 1 .. n + k |-> IF a <= n THEN h[a] ELSE m + (a - n)]
<1> HIDE DEF m, n, k, p, t, I, J
<1>8. \A a \in 1 .. n + k : IF a <= n THEN a \in 1 .. n ELSE a - n \in 1 .. k /\ m + (a - n) \in m + 1 .. m + k
  BY <1>1
<1>9. g \in [1 .. n + k -> J]
  BY <1>5, <1>7, <1>8
<1>10. ASSUME NEW a \in 1 .. n + k, NEW b \in 1 .. n + k, a < b PROVE g[a] < g[b]
  <2>1. CASE b <= n
    BY <1>1, <1>7, <1>10, <2>1
  <2>2. CASE a <= n /\ ~(b <= n)
    <3>1. h[a] \in 1 .. m
      BY <1>7, <1>8, <2>2
    <3> QED BY <1>1, <2>2, <3>1
  <2>3. CASE ~(a <= n) /\ ~(b <= n)
    BY <1>1, <1>10, <2>3
  <2> QED BY <1>1, <1>10, <2>1, <2>2, <2>3
<1>11. ASSUME NEW i \in J PROVE \E a \in 1 .. n + k : g[a] = i
  <2>1. CASE i \in I
    <3>1. PICK a \in 1 .. n : h[a] = i
      BY <1>7, <2>1
    <3>2. a \in 1 .. n + k /\ a <= n
      BY <1>1
    <3> QED BY <3>1, <3>2
  <2>2. CASE i \in m + 1 .. m + k
    <3>1. n + (i - m) \in 1 .. n + k /\ ~(n + (i - m) <= n) /\ m + ((n + (i - m)) - n) = i
      BY <1>1, <2>2
    <3> QED BY <3>1
  <2> QED BY <1>5, <2>1, <2>2
<1>12. ASSUME NEW a \in 1 .. n + k PROVE t[a] = p[g[a]]
  <2>1. CASE a <= n
    <3>1. g[a] = h[a] /\ h[a] \in 1 .. m /\ t[a] = q[h[a]]
      BY <1>3, <1>7, <1>8, <2>1
    <3>2. h[a] \in 1 .. m + k /\ h[a] <= m
      BY <1>1, <3>1
    <3> QED BY <1>4, <3>1, <3>2
  <2>2. CASE ~(a <= n)
    <3>1. /\ g[a] = m + (a - n) /\ t[a] = u[a - n]
      BY <1>3, <2>2
    <3>2. m + (a - n) \in 1 .. m + k /\ ~(m + (a - n) <= m) /\ (m + (a - n)) - m = a - n
      BY <1>1, <2>2
    <3> QED BY <1>4, <3>1, <3>2
  <2> QED BY <2>1, <2>2
<1> HIDE DEF g
<1>13. Picks(p, J, t, g)
  BY <1>3, <1>9, <1>10, <1>11, <1>12 DEF Picks
<1>14. Selects(p, J, t)
  BY <1>13 DEF Selects
<1> QED BY <1>3, <1>14 DEF p, t, J

(* A notice is drawn: the bytes are the same.                               *)
LEMMA NoticeSelects ==
    ASSUME NEW q \in Seq(Drawings), NEW x \in Notices, NEW s, Selects(q, Shown(q), s)
    PROVE  Selects(Append(q, x), Shown(Append(q, x)), s)
<1> DEFINE p == Append(q, x)
<1>1. Shown(p) = Shown(q)
  BY NoticeShown
<1>2. \A i \in 1 .. Len(q) : p[i] = q[i]
  <2>1. x \in Drawings
    BY DEF Drawings
  <2> QED BY <2>1, AppendProperties
<1>3. Shown(q) \subseteq 1 .. Len(q)
  BY LenProperties DEF Shown
<1> HIDE DEF p
<1>4. PICK h : Picks(q, Shown(q), s, h)
  BY DEF Selects
<1>5. Picks(p, Shown(q), s, h)
  BY <1>2, <1>3, <1>4 DEF Picks
<1> QED BY <1>1, <1>5 DEF Selects, p
-----------------------------------------------------------------------------
(* What the drain still has to say: the chain of writes, then the queue.    *)

Says(d) == Flat(d.writeQueue) \o d.queue

(* The notices in e's chain were in d's.                                    *)
SameNotes(d, e) ==
    \A i \in DOMAIN e.writeQueue : ~IsPayload(e.writeQueue[i]) =>
        \E j \in DOMAIN d.writeQueue : d.writeQueue[j] = e.writeQueue[i]

(* d becomes e, which has u to say besides.                                 *)
Speaks(d, e, u) == Says(e) = Says(d) \o u /\ SameNotes(d, e)

Quiet(d, e) == Says(e) = Says(d) /\ SameNotes(d, e)

LEMMA SaysType ==
    ASSUME NEW d \in Drains
    PROVE  Says(d) \in Seq(Units)
<1>1. d.queue \in Seq(Units) /\ d.writeQueue \in Seq(Link)
  BY DEF Drains
<1>2. Flat(d.writeQueue) \in Seq(Units)
  BY <1>1, FlatType
<1> QED BY <1>1, <1>2, ConcatProperties DEF Says

LEMMA SameSays ==
    ASSUME NEW d, NEW e, e.queue = d.queue, e.writeQueue = d.writeQueue
    PROVE  Quiet(d, e)
  BY DEF Quiet, Says, SameNotes

LEMMA QuietTwice ==
    ASSUME NEW d, NEW f, NEW e, Quiet(d, f), Quiet(f, e)
    PROVE  Quiet(d, e)
  BY DEF Quiet, SameNotes

LEMMA SpeaksQuietly ==
    ASSUME NEW d, NEW f, NEW e, NEW u, Speaks(d, f, u), Quiet(f, e)
    PROVE  Speaks(d, e, u)
  BY DEF Speaks, Quiet, SameNotes

(* The front of the queue joins the end of the chain.                       *)
LEMMA PayloadQuiet ==
    ASSUME NEW d \in Drains, NEW max \in Nat \ {0}, dequeueOutputChunk(d, max) # <<>>,
           NEW then \in Nat
    PROVE  Quiet(d, writePayload(d, dequeueOutputChunk(d, max), then))
<1> DEFINE n == AtMost(max, Len(d.queue))
           p == dequeueOutputChunk(d, max)
           q == SubSeq(d.queue, Len(p) + 1, Len(d.queue))
           l == [data |-> p, then |-> then]
           c == d.writeQueue
           e == writePayload(d, p, then)
<1>1. d.queue \in Seq(Units) /\ Len(d.queue) \in Nat /\ c \in Seq(Link)
  BY LenProperties DEF Drains
<1>2. n \in 0 .. Len(d.queue)
  BY <1>1 DEF AtMost
<1>3. p = SubSeq(d.queue, 1, n)
  BY DEF dequeueOutputChunk
<1>4. e.queue = q /\ e.writeQueue = Append(c, l)
  BY DEF writePayload, Drains
<1> HIDE DEF n, e
<1>5. p \in Seq(Units) /\ Len(p) = n
  <2>1. \A i \in 1 .. n : d.queue[i] \in Units
    BY <1>1, <1>2, ElementOfSeq
  <2> HIDE DEF p
  <2>2. SubSeq(d.queue, 1, n) \in Seq(Units) /\ Len(SubSeq(d.queue, 1, n)) = IF 1 <= n THEN n - 1 + 1 ELSE 0
    BY <1>2, <2>1, SubSeqProperties
  <2> QED BY <1>2, <1>3, <2>2
<1>6. q \in Seq(Units) /\ p \o q = d.queue
  <2> DEFINE m == Len(d.queue)
  <2>1. \A i \in n + 1 .. m : d.queue[i] \in Units
    BY <1>1, <1>2, ElementOfSeq
  <2>2. n + 1 \in Int /\ m \in Int
    BY <1>1, <1>2
  <2>3. SubSeq(d.queue, n + 1, m) \in Seq(Units)
    BY <2>1, <2>2, SubSeqProperties
  <2>4. 1 \in 1 .. m + 1 /\ n \in 1 - 1 .. m /\ m \in n .. m
    BY <1>1, <1>2
  <2>5. SubSeq(d.queue, 1, n) \o SubSeq(d.queue, n + 1, m) = SubSeq(d.queue, 1, m)
    BY <1>1, <2>4, ConcatAdjacentSubSeq
  <2>6. SubSeq(d.queue, 1, m) = d.queue
    BY <1>1, SubSeqFull
  <2> QED BY <1>3, <1>5, <2>3, <2>5, <2>6
<1> HIDE DEF p, q
<1>7. l \in Link /\ l.data = p /\ IsPayload(l)
  BY <1>5 DEF Link, IsPayload, p
<1> HIDE DEF l
<1>8. Flat(Append(c, l)) = Flat(c) \o p /\ Flat(c) \in Seq(Units)
  BY <1>1, <1>7, FlatAppend, FlatType
<1>9. Says(e) = Says(d)
  <2>1. (Flat(c) \o p) \o q = Flat(c) \o (p \o q)
    <3> DEFINE x == Flat(c)
    <3>1. x \in Seq(Units) /\ p \in Seq(Units) /\ q \in Seq(Units)
      BY <1>5, <1>6, <1>8
    <3> HIDE DEF x
    <3>2. (x \o p) \o q = x \o (p \o q)
      BY <3>1, ConcatAssociative
    <3> QED BY <3>2 DEF x
  <2> QED BY <1>4, <1>6, <1>8, <2>1 DEF Says
<1>10. SameNotes(d, e)
  <2>1. /\ DOMAIN Append(c, l) = 1 .. Len(c) + 1 /\ DOMAIN c = 1 .. Len(c) /\ Len(c) \in Nat
        /\ \A i \in 1 .. Len(c) : Append(c, l)[i] = c[i]
        /\ Append(c, l)[Len(c) + 1] = l
    BY <1>1, <1>7, AppendProperties, LenProperties
  <2>2. ASSUME NEW i \in DOMAIN Append(c, l), ~IsPayload(Append(c, l)[i])
        PROVE  \E j \in DOMAIN c : c[j] = Append(c, l)[i]
    <3>1. i \in 1 .. Len(c)
      BY <1>7, <2>1, <2>2
    <3> QED BY <2>1, <3>1
  <2> QED BY <1>4, <2>2 DEF SameNotes
<1> QED BY <1>9, <1>10 DEF Quiet, e, p

LEMMA ScheduleQuiet ==
    ASSUME NEW d, Solvent(d), NEW fast \in BOOLEAN
    PROVE  Quiet(d, schedule(d, fast))
<1> DEFINE e == schedule(d, fast)
<1>1. Kept(d, e)
  BY SolventCovered, Scheduled
<1> HIDE DEF e
<1>2. Quiet(d, e)
  BY <1>1, SameSays DEF Kept
<1> QED BY <1>2 DEF e

LEMMA AckQuiet ==
    ASSUME NEW d, Solvent(d)
    PROVE  Quiet(d, flushPendingAck(d, TRUE))
<1> DEFINE e == flushPendingAck(d, TRUE)
<1>1. Kept(d, e)
  BY SolventCovered, FlushAck
<1> HIDE DEF e
<1>2. Quiet(d, e)
  BY <1>1, SameSays DEF Kept
<1> QED BY <1>2 DEF e

LEMMA FlushOneQuiet ==
    ASSUME NEW d, Solvent(d), NEW max \in Nat \ {0}, NEW fast \in BOOLEAN
    PROVE  Quiet(d, flushOne(d, max, fast))
<1> DEFINE p == dequeueOutputChunk(d, max)
<1>1. CASE d.writeInFlight \/ d.disposed
  BY <1>1, ScheduleQuiet DEF flushOne
<1>2. CASE ~(d.writeInFlight \/ d.disposed) /\ p = <<>>
  <2>1. flushOne(d, max, fast) = flushPendingAck(d, TRUE)
    BY <1>2 DEF flushOne
  <2> QED BY <2>1, AckQuiet
<1>3. CASE ~(d.writeInFlight \/ d.disposed) /\ p # <<>>
  <2>1. flushOne(d, max, fast) = writePayload(d, p, Scheduler)
    BY <1>3 DEF flushOne
  <2>2. Scheduler \in Nat /\ d \in Drains
    BY DEF Scheduler, Solvent
  <2> QED BY <1>3, <2>1, <2>2, PayloadQuiet
<1> QED BY <1>1, <1>2, <1>3

LEMMA ForegroundQuiet ==
    ASSUME NEW d, Solvent(d), NEW fast \in BOOLEAN
    PROVE  Quiet(d, flushForeground(d, fast))
  BY ScheduleQuiet, FlushOneQuiet, DrainAssumption DEF flushForeground

LEMMA BackgroundQuiet ==
    ASSUME NEW d, Solvent(d), NEW fast \in BOOLEAN
    PROVE  Quiet(d, flushBackground(d, fast))
<1>1. CASE d.mode # "background" \/ d.disposed
  BY <1>1, ScheduleQuiet DEF flushBackground
<1>2. CASE ~(d.mode # "background" \/ d.disposed)
  <2> DEFINE r == resolveBackgroundSchedule(d)
             m == IF r.backgroundCatchUp THEN CatchUpChunk ELSE BackgroundChunk
             e == flushOne(r, m, fast)
  <2>1. flushBackground(d, fast) = e
    BY <1>2 DEF flushBackground
  <2>2. r \in Drains /\ Kept(d, r) /\ Unpaid(d, r)
    BY Resolves DEF Solvent
  <2>3. m \in Nat \ {0}
    BY DrainAssumption
  <2> HIDE DEF r, m
  <2>4. SameBooks(d, r)
    BY <2>2, PaidBooks, UnpaidIsPaid DEF Solvent
  <2>5. Solvent(r)
    BY <2>2, <2>4 DEF Solvent, SameBooks
  <2>6. Quiet(r, e)
    BY <2>3, <2>5, FlushOneQuiet
  <2>7. Quiet(d, r)
    BY <2>2, SameSays DEF Kept
  <2> QED BY <2>1, <2>6, <2>7, QuietTwice
<1> QED BY <1>1, <1>2

(* The scheduler runs on a drain with other callbacks or another mode.      *)
LEMMA PreparedQuiet ==
    ASSUME NEW d, Solvent(d), NEW f \in Drains, SameChain(d, f), f.disposed = d.disposed,
           f.queue = d.queue, Unpaid(d, f)
    PROVE  Solvent(f) /\ Quiet(d, f)
<1>1. Prepared(d, f, 0)
  BY CallbacksPrepared DEF Solvent
<1> QED BY <1>1, PreparedSolvent, SameSays DEF SameChain

LEMMA FiresQuiet ==
    ASSUME NEW d, Solvent(d), NEW fast \in BOOLEAN
    PROVE  /\ Quiet(d, flushForeground([d EXCEPT !.foreground = FALSE], fast))
           /\ Quiet(d, flushBackground([d EXCEPT !.backgroundTimer = "none"], fast))
           /\ d.microtasks > 0 =>
                 Quiet(d, flushForeground([d EXCEPT !.microtasks = d.microtasks - 1,
                                                    !.microtaskPending = FALSE], fast))
<1>0. d \in Drains
  BY DEF Solvent
<1>1. Quiet(d, flushForeground([d EXCEPT !.foreground = FALSE], fast))
  <2> DEFINE f == [d EXCEPT !.foreground = FALSE]
  <2>1. f \in Drains /\ SameChain(d, f) /\ f.disposed = d.disposed /\ f.queue = d.queue /\ Unpaid(d, f)
    BY <1>0 DEF Drains, SameChain, Unpaid
  <2> HIDE DEF f
  <2>2. Quiet(d, flushForeground(f, fast))
    BY <2>1, PreparedQuiet, ForegroundQuiet, QuietTwice
  <2> QED BY <2>2 DEF f
<1>2. Quiet(d, flushBackground([d EXCEPT !.backgroundTimer = "none"], fast))
  <2> DEFINE f == [d EXCEPT !.backgroundTimer = "none"]
  <2>1. f \in Drains /\ SameChain(d, f) /\ f.disposed = d.disposed /\ f.queue = d.queue /\ Unpaid(d, f)
    BY <1>0 DEF Drains, SameChain, Unpaid
  <2> HIDE DEF f
  <2>2. Quiet(d, flushBackground(f, fast))
    BY <2>1, PreparedQuiet, BackgroundQuiet, QuietTwice
  <2> QED BY <2>2 DEF f
<1>3. ASSUME d.microtasks > 0
      PROVE  Quiet(d, flushForeground([d EXCEPT !.microtasks = d.microtasks - 1,
                                                !.microtaskPending = FALSE], fast))
  <2> DEFINE m == d.microtasks - 1
             f == [d EXCEPT !.microtasks = m, !.microtaskPending = FALSE]
  <2>0. m \in Nat
    BY <1>0, <1>3 DEF Drains
  <2> HIDE DEF m
  <2>1. f \in Drains /\ SameChain(d, f) /\ f.disposed = d.disposed /\ f.queue = d.queue /\ Unpaid(d, f)
    BY <1>0, <2>0 DEF Drains, SameChain, Unpaid
  <2> HIDE DEF f
  <2>2. Quiet(d, flushForeground(f, fast))
    BY <2>1, PreparedQuiet, ForegroundQuiet, QuietTwice
  <2> QED BY <2>2 DEF f, m
<1> QED BY <1>1, <1>2, <1>3

LEMMA SetModeQuiet ==
    ASSUME NEW d, Solvent(d), NEW mode \in Modes, NEW fast \in BOOLEAN, ~d.disposed
    PROVE  Quiet(d, setMode(d, mode, fast))
<1>0. d \in Drains
  BY DEF Solvent
<1>1. CASE d.mode = mode
  <2>1. setMode(d, mode, fast) = schedule(d, fast)
    BY <1>1 DEF setMode
  <2> QED BY <2>1, ScheduleQuiet
<1>2. CASE d.mode # mode
  <2> DEFINE entered == [d EXCEPT !.mode = mode]
             fg == IF mode # "foreground" THEN cancelForeground(entered) ELSE entered
             bg == IF mode # "background"
                   THEN [cancelBackground(fg) EXCEPT !.backgroundCatchUp = FALSE]
                   ELSE fg
  <2>1. setMode(d, mode, fast) = schedule(bg, fast)
    BY <1>2 DEF setMode
  <2>2. /\ entered \in Drains /\ SameChain(d, entered) /\ entered.disposed = d.disposed
        /\ entered.queue = d.queue /\ Unpaid(d, entered)
    BY <1>0 DEF Drains, SameChain, Unpaid
  <2> HIDE DEF entered
  <2>3. /\ fg \in Drains /\ SameChain(entered, fg) /\ fg.disposed = entered.disposed
        /\ fg.queue = entered.queue /\ Unpaid(entered, fg)
    BY <2>2 DEF Drains, SameChain, Unpaid, cancelForeground
  <2> HIDE DEF fg
  <2>4. /\ bg \in Drains /\ SameChain(fg, bg) /\ bg.disposed = fg.disposed
        /\ bg.queue = fg.queue /\ Unpaid(fg, bg)
    BY <2>3 DEF Drains, SameChain, Unpaid, cancelBackground
  <2> HIDE DEF bg
  <2>5. Solvent(bg) /\ Quiet(d, bg)
    <3>1. /\ SameChain(d, bg) /\ bg.disposed = d.disposed /\ bg.queue = d.queue /\ Unpaid(d, bg)
      BY <2>2, <2>3, <2>4 DEF SameChain, Unpaid
    <3> QED BY <2>4, <3>1, PreparedQuiet
  <2> QED BY <2>1, <2>5, ScheduleQuiet, QuietTwice
<1> QED BY <1>1, <1>2

(* Bytes join the queue.                                                    *)
LEMMA EnqueueSpeaks ==
    ASSUME NEW d, Solvent(d), NEW data \in Seq(Units), NEW fast \in BOOLEAN, ~d.disposed
    PROVE  Speaks(d, enqueue(d, data, fast), data)
<1>0. d \in Drains /\ Says(d) \in Seq(Units)
  BY SaysType DEF Solvent
<1>1. CASE data = <<>>
  <2>1. enqueue(d, data, fast) = d
    BY <1>1 DEF enqueue
  <2>2. Says(d) \o data = Says(d)
    BY <1>0, <1>1, ConcatEmptySeq
  <2> QED BY <2>1, <2>2 DEF Speaks, SameNotes
<1>2. CASE data # <<>>
  <2> DEFINE q == d.queue \o data
             b == d.backendUnackedBytes + Len(data)
             f == [d EXCEPT !.queue = q, !.backendUnackedBytes = b]
  <2>1. enqueue(d, data, fast) = schedule(f, fast)
    BY <1>2 DEF enqueue
  <2>2. /\ d.queue \in Seq(Units) /\ q \in Seq(Units) /\ Len(q) = Len(d.queue) + Len(data)
        /\ q = d.queue \o data /\ d.writeQueue \in Seq(Link)
    BY <1>0, ConcatProperties DEF Drains
  <2>3. b \in Nat /\ Len(data) \in Nat /\ b = d.backendUnackedBytes + Len(data)
    BY <1>0, LenProperties DEF Drains
  <2> HIDE DEF q, b
  <2>4. f \in Drains
    BY <1>0, <2>2, <2>3 DEF Drains
  <2>5. f.queue = q /\ f.backendUnackedBytes = b /\ f.writeQueue = d.writeQueue
    BY <1>0 DEF Drains
  <2>6. /\ SameChain(d, f) /\ f.disposed = d.disposed /\ f.ackTimer = d.ackTimer
        /\ f.pendingAckBytes = d.pendingAckBytes /\ f.onAck = d.onAck
    BY <1>0 DEF Drains, SameChain
  <2> HIDE DEF f
  <2>7. Solvent(f)
    <3>1. Prepared(d, f, Len(data))
      BY <2>2, <2>3, <2>4, <2>5, <2>6 DEF Prepared
    <3> QED BY <2>3, <3>1, PreparedSolvent
  <2>8. Speaks(d, f, data)
    <3>1. Flat(d.writeQueue) \in Seq(Units)
      BY <2>2, FlatType
    <3>2. (Flat(d.writeQueue) \o d.queue) \o data = Flat(d.writeQueue) \o (d.queue \o data)
      <4> DEFINE x == Flat(d.writeQueue)
                 y == d.queue
      <4>1. x \in Seq(Units) /\ y \in Seq(Units)
        BY <2>2, <3>1
      <4> HIDE DEF x, y
      <4>2. (x \o y) \o data = x \o (y \o data)
        BY <4>1, ConcatAssociative
      <4> QED BY <4>2 DEF x, y
    <3> QED BY <2>2, <2>5, <3>2 DEF Speaks, Says, SameNotes
  <2> QED BY <2>1, <2>7, <2>8, ScheduleQuiet, SpeaksQuietly
<1> QED BY <1>1, <1>2
-----------------------------------------------------------------------------
(* The waits and their notices.                                             *)

Settled(ws, n) == n \in DOMAIN ws /\ ws[n].pc \in {"idle", "timeout"}

(* A notice waits in the chain only once its wait is over.                  *)
Notes(c, ws) ==
    \A i \in DOMAIN c : ~IsPayload(c[i]) => Settled(ws, c[i].then - NoticeText(0))

(* The waits ws became v beside the drain e: what is over stays as it is,   *)
(* what begins waits for n units, and none becomes idle while e has         *)
(* something to say.                                                        *)
Grew(ws, v, n, e) ==
    /\ \A w \in DOMAIN ws :
          /\ w \in DOMAIN v /\ v[w].after = ws[w].after
          /\ Settled(ws, w) => v[w].pc = ws[w].pc
    /\ \A w \in DOMAIN v : w \notin DOMAIN ws => v[w].after = n
    /\ \A w \in DOMAIN v : v[w].pc = "idle" =>
          (w \in DOMAIN ws /\ ws[w].pc = "idle") \/ Says(e) = <<>>

(* The drain goes from d to e with the waits and says what it said.         *)
Hears(d, ws, e, v, n) ==
    Says(e) = Says(d) /\ Notes(e.writeQueue, v) /\ Grew(ws, v, n, e)

LEMMA GrewSame ==
    ASSUME NEW ws, NEW n, NEW e
    PROVE  Grew(ws, ws, n, e)
  BY DEF Grew

LEMMA NotesGrow ==
    ASSUME NEW c, NEW ws, NEW v, NEW n, NEW e, Notes(c, ws), Grew(ws, v, n, e)
    PROVE  Notes(c, v)
<1>1. ASSUME NEW w, Settled(ws, w) PROVE Settled(v, w)
  BY <1>1 DEF Settled, Grew
<1> QED BY <1>1 DEF Notes

LEMMA NotesKept ==
    ASSUME NEW d, NEW e, NEW ws, Notes(d.writeQueue, ws), SameNotes(d, e)
    PROVE  Notes(e.writeQueue, ws)
  BY DEF Notes, SameNotes

LEMMA QuietHears ==
    ASSUME NEW d, NEW e, NEW ws, NEW n, Notes(d.writeQueue, ws), Quiet(d, e)
    PROVE  Hears(d, ws, e, ws, n)
  BY GrewSame, NotesKept DEF Hears, Quiet

LEMMA QuietThenHears ==
    ASSUME NEW d, NEW f, NEW e, NEW ws, NEW v, NEW n, Quiet(d, f), Hears(f, ws, e, v, n)
    PROVE  Hears(d, ws, e, v, n)
  BY DEF Hears, Quiet

(* ws becomes v when call w goes on to pc.                                  *)
Moved(ws, v, w, pc) ==
    /\ DOMAIN v = DOMAIN ws /\ v[w].pc = pc /\ v[w].after = ws[w].after
    /\ \A u \in DOMAIN ws : u # w => v[u] = ws[u]

LEMMA WaitMoved ==
    ASSUME NEW ws \in Seq(Waits), NEW w \in DOMAIN ws, NEW pc
    PROVE  Moved(ws, [ws EXCEPT ![w].pc = pc], w, pc)
<1> DEFINE v == [ws EXCEPT ![w].pc = pc]
<1>1. ws[w] \in Waits
  BY ElementOfSeq, LenProperties
<1>2. DOMAIN v = DOMAIN ws /\ v[w] = [ws[w] EXCEPT !.pc = pc] /\ \A u \in DOMAIN ws : u # w => v[u] = ws[u]
  OBVIOUS
<1> HIDE DEF v
<1>3. v[w].pc = pc /\ v[w].after = ws[w].after
  BY <1>1, <1>2 DEF Waits
<1> QED BY <1>2, <1>3 DEF v, Moved

(* A wait that is not over goes on.                                         *)
LEMMA WaitMoves ==
    ASSUME NEW ws, NEW w \in DOMAIN ws, ~Settled(ws, w), NEW e, NEW n,
           NEW pc, pc = "idle" => Says(e) = <<>>, NEW v, Moved(ws, v, w, pc)
    PROVE  Grew(ws, v, n, e)
  BY DEF Moved, Grew, Settled

(* A notice joins the chain.                                                *)
LEMMA ExternalHeard ==
    ASSUME NEW d \in Drains, NEW ws, Notes(d.writeQueue, ws), NEW w \in Nat, Settled(ws, w)
    PROVE  LET e == writeExternal(d, NoticeText(w)) IN
           Says(e) = Says(d) /\ Notes(e.writeQueue, ws)
<1> DEFINE c == d.writeQueue
           l == [data |-> <<>>, then |-> NoticeText(w)]
           e == writeExternal(d, NoticeText(w))
<1>1. c \in Seq(Link) /\ Flat(c) \in Seq(Units)
  BY FlatType DEF Drains
<1>2. l \in Link /\ l.data = <<>> /\ l.then - NoticeText(0) = w
  BY EmptySeq DEF Link, NoticeText
<1>3. e.queue = d.queue /\ e.writeQueue = Append(c, l)
  BY DEF writeExternal, Drains
<1> HIDE DEF l, e
<1>4. Flat(Append(c, l)) = Flat(c)
  BY <1>1, <1>2, FlatAppend, ConcatEmptySeq
<1>5. Notes(Append(c, l), ws)
  <2>1. /\ DOMAIN Append(c, l) = 1 .. Len(c) + 1 /\ DOMAIN c = 1 .. Len(c) /\ Len(c) \in Nat
        /\ \A i \in 1 .. Len(c) : Append(c, l)[i] = c[i]
        /\ Append(c, l)[Len(c) + 1] = l
    BY <1>1, <1>2, AppendProperties, LenProperties
  <2>2. ASSUME NEW i \in DOMAIN Append(c, l), ~IsPayload(Append(c, l)[i])
        PROVE  Settled(ws, Append(c, l)[i].then - NoticeText(0))
    <3>1. CASE i \in 1 .. Len(c)
      BY <2>1, <2>2, <3>1 DEF Notes
    <3>2. CASE i = Len(c) + 1
      BY <1>2, <2>1, <3>2
    <3> QED BY <2>1, <3>1, <3>2
  <2> QED BY <2>2 DEF Notes
<1>6. Says(e) = Says(d)
  BY <1>3, <1>4 DEF Says
<1> QED BY <1>3, <1>5, <1>6 DEF e

(* Call w settles; with success only when there is nothing to say.          *)
LEMMA SettledHears ==
    ASSUME NEW d \in Drains, NEW ws \in Seq(Waits), Notes(d.writeQueue, ws), NEW n,
           NEW w \in DOMAIN ws, ~Settled(ws, w),
           NEW pc \in {"idle", "timeout"}, pc = "idle" => Says(d) = <<>>,
           NEW v, Moved(ws, v, w, pc),
           NEW e, e = d \/ e = writeExternal(d, NoticeText(w))
    PROVE  Hears(d, ws, e, v, n)
<1>1. Grew(ws, v, n, d) /\ w \in DOMAIN v /\ v[w].pc = pc
  BY WaitMoves DEF Moved
<1>2. Notes(d.writeQueue, v)
  BY <1>1, NotesGrow
<1>3. w \in Nat /\ Settled(v, w)
  BY <1>1, LenProperties DEF Settled
<1>4. Says(e) = Says(d) /\ Notes(e.writeQueue, v)
  BY <1>2, <1>3, ExternalHeard
<1>5. Grew(ws, v, n, e)
  BY <1>1, <1>4 DEF Grew
<1> QED BY <1>4, <1>5 DEF Hears

LEMMA SettleHears ==
    ASSUME NEW d \in Drains, NEW ws \in Seq(Waits), Notes(d.writeQueue, ws), NEW n,
           NEW w \in DOMAIN ws, ~Settled(ws, w)
    PROVE  /\ LET r == Settle(d, ws, w, FALSE) IN Hears(d, ws, r.drain, r.waits, n)
           /\ Says(d) = <<>> =>
                 LET r == Settle(d, ws, w, TRUE) IN Hears(d, ws, r.drain, r.waits, n)
<1> DEFINE r == Settle(d, ws, w, FALSE)
           t == Settle(d, ws, w, TRUE)
<1>1. /\ Moved(ws, r.waits, w, "timeout")
      /\ r.drain = d \/ r.drain = writeExternal(d, NoticeText(w))
  BY WaitMoved DEF Settle
<1>2. /\ Moved(ws, t.waits, w, "idle")
      /\ t.drain = d \/ t.drain = writeExternal(d, NoticeText(w))
  BY WaitMoved DEF Settle
<1> HIDE DEF r, t
<1>3. Hears(d, ws, r.drain, r.waits, n)
  BY <1>1, SettledHears
<1>4. ASSUME Says(d) = <<>> PROVE Hears(d, ws, t.drain, t.waits, n)
  BY <1>2, <1>4, SettledHears
<1> QED BY <1>3, <1>4 DEF r, t

(* With an empty queue and nothing being written there is nothing to say.   *)
LEMMA NothingSaid ==
    ASSUME NEW d, NEW ws, Sane(d, ws), d.queue = <<>>, ~(d.writingBytes > 0)
    PROVE  Says(d) = <<>>
<1>1. d.writeQueue \in Seq(Link) /\ d.writingBytes = 0 /\ Weighs(d.writeQueue, 0)
  <2>1. d.writeQueue \in Seq(Link) /\ d.writingBytes \in Nat /\ Weighs(d.writeQueue, d.writingBytes)
    BY DEF Sane, Solvent, Drains
  <2>2. d.writingBytes = 0
    BY <2>1
  <2> QED BY <2>1, <2>2
<1>2. Len(Flat(d.writeQueue)) = 0
  BY <1>1, FlattenWeighs DEF Flat
<1>3. Flat(d.writeQueue) \in Seq(Units)
  BY <1>1, FlatType
<1>4. Flat(d.writeQueue) = <<>>
  BY <1>2, <1>3, EmptySeq
<1> QED BY <1>3, <1>4, ConcatEmptySeq DEF Says

(* Call w polls.                                                            *)
LEMMA PollHears ==
    ASSUME NEW d, NEW ws, Sane(d, ws), Notes(d.writeQueue, ws), NEW n,
           NEW w \in DOMAIN ws, ~Settled(ws, w)
    PROVE  LET r == Poll(d, ws, w) IN Hears(d, ws, r.drain, r.waits, n)
<1> DEFINE r == Poll(d, ws, w)
<1>1. d \in Drains /\ ws \in Seq(Waits) /\ Solvent(d)
  BY DEF Sane, Solvent
<1>2. w \in Nat
  BY <1>1, LenProperties
<1>3. CASE d.queue # <<>>
  <2> DEFINE p == dequeueOutputChunk(d, WriteChunk)
             e == writePayload(d, p, w)
             v == [ws EXCEPT ![w].pc = "writing"]
  <2>1. r.drain = e /\ r.waits = v
    BY <1>3 DEF Poll
  <2>2. p # <<>>
    BY <1>1, <1>3, Dequeued, DrainAssumption
  <2>3. Quiet(d, e)
    BY <1>1, <1>2, <2>2, PayloadQuiet, DrainAssumption
  <2> HIDE DEF e, r
  <2>4. Grew(ws, v, n, e)
    <3>1. Moved(ws, v, w, "writing")
      BY <1>1, WaitMoved
    <3> HIDE DEF v
    <3> QED BY <3>1, WaitMoves
  <2> HIDE DEF v
  <2>5. Notes(e.writeQueue, v)
    BY <2>3, <2>4, NotesKept, NotesGrow DEF Quiet
  <2> QED BY <2>1, <2>3, <2>4, <2>5 DEF Hears, Quiet, r
<1>4. CASE d.queue = <<>> /\ (d.writeInFlight \/ d.writingBytes > 0)
  <2> DEFINE v == [ws EXCEPT ![w].pc = "polling"]
  <2>1. r.drain = d /\ r.waits = v
    BY <1>4 DEF Poll
  <2>2. Grew(ws, v, n, d)
    <3>1. Moved(ws, v, w, "polling")
      BY <1>1, WaitMoved
    <3> HIDE DEF v
    <3> QED BY <3>1, WaitMoves
  <2> HIDE DEF v, r
  <2>3. Notes(d.writeQueue, v)
    BY <2>2, NotesGrow
  <2> QED BY <2>1, <2>2, <2>3 DEF Hears, r
<1>5. CASE d.queue = <<>> /\ ~(d.writeInFlight \/ d.writingBytes > 0)
  <2> DEFINE e == flushPendingAck(d, TRUE)
  <2>1. r = Settle(e, ws, w, TRUE)
    BY <1>5 DEF Poll
  <2>2. Sane(e, ws) /\ Kept(d, e)
    BY AckSane
  <2> HIDE DEF e, r
  <2>3. Quiet(d, e) /\ Notes(e.writeQueue, ws) /\ e \in Drains
    BY <2>2, SameSays DEF Kept, Sane, Solvent
  <2>4. Says(e) = <<>>
    <3>1. Says(d) = <<>>
      BY <1>5, NothingSaid
    <3> QED BY <2>3, <3>1 DEF Quiet
  <2>5. Hears(e, ws, r.drain, r.waits, n)
    BY <1>1, <2>1, <2>3, <2>4, SettleHears
  <2> QED BY <2>3, <2>5, QuietThenHears DEF r
<1> QED BY <1>3, <1>4, <1>5

LEMMA PolledHears ==
    ASSUME NEW d, Sane(d, waits), Notes(d.writeQueue, waits), NEW n,
           NEW w \in DOMAIN waits, ~Settled(waits, w),
           NEW expired \in BOOLEAN, PollOrExpire(d, w, expired)
    PROVE  Hears(d, waits, drain', waits', n)
<1>0. d \in Drains /\ waits \in Seq(Waits)
  BY DEF Sane, Solvent
<1>1. CASE expired
  <2> DEFINE r == Settle(d, waits, w, FALSE)
  <2>1. drain' = r.drain /\ waits' = r.waits
    BY <1>1, Zenon DEF PollOrExpire
  <2>2. Hears(d, waits, r.drain, r.waits, n)
    BY <1>0, SettleHears
  <2> QED BY <2>1, <2>2
<1>2. CASE ~expired
  <2> DEFINE r == Poll(d, waits, w)
  <2>1. drain' = r.drain /\ waits' = r.waits
    BY <1>2 DEF PollOrExpire
  <2>2. Hears(d, waits, r.drain, r.waits, n)
    BY PollHears
  <2> QED BY <2>1, <2>2
<1> QED BY <1>1, <1>2

(* After the answer of xterm the scheduler or the wait goes on.             *)
LEMMA SettlesHear ==
    ASSUME Sane(drain, waits), ~drain.disposed, drain.writeQueue # <<>>,
           IsPayload(Head(drain.writeQueue)), Notes(drain.writeQueue, waits), NEW n,
           NEW e, NEW drawn \in Nat, NEW refused \in Nat,
           Answered(drain, e, waits, drawn, refused), WriteSettles(e)
    PROVE  /\ Head(drain.writeQueue).data \in Seq(Units)
           /\ Says(drain) = Head(drain.writeQueue).data \o Says(drain')
           /\ Notes(drain'.writeQueue, waits') /\ Grew(waits, waits', n, drain')
<1> DEFINE then == Head(drain.writeQueue).then
           u == Head(drain.writeQueue).data
           c == drain.writeQueue
<1>1. /\ Sane(e, waits) /\ Solvent(e) /\ e \in Drains
      /\ e.writeQueue = Tail(c) /\ e.queue = drain.queue
  BY DEF Answered, Sane, Solvent
<1>2. c \in Seq(Link) /\ Tail(c) \in Seq(Link) /\ drain.queue \in Seq(Units)
  <2>1. c \in Seq(Link) /\ drain.queue \in Seq(Units)
    BY DEF Sane, Solvent, Drains
  <2> QED BY <2>1, HeadTailProperties
<1>3. u \in Seq(Units) /\ Flat(c) = u \o Flat(Tail(c)) /\ Flat(Tail(c)) \in Seq(Units)
  BY <1>2, FlatTail, FlatType
<1>4. Says(drain) = u \o Says(e)
  <2> DEFINE x == Flat(Tail(c))
             y == drain.queue
  <2>1. u \in Seq(Units) /\ x \in Seq(Units) /\ y \in Seq(Units)
    BY <1>2, <1>3
  <2>2. Says(drain) = (u \o x) \o y /\ Says(e) = x \o y
    BY <1>1, <1>3 DEF Says
  <2> HIDE DEF u, x, y
  <2>3. (u \o x) \o y = u \o (x \o y)
    BY <2>1, ConcatAssociative
  <2> QED BY <2>2, <2>3
<1>5. Notes(e.writeQueue, waits)
  <2>1. /\ DOMAIN Tail(c) = 1 .. Len(c) - 1 /\ DOMAIN c = 1 .. Len(c) /\ Len(c) \in Nat
        /\ \A j \in 1 .. Len(c) - 1 : Tail(c)[j] = c[j + 1]
    BY <1>2, HeadTailProperties, LenProperties
  <2>2. \A j \in DOMAIN Tail(c) : j + 1 \in DOMAIN c /\ Tail(c)[j] = c[j + 1]
    BY <2>1
  <2> QED BY <1>1, <2>2 DEF Notes
<1> HIDE DEF u
<1>6. Hears(e, waits, drain', waits', n)
  <2>1. CASE then = Scheduler
    <3>1. PICK fast \in BOOLEAN : drain' = schedule(e, fast) /\ waits' = waits
      BY <2>1 DEF WriteSettles, DrainBecomes
    <3> QED BY <1>1, <1>5, <3>1, ScheduleQuiet, QuietHears
  <2>2. CASE then # Scheduler
    <3> DEFINE f == flushPendingAck(e, TRUE)
    <3>1. PICK expired \in BOOLEAN : PollOrExpire(f, then, expired)
      BY <2>2 DEF WriteSettles, Expirations
    <3>2. Sane(f, waits) /\ Quiet(e, f)
      BY <1>1, AckSane, AckQuiet
    <3>3. Notes(f.writeQueue, waits)
      BY <1>5, <3>2, NotesKept DEF Quiet
    <3> HIDE DEF f
    <3>4. then \in DOMAIN waits /\ ~Settled(waits, then)
      <4>1. 1 \in DOMAIN c /\ Head(c) = c[1]
        BY <1>2, EmptySeq, LenProperties, HeadTailProperties
      <4> QED BY <2>2, <4>1 DEF Sane, Linked, Settled
    <3> HIDE DEF then
    <3>5. Hears(f, waits, drain', waits', n)
      BY <3>1, <3>2, <3>3, <3>4, PolledHears
    <3> QED BY <3>2, <3>5, QuietThenHears
  <2> QED BY <2>1, <2>2
<1> QED BY <1>3, <1>4, <1>6 DEF Hears, u
-----------------------------------------------------------------------------
(* The order of the output.                                                 *)

(* The units are numbered as they arrive, u on from n.                      *)
Numbered(u, n) == \A i \in 1 .. Len(u) : u[i].pos = n + i

(* l holds what arrived in R and is not among the refused F, in order.      *)
Order(R, F, l) ==
    /\ \A a, b \in 1 .. Len(l) : a < b => l[a].pos < l[b].pos
    /\ \A k \in 1 .. Len(l) :
          l[k].pos \in 1 .. Len(R) /\ l[k] = R[l[k].pos] /\ ~Contains(F, l[k])
    /\ \A i \in 1 .. Len(R) : Contains(F, R[i]) \/ Contains(l, R[i])
    /\ \A j \in 1 .. Len(F) : F[j].pos \in 1 .. Len(R)

LEMMA ContainsConcat ==
    ASSUME NEW S, NEW s \in Seq(S), NEW t \in Seq(S), NEW x
    PROVE  Contains(s \o t, x) <=> Contains(s, x) \/ Contains(t, x)
<1> DEFINE m == Len(s)
           n == Len(t)
           p == s \o t
<1>1. m \in Nat /\ n \in Nat /\ Len(p) = m + n
      /\ \A i \in 1 .. m + n : p[i] = IF i <= m THEN s[i] ELSE t[i - m]
  BY ConcatProperties, LenProperties
<1> HIDE DEF m, n, p
<1>2. ASSUME Contains(p, x) PROVE Contains(s, x) \/ Contains(t, x)
  <2>1. PICK i \in 1 .. m + n : p[i] = x
    BY <1>1, <1>2 DEF Contains
  <2>2. CASE i <= m
    <3>1. i \in 1 .. m /\ s[i] = x
      BY <1>1, <2>1, <2>2
    <3> QED BY <3>1 DEF Contains, m
  <2>3. CASE ~(i <= m)
    <3>1. i - m \in 1 .. n /\ t[i - m] = x
      BY <1>1, <2>1, <2>3
    <3> QED BY <3>1 DEF Contains, n
  <2> QED BY <2>2, <2>3
<1>3. ASSUME Contains(s, x) PROVE Contains(p, x)
  <2>1. PICK i \in 1 .. m : s[i] = x
    BY <1>3 DEF Contains, m
  <2>2. i \in 1 .. Len(p) /\ p[i] = x
    BY <1>1, <2>1
  <2> QED BY <2>2 DEF Contains
<1>4. ASSUME Contains(t, x) PROVE Contains(p, x)
  <2>1. PICK i \in 1 .. n : t[i] = x
    BY <1>4 DEF Contains, n
  <2>2. m + i \in 1 .. m + n /\ ~(m + i <= m) /\ (m + i) - m = i
    BY <1>1, <2>1
  <2>3. m + i \in 1 .. Len(p) /\ p[m + i] = x
    BY <1>1, <2>1, <2>2
  <2> QED BY <2>3 DEF Contains
<1> QED BY <1>2, <1>3, <1>4 DEF p

(* Output arrives.                                                          *)
LEMMA OrderGrows ==
    ASSUME NEW R \in Seq(Units), NEW F \in Seq(Units), NEW l \in Seq(Units), NEW u \in Seq(Units),
           Order(R, F, l), Numbered(u, Len(R))
    PROVE  Order(R \o u, F, l \o u)
<1> DEFINE r == Len(R)
           m == Len(l)
           n == Len(u)
           Q == R \o u
           p == l \o u
<1>1. r \in Nat /\ m \in Nat /\ n \in Nat
  BY LenProperties
<1>2. /\ Len(Q) = r + n /\ Len(p) = m + n
      /\ \A i \in 1 .. r + n : Q[i] = IF i <= r THEN R[i] ELSE u[i - r]
      /\ \A i \in 1 .. m + n : p[i] = IF i <= m THEN l[i] ELSE u[i - m]
  BY ConcatProperties
<1>3. /\ \A a, b \in 1 .. m : a < b => l[a].pos < l[b].pos
      /\ \A k \in 1 .. m : l[k].pos \in 1 .. r /\ l[k] = R[l[k].pos] /\ ~Contains(F, l[k])
      /\ \A i \in 1 .. r : Contains(F, R[i]) \/ Contains(l, R[i])
      /\ \A j \in 1 .. Len(F) : F[j].pos \in 1 .. r
  BY DEF Order
<1>4. \A i \in 1 .. n : u[i].pos = r + i
  BY DEF Numbered
<1>5. \A x : Contains(p, x) <=> Contains(l, x) \/ Contains(u, x)
  BY ContainsConcat
<1> HIDE DEF r, m, n, Q, p
<1>6. ASSUME NEW k \in 1 .. m + n PROVE IF k <= m THEN p[k] = l[k] /\ k \in 1 .. m
                                        ELSE p[k] = u[k - m] /\ k - m \in 1 .. n /\ p[k].pos = r + (k - m)
  <2>1. CASE k <= m
    BY <1>1, <1>2, <2>1
  <2>2. CASE ~(k <= m)
    <3>1. k - m \in 1 .. n /\ p[k] = u[k - m]
      BY <1>1, <1>2, <2>2
    <3>2. u[k - m].pos = r + (k - m)
      BY <1>4, <3>1
    <3> QED BY <2>2, <3>1, <3>2
  <2> QED BY <2>1, <2>2
<1>7. ASSUME NEW a \in 1 .. m + n, NEW b \in 1 .. m + n, a < b PROVE p[a].pos < p[b].pos
  <2>1. CASE b <= m
    <3>1. a <= m
      BY <1>1, <1>7, <2>1
    <3> QED BY <1>3, <1>6, <1>7, <2>1, <3>1
  <2>2. CASE a <= m /\ ~(b <= m)
    <3>1. p[a].pos \in 1 .. r /\ p[b].pos = r + (b - m) /\ b - m \in 1 .. n
      BY <1>3, <1>6, <2>2
    <3>2. p[a].pos <= r /\ p[a].pos \in Int /\ r \in Int
      BY <1>1, <3>1
    <3>3. p[b].pos > r
      BY <1>1, <3>1
    <3> QED BY <1>1, <3>1, <3>2, <3>3
  <2>3. CASE ~(a <= m) /\ ~(b <= m)
    <3>1. p[a].pos = r + (a - m) /\ p[b].pos = r + (b - m)
      BY <1>6, <2>3
    <3> QED BY <1>1, <1>7, <3>1
  <2> QED BY <1>1, <1>7, <2>1, <2>2, <2>3
<1>8. ASSUME NEW k \in 1 .. m + n
      PROVE  p[k].pos \in 1 .. r + n /\ p[k] = Q[p[k].pos] /\ ~Contains(F, p[k])
  <2>1. CASE k <= m
    <3>1. p[k] = l[k] /\ l[k].pos \in 1 .. r /\ l[k] = R[l[k].pos] /\ ~Contains(F, l[k])
      BY <1>3, <1>6, <2>1
    <3>2. l[k].pos \in 1 .. r + n /\ l[k].pos <= r
      BY <1>1, <3>1
    <3> QED BY <1>2, <3>1, <3>2
  <2>2. CASE ~(k <= m)
    <3>1. p[k] = u[k - m] /\ k - m \in 1 .. n /\ p[k].pos = r + (k - m)
      BY <1>6, <2>2
    <3>2. /\ p[k].pos \in 1 .. r + n /\ ~(p[k].pos <= r) /\ p[k].pos - r = k - m
          /\ p[k].pos \notin 1 .. r
      BY <1>1, <3>1
    <3>3. p[k] = Q[p[k].pos]
      BY <1>2, <3>1, <3>2
    <3>4. ~Contains(F, p[k])
      BY <1>3, <3>2 DEF Contains
    <3> QED BY <3>2, <3>3, <3>4
  <2> QED BY <2>1, <2>2
<1>9. ASSUME NEW i \in 1 .. r + n PROVE Contains(F, Q[i]) \/ Contains(p, Q[i])
  <2>1. CASE i <= r
    <3>1. i \in 1 .. r /\ Q[i] = R[i]
      BY <1>1, <1>2, <2>1
    <3> QED BY <1>3, <1>5, <3>1
  <2>2. CASE ~(i <= r)
    <3>1. i - r \in 1 .. n /\ Q[i] = u[i - r]
      BY <1>1, <1>2, <2>2
    <3>2. Contains(u, Q[i])
      BY <3>1 DEF Contains, n
    <3> QED BY <1>5, <3>2
  <2> QED BY <2>1, <2>2
<1>10. ASSUME NEW j \in 1 .. Len(F) PROVE F[j].pos \in 1 .. r + n
  <2>1. F[j].pos \in 1 .. r
    BY <1>3
  <2> QED BY <1>1, <2>1
<1>11. Order(Q, F, p)
  BY <1>2, <1>7, <1>8, <1>9, <1>10 DEF Order
<1> QED BY <1>11 DEF Q, p

(* Output is refused.                                                       *)
LEMMA OrderCut ==
    ASSUME NEW R \in Seq(Units), NEW F \in Seq(Units), NEW s \in Seq(Units), NEW u \in Seq(Units),
           NEW t \in Seq(Units), Order(R, F, s \o (u \o t))
    PROVE  Order(R, F \o u, s \o t)
<1> DEFINE m == Len(s)
           n == Len(u)
           k == Len(t)
           v == u \o t
           l == s \o v
           p == s \o t
           G == F \o u
           at(i) == IF i <= m THEN i ELSE i + n
<1>1. m \in Nat /\ n \in Nat /\ k \in Nat
  BY LenProperties
<1>2. /\ v \in Seq(Units) /\ Len(v) = n + k
      /\ \A i \in 1 .. n + k : v[i] = IF i <= n THEN u[i] ELSE t[i - n]
  BY ConcatProperties
<1> HIDE DEF v
<1>3. /\ Len(l) = m + Len(v)
      /\ \A i \in 1 .. m + Len(v) : l[i] = IF i <= m THEN s[i] ELSE v[i - m]
  BY <1>2, ConcatProperties
<1>4. /\ Len(p) = m + k
      /\ \A i \in 1 .. m + k : p[i] = IF i <= m THEN s[i] ELSE t[i - m]
  BY ConcatProperties
<1>5. Order(R, F, l)
  BY DEF v
<1>6. \A x : /\ Contains(G, x) <=> Contains(F, x) \/ Contains(u, x)
             /\ Contains(l, x) <=> Contains(s, x) \/ Contains(v, x)
             /\ Contains(v, x) <=> Contains(u, x) \/ Contains(t, x)
             /\ Contains(p, x) <=> Contains(s, x) \/ Contains(t, x)
  BY <1>2, ContainsConcat DEF v
<1> DEFINE N == m + (n + k)
<1>7. /\ Len(l) = N
      /\ \A a, b \in 1 .. N : a < b => l[a].pos < l[b].pos
      /\ \A i \in 1 .. N : l[i].pos \in 1 .. Len(R) /\ l[i] = R[l[i].pos] /\ ~Contains(F, l[i])
      /\ \A i \in 1 .. Len(R) : Contains(F, R[i]) \/ Contains(l, R[i])
      /\ \A j \in 1 .. Len(F) : F[j].pos \in 1 .. Len(R)
  BY <1>2, <1>3, <1>5 DEF Order
<1>8. \A j \in 1 .. n : m + j \in 1 .. N /\ l[m + j] = u[j]
  <2> SUFFICES ASSUME NEW j \in 1 .. n PROVE m + j \in 1 .. N /\ l[m + j] = u[j]
    OBVIOUS
  <2>1. m + j \in 1 .. N /\ ~(m + j <= m) /\ (m + j) - m = j /\ j \in 1 .. n + k /\ j <= n
    BY <1>1
  <2>2. l[m + j] = v[j] /\ v[j] = u[j]
    BY <1>2, <1>3, <2>1
  <2> QED BY <2>1, <2>2
<1>9. \A i \in 1 .. m + k : at(i) \in 1 .. N /\ p[i] = l[at(i)] /\ \A j \in 1 .. n : at(i) # m + j
  <2> SUFFICES ASSUME NEW i \in 1 .. m + k
               PROVE  at(i) \in 1 .. N /\ p[i] = l[at(i)] /\ \A j \in 1 .. n : at(i) # m + j
    OBVIOUS
  <2>1. CASE i <= m
    <3>1. at(i) = i /\ i \in 1 .. N /\ \A j \in 1 .. n : i # m + j
      BY <1>1, <2>1
    <3>2. p[i] = s[i] /\ l[i] = s[i]
      BY <1>2, <1>3, <1>4, <2>1, <3>1
    <3> QED BY <3>1, <3>2
  <2>2. CASE ~(i <= m)
    <3>1. /\ at(i) = i + n /\ i + n \in 1 .. N /\ ~(i + n <= m) /\ (i + n) - m = (i - m) + n
          /\ (i - m) + n \in 1 .. n + k /\ ~((i - m) + n <= n) /\ ((i - m) + n) - n = i - m
          /\ \A j \in 1 .. n : i + n # m + j
      BY <1>1, <2>2
    <3>2. p[i] = t[i - m] /\ l[i + n] = v[(i - m) + n] /\ v[(i - m) + n] = t[i - m]
      BY <1>2, <1>3, <1>4, <2>2, <3>1
    <3> QED BY <3>1, <3>2
  <2> QED BY <2>1, <2>2
<1>10. \A a, b \in 1 .. m + k : a < b => at(a) < at(b)
  BY <1>1
<1>11. \A a, b \in 1 .. N : l[a] = l[b] => a = b
  <2> SUFFICES ASSUME NEW a \in 1 .. N, NEW b \in 1 .. N, l[a] = l[b], a # b PROVE FALSE
    OBVIOUS
  <2>1. l[a].pos \in Int /\ l[a].pos = l[b].pos
    BY <1>7
  <2>2. a < b \/ b < a
    BY <1>1
  <2>3. l[a].pos < l[b].pos \/ l[b].pos < l[a].pos
    BY <1>7, <2>2
  <2>4. ASSUME NEW x \in Int PROVE ~(x < x)
    OBVIOUS
  <2> QED BY <2>1, <2>3, <2>4
<1> HIDE DEF m, n, k, l, p, G, N, at
<1>12. ASSUME NEW a \in 1 .. Len(p), NEW b \in 1 .. Len(p), a < b PROVE p[a].pos < p[b].pos
  <2>1. a \in 1 .. m + k /\ b \in 1 .. m + k
    BY <1>4
  <2>2. at(a) < at(b) /\ at(a) \in 1 .. N /\ at(b) \in 1 .. N
    BY <1>9, <1>10, <1>12, <2>1
  <2>3. l[at(a)].pos < l[at(b)].pos
    BY <1>7, <2>2
  <2> QED BY <1>9, <2>1, <2>3
<1>13. ASSUME NEW i \in 1 .. Len(p)
       PROVE  p[i].pos \in 1 .. Len(R) /\ p[i] = R[p[i].pos] /\ ~Contains(G, p[i])
  <2>1. at(i) \in 1 .. N /\ p[i] = l[at(i)] /\ \A j \in 1 .. n : at(i) # m + j
    BY <1>4, <1>9
  <2>2. p[i].pos \in 1 .. Len(R) /\ p[i] = R[p[i].pos] /\ ~Contains(F, p[i])
    BY <1>7, <2>1
  <2>3. ASSUME Contains(u, p[i]) PROVE FALSE
    <3>1. PICK j \in 1 .. n : u[j] = p[i]
      BY <2>3 DEF Contains, n
    <3>2. m + j \in 1 .. N /\ l[m + j] = l[at(i)]
      BY <1>8, <2>1, <3>1
    <3> QED BY <1>11, <2>1, <3>2
  <2> QED BY <1>6, <2>2, <2>3
<1>14. \A i \in 1 .. Len(R) : Contains(G, R[i]) \/ Contains(p, R[i])
  BY <1>6, <1>7
<1>15. ASSUME NEW j \in 1 .. Len(G) PROVE G[j].pos \in 1 .. Len(R)
  <2>1. /\ Len(G) = Len(F) + n /\ Len(F) \in Nat
        /\ \A i \in 1 .. Len(F) + n : G[i] = IF i <= Len(F) THEN F[i] ELSE u[i - Len(F)]
    BY ConcatProperties, LenProperties DEF G, n
  <2>2. CASE j <= Len(F)
    <3>1. j \in 1 .. Len(F) /\ G[j] = F[j]
      BY <1>1, <2>1, <2>2
    <3> QED BY <1>7, <3>1
  <2>3. CASE ~(j <= Len(F))
    <3>1. j - Len(F) \in 1 .. n /\ G[j] = u[j - Len(F)]
      BY <1>1, <2>1, <2>3
    <3> QED BY <1>7, <1>8, <3>1
  <2> QED BY <2>2, <2>3
<1>16. Order(R, G, p)
  BY <1>12, <1>13, <1>14, <1>15 DEF Order
<1> QED BY <1>16 DEF G, p

(* What is in order is the selection of what arrived.                       *)
LEMMA OrderSelects ==
    ASSUME NEW R \in Seq(Units), NEW F, NEW l \in Seq(Units), Order(R, F, l), Numbered(R, 0)
    PROVE  Selected(R, {i \in DOMAIN R : ~Contains(F, R[i])}) = l
<1> DEFINE I == {i \in DOMAIN R : ~Contains(F, R[i])}
           h == [k \in 1 .. Len(l) |-> l[k].pos]
<1>1. DOMAIN R = 1 .. Len(R) /\ Len(R) \in Nat
  BY LenProperties
<1>2. \A k \in 1 .. Len(l) : h[k] = l[k].pos /\ h[k] \in I /\ l[k] = R[h[k]]
  BY <1>1 DEF Order
<1>3. h \in [1 .. Len(l) -> I]
  BY <1>2
<1>4. \A a, b \in 1 .. Len(l) : a < b => h[a] < h[b]
  BY <1>2 DEF Order
<1>5. ASSUME NEW i \in I PROVE \E k \in 1 .. Len(l) : h[k] = i
  <2>1. i \in 1 .. Len(R) /\ ~Contains(F, R[i])
    BY <1>1
  <2>2. PICK k \in 1 .. Len(l) : l[k] = R[i]
    BY <2>1 DEF Order, Contains
  <2>3. R[i].pos = i
    BY <1>1, <2>1 DEF Numbered
  <2> QED BY <1>2, <2>2, <2>3
<1> HIDE DEF h
<1>6. Selects(R, I, l)
  BY <1>2, <1>3, <1>4, <1>5 DEF Selects, Picks
<1>7. I \in SUBSET Nat
  BY <1>1
<1> HIDE DEF I
<1>8. Selected(R, I) = l
  BY <1>6, <1>7, SelectedIs
<1> QED BY <1>8 DEF I
-----------------------------------------------------------------------------
(* The story the histories tell.                                            *)

(* Every wait that became idle did so after the output it waited for.       *)
Done(q, ws, R, F) ==
    \A w \in DOMAIN ws :
        /\ ws[w].after <= Len(R)
        /\ ws[w].pc = "idle" =>
              \A i \in 1 .. ws[w].after : Contains(q, R[i]) \/ Contains(F, R[i])

(* The notice at place k of the screen came after that output.              *)
HeardAt(q, k, ws, R, F) ==
    LET w == q[k].pos - NoticeText(0)
    IN  /\ Settled(ws, w)
        /\ ws[w].pc = "idle" =>
              \A i \in 1 .. ws[w].after : Contains(SubSeq(q, 1, k), R[i]) \/ Contains(F, R[i])

Heard(q, ws, R, F) ==
    \A k \in DOMAIN q : q[k].kind = "notice" => HeardAt(q, k, ws, R, F)

(* What the screen shows, and then what d has to say, is in order.          *)
Sorted(q, R, F, d) ==
    \E s \in Seq(Units) : Selects(q, Shown(q), s) /\ Order(R, F, s \o Says(d))

Story ==
    /\ Numbered(received, 0)
    /\ Done(screen, waits, received, failed)
    /\ Heard(screen, waits, received, failed)
    /\ ~drain.disposed =>
          Notes(drain.writeQueue, waits) /\ Sorted(screen, received, failed, drain)

Begins(s, t) == Len(s) <= Len(t) /\ \A i \in 1 .. Len(s) : t[i] = s[i]

LEMMA BeginsSame ==
    ASSUME NEW S, NEW s \in Seq(S)
    PROVE  Begins(s, s)
  BY LenProperties DEF Begins

LEMMA BeginsConcat ==
    ASSUME NEW S, NEW s \in Seq(S), NEW t \in Seq(S)
    PROVE  Begins(s, s \o t)
<1>1. Len(s) \in Nat /\ Len(t) \in Nat
  BY LenProperties
<1>2. /\ Len(s \o t) = Len(s) + Len(t)
      /\ \A i \in 1 .. Len(s) + Len(t) : (s \o t)[i] = IF i <= Len(s) THEN s[i] ELSE t[i - Len(s)]
  BY ConcatProperties
<1>3. \A i \in 1 .. Len(s) : i \in 1 .. Len(s) + Len(t) /\ i <= Len(s)
  BY <1>1
<1>4. Len(s) <= Len(s \o t)
  BY <1>1, <1>2
<1> QED BY <1>2, <1>3, <1>4 DEF Begins

LEMMA BeginsAppend ==
    ASSUME NEW S, NEW s \in Seq(S), NEW x \in S
    PROVE  Begins(s, Append(s, x))
<1>1. /\ Len(Append(s, x)) = Len(s) + 1 /\ Len(s) \in Nat
      /\ \A i \in 1 .. Len(s) : Append(s, x)[i] = s[i]
  BY AppendProperties, LenProperties
<1> QED BY <1>1 DEF Begins

LEMMA ContainsBegins ==
    ASSUME NEW s, NEW t, Len(s) \in Nat, Len(t) \in Nat, Begins(s, t), NEW x, Contains(s, x)
    PROVE  Contains(t, x)
<1>1. PICK i \in 1 .. Len(s) : s[i] = x
  BY DEF Contains
<1>2. i \in 1 .. Len(t) /\ t[i] = x
  BY <1>1 DEF Begins
<1> QED BY <1>2 DEF Contains

(* The front of a sequence.                                                 *)
LEMMA FrontContains ==
    ASSUME NEW S, NEW q \in Seq(S), NEW k \in 1 .. Len(q), NEW x
    PROVE  Contains(SubSeq(q, 1, k), x) <=> \E i \in 1 .. k : q[i] = x
<1>1. Len(q) \in Nat /\ \A i \in 1 .. Len(q) : q[i] \in S
  BY LenProperties, ElementOfSeq
<1>2. 1 \in Int /\ k \in Int /\ \A i \in 1 .. k : q[i] \in S
  BY <1>1
<1>3. /\ Len(SubSeq(q, 1, k)) = IF 1 <= k THEN k - 1 + 1 ELSE 0
      /\ \A i \in 1 .. k - 1 + 1 : SubSeq(q, 1, k)[i] = q[1 + i - 1]
  BY <1>2, SubSeqProperties
<1>4. k - 1 + 1 = k /\ 1 <= k /\ \A i \in 1 .. k : 1 + i - 1 = i
  BY <1>1
<1>5. /\ Len(SubSeq(q, 1, k)) = k
      /\ \A i \in 1 .. k : SubSeq(q, 1, k)[i] = q[i]
  BY <1>3, <1>4
<1> QED BY <1>5 DEF Contains

(* The notices of before are still behind their output.                     *)
LEMMA HeardBegins ==
    ASSUME NEW S, NEW T, NEW q \in Seq(T), NEW p \in Seq(T), NEW R \in Seq(S), NEW Q \in Seq(S),
           NEW F \in Seq(S), NEW G \in Seq(S), Begins(q, p), Begins(R, Q), Begins(F, G),
           NEW ws \in Seq(Waits), NEW v, NEW n, NEW e, Grew(ws, v, n, e), Done(q, ws, R, F), Heard(q, ws, R, F),
           NEW k \in 1 .. Len(q), p[k].kind = "notice"
    PROVE  HeardAt(p, k, v, Q, G)
<1> DEFINE w == q[k].pos - NoticeText(0)
<1>1. /\ Len(q) \in Nat /\ Len(p) \in Nat /\ Len(R) \in Nat /\ Len(Q) \in Nat
      /\ Len(F) \in Nat /\ Len(G) \in Nat /\ DOMAIN q = 1 .. Len(q)
  BY LenProperties
<1>2. p[k] = q[k] /\ k \in 1 .. Len(p) /\ \A i \in 1 .. k : p[i] = q[i]
  BY <1>1 DEF Begins
<1>3. HeardAt(q, k, ws, R, F)
  BY <1>1, <1>2 DEF Heard
<1>4. /\ Settled(ws, w)
      /\ ws[w].pc = "idle" =>
            \A i \in 1 .. ws[w].after : Contains(SubSeq(q, 1, k), R[i]) \/ Contains(F, R[i])
  BY <1>3 DEF HeardAt
<1>5. p[k].pos - NoticeText(0) = w
  BY <1>2
<1> HIDE DEF w
<1>6. Settled(v, w) /\ v[w].pc = ws[w].pc /\ v[w].after = ws[w].after
  BY <1>4 DEF Grew, Settled
<1>7. ws[w].after <= Len(R) /\ ws[w].after \in Nat
  <2>1. w \in DOMAIN ws /\ ws[w] \in Waits
    BY <1>4, ElementOfSeq, LenProperties DEF Settled
  <2> QED BY <2>1 DEF Done, Waits
<1>8. ASSUME v[w].pc = "idle", NEW i \in 1 .. v[w].after
      PROVE  Contains(SubSeq(p, 1, k), Q[i]) \/ Contains(G, Q[i])
  <2>1. Contains(SubSeq(q, 1, k), R[i]) \/ Contains(F, R[i])
    BY <1>4, <1>6, <1>8
  <2>2. Q[i] = R[i]
    <3>1. i \in 1 .. Len(R)
      BY <1>1, <1>6, <1>7
    <3> QED BY <3>1 DEF Begins
  <2>3. CASE Contains(F, R[i])
    BY <1>1, <2>2, <2>3, ContainsBegins
  <2>4. CASE Contains(SubSeq(q, 1, k), R[i])
    <3>1. PICK j \in 1 .. k : q[j] = R[i]
      BY <2>4, FrontContains
    <3>2. p[j] = Q[i]
      BY <1>2, <2>2, <3>1
    <3> QED BY <1>2, <3>2, FrontContains
  <2> QED BY <2>1, <2>3, <2>4
<1> QED BY <1>5, <1>6, <1>8 DEF HeardAt

(* The waits of before and those that become idle now.                      *)
LEMMA DoneBegins ==
    ASSUME NEW q \in Seq(Drawings), NEW p \in Seq(Drawings), NEW R \in Seq(Units), NEW Q \in Seq(Units),
           NEW F \in Seq(Units), NEW G \in Seq(Units), Begins(q, p), Begins(R, Q), Begins(F, G),
           NEW ws \in Seq(Waits), NEW v \in Seq(Waits), NEW e, Grew(ws, v, Len(Q), e), Done(q, ws, R, F),
           Sorted(p, Q, G, e)
    PROVE  Done(p, v, Q, G)
<1>1. /\ Len(q) \in Nat /\ Len(p) \in Nat /\ Len(R) \in Nat /\ Len(Q) \in Nat
      /\ Len(F) \in Nat /\ Len(G) \in Nat /\ DOMAIN p = 1 .. Len(p)
  BY LenProperties
<1>2. ASSUME NEW w \in DOMAIN v PROVE v[w].after <= Len(Q) /\ v[w].after \in Nat
  <2>1. v[w].after \in Nat
    <3>1. v[w] \in Waits
      BY ElementOfSeq, LenProperties
    <3> QED BY <3>1 DEF Waits
  <2>2. CASE w \in DOMAIN ws
    <3>1. v[w].after = ws[w].after /\ ws[w].after <= Len(R) /\ Len(R) <= Len(Q)
      BY <2>2 DEF Grew, Done, Begins
    <3> QED BY <1>1, <2>1, <3>1
  <2>3. CASE w \notin DOMAIN ws
    BY <1>1, <2>1, <2>3 DEF Grew
  <2> QED BY <2>1, <2>2, <2>3
<1>3. ASSUME NEW w \in DOMAIN v, v[w].pc = "idle", NEW i \in 1 .. v[w].after
      PROVE  Contains(p, Q[i]) \/ Contains(G, Q[i])
  <2>0. i \in 1 .. Len(Q)
    BY <1>1, <1>2
  <2>1. CASE w \in DOMAIN ws /\ ws[w].pc = "idle"
    <3>1. v[w].after = ws[w].after /\ ws[w].after <= Len(R)
      BY <2>1 DEF Grew, Done
    <3>2. Contains(q, R[i]) \/ Contains(F, R[i])
      BY <1>3, <2>1, <3>1 DEF Done
    <3>3. i \in 1 .. Len(R)
      BY <1>1, <1>2, <3>1
    <3>4. Q[i] = R[i]
      BY <3>3 DEF Begins
    <3> QED BY <1>1, <3>2, <3>4, ContainsBegins
  <2>2. CASE Says(e) = <<>>
    <3>1. PICK s \in Seq(Units) : Selects(p, Shown(p), s) /\ Order(Q, G, s \o Says(e))
      BY DEF Sorted
    <3>2. s \o Says(e) = s
      BY <2>2, ConcatEmptySeq
    <3>3. Contains(G, Q[i]) \/ Contains(s, Q[i])
      BY <2>0, <3>1, <3>2 DEF Order
    <3>4. ASSUME Contains(s, Q[i]) PROVE Contains(p, Q[i])
      <4>1. PICK k \in 1 .. Len(s) : s[k] = Q[i]
        BY <3>4 DEF Contains
      <4>2. PICK h : Picks(p, Shown(p), s, h)
        BY <3>1 DEF Selects
      <4>3. h[k] \in 1 .. Len(p) /\ p[h[k]] = Q[i]
        BY <1>1, <4>1, <4>2 DEF Picks, Shown
      <4> QED BY <4>3 DEF Contains
    <3> QED BY <3>3, <3>4
  <2> QED BY <1>3, <2>1, <2>2 DEF Grew
<1> QED BY <1>2, <1>3 DEF Done

(* What a step adds to the histories.                                       *)
Tells ==
    /\ Begins(screen, screen') /\ Begins(received, received') /\ Begins(failed, failed')
    /\ Numbered(received', 0)
    /\ Notes(drain'.writeQueue, waits')
    /\ Grew(waits, waits', Len(received'), drain')
    /\ Sorted(screen', received', failed', drain')
    /\ \A k \in DOMAIN screen' : k \notin DOMAIN screen /\ screen'[k].kind = "notice" =>
          k = Len(screen') /\ Settled(waits', screen'[k].pos - NoticeText(0))

LEMMA TellsStory ==
    ASSUME Inv, Inv', Story, Tells
    PROVE  Story'
<1>1. /\ screen \in Seq(Drawings) /\ screen' \in Seq(Drawings)
      /\ received \in Seq(Units) /\ received' \in Seq(Units)
      /\ failed \in Seq(Units) /\ failed' \in Seq(Units)
      /\ waits \in Seq(Waits) /\ waits' \in Seq(Waits)
  BY DEF Inv, Sane
<1>2. /\ Begins(screen, screen') /\ Begins(received, received') /\ Begins(failed, failed')
      /\ Grew(waits, waits', Len(received'), drain')
      /\ Sorted(screen', received', failed', drain')
  BY DEF Tells
<1>3. Done(screen, waits, received, failed) /\ Heard(screen, waits, received, failed)
  BY DEF Story
<1>4. Done(screen', waits', received', failed')
  BY <1>1, <1>2, <1>3, DoneBegins
<1>5. Heard(screen', waits', received', failed')
  <2> SUFFICES ASSUME NEW k \in DOMAIN screen', screen'[k].kind = "notice"
               PROVE  HeardAt(screen', k, waits', received', failed')
    BY DEF Heard
  <2>1. CASE k \in DOMAIN screen
    <3>1. k \in 1 .. Len(screen)
      BY <1>1, <2>1, LenProperties
    <3> QED BY <1>1, <1>2, <1>3, <3>1, HeardBegins
  <2>2. CASE k \notin DOMAIN screen
    <3> DEFINE w == screen'[k].pos - NoticeText(0)
    <3>1. k = Len(screen') /\ Settled(waits', w)
      BY <2>2 DEF Tells
    <3> HIDE DEF w
    <3>2. SubSeq(screen', 1, k) = screen'
      BY <1>1, <3>1, SubSeqFull
    <3>3. w \in DOMAIN waits'
      BY <3>1 DEF Settled
    <3>4. waits'[w].pc = "idle" =>
             \A i \in 1 .. waits'[w].after : Contains(screen', received'[i]) \/ Contains(failed', received'[i])
      BY <1>4, <3>3 DEF Done
    <3> QED BY <3>1, <3>2, <3>4 DEF HeardAt, w
  <2> QED BY <2>1, <2>2
<1>6. Numbered(received', 0) /\ Notes(drain'.writeQueue, waits')
  BY DEF Tells
<1> QED BY <1>2, <1>4, <1>5, <1>6 DEF Story
-----------------------------------------------------------------------------
(* The actions, while the renderer lives.                                   *)

LEMMA StoryTypes ==
    ASSUME Inv
    PROVE  /\ screen \in Seq(Drawings) /\ received \in Seq(Units) /\ failed \in Seq(Units)
           /\ waits \in Seq(Waits) /\ drain \in Drains /\ Solvent(drain) /\ Says(drain) \in Seq(Units)
<1>1. drain \in Drains /\ Solvent(drain)
  BY DEF Inv, Sane, Solvent
<1> QED BY <1>1, SaysType DEF Inv, Sane

(* A step that neither takes nor draws output.                              *)
LEMMA QuietTells ==
    ASSUME Inv, Story, ~drain.disposed, Hears(drain, waits, drain', waits', Len(received)),
           received' = received, screen' = screen, failed' = failed
    PROVE  Tells
<1>1. /\ Begins(screen, screen') /\ Begins(received, received') /\ Begins(failed, failed')
  BY StoryTypes, BeginsSame
<1>2. Sorted(screen', received', failed', drain')
  BY DEF Story, Sorted, Hears
<1>3. \A k \in DOMAIN screen' : k \in DOMAIN screen
  OBVIOUS
<1>4. /\ Numbered(received', 0) /\ Notes(drain'.writeQueue, waits')
      /\ Grew(waits, waits', Len(received'), drain')
  BY DEF Story, Hears
<1> QED BY <1>1, <1>2, <1>3, <1>4 DEF Tells

LEMMA DrainTells ==
    ASSUME Inv, Story, ~drain.disposed, Quiet(drain, drain'), waits' = waits,
           received' = received, screen' = screen, failed' = failed
    PROVE  Tells
<1>1. Hears(drain, waits, drain', waits', Len(received))
  BY QuietHears DEF Story
<1> QED BY <1>1, QuietTells

LEMMA FiringTells ==
    ASSUME Inv, Story, ~drain.disposed, ForegroundFires \/ MicrotaskRuns \/ BackgroundFires
    PROVE  Tells
<1>0. Solvent(drain)
  BY StoryTypes
<1>1. Quiet(drain, drain')
  <2>1. CASE ForegroundFires
    <3>1. PICK fast \in BOOLEAN : drain' = flushForeground([drain EXCEPT !.foreground = FALSE], fast)
      BY <2>1 DEF ForegroundFires, DrainTurn, DrainBecomes
    <3> QED BY <1>0, <3>1, FiresQuiet
  <2>2. CASE MicrotaskRuns
    <3>1. PICK fast \in BOOLEAN :
              drain' = flushForeground([drain EXCEPT !.microtasks = drain.microtasks - 1,
                                                     !.microtaskPending = FALSE], fast)
      BY <2>2 DEF MicrotaskRuns, DrainTurn, DrainBecomes
    <3>2. drain.microtasks > 0
      BY <2>2 DEF MicrotaskRuns
    <3> QED BY <1>0, <3>1, <3>2, FiresQuiet
  <2>3. CASE BackgroundFires
    <3>1. PICK fast \in BOOLEAN :
              drain' = flushBackground([drain EXCEPT !.backgroundTimer = "none"], fast)
      BY <2>3 DEF BackgroundFires, DrainTurn, DrainBecomes
    <3> QED BY <1>0, <3>1, FiresQuiet
  <2> QED BY <2>1, <2>2, <2>3
<1>2. waits' = waits /\ received' = received /\ screen' = screen /\ failed' = failed
  BY DEF ForegroundFires, MicrotaskRuns, BackgroundFires, DrainTurn
<1> QED BY <1>1, <1>2, DrainTells

LEMMA SetModeTells ==
    ASSUME Inv, Story, NEW mode \in Modes, SetMode(mode)
    PROVE  Tells
<1>1. PICK fast \in BOOLEAN :
         /\ drain' = setMode(drain, mode, fast)
         /\ waits' = waits /\ received' = received /\ screen' = screen /\ failed' = failed
  BY DEF SetMode, DrainBecomes
<1>2. ~drain.disposed /\ Solvent(drain)
  BY StoryTypes DEF SetMode, NextTurn
<1>3. Quiet(drain, drain')
  BY <1>1, <1>2, SetModeQuiet
<1> QED BY <1>1, <1>2, <1>3, DrainTells

LEMMA AckTimerTells ==
    ASSUME Inv, Story, AckTimerFires
    PROVE  Tells
<1> DEFINE f == [drain EXCEPT !.ackTimer = FALSE]
           e == flushPendingAck(f, TRUE)
<1>1. /\ drain' = e /\ waits' = waits /\ received' = received /\ screen' = screen
      /\ failed' = failed /\ ~drain.disposed
  BY DEF AckTimerFires, DrainTurn, DrainBecomes, NextTurn
<1>2. drain \in Drains /\ Solvent(drain)
  BY StoryTypes
<1>3. /\ f \in Drains /\ f.queue = drain.queue /\ f.writeQueue = drain.writeQueue
      /\ f.writingBytes = drain.writingBytes /\ f.pendingAckBytes = drain.pendingAckBytes
      /\ f.backendUnackedBytes = drain.backendUnackedBytes
  BY <1>2 DEF Drains
<1> HIDE DEF f
<1>4. Solvent(f) /\ Quiet(drain, f)
  BY <1>2, <1>3, SameSays DEF Solvent, Lost, Held
<1>5. Quiet(drain, e)
  BY <1>4, AckQuiet, QuietTwice
<1> HIDE DEF e
<1> QED BY <1>1, <1>5, DrainTells

LEMMA GrewTwice ==
    ASSUME NEW a, NEW b, NEW c, NEW n, NEW f, NEW e, Grew(a, b, n, f), Grew(b, c, n, e),
           Says(e) = Says(f)
    PROVE  Grew(a, c, n, e)
<1>1. ASSUME NEW w \in DOMAIN a
      PROVE  /\ w \in DOMAIN c /\ c[w].after = a[w].after
             /\ Settled(a, w) => c[w].pc = a[w].pc
  BY DEF Grew, Settled
<1>2. \A w \in DOMAIN c : w \notin DOMAIN a => c[w].after = n
  BY DEF Grew
<1>3. ASSUME NEW w \in DOMAIN c, c[w].pc = "idle"
      PROVE  (w \in DOMAIN a /\ a[w].pc = "idle") \/ Says(e) = <<>>
  BY <1>3 DEF Grew
<1> QED BY <1>1, <1>2, <1>3 DEF Grew

LEMMA WaitTells ==
    ASSUME Inv, Story, NEW notice \in BOOLEAN, waitForIdle(notice)
    PROVE  Tells
<1> DEFINE g == flush(gate)
           x == [pc |-> "polling", notice |-> notice, after |-> Len(forwarded \o g.out)]
           ws == Append(waits, x)
           d == cancelBackground(cancelForeground(drain))
           r == Poll(d, ws, Len(ws))
           n == Len(received)
<1>1. ~drain.disposed /\ gate = InitGate /\ forwarded = received /\ received \in Seq(Units)
  BY DEF waitForIdle, NextTurn, Inv
<1>2. PICK fast \in BOOLEAN :
         LET f == cancelBackground(cancelForeground(enqueue(drain, g.out, fast)))
             q == Poll(f, ws, Len(ws))
         IN  DrainBecomes(q.drain) /\ waits' = q.waits
  BY DEF waitForIdle
<1>3. received' = received /\ screen' = screen /\ failed' = failed
  BY DEF waitForIdle
<1>4. g.out = <<>>
  BY <1>1, GateFlushes
<1>5. n \in Nat /\ Len(forwarded \o g.out) = n
  BY <1>1, <1>4, ConcatEmptySeq, LenProperties
<1>6. x \in Waits /\ x.pc = "polling" /\ x.after = n
  BY <1>5 DEF Waits
<1>7. enqueue(drain, g.out, fast) = drain
  BY <1>4 DEF enqueue
<1>8. drain' = r.drain /\ waits' = r.waits
  BY <1>2, <1>7 DEF DrainBecomes
<1> HIDE DEF x, g, n
<1>9. Sane(d, ws) /\ Len(ws) \in DOMAIN ws
  BY <1>6, WaitBegins DEF Inv
<1>10. Quiet(drain, d)
  <2>1. drain \in Drains
    BY StoryTypes
  <2>2. d.queue = drain.queue /\ d.writeQueue = drain.writeQueue
    BY <2>1 DEF cancelBackground, cancelForeground, Drains
  <2> HIDE DEF d
  <2> QED BY <2>2, SameSays
<1> HIDE DEF d
<1>11. /\ Len(ws) = Len(waits) + 1 /\ Len(waits) \in Nat /\ DOMAIN ws = 1 .. Len(ws)
       /\ DOMAIN waits = 1 .. Len(waits)
       /\ \A w \in 1 .. Len(waits) : ws[w] = waits[w] /\ ws[Len(ws)] = x
  BY <1>6, StoryTypes, AppendProperties, LenProperties
<1>12. ws[Len(ws)] = x
  BY <1>6, StoryTypes, AppendProperties
<1> HIDE DEF ws
<1>13. \A w \in DOMAIN ws : w \in DOMAIN waits \/ w = Len(ws)
  BY <1>11
<1>14. \A w \in DOMAIN waits : w \in DOMAIN ws /\ ws[w] = waits[w]
  BY <1>11
<1>15. Grew(waits, ws, n, d)
  BY <1>6, <1>12, <1>13, <1>14 DEF Grew
<1>16. Notes(d.writeQueue, ws)
  <2>1. Notes(d.writeQueue, waits)
    BY <1>1, <1>10, NotesKept DEF Quiet, Story
  <2> QED BY <1>15, <2>1, NotesGrow
<1>17. ~Settled(ws, Len(ws))
  BY <1>6, <1>12 DEF Settled
<1>18. Hears(d, ws, r.drain, r.waits, n)
  BY <1>9, <1>16, <1>17, PollHears
<1> HIDE DEF r
<1>19. Hears(drain, waits, r.drain, r.waits, n)
  <2>1. Grew(waits, r.waits, n, r.drain)
    BY <1>15, <1>18, GrewTwice DEF Hears
  <2> QED BY <1>10, <1>18, <2>1 DEF Hears, Quiet
<1> QED BY <1>1, <1>3, <1>8, <1>19, QuietTells DEF n

LEMMA PollTimerTells ==
    ASSUME Inv, Story, NEW w \in DOMAIN waits, PollTimer(w)
    PROVE  Tells
<1>1. PICK expired \in BOOLEAN : PollOrExpire(drain, w, expired)
  BY DEF PollTimer, Expirations
<1>2. /\ ~drain.disposed /\ Sane(drain, waits) /\ Notes(drain.writeQueue, waits)
      /\ ~Settled(waits, w)
  BY DEF PollTimer, NextTurn, Inv, Story, Settled
<1>3. Hears(drain, waits, drain', waits', Len(received))
  BY <1>1, <1>2, PolledHears
<1>4. received' = received /\ screen' = screen /\ failed' = failed
  BY DEF PollTimer
<1> QED BY <1>2, <1>3, <1>4, QuietTells

(* Output arrives.                                                          *)
LEMMA ReceiveTells ==
    ASSUME GateMode # "collapse", Inv, Story, NEW chunk \in Chunks, NEW alternateScreen \in BOOLEAN,
           Receive(chunk, alternateScreen)
    PROVE  Tells
<1> DEFINE units == [i \in DOMAIN chunk |-> [pos |-> Len(received) + i, kind |-> chunk[i]]]
           g == enqueueGate(gate, units, alternateScreen, Len(drain.queue))
<1>1. ~drain.disposed /\ gate = InitGate /\ received \in Seq(Units)
  BY DEF Receive, NextTurn, Inv
<1>2. chunk \in Seq(Kinds) /\ Len(received) \in Nat
  BY <1>1, OutputAssumption, LenProperties
<1>3. units \in Seq(Units) /\ Numbered(units, Len(received))
  <2>1. DOMAIN chunk = 1 .. Len(chunk) /\ Len(chunk) \in Nat
        /\ \A i \in 1 .. Len(chunk) : chunk[i] \in Kinds
    BY <1>2, LenProperties, ElementOfSeq
  <2>2. \A i \in 1 .. Len(chunk) : [pos |-> Len(received) + i, kind |-> chunk[i]] \in Units
    BY <1>2, <2>1 DEF Units
  <2>3. units \in Seq(Units) /\ Len(units) = Len(chunk)
    BY <2>1, <2>2
  <2>4. \A i \in 1 .. Len(chunk) : units[i].pos = Len(received) + i
    BY <2>1
  <2> QED BY <2>3, <2>4 DEF Numbered
<1>4. PICK fast \in BOOLEAN :
         /\ received' = received \o units
         /\ DrainBecomes(enqueue(drain, g.out, fast))
         /\ waits' = waits /\ screen' = screen /\ failed' = failed
  BY DEF Receive
<1> HIDE DEF units
<1>5. g = forwardText(InitGate, units)
  <2>1. InitGate.disposed = FALSE
    BY DEF InitGate
  <2> QED BY <1>1, <2>1 DEF enqueueGate
<1> HIDE DEF g
<1>6. drain' = enqueue(drain, units, fast)
  BY <1>3, <1>4, <1>5, GateForwards DEF DrainBecomes
<1>7. Speaks(drain, drain', units)
  BY <1>1, <1>3, <1>6, StoryTypes, EnqueueSpeaks
<1>8. Begins(screen, screen') /\ Begins(received, received') /\ Begins(failed, failed')
  BY <1>1, <1>3, <1>4, StoryTypes, BeginsSame, BeginsConcat
<1>9. Numbered(received', 0)
  <2> DEFINE r == Len(received)
             k == Len(units)
  <2>1. /\ Len(received') = r + k /\ r \in Nat /\ k \in Nat
        /\ \A i \in 1 .. r + k : received'[i] = IF i <= r THEN received[i] ELSE units[i - r]
    BY <1>1, <1>3, <1>4, ConcatProperties, LenProperties
  <2>2. (\A i \in 1 .. r : received[i].pos = 0 + i) /\ \A i \in 1 .. k : units[i].pos = r + i
    BY <1>3 DEF Story, Numbered
  <2> HIDE DEF r, k
  <2>3. ASSUME NEW i \in 1 .. r + k PROVE received'[i].pos = 0 + i
    <3>1. CASE i <= r
      BY <2>1, <2>2, <3>1
    <3>2. CASE ~(i <= r)
      <4>1. i - r \in 1 .. k /\ received'[i] = units[i - r] /\ r + (i - r) = i /\ 0 + i = i
        BY <2>1, <3>2
      <4>2. units[i - r].pos = r + (i - r)
        BY <2>2, <4>1
      <4> QED BY <4>1, <4>2
    <3> QED BY <3>1, <3>2
  <2> QED BY <2>1, <2>3 DEF Numbered
<1>10. Notes(drain'.writeQueue, waits') /\ Grew(waits, waits', Len(received'), drain')
  BY <1>1, <1>4, <1>7, NotesKept, GrewSame DEF Story, Speaks
<1>11. Sorted(screen', received', failed', drain')
  <2>1. PICK s \in Seq(Units) : Selects(screen, Shown(screen), s) /\ Order(received, failed, s \o Says(drain))
    BY <1>1 DEF Story, Sorted
  <2> DEFINE t == Says(drain)
  <2>2. t \in Seq(Units) /\ s \o t \in Seq(Units)
    BY StoryTypes, ConcatProperties
  <2>3. Says(drain') = t \o units
    BY <1>7 DEF Speaks
  <2> HIDE DEF t
  <2>4. (s \o t) \o units = s \o (t \o units)
    BY <1>3, <2>2, ConcatAssociative
  <2>5. Order(received, failed, s \o t)
    BY <2>1 DEF t
  <2>6. Order(received \o units, failed, (s \o t) \o units)
    <3> DEFINE l == s \o t
    <3>1. l \in Seq(Units) /\ Order(received, failed, l)
      BY <2>2, <2>5
    <3> HIDE DEF l
    <3>2. Order(received \o units, failed, l \o units)
      BY <1>1, <1>3, <3>1, StoryTypes, OrderGrows
    <3> QED BY <3>2 DEF l
  <2>7. Order(received', failed', s \o Says(drain'))
    BY <1>4, <2>3, <2>4, <2>6
  <2> QED BY <1>4, <2>1, <2>7 DEF Sorted
<1> QED BY <1>4, <1>8, <1>9, <1>10, <1>11 DEF Tells
-----------------------------------------------------------------------------
(* xterm draws, or refuses, the head of the chain.                          *)
LEMMA PayloadTells ==
    ASSUME Inv, Story, PayloadWritten \/ PayloadRefused
    PROVE  Tells
<1> DEFINE u == Head(drain.writeQueue).data
           n == Len(received)
<1>1. /\ ~drain.disposed /\ drain.writeQueue # <<>> /\ IsPayload(Head(drain.writeQueue))
      /\ Sane(drain, waits) /\ Notes(drain.writeQueue, waits) /\ received' = received
  BY DEF PayloadWritten, PayloadRefused, NextTurn, Inv, Story
<1>2. /\ u \in Seq(Units) /\ Says(drain) = u \o Says(drain')
      /\ Notes(drain'.writeQueue, waits') /\ Grew(waits, waits', n, drain')
      /\ drain' \in Drains
  <2>1. Len(u) \in Nat
    <3>1. drain.writeQueue \in Seq(Link)
      BY <1>1 DEF Sane, Solvent, Drains
    <3> QED BY <1>1, <3>1, FlatTail, LenProperties
  <2>2. CASE PayloadWritten
    <3>1. Answered(drain, writeCallback(drain), waits, Len(u), 0)
      BY <1>1, CallbackAnswers
    <3>2. WriteSettles(writeCallback(drain))
      BY <2>2 DEF PayloadWritten
    <3>3. drain' \in Drains
      BY <1>1, <2>1, <3>1, <3>2, SettlesSane DEF Sane, Solvent
    <3> QED BY <1>1, <2>1, <3>1, <3>2, <3>3, SettlesHear
  <2>3. CASE PayloadRefused
    <3>1. Answered(drain, writeError(drain), waits, 0, Len(u))
      BY <1>1, ErrorAnswers
    <3>2. WriteSettles(writeError(drain))
      BY <2>3 DEF PayloadRefused
    <3>3. drain' \in Drains
      BY <1>1, <2>1, <3>1, <3>2, SettlesSane DEF Sane, Solvent
    <3> QED BY <1>1, <2>1, <3>1, <3>2, <3>3, SettlesHear
  <2> QED BY <2>2, <2>3
<1>3. \/ screen' = screen \o u /\ failed' = failed
      \/ screen' = screen /\ failed' = failed \o u
  BY DEF PayloadWritten, PayloadRefused
<1> DEFINE t == Says(drain')
<1>4. t \in Seq(Units) /\ u \in Seq(Drawings)
  BY <1>2, SaysType, SeqMonotonic DEF Drawings
<1> HIDE DEF u
<1>5. /\ screen \in Seq(Drawings) /\ received \in Seq(Units) /\ failed \in Seq(Units)
      /\ Numbered(received, 0)
  BY StoryTypes DEF Story
<1>6. Begins(screen, screen') /\ Begins(received, received') /\ Begins(failed, failed')
  BY <1>1, <1>2, <1>3, <1>4, <1>5, BeginsSame, BeginsConcat
<1>7. PICK s \in Seq(Units) :
         Selects(screen, Shown(screen), s) /\ Order(received, failed, s \o (u \o t))
  BY <1>1, <1>2 DEF Story, Sorted
<1>8. Sorted(screen', received', failed', drain')
  <2>1. CASE screen' = screen \o u /\ failed' = failed
    <3>1. s \o u \in Seq(Units) /\ Selects(screen \o u, Shown(screen \o u), s \o u)
      BY <1>2, <1>5, <1>7, PayloadSelects
    <3> HIDE DEF t
    <3>2. (s \o u) \o t = s \o (u \o t)
      <4>1. u \in Seq(Units) /\ t \in Seq(Units)
        BY <1>2, <1>4
      <4> QED BY <4>1, ConcatAssociative
    <3>3. Order(received', failed', (s \o u) \o t)
      BY <1>1, <1>7, <2>1, <3>2
    <3> QED BY <2>1, <3>1, <3>3 DEF Sorted, t
  <2>2. CASE screen' = screen /\ failed' = failed \o u
    <3> HIDE DEF t
    <3>1. Order(received, failed \o u, s \o t)
      BY <1>2, <1>4, <1>5, <1>7, OrderCut
    <3> QED BY <1>1, <1>7, <2>2, <3>1 DEF Sorted, t
  <2> QED BY <1>3, <2>1, <2>2
<1>9. ASSUME NEW k \in DOMAIN screen', k \notin DOMAIN screen PROVE screen'[k].kind # "notice"
  <2> DEFINE m == Len(screen)
  <2>1. screen' = screen \o u
    BY <1>3, <1>9
  <2>2. /\ DOMAIN screen = 1 .. m /\ m \in Nat /\ Len(u) \in Nat
        /\ DOMAIN (screen \o u) = 1 .. m + Len(u)
        /\ \A i \in 1 .. m + Len(u) : (screen \o u)[i] = IF i <= m THEN screen[i] ELSE u[i - m]
    BY <1>4, <1>5, ConcatProperties, LenProperties
  <2> HIDE DEF m
  <2>3. k \in 1 .. m + Len(u) /\ ~(k <= m) /\ k - m \in 1 .. Len(u)
    BY <1>9, <2>1, <2>2
  <2>4. screen'[k] = u[k - m] /\ u[k - m] \in Units
    BY <1>2, <2>1, <2>2, <2>3, ElementOfSeq
  <2> QED BY <2>4, UnitsAreNoNotices
<1> QED BY <1>1, <1>2, <1>5, <1>6, <1>8, <1>9 DEF Tells

(* xterm draws a notice.                                                    *)
LEMMA NoticeTells ==
    ASSUME Inv, Story, NoticeWritten
    PROVE  Tells
<1> DEFINE c == drain.writeQueue
           e == [drain EXCEPT !.writeQueue = Tail(c)]
           x == [pos |-> Head(c).then, kind |-> "notice"]
<1>1. /\ ~drain.disposed /\ c # <<>> /\ ~IsPayload(Head(c)) /\ drain' = e
      /\ screen' = Append(screen, x) /\ waits' = waits /\ received' = received /\ failed' = failed
      /\ Notes(c, waits)
  BY DEF NoticeWritten, NextTurn, DrainBecomes, Story
<1>2. /\ drain \in Drains /\ c \in Seq(Link) /\ screen \in Seq(Drawings)
      /\ received \in Seq(Units) /\ failed \in Seq(Units)
  <2>1. drain \in Drains
    BY StoryTypes
  <2> QED BY <2>1, StoryTypes DEF Drains
<1>3. e.writeQueue = Tail(c) /\ e.queue = drain.queue
  BY <1>2 DEF Drains
<1> HIDE DEF e
<1>4. /\ Head(c) = c[1] /\ 1 \in DOMAIN c /\ Tail(c) \in Seq(Link) /\ Head(c) \in Link
      /\ \A j \in DOMAIN Tail(c) : j + 1 \in DOMAIN c /\ Tail(c)[j] = c[j + 1]
  <2>1. /\ Head(c) = c[1] /\ Head(c) \in Link /\ Tail(c) \in Seq(Link)
        /\ DOMAIN Tail(c) = 1 .. Len(c) - 1 /\ DOMAIN c = 1 .. Len(c) /\ Len(c) \in Nat
        /\ \A j \in 1 .. Len(c) - 1 : Tail(c)[j] = c[j + 1]
    BY <1>1, <1>2, HeadTailProperties, LenProperties
  <2>2. Len(c) # 0
    BY <1>1, <1>2, EmptySeq
  <2> QED BY <2>1, <2>2
<1>5. x \in Notices /\ Settled(waits, x.pos - NoticeText(0))
  <2>1. x.pos = Head(c).then /\ Head(c).then \in Nat
    BY <1>4 DEF Link
  <2>2. Settled(waits, Head(c).then - NoticeText(0))
    BY <1>1, <1>4 DEF Notes
  <2> QED BY <2>1, <2>2 DEF Notices
<1>6. Says(drain') = Says(drain)
  <2>1. Head(c).data = <<>>
    BY <1>1 DEF IsPayload
  <2>2. Flat(c) = Head(c).data \o Flat(Tail(c)) /\ Flat(Tail(c)) \in Seq(Units)
    BY <1>1, <1>2, <1>4, FlatTail, FlatType
  <2>3. Flat(c) = Flat(Tail(c))
    BY <2>1, <2>2, ConcatEmptySeq
  <2> QED BY <1>1, <1>3, <2>3 DEF Says
<1>7. Notes(drain'.writeQueue, waits')
  BY <1>1, <1>3, <1>4 DEF Notes
<1>8. Grew(waits, waits', Len(received'), drain')
  BY <1>1, GrewSame
<1> HIDE DEF x
<1>9. Sorted(screen', received', failed', drain')
  <2>1. PICK s \in Seq(Units) : Selects(screen, Shown(screen), s) /\ Order(received, failed, s \o Says(drain))
    BY <1>1 DEF Story, Sorted
  <2>2. Selects(screen', Shown(screen'), s)
    BY <1>1, <1>2, <1>5, <2>1, NoticeSelects
  <2> QED BY <1>1, <1>6, <2>1, <2>2 DEF Sorted
<1>10. x \in Drawings
  BY <1>5 DEF Drawings
<1>11. Begins(screen, screen') /\ Begins(received, received') /\ Begins(failed, failed')
  BY <1>1, <1>2, <1>10, BeginsSame, BeginsAppend
<1>12. ASSUME NEW k \in DOMAIN screen', k \notin DOMAIN screen
       PROVE  k = Len(screen') /\ Settled(waits', screen'[k].pos - NoticeText(0))
  <2>1. /\ DOMAIN screen = 1 .. Len(screen) /\ Len(screen) \in Nat
        /\ DOMAIN screen' = 1 .. Len(screen) + 1 /\ Len(screen') = Len(screen) + 1
        /\ screen'[Len(screen) + 1] = x
    BY <1>1, <1>2, <1>10, AppendProperties, LenProperties
  <2>2. k = Len(screen) + 1
    BY <1>12, <2>1
  <2> QED BY <1>1, <1>5, <2>1, <2>2
<1>13. Numbered(received', 0)
  BY <1>1 DEF Story
<1> QED BY <1>7, <1>8, <1>9, <1>11, <1>12, <1>13 DEF Tells

-----------------------------------------------------------------------------
(* The clean-up ends the story.                                             *)
LEMMA StoryEnds ==
    ASSUME Story, drain'.disposed, waits' = waits, received' = received, screen' = screen,
           failed' = failed
    PROVE  Story'
  BY DEF Story

LEMMA StoryGoesOn ==
    ASSUME GateMode # "collapse", Inv, Inv', Story, [Next]_vars
    PROVE  Story'
<1>1. CASE ~drain.disposed /\ ~Dispose
  <2>1. Tells
    <3>1. CASE UNCHANGED vars
      <4>1. /\ drain' = drain /\ waits' = waits /\ received' = received
            /\ screen' = screen /\ failed' = failed
        BY <3>1 DEF vars
      <4>2. Quiet(drain, drain')
        BY <4>1, SameSays
      <4> QED BY <1>1, <4>1, <4>2, DrainTells
    <3>2. ASSUME NEW chunk \in Chunks, NEW alternateScreen \in BOOLEAN, Receive(chunk, alternateScreen)
          PROVE  Tells
      BY <3>2, ReceiveTells
    <3>3. ASSUME NEW mode \in Modes, SetMode(mode) PROVE Tells
      BY <3>3, SetModeTells
    <3>4. ASSUME NEW notice \in BOOLEAN, waitForIdle(notice) PROVE Tells
      BY <3>4, WaitTells
    <3>5. ASSUME FailOpen PROVE FALSE
      BY <3>5 DEF FailOpen, NextTurn, Inv, InitGate
    <3>6. ASSUME NEW w \in DOMAIN waits, PollTimer(w) PROVE Tells
      BY <3>6, PollTimerTells
    <3>7. CASE Callback
      BY <1>1, <3>5, <3>6, <3>7, FiringTells, AckTimerTells, PayloadTells, NoticeTells DEF Callback
    <3> QED BY <1>1, <3>1, <3>2, <3>3, <3>4, <3>7 DEF Next
  <2> QED BY <2>1, TellsStory
<1>2. CASE ~drain.disposed /\ Dispose
  <2>1. Closes /\ waits' = waits
    BY <1>2, DisposeCloses DEF Dispose
  <2> QED BY <2>1, StoryEnds DEF Closes
<1>3. CASE drain.disposed
  <2>1. MicrotaskRuns \/ UNCHANGED vars
    BY <1>3 DEF Next, Callback, Receive, SetMode, waitForIdle, FailOpen, PollTimer, ForegroundFires,
                BackgroundFires, AckTimerFires, PayloadWritten, PayloadRefused, NoticeWritten,
                Dispose, NextTurn
  <2>2. waits' = waits /\ received' = received /\ screen' = screen /\ failed' = failed
    BY <2>1 DEF MicrotaskRuns, DrainTurn, vars
  <2>3. drain'.disposed
    BY <1>3, NextWorks DEF Works, Advanced, Closes
  <2> QED BY <2>2, <2>3, StoryEnds
<1> QED BY <1>1, <1>2, <1>3

LEMMA StoryBegins ==
    ASSUME Init
    PROVE  Story
<1>1. /\ drain = InitDrain /\ waits = <<>> /\ received = <<>> /\ screen = <<>> /\ failed = <<>>
  BY DEF Init
<1>2. drain.writeQueue = <<>> /\ drain.queue = <<>>
  BY <1>1 DEF InitDrain
<1>3. Says(drain) = <<>>
  BY <1>2, EmptyFlat, EmptySeq, ConcatEmptySeq DEF Says
<1>4. Numbered(<<>>, 0) /\ Notes(<<>>, <<>>) /\ Done(<<>>, <<>>, <<>>, <<>>)
      /\ Heard(<<>>, <<>>, <<>>, <<>>)
  BY DEF Numbered, Notes, Done, Heard
<1>5. Order(<<>>, <<>>, <<>>)
  BY DEF Order
<1>6. Selects(<<>>, Shown(<<>>), <<>>)
  <2> DEFINE h == [i \in {} |-> 0]
  <2>1. Shown(<<>>) = {} /\ 1 .. Len(<<>>) = {}
    BY DEF Shown
  <2>2. Picks(<<>>, {}, <<>>, h)
    BY <2>1 DEF Picks
  <2> QED BY <2>1, <2>2 DEF Selects
<1>7. Sorted(screen, received, failed, drain)
  <2>1. <<>> \in Seq(Units) /\ <<>> \o <<>> = <<>>
    BY EmptySeq, ConcatEmptySeq
  <2> QED BY <1>1, <1>3, <1>5, <1>6, <2>1 DEF Sorted
<1> QED BY <1>1, <1>2, <1>4, <1>7 DEF Story

(* Inv and Story are inductive together.                                    *)
LEMMA StoryInduction == GateMode # "collapse" => (Spec => [](Inv /\ Story))
<1> SUFFICES ASSUME GateMode # "collapse" PROVE Spec => [](Inv /\ Story)
  OBVIOUS
<1>1. Init => Inv /\ Story
  BY InitInv, StoryBegins
<1>2. Inv /\ Story /\ [Next]_vars => (Inv /\ Story)'
  <2> SUFFICES ASSUME Inv, Story, [Next]_vars PROVE Inv' /\ Story'
    OBVIOUS
  <2>1. Inv'
    BY NextWorks, WorksKeepsInv, ClosesKeepsInv
  <2> QED BY <2>1, StoryGoesOn
<1> QED BY <1>1, <1>2, PTL DEF Spec

(* However foreground, background and waitForIdle writes take turns at the  *)
(* queue, xterm gets what arrived in that order, once, less what it         *)
(* refused.                                                                 *)
THEOREM TerminalDrawsInOrder == GateMode # "collapse" => (Spec => []DrawnInOrder)
<1>1. Inv /\ Story => DrawnInOrder
  <2> SUFFICES ASSUME Inv, Story, Open PROVE DrawnInOrder
    BY DEF DrawnInOrder
  <2>1. PICK s \in Seq(Units) :
           Selects(screen, Shown(screen), s) /\ Order(received, failed, s \o Says(drain))
    BY DEF Story, Sorted, Open
  <2>2. screen \in Seq(Drawings) /\ received \in Seq(Units) /\ Says(drain) \in Seq(Units)
    BY StoryTypes
  <2>3. Drawn = s
    <3>1. Shown(screen) \in SUBSET Nat
      BY <2>2, LenProperties DEF Shown
    <3>2. Selected(screen, Shown(screen)) = s
      BY <2>1, <3>1, SelectedIs
    <3> QED BY <3>2 DEF Drawn, Shown
  <2>4. (Drawn \o InFlight) \o drain.queue = s \o Says(drain)
    <3> DEFINE x == InFlight
               y == drain.queue
    <3>1. drain.queue \in Seq(Units) /\ drain.writeQueue \in Seq(Link)
      BY StoryTypes DEF Drains
    <3>2. InFlight = Flat(drain.writeQueue)
      BY DEF InFlight, Flat
    <3>3. x \in Seq(Units) /\ y \in Seq(Units)
      BY <3>1, <3>2, FlatType
    <3>4. Says(drain) = x \o y
      BY <3>2 DEF Says
    <3> HIDE DEF x, y
    <3>5. (s \o x) \o y = s \o (x \o y)
      BY <3>3, ConcatAssociative
    <3> QED BY <2>3, <3>4, <3>5 DEF x, y
  <2>5. s \o Says(drain) \in Seq(Units)
    BY <2>2, ConcatProperties
  <2> DEFINE l == s \o Says(drain)
  <2>6. l \in Seq(Units) /\ Order(received, failed, l)
    BY <2>1, <2>5
  <2> HIDE DEF l
  <2>7. Selected(received, {i \in DOMAIN received : ~Contains(failed, received[i])}) = l
    BY <2>2, <2>6, OrderSelects DEF Story
  <2>8. forwarded = received
    BY DEF Inv
  <2> QED BY <2>4, <2>7, <2>8 DEF DrawnInOrder, l
<1> QED BY <1>1, StoryInduction, PTL

(* A status notice appears after all the output that had arrived when it    *)
(* was requested, unless its wait timed out, also when writes of several    *)
(* waits and of the scheduler are under way at once.                        *)
THEOREM TerminalNotices == GateMode # "collapse" => (Spec => []NoticeAfterOutput)
<1>1. Inv /\ Story => NoticeAfterOutput
  <2> SUFFICES ASSUME Inv, Story PROVE NoticeAfterOutput
    OBVIOUS
  <2>1. forwarded = received
    BY DEF Inv
  <2>2. \A k \in DOMAIN screen : screen[k].kind = "notice" =>
           HeardAt(screen, k, waits, received, failed)
    BY DEF Story, Heard
  <2> QED BY <2>1, <2>2 DEF NoticeAfterOutput, HeardAt
<1> QED BY <1>1, StoryInduction, PTL
=============================================================================

------------------------- MODULE OutputBytesProofs --------------------------
(***************************************************************************)
(* More proofs about OutputFlow: where the bytes are, how far the backlog  *)
(* grows, and what the source loop is told of the flow state.              *)
(***************************************************************************)
EXTENDS OutputFlowProofs, FiniteSetTheorems

-----------------------------------------------------------------------------
(* What a critical section of the coalescer does to the bytes, to the flow  *)
(* state and to the catastrophic close.                                     *)

(* The section emits data, if anything, and does so first.                  *)
EmitsOnly(todo, data) ==
    /\ data # <<>> => todo # <<>> /\ todo[1] = Emit(data)
    /\ \A i \in DOMAIN todo : todo[i].op = "emit" => i = 1 /\ data # <<>>

FlowSend(s) == Send(IF s.flow_paused THEN PauseOutput ELSE ResumeOutput)
FlowSends == {Send(PauseOutput), Send(ResumeOutput)}

(* A change of the flow state, and only a change, is sent.                  *)
TellsFlow(before, after, todo) ==
    Elements(todo) \cap FlowSends =
        IF before.flow_paused = after.flow_paused THEN {} ELSE {FlowSend(after)}

(* The oldest bytes of the queue are emitted, the others stay.              *)
Moved(s, r) ==
    \E k \in 0..Len(s.pending) :
        /\ r.st.pending = SubSeq(s.pending, k + 1, Len(s.pending))
        /\ EmitsOnly(r.todo, SubSeq(s.pending, 1, k))

(* Nothing enters the backlog and the close is not asked for.               *)
NoIntake(s, r) ==
    /\ Backlog(r.st) \in Nat
    /\ Backlog(r.st) <= Backlog(s)
    /\ r.st.catastrophic_close_sent = s.catastrophic_close_sent

LEMMA OpsOfEffects ==
    /\ \A data : Emit(data).op = "emit" /\ Emit(data) \notin FlowSends
    /\ \A cmd : Send(cmd).op = "send"
    /\ \A id : Spawn(id).op = "spawn" /\ Spawn(id) \notin FlowSends
    /\ FlushPending.op = "flush_pending" /\ FlushPending \notin FlowSends
    /\ Reschedule.op = "reschedule" /\ Reschedule \notin FlowSends
    /\ Send(Close) \notin FlowSends
    /\ Send(PauseOutput) # Send(ResumeOutput)
BY DEF Emit, Send, Spawn, FlushPending, Reschedule, FlowSends, Close, PauseOutput, ResumeOutput

(* Appending effects that emit nothing.                                     *)
LEMMA EmitsAppend ==
    ASSUME NEW u \in Seq(Effects), NEW v \in Seq(Effects), NEW data,
           EmitsOnly(u, data), \A e \in Elements(v) : e.op # "emit"
    PROVE  EmitsOnly(u \o v, data)
<1>1. ASSUME data # <<>> PROVE u \o v # <<>> /\ (u \o v)[1] = Emit(data)
  BY <1>1 DEF EmitsOnly
<1>2. ASSUME NEW i \in DOMAIN (u \o v), (u \o v)[i].op = "emit" PROVE i = 1 /\ data # <<>>
  <2>1. CASE i \in DOMAIN u
    BY <1>2, <2>1 DEF EmitsOnly
  <2>2. CASE i \notin DOMAIN u
    <3>1. i - Len(u) \in DOMAIN v /\ (u \o v)[i] = v[i - Len(u)]
      BY <2>2
    <3> QED BY <1>2, <3>1 DEF Elements
  <2> QED BY <2>1, <2>2
<1> QED BY <1>1, <1>2 DEF EmitsOnly

LEMMA NoEmits ==
    ASSUME NEW u, \A e \in Elements(u) : e.op # "emit"
    PROVE  EmitsOnly(u, <<>>)
BY DEF EmitsOnly, Elements

LEMMA EmitsWhen ==
    ASSUME NEW data \in Seq(Nat)
    PROVE  LET a == When(data # <<>>, Emit(data)) IN
           /\ a \in Seq(Effects)
           /\ EmitsOnly(a, data)
           /\ Elements(a) \cap FlowSends = {}
BY EffectsTyped, WhenElements, OpsOfEffects DEF When, EmitsOnly, Elements

(* send_flow_change sends exactly the change.                               *)
LEMMA FlowChangeTells ==
    ASSUME NEW before \in OutputState, NEW after \in OutputState
    PROVE  LET b == FlowChange(before, after) IN
           /\ b \in Seq(Effects)
           /\ \A e \in Elements(b) : e.op # "emit"
           /\ TellsFlow(before, after, b)
           /\ Elements(b) \subseteq FlowSends
<1>1. before.flow_paused \in BOOLEAN /\ after.flow_paused \in BOOLEAN
  BY DEF OutputState
<1>2. FlowSend(after) \in Effects /\ FlowSend(after) \in FlowSends /\ FlowSend(after).op = "send"
  BY EffectsTyped, OpsOfEffects DEF FlowSend, FlowSends
<1>3. FlowChange(before, after) = When(before.flow_paused # after.flow_paused, FlowSend(after))
  BY DEF FlowChange, FlowSend
<1>4. CASE before.flow_paused = after.flow_paused
  <2>1. FlowChange(before, after) = <<>>
    BY <1>3, <1>4 DEF When
  <2> QED BY <1>4, <2>1 DEF TellsFlow, Elements
<1>5. CASE before.flow_paused # after.flow_paused
  <2>1. FlowChange(before, after) = <<FlowSend(after)>>
    BY <1>3, <1>5 DEF When
  <2>2. Elements(<<FlowSend(after)>>) = {FlowSend(after)} /\ <<FlowSend(after)>> \in Seq(Effects)
    BY <1>2 DEF Elements
  <2> QED BY <1>2, <1>5, <2>1, <2>2 DEF TellsFlow
<1> QED BY <1>4, <1>5

(* Effects that are not about the flow do not change what it is told.       *)
LEMMA TellsAppend ==
    ASSUME NEW u \in Seq(Effects), NEW v \in Seq(Effects), NEW before, NEW after,
           TellsFlow(before, after, u), Elements(v) \cap FlowSends = {}
    PROVE  TellsFlow(before, after, u \o v)
BY ConcatElements DEF TellsFlow

LEMMA TellsPrepend ==
    ASSUME NEW u \in Seq(Effects), NEW v \in Seq(Effects), NEW before, NEW after,
           TellsFlow(before, after, v), Elements(u) \cap FlowSends = {}
    PROVE  TellsFlow(before, after, u \o v)
BY ConcatElements DEF TellsFlow

(* A flow state that follows the backlog is left alone.                     *)
LEMMA FlowKept ==
    ASSUME NEW s \in OutputState, Hysteresis(s)
    PROVE  update_flow_state(s) = s
<1>1. Backlog(s) \in Nat
  BY DEF Backlog, OutputState
<1> QED BY <1>1, LimitsAssumption DEF Hysteresis, update_flow_state

-----------------------------------------------------------------------------
(* The methods of the coalescer.                                            *)

LEMMA BatchBytes ==
    ASSUME NEW s \in OutputState
    PROVE  LET k == BatchSize(s)
               u == take_pending_batch(s)
           IN  /\ k \in 0..Len(s.pending)
               /\ u \in OutputState
               /\ u.pending = SubSeq(s.pending, k + 1, Len(s.pending))
               /\ Backlog(u) = Backlog(s)
               /\ u.flow_paused = s.flow_paused
               /\ u.catastrophic_close_sent = s.catastrophic_close_sent
<1> DEFINE k == BatchSize(s)
           rest == SubSeq(s.pending, k + 1, Len(s.pending))
           n == s.unacked_bytes + k
           u == [s EXCEPT !.pending = rest, !.unacked_bytes = n]
<1>1. k \in 0..Len(s.pending) /\ take_pending_batch(s) \in OutputState
  BY BatchTyped
<1>2. take_pending_batch(s) = u
  BY DEF take_pending_batch
<1>3. Len(rest) = Len(s.pending) - k
  BY <1>1 DEF OutputState
<1> HIDE DEF k, rest
<1>4. n \in Nat
  BY <1>1 DEF OutputState
<1>5. /\ u.pending = rest /\ u.unacked_bytes = n
      /\ u.flow_paused = s.flow_paused
      /\ u.catastrophic_close_sent = s.catastrophic_close_sent
  BY DEF OutputState
<1>6. Backlog(u) = Backlog(s)
  BY <1>1, <1>3, <1>5 DEF Backlog, OutputState
<1> QED BY <1>1, <1>2, <1>5, <1>6 DEF k, rest

(* A flush moves a batch from the queue to the sink; the backlog, and so a  *)
(* flow state that followed it, stay.                                       *)
LEMMA FlushMoves ==
    ASSUME NEW before \in OutputState, NEW s \in OutputState
    PROVE  LET r == flush_from_state(before, s) IN
           /\ GoodResult(r)
           /\ Moved(s, r)
           /\ NoIntake(s, r)
           /\ TellsFlow(before, r.st, r.todo)
           /\ Hysteresis(s) => r.st.flow_paused = s.flow_paused
<1> DEFINE k     == BatchSize(s)
           data  == SubSeq(s.pending, 1, k)
           taken == take_pending_batch(s)
           after == update_flow_state(taken)
           a == When(data # <<>>, Emit(data))
           b == FlowChange(before, after)
           c == When(after.attached /\ after.pending # <<>>, Reschedule)
           r == flush_from_state(before, s)
<1>1. r.st = after /\ r.todo = a \o b \o c /\ GoodResult(r)
  BY FlushFromState DEF flush_from_state
<1>2. /\ k \in 0..Len(s.pending) /\ taken \in OutputState
      /\ taken.pending = SubSeq(s.pending, k + 1, Len(s.pending))
      /\ Backlog(taken) = Backlog(s) /\ taken.flow_paused = s.flow_paused
      /\ taken.catastrophic_close_sent = s.catastrophic_close_sent
      /\ data \in Seq(Nat)
  BY BatchBytes, BatchTyped
<1> HIDE DEF taken, data, k
<1>3. /\ after \in OutputState /\ after.pending = taken.pending
      /\ after.unacked_bytes = taken.unacked_bytes
      /\ after.catastrophic_close_sent = taken.catastrophic_close_sent
  BY <1>2, FlowUpdated
<1>4. Hysteresis(s) => after.flow_paused = s.flow_paused
  <2>1. Hysteresis(s) => Hysteresis(taken)
    BY <1>2 DEF Hysteresis
  <2> QED BY <1>2, <2>1, FlowKept
<1> HIDE DEF after
<1>5. Backlog(after) = Backlog(s) /\ Backlog(s) \in Nat
  <2>1. Backlog(after) = Backlog(taken)
    BY <1>3 DEF Backlog
  <2>2. Backlog(s) \in Nat
    BY DEF Backlog, OutputState
  <2> QED BY <1>2, <2>1, <2>2
<1>6. a \in Seq(Effects) /\ EmitsOnly(a, data) /\ Elements(a) \cap FlowSends = {}
  BY <1>2, EmitsWhen
<1>7. b \in Seq(Effects) /\ (\A e \in Elements(b) : e.op # "emit") /\ TellsFlow(before, after, b)
  BY <1>3, FlowChangeTells
<1>8. /\ c \in Seq(Effects) /\ Elements(c) \cap FlowSends = {}
      /\ \A e \in Elements(c) : e.op # "emit"
  <2> DEFINE left == after.attached /\ after.pending # <<>>
  <2>1. left \in BOOLEAN
    BY <1>3 DEF OutputState
  <2> HIDE DEF left
  <2>2. When(left, Reschedule) \in Seq(Effects) /\ Elements(When(left, Reschedule)) \subseteq {Reschedule}
    BY <2>1, EffectsTyped, WhenElements
  <2>3. c = When(left, Reschedule)
    BY DEF left
  <2> HIDE DEF c
  <2> QED BY <2>2, <2>3, OpsOfEffects
<1> HIDE DEF a, b, c, r
<1>9. a \o b \in Seq(Effects) /\ EmitsOnly(a \o b, data) /\ TellsFlow(before, after, a \o b)
  BY <1>6, <1>7, ConcatElements, EmitsAppend, TellsPrepend
<1>10. EmitsOnly(a \o b \o c, data) /\ TellsFlow(before, after, a \o b \o c)
  BY <1>8, <1>9, EmitsAppend, TellsAppend
<1>11. Moved(s, r)
  BY <1>1, <1>2, <1>3, <1>10 DEF Moved, data
<1> QED BY <1>1, <1>2, <1>3, <1>4, <1>5, <1>10, <1>11 DEF NoIntake, r

LEMMA CancelledBytes ==
    ASSUME NEW s \in OutputState
    PROVE  LET c == Cancelled(s) IN
           /\ c \in OutputState
           /\ c.pending = s.pending
           /\ Backlog(c) = Backlog(s)
           /\ c.flow_paused = s.flow_paused
           /\ c.catastrophic_close_sent = s.catastrophic_close_sent
<1> DEFINE n == s.next_flush_id + 1
           c == [s EXCEPT !.next_flush_id = n, !.scheduled_flush_id = NoFlush]
<1>1. Cancelled(s) = c
  BY DEF Cancelled
<1>2. n \in Nat /\ NoFlush \in Nat
  BY DEF OutputState, NoFlush
<1> HIDE DEF n
<1>3. /\ c \in OutputState /\ c.pending = s.pending /\ c.unacked_bytes = s.unacked_bytes
      /\ c.flow_paused = s.flow_paused
      /\ c.catastrophic_close_sent = s.catastrophic_close_sent
  BY <1>2 DEF OutputState
<1> QED BY <1>1, <1>3 DEF Backlog

LEMMA ScheduledBytes ==
    ASSUME NEW s \in OutputState
    PROVE  LET c == Scheduled(s) IN
           /\ c \in OutputState
           /\ c.pending = s.pending
           /\ Backlog(c) = Backlog(s)
           /\ c.flow_paused = s.flow_paused
           /\ c.catastrophic_close_sent = s.catastrophic_close_sent
<1> DEFINE n == s.next_flush_id + 1
           c == [s EXCEPT !.next_flush_id = n, !.scheduled_flush_id = n]
<1>1. Scheduled(s) = c
  BY DEF Scheduled
<1>2. n \in Nat
  BY DEF OutputState
<1> HIDE DEF n
<1>3. /\ c \in OutputState /\ c.pending = s.pending /\ c.unacked_bytes = s.unacked_bytes
      /\ c.flow_paused = s.flow_paused
      /\ c.catastrophic_close_sent = s.catastrophic_close_sent
  BY <1>2 DEF OutputState
<1> QED BY <1>1, <1>3 DEF Backlog

(* A section that emits nothing and leaves the queue alone.                 *)
LEMMA NothingMoved ==
    ASSUME NEW s \in OutputState, NEW r, r.st.pending = s.pending, EmitsOnly(r.todo, <<>>)
    PROVE  Moved(s, r)
<1>1. /\ SubSeq(s.pending, 0 + 1, Len(s.pending)) = s.pending
      /\ SubSeq(s.pending, 1, 0) = <<>>
      /\ 0 \in 0..Len(s.pending)
  BY DEF OutputState
<1> QED BY <1>1 DEF Moved

LEMMA AttachMoves ==
    ASSUME NEW s \in OutputState
    PROVE  LET r == attach(s) IN
           GoodResult(r) /\ Moved(s, r) /\ NoIntake(s, r) /\ TellsFlow(s, r.st, r.todo)
<1> DEFINE ready == [s EXCEPT !.attached = TRUE, !.unacked_bytes = 0]
           c == Cancelled(ready)
<1>1. /\ ready \in OutputState /\ ready.pending = s.pending /\ ready.unacked_bytes = 0
      /\ ready.catastrophic_close_sent = s.catastrophic_close_sent
  BY DEF OutputState
<1>2. attach(s) = flush_from_state(s, c)
  BY DEF attach
<1>3. Backlog(ready) \in Nat /\ Backlog(ready) <= Backlog(s)
  BY <1>1 DEF Backlog, OutputState
<1> HIDE DEF ready
<1>4. /\ c \in OutputState /\ c.pending = s.pending /\ Backlog(c) = Backlog(ready)
      /\ c.catastrophic_close_sent = s.catastrophic_close_sent
  BY <1>1, CancelledBytes
<1> HIDE DEF c
<1>5. LET r == flush_from_state(s, c) IN
      GoodResult(r) /\ Moved(c, r) /\ NoIntake(c, r) /\ TellsFlow(s, r.st, r.todo)
  BY <1>4, FlushMoves
<1>6. Backlog(s) \in Nat
  BY DEF Backlog, OutputState
<1> QED BY <1>2, <1>3, <1>4, <1>5, <1>6 DEF Moved, NoIntake

LEMMA DetachMoves ==
    ASSUME NEW s \in OutputState
    PROVE  LET r == detach(s) IN
           GoodResult(r) /\ Moved(s, r) /\ NoIntake(s, r) /\ TellsFlow(s, r.st, r.todo)
<1> DEFINE gone  == [s EXCEPT !.attached = FALSE, !.unacked_bytes = 0]
           c     == Cancelled(gone)
           after == update_flow_state(c)
<1>1. /\ gone \in OutputState /\ gone.pending = s.pending /\ gone.unacked_bytes = 0
      /\ gone.catastrophic_close_sent = s.catastrophic_close_sent
  BY DEF OutputState
<1>2. detach(s) = [st |-> after, todo |-> FlowChange(s, after)]
  BY DEF detach
<1>3. Backlog(gone) \in Nat /\ Backlog(gone) <= Backlog(s)
  BY <1>1 DEF Backlog, OutputState
<1> HIDE DEF gone
<1>4. /\ c \in OutputState /\ c.pending = s.pending /\ Backlog(c) = Backlog(gone)
      /\ c.catastrophic_close_sent = s.catastrophic_close_sent
  BY <1>1, CancelledBytes
<1> HIDE DEF c
<1>5. /\ after \in OutputState /\ after.pending = s.pending
      /\ after.unacked_bytes = c.unacked_bytes
      /\ after.catastrophic_close_sent = s.catastrophic_close_sent
  BY <1>4, FlowUpdated
<1>6. Backlog(after) = Backlog(gone)
  BY <1>4, <1>5 DEF Backlog
<1> HIDE DEF after
<1>7. EmitsOnly(FlowChange(s, after), <<>>) /\ TellsFlow(s, after, FlowChange(s, after))
  BY <1>5, FlowChangeTells DEF EmitsOnly, Elements
<1> DEFINE r == detach(s)
<1>8. r.st = after /\ r.todo = FlowChange(s, after) /\ GoodResult(r)
  BY <1>2, DetachSection
<1> HIDE DEF r
<1> QED BY <1>3, <1>5, <1>6, <1>7, <1>8, NothingMoved DEF NoIntake, r

LEMMA FlushPendingMoves ==
    ASSUME NEW s \in OutputState, Hysteresis(s)
    PROVE  LET r == flush_pending(s) IN
           /\ GoodResult(r) /\ Moved(s, r) /\ NoIntake(s, r)
           /\ Elements(r.todo) \cap FlowSends = {}
           /\ r.st.flow_paused = s.flow_paused
<1> DEFINE c == Cancelled(s)
<1>1. /\ c \in OutputState /\ c.pending = s.pending /\ Backlog(c) = Backlog(s)
      /\ c.flow_paused = s.flow_paused
      /\ c.catastrophic_close_sent = s.catastrophic_close_sent
  BY CancelledBytes
<1>2. CASE s.attached
  <2>1. flush_pending(s) = flush_from_state(s, c)
    BY <1>2 DEF flush_pending
  <2> HIDE DEF c
  <2>2. Hysteresis(c)
    BY <1>1 DEF Hysteresis
  <2>3. LET r == flush_from_state(s, c) IN
        /\ GoodResult(r) /\ Moved(c, r) /\ NoIntake(c, r) /\ TellsFlow(s, r.st, r.todo)
        /\ r.st.flow_paused = c.flow_paused
    BY <1>1, <2>2, FlushMoves
  <2> QED BY <1>1, <2>1, <2>3 DEF Moved, NoIntake, TellsFlow
<1>3. CASE ~s.attached
  <2> DEFINE r == flush_pending(s)
  <2>1. r.st = s /\ r.todo = <<>>
    BY <1>3 DEF flush_pending
  <2> HIDE DEF r
  <2>2. EmitsOnly(r.todo, <<>>) /\ Elements(r.todo) = {}
    BY <2>1 DEF EmitsOnly, Elements
  <2>3. Backlog(s) \in Nat
    BY DEF Backlog, OutputState
  <2> QED BY <2>1, <2>2, <2>3, NothingMoved DEF NoIntake, GoodResult, r
<1> QED BY <1>2, <1>3

LEMMA RescheduleMoves ==
    ASSUME NEW s \in OutputState, Hysteresis(s)
    PROVE  LET r == reschedule(s) IN
           /\ GoodResult(r) /\ Moved(s, r) /\ NoIntake(s, r)
           /\ Elements(r.todo) \cap FlowSends = {}
           /\ r.st.flow_paused = s.flow_paused
<1> DEFINE r == reschedule(s)
           n == s.next_flush_id + 1
<1>1. \/ r.st = Scheduled(s) /\ r.todo = <<Spawn(n)>>
      \/ r.st = s /\ r.todo = <<>>
  BY DEF reschedule
<1>2. GoodResult(r)
  BY RescheduleSection
<1> HIDE DEF r, n
<1>3. /\ r.st.pending = s.pending /\ Backlog(r.st) = Backlog(s)
      /\ r.st.flow_paused = s.flow_paused
      /\ r.st.catastrophic_close_sent = s.catastrophic_close_sent
  BY <1>1, ScheduledBytes
<1>4. EmitsOnly(r.todo, <<>>) /\ Elements(r.todo) \cap FlowSends = {}
  BY <1>1, OpsOfEffects DEF EmitsOnly, Elements
<1>5. Backlog(s) \in Nat
  BY DEF Backlog, OutputState
<1> QED BY <1>2, <1>3, <1>4, <1>5, NothingMoved DEF NoIntake, r

LEMMA TimerMoves ==
    ASSUME NEW s \in OutputState, Hysteresis(s), NEW id
    PROVE  LET r == flush_if_scheduled(s, id) IN
           /\ GoodResult(r) /\ Moved(s, r) /\ NoIntake(s, r)
           /\ Elements(r.todo) \cap FlowSends = {}
           /\ r.st.flow_paused = s.flow_paused
<1> DEFINE taken == [s EXCEPT !.scheduled_flush_id = NoFlush]
           r == flush_if_scheduled(s, id)
<1>1. /\ taken \in OutputState /\ taken.pending = s.pending
      /\ taken.unacked_bytes = s.unacked_bytes
      /\ taken.flow_paused = s.flow_paused
      /\ taken.catastrophic_close_sent = s.catastrophic_close_sent
  BY DEF OutputState, NoFlush
<1>2. GoodResult(r)
  BY TimerSection
<1>3. CASE s.scheduled_flush_id = id /\ s.attached
  <2>1. r = flush_from_state(s, taken)
    BY <1>3 DEF flush_if_scheduled
  <2> HIDE DEF taken, r
  <2>2. Backlog(taken) = Backlog(s) /\ (Hysteresis(s) <=> Hysteresis(taken))
    BY <1>1 DEF Backlog, Hysteresis
  <2>3. /\ Moved(taken, r) /\ NoIntake(taken, r) /\ TellsFlow(s, r.st, r.todo)
        /\ r.st.flow_paused = taken.flow_paused
    BY <1>1, <2>1, <2>2, FlushMoves
  <2>4. Moved(s, r) /\ NoIntake(s, r)
    BY <1>1, <2>2, <2>3 DEF Moved, NoIntake
  <2>5. Elements(r.todo) \cap FlowSends = {}
    BY <1>1, <2>3 DEF TellsFlow
  <2> QED BY <1>1, <1>2, <2>3, <2>4, <2>5 DEF r
<1>4. CASE ~(s.scheduled_flush_id = id /\ s.attached)
  <2>1. r.todo = <<>> /\ (r.st = s \/ r.st = taken)
    <3>1. CASE s.scheduled_flush_id # id
      BY <3>1 DEF flush_if_scheduled
    <3>2. CASE s.scheduled_flush_id = id /\ ~s.attached
      BY <3>2 DEF flush_if_scheduled
    <3> QED BY <1>4, <3>1, <3>2
  <2> HIDE DEF taken, r
  <2>2. /\ r.st.pending = s.pending /\ r.st.unacked_bytes = s.unacked_bytes
        /\ r.st.flow_paused = s.flow_paused
        /\ r.st.catastrophic_close_sent = s.catastrophic_close_sent
    BY <1>1, <2>1
  <2>3. Backlog(r.st) = Backlog(s) /\ Backlog(s) \in Nat
    BY <2>2 DEF Backlog, OutputState
  <2>4. EmitsOnly(r.todo, <<>>) /\ Elements(r.todo) = {}
    BY <2>1 DEF EmitsOnly, Elements
  <2> QED BY <1>2, <2>2, <2>3, <2>4, NothingMoved DEF NoIntake, r
<1> QED BY <1>3, <1>4

LEMMA AckMoves ==
    ASSUME NEW s \in OutputState, NEW bytes \in Nat
    PROVE  LET r == ack(s, bytes) IN
           GoodResult(r) /\ Moved(s, r) /\ NoIntake(s, r) /\ TellsFlow(s, r.st, r.todo)
<1> DEFINE left   == IF s.unacked_bytes <= bytes THEN 0 ELSE s.unacked_bytes - bytes
           fewer  == [s EXCEPT !.unacked_bytes = left]
           flowed == update_flow_state(fewer)
           soon   == /\ flowed.attached
                     /\ flowed.pending # <<>>
                     /\ flowed.scheduled_flush_id = NoFlush
           after  == IF soon THEN Scheduled(flowed) ELSE flowed
           a == FlowChange(s, after)
           b == When(soon, Spawn(after.next_flush_id))
           r == ack(s, bytes)
<1>1. r.st = after /\ r.todo = a \o b /\ GoodResult(r)
  BY AckSection DEF ack
<1>2. left \in Nat /\ left <= s.unacked_bytes
  BY DEF OutputState
<1> HIDE DEF r, left
<1>3. /\ fewer \in OutputState /\ fewer.pending = s.pending /\ fewer.unacked_bytes = left
      /\ fewer.catastrophic_close_sent = s.catastrophic_close_sent
  BY <1>2 DEF OutputState
<1> HIDE DEF fewer
<1>4. /\ flowed \in OutputState /\ flowed.pending = s.pending /\ flowed.unacked_bytes = left
      /\ flowed.catastrophic_close_sent = s.catastrophic_close_sent
  BY <1>3, FlowUpdated
<1> HIDE DEF flowed
<1>5. Backlog(flowed) \in Nat /\ Backlog(flowed) <= Backlog(s)
  BY <1>2, <1>4 DEF Backlog, OutputState
<1>6. soon \in BOOLEAN
  BY <1>4 DEF OutputState
<1>7. /\ after \in OutputState /\ after.pending = flowed.pending
      /\ Backlog(after) = Backlog(flowed)
      /\ after.catastrophic_close_sent = flowed.catastrophic_close_sent
  BY <1>4, ScheduledBytes
<1> HIDE DEF soon, after
<1>8. a \in Seq(Effects) /\ (\A e \in Elements(a) : e.op # "emit") /\ TellsFlow(s, after, a)
  BY <1>7, FlowChangeTells
<1>9. b \in Seq(Effects) /\ Elements(b) \subseteq {Spawn(after.next_flush_id)}
  <2>1. Spawn(after.next_flush_id) \in Effects
    BY <1>7, EffectsTyped DEF OutputState
  <2> QED BY <1>6, <2>1, WhenElements
<1> HIDE DEF a, b
<1>10. Elements(b) \cap FlowSends = {} /\ \A e \in Elements(b) : e.op # "emit"
  BY <1>9, OpsOfEffects
<1>11. TellsFlow(s, after, a \o b) /\ Elements(a \o b) = Elements(a) \cup Elements(b)
  BY <1>8, <1>9, <1>10, TellsAppend, ConcatElements
<1>12. EmitsOnly(r.todo, <<>>)
  BY <1>1, <1>8, <1>10, <1>11, NoEmits
<1>13. Moved(s, r)
  BY <1>1, <1>4, <1>7, <1>12, NothingMoved
<1>14. NoIntake(s, r)
  BY <1>1, <1>4, <1>5, <1>7 DEF NoIntake
<1> QED BY <1>1, <1>11, <1>13, <1>14 DEF r

(* close empties the queue; the newest bytes of it are emitted.             *)
LEMMA CloseMoves ==
    ASSUME NEW s \in OutputState
    PROVE  LET r == close(s) IN
           /\ GoodResult(r) /\ NoIntake(s, r) /\ TellsFlow(s, r.st, r.todo)
           /\ r.st.pending = <<>>
           /\ \E k \in 1..(Len(s.pending) + 1) :
                 EmitsOnly(r.todo, SubSeq(s.pending, k, Len(s.pending)))
<1> DEFINE c     == Cancelled(s)
           n     == Len(c.pending)
           k     == n - Smaller(n, CloseFlushMax) + 1
           kept  == SubSeq(c.pending, k, n)
           total == c.unacked_bytes + Len(kept)
           sent  == [c EXCEPT !.pending = <<>>, !.unacked_bytes = total]
           after == update_flow_state(sent)
           a == When(kept # <<>>, Emit(kept))
           b == FlowChange(c, after)
           r == close(s)
<1>1. r.st = after /\ r.todo = a \o b /\ GoodResult(r)
  BY CloseSection DEF close, flush_all_from_state
<1>2. /\ c \in OutputState /\ c.pending = s.pending /\ Backlog(c) = Backlog(s)
      /\ c.flow_paused = s.flow_paused
      /\ c.catastrophic_close_sent = s.catastrophic_close_sent
  BY CancelledBytes
<1> HIDE DEF c, r
<1>3. n \in Nat /\ k \in 1..(n + 1)
  <2>1. n \in Nat
    BY <1>2 DEF OutputState
  <2> HIDE DEF n
  <2>2. Smaller(n, CloseFlushMax) \in 0..n
    BY <2>1, LimitsAssumption DEF Smaller
  <2> QED BY <2>1, <2>2
<1> HIDE DEF k
<1>4. kept \in Seq(Nat) /\ Len(kept) \in 0..n
  BY <1>2, <1>3 DEF OutputState
<1>5. total \in Nat /\ total <= Backlog(c) /\ Backlog(c) \in Nat
  BY <1>2, <1>4, SMTT(30) DEF Backlog, OutputState
<1> HIDE DEF kept, total
<1>6. /\ sent \in OutputState /\ sent.pending = <<>> /\ sent.unacked_bytes = total
      /\ sent.catastrophic_close_sent = c.catastrophic_close_sent
  <2>1. <<>> \in Seq(Nat)
    OBVIOUS
  <2> QED BY <1>2, <1>5, <2>1 DEF OutputState
<1> HIDE DEF sent
<1>7. /\ after \in OutputState /\ after.pending = <<>> /\ after.unacked_bytes = total
      /\ after.catastrophic_close_sent = c.catastrophic_close_sent
  BY <1>6, FlowUpdated
<1> HIDE DEF after
<1>8. Backlog(after) = total
  BY <1>5, <1>7 DEF Backlog
<1>9. a \in Seq(Effects) /\ EmitsOnly(a, kept) /\ Elements(a) \cap FlowSends = {}
  BY <1>4, EmitsWhen
<1>10. b \in Seq(Effects) /\ (\A e \in Elements(b) : e.op # "emit") /\ TellsFlow(c, after, b)
  BY <1>2, <1>7, FlowChangeTells
<1> HIDE DEF a, b
<1>11. EmitsOnly(a \o b, kept) /\ TellsFlow(c, after, a \o b)
  BY <1>9, <1>10, EmitsAppend, TellsPrepend
<1>12. TellsFlow(s, r.st, r.todo)
  BY <1>1, <1>2, <1>11 DEF TellsFlow
<1>13. NoIntake(s, r)
  BY <1>1, <1>2, <1>5, <1>7, <1>8 DEF NoIntake
<1>14. EmitsOnly(r.todo, SubSeq(s.pending, k, Len(s.pending))) /\ k \in 1..(Len(s.pending) + 1)
  BY <1>1, <1>2, <1>3, <1>11 DEF kept
<1> QED BY <1>1, <1>7, <1>12, <1>13, <1>14 DEF r

(* push_owned queues the text and asks for the close of an overflow.        *)
LEMMA PushMoves ==
    ASSUME NEW s \in OutputState, NEW text \in Seq(Nat)
    PROVE  LET r == push_owned(s, text) IN
           /\ GoodResult(r) /\ TellsFlow(s, r.st, r.todo)
           /\ r.st.pending = s.pending \o text
           /\ EmitsOnly(r.todo, <<>>)
           /\ Backlog(r.st) = Backlog(s) + Len(text)
           /\ s.catastrophic_close_sent => r.st.catastrophic_close_sent
           /\ r.st.catastrophic_close_sent =>
                 s.catastrophic_close_sent \/ Send(Close) \in Elements(r.todo)
           /\ Backlog(r.st) >= CatastrophicBacklog => r.st.catastrophic_close_sent
<1> DEFINE queued == [s EXCEPT !.pending = s.pending \o text]
           flowed == update_flow_state(queued)
           over   == overflows(flowed)
           marked == IF over
                     THEN [flowed EXCEPT !.catastrophic_close_sent = TRUE]
                     ELSE flowed
           now    == marked.attached /\ Len(marked.pending) >= batch_limit(marked)
           soon   == /\ ~now
                     /\ marked.attached
                     /\ s.pending = <<>>
                     /\ marked.scheduled_flush_id = NoFlush
           after  == CASE now  -> Cancelled(marked)
                       [] soon -> Scheduled(marked)
                       [] OTHER -> marked
           a == FlowChange(s, after)
           b == When(over, Send(Close))
           c == When(soon, Spawn(after.next_flush_id))
           d == When(now, FlushPending)
           r == push_owned(s, text)
<1>1. r.st = after /\ r.todo = a \o b \o c \o d /\ GoodResult(r)
  BY PushSection DEF push_owned
<1> HIDE DEF r
<1>2. /\ queued \in OutputState /\ queued.pending = s.pending \o text
      /\ queued.unacked_bytes = s.unacked_bytes
      /\ queued.catastrophic_close_sent = s.catastrophic_close_sent
  <2>1. s.pending \o text \in Seq(Nat)
    BY DEF OutputState
  <2> QED BY <2>1 DEF OutputState
<1> HIDE DEF queued
<1>3. /\ flowed \in OutputState /\ flowed.pending = s.pending \o text
      /\ flowed.unacked_bytes = s.unacked_bytes
      /\ flowed.catastrophic_close_sent = s.catastrophic_close_sent
  BY <1>2, FlowUpdated
<1> HIDE DEF flowed
<1>4. Backlog(flowed) = Backlog(s) + Len(text) /\ Backlog(flowed) \in Nat
  BY <1>3 DEF Backlog, OutputState
<1>5. /\ marked \in OutputState /\ marked.pending = s.pending \o text
      /\ marked.unacked_bytes = s.unacked_bytes
      /\ marked.catastrophic_close_sent <=> over \/ s.catastrophic_close_sent
  <2>1. CASE over
    <3> DEFINE m == [flowed EXCEPT !.catastrophic_close_sent = TRUE]
    <3>1. /\ m \in OutputState /\ m.pending = flowed.pending
          /\ m.unacked_bytes = flowed.unacked_bytes /\ m.catastrophic_close_sent
      BY <1>3 DEF OutputState
    <3>2. marked = m
      BY <2>1
    <3> HIDE DEF m, marked
    <3> QED BY <1>3, <2>1, <3>1, <3>2
  <2>2. CASE ~over
    BY <1>3, <2>2
  <2> QED BY <2>1, <2>2
<1>6. Backlog(flowed) >= CatastrophicBacklog /\ ~s.catastrophic_close_sent => over
  BY <1>3 DEF overflows
<1>7. over \in BOOLEAN
  BY DEF overflows
<1> HIDE DEF marked, over
<1>8. now \in BOOLEAN /\ soon \in BOOLEAN
  BY <1>5 DEF OutputState
<1>9. after \in {Cancelled(marked), Scheduled(marked), marked}
  <2>1. CASE now
    BY <2>1
  <2>2. CASE soon
    BY <1>8, <2>2
  <2>3. CASE ~now /\ ~soon
    BY <2>3
  <2> QED BY <1>8, <2>1, <2>2, <2>3
<1> HIDE DEF now, soon, after
<1>10. /\ after \in OutputState /\ after.pending = s.pending \o text
       /\ Backlog(after) = Backlog(marked)
       /\ after.catastrophic_close_sent <=> over \/ s.catastrophic_close_sent
  BY <1>5, <1>9, CancelledBytes, ScheduledBytes, SMTT(30)
<1>11. Backlog(marked) = Backlog(s) + Len(text)
  BY <1>3, <1>4, <1>5 DEF Backlog
<1>12. a \in Seq(Effects) /\ (\A e \in Elements(a) : e.op # "emit") /\ TellsFlow(s, after, a)
  BY <1>10, FlowChangeTells
<1>13. /\ b \in Seq(Effects) /\ Elements(b) \subseteq {Send(Close)}
       /\ over => Send(Close) \in Elements(b)
  BY <1>7, EffectsTyped, WhenElements
<1>14. c \in Seq(Effects) /\ Elements(c) \subseteq {Spawn(after.next_flush_id)}
  <2>1. Spawn(after.next_flush_id) \in Effects
    BY <1>10, EffectsTyped DEF OutputState
  <2> QED BY <1>8, <2>1, WhenElements
<1>15. d \in Seq(Effects) /\ Elements(d) \subseteq {FlushPending}
  BY <1>8, EffectsTyped, WhenElements
<1> HIDE DEF a, b, c, d
<1> DEFINE ab == a \o b
           abc == ab \o c
           all == abc \o d
<1>16. /\ ab \in Seq(Effects) /\ Elements(ab) = Elements(a) \cup Elements(b)
       /\ TellsFlow(s, after, ab)
  <2>1. Elements(b) \cap FlowSends = {}
    BY <1>13, OpsOfEffects
  <2> QED BY <1>12, <1>13, <2>1, ConcatElements, TellsAppend
<1> HIDE DEF ab
<1>17. /\ abc \in Seq(Effects) /\ Elements(abc) = Elements(ab) \cup Elements(c)
       /\ TellsFlow(s, after, abc)
  <2>1. Elements(c) \cap FlowSends = {}
    BY <1>14, OpsOfEffects
  <2> QED BY <1>14, <1>16, <2>1, ConcatElements, TellsAppend
<1> HIDE DEF abc
<1>18. /\ all \in Seq(Effects) /\ Elements(all) = Elements(abc) \cup Elements(d)
       /\ TellsFlow(s, after, all)
  <2>1. Elements(d) \cap FlowSends = {}
    BY <1>15, OpsOfEffects
  <2> QED BY <1>15, <1>17, <2>1, ConcatElements, TellsAppend
<1>19. r.todo = all
  BY <1>1 DEF abc, ab
<1> HIDE DEF all
<1>20. EmitsOnly(r.todo, <<>>)
  <2>1. \A e \in Elements(b) \cup Elements(c) \cup Elements(d) : e.op # "emit"
    BY <1>13, <1>14, <1>15, OpsOfEffects
  <2>2. \A e \in Elements(all) : e.op # "emit"
    BY <1>12, <1>16, <1>17, <1>18, <2>1
  <2> QED BY <1>19, <2>2, NoEmits
<1>21. over => Send(Close) \in Elements(r.todo)
  BY <1>13, <1>16, <1>17, <1>18, <1>19
<1>22. Backlog(r.st) = Backlog(s) + Len(text) /\ Backlog(r.st) = Backlog(flowed)
  BY <1>1, <1>4, <1>10, <1>11
<1>23. r.st.catastrophic_close_sent <=> over \/ s.catastrophic_close_sent
  BY <1>1, <1>10
<1> QED BY <1>1, <1>6, <1>10, <1>18, <1>19, <1>20, <1>21, <1>22, <1>23 DEF r

-----------------------------------------------------------------------------
(* The invariants.                                                          *)

(* The close command of an overflow is owed, queued or handled ...          *)
CloseKnown ==
    st.catastrophic_close_sent =>
        ~Running \/ Send(Close) \in Owed \/ Close \in Elements(cmd_rx)

(* ... and no push makes the backlog catastrophic without asking for it.    *)
OverflowMarked == Backlog(st) >= CatastrophicBacklog => st.catastrophic_close_sent

FlowWords == {PauseOutput, ResumeOutput}

(* The last the command loop hears of the flow state is p: the last flow    *)
(* command queued says so, or none is queued and the flag says so.          *)
LastWord(queue, flag, p) ==
    \/ \E i \in DOMAIN queue :
          /\ queue[i] = IF p THEN PauseOutput ELSE ResumeOutput
          /\ \A k \in DOMAIN queue : k > i => queue[k] \notin FlowWords
    \/ /\ flag = p
       /\ \A k \in DOMAIN queue : queue[k] \notin FlowWords

(* On a single task only that task tells the flow state, it tells the       *)
(* current one, and what it has told is heard last.                         *)
TaskTells ==
    \A j \in jobs : Elements(j.todo) \cap FlowSends # {} => j.thread = Reader
TellsCurrent == Owed \cap FlowSends \subseteq {FlowSend(st)}
FlowHeard ==
    Running /\ Owed \cap FlowSends = {} => LastWord(cmd_rx, output_paused, st.flow_paused)

(* No byte occurs twice.                                                    *)
Distinct(seq) == \A i, k \in DOMAIN seq : seq[i] = seq[k] => i = k

(* What a thread is about to give to the sink.                              *)
Cargo(j) == IF Head(j.todo).op = "emit" THEN Head(j.todo).data ELSE <<>>
Carried == UNION {Elements(Cargo(j)) : j \in jobs}

(* A thread emits before it does anything else.                             *)
EmitsFirst == \A j \in jobs : \A i \in DOMAIN j.todo : j.todo[i].op = "emit" => i = 1

(* Where the bytes are: each in one place, once.                            *)
Queued ==
    /\ Distinct(st.pending)
    /\ Elements(st.pending) \subseteq 1..produced
    /\ Elements(st.pending) \cap Elements(emitted) = {}
Received == Distinct(emitted) /\ Elements(emitted) \subseteq 1..produced
InTransit ==
    /\ \A j \in jobs : Distinct(Cargo(j))
    /\ \A j, k \in jobs : Elements(Cargo(j)) \cap Elements(Cargo(k)) # {} => j = k
    /\ Carried \subseteq 1..produced
    /\ Carried \cap (Elements(st.pending) \cup Elements(emitted)) = {}
Accounted ==
    source = "open" /\ loop # "closed" =>
        1..produced \subseteq Elements(st.pending) \cup Carried \cup Elements(emitted)

ByteInv == EmitsFirst /\ Queued /\ Received /\ InTransit /\ Accounted
-----------------------------------------------------------------------------
(* Cutting a sequence without duplicates.                                   *)

LEMMA Prefixes ==
    ASSUME NEW q \in Seq(Nat), Distinct(q), NEW k \in 0..Len(q)
    PROVE  LET data == SubSeq(q, 1, k)
               rest == SubSeq(q, k + 1, Len(q))
           IN  /\ Distinct(data) /\ Distinct(rest)
               /\ Elements(data) \cap Elements(rest) = {}
               /\ Elements(data) \cup Elements(rest) = Elements(q)
<1> DEFINE data == SubSeq(q, 1, k)
           rest == SubSeq(q, k + 1, Len(q))
<1>1. /\ DOMAIN data = 1..k
      /\ \A i \in 1..k : data[i] = q[i] /\ i \in DOMAIN q
  OBVIOUS
<1>2. /\ DOMAIN rest = 1..(Len(q) - k)
      /\ \A i \in 1..(Len(q) - k) : rest[i] = q[k + i] /\ k + i \in DOMAIN q
  BY SMTT(30)
<1> HIDE DEF data, rest
<1>3. Distinct(data)
  BY <1>1 DEF Distinct
<1>4. Distinct(rest)
  BY <1>2, SMTT(30) DEF Distinct
<1>5. ASSUME NEW i \in DOMAIN data, NEW l \in DOMAIN rest PROVE data[i] # rest[l]
  <2>1. data[i] = q[i] /\ rest[l] = q[k + l] /\ i # k + l /\ i \in DOMAIN q /\ k + l \in DOMAIN q
    BY <1>1, <1>2
  <2> QED BY <2>1 DEF Distinct
<1>6. Elements(data) \cap Elements(rest) = {}
  BY <1>5 DEF Elements
<1>7. Elements(data) \subseteq Elements(q) /\ Elements(rest) \subseteq Elements(q)
  BY <1>1, <1>2 DEF Elements
<1>8. ASSUME NEW i \in DOMAIN q PROVE q[i] \in Elements(data) \cup Elements(rest)
  <2>1. CASE i <= k
    BY <1>1, <2>1 DEF Elements
  <2>2. CASE i > k
    <3>1. i - k \in DOMAIN rest /\ rest[i - k] = q[i]
      BY <1>2, <2>2
    <3> QED BY <3>1 DEF Elements
  <2> QED BY <2>1, <2>2
<1> QED BY <1>3, <1>4, <1>6, <1>7, <1>8 DEF Elements, data, rest

(* What a close emits.                                                      *)
LEMMA Suffixes ==
    ASSUME NEW q \in Seq(Nat), Distinct(q), NEW k \in 1..(Len(q) + 1)
    PROVE  LET kept == SubSeq(q, k, Len(q))
           IN  Distinct(kept) /\ Elements(kept) \subseteq Elements(q)
<1> DEFINE m == k - 1
<1>1. m \in 0..Len(q) /\ k = m + 1
  OBVIOUS
<1> HIDE DEF m
<1>2. LET rest == SubSeq(q, m + 1, Len(q))
      IN  Distinct(rest) /\ Elements(rest) \subseteq Elements(q)
  BY <1>1, Prefixes
<1> QED BY <1>1, <1>2

(* Joining two sequences that share nothing.                                *)
LEMMA JoinDistinct ==
    ASSUME NEW u \in Seq(Nat), NEW v \in Seq(Nat), Distinct(u), Distinct(v),
           Elements(u) \cap Elements(v) = {}
    PROVE  Distinct(u \o v)
<1> SUFFICES ASSUME NEW i \in DOMAIN (u \o v), NEW k \in DOMAIN (u \o v),
                    (u \o v)[i] = (u \o v)[k]
             PROVE  i = k
  BY DEF Distinct
<1>1. \A x \in DOMAIN (u \o v) :
         \/ x \in DOMAIN u /\ (u \o v)[x] = u[x]
         \/ /\ x - Len(u) \in DOMAIN v /\ (u \o v)[x] = v[x - Len(u)]
            /\ x \notin DOMAIN u
  BY SMTT(30)
<1>2. CASE i \in DOMAIN u /\ k \in DOMAIN u
  BY <1>1, <1>2 DEF Distinct
<1>3. CASE i \notin DOMAIN u /\ k \notin DOMAIN u
  <2>1. i - Len(u) = k - Len(u)
    BY <1>1, <1>3 DEF Distinct
  <2> QED BY <2>1
<1>4. CASE i \in DOMAIN u /\ k \notin DOMAIN u
  BY <1>1, <1>4 DEF Elements
<1>5. CASE i \notin DOMAIN u /\ k \in DOMAIN u
  BY <1>1, <1>5 DEF Elements
<1> QED BY <1>2, <1>3, <1>4, <1>5

(* A thread that has performed its first effect has nothing left to emit.   *)
LEMMA TailQuiet ==
    ASSUME EmitsFirst, NEW j \in jobs, j.todo \in Seq(Effects), j.todo # <<>>
    PROVE  Tail(j.todo) \in Seq(Effects) /\ \A e \in Elements(Tail(j.todo)) : e.op # "emit"
<1> DEFINE todo == j.todo
<1>1. Tail(todo) \in Seq(Effects)
  OBVIOUS
<1>2. ASSUME NEW i \in DOMAIN Tail(todo) PROVE Tail(todo)[i].op # "emit"
  <2>1. i + 1 \in DOMAIN todo /\ Tail(todo)[i] = todo[i + 1] /\ i + 1 # 1
    OBVIOUS
  <2> QED BY <2>1 DEF EmitsFirst
<1> QED BY <1>1, <1>2 DEF Elements

(* The job left by effects that emit data first, or nothing, carries it.    *)
LEMMA JobCargo ==
    ASSUME NEW t, NEW todo \in Seq(Effects), NEW data \in Seq(Nat), EmitsOnly(todo, data)
    PROVE  /\ \A j \in Job(t, todo) : Cargo(j) = data
           /\ \A j, k \in Job(t, todo) : j = k
           /\ data # <<>> => Job(t, todo) # {}
           /\ \A j \in Job(t, todo) : \A i \in DOMAIN j.todo : j.todo[i].op = "emit" => i = 1
<1>1. \A j \in Job(t, todo) : j.todo = todo /\ todo # <<>>
  BY DEF Job
<1>2. todo # <<>> => Cargo([thread |-> t, todo |-> todo]) = data
  <2> SUFFICES ASSUME todo # <<>> PROVE Cargo([thread |-> t, todo |-> todo]) = data
    OBVIOUS
  <2>1. Head(todo) = todo[1] /\ 1 \in DOMAIN todo
    OBVIOUS
  <2>2. data = <<>> => todo[1].op # "emit"
    BY <2>1 DEF EmitsOnly
  <2>3. data # <<>> => todo[1].op = "emit" /\ todo[1].data = data
    BY DEF EmitsOnly, Emit
  <2> QED BY <2>1, <2>2, <2>3 DEF Cargo
<1>3. \A j \in Job(t, todo) : j = [thread |-> t, todo |-> todo]
  BY DEF Job
<1>4. data # <<>> => Job(t, todo) # {}
  BY DEF Job, EmitsOnly
<1> QED BY <1>1, <1>2, <1>3, <1>4 DEF EmitsOnly

(* Threads take data off the queue and keep the rest, to which new bytes    *)
(* may be added; those that left the list of jobs carried nothing.          *)
LEMMA BytesMove ==
    ASSUME ByteInv, TypeOK, NEW old, old \subseteq jobs,
           \A j \in jobs \ old : Cargo(j) = <<>>,
           NEW t, NEW todo \in Seq(Effects), NEW data \in Seq(Nat), EmitsOnly(todo, data),
           jobs' = old \cup Job(t, todo),
           st'.pending \in Seq(Nat), Distinct(st'.pending), Distinct(data),
           Elements(data) \subseteq Elements(st.pending),
           1..produced \subseteq 1..produced',
           Elements(st'.pending) \subseteq Elements(st.pending) \cup (1..produced' \ 1..produced),
           Elements(data) \cap Elements(st'.pending) = {},
           emitted' = emitted,
           source' = "open" /\ loop' # "closed" =>
               /\ source = "open" /\ loop # "closed"
               /\ Elements(st.pending) \cup (1..produced' \ 1..produced)
                    \subseteq Elements(data) \cup Elements(st'.pending)
    PROVE  ByteInv'
<1>1. /\ \A j \in Job(t, todo) : Cargo(j) = data
      /\ \A j, k \in Job(t, todo) : j = k
      /\ data # <<>> => Job(t, todo) # {}
      /\ \A j \in Job(t, todo) : \A i \in DOMAIN j.todo : j.todo[i].op = "emit" => i = 1
  BY JobCargo
<1>2. Elements(<<>>) = {}
  BY DEF Elements
<1>3. EmitsFirst'
  BY <1>1 DEF ByteInv, EmitsFirst
<1>4. \A j \in jobs : Elements(Cargo(j)) \subseteq Carried
  BY DEF Carried
<1>5. ASSUME NEW j \in jobs' PROVE j \in old \/ (j \in Job(t, todo) /\ Cargo(j) = data)
  <2>1. j \in old \/ j \in Job(t, todo)
    OBVIOUS
  <2> QED BY <1>1, <2>1
<1>6. \A j \in old : Elements(Cargo(j)) \cap Elements(data) = {}
  BY <1>4 DEF ByteInv, InTransit
<1>7. \A j \in jobs' : Distinct(Cargo(j))
  BY <1>5 DEF ByteInv, InTransit
<1>8. ASSUME NEW j \in jobs', NEW k \in jobs', Elements(Cargo(j)) \cap Elements(Cargo(k)) # {}
      PROVE  j = k
  <2>1. CASE j \in old /\ k \in old
    BY <1>8, <2>1 DEF ByteInv, InTransit
  <2>2. CASE j \notin old /\ k \notin old
    BY <1>1, <1>5, <2>2
  <2>3. CASE j \in old /\ k \notin old
    BY <1>5, <1>6, <1>8, <2>3
  <2>4. CASE j \notin old /\ k \in old
    BY <1>5, <1>6, <1>8, <2>4
  <2> QED BY <2>1, <2>2, <2>3, <2>4
<1>9. Carried' = UNION {Elements(Cargo(j)) : j \in jobs'}
  BY DEF Carried, Cargo
<1>10. Carried' \subseteq Carried \cup Elements(data)
  BY <1>4, <1>5, <1>9
<1>11. Carried \subseteq Carried'
  <2> SUFFICES ASSUME NEW b, NEW j \in jobs, b \in Elements(Cargo(j)) PROVE b \in Carried'
    BY DEF Carried
  <2>1. j \in old
    BY <1>2
  <2> QED BY <1>9, <2>1
<1>12. Elements(data) \subseteq Carried'
  <2>1. CASE data = <<>>
    BY <1>2, <2>1
  <2>2. CASE data # <<>>
    BY <1>1, <1>9, <2>2
  <2> QED BY <2>1, <2>2
<1>13. InTransit'
  <2>1. Carried' \subseteq 1..produced'
    BY <1>10 DEF ByteInv, InTransit, Queued
  <2>2. Carried' \cap (Elements(st'.pending) \cup Elements(emitted')) = {}
    BY <1>10 DEF ByteInv, InTransit, Queued
  <2> QED BY <1>7, <1>8, <2>1, <2>2 DEF InTransit, Cargo
<1>14. Queued' /\ Received'
  BY DEF ByteInv, Queued, Received
<1>15. Accounted'
  BY <1>11, <1>12 DEF ByteInv, Accounted
<1> QED BY <1>3, <1>13, <1>14, <1>15 DEF ByteInv

(* A section that takes from the queue what it emits.                       *)
LEMMA SectionBytes ==
    ASSUME ByteInv, TypeOK, NEW t, NEW r, GoodResult(r), Moved(st, r), Section(t, r),
           UNCHANGED <<produced, emitted>>,
           source' = "open" /\ loop' # "closed" => source = "open" /\ loop # "closed"
    PROVE  ByteInv'
<1> DEFINE q == st.pending
<1> PICK k \in 0..Len(q) :
        /\ r.st.pending = SubSeq(q, k + 1, Len(q))
        /\ EmitsOnly(r.todo, SubSeq(q, 1, k))
  BY DEF Moved
<1> DEFINE data == SubSeq(q, 1, k)
<1>1. q \in Seq(Nat) /\ Distinct(q)
  BY DEF TypeOK, OutputState, ByteInv, Queued
<1>2. r.todo \in Seq(Effects) /\ r.st.pending \in Seq(Nat)
  BY DEF GoodResult, OutputState
<1>3. data \in Seq(Nat)
  BY <1>1
<1>4. /\ Distinct(data) /\ Distinct(r.st.pending)
      /\ Elements(data) \cap Elements(r.st.pending) = {}
      /\ Elements(data) \cup Elements(r.st.pending) = Elements(q)
  BY <1>1, Prefixes
<1>5. st' = r.st /\ jobs' = jobs \cup Job(t, r.todo)
  BY DEF Section
<1>6. EmitsOnly(r.todo, data)
  OBVIOUS
<1> HIDE DEF data
<1> QED BY <1>2, <1>3, <1>4, <1>5, <1>6, BytesMove

(* A thread that performs an effect other than emitting.                    *)
LEMMA StepBytes ==
    ASSUME ByteInv, TypeOK, NEW j \in jobs, NEW op, op # "emit", NEW r,
           r.st \in OutputState, r.todo \in Seq(Effects), Moved(st, r),
           Step(j, op, r.todo), st' = r.st,
           UNCHANGED <<produced, emitted, source, loop>>
    PROVE  ByteInv'
<1> DEFINE q    == st.pending
           todo == r.todo \o Tail(j.todo)
<1> PICK k \in 0..Len(q) :
        /\ r.st.pending = SubSeq(q, k + 1, Len(q))
        /\ EmitsOnly(r.todo, SubSeq(q, 1, k))
  BY DEF Moved
<1> DEFINE data == SubSeq(q, 1, k)
<1>1. q \in Seq(Nat) /\ Distinct(q)
  BY DEF TypeOK, OutputState, ByteInv, Queued
<1>2. r.st.pending \in Seq(Nat)
  BY DEF OutputState
<1>3. data \in Seq(Nat)
  BY <1>1
<1>4. /\ Distinct(data) /\ Distinct(r.st.pending)
      /\ Elements(data) \cap Elements(r.st.pending) = {}
      /\ Elements(data) \cup Elements(r.st.pending) = Elements(q)
  BY <1>1, Prefixes
<1>5. j.todo \in Seq(Effects) /\ j.todo # <<>>
  BY DEF TypeOK
<1>6. Tail(j.todo) \in Seq(Effects) /\ \A e \in Elements(Tail(j.todo)) : e.op # "emit"
  BY <1>5, TailQuiet DEF ByteInv
<1>7. EmitsOnly(r.todo, data)
  OBVIOUS
<1> HIDE DEF data
<1>8. todo \in Seq(Effects) /\ EmitsOnly(todo, data)
  BY <1>6, <1>7, EmitsAppend, ConcatElements
<1>9. jobs' = (jobs \ {j}) \cup Job(j.thread, todo) /\ Cargo(j) = <<>>
  BY DEF Step, Cargo
<1> HIDE DEF todo
<1> DEFINE old == jobs \ {j}
<1>10. old \subseteq jobs /\ \A i \in jobs \ old : Cargo(i) = <<>>
  BY <1>9
<1>11. jobs' = old \cup Job(j.thread, todo)
  BY <1>9
<1> HIDE DEF old
<1> QED BY <1>2, <1>3, <1>4, <1>8, <1>10, <1>11, BytesMove

(* The source loop queues what it has just read.                            *)
LEMMA ReadBytes ==
    ASSUME ByteInv, TypeOK, NEW n \in 1..ReadMax, ReadSource(n)
    PROVE  ByteInv'
<1> DEFINE text == [i \in 1..n |-> produced + i]
           r    == push_owned(st, text)
<1>1. /\ st \in OutputState /\ st.pending \in Seq(Nat) /\ produced \in Nat /\ n \in Nat
      /\ text \in Seq(Nat)
  BY FlowAssumption DEF TypeOK, OutputState
<1>2. /\ st' = r.st /\ jobs' = jobs \cup Job(Reader, r.todo)
      /\ produced' = produced + n /\ UNCHANGED <<emitted, source, loop>>
  BY DEF ReadSource, Section
<1>3. /\ r.st.pending = st.pending \o text /\ EmitsOnly(r.todo, <<>>)
      /\ r.todo \in Seq(Effects)
  BY <1>1, PushMoves DEF GoodResult
<1>4. Distinct(text)
  BY <1>1 DEF Distinct
<1>5. Elements(text) = 1..produced' \ 1..produced
  <2>1. DOMAIN text = 1..n /\ \A i \in 1..n : text[i] = produced + i
    OBVIOUS
  <2> HIDE DEF text
  <2>2. \A i \in 1..n : text[i] \in 1..produced' \ 1..produced
    BY <1>1, <1>2, <2>1
  <2>3. ASSUME NEW b \in 1..produced' \ 1..produced PROVE b \in Elements(text)
    <3>1. b - produced \in 1..n /\ text[b - produced] = b
      BY <1>1, <1>2, <2>1
    <3> QED BY <2>1, <3>1 DEF Elements
  <2>4. Elements(text) \subseteq 1..produced' \ 1..produced
    BY <2>1, <2>2 DEF Elements
  <2> QED BY <2>3, <2>4
<1>6. 1..produced \subseteq 1..produced'
  BY <1>1, <1>2
<1> HIDE DEF text, r
<1>7. Elements(st.pending) \cap Elements(text) = {} /\ Distinct(st.pending)
  BY <1>5 DEF ByteInv, Queued
<1>8. /\ st'.pending \in Seq(Nat) /\ Distinct(st'.pending)
      /\ Elements(st'.pending) = Elements(st.pending) \cup Elements(text)
  BY <1>1, <1>2, <1>3, <1>4, <1>7, JoinDistinct, ConcatElements
<1>9. Distinct(<<>>) /\ Elements(<<>>) = {} /\ <<>> \in Seq(Nat)
  BY DEF Distinct, Elements
<1> QED BY <1>2, <1>3, <1>5, <1>6, <1>8, <1>9, BytesMove

(* The sink receives what a thread carries.                                 *)
LEMMA SinkBytes ==
    ASSUME ByteInv, TypeOK, NEW j \in jobs, CallSink(j)
    PROVE  ByteInv'
<1> DEFINE data == Cargo(j)
           todo == Tail(j.todo)
<1>1. j.todo \in Seq(Effects) /\ j.todo # <<>>
  BY DEF TypeOK
<1>2. Head(j.todo).op = "emit" /\ data = Head(j.todo).data
  BY DEF CallSink, Step, Cargo
<1>3. data \in Seq(Nat)
  BY <1>1, <1>2, TailElements, EffectFields
<1>4. todo \in Seq(Effects) /\ \A e \in Elements(todo) : e.op # "emit"
  BY <1>1, TailQuiet DEF ByteInv
<1>5. <<>> \o todo = todo
  BY <1>4
<1>6. /\ jobs' = (jobs \ {j}) \cup Job(j.thread, todo)
      /\ emitted' = emitted \o data
      /\ UNCHANGED <<st, produced, source, loop>>
  BY <1>2, <1>5 DEF CallSink, Step
<1>7. Elements(data) \subseteq Carried /\ Distinct(data)
  BY DEF Carried, ByteInv, InTransit
<1>8. ASSUME NEW k \in jobs \ {j} PROVE Elements(Cargo(k)) \cap Elements(data) = {}
  BY <1>8 DEF ByteInv, InTransit
<1> HIDE DEF data, todo
<1>9. EmitsOnly(todo, <<>>) /\ <<>> \in Seq(Nat)
  BY <1>4, NoEmits
<1>10. /\ \A k \in Job(j.thread, todo) : Cargo(k) = <<>>
       /\ \A k \in Job(j.thread, todo) : \A i \in DOMAIN k.todo : k.todo[i].op = "emit" => i = 1
  BY <1>4, <1>9, JobCargo
<1>11. Elements(<<>>) = {} /\ Distinct(<<>>)
  BY DEF Elements, Distinct
<1>12. ASSUME NEW k \in jobs'
       PROVE  \/ k \in jobs /\ k # j
              \/ Cargo(k) = <<>>
  <2>1. k \in jobs \ {j} \/ k \in Job(j.thread, todo)
    BY <1>6
  <2> QED BY <1>10, <2>1
<1>13. emitted \in Seq(Nat) /\ Elements(emitted) \cap Elements(data) = {}
  BY <1>7 DEF TypeOK, ByteInv, InTransit
<1>14. Distinct(emitted') /\ Elements(emitted') = Elements(emitted) \cup Elements(data)
  BY <1>3, <1>6, <1>7, <1>13, JoinDistinct, ConcatElements DEF ByteInv, Received
<1>15. Carried' = UNION {Elements(Cargo(k)) : k \in jobs'}
  BY DEF Carried, Cargo
<1>16. Carried' \subseteq Carried /\ Carried' \cap Elements(data) = {}
  <2> SUFFICES ASSUME NEW k \in jobs', NEW b \in Elements(Cargo(k))
               PROVE  b \in Carried /\ b \notin Elements(data)
    BY <1>15
  <2> QED BY <1>8, <1>11, <1>12 DEF Carried
<1>17. Carried \subseteq Carried' \cup Elements(data)
  <2> SUFFICES ASSUME NEW k \in jobs, NEW b \in Elements(Cargo(k))
               PROVE  b \in Carried' \cup Elements(data)
    BY DEF Carried
  <2>1. CASE k = j
    BY <2>1 DEF data
  <2>2. CASE k # j
    <3>1. k \in jobs'
      BY <1>6, <2>2
    <3> QED BY <1>15, <3>1
  <2> QED BY <2>1, <2>2
<1>18. EmitsFirst'
  BY <1>6, <1>10 DEF ByteInv, EmitsFirst
<1>19. Queued'
  BY <1>6, <1>7, <1>14 DEF ByteInv, Queued, InTransit
<1>20. Received'
  BY <1>6, <1>7, <1>14 DEF ByteInv, Received, InTransit
<1>21. \A k \in jobs' : Distinct(Cargo(k))
  BY <1>11, <1>12 DEF ByteInv, InTransit
<1>22. \A k, l \in jobs' : Elements(Cargo(k)) \cap Elements(Cargo(l)) # {} => k = l
  BY <1>11, <1>12 DEF ByteInv, InTransit
<1>23. /\ Carried' \subseteq 1..produced'
       /\ Carried' \cap (Elements(st'.pending) \cup Elements(emitted')) = {}
  BY <1>6, <1>14, <1>16 DEF ByteInv, InTransit
<1>24. InTransit'
  BY <1>21, <1>22, <1>23 DEF InTransit, Cargo
<1>25. Accounted'
  BY <1>6, <1>14, <1>17 DEF ByteInv, Accounted
<1> QED BY <1>18, <1>19, <1>20, <1>24, <1>25 DEF ByteInv

(* A close emits the newest bytes and trims the others; from then on bytes  *)
(* may be missing.                                                          *)
LEMMA CloseBytes ==
    ASSUME ByteInv, TypeOK, NEW t, Section(t, close(st)), UNCHANGED <<produced, emitted>>,
           source' # "open" \/ loop' = "closed"
    PROVE  ByteInv'
<1> DEFINE q == st.pending
           r == close(st)
<1>1. q \in Seq(Nat) /\ Distinct(q) /\ st \in OutputState
  BY DEF TypeOK, OutputState, ByteInv, Queued
<1>2. PICK k \in 1..(Len(q) + 1) : EmitsOnly(r.todo, SubSeq(q, k, Len(q)))
  BY <1>1, CloseMoves
<1>3. r.todo \in Seq(Effects) /\ r.st.pending = <<>>
  BY <1>1, CloseMoves DEF GoodResult
<1> DEFINE data == SubSeq(q, k, Len(q))
<1>4. data \in Seq(Nat)
  BY <1>1, <1>2
<1>5. Distinct(data) /\ Elements(data) \subseteq Elements(q)
  BY <1>1, <1>2, Suffixes
<1>6. EmitsOnly(r.todo, data)
  BY <1>2
<1>7. st' = r.st /\ jobs' = jobs \cup Job(t, r.todo)
  BY DEF Section
<1>8. Distinct(<<>>) /\ Elements(<<>>) = {} /\ <<>> \in Seq(Nat)
  BY DEF Distinct, Elements
<1> HIDE DEF data, r
<1> QED BY <1>3, <1>4, <1>5, <1>6, <1>7, <1>8, BytesMove

LEMMA QuietBytes ==
    ASSUME ByteInv, UNCHANGED <<st, jobs, produced, emitted>>,
           source' = "open" /\ loop' # "closed" => source = "open" /\ loop # "closed"
    PROVE  ByteInv'
<1>1. Carried' = Carried
  BY DEF Carried, Cargo
<1> QED BY <1>1 DEF ByteInv, EmitsFirst, Queued, Received, InTransit, Accounted, Cargo

LEMMA InitBytes == Init => ByteInv
<1> SUFFICES ASSUME Init PROVE ByteInv
  OBVIOUS
<1>1. jobs = {} /\ st.pending = <<>> /\ emitted = <<>> /\ produced = 0
  BY DEF Init, InitOutputState
<1>2. Carried = {} /\ Elements(<<>>) = {} /\ Distinct(<<>>) /\ 1..0 = {}
  BY <1>1 DEF Carried, Elements, Distinct
<1> QED BY <1>1, <1>2 DEF ByteInv, EmitsFirst, Queued, Received, InTransit, Accounted

LEMMA CommandBytes ==
    ASSUME IInv, ByteInv, HandleCommand
    PROVE  ByteInv'
<1>t. TypeOK /\ st \in OutputState
  BY DEF IInv, TypeOK
<1>1. CASE HandleAttach
  <2>1. GoodResult(attach(st)) /\ Moved(st, attach(st))
    BY <1>t, AttachMoves
  <2>2. /\ Section(Command, attach(st))
        /\ UNCHANGED <<produced, emitted, source, loop>>
    BY <1>1 DEF HandleAttach
  <2> QED BY <1>t, <2>1, <2>2, SectionBytes
<1>2. CASE HandleDetach
  <2>1. GoodResult(detach(st)) /\ Moved(st, detach(st))
    BY <1>t, DetachMoves
  <2>2. /\ Section(Command, detach(st))
        /\ UNCHANGED <<produced, emitted, source, loop>>
    BY <1>2 DEF HandleDetach
  <2> QED BY <1>t, <2>1, <2>2, SectionBytes
<1>3. CASE HandleAck
  <2> DEFINE n == Head(cmd_rx).bytes
  <2>1. n \in Nat
    BY <1>t, <1>3, TakeTyped, CommandTypes DEF HandleAck
  <2>2. /\ Section(Command, ack(st, n))
        /\ UNCHANGED <<produced, emitted, source, loop>>
    BY <1>3 DEF HandleAck
  <2> HIDE DEF n
  <2>3. GoodResult(ack(st, n)) /\ Moved(st, ack(st, n))
    BY <1>t, <2>1, AckMoves
  <2> QED BY <1>t, <2>2, <2>3, SectionBytes
<1>4. CASE CloseOutput
  <2>1. /\ Section(Command, close(st)) /\ loop' = "closed"
        /\ UNCHANGED <<produced, emitted>>
    BY <1>4 DEF CloseOutput
  <2> QED BY <1>t, <2>1, CloseBytes
<1>5. CASE HandlePause \/ HandleResume \/ HandleClose \/ NoticeReaderDone
  <2>1. /\ UNCHANGED <<st, jobs, produced, emitted, source>>
        /\ loop' # "closed" => loop # "closed"
    BY <1>5 DEF HandlePause, HandleResume, HandleClose, NoticeReaderDone, Take, Running
  <2> QED BY <2>1, QuietBytes
<1> QED BY <1>1, <1>2, <1>3, <1>4, <1>5 DEF HandleCommand

LEMMA SourceBytesKept ==
    ASSUME IInv, ByteInv,
           PassGate \/ (\E n \in 1..ReadMax : ReadSource(n)) \/ SourceEnds \/ ReaderDone
    PROVE  ByteInv'
<1>t. TypeOK
  BY DEF IInv
<1>1. CASE PassGate \/ ReaderDone
  <2>1. /\ UNCHANGED <<st, jobs, produced, emitted, loop>>
        /\ source' = "open" => source = "open"
    BY <1>1 DEF PassGate, ReaderDone
  <2> QED BY <2>1, QuietBytes
<1>2. CASE \E n \in 1..ReadMax : ReadSource(n)
  BY <1>t, <1>2, ReadBytes
<1>3. CASE SourceEnds /\ SingleTask
  <2>1. UNCHANGED <<st, jobs, produced, emitted>> /\ source' = "done"
    BY <1>3 DEF SourceEnds
  <2> QED BY <2>1, QuietBytes
<1>4. CASE SourceEnds /\ ~SingleTask
  <2>1. /\ Section(Reader, close(st)) /\ source' = "ending"
        /\ UNCHANGED <<produced, emitted>>
    BY <1>4 DEF SourceEnds
  <2> QED BY <1>t, <2>1, CloseBytes
<1> QED BY <1>1, <1>2, <1>3, <1>4

LEMMA PerformBytes ==
    ASSUME IInv, ByteInv, NEW j \in jobs, Perform(j)
    PROVE  ByteInv'
<1>t. TypeOK /\ st \in OutputState /\ Hysteresis(st)
  BY DEF IInv, TypeOK, WatermarksRespected
<1>1. CASE CallSink(j)
  BY <1>t, <1>1, SinkBytes
<1>2. CASE SendCommand(j) \/ ScheduleFlush(j)
  <2> DEFINE r == [st |-> st, todo |-> <<>>]
  <2>1. r.st = st /\ r.todo = <<>> /\ <<>> \in Seq(Effects)
    OBVIOUS
  <2> HIDE DEF r
  <2>2. Moved(st, r)
    <3>1. EmitsOnly(r.todo, <<>>) /\ r.st.pending = st.pending
      BY <2>1 DEF EmitsOnly
    <3> QED BY <1>t, <3>1, NothingMoved
  <2>3. PICK op \in {"send", "spawn"} : Step(j, op, <<>>)
    BY <1>2 DEF SendCommand, ScheduleFlush
  <2>4. UNCHANGED <<st, produced, emitted, source, loop>>
    BY <1>2 DEF SendCommand, ScheduleFlush
  <2>5. op # "emit" /\ Step(j, op, r.todo) /\ st' = r.st /\ r.st \in OutputState
        /\ r.todo \in Seq(Effects)
    BY <1>t, <2>1, <2>3, <2>4
  <2> QED BY <1>t, <2>2, <2>4, <2>5, StepBytes
<1>3. CASE FlushNow(j)
  <2> DEFINE r == flush_pending(st)
  <2>1. GoodResult(r) /\ Moved(st, r)
    BY <1>t, FlushPendingMoves
  <2>2. /\ Step(j, "flush_pending", r.todo) /\ st' = r.st
        /\ UNCHANGED <<produced, emitted, source, loop>>
    BY <1>3 DEF FlushNow
  <2> HIDE DEF r
  <2>3. r.st \in OutputState /\ r.todo \in Seq(Effects) /\ "flush_pending" # "emit"
    BY <2>1 DEF GoodResult
  <2> QED BY <1>t, <2>1, <2>2, <2>3, StepBytes
<1>4. CASE RescheduleTail(j)
  <2> DEFINE r == reschedule(st)
  <2>1. GoodResult(r) /\ Moved(st, r)
    BY <1>t, RescheduleMoves
  <2>2. /\ Step(j, "reschedule", r.todo) /\ st' = r.st
        /\ UNCHANGED <<produced, emitted, source, loop>>
    BY <1>4 DEF RescheduleTail
  <2> HIDE DEF r
  <2>3. r.st \in OutputState /\ r.todo \in Seq(Effects) /\ "reschedule" # "emit"
    BY <2>1 DEF GoodResult
  <2> QED BY <1>t, <2>1, <2>2, <2>3, StepBytes
<1> QED BY <1>1, <1>2, <1>3, <1>4 DEF Perform

(* Every byte stays where exactly one list has it.                          *)
LEMMA BytesInductive == Spec => []ByteInv
<1>1. Init => ByteInv
  BY InitBytes
<1>2. IInv /\ ByteInv /\ [Next]_vars => ByteInv'
  <2> SUFFICES ASSUME IInv, ByteInv, [Next]_vars PROVE ByteInv'
    OBVIOUS
  <2>1. CASE PassGate \/ (\E n \in 1..ReadMax : ReadSource(n)) \/ SourceEnds \/ ReaderDone
    BY <2>1, SourceBytesKept
  <2>2. CASE HandleCommand
    BY <2>2, CommandBytes
  <2>3. CASE \E id \in timers : FireTimer(id)
    <3> PICK id \in timers : FireTimer(id)
      BY <2>3
    <3> DEFINE r == flush_if_scheduled(st, id)
    <3>1. TypeOK /\ GoodResult(r) /\ Moved(st, r)
      BY TimerMoves DEF IInv, TypeOK, WatermarksRespected
    <3>2. Section(id, r) /\ UNCHANGED <<produced, emitted, source, loop>>
      BY DEF FireTimer
    <3> HIDE DEF r
    <3> QED BY <3>1, <3>2, SectionBytes
  <2>4. CASE \E j \in jobs : Perform(j)
    BY <2>4, PerformBytes
  <2>5. CASE (\E cmd \in Requests : Request(cmd)) \/ RendererAck
    <3>1. UNCHANGED <<st, jobs, produced, emitted, source, loop>>
      BY <2>5 DEF Request, RendererAck
    <3> QED BY <3>1, QuietBytes
  <2>6. CASE UNCHANGED vars
    <3>1. UNCHANGED <<st, jobs, produced, emitted, source, loop>>
      BY <2>6 DEF vars
    <3> QED BY <3>1, QuietBytes
  <2> QED BY <2>1, <2>2, <2>3, <2>4, <2>5, <2>6 DEF Next
<1> QED BY <1>1, <1>2, Inductive, PTL DEF Spec

-----------------------------------------------------------------------------
(* Counting the copies of a byte.                                           *)

LEMMA CountDistinct ==
    ASSUME NEW q, NEW b, Distinct(q)
    PROVE  Occurrences(b, q) = IF b \in Elements(q) THEN 1 ELSE 0
<1> DEFINE places == {i \in DOMAIN q : q[i] = b}
<1>1. CASE b \in Elements(q)
  <2>1. PICK i \in DOMAIN q : q[i] = b
    BY <1>1 DEF Elements
  <2>2. places = {i}
    BY <2>1 DEF Distinct
  <2>3. Cardinality(places) = 1
    BY <2>2, FS_Singleton
  <2> QED BY <1>1, <2>3 DEF Occurrences
<1>2. CASE b \notin Elements(q)
  <2>1. places = {}
    BY <1>2 DEF Elements
  <2>2. Cardinality(places) = 0
    BY <2>1, FS_EmptySet
  <2> QED BY <1>2, <2>2 DEF Occurrences
<1> QED BY <1>1, <1>2

LEMMA CountCarried ==
    ASSUME ByteInv, TypeOK, NEW b
    PROVE  InFlight(b) = IF b \in Carried THEN 1 ELSE 0
<1> DEFINE places ==
        {p \in UNION {{j} \X DOMAIN j.todo : j \in jobs} :
            LET effect == p[1].todo[p[2]]
            IN  effect.op = "emit" /\ b \in Elements(effect.data)}
<1>1. \A j \in jobs : j.todo \in Seq(Effects) /\ j.todo # <<>>
  BY DEF TypeOK
<1>2. \A j \in jobs : 1 \in DOMAIN j.todo /\ Head(j.todo) = j.todo[1]
  BY <1>1
<1>3. ASSUME NEW p \in places
      PROVE  \E j \in jobs : p = <<j, 1>> /\ b \in Elements(Cargo(j))
  <2>1. PICK j \in jobs : p \in {j} \X DOMAIN j.todo
    OBVIOUS
  <2>2. p = <<j, p[2]>> /\ p[1] = j /\ p[2] \in DOMAIN j.todo
    BY <2>1
  <2>3. j.todo[p[2]].op = "emit" /\ b \in Elements(j.todo[p[2]].data)
    BY <2>2
  <2>4. p[2] = 1
    BY <2>2, <2>3 DEF ByteInv, EmitsFirst
  <2> QED BY <1>2, <2>2, <2>3, <2>4 DEF Cargo
<1>4. ASSUME NEW j \in jobs, b \in Elements(Cargo(j)) PROVE <<j, 1>> \in places
  <2>1. Elements(<<>>) = {}
    BY DEF Elements
  <2>2. Head(j.todo).op = "emit" /\ Cargo(j) = Head(j.todo).data
    BY <1>4, <2>1 DEF Cargo
  <2>3. <<j, 1>> \in {j} \X DOMAIN j.todo
    BY <1>2
  <2> QED BY <1>2, <1>4, <2>2, <2>3
<1>5. InFlight(b) = Cardinality(places)
  BY DEF InFlight
<1> HIDE DEF places
<1>6. CASE b \in Carried
  <2>1. PICK j \in jobs : b \in Elements(Cargo(j))
    BY <1>6 DEF Carried
  <2>2. \A k \in jobs : b \in Elements(Cargo(k)) => k = j
    BY <2>1 DEF ByteInv, InTransit
  <2>3. places = {<<j, 1>>}
    BY <1>3, <1>4, <2>1, <2>2
  <2>4. Cardinality(places) = 1
    BY <2>3, FS_Singleton
  <2> QED BY <1>5, <1>6, <2>4
<1>7. CASE b \notin Carried
  <2>1. places = {}
    BY <1>3, <1>7 DEF Carried
  <2>2. Cardinality(places) = 0
    BY <2>1, FS_EmptySet
  <2> QED BY <1>5, <1>7, <2>2
<1> QED BY <1>6, <1>7

(* For all limits and every interleaving of reads, flushes, timers, detach, *)
(* attach and close, each byte read from the source is in one place only:   *)
(* in the queue, with the one thread that took it off the queue and has not *)
(* yet called the sink, or at the renderer; and while the source is open    *)
(* and the session is not closed it is in one of them.                      *)
THEOREM BytesAccountedFor == Spec => []NoByteLostOrDoubled
<1>1. TypeOK /\ ByteInv => NoByteLostOrDoubled
  <2> SUFFICES ASSUME TypeOK, ByteInv, NEW b \in 1..produced
               PROVE  LET copies == Occurrences(b, st.pending) + InFlight(b)
                                      + Occurrences(b, emitted)
                      IN  /\ copies <= 1
                          /\ copies = 0 => loop = "closed" \/ source # "open"
    BY DEF NoByteLostOrDoubled
  <2>1. Occurrences(b, st.pending) = IF b \in Elements(st.pending) THEN 1 ELSE 0
    BY CountDistinct DEF ByteInv, Queued
  <2>2. Occurrences(b, emitted) = IF b \in Elements(emitted) THEN 1 ELSE 0
    BY CountDistinct DEF ByteInv, Received
  <2>3. InFlight(b) = IF b \in Carried THEN 1 ELSE 0
    BY CountCarried
  <2>4. /\ ~(b \in Elements(st.pending) /\ b \in Elements(emitted))
        /\ ~(b \in Carried /\ b \in Elements(st.pending))
        /\ ~(b \in Carried /\ b \in Elements(emitted))
    BY DEF ByteInv, Queued, InTransit
  <2>5. source = "open" /\ loop # "closed" =>
           b \in Elements(st.pending) \/ b \in Carried \/ b \in Elements(emitted)
    BY DEF ByteInv, Accounted
  <2> QED BY <2>1, <2>2, <2>3, <2>4, <2>5
<1> QED BY <1>1, BytesInductive, TypeCorrect, PTL

-----------------------------------------------------------------------------
(* The close of an overflow.                                                *)

CloseInv == CloseKnown /\ OverflowMarked

(* A step that adds nothing to the backlog and loses no close command.      *)
LEMMA CloseSurvives ==
    ASSUME CloseInv, st \in OutputState, Backlog(st') \in Nat, Backlog(st') <= Backlog(st),
           st'.catastrophic_close_sent = st.catastrophic_close_sent,
           Running' => Running,
           Running' /\ (Send(Close) \in Owed \/ Close \in Elements(cmd_rx)) =>
               Send(Close) \in Owed' \/ Close \in Elements(cmd_rx')
    PROVE  CloseInv'
<1>1. Backlog(st) \in Nat
  BY DEF Backlog, OutputState
<1>2. OverflowMarked'
  <2>1. Backlog(st') >= CatastrophicBacklog => Backlog(st) >= CatastrophicBacklog
    BY <1>1, LimitsAssumption
  <2>2. Backlog(st') >= CatastrophicBacklog => st'.catastrophic_close_sent
    BY <2>1 DEF CloseInv, OverflowMarked
  <2> QED BY <2>2 DEF OverflowMarked, Backlog
<1>3. CloseKnown'
  <2>1. Close' = Close /\ Send(Close)' = Send(Close) /\ Elements(cmd_rx)' = Elements(cmd_rx')
    BY DEF Close, Send, Elements
  <2> QED BY <2>1 DEF CloseInv, CloseKnown
<1> QED BY <1>2, <1>3 DEF CloseInv

(* Taking another command leaves the close in the channel.                  *)
LEMMA TakeLeaves ==
    ASSUME TypeOK, NEW k, Take(k), k # "Close", Close \in Elements(cmd_rx)
    PROVE  Close \in Elements(cmd_rx')
<1>1. cmd_rx \in Seq(Commands) /\ cmd_rx # <<>> /\ cmd_rx' = Tail(cmd_rx) /\ Head(cmd_rx).kind = k
  BY DEF TypeOK, Take
<1>2. Head(cmd_rx) # Close
  BY <1>1 DEF Close
<1>3. Elements(cmd_rx) \subseteq {Head(cmd_rx)} \cup Elements(Tail(cmd_rx))
  BY <1>1, TailElements
<1> QED BY <1>1, <1>2, <1>3

(* A command that is sent is queued behind the others.                      *)
LEMMA AppendElements ==
    ASSUME NEW q \in Seq(Commands), NEW c \in Commands
    PROVE  Elements(q) \cup {c} \subseteq Elements(Append(q, c))
<1>1. \A i \in DOMAIN q : i \in DOMAIN Append(q, c) /\ Append(q, c)[i] = q[i]
  OBVIOUS
<1>2. Len(q) + 1 \in DOMAIN Append(q, c) /\ Append(q, c)[Len(q) + 1] = c
  OBVIOUS
<1> QED BY <1>1, <1>2 DEF Elements

LEMMA DeliveredElements ==
    ASSUME TypeOK, NEW c \in Commands, cmd_rx' = Delivered(c)
    PROVE  /\ Elements(cmd_rx) \subseteq Elements(cmd_rx')
           /\ Running => c \in Elements(cmd_rx')
BY AppendElements DEF TypeOK, Delivered

LEMMA CommandClose ==
    ASSUME IInv, CloseInv, HandleCommand
    PROVE  CloseInv'
<1>t. TypeOK /\ st \in OutputState /\ Backlog(st) \in Nat /\ Command \in Loops \cup Nat
  BY DEF IInv, TypeOK, OutputState, Backlog, Loops
<1>1. ASSUME NEW r, GoodResult(r), NoIntake(st, r), Section(Command, r),
             Running' => Running,
             Running' /\ Close \in Elements(cmd_rx) => Close \in Elements(cmd_rx')
      PROVE  CloseInv'
  <2>1. st' = r.st /\ Owed \subseteq Owed'
    BY <1>t, <1>1, SectionOwed
  <2>2. /\ Backlog(st') \in Nat /\ Backlog(st') <= Backlog(st)
        /\ st'.catastrophic_close_sent = st.catastrophic_close_sent
    BY <1>1, <2>1 DEF NoIntake
  <2> QED BY <1>t, <1>1, <2>1, <2>2, CloseSurvives
<1>2. CASE HandleAttach
  <2>1. GoodResult(attach(st)) /\ NoIntake(st, attach(st))
    BY <1>t, AttachMoves
  <2>2. Section(Command, attach(st)) /\ loop' = loop /\ Take("Attach")
    BY <1>2 DEF HandleAttach
  <2> QED BY <1>t, <1>1, <2>1, <2>2, TakeLeaves DEF Running
<1>3. CASE HandleDetach
  <2>1. GoodResult(detach(st)) /\ NoIntake(st, detach(st))
    BY <1>t, DetachMoves
  <2>2. Section(Command, detach(st)) /\ loop' = loop /\ Take("DetachRenderer")
    BY <1>3 DEF HandleDetach
  <2> QED BY <1>t, <1>1, <2>1, <2>2, TakeLeaves DEF Running
<1>4. CASE HandleAck
  <2> DEFINE n == Head(cmd_rx).bytes
  <2>1. n \in Nat
    BY <1>t, <1>4, TakeTyped, CommandTypes DEF HandleAck
  <2>2. Section(Command, ack(st, n)) /\ loop' = loop /\ Take("AckOutput")
    BY <1>4 DEF HandleAck
  <2> HIDE DEF n
  <2>3. GoodResult(ack(st, n)) /\ NoIntake(st, ack(st, n))
    BY <1>t, <2>1, AckMoves
  <2> QED BY <1>t, <1>1, <2>2, <2>3, TakeLeaves DEF Running
<1>5. CASE CloseOutput
  <2>1. GoodResult(close(st)) /\ NoIntake(st, close(st))
    BY <1>t, CloseMoves
  <2>2. Section(Command, close(st)) /\ loop' = "closed"
    BY <1>5 DEF CloseOutput
  <2> QED BY <1>1, <2>1, <2>2 DEF Running
<1>6. CASE HandlePause \/ HandleResume
  <2>1. PICK k \in {"PauseOutput", "ResumeOutput"} : Take(k)
    BY <1>6 DEF HandlePause, HandleResume
  <2>2. UNCHANGED <<st, jobs, loop>>
    BY <1>6 DEF HandlePause, HandleResume
  <2>3. Close \in Elements(cmd_rx) => Close \in Elements(cmd_rx')
    BY <1>t, <2>1, TakeLeaves
  <2>4. Owed' = Owed /\ Running' = Running
    BY <2>2 DEF Owed, Running
  <2> QED BY <1>t, <2>2, <2>3, <2>4, CloseSurvives
<1>7. CASE HandleClose \/ NoticeReaderDone
  <2>1. st' = st /\ ~Running'
    BY <1>7 DEF HandleClose, NoticeReaderDone, Running
  <2> QED BY <1>t, <2>1, CloseSurvives
<1> QED BY <1>2, <1>3, <1>4, <1>5, <1>6, <1>7 DEF HandleCommand

LEMMA SourceClose ==
    ASSUME IInv, CloseInv,
           PassGate \/ (\E n \in 1..ReadMax : ReadSource(n)) \/ SourceEnds \/ ReaderDone
    PROVE  CloseInv'
<1>t. TypeOK /\ st \in OutputState /\ Backlog(st) \in Nat /\ Reader \in Loops \cup Nat
  BY DEF IInv, TypeOK, OutputState, Backlog, Loops
<1>1. CASE PassGate \/ ReaderDone
  <2>1. UNCHANGED <<st, jobs, loop, cmd_rx>>
    BY <1>1 DEF PassGate, ReaderDone
  <2>2. Owed' = Owed /\ Running' = Running
    BY <2>1 DEF Owed, Running
  <2> QED BY <1>t, <2>1, <2>2, CloseSurvives
<1>2. CASE \E n \in 1..ReadMax : ReadSource(n)
  <2> PICK n \in 1..ReadMax : ReadSource(n)
    BY <1>2
  <2> DEFINE text == [i \in 1..n |-> produced + i]
             r    == push_owned(st, text)
  <2>1. text \in Seq(Nat)
    BY FlowAssumption DEF IInv, TypeOK
  <2>2. Section(Reader, r) /\ UNCHANGED <<cmd_rx, loop>>
    BY DEF ReadSource
  <2>3. /\ GoodResult(r)
        /\ r.st.catastrophic_close_sent =>
              st.catastrophic_close_sent \/ Send(Close) \in Elements(r.todo)
        /\ Backlog(r.st) >= CatastrophicBacklog => r.st.catastrophic_close_sent
    BY <1>t, <2>1, PushMoves
  <2> HIDE DEF text, r
  <2>4. st' = r.st /\ Owed' = Owed \cup Elements(r.todo)
    BY <1>t, <2>2, <2>3, SectionOwed
  <2>5. OverflowMarked'
    BY <2>3, <2>4 DEF OverflowMarked, Backlog
  <2>6. CloseKnown'
    BY <2>2, <2>3, <2>4 DEF CloseInv, CloseKnown, Running, Elements
  <2> QED BY <2>5, <2>6 DEF CloseInv
<1>3. CASE SourceEnds /\ SingleTask
  <2>1. st' = st /\ ~Running'
    BY <1>3 DEF SourceEnds, Running
  <2> QED BY <1>t, <2>1, CloseSurvives
<1>4. CASE SourceEnds /\ ~SingleTask
  <2>1. Section(Reader, close(st)) /\ UNCHANGED <<loop, cmd_rx>>
    BY <1>4 DEF SourceEnds
  <2>2. GoodResult(close(st)) /\ NoIntake(st, close(st))
    BY <1>t, CloseMoves
  <2>3. st' = close(st).st /\ Owed \subseteq Owed'
    BY <1>t, <2>1, <2>2, SectionOwed
  <2> QED BY <1>t, <2>1, <2>2, <2>3, CloseSurvives DEF NoIntake, Running
<1> QED BY <1>1, <1>2, <1>3, <1>4

LEMMA PerformClose ==
    ASSUME IInv, CloseInv, NEW j \in jobs, Perform(j)
    PROVE  CloseInv'
<1>t. /\ TypeOK /\ st \in OutputState /\ Hysteresis(st) /\ <<>> \in Seq(Effects)
      /\ Backlog(st) \in Nat
  BY DEF IInv, TypeOK, WatermarksRespected, OutputState, Backlog
<1>1. CASE SendCommand(j)
  <2>1. /\ Step(j, "send", <<>>) /\ UNCHANGED <<st, loop>>
        /\ cmd_rx' = Delivered(Head(j.todo).cmd)
    BY <1>1 DEF SendCommand
  <2>2. /\ Head(j.todo) \in Effects /\ Head(j.todo).op = "send"
        /\ Owed \ {Head(j.todo)} \subseteq Owed'
    BY <1>t, <2>1, StepOwed
  <2>3. Head(j.todo).cmd \in Commands
    BY <2>2, EffectFields, CommandTypes
  <2>4. /\ Elements(cmd_rx) \subseteq Elements(cmd_rx')
        /\ Running => Head(j.todo).cmd \in Elements(cmd_rx')
    BY <1>t, <2>1, <2>3, DeliveredElements
  <2>5. Head(j.todo) = Send(Close) => Head(j.todo).cmd = Close
    BY DEF Send
  <2>6. Running' = Running
    BY <2>1 DEF Running
  <2> QED BY <1>t, <2>1, <2>2, <2>4, <2>5, <2>6, CloseSurvives
<1>2. ASSUME NEW op, op # "send", NEW r, r.todo \in Seq(Effects), NoIntake(st, r),
             Step(j, op, r.todo), st' = r.st, UNCHANGED <<cmd_rx, loop>>
      PROVE  CloseInv'
  <2>1. Head(j.todo).op = op /\ Owed \ {Head(j.todo)} \subseteq Owed'
    BY <1>t, <1>2, StepOwed
  <2>2. Send(Close) # Head(j.todo)
    BY <1>2, <2>1, OpsOfEffects
  <2>3. Running' = Running
    BY <1>2 DEF Running
  <2> QED BY <1>t, <1>2, <2>1, <2>2, <2>3, CloseSurvives DEF NoIntake
<1>3. CASE CallSink(j) \/ ScheduleFlush(j)
  <2> DEFINE r == [st |-> st, todo |-> <<>>]
  <2>1. r.st = st /\ r.todo = <<>>
    OBVIOUS
  <2> HIDE DEF r
  <2>2. NoIntake(st, r)
    BY <1>t, <2>1 DEF NoIntake
  <2>3. PICK op \in {"emit", "spawn"} : Step(j, op, <<>>)
    BY <1>3 DEF CallSink, ScheduleFlush
  <2>4. UNCHANGED <<st, cmd_rx, loop>>
    BY <1>3 DEF CallSink, ScheduleFlush
  <2>5. op # "send" /\ Step(j, op, r.todo) /\ st' = r.st /\ r.todo \in Seq(Effects)
    BY <1>t, <2>1, <2>3, <2>4
  <2> QED BY <1>2, <2>2, <2>4, <2>5
<1>4. CASE FlushNow(j)
  <2> DEFINE r == flush_pending(st)
  <2>1. GoodResult(r) /\ NoIntake(st, r)
    BY <1>t, FlushPendingMoves
  <2>2. Step(j, "flush_pending", r.todo) /\ st' = r.st /\ UNCHANGED <<cmd_rx, loop>>
    BY <1>4 DEF FlushNow
  <2> HIDE DEF r
  <2> QED BY <1>2, <2>1, <2>2 DEF GoodResult
<1>5. CASE RescheduleTail(j)
  <2> DEFINE r == reschedule(st)
  <2>1. GoodResult(r) /\ NoIntake(st, r)
    BY <1>t, RescheduleMoves
  <2>2. Step(j, "reschedule", r.todo) /\ st' = r.st /\ UNCHANGED <<cmd_rx, loop>>
    BY <1>5 DEF RescheduleTail
  <2> HIDE DEF r
  <2> QED BY <1>2, <2>1, <2>2 DEF GoodResult
<1> QED BY <1>1, <1>3, <1>4, <1>5 DEF Perform

LEMMA CloseInductive == Spec => []CloseInv
<1>1. Init => CloseInv
  <2> SUFFICES ASSUME Init PROVE CloseInv
    OBVIOUS
  <2>1. Backlog(st) = 0 /\ ~st.catastrophic_close_sent
    BY DEF Init, InitOutputState, Backlog
  <2>2. CatastrophicBacklog > 0
    BY LimitsAssumption
  <2> QED BY <2>1, <2>2, LimitsAssumption DEF CloseInv, CloseKnown, OverflowMarked
<1>2. IInv /\ CloseInv /\ [Next]_vars => CloseInv'
  <2> SUFFICES ASSUME IInv, CloseInv, [Next]_vars PROVE CloseInv'
    OBVIOUS
  <2>t. TypeOK /\ st \in OutputState /\ Hysteresis(st) /\ Backlog(st) \in Nat
    BY DEF IInv, TypeOK, WatermarksRespected, OutputState, Backlog
  <2>1. CASE PassGate \/ (\E n \in 1..ReadMax : ReadSource(n)) \/ SourceEnds \/ ReaderDone
    BY <2>1, SourceClose
  <2>2. CASE HandleCommand
    BY <2>2, CommandClose
  <2>3. CASE \E id \in timers : FireTimer(id)
    <3> PICK id \in timers : FireTimer(id)
      BY <2>3
    <3> DEFINE r == flush_if_scheduled(st, id)
    <3>1. GoodResult(r) /\ NoIntake(st, r) /\ id \in Loops \cup Nat
      BY <2>t, TimerMoves DEF TypeOK
    <3>2. Section(id, r) /\ UNCHANGED <<cmd_rx, loop>>
      BY DEF FireTimer
    <3> HIDE DEF r
    <3>3. st' = r.st /\ Owed \subseteq Owed'
      BY <2>t, <3>1, <3>2, SectionOwed
    <3> QED BY <2>t, <3>1, <3>2, <3>3, CloseSurvives DEF NoIntake, Running
  <2>4. CASE \E j \in jobs : Perform(j)
    BY <2>4, PerformClose
  <2>5. CASE (\E cmd \in Requests : Request(cmd)) \/ RendererAck
    <3>1. UNCHANGED <<st, jobs, loop>>
      BY <2>5 DEF Request, RendererAck
    <3>2. PICK cmd \in Commands : cmd_rx' = Delivered(cmd)
      <4>1. CASE \E cmd \in Requests : Request(cmd)
        BY <4>1, CommandTypes DEF Request
      <4>2. CASE RendererAck
        <5>1. Len(emitted) - acked \in Nat
          BY <2>t, <4>2 DEF RendererAck, TypeOK
        <5> QED BY <4>2, <5>1, CommandTypes DEF RendererAck
      <4> QED BY <2>5, <4>1, <4>2
    <3>3. Elements(cmd_rx) \subseteq Elements(cmd_rx')
      BY <2>t, <3>2, DeliveredElements
    <3>4. Owed' = Owed /\ Running' = Running
      BY <3>1 DEF Owed, Running
    <3> QED BY <2>t, <3>1, <3>3, <3>4, CloseSurvives
  <2>6. CASE UNCHANGED vars
    <3>1. UNCHANGED <<st, jobs, loop, cmd_rx>>
      BY <2>6 DEF vars
    <3>2. Owed' = Owed /\ Running' = Running
      BY <3>1 DEF Owed, Running
    <3> QED BY <2>t, <3>1, <3>2, CloseSurvives
  <2> QED BY <2>1, <2>2, <2>3, <2>4, <2>5, <2>6 DEF Next
<1> QED BY <1>1, <1>2, Inductive, PTL DEF Spec

(* For all limits, a session whose backlog is catastrophic is being closed: *)
(* the close command is owed by some thread, queued or already handled.     *)
THEOREM OverflowAlwaysCloses == Spec => []OverflowCloses
<1>1. CloseInv => OverflowCloses
  BY DEF CloseInv, CloseKnown, OverflowMarked, OverflowCloses
<1> QED BY <1>1, CloseInductive, PTL

-----------------------------------------------------------------------------
(* What the source loop is told, when one task does everything.             *)

FlowInv == TaskTells /\ TellsCurrent /\ FlowHeard

Word(p) == IF p THEN PauseOutput ELSE ResumeOutput

LEMMA FlowWordFacts ==
    /\ \A p \in BOOLEAN : Word(p) \in FlowWords /\ Word(p) \in Commands
    /\ PauseOutput # ResumeOutput
    /\ \A c \in Requests : c \notin FlowWords
    /\ \A n : AckOutput(n) \notin FlowWords
    /\ \A c : Send(c) \in FlowSends <=> c \in FlowWords
    /\ \A c : c \in FlowWords => c.kind \in {"PauseOutput", "ResumeOutput"}
BY CommandTypes DEF Word, FlowWords, FlowSends, PauseOutput, ResumeOutput, Requests, Attach,
        DetachRenderer, Close, AckOutput, Send

(* Whatever else is queued behind, the last word stays the last word.       *)
LEMMA LastAppend ==
    ASSUME NEW q \in Seq(Commands), NEW c \in Commands, NEW f, NEW p, LastWord(q, f, p),
           c \notin FlowWords
    PROVE  LastWord(Append(q, c), f, p)
<1> DEFINE a == Append(q, c)
<1>1. /\ DOMAIN a = 1..(Len(q) + 1) /\ DOMAIN q = 1..Len(q)
      /\ a[Len(q) + 1] = c
      /\ \A k \in DOMAIN q : a[k] = q[k]
  OBVIOUS
<1>2. \A k \in DOMAIN a : k \in DOMAIN q \/ a[k] = c
  BY <1>1
<1> HIDE DEF a
<1> QED BY <1>1, <1>2 DEF LastWord

(* A word that is sent is the last one.                                     *)
LEMMA LastTold ==
    ASSUME NEW q \in Seq(Commands), NEW f, NEW p \in BOOLEAN
    PROVE  LastWord(Append(q, Word(p)), f, p)
<1> DEFINE a == Append(q, Word(p))
<1>1. /\ DOMAIN a = 1..(Len(q) + 1) /\ Len(q) \in Nat
      /\ a[Len(q) + 1] = Word(p)
  OBVIOUS
<1> HIDE DEF a
<1>2. Len(q) + 1 \in DOMAIN a /\ \A k \in DOMAIN a : ~(k > Len(q) + 1)
  BY <1>1
<1> QED BY <1>1, <1>2 DEF LastWord, Word

(* Handling the first command.                                              *)
LEMMA LastTail ==
    ASSUME NEW q \in Seq(Commands), q # <<>>, NEW f, NEW g, NEW p \in BOOLEAN,
           LastWord(q, f, p),
           g = IF Head(q) = PauseOutput THEN TRUE
               ELSE IF Head(q) = ResumeOutput THEN FALSE ELSE f
    PROVE  LastWord(Tail(q), g, p)
<1> DEFINE a == Tail(q)
<1>1. /\ Len(q) \in Nat \ {0} /\ DOMAIN q = 1..Len(q) /\ DOMAIN a = 1..(Len(q) - 1)
      /\ Head(q) = q[1]
      /\ \A k \in DOMAIN a : k + 1 \in DOMAIN q /\ a[k] = q[k + 1]
  OBVIOUS
<1> HIDE DEF a
<1> SUFFICES LastWord(a, g, p)
  BY DEF a
<1>2. CASE /\ f = p
           /\ \A k \in DOMAIN q : q[k] \notin FlowWords
  <2>1. Head(q) \notin FlowWords
    BY <1>1, <1>2
  <2>2. g = p
    BY <1>2, <2>1 DEF FlowWords
  <2> QED BY <1>1, <1>2, <2>2 DEF LastWord
<1>3. ASSUME NEW i \in DOMAIN q, q[i] = Word(p),
             \A k \in DOMAIN q : k > i => q[k] \notin FlowWords
      PROVE  LastWord(a, g, p)
  <2>1. CASE i = 1
    <3>1. g = p
      BY <1>1, <1>3, <2>1, FlowWordFacts DEF Word
    <3>2. \A k \in DOMAIN a : a[k] \notin FlowWords
      BY <1>1, <1>3, <2>1
    <3> QED BY <3>1, <3>2 DEF LastWord
  <2>2. CASE i # 1
    <3>1. i - 1 \in DOMAIN a /\ a[i - 1] = Word(p)
      BY <1>1, <1>3, <2>2
    <3>2. \A k \in DOMAIN a : k > i - 1 => a[k] \notin FlowWords
      BY <1>1, <1>3, <2>2
    <3> QED BY <3>1, <3>2 DEF LastWord, Word
  <2> QED BY <2>1, <2>2
<1> QED BY <1>2, <1>3 DEF LastWord, Word

(* Thread t runs a section; the channel is read or left alone.              *)
LEMMA SectionTells ==
    ASSUME FlowInv, TypeOK, NEW t \in Loops \cup Nat, NEW r, GoodResult(r), Section(t, r),
           TellsFlow(st, r.st, r.todo),
           Elements(r.todo) \cap FlowSends = {} \/ (t = Reader /\ Idle(Reader)),
           Running' => /\ Running
                       /\ LastWord(cmd_rx, output_paused, st.flow_paused) =>
                             LastWord(cmd_rx', output_paused', st.flow_paused)
    PROVE  FlowInv'
<1>1. /\ st' = r.st /\ jobs' = jobs \cup Job(t, r.todo)
      /\ Owed' = Owed \cup Elements(r.todo)
  BY SectionOwed DEF Section
<1>2. st \in OutputState /\ r.st \in OutputState
  BY DEF TypeOK, GoodResult
<1>3. \A j \in Job(t, r.todo) : j.thread = t /\ j.todo = r.todo
  BY DEF Job
<1>4. TaskTells'
  <2> SUFFICES ASSUME NEW j \in jobs', Elements(j.todo) \cap FlowSends # {}
               PROVE  j.thread = Reader
    BY DEF TaskTells, Elements, FlowSends, Send, PauseOutput, ResumeOutput
  <2> QED BY <1>1, <1>3 DEF FlowInv, TaskTells
<1>5. t = Reader /\ Idle(Reader) => Owed \cap FlowSends = {}
  BY DEF FlowInv, TaskTells, Owed, Idle
<1>6. CASE Elements(r.todo) \cap FlowSends = {}
  <2>1. st.flow_paused = r.st.flow_paused
    BY <1>6 DEF TellsFlow
  <2>2. Owed' \cap FlowSends = Owed \cap FlowSends
    BY <1>1, <1>6
  <2>3. FlowSend(st') = FlowSend(st)
    BY <1>1, <2>1 DEF FlowSend
  <2>4. TellsCurrent'
    <3>1. Owed' \cap FlowSends \subseteq {FlowSend(st')}
      BY <2>2, <2>3 DEF FlowInv, TellsCurrent
    <3> QED BY <3>1 DEF TellsCurrent, FlowSend, FlowSends, Send, PauseOutput, ResumeOutput
  <2>5. FlowHeard'
    <3>1. Running' /\ Owed' \cap FlowSends = {} => LastWord(cmd_rx', output_paused', st'.flow_paused)
      BY <1>1, <2>1, <2>2 DEF FlowInv, FlowHeard
    <3> QED BY <3>1 DEF FlowHeard, FlowSends, Send, PauseOutput, ResumeOutput, LastWord, FlowWords
  <2> QED BY <1>4, <2>4, <2>5 DEF FlowInv
<1>7. CASE Elements(r.todo) \cap FlowSends # {}
  <2>1. Elements(r.todo) \cap FlowSends = {FlowSend(r.st)}
    BY <1>7 DEF TellsFlow
  <2>2. Owed' \cap FlowSends = {FlowSend(st')}
    BY <1>1, <1>5, <1>7, <2>1
  <2>3. TellsCurrent' /\ FlowHeard'
    BY <2>2 DEF TellsCurrent, FlowHeard, FlowSend, FlowSends, Send, PauseOutput, ResumeOutput
  <2> QED BY <1>4, <2>3 DEF FlowInv
<1> QED BY <1>6, <1>7

(* A step of the loops or the renderer that leaves the coalescer alone.     *)
LEMMA QuietTells ==
    ASSUME FlowInv, UNCHANGED <<st, jobs>>,
           Running' => /\ Running
                       /\ LastWord(cmd_rx, output_paused, st.flow_paused) =>
                             LastWord(cmd_rx', output_paused', st.flow_paused)
    PROVE  FlowInv'
<1>1. Owed' = Owed
  BY DEF Owed
<1>2. TaskTells' /\ TellsCurrent'
  BY <1>1 DEF FlowInv, TaskTells, TellsCurrent, FlowSend, FlowSends, Elements
<1>3. Running' /\ Owed' \cap FlowSends = {} => LastWord(cmd_rx', output_paused', st'.flow_paused)
  BY <1>1 DEF FlowInv, FlowHeard
<1>4. FlowHeard'
  BY <1>3 DEF FlowHeard, FlowSends, Send, PauseOutput, ResumeOutput, LastWord, FlowWords
<1> QED BY <1>2, <1>4 DEF FlowInv

(* What the threads owe after one of them has performed an effect.          *)
LEMMA StepLeaves ==
    ASSUME TypeOK, NEW j \in jobs, NEW op, NEW more \in Seq(Effects), Step(j, op, more)
    PROVE  /\ \A k \in jobs' :
                 \/ k \in jobs
                 \/ /\ k.thread = j.thread
                    /\ Elements(k.todo) \subseteq Elements(more) \cup Elements(j.todo)
           /\ Owed' \subseteq Owed \cup Elements(more)
<1> DEFINE e == more \o Tail(j.todo)
<1>1. j.todo \in Seq(Effects) /\ j.todo # <<>>
  BY DEF TypeOK
<1>2. Tail(j.todo) \in Seq(Effects) /\ Elements(Tail(j.todo)) \subseteq Elements(j.todo)
  <2>1. /\ Tail(j.todo) \in Seq(Effects)
        /\ \A i \in DOMAIN Tail(j.todo) : i + 1 \in DOMAIN j.todo /\ Tail(j.todo)[i] = j.todo[i + 1]
    BY <1>1
  <2> QED BY <2>1 DEF Elements
<1>3. Elements(e) \subseteq Elements(more) \cup Elements(j.todo)
  <2>1. Elements(e) = Elements(more) \cup Elements(Tail(j.todo))
    BY <1>2, ConcatElements, ZenonT(60)
  <2> HIDE DEF e
  <2> QED BY <1>2, <2>1
<1>4. jobs' = (jobs \ {j}) \cup Job(j.thread, e)
  BY DEF Step
<1>5. \A k \in Job(j.thread, e) : k.thread = j.thread /\ k.todo = e
  BY DEF Job
<1> HIDE DEF e
<1>6. ASSUME NEW k \in jobs'
      PROVE  \/ k \in jobs
             \/ /\ k.thread = j.thread
                /\ Elements(k.todo) \subseteq Elements(more) \cup Elements(j.todo)
  BY <1>3, <1>4, <1>5
<1>7. Owed' = UNION {Elements(k.todo) : k \in jobs'}
  BY DEF Owed, Elements
<1> QED BY <1>6, <1>7 DEF Owed

LEMMA PerformTells ==
    ASSUME IInv, FlowInv, NEW j \in jobs, Perform(j)
    PROVE  FlowInv'
<1>t. TypeOK /\ st \in OutputState /\ Hysteresis(st) /\ <<>> \in Seq(Effects)
  BY DEF IInv, TypeOK, WatermarksRespected
<1>e. Elements(<<>>) = {}
  BY DEF Elements
<1>p. FlowSends' = FlowSends /\ FlowWords' = FlowWords
  BY DEF FlowSends, FlowWords, Send, PauseOutput, ResumeOutput
<1>1. ASSUME NEW op, NEW more \in Seq(Effects), Step(j, op, more),
             Elements(more) \cap FlowSends = {}, st'.flow_paused = st.flow_paused
      PROVE  TaskTells' /\ TellsCurrent' /\ Owed' \cap FlowSends \subseteq Owed
  <2>1. /\ \A k \in jobs' :
              \/ k \in jobs
              \/ /\ k.thread = j.thread
                 /\ Elements(k.todo) \subseteq Elements(more) \cup Elements(j.todo)
        /\ Owed' \subseteq Owed \cup Elements(more)
    BY <1>t, <1>1, StepLeaves
  <2>2. ASSUME NEW k \in jobs', Elements(k.todo) \cap FlowSends # {}
        PROVE  k.thread = Reader
    <3>1. CASE k \in jobs
      BY <2>2, <3>1 DEF FlowInv, TaskTells
    <3>2. CASE k.thread = j.thread /\ Elements(k.todo) \subseteq Elements(more) \cup Elements(j.todo)
      BY <1>1, <2>2, <3>2 DEF FlowInv, TaskTells
    <3> QED BY <2>1, <3>1, <3>2
  <2>3. TaskTells'
    BY <1>p, <2>2 DEF TaskTells, Elements
  <2>4. Owed' \cap FlowSends \subseteq {FlowSend(st)}
    BY <1>1, <2>1 DEF FlowInv, TellsCurrent
  <2>5. FlowSend(st)' = FlowSend(st)
    BY <1>1 DEF FlowSend, Send, PauseOutput, ResumeOutput
  <2>6. TellsCurrent'
    BY <1>p, <2>4, <2>5 DEF TellsCurrent
  <2> QED BY <1>1, <2>1, <2>3, <2>6
<1>2. ASSUME NEW op, op # "send", NEW r, r.todo \in Seq(Effects),
             Elements(r.todo) \cap FlowSends = {}, r.st.flow_paused = st.flow_paused,
             Step(j, op, r.todo), st' = r.st, UNCHANGED <<cmd_rx, output_paused, loop>>
      PROVE  FlowInv'
  <2>1. TaskTells' /\ TellsCurrent' /\ Owed' \cap FlowSends \subseteq Owed
    BY <1>1, <1>2
  <2>2. Head(j.todo).op = op /\ Owed \ {Head(j.todo)} \subseteq Owed'
    BY <1>t, <1>2, StepOwed
  <2>3. Head(j.todo) \notin FlowSends
    BY <1>2, <2>2, OpsOfEffects DEF FlowSends
  <2>4. Owed \cap FlowSends = {} \/ Owed' \cap FlowSends # {}
    BY <2>2, <2>3
  <2>5. Running' /\ Owed' \cap FlowSends = {} => LastWord(cmd_rx', output_paused', st'.flow_paused)
    BY <1>2, <2>4 DEF FlowInv, FlowHeard, Running
  <2>6. FlowHeard'
    BY <1>p, <2>5 DEF FlowHeard, LastWord, PauseOutput, ResumeOutput
  <2> QED BY <2>1, <2>6 DEF FlowInv
<1>3. CASE SendCommand(j)
  <2> DEFINE c == Head(j.todo).cmd
  <2>1. /\ Step(j, "send", <<>>) /\ UNCHANGED <<st, loop, output_paused>>
        /\ cmd_rx' = Delivered(c)
    BY <1>3 DEF SendCommand
  <2>2. TaskTells' /\ TellsCurrent'
    BY <1>t, <1>e, <1>1, <2>1
  <2>3. /\ Head(j.todo) \in Effects /\ Head(j.todo).op = "send"
        /\ Owed \ {Head(j.todo)} \subseteq Owed'
    BY <1>t, <2>1, StepOwed
  <2>4. c \in Commands /\ Head(j.todo) = Send(c)
    <3>1. Head(j.todo) \in [op : {"send"}, cmd : {PauseOutput, ResumeOutput, Close}]
      BY <2>3 DEF Effects, FlushPending, Reschedule
    <3>2. c \in Commands
      BY <3>1, CommandTypes
    <3> QED BY <3>1, <3>2 DEF Send
  <2> HIDE DEF c
  <2>5. st.flow_paused \in BOOLEAN /\ cmd_rx \in Seq(Commands)
    BY <1>t DEF TypeOK, OutputState
  <2>6. ASSUME Running, Owed' \cap FlowSends = {}
        PROVE  LastWord(cmd_rx', output_paused, st.flow_paused)
    <3>1. cmd_rx' = Append(cmd_rx, c)
      BY <2>1, <2>6 DEF Delivered
    <3>2. CASE Send(c) \in FlowSends
      <4>1. Send(c) \in Owed
        <5>1. j.todo \in Seq(Effects) /\ j.todo # <<>>
          BY <1>t DEF TypeOK
        <5>2. 1 \in DOMAIN j.todo /\ j.todo[1] = Send(c)
          BY <2>4, <5>1
        <5> QED BY <5>2 DEF Owed, Elements
      <4>2. Send(c) = FlowSend(st)
        BY <3>2, <4>1 DEF FlowInv, TellsCurrent
      <4>3. c = Word(st.flow_paused)
        BY <4>2 DEF FlowSend, Word, Send
      <4> QED BY <2>5, <3>1, <4>3, LastTold
    <3>3. CASE Send(c) \notin FlowSends
      <4>1. c \notin FlowWords
        BY <3>3, FlowWordFacts
      <4>2. Owed \cap FlowSends = {}
        BY <2>3, <2>4, <2>6, <3>3
      <4>3. LastWord(cmd_rx, output_paused, st.flow_paused)
        BY <2>6, <4>2 DEF FlowInv, FlowHeard
      <4> QED BY <2>4, <2>5, <3>1, <4>1, <4>3, LastAppend
    <3> QED BY <3>2, <3>3
  <2>7. Running' /\ Owed' \cap FlowSends = {} => LastWord(cmd_rx', output_paused', st'.flow_paused)
    BY <2>1, <2>6 DEF Running
  <2>8. FlowHeard'
    BY <1>p, <2>7 DEF FlowHeard, LastWord, PauseOutput, ResumeOutput
  <2> QED BY <2>2, <2>8 DEF FlowInv
<1>4. CASE CallSink(j) \/ ScheduleFlush(j)
  <2> DEFINE r == [st |-> st, todo |-> <<>>]
  <2>1. r.st = st /\ r.todo = <<>>
    OBVIOUS
  <2> HIDE DEF r
  <2>2. PICK op \in {"emit", "spawn"} : Step(j, op, <<>>)
    BY <1>4 DEF CallSink, ScheduleFlush
  <2>3. UNCHANGED <<st, cmd_rx, output_paused, loop>>
    BY <1>4 DEF CallSink, ScheduleFlush
  <2>4. /\ op # "send" /\ Step(j, op, r.todo) /\ st' = r.st /\ r.todo \in Seq(Effects)
        /\ Elements(r.todo) \cap FlowSends = {}
    BY <1>t, <1>e, <2>1, <2>2, <2>3
  <2> QED BY <1>2, <2>1, <2>3, <2>4
<1>5. CASE FlushNow(j)
  <2> DEFINE r == flush_pending(st)
  <2>1. GoodResult(r) /\ Elements(r.todo) \cap FlowSends = {} /\ r.st.flow_paused = st.flow_paused
    BY <1>t, FlushPendingMoves
  <2>2. Step(j, "flush_pending", r.todo) /\ st' = r.st /\ UNCHANGED <<cmd_rx, output_paused, loop>>
    BY <1>5 DEF FlushNow
  <2> HIDE DEF r
  <2> QED BY <1>2, <2>1, <2>2 DEF GoodResult
<1>6. CASE RescheduleTail(j)
  <2> DEFINE r == reschedule(st)
  <2>1. GoodResult(r) /\ Elements(r.todo) \cap FlowSends = {} /\ r.st.flow_paused = st.flow_paused
    BY <1>t, RescheduleMoves
  <2>2. Step(j, "reschedule", r.todo) /\ st' = r.st /\ UNCHANGED <<cmd_rx, output_paused, loop>>
    BY <1>6 DEF RescheduleTail
  <2> HIDE DEF r
  <2> QED BY <1>2, <2>1, <2>2 DEF GoodResult
<1> QED BY <1>3, <1>4, <1>5, <1>6 DEF Perform

(* The commands and the source, on a single task.                           *)
LEMMA CommandTells ==
    ASSUME SingleTask, IInv, FlowInv, HandleCommand
    PROVE  FlowInv'
<1>t. /\ TypeOK /\ st \in OutputState /\ st.flow_paused \in BOOLEAN
      /\ cmd_rx \in Seq(Commands) /\ Reader \in Loops \cup Nat /\ Reader = Command
  BY DEF IInv, TypeOK, OutputState, Loops, SingleTask
<1>1. ASSUME NEW k, k \notin {"PauseOutput", "ResumeOutput"}, Take(k), output_paused' = output_paused
      PROVE  LastWord(cmd_rx, output_paused, st.flow_paused) =>
                LastWord(cmd_rx', output_paused', st.flow_paused)
  <2>1. cmd_rx # <<>> /\ cmd_rx' = Tail(cmd_rx) /\ Head(cmd_rx).kind = k
    BY <1>1 DEF Take
  <2>2. Head(cmd_rx) # PauseOutput /\ Head(cmd_rx) # ResumeOutput
    BY <1>1, <2>1 DEF PauseOutput, ResumeOutput
  <2> QED BY <1>t, <1>1, <2>1, <2>2, LastTail
<1>2. ASSUME NEW r, NEW k, GoodResult(r), TellsFlow(st, r.st, r.todo), Section(Command, r),
             Take(k), k \notin {"PauseOutput", "ResumeOutput"},
             UNCHANGED <<output_paused, loop>>
      PROVE  FlowInv'
  <2>1. Idle(Reader) /\ Section(Reader, r)
    BY <1>t, <1>2 DEF Take
  <2>2. /\ Running' => Running
        /\ LastWord(cmd_rx, output_paused, st.flow_paused) =>
              LastWord(cmd_rx', output_paused', st.flow_paused)
    BY <1>1, <1>2 DEF Running
  <2> QED BY <1>t, <1>2, <2>1, <2>2, SectionTells
<1>3. CASE HandleAttach
  <2>1. GoodResult(attach(st)) /\ TellsFlow(st, attach(st).st, attach(st).todo)
    BY <1>t, AttachMoves
  <2>2. /\ Section(Command, attach(st)) /\ Take("Attach")
        /\ UNCHANGED <<output_paused, loop>>
    BY <1>3 DEF HandleAttach
  <2> QED BY <1>2, <2>1, <2>2
<1>4. CASE HandleDetach
  <2>1. GoodResult(detach(st)) /\ TellsFlow(st, detach(st).st, detach(st).todo)
    BY <1>t, DetachMoves
  <2>2. /\ Section(Command, detach(st)) /\ Take("DetachRenderer")
        /\ UNCHANGED <<output_paused, loop>>
    BY <1>4 DEF HandleDetach
  <2> QED BY <1>2, <2>1, <2>2
<1>5. CASE HandleAck
  <2> DEFINE n == Head(cmd_rx).bytes
  <2>1. n \in Nat
    BY <1>t, <1>5, TakeTyped, CommandTypes DEF HandleAck
  <2>2. /\ Section(Command, ack(st, n)) /\ Take("AckOutput")
        /\ UNCHANGED <<output_paused, loop>>
    BY <1>5 DEF HandleAck
  <2> HIDE DEF n
  <2>3. GoodResult(ack(st, n)) /\ TellsFlow(st, ack(st, n).st, ack(st, n).todo)
    BY <1>t, <2>1, AckMoves
  <2> QED BY <1>2, <2>2, <2>3
<1>6. CASE CloseOutput
  <2>1. GoodResult(close(st)) /\ TellsFlow(st, close(st).st, close(st).todo)
    BY <1>t, CloseMoves
  <2>2. Section(Reader, close(st)) /\ Idle(Reader) /\ ~Running'
    BY <1>t, <1>6 DEF CloseOutput, Running
  <2> QED BY <1>t, <2>1, <2>2, SectionTells
<1>7. CASE HandleClose \/ NoticeReaderDone
  <2>1. UNCHANGED <<st, jobs>> /\ ~Running'
    BY <1>7 DEF HandleClose, NoticeReaderDone, Running
  <2> QED BY <2>1, QuietTells
<1>8. CASE HandlePause
  <2>1. /\ cmd_rx # <<>> /\ cmd_rx' = Tail(cmd_rx) /\ Head(cmd_rx).kind = "PauseOutput"
        /\ output_paused' = TRUE /\ UNCHANGED <<st, jobs, loop>>
    BY <1>8 DEF HandlePause, Take
  <2>2. Head(cmd_rx) = PauseOutput
    BY <1>t, <2>1 DEF Commands, Requests, Attach, DetachRenderer, Close, PauseOutput, ResumeOutput
  <2>3. LastWord(cmd_rx, output_paused, st.flow_paused) =>
           LastWord(cmd_rx', output_paused', st.flow_paused)
    BY <1>t, <2>1, <2>2, LastTail
  <2> QED BY <2>1, <2>3, QuietTells DEF Running
<1>9. CASE HandleResume
  <2>1. /\ cmd_rx # <<>> /\ cmd_rx' = Tail(cmd_rx) /\ Head(cmd_rx).kind = "ResumeOutput"
        /\ output_paused' = FALSE /\ UNCHANGED <<st, jobs, loop>>
    BY <1>9 DEF HandleResume, Take
  <2>2. Head(cmd_rx) = ResumeOutput /\ ResumeOutput # PauseOutput
    BY <1>t, <2>1 DEF Commands, Requests, Attach, DetachRenderer, Close, PauseOutput, ResumeOutput
  <2>3. LastWord(cmd_rx, output_paused, st.flow_paused) =>
           LastWord(cmd_rx', output_paused', st.flow_paused)
    BY <1>t, <2>1, <2>2, LastTail
  <2> QED BY <2>1, <2>3, QuietTells DEF Running
<1> QED BY <1>3, <1>4, <1>5, <1>6, <1>7, <1>8, <1>9 DEF HandleCommand

(* A read, like every section of the loop's task, tells the flow itself.    *)
LEMMA ReadTells ==
    ASSUME SingleTask, IInv, FlowInv, NEW n \in 1..ReadMax, ReadSource(n)
    PROVE  FlowInv'
<1> DEFINE text == [i \in 1..n |-> produced + i]
           r    == push_owned(st, text)
<1>1. TypeOK /\ st \in OutputState /\ text \in Seq(Nat) /\ Reader \in Loops \cup Nat
  BY FlowAssumption DEF IInv, TypeOK, Loops
<1>2. Section(Reader, r) /\ Idle(Reader) /\ UNCHANGED <<cmd_rx, output_paused, loop>>
  BY DEF ReadSource, CanRead
<1>3. GoodResult(r) /\ TellsFlow(st, r.st, r.todo)
  BY <1>1, PushMoves
<1> HIDE DEF text, r
<1> QED BY <1>1, <1>2, <1>3, SectionTells DEF Running

LEMMA SourceTells ==
    ASSUME SingleTask, IInv, FlowInv,
           PassGate \/ (\E n \in 1..ReadMax : ReadSource(n)) \/ SourceEnds \/ ReaderDone
    PROVE  FlowInv'
<1>1. CASE PassGate \/ ReaderDone
  <2>1. UNCHANGED <<st, jobs, cmd_rx, output_paused, loop>>
    BY <1>1 DEF PassGate, ReaderDone
  <2> QED BY <2>1, QuietTells DEF Running
<1>2. CASE \E n \in 1..ReadMax : ReadSource(n)
  BY <1>2, ReadTells
<1>3. CASE SourceEnds
  <2>1. UNCHANGED <<st, jobs>> /\ loop' = "exiting"
    BY <1>3 DEF SourceEnds
  <2>2. ~Running'
    BY <2>1 DEF Running
  <2> QED BY <2>1, <2>2, QuietTells
<1> QED BY <1>1, <1>2, <1>3

(* A timer does not move the flow state.                                    *)
LEMMA TimerTells ==
    ASSUME IInv, FlowInv, NEW id \in timers, FireTimer(id)
    PROVE  FlowInv'
<1> DEFINE r == flush_if_scheduled(st, id)
<1>1. TypeOK /\ st \in OutputState /\ Hysteresis(st) /\ id \in Loops \cup Nat
  BY DEF IInv, TypeOK, WatermarksRespected
<1>2. /\ GoodResult(r) /\ Elements(r.todo) \cap FlowSends = {}
      /\ r.st.flow_paused = st.flow_paused
  BY <1>1, TimerMoves
<1>3. Section(id, r) /\ UNCHANGED <<cmd_rx, output_paused, loop>>
  BY DEF FireTimer
<1> HIDE DEF r
<1>4. TellsFlow(st, r.st, r.todo)
  BY <1>2 DEF TellsFlow
<1>5. /\ Running' = Running
      /\ LastWord(cmd_rx, output_paused, st.flow_paused) =>
            LastWord(cmd_rx', output_paused', st.flow_paused)
  BY <1>3 DEF Running
<1> QED BY <1>1, <1>2, <1>3, <1>4, <1>5, SectionTells

LEMMA FlowInductive == SingleTask => (Spec => []FlowInv)
<1> SUFFICES ASSUME SingleTask PROVE Spec => []FlowInv
  OBVIOUS
<1>1. Init => FlowInv
  <2> SUFFICES ASSUME Init PROVE FlowInv
    OBVIOUS
  <2>1. jobs = {} /\ Owed = {} /\ cmd_rx = <<>> /\ output_paused = FALSE /\ st.flow_paused = FALSE
    BY DEF Init, InitOutputState, Owed
  <2>2. LastWord(<<>>, FALSE, FALSE)
    BY DEF LastWord
  <2>3. TaskTells /\ TellsCurrent
    BY <2>1 DEF TaskTells, TellsCurrent
  <2>4. FlowHeard
    BY <2>1, <2>2 DEF FlowHeard
  <2> QED BY <2>3, <2>4 DEF FlowInv
<1>2. IInv /\ FlowInv /\ [Next]_vars => FlowInv'
  <2> SUFFICES ASSUME IInv, FlowInv, [Next]_vars PROVE FlowInv'
    OBVIOUS
  <2>t. TypeOK /\ st \in OutputState /\ Hysteresis(st) /\ cmd_rx \in Seq(Commands)
    BY DEF IInv, TypeOK, WatermarksRespected
  <2>1. CASE PassGate \/ (\E n \in 1..ReadMax : ReadSource(n)) \/ SourceEnds \/ ReaderDone
    BY <2>1, SourceTells
  <2>2. CASE HandleCommand
    BY <2>2, CommandTells
  <2>3. CASE \E id \in timers : FireTimer(id)
    BY <2>3, TimerTells
  <2>4. CASE \E j \in jobs : Perform(j)
    BY <2>4, PerformTells
  <2>5. CASE (\E cmd \in Requests : Request(cmd)) \/ RendererAck
    <3>1. UNCHANGED <<st, jobs, output_paused, loop>>
      BY <2>5 DEF Request, RendererAck
    <3>2. PICK cmd \in Commands : cmd \notin FlowWords /\ cmd_rx' = Delivered(cmd)
      <4>1. CASE \E cmd \in Requests : Request(cmd)
        BY <4>1, CommandTypes, FlowWordFacts DEF Request
      <4>2. CASE RendererAck
        <5>1. Len(emitted) - acked \in Nat
          BY <2>t, <4>2 DEF RendererAck, TypeOK
        <5> QED BY <4>2, <5>1, CommandTypes, FlowWordFacts DEF RendererAck
      <4> QED BY <2>5, <4>1, <4>2
    <3>3. LastWord(cmd_rx, output_paused, st.flow_paused) =>
             LastWord(cmd_rx', output_paused', st.flow_paused)
      BY <2>t, <3>1, <3>2, LastAppend DEF Delivered
    <3> QED BY <3>1, <3>3, QuietTells DEF Running
  <2>6. CASE UNCHANGED vars
    <3>1. UNCHANGED <<st, jobs, cmd_rx, output_paused, loop>>
      BY <2>6 DEF vars
    <3> QED BY <3>1, QuietTells DEF Running
  <2> QED BY <2>1, <2>2, <2>3, <2>4, <2>5, <2>6 DEF Next
<1> QED BY <1>1, <1>2, Inductive, PTL DEF Spec

(* On a single task, for all limits and every interleaving with timers and  *)
(* the renderer: once everything sent is handled, the source is paused      *)
(* exactly when the coalescer holds the backlog to be too high.             *)
THEOREM PauseAgrees == SingleTask => (Spec => []PauseAgreement)
<1>1. FlowInv => PauseAgreement
  <2> SUFFICES ASSUME FlowInv, Settled PROVE output_paused <=> st.flow_paused
    BY DEF PauseAgreement
  <2>1. Owed = {} /\ Running /\ cmd_rx = <<>>
    BY DEF Settled, Owed
  <2>2. LastWord(cmd_rx, output_paused, st.flow_paused)
    BY <2>1 DEF FlowInv, FlowHeard
  <2> QED BY <2>1, <2>2 DEF LastWord
<1> QED BY <1>1, FlowInductive, PTL

(* A task that reads while its channel is empty has heard the flow state:   *)
(* the backlog is below the high watermark.                                 *)
LEMMA ReadBelow ==
    ASSUME SingleTask, IInv, FlowInv, CanRead
    PROVE  Backlog(st) < HighWatermark
<1>1. Idle(Reader) /\ Running /\ ~output_paused /\ cmd_rx = <<>>
  BY DEF CanRead
<1>2. Owed \cap FlowSends = {}
  BY <1>1 DEF FlowInv, TaskTells, Owed, Idle
<1>3. LastWord(cmd_rx, output_paused, st.flow_paused)
  BY <1>1, <1>2 DEF FlowInv, FlowHeard
<1>4. ~st.flow_paused
  BY <1>1, <1>3 DEF LastWord
<1> QED BY <1>4 DEF IInv, WatermarksRespected, Hysteresis

(* On a single task, for all limits, the backlog passes the high watermark  *)
(* by less than one read: the bias of the select! makes a pause take effect *)
(* before the next read.                                                    *)
THEOREM BacklogStaysBounded == SingleTask => (Spec => []BacklogBounded)
<1> SUFFICES ASSUME SingleTask PROVE Spec => []BacklogBounded
  OBVIOUS
<1>l. HighWatermark \in Nat /\ HighWatermark > 0 /\ ReadMax \in Nat /\ ReadMax > 0
  BY LimitsAssumption, FlowAssumption
<1>1. Init => BacklogBounded
  BY <1>l DEF Init, InitOutputState, BacklogBounded, Backlog
<1>2. IInv /\ FlowInv /\ BacklogBounded /\ [Next]_vars => BacklogBounded'
  <2> SUFFICES ASSUME IInv, FlowInv, BacklogBounded, [Next]_vars PROVE BacklogBounded'
    OBVIOUS
  <2>t. TypeOK /\ st \in OutputState /\ Hysteresis(st) /\ Backlog(st) \in Nat
    BY DEF IInv, TypeOK, WatermarksRespected, OutputState, Backlog
  <2>q. ASSUME st' = st PROVE BacklogBounded'
    BY <2>q DEF BacklogBounded, Backlog
  <2>r. ASSUME NEW r, NoIntake(st, r), st' = r.st PROVE BacklogBounded'
    <3>1. Backlog(r.st) < HighWatermark + ReadMax
      BY <1>l, <2>t, <2>r DEF NoIntake, BacklogBounded
    <3> QED BY <2>r, <3>1 DEF BacklogBounded, Backlog
  <2>1. CASE \E n \in 1..ReadMax : ReadSource(n)
    <3> PICK n \in 1..ReadMax : ReadSource(n)
      BY <2>1
    <3> DEFINE text == [i \in 1..n |-> produced + i]
               r    == push_owned(st, text)
    <3>1. text \in Seq(Nat) /\ Len(text) = n /\ n \in Nat
      BY <1>l, <2>t DEF TypeOK
    <3>2. CanRead /\ st' = r.st
      BY DEF ReadSource, Section
    <3> HIDE DEF text
    <3>3. Backlog(r.st) = Backlog(st) + n
      BY <2>t, <3>1, PushMoves
    <3> HIDE DEF r
    <3>4. Backlog(st) < HighWatermark
      BY <3>2, ReadBelow
    <3>5. Backlog(r.st) < HighWatermark + ReadMax
      BY <1>l, <2>t, <3>1, <3>3, <3>4
    <3> QED BY <3>2, <3>5 DEF BacklogBounded, Backlog
  <2>2. CASE PassGate \/ SourceEnds \/ ReaderDone
    BY <2>2, <2>q DEF PassGate, SourceEnds, ReaderDone
  <2>3. CASE HandleAttach
    BY <2>3, <2>r, <2>t, AttachMoves DEF HandleAttach, Section
  <2>4. CASE HandleDetach
    BY <2>4, <2>r, <2>t, DetachMoves DEF HandleDetach, Section
  <2>5. CASE HandleAck
    <3> DEFINE n == Head(cmd_rx).bytes
    <3>1. n \in Nat
      BY <2>t, <2>5, TakeTyped, CommandTypes DEF HandleAck
    <3>2. st' = ack(st, n).st
      BY <2>5 DEF HandleAck, Section
    <3> HIDE DEF n
    <3> QED BY <2>r, <2>t, <3>1, <3>2, AckMoves
  <2>6. CASE CloseOutput
    BY <2>6, <2>r, <2>t, CloseMoves DEF CloseOutput, Section
  <2>7. CASE HandlePause \/ HandleResume \/ HandleClose \/ NoticeReaderDone
    BY <2>7, <2>q DEF HandlePause, HandleResume, HandleClose, NoticeReaderDone
  <2>8. CASE \E id \in timers : FireTimer(id)
    BY <2>8, <2>r, <2>t, TimerMoves DEF FireTimer, Section
  <2>9. CASE \E j \in jobs : Perform(j)
    <3> PICK j \in jobs : Perform(j)
      BY <2>9
    <3>1. CASE CallSink(j) \/ SendCommand(j) \/ ScheduleFlush(j)
      BY <2>q, <3>1 DEF CallSink, SendCommand, ScheduleFlush
    <3>2. CASE FlushNow(j)
      BY <2>r, <2>t, <3>2, FlushPendingMoves DEF FlushNow
    <3>3. CASE RescheduleTail(j)
      BY <2>r, <2>t, <3>3, RescheduleMoves DEF RescheduleTail
    <3> QED BY <3>1, <3>2, <3>3 DEF Perform
  <2>10. CASE (\E cmd \in Requests : Request(cmd)) \/ RendererAck
    BY <2>10, <2>q DEF Request, RendererAck
  <2>11. CASE UNCHANGED vars
    BY <2>11, <2>q DEF vars
  <2> QED BY <2>1, <2>2, <2>3, <2>4, <2>5, <2>6, <2>7, <2>8, <2>9, <2>10, <2>11
          DEF Next, HandleCommand
<1> QED BY <1>1, <1>2, Inductive, FlowInductive, PTL DEF Spec
=============================================================================

-------------------------- MODULE OutputFlowProofs --------------------------
(***************************************************************************)
(* Proofs about OutputFlow, for all limits, thread assignments and bounds. *)
(***************************************************************************)
EXTENDS OutputFlow, TLAPS

(* A critical section's result: a state in hysteresis, and effects.         *)
GoodResult(r) ==
    /\ r.st \in OutputState
    /\ r.todo \in Seq(Effects)
    /\ Hysteresis(r.st)

-----------------------------------------------------------------------------
(* Sequences of effects.                                                    *)

(* Effects of a concatenation are the effects of its two parts.             *)
LEMMA ConcatElements ==
    ASSUME NEW S, NEW u \in Seq(S), NEW v \in Seq(S)
    PROVE  /\ u \o v \in Seq(S)
           /\ Elements(u \o v) = Elements(u) \cup Elements(v)
<1>1. u \o v \in Seq(S)
  OBVIOUS
<1>2. Elements(u \o v) \subseteq Elements(u) \cup Elements(v)
  BY DEF Elements
<1>3. Elements(u) \subseteq Elements(u \o v)
  BY DEF Elements
<1>4. Elements(v) \subseteq Elements(u \o v)
  <2> SUFFICES ASSUME NEW i \in DOMAIN v PROVE v[i] \in Elements(u \o v)
    BY DEF Elements
  <2>1. Len(u) + i \in DOMAIN (u \o v) /\ (u \o v)[Len(u) + i] = v[i]
    OBVIOUS
  <2> QED BY <2>1 DEF Elements
<1> QED BY <1>1, <1>2, <1>3, <1>4

(* Performing the head of a list of effects leaves the others.              *)
LEMMA TailElements ==
    ASSUME NEW S, NEW u \in Seq(S), u # <<>>
    PROVE  /\ Tail(u) \in Seq(S)
           /\ Head(u) \in S
           /\ Elements(u) \subseteq {Head(u)} \cup Elements(Tail(u))
<1>1. Tail(u) \in Seq(S) /\ Head(u) \in S
  OBVIOUS
<1>2. ASSUME NEW i \in DOMAIN u PROVE u[i] \in {Head(u)} \cup Elements(Tail(u))
  <2>1. CASE i = 1
    BY <2>1
  <2>2. CASE i # 1
    <3>1. i - 1 \in DOMAIN Tail(u) /\ Tail(u)[i - 1] = u[i]
      BY <2>2
    <3> QED BY <3>1 DEF Elements
  <2> QED BY <2>1, <2>2
<1> QED BY <1>1, <1>2 DEF Elements

(* A conditional effect is owed exactly when its condition holds.           *)
LEMMA WhenElements ==
    ASSUME NEW S, NEW c \in BOOLEAN, NEW e \in S
    PROVE  /\ When(c, e) \in Seq(S)
           /\ c => Elements(When(c, e)) = {e}
           /\ ~c => Elements(When(c, e)) = {}
  BY DEF When, Elements

(* The effects the methods of the coalescer build are effects.              *)
LEMMA EffectsTyped ==
    /\ \A data \in Seq(Nat) : Emit(data) \in Effects
    /\ \A cmd \in {PauseOutput, ResumeOutput, Close} : Send(cmd) \in Effects
    /\ \A id \in Nat : Spawn(id) \in Effects
    /\ FlushPending \in Effects
    /\ Reschedule \in Effects
  BY DEF Effects, Emit, Send, Spawn

-----------------------------------------------------------------------------
(* The operators every section is built from.                               *)

(* update_flow_state establishes the hysteresis whatever the state before.  *)
LEMMA FlowUpdated ==
    ASSUME NEW s \in OutputState
    PROVE  LET after == update_flow_state(s)
           IN  /\ after \in OutputState
               /\ Hysteresis(after)
               /\ after.attached = s.attached
               /\ after.pending = s.pending
               /\ after.unacked_bytes = s.unacked_bytes
               /\ after.next_flush_id = s.next_flush_id
               /\ after.scheduled_flush_id = s.scheduled_flush_id
               /\ after.catastrophic_close_sent = s.catastrophic_close_sent
<1>1. Backlog(s) \in Nat
  BY DEF Backlog, OutputState
<1>2. CASE ~s.flow_paused /\ Backlog(s) >= HighWatermark
  <2> DEFINE after == [s EXCEPT !.flow_paused = TRUE]
  <2>1. update_flow_state(s) = after
    BY <1>2 DEF update_flow_state
  <2>2. after \in OutputState /\ Backlog(after) = Backlog(s) /\ after.flow_paused
    BY DEF OutputState, Backlog
  <2>3. Hysteresis(after)
    BY <1>1, <1>2, <2>2, LimitsAssumption DEF Hysteresis
  <2> QED BY <2>1, <2>2, <2>3 DEF OutputState
<1>3. CASE s.flow_paused /\ Backlog(s) <= LowWatermark
  <2> DEFINE after == [s EXCEPT !.flow_paused = FALSE]
  <2>1. update_flow_state(s) = after
    BY <1>3 DEF update_flow_state
  <2>2. after \in OutputState /\ Backlog(after) = Backlog(s) /\ ~after.flow_paused
    BY DEF OutputState, Backlog
  <2>3. Hysteresis(after)
    BY <1>1, <1>3, <2>2, LimitsAssumption DEF Hysteresis
  <2> QED BY <2>1, <2>2, <2>3 DEF OutputState
<1>4. CASE /\ ~(~s.flow_paused /\ Backlog(s) >= HighWatermark)
           /\ ~(s.flow_paused /\ Backlog(s) <= LowWatermark)
  <2>1. update_flow_state(s) = s
    BY <1>4 DEF update_flow_state
  <2>2. Hysteresis(s)
    BY <1>1, <1>4, LimitsAssumption DEF Hysteresis
  <2> QED BY <2>1, <2>2
<1> QED BY <1>2, <1>3, <1>4

(* send_flow_change sends a pause, a resume or nothing.                     *)
LEMMA FlowChangeTyped ==
    ASSUME NEW before \in OutputState, NEW after \in OutputState
    PROVE  FlowChange(before, after) \in Seq(Effects)
<1>1. Send(IF after.flow_paused THEN PauseOutput ELSE ResumeOutput) \in Effects
  BY EffectsTyped
<1>2. (before.flow_paused # after.flow_paused) \in BOOLEAN
  OBVIOUS
<1> QED BY <1>1, <1>2, WhenElements DEF FlowChange

(* Scheduling and cancelling touch the flush identifiers only.              *)
LEMMA ScheduledTyped ==
    ASSUME NEW s \in OutputState
    PROVE  /\ Scheduled(s) \in OutputState
           /\ Scheduled(s).attached = s.attached
           /\ Scheduled(s).pending = s.pending
           /\ Scheduled(s).scheduled_flush_id = s.next_flush_id + 1
           /\ Scheduled(s).next_flush_id = s.next_flush_id + 1
           /\ Scheduled(s).scheduled_flush_id # NoFlush
           /\ Hysteresis(s) => Hysteresis(Scheduled(s))
           /\ Cancelled(s) \in OutputState
           /\ Cancelled(s).attached = s.attached
           /\ Cancelled(s).pending = s.pending
           /\ Cancelled(s).scheduled_flush_id = NoFlush
           /\ Hysteresis(s) => Hysteresis(Cancelled(s))
<1> DEFINE n == s.next_flush_id + 1
<1>1. n \in Nat /\ NoFlush \in Nat /\ n # NoFlush
  BY DEF OutputState, NoFlush
<1>2. /\ Scheduled(s) = [s EXCEPT !.next_flush_id = n, !.scheduled_flush_id = n]
      /\ Cancelled(s) = [s EXCEPT !.next_flush_id = n, !.scheduled_flush_id = NoFlush]
  BY DEF Scheduled, Cancelled
<1> HIDE DEF n
<1>3. /\ Scheduled(s) \in OutputState
      /\ Scheduled(s).attached = s.attached
      /\ Scheduled(s).pending = s.pending
      /\ Scheduled(s).unacked_bytes = s.unacked_bytes
      /\ Scheduled(s).flow_paused = s.flow_paused
      /\ Scheduled(s).scheduled_flush_id = n
      /\ Scheduled(s).next_flush_id = n
  BY <1>1, <1>2 DEF OutputState
<1>4. /\ Cancelled(s) \in OutputState
      /\ Cancelled(s).attached = s.attached
      /\ Cancelled(s).pending = s.pending
      /\ Cancelled(s).unacked_bytes = s.unacked_bytes
      /\ Cancelled(s).flow_paused = s.flow_paused
      /\ Cancelled(s).scheduled_flush_id = NoFlush
  BY <1>1, <1>2 DEF OutputState
<1> QED BY <1>1, <1>3, <1>4 DEF Hysteresis, Backlog, n

(* take_pending_batch moves a prefix of the queue to the sink.              *)
LEMMA BatchTyped ==
    ASSUME NEW s \in OutputState
    PROVE  /\ BatchSize(s) \in 0..Len(s.pending)
           /\ take_pending_batch(s) \in OutputState
           /\ take_pending_batch(s).attached = s.attached
           /\ take_pending_batch(s).scheduled_flush_id = s.scheduled_flush_id
           /\ SubSeq(s.pending, 1, BatchSize(s)) \in Seq(Nat)
<1>1. batch_limit(s) \in Nat
  BY LimitsAssumption DEF batch_limit
<1>2. BatchSize(s) \in 0..Len(s.pending)
  BY <1>1 DEF BatchSize, Smaller, OutputState
<1>3. SubSeq(s.pending, BatchSize(s) + 1, Len(s.pending)) \in Seq(Nat)
  BY <1>2 DEF OutputState
<1>4. SubSeq(s.pending, 1, BatchSize(s)) \in Seq(Nat)
  BY <1>2 DEF OutputState
<1> DEFINE rest == SubSeq(s.pending, BatchSize(s) + 1, Len(s.pending))
           n    == s.unacked_bytes + BatchSize(s)
<1>5. rest \in Seq(Nat) /\ n \in Nat
  BY <1>2, <1>3 DEF OutputState
<1>6. take_pending_batch(s) = [s EXCEPT !.pending = rest, !.unacked_bytes = n]
  BY DEF take_pending_batch
<1> HIDE DEF rest, n
<1>7. /\ take_pending_batch(s) \in OutputState
      /\ take_pending_batch(s).attached = s.attached
      /\ take_pending_batch(s).scheduled_flush_id = s.scheduled_flush_id
  BY <1>5, <1>6 DEF OutputState
<1> QED BY <1>2, <1>4, <1>7

(* A flush leaves nothing queued for an attached renderer unless it also    *)
(* promises to reschedule.                                                  *)
LEMMA FlushFromState ==
    ASSUME NEW before \in OutputState, NEW s \in OutputState
    PROVE  LET r == flush_from_state(before, s)
           IN  /\ GoodResult(r)
               /\ r.st.attached = s.attached
               /\ r.st.scheduled_flush_id = s.scheduled_flush_id
               /\ r.st.attached /\ r.st.pending # <<>> => Reschedule \in Elements(r.todo)
<1> DEFINE data  == SubSeq(s.pending, 1, BatchSize(s))
           after == update_flow_state(take_pending_batch(s))
           a == When(data # <<>>, Emit(data))
           b == FlowChange(before, after)
           c == When(after.attached /\ after.pending # <<>>, Reschedule)
<1>1. /\ after \in OutputState
      /\ Hysteresis(after)
      /\ after.attached = s.attached
      /\ after.scheduled_flush_id = s.scheduled_flush_id
  BY BatchTyped, FlowUpdated
<1>2. a \in Seq(Effects)
  BY BatchTyped, EffectsTyped, WhenElements
<1>3. b \in Seq(Effects)
  BY <1>1, FlowChangeTyped
<1>4. /\ c \in Seq(Effects)
      /\ after.attached /\ after.pending # <<>> => Reschedule \in Elements(c)
  <2>1. (after.attached /\ after.pending # <<>>) \in BOOLEAN
    BY <1>1 DEF OutputState
  <2> QED BY <2>1, EffectsTyped, WhenElements
<1>5. /\ a \o b \o c \in Seq(Effects)
      /\ Elements(c) \subseteq Elements(a \o b \o c)
  <2> DEFINE ab == a \o b
  <2>1. ab \in Seq(Effects)
    BY <1>2, <1>3, ConcatElements
  <2>2. c \in Seq(Effects)
    BY <1>4
  <2> HIDE DEF a, b, c, ab
  <2>3. /\ ab \o c \in Seq(Effects)
        /\ Elements(ab \o c) = Elements(ab) \cup Elements(c)
    BY <2>1, <2>2, ConcatElements
  <2> QED BY <2>3 DEF ab
<1>6. flush_from_state(before, s) = [st |-> after, todo |-> a \o b \o c]
  BY DEF flush_from_state
<1> HIDE DEF data, after, a, b, c
<1> QED BY <1>1, <1>4, <1>5, <1>6 DEF GoodResult

(* The flush of a closing coalescer leaves nothing queued.                  *)
LEMMA FlushAll ==
    ASSUME NEW s \in OutputState
    PROVE  LET r == flush_all_from_state(s)
           IN  /\ GoodResult(r)
               /\ r.st.pending = <<>>
               /\ r.st.scheduled_flush_id = s.scheduled_flush_id
<1> DEFINE n     == Len(s.pending)
           kept  == SubSeq(s.pending, n - Smaller(n, CloseFlushMax) + 1, n)
           total == s.unacked_bytes + Len(kept)
           sent  == [s EXCEPT !.pending = <<>>, !.unacked_bytes = total]
           after == update_flow_state(sent)
           a == When(kept # <<>>, Emit(kept))
           b == FlowChange(s, after)
<1>1. kept \in Seq(Nat) /\ Len(kept) \in Nat
  <2>1. n \in Nat /\ Smaller(n, CloseFlushMax) \in 0..n
    BY LimitsAssumption DEF Smaller, OutputState
  <2> DEFINE k == n - Smaller(n, CloseFlushMax) + 1
  <2>2. k \in 1..(n + 1)
    BY <2>1
  <2> HIDE DEF k
  <2>3. SubSeq(s.pending, k, n) \in Seq(Nat)
    BY <2>1, <2>2 DEF OutputState
  <2> QED BY <2>3 DEF k
<1>2. /\ sent \in OutputState
      /\ sent.pending = <<>>
      /\ sent.scheduled_flush_id = s.scheduled_flush_id
  <2>1. total \in Nat
    BY <1>1 DEF OutputState
  <2> HIDE DEF total
  <2>2. <<>> \in Seq(Nat)
    OBVIOUS
  <2> QED BY <2>1, <2>2 DEF OutputState
<1>3. /\ after \in OutputState
      /\ Hysteresis(after)
      /\ after.pending = <<>>
      /\ after.scheduled_flush_id = s.scheduled_flush_id
  BY <1>2, FlowUpdated
<1>4. a \in Seq(Effects)
  BY <1>1, EffectsTyped, WhenElements
<1>5. b \in Seq(Effects)
  BY <1>3, FlowChangeTyped
<1>6. a \o b \in Seq(Effects)
  BY <1>4, <1>5, ConcatElements
<1>7. flush_all_from_state(s) = [st |-> after, todo |-> a \o b]
  BY DEF flush_all_from_state
<1> HIDE DEF n, kept, total, sent, after, a, b
<1> QED BY <1>3, <1>6, <1>7 DEF GoodResult

-----------------------------------------------------------------------------
(* The methods.  A section that runs from s to r keeps the flush promise    *)
(* when it leaves a scheduled identifier only together with its timer, and  *)
(* leaves output queued for an attached renderer only with a flush          *)
(* scheduled or owed, or where s already had a promise and r keeps it.      *)

KeepsPromise(s, r) ==
    /\ \/ r.st.scheduled_flush_id \in {NoFlush, s.scheduled_flush_id}
       \/ Spawn(r.st.scheduled_flush_id) \in Elements(r.todo)
    /\ r.st.attached /\ r.st.pending # <<>> =>
         \/ r.st.scheduled_flush_id # NoFlush
         \/ {FlushPending, Reschedule} \cap Elements(r.todo) # {}
         \/ /\ s.attached /\ s.pending # <<>>
            /\ r.st.scheduled_flush_id = s.scheduled_flush_id

(* attach flushes at once and owes the rest a reschedule.                   *)
LEMMA AttachSection ==
    ASSUME NEW s \in OutputState
    PROVE  GoodResult(attach(s)) /\ KeepsPromise(s, attach(s))
<1> DEFINE ready == [s EXCEPT !.attached = TRUE, !.unacked_bytes = 0]
<1>1. ready \in OutputState
  BY DEF OutputState
<1>2. Cancelled(ready) \in OutputState /\ Cancelled(ready).scheduled_flush_id = NoFlush
  BY <1>1, ScheduledTyped
<1>3. attach(s) = flush_from_state(s, Cancelled(ready))
  BY DEF attach
<1> HIDE DEF ready
<1> QED BY <1>2, <1>3, FlushFromState DEF KeepsPromise

(* detach cancels the flush: nobody is attached to wait for it.             *)
LEMMA DetachSection ==
    ASSUME NEW s \in OutputState
    PROVE  GoodResult(detach(s)) /\ KeepsPromise(s, detach(s))
<1> DEFINE gone  == [s EXCEPT !.attached = FALSE, !.unacked_bytes = 0]
           after == update_flow_state(Cancelled(gone))
<1>1. gone \in OutputState /\ ~gone.attached
  BY DEF OutputState
<1>2. /\ after \in OutputState
      /\ Hysteresis(after)
      /\ ~after.attached
      /\ after.scheduled_flush_id = NoFlush
  <2> HIDE DEF gone
  <2>1. /\ Cancelled(gone) \in OutputState
        /\ ~Cancelled(gone).attached
        /\ Cancelled(gone).scheduled_flush_id = NoFlush
    BY <1>1, ScheduledTyped
  <2> QED BY <2>1, FlowUpdated
<1>3. detach(s) = [st |-> after, todo |-> FlowChange(s, after)]
  BY DEF detach
<1> HIDE DEF gone, after
<1> QED BY <1>2, <1>3, FlowChangeTyped DEF GoodResult, KeepsPromise

(* close empties the queue.                                                 *)
LEMMA CloseSection ==
    ASSUME NEW s \in OutputState
    PROVE  GoodResult(close(s)) /\ KeepsPromise(s, close(s))
<1>1. Cancelled(s) \in OutputState /\ Cancelled(s).scheduled_flush_id = NoFlush
  BY ScheduledTyped
<1> QED BY <1>1, FlushAll DEF close, KeepsPromise

(* flush_pending owes a reschedule for what it leaves queued.               *)
LEMMA FlushPendingSection ==
    ASSUME NEW s \in OutputState, Hysteresis(s)
    PROVE  LET r == flush_pending(s)
           IN  /\ GoodResult(r)
               /\ r.st.scheduled_flush_id \in {NoFlush, s.scheduled_flush_id}
               /\ r.st.attached /\ r.st.pending # <<>> => Reschedule \in Elements(r.todo)
<1>1. CASE s.attached
  <2>1. Cancelled(s) \in OutputState /\ Cancelled(s).scheduled_flush_id = NoFlush
    BY ScheduledTyped
  <2>2. flush_pending(s) = flush_from_state(s, Cancelled(s))
    BY <1>1 DEF flush_pending
  <2> QED BY <2>1, <2>2, FlushFromState
<1>2. CASE ~s.attached
  <2>1. flush_pending(s) = [st |-> s, todo |-> <<>>]
    BY <1>2 DEF flush_pending
  <2> QED BY <1>2, <2>1 DEF GoodResult
<1> QED BY <1>1, <1>2

(* Rescheduling leaves a scheduled flush with its timer, or no need.        *)
LEMMA RescheduleSection ==
    ASSUME NEW s \in OutputState, Hysteresis(s)
    PROVE  LET r == reschedule(s)
           IN  /\ GoodResult(r)
               /\ \/ r.st.scheduled_flush_id = s.scheduled_flush_id
                  \/ Spawn(r.st.scheduled_flush_id) \in Elements(r.todo)
               /\ r.st.attached /\ r.st.pending # <<>> => r.st.scheduled_flush_id # NoFlush
<1>1. CASE s.attached /\ s.pending # <<>> /\ s.scheduled_flush_id = NoFlush
  <2> DEFINE n == s.next_flush_id + 1
  <2>1. n \in Nat /\ n # NoFlush
    BY DEF OutputState, NoFlush
  <2>2. reschedule(s) = [st |-> Scheduled(s), todo |-> <<Spawn(n)>>]
    BY <1>1 DEF reschedule
  <2>3. Scheduled(s) \in OutputState /\ Hysteresis(Scheduled(s))
    BY ScheduledTyped
  <2>4. Scheduled(s).scheduled_flush_id = n
    BY ScheduledTyped
  <2> HIDE DEF n
  <2>5. Spawn(n) \in Effects
    BY <2>1, EffectsTyped
  <2>6. <<Spawn(n)>> \in Seq(Effects) /\ Spawn(n) \in Elements(<<Spawn(n)>>)
    BY <2>5 DEF Elements
  <2> QED BY <2>1, <2>2, <2>3, <2>4, <2>6 DEF GoodResult
<1>2. CASE ~(s.attached /\ s.pending # <<>> /\ s.scheduled_flush_id = NoFlush)
  <2>1. reschedule(s) = [st |-> s, todo |-> <<>>]
    BY <1>2 DEF reschedule
  <2> QED BY <1>2, <2>1 DEF GoodResult
<1> QED BY <1>1, <1>2

(* A timer that fires uses up its identifier.                               *)
LEMMA TimerSection ==
    ASSUME NEW s \in OutputState, Hysteresis(s), NEW id
    PROVE  LET r == flush_if_scheduled(s, id)
           IN  /\ GoodResult(r)
               /\ KeepsPromise(s, r)
               /\ \/ r.st.scheduled_flush_id = NoFlush
                  \/ /\ r.st.scheduled_flush_id = s.scheduled_flush_id
                     /\ s.scheduled_flush_id # id
<1> DEFINE taken == [s EXCEPT !.scheduled_flush_id = NoFlush]
<1>1. /\ taken \in OutputState
      /\ Hysteresis(taken)
      /\ taken.scheduled_flush_id = NoFlush
      /\ taken.attached = s.attached
  BY DEF OutputState, NoFlush, Hysteresis, Backlog
<1>2. CASE s.scheduled_flush_id # id
  <2>1. flush_if_scheduled(s, id) = [st |-> s, todo |-> <<>>]
    BY <1>2 DEF flush_if_scheduled
  <2> QED BY <1>2, <2>1 DEF GoodResult, KeepsPromise
<1>3. CASE s.scheduled_flush_id = id /\ ~s.attached
  <2>1. flush_if_scheduled(s, id) = [st |-> taken, todo |-> <<>>]
    BY <1>3 DEF flush_if_scheduled
  <2> HIDE DEF taken
  <2> QED BY <1>1, <1>3, <2>1 DEF GoodResult, KeepsPromise
<1>4. CASE s.scheduled_flush_id = id /\ s.attached
  <2>1. flush_if_scheduled(s, id) = flush_from_state(s, taken)
    BY <1>4 DEF flush_if_scheduled
  <2> HIDE DEF taken
  <2> QED BY <1>1, <2>1, FlushFromState DEF KeepsPromise
<1> QED BY <1>2, <1>3, <1>4 DEF OutputState

(* ack schedules a flush for queued output that has none.                   *)
LEMMA AckSection ==
    ASSUME NEW s \in OutputState, NEW bytes \in Nat
    PROVE  GoodResult(ack(s, bytes)) /\ KeepsPromise(s, ack(s, bytes))
<1> DEFINE left   == IF s.unacked_bytes <= bytes THEN 0 ELSE s.unacked_bytes - bytes
           flowed == update_flow_state([s EXCEPT !.unacked_bytes = left])
           soon   == /\ flowed.attached
                     /\ flowed.pending # <<>>
                     /\ flowed.scheduled_flush_id = NoFlush
           after  == IF soon THEN Scheduled(flowed) ELSE flowed
           a == FlowChange(s, after)
           b == When(soon, Spawn(after.next_flush_id))
<1>1. left \in Nat
  BY DEF OutputState
<1>2. ack(s, bytes) = [st |-> after, todo |-> a \o b]
  BY DEF ack
<1> HIDE DEF left
<1>3. /\ flowed \in OutputState
      /\ Hysteresis(flowed)
      /\ flowed.attached = s.attached
      /\ flowed.pending = s.pending
      /\ flowed.scheduled_flush_id = s.scheduled_flush_id
  <2> DEFINE fewer == [s EXCEPT !.unacked_bytes = left]
  <2>1. /\ fewer \in OutputState
        /\ fewer.attached = s.attached
        /\ fewer.pending = s.pending
        /\ fewer.scheduled_flush_id = s.scheduled_flush_id
    BY <1>1 DEF OutputState
  <2> HIDE DEF fewer
  <2>2. LET u == update_flow_state(fewer)
        IN  /\ u \in OutputState
            /\ Hysteresis(u)
            /\ u.attached = s.attached
            /\ u.pending = s.pending
            /\ u.scheduled_flush_id = s.scheduled_flush_id
    BY <2>1, FlowUpdated
  <2> QED BY <2>2 DEF fewer
<1> HIDE DEF flowed
<1>4. /\ after \in OutputState
      /\ Hysteresis(after)
      /\ after.attached = s.attached
      /\ after.pending = s.pending
      /\ soon => /\ after.scheduled_flush_id = after.next_flush_id
                 /\ after.scheduled_flush_id # NoFlush
      /\ ~soon => after.scheduled_flush_id = s.scheduled_flush_id
  <2>1. Scheduled(flowed).scheduled_flush_id # NoFlush
    BY <1>3, ScheduledTyped
  <2> QED BY <1>3, <2>1, ScheduledTyped
<1>5. soon \in BOOLEAN
  BY <1>3 DEF OutputState
<1>6. ~soon => ~(s.attached /\ s.pending # <<>> /\ s.scheduled_flush_id = NoFlush)
  BY <1>3
<1> HIDE DEF soon, after
<1>7. a \in Seq(Effects)
  BY <1>4, FlowChangeTyped
<1>8. /\ b \in Seq(Effects)
      /\ soon => Spawn(after.next_flush_id) \in Elements(b)
  <2>1. Spawn(after.next_flush_id) \in Effects
    BY <1>4, EffectsTyped DEF OutputState
  <2> QED BY <1>5, <2>1, WhenElements
<1> HIDE DEF a, b
<1>9. /\ a \o b \in Seq(Effects)
      /\ Elements(a \o b) = Elements(a) \cup Elements(b)
  BY <1>7, <1>8, ConcatElements
<1> QED BY <1>2, <1>4, <1>6, <1>8, <1>9 DEF GoodResult, KeepsPromise

(* push_owned flushes now, schedules a flush, or finds one promised.        *)
LEMMA PushSection ==
    ASSUME NEW s \in OutputState, NEW text \in Seq(Nat)
    PROVE  GoodResult(push_owned(s, text)) /\ KeepsPromise(s, push_owned(s, text))
<1> DEFINE queued == [s EXCEPT !.pending = s.pending \o text]
           flowed == update_flow_state(queued)
           marked == IF overflows(flowed)
                     THEN [flowed EXCEPT !.catastrophic_close_sent = TRUE]
                     ELSE flowed
           now    == marked.attached /\ Len(marked.pending) >= batch_limit(marked)
           soon   == /\ ~now
                     /\ marked.attached
                     /\ s.pending = <<>>
                     /\ marked.scheduled_flush_id = NoFlush
           after  == CASE now  -> Cancelled(marked)
                       [] soon -> Scheduled(marked)
                       [] OTHER -> marked
           a == FlowChange(s, after)
           b == When(overflows(flowed), Send(Close))
           c == When(soon, Spawn(after.next_flush_id))
           d == When(now, FlushPending)
<1>1. push_owned(s, text) = [st |-> after, todo |-> a \o b \o c \o d]
  BY DEF push_owned
<1>2. /\ queued \in OutputState
      /\ queued.attached = s.attached
      /\ queued.scheduled_flush_id = s.scheduled_flush_id
  <2>1. s.pending \o text \in Seq(Nat)
    BY DEF OutputState
  <2> QED BY <2>1 DEF OutputState
<1> HIDE DEF queued
<1>3. /\ flowed \in OutputState
      /\ Hysteresis(flowed)
      /\ flowed.attached = s.attached
      /\ flowed.scheduled_flush_id = s.scheduled_flush_id
  BY <1>2, FlowUpdated
<1> HIDE DEF flowed
<1>4. /\ marked \in OutputState
      /\ Hysteresis(marked)
      /\ marked.attached = s.attached
      /\ marked.scheduled_flush_id = s.scheduled_flush_id
  <2>1. CASE overflows(flowed)
    <3> DEFINE m == [flowed EXCEPT !.catastrophic_close_sent = TRUE]
    <3>1. /\ m \in OutputState
          /\ m.attached = flowed.attached
          /\ m.scheduled_flush_id = flowed.scheduled_flush_id
          /\ m.flow_paused = flowed.flow_paused
          /\ Backlog(m) = Backlog(flowed)
      BY <1>3 DEF OutputState, Backlog
    <3>2. marked = m
      BY <2>1
    <3> HIDE DEF m
    <3> QED BY <1>3, <3>1, <3>2 DEF Hysteresis
  <2>2. CASE ~overflows(flowed)
    BY <1>3, <2>2
  <2> QED BY <2>1, <2>2
<1> HIDE DEF marked
<1>5. now \in BOOLEAN /\ soon \in BOOLEAN /\ ~(now /\ soon)
  <2>1. now \in BOOLEAN
    BY <1>4 DEF OutputState
  <2> QED BY <2>1
<1>6. /\ now => after = Cancelled(marked)
      /\ soon => after = Scheduled(marked)
      /\ ~now /\ ~soon => after = marked
  <2>1. CASE now
    BY <1>5, <2>1
  <2>2. CASE soon
    BY <1>5, <2>2
  <2>3. CASE ~now /\ ~soon
    BY <2>3
  <2> QED BY <1>5, <2>1, <2>2, <2>3
<1>7. ~now /\ ~soon /\ marked.attached => s.pending # <<>> \/ marked.scheduled_flush_id # NoFlush
  OBVIOUS
<1> HIDE DEF now, soon, after
<1>8. /\ after \in OutputState
      /\ Hysteresis(after)
      /\ after.attached = s.attached
      /\ now => after.scheduled_flush_id = NoFlush
      /\ soon => /\ after.scheduled_flush_id = after.next_flush_id
                 /\ after.scheduled_flush_id # NoFlush
      /\ ~now /\ ~soon => after.scheduled_flush_id = s.scheduled_flush_id
  <2>1. Scheduled(marked).scheduled_flush_id # NoFlush
    BY <1>4, ScheduledTyped
  <2> QED BY <1>4, <1>5, <1>6, <2>1, ScheduledTyped
<1>9. a \in Seq(Effects)
  BY <1>8, FlowChangeTyped
<1>10. b \in Seq(Effects)
  <2>1. overflows(flowed) \in BOOLEAN
    BY DEF overflows
  <2> QED BY <2>1, EffectsTyped, WhenElements
<1>11. /\ c \in Seq(Effects)
       /\ soon => Spawn(after.next_flush_id) \in Elements(c)
  <2>1. Spawn(after.next_flush_id) \in Effects
    BY <1>8, EffectsTyped DEF OutputState
  <2> QED BY <1>5, <2>1, WhenElements
<1>12. /\ d \in Seq(Effects)
       /\ now => FlushPending \in Elements(d)
  BY <1>5, EffectsTyped, WhenElements
<1> HIDE DEF a, b, c, d
<1>13. LET all == a \o b \o c \o d
       IN  /\ all \in Seq(Effects)
           /\ Elements(c) \subseteq Elements(all)
           /\ Elements(d) \subseteq Elements(all)
  <2> DEFINE ab == a \o b
             abc == ab \o c
  <2>1. ab \in Seq(Effects)
    BY <1>9, <1>10, ConcatElements
  <2> HIDE DEF ab
  <2>2. abc \in Seq(Effects) /\ Elements(c) \subseteq Elements(abc)
    BY <1>11, <2>1, ConcatElements
  <2> HIDE DEF abc
  <2>3. /\ abc \o d \in Seq(Effects)
        /\ Elements(abc \o d) = Elements(abc) \cup Elements(d)
    BY <1>12, <2>2, ConcatElements
  <2>4. a \o b \o c \o d = abc \o d
    BY DEF ab, abc
  <2> QED BY <2>2, <2>3, <2>4
<1> DEFINE all == a \o b \o c \o d
<1> DEFINE r == push_owned(s, text)
<1>14. r.st = after /\ r.todo = all
  BY <1>1
<1>15. /\ all \in Seq(Effects)
       /\ Elements(c) \subseteq Elements(all)
       /\ Elements(d) \subseteq Elements(all)
  BY <1>13
<1> HIDE DEF all, r
<1>16. GoodResult(r)
  BY <1>8, <1>14, <1>15 DEF GoodResult
<1>17. ASSUME now PROVE KeepsPromise(s, r)
  <2>1. after.scheduled_flush_id = NoFlush /\ FlushPending \in Elements(all)
    BY <1>8, <1>12, <1>15, <1>17
  <2> QED BY <1>14, <2>1 DEF KeepsPromise
<1>18. ASSUME soon PROVE KeepsPromise(s, r)
  <2>1. /\ after.scheduled_flush_id # NoFlush
        /\ Spawn(after.scheduled_flush_id) \in Elements(all)
    BY <1>8, <1>11, <1>15, <1>18
  <2> QED BY <1>14, <2>1 DEF KeepsPromise
<1>19. ASSUME ~now, ~soon PROVE KeepsPromise(s, r)
  <2>1. /\ after.scheduled_flush_id = s.scheduled_flush_id
        /\ after.attached = s.attached
        /\ after.attached => s.pending # <<>> \/ after.scheduled_flush_id # NoFlush
    BY <1>4, <1>7, <1>8, <1>19
  <2> QED BY <1>14, <2>1 DEF KeepsPromise
<1> QED BY <1>5, <1>16, <1>17, <1>18, <1>19 DEF r

-----------------------------------------------------------------------------
(* The inductive invariant.  FlushUnderWay alone is not inductive: output   *)
(* may be pushed onto an empty queue while an identifier is still           *)
(* scheduled, so every scheduled identifier must have its timer.            *)

TimerKnown ==
    st.scheduled_flush_id # NoFlush =>
        st.scheduled_flush_id \in timers \/ Spawn(st.scheduled_flush_id) \in Owed

FlushOwed ==
    st.attached /\ st.pending # <<>> =>
        \/ st.scheduled_flush_id # NoFlush
        \/ {FlushPending, Reschedule} \cap Owed # {}

IInv == TypeOK /\ WatermarksRespected /\ TimerKnown /\ FlushOwed

Jobs == [thread : Loops \cup Nat, todo : Seq(Effects) \ {<<>>}]

(* What is owed by the one job a section leaves behind.                     *)
LEMMA JobElements ==
    ASSUME NEW t \in Loops \cup Nat, NEW e \in Seq(Effects)
    PROVE  /\ Job(t, e) \subseteq Jobs
           /\ UNION {Elements(j.todo) : j \in Job(t, e)} = Elements(e)
<1>1. CASE e = <<>>
  <2>1. Job(t, e) = {}
    BY <1>1 DEF Job
  <2>2. Elements(e) = {}
    BY <1>1 DEF Elements
  <2> QED BY <2>1, <2>2
<1>2. CASE e # <<>>
  <2>1. Job(t, e) = {[thread |-> t, todo |-> e]}
    BY <1>2 DEF Job
  <2>2. [thread |-> t, todo |-> e] \in Jobs
    BY <1>2 DEF Jobs
  <2> QED BY <2>1, <2>2
<1> QED BY <1>1, <1>2

(* A section adds what it decided to what is owed.                          *)
LEMMA SectionOwed ==
    ASSUME NEW t \in Loops \cup Nat, NEW r, GoodResult(r), TypeOK, Section(t, r)
    PROVE  /\ jobs' \subseteq Jobs
           /\ Owed' = Owed \cup Elements(r.todo)
           /\ st' = r.st
<1>1. /\ Job(t, r.todo) \subseteq Jobs
      /\ UNION {Elements(j.todo) : j \in Job(t, r.todo)} = Elements(r.todo)
  BY JobElements DEF GoodResult
<1>2. jobs' = jobs \cup Job(t, r.todo) /\ st' = r.st
  BY DEF Section
<1>3. jobs \subseteq Jobs
  BY DEF TypeOK, Jobs
<1> QED BY <1>1, <1>2, <1>3 DEF Owed

(* Performing an effect removes at most that one from what is owed.         *)
LEMMA StepOwed ==
    ASSUME NEW j \in jobs, NEW op, NEW more \in Seq(Effects), TypeOK, Step(j, op, more)
    PROVE  /\ jobs' \subseteq Jobs
           /\ Head(j.todo) \in Effects
           /\ Head(j.todo).op = op
           /\ Owed \ {Head(j.todo)} \subseteq Owed'
           /\ Elements(more) \subseteq Owed'
<1>1. /\ jobs \subseteq Jobs
      /\ j.thread \in Loops \cup Nat
      /\ j.todo \in Seq(Effects)
      /\ j.todo # <<>>
  BY DEF TypeOK, Jobs
<1>2. /\ Tail(j.todo) \in Seq(Effects)
      /\ Head(j.todo) \in Effects
      /\ Elements(j.todo) \subseteq {Head(j.todo)} \cup Elements(Tail(j.todo))
  BY <1>1, TailElements
<1> DEFINE e == more \o Tail(j.todo)
<1>3. e \in Seq(Effects) /\ Elements(e) = Elements(more) \cup Elements(Tail(j.todo))
  BY <1>2, ConcatElements, ZenonT(60)
<1>4. jobs' = (jobs \ {j}) \cup Job(j.thread, e) /\ Head(j.todo).op = op
  BY DEF Step
<1> HIDE DEF e
<1>5. /\ Job(j.thread, e) \subseteq Jobs
      /\ UNION {Elements(k.todo) : k \in Job(j.thread, e)} = Elements(e)
  BY <1>1, <1>3, JobElements
<1>6. ASSUME NEW x \in Owed \ {Head(j.todo)} PROVE x \in Owed'
  <2>1. PICK k \in jobs : x \in Elements(k.todo)
    BY DEF Owed
  <2>2. CASE k = j
    <3>1. x \in Elements(e)
      BY <1>2, <1>3, <2>1, <2>2
    <3>2. PICK l \in Job(j.thread, e) : x \in Elements(l.todo)
      BY <1>5, <3>1
    <3> QED BY <1>4, <3>2 DEF Owed
  <2>3. CASE k # j
    <3>1. k \in jobs'
      BY <1>4, <2>3
    <3> QED BY <2>1, <3>1 DEF Owed
  <2> QED BY <2>2, <2>3
<1>7. ASSUME NEW x \in Elements(more) PROVE x \in Owed'
  <2>1. PICK l \in Job(j.thread, e) : x \in Elements(l.todo)
    BY <1>3, <1>5
  <2> QED BY <1>4, <2>1 DEF Owed
<1>8. jobs' \subseteq Jobs
  BY <1>1, <1>4, <1>5
<1> QED BY <1>2, <1>4, <1>6, <1>7, <1>8

(* The part of the invariant about the coalescer and the threads survives   *)
(* a section that leaves the timers alone.                                  *)
LEMMA SectionKeeps ==
    ASSUME IInv, NEW t \in Loops \cup Nat, NEW r,
           GoodResult(r), KeepsPromise(st, r), Section(t, r), timers' = timers
    PROVE  /\ st' \in OutputState
           /\ jobs' \subseteq Jobs
           /\ WatermarksRespected'
           /\ TimerKnown'
           /\ FlushOwed'
<1>1. /\ jobs' \subseteq Jobs
      /\ Owed' = Owed \cup Elements(r.todo)
      /\ st' = r.st
  BY SectionOwed DEF IInv
<1>2. st' \in OutputState /\ WatermarksRespected'
  BY <1>1 DEF GoodResult, WatermarksRespected, Hysteresis, Backlog
<1>3. TimerKnown'
  BY <1>1 DEF IInv, TimerKnown, KeepsPromise
<1>4. FlushOwed'
  BY <1>1 DEF IInv, FlushOwed, KeepsPromise
<1> QED BY <1>1, <1>2, <1>3, <1>4

-----------------------------------------------------------------------------
(* The initial state and every step.                                        *)

(* The invariant holds when the session starts.                             *)
LEMMA InitIInv == Init => IInv
<1> SUFFICES ASSUME Init PROVE IInv
  OBVIOUS
<1>1. TypeOK
  <2>1. InitOutputState \in OutputState
    BY DEF InitOutputState, OutputState, NoFlush
  <2>2. /\ st \in OutputState
        /\ jobs = {} /\ timers = {}
        /\ cmd_rx = <<>> /\ emitted = <<>>
        /\ output_paused = FALSE /\ gate = FALSE
        /\ loop = "running" /\ source = "open"
        /\ produced = 0 /\ acked = 0 /\ requests = 0
    BY <2>1 DEF Init
  <2>3. cmd_rx \in Seq(Commands) /\ emitted \in Seq(Nat)
    BY <2>2
  <2> QED BY <2>2, <2>3 DEF TypeOK
<1>2. WatermarksRespected
  BY LimitsAssumption DEF Init, WatermarksRespected, Hysteresis, Backlog, InitOutputState
<1>3. TimerKnown /\ FlushOwed
  BY DEF Init, TimerKnown, FlushOwed, InitOutputState
<1> QED BY <1>1, <1>2, <1>3 DEF IInv

(* Every command the model sends is a command of the channel.               *)
LEMMA CommandTypes ==
    /\ \A c \in Commands : c.kind = "AckOutput" => c.bytes \in Nat
    /\ {PauseOutput, ResumeOutput, Close} \subseteq Commands
    /\ Requests \subseteq Commands
    /\ \A n \in Nat : AckOutput(n) \in Commands
  BY DEF Commands, Requests, Attach, DetachRenderer, PauseOutput, ResumeOutput,
         Close, AckOutput

(* The operand of each kind of effect has its type.                         *)
LEMMA EffectFields ==
    ASSUME NEW e \in Effects
    PROVE  /\ e.op = "emit" => e.data \in Seq(Nat)
           /\ e.op = "send" => e.cmd \in {PauseOutput, ResumeOutput, Close}
           /\ e.op = "spawn" => e.id \in Nat /\ e = Spawn(e.id)
           /\ e = FlushPending => e.op = "flush_pending"
           /\ e = Reschedule => e.op = "reschedule"
           /\ \A id : e = Spawn(id) => e.op = "spawn"
  BY DEF Effects, FlushPending, Reschedule, Spawn

(* The invariant survives a step that leaves the coalescer, the threads     *)
(* and the timers alone.                                                    *)
LEMMA QuietKeeps ==
    ASSUME IInv, UNCHANGED <<st, jobs, timers>>
    PROVE  WatermarksRespected' /\ TimerKnown' /\ FlushOwed'
<1>1. Owed' = Owed
  BY DEF Owed
<1> QED BY <1>1 DEF IInv, WatermarksRespected, Hysteresis, Backlog, TimerKnown, FlushOwed

(* The source loop.                                                         *)
LEMMA SourceStep ==
    ASSUME IInv,
           PassGate \/ (\E n \in 1..ReadMax : ReadSource(n)) \/ SourceEnds \/ ReaderDone
    PROVE  IInv'
<1>1. CASE PassGate \/ ReaderDone
  <2>1. UNCHANGED <<st, jobs, timers>> /\ TypeOK'
    BY <1>1 DEF PassGate, ReaderDone, IInv, TypeOK
  <2> QED BY <2>1, QuietKeeps DEF IInv
<1>2. CASE \E n \in 1..ReadMax : ReadSource(n)
  <2> PICK n \in 1..ReadMax : ReadSource(n)
    BY <1>2
  <2> DEFINE text == [i \in 1..n |-> produced + i]
             r == push_owned(st, text)
  <2>1. st \in OutputState /\ produced \in Nat /\ n \in Nat
    BY FlowAssumption DEF IInv, TypeOK
  <2>2. text \in Seq(Nat)
    BY <2>1
  <2>3. Section(Reader, r) /\ timers' = timers
    BY DEF ReadSource
  <2>4. GoodResult(r) /\ KeepsPromise(st, r)
    BY <2>1, <2>2, PushSection
  <2> HIDE DEF text, r
  <2>5. /\ st' \in OutputState
        /\ jobs' \subseteq Jobs
        /\ WatermarksRespected' /\ TimerKnown' /\ FlushOwed'
    BY <2>3, <2>4, SectionKeeps DEF Loops
  <2>6. /\ produced' = produced + n
        /\ gate' = FALSE
        /\ UNCHANGED <<timers, cmd_rx, output_paused, loop, source,
                       emitted, acked, requests>>
    BY DEF ReadSource
  <2>7. produced' \in Nat
    BY <2>1, <2>6
  <2>8. TypeOK'
    BY <2>5, <2>6, <2>7 DEF IInv, TypeOK, Jobs
  <2> QED BY <2>5, <2>8 DEF IInv
<1>3. CASE SourceEnds
  <2>1. CASE SingleTask
    <3>1. UNCHANGED <<st, jobs, timers>> /\ TypeOK'
      BY <1>3, <2>1 DEF SourceEnds, IInv, TypeOK
    <3> QED BY <3>1, QuietKeeps DEF IInv
  <2>2. CASE ~SingleTask
    <3>1. Section(Reader, close(st)) /\ timers' = timers
      BY <1>3, <2>2 DEF SourceEnds
    <3>2. GoodResult(close(st)) /\ KeepsPromise(st, close(st))
      BY CloseSection DEF IInv, TypeOK
    <3>3. /\ st' \in OutputState
          /\ jobs' \subseteq Jobs
          /\ WatermarksRespected' /\ TimerKnown' /\ FlushOwed'
      BY <3>1, <3>2, SectionKeeps DEF Loops
    <3>4. TypeOK'
      BY <1>3, <2>2, <3>3 DEF SourceEnds, IInv, TypeOK, Jobs
    <3> QED BY <3>3, <3>4 DEF IInv
  <2> QED BY <2>1, <2>2
<1> QED BY <1>1, <1>2, <1>3

(* The command loop.                                                        *)
LEMMA TakeTyped ==
    ASSUME TypeOK, NEW k, Take(k)
    PROVE  cmd_rx' \in Seq(Commands) /\ Head(cmd_rx) \in Commands /\ Head(cmd_rx).kind = k
  BY DEF TypeOK, Take

(* Every command the loop handles preserves the invariant.                  *)
LEMMA CommandStep ==
    ASSUME IInv, HandleCommand
    PROVE  IInv'
<1>t. st \in OutputState /\ Command \in Loops \cup Nat
  BY DEF IInv, TypeOK, Loops
<1>1. ASSUME NEW r, GoodResult(r), KeepsPromise(st, r), Section(Command, r),
             timers' = timers, cmd_rx' \in Seq(Commands),
             loop' \in {"running", "exiting", "closed"},
             UNCHANGED <<output_paused, gate, source, produced, emitted, acked, requests>>
      PROVE  IInv'
  <2>1. /\ st' \in OutputState
        /\ jobs' \subseteq Jobs
        /\ WatermarksRespected' /\ TimerKnown' /\ FlushOwed'
    BY <1>1, <1>t, SectionKeeps
  <2>2. TypeOK'
    BY <1>1, <2>1 DEF IInv, TypeOK, Jobs
  <2> QED BY <2>1, <2>2 DEF IInv
<1>2. CASE HandleAttach
  <2>1. GoodResult(attach(st)) /\ KeepsPromise(st, attach(st))
    BY <1>t, AttachSection
  <2>2. cmd_rx' \in Seq(Commands)
    BY <1>2, TakeTyped DEF HandleAttach, IInv
  <2>3. loop' \in {"running", "exiting", "closed"}
    BY <1>2 DEF HandleAttach, IInv, TypeOK
  <2> QED BY <1>1, <1>2, <2>1, <2>2, <2>3 DEF HandleAttach
<1>3. CASE HandleDetach
  <2>1. GoodResult(detach(st)) /\ KeepsPromise(st, detach(st))
    BY <1>t, DetachSection
  <2>2. cmd_rx' \in Seq(Commands)
    BY <1>3, TakeTyped DEF HandleDetach, IInv
  <2>3. loop' \in {"running", "exiting", "closed"}
    BY <1>3 DEF HandleDetach, IInv, TypeOK
  <2> QED BY <1>1, <1>3, <2>1, <2>2, <2>3 DEF HandleDetach
<1>4. CASE HandleAck
  <2> DEFINE r == ack(st, Head(cmd_rx).bytes)
  <2>1. cmd_rx' \in Seq(Commands) /\ Head(cmd_rx).bytes \in Nat
    BY <1>4, TakeTyped, CommandTypes DEF HandleAck, IInv
  <2>2. GoodResult(r) /\ KeepsPromise(st, r)
    BY <1>t, <2>1, AckSection
  <2>3. loop' \in {"running", "exiting", "closed"}
    BY <1>4 DEF HandleAck, IInv, TypeOK
  <2> QED BY <1>1, <1>4, <2>1, <2>2, <2>3 DEF HandleAck
<1>5. CASE CloseOutput
  <2>1. GoodResult(close(st)) /\ KeepsPromise(st, close(st))
    BY <1>t, CloseSection
  <2>2. cmd_rx' \in Seq(Commands)
    BY <1>5 DEF CloseOutput, IInv, TypeOK
  <2>3. loop' \in {"running", "exiting", "closed"}
    BY <1>5 DEF CloseOutput
  <2> QED BY <1>1, <1>5, <2>1, <2>2, <2>3 DEF CloseOutput
<1>6. CASE HandlePause \/ HandleResume \/ HandleClose \/ NoticeReaderDone
  <2>1. UNCHANGED <<st, jobs, timers>>
    BY <1>6 DEF HandlePause, HandleResume, HandleClose, NoticeReaderDone
  <2>2. cmd_rx' \in Seq(Commands)
    BY <1>6, TakeTyped DEF HandlePause, HandleResume, HandleClose, NoticeReaderDone, IInv, TypeOK
  <2>3. TypeOK'
    BY <1>6, <2>2 DEF HandlePause, HandleResume, HandleClose, NoticeReaderDone, IInv, TypeOK
  <2> QED BY <2>1, <2>3, QuietKeeps DEF IInv
<1> QED BY <1>2, <1>3, <1>4, <1>5, <1>6 DEF HandleCommand

(* A timer fires.                                                           *)
LEMMA TimerStep ==
    ASSUME IInv, NEW id \in timers, FireTimer(id)
    PROVE  IInv'
<1> DEFINE r == flush_if_scheduled(st, id)
<1>1. st \in OutputState /\ Hysteresis(st) /\ id \in Loops \cup Nat
  BY DEF IInv, TypeOK, WatermarksRespected
<1>2. /\ GoodResult(r)
      /\ KeepsPromise(st, r)
      /\ \/ r.st.scheduled_flush_id = NoFlush
         \/ /\ r.st.scheduled_flush_id = st.scheduled_flush_id
            /\ st.scheduled_flush_id # id
  BY <1>1, TimerSection
<1>3. Section(id, r) /\ timers' = timers \ {id}
  BY DEF FireTimer
<1> HIDE DEF r
<1>4. /\ jobs' \subseteq Jobs
      /\ Owed' = Owed \cup Elements(r.todo)
      /\ st' = r.st
  BY <1>1, <1>2, <1>3, SectionOwed DEF IInv
<1>5. TimerKnown'
  BY <1>2, <1>3, <1>4 DEF IInv, TimerKnown
<1>6. FlushOwed'
  BY <1>2, <1>4 DEF IInv, FlushOwed, KeepsPromise
<1>7. WatermarksRespected'
  BY <1>2, <1>4 DEF GoodResult, WatermarksRespected, Hysteresis, Backlog
<1>8. TypeOK'
  BY <1>2, <1>3, <1>4 DEF FireTimer, GoodResult, IInv, TypeOK, Jobs
<1> QED BY <1>5, <1>6, <1>7, <1>8 DEF IInv

(* A thread performs an effect.                                             *)
LEMMA PerformStep ==
    ASSUME IInv, NEW j \in jobs, Perform(j)
    PROVE  IInv'
<1>t. TypeOK /\ st \in OutputState /\ Hysteresis(st) /\ <<>> \in Seq(Effects)
  BY DEF IInv, TypeOK, WatermarksRespected
<1>e. Elements(<<>>) = {}
  BY DEF Elements
<1>1. CASE CallSink(j) \/ SendCommand(j)
  <2>1. PICK op \in {"emit", "send"} : Step(j, op, <<>>)
    BY <1>1 DEF CallSink, SendCommand
  <2>2. /\ jobs' \subseteq Jobs
        /\ Head(j.todo) \in Effects
        /\ Head(j.todo).op = op
        /\ Owed \ {Head(j.todo)} \subseteq Owed'
    BY <1>t, <2>1, StepOwed
  <2>3. st' = st /\ timers' = timers
    BY <1>1 DEF CallSink, SendCommand
  <2>4. TimerKnown' /\ FlushOwed' /\ WatermarksRespected'
    <3>1. \A id : Spawn(id) # Head(j.todo)
      BY <2>1, <2>2, EffectFields
    <3>2. FlushPending # Head(j.todo) /\ Reschedule # Head(j.todo)
      BY <2>1, <2>2, EffectFields
    <3>3. TimerKnown'
      BY <2>2, <2>3, <3>1 DEF IInv, TimerKnown
    <3>4. FlushOwed'
      BY <2>2, <2>3, <3>2 DEF IInv, FlushOwed
    <3> QED BY <1>t, <2>3, <3>3, <3>4 DEF WatermarksRespected, Hysteresis, Backlog
  <2>5. emitted' \in Seq(Nat) /\ cmd_rx' \in Seq(Commands)
    <3>1. CASE CallSink(j)
      <4>1. Head(j.todo).data \in Seq(Nat)
        BY <2>2, <3>1, EffectFields DEF CallSink, Step
      <4> QED BY <1>t, <3>1, <4>1 DEF CallSink, TypeOK
    <3>2. CASE SendCommand(j)
      <4>1. Head(j.todo).cmd \in Commands
        BY <2>2, <3>2, EffectFields, CommandTypes DEF SendCommand, Step
      <4> QED BY <1>t, <3>2, <4>1 DEF SendCommand, TypeOK, Delivered
    <3> QED BY <1>1, <3>1, <3>2
  <2>6. UNCHANGED <<output_paused, gate, loop, source, produced, acked, requests>>
    BY <1>1 DEF CallSink, SendCommand
  <2>7. TypeOK'
    BY <1>t, <2>2, <2>3, <2>5, <2>6 DEF TypeOK, Jobs
  <2> QED BY <2>4, <2>7 DEF IInv
<1>2. CASE ScheduleFlush(j)
  <2>1. /\ Step(j, "spawn", <<>>)
        /\ st' = st
        /\ timers' = timers \cup {Head(j.todo).id}
        /\ UNCHANGED <<cmd_rx, output_paused, gate, loop, source,
                       produced, emitted, acked, requests>>
    BY <1>2 DEF ScheduleFlush
  <2>2. /\ jobs' \subseteq Jobs
        /\ Head(j.todo) \in Effects
        /\ Head(j.todo).op = "spawn"
        /\ Owed \ {Head(j.todo)} \subseteq Owed'
    BY <1>t, <2>1, StepOwed
  <2>3. /\ Head(j.todo).id \in Nat
        /\ Head(j.todo) # FlushPending
        /\ Head(j.todo) # Reschedule
    BY <2>2, EffectFields
  <2>4. \A id : Spawn(id) = Head(j.todo) => id \in timers'
    BY <2>1 DEF Spawn
  <2>5. TimerKnown'
    BY <2>1, <2>2, <2>4 DEF IInv, TimerKnown
  <2>6. FlushOwed'
    BY <2>1, <2>2, <2>3 DEF IInv, FlushOwed
  <2>7. WatermarksRespected'
    BY <1>t, <2>1 DEF WatermarksRespected, Hysteresis, Backlog
  <2>8. TypeOK'
    BY <1>t, <2>1, <2>2, <2>3 DEF TypeOK, Jobs
  <2> QED BY <2>5, <2>6, <2>7, <2>8 DEF IInv
<1>3. CASE FlushNow(j)
  <2> DEFINE r == flush_pending(st)
  <2>1. /\ GoodResult(r)
        /\ r.st.scheduled_flush_id \in {NoFlush, st.scheduled_flush_id}
        /\ r.st.attached /\ r.st.pending # <<>> => Reschedule \in Elements(r.todo)
    BY <1>t, FlushPendingSection
  <2>2. /\ Step(j, "flush_pending", r.todo)
        /\ st' = r.st
        /\ UNCHANGED <<timers, cmd_rx, output_paused, gate, loop, source,
                       produced, emitted, acked, requests>>
    BY <1>3 DEF FlushNow
  <2> HIDE DEF r
  <2>3. /\ jobs' \subseteq Jobs
        /\ Head(j.todo) \in Effects
        /\ Head(j.todo).op = "flush_pending"
        /\ Owed \ {Head(j.todo)} \subseteq Owed'
        /\ Elements(r.todo) \subseteq Owed'
    BY <1>t, <2>1, <2>2, StepOwed DEF GoodResult
  <2>4. \A id : Spawn(id) # Head(j.todo)
    BY <2>3, EffectFields
  <2>5. TimerKnown'
    BY <2>1, <2>2, <2>3, <2>4 DEF IInv, TimerKnown
  <2>6. FlushOwed'
    BY <2>1, <2>2, <2>3 DEF FlushOwed
  <2>7. WatermarksRespected'
    BY <2>1, <2>2 DEF GoodResult, WatermarksRespected, Hysteresis, Backlog
  <2>8. TypeOK'
    BY <1>t, <2>1, <2>2, <2>3 DEF GoodResult, TypeOK, Jobs
  <2> QED BY <2>5, <2>6, <2>7, <2>8 DEF IInv
<1>4. CASE RescheduleTail(j)
  <2> DEFINE r == reschedule(st)
  <2>1. /\ GoodResult(r)
        /\ \/ r.st.scheduled_flush_id = st.scheduled_flush_id
           \/ Spawn(r.st.scheduled_flush_id) \in Elements(r.todo)
        /\ r.st.attached /\ r.st.pending # <<>> => r.st.scheduled_flush_id # NoFlush
    BY <1>t, RescheduleSection
  <2>2. /\ Step(j, "reschedule", r.todo)
        /\ st' = r.st
        /\ UNCHANGED <<timers, cmd_rx, output_paused, gate, loop, source,
                       produced, emitted, acked, requests>>
    BY <1>4 DEF RescheduleTail
  <2> HIDE DEF r
  <2>3. /\ jobs' \subseteq Jobs
        /\ Head(j.todo) \in Effects
        /\ Head(j.todo).op = "reschedule"
        /\ Owed \ {Head(j.todo)} \subseteq Owed'
        /\ Elements(r.todo) \subseteq Owed'
    BY <1>t, <2>1, <2>2, StepOwed DEF GoodResult
  <2>4. \A id : Spawn(id) # Head(j.todo)
    BY <2>3, EffectFields
  <2>5. TimerKnown'
    BY <2>1, <2>2, <2>3, <2>4 DEF IInv, TimerKnown
  <2>6. FlushOwed'
    BY <2>1, <2>2 DEF FlushOwed
  <2>7. WatermarksRespected'
    BY <2>1, <2>2 DEF GoodResult, WatermarksRespected, Hysteresis, Backlog
  <2>8. TypeOK'
    BY <1>t, <2>1, <2>2, <2>3 DEF GoodResult, TypeOK, Jobs
  <2> QED BY <2>5, <2>6, <2>7, <2>8 DEF IInv
<1> QED BY <1>1, <1>2, <1>3, <1>4 DEF Perform

(* The renderer.                                                            *)
LEMMA RendererStep ==
    ASSUME IInv, (\E cmd \in Requests : Request(cmd)) \/ RendererAck
    PROVE  IInv'
<1>1. UNCHANGED <<st, jobs, timers>>
  BY DEF Request, RendererAck
<1>2. TypeOK'
  <2>1. CASE \E cmd \in Requests : Request(cmd)
    <3>1. PICK cmd \in Requests : Request(cmd)
      BY <2>1
    <3>2. cmd_rx' \in Seq(Commands)
      BY <3>1, CommandTypes DEF Request, Delivered, IInv, TypeOK
    <3> QED BY <3>1, <3>2 DEF Request, IInv, TypeOK
  <2>2. CASE RendererAck
    <3>1. Len(emitted) - acked \in Nat
      BY <2>2 DEF RendererAck, IInv, TypeOK
    <3>2. AckOutput(Len(emitted) - acked) \in Commands
      BY <3>1, CommandTypes
    <3>3. cmd_rx' \in Seq(Commands)
      BY <2>2, <3>2 DEF RendererAck, Delivered, IInv, TypeOK
    <3> QED BY <2>2, <3>3 DEF RendererAck, IInv, TypeOK
  <2> QED BY <2>1, <2>2
<1> QED BY <1>1, <1>2, QuietKeeps DEF IInv

-----------------------------------------------------------------------------
(* IInv is inductive: it holds initially and every step of the threads, the *)
(* timers and the renderer preserves it.                                    *)
THEOREM Inductive == Spec => []IInv
<1>1. Init => IInv
  BY InitIInv
<1>2. IInv /\ [Next]_vars => IInv'
  <2> SUFFICES ASSUME IInv, [Next]_vars PROVE IInv'
    OBVIOUS
  <2>1. CASE PassGate \/ (\E n \in 1..ReadMax : ReadSource(n)) \/ SourceEnds \/ ReaderDone
    BY <2>1, SourceStep
  <2>2. CASE HandleCommand
    BY <2>2, CommandStep
  <2>3. CASE \E id \in timers : FireTimer(id)
    BY <2>3, TimerStep
  <2>4. CASE \E j \in jobs : Perform(j)
    BY <2>4, PerformStep
  <2>5. CASE (\E cmd \in Requests : Request(cmd)) \/ RendererAck
    BY <2>5, RendererStep
  <2>6. CASE UNCHANGED vars
    <3>1. UNCHANGED <<st, jobs, timers>> /\ TypeOK'
      BY <2>6 DEF vars, IInv, TypeOK
    <3> QED BY <3>1, QuietKeeps DEF IInv
  <2> QED BY <2>1, <2>2, <2>3, <2>4, <2>5, <2>6 DEF Next
<1> QED BY <1>1, <1>2, PTL DEF Spec

(* For all limits, batch sizes and thread assignments the shared state, the *)
(* command channel and the threads' effects keep their types.               *)
THEOREM TypeCorrect == Spec => []TypeOK
<1>1. IInv => TypeOK
  BY DEF IInv
<1> QED BY <1>1, Inductive, PTL

(* flow_paused follows the backlog through both watermarks: no method of    *)
(* the coalescer moves bytes without updating the flow state.               *)
THEOREM WatermarksAlways == Spec => []WatermarksRespected
<1>1. IInv => WatermarksRespected
  BY DEF IInv
<1> QED BY <1>1, Inductive, PTL

(* Output queued for an attached renderer always has a flush under way: no  *)
(* interleaving of pushes, timers, acknowledgements, detach and attach      *)
(* loses the wakeup.                                                        *)
THEOREM NoLostFlush == Spec => []FlushUnderWay
<1>1. IInv => FlushUnderWay
  BY DEF IInv, TimerKnown, FlushOwed, FlushUnderWay
<1> QED BY <1>1, Inductive, PTL
=============================================================================

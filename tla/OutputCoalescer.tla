-------------------------- MODULE OutputCoalescer --------------------------
(***************************************************************************)
(* The critical sections of SessionOutputCoalescer (core/output.rs).       *)
(*                                                                         *)
(* Every public method of the coalescer takes one mutex, changes           *)
(* OutputState, releases the mutex and only then acts on what it decided:  *)
(* it calls the sink, sends a SessionCommand, spawns a timer task, or      *)
(* takes the mutex a second time.  Here a method is an operator from       *)
(* OutputState to a pair [st, todo]: the new state, and the sequence of    *)
(* effects the calling thread still has to perform, one by one, without    *)
(* the mutex.  Module OutputFlow interleaves the threads.                  *)
(*                                                                         *)
(* Text is a sequence of one-byte characters, each named by its position   *)
(* in what the source produced; the chunks of the VecDeque are             *)
(* concatenated, because nothing but their total length is ever tested.    *)
(***************************************************************************)
EXTENDS Integers, Sequences

CONSTANTS
    NormalBatch,          \* OUTPUT_NORMAL_BATCH_BYTES
    FloodBatch,           \* OUTPUT_FLOOD_BATCH_BYTES
    HighWatermark,        \* OUTPUT_PAUSE_HIGH_WATERMARK_BYTES
    LowWatermark,         \* OUTPUT_RESUME_LOW_WATERMARK_BYTES
    CloseFlushMax,        \* OUTPUT_CLOSE_FLUSH_MAX_BYTES
    CatastrophicBacklog   \* OUTPUT_CATASTROPHIC_BACKLOG_BYTES

ASSUME LimitsAssumption ==
    /\ NormalBatch \in Nat \ {0}
    /\ FloodBatch \in Nat \ {0}
    /\ LowWatermark \in Nat
    /\ HighWatermark \in Nat
    /\ LowWatermark < HighWatermark
    /\ CloseFlushMax \in Nat
    /\ CatastrophicBacklog \in Nat
    /\ HighWatermark <= CatastrophicBacklog

NoFlush == 0              \* scheduled_flush_id = None; identifiers start at 1

OutputState ==
    [attached                : BOOLEAN,
     pending                 : Seq(Nat),
     unacked_bytes           : Nat,
     next_flush_id           : Nat,
     scheduled_flush_id      : Nat,
     flow_paused             : BOOLEAN,
     catastrophic_close_sent : BOOLEAN]

InitOutputState ==
    [attached                |-> FALSE,
     pending                 |-> <<>>,
     unacked_bytes           |-> 0,
     next_flush_id           |-> 0,
     scheduled_flush_id      |-> NoFlush,
     flow_paused             |-> FALSE,
     catastrophic_close_sent |-> FALSE]

-----------------------------------------------------------------------------
(* What a thread does after it has released the mutex.                      *)

Emit(data) == [op |-> "emit", data |-> data]    \* call the sink
Send(cmd)  == [op |-> "send", cmd |-> cmd]      \* flow_control_tx.send
Spawn(id)  == [op |-> "spawn", id |-> id]       \* schedule_flush
FlushPending == [op |-> "flush_pending"]        \* a second critical section
Reschedule   == [op |-> "reschedule"]           \* the tail of apply_flush_result

(* The SessionCommands this part of the system exchanges.                   *)
Attach         == [kind |-> "Attach"]
DetachRenderer == [kind |-> "DetachRenderer"]
PauseOutput    == [kind |-> "PauseOutput"]
ResumeOutput   == [kind |-> "ResumeOutput"]
AckOutput(n)   == [kind |-> "AckOutput", bytes |-> n]
Close          == [kind |-> "Close"]

When(condition, effect) == IF condition THEN <<effect>> ELSE <<>>

(* The elements of a sequence.                                              *)
Elements(seq) == {seq[i] : i \in DOMAIN seq}

-----------------------------------------------------------------------------
Backlog(s) == Len(s.pending) + s.unacked_bytes

(* Paused above the low watermark, running below the high one.              *)
Hysteresis(s) ==
    /\ s.flow_paused => Backlog(s) > LowWatermark
    /\ ~s.flow_paused => Backlog(s) < HighWatermark

(* update_flow_state: hysteresis between the two watermarks.                *)
update_flow_state(s) ==
    IF ~s.flow_paused /\ Backlog(s) >= HighWatermark
    THEN [s EXCEPT !.flow_paused = TRUE]
    ELSE IF s.flow_paused /\ Backlog(s) <= LowWatermark
         THEN [s EXCEPT !.flow_paused = FALSE]
         ELSE s

(* send_flow_change, for the flow state before and after a section.         *)
FlowChange(before, after) ==
    When(before.flow_paused # after.flow_paused,
       Send(IF after.flow_paused THEN PauseOutput ELSE ResumeOutput))

batch_limit(s) ==
    IF s.flow_paused \/ Backlog(s) >= HighWatermark THEN FloodBatch ELSE NormalBatch

(* Variant with an off-by-one limit.                                        *)
overflows_AboveLimit(s) ==
    ~s.catastrophic_close_sent /\ Backlog(s) > CatastrophicBacklog

overflows(s) ==
    ~s.catastrophic_close_sent /\ Backlog(s) >= CatastrophicBacklog

Cancelled(s) ==
    [s EXCEPT !.next_flush_id = @ + 1, !.scheduled_flush_id = NoFlush]

Scheduled(s) ==
    [s EXCEPT !.next_flush_id = @ + 1, !.scheduled_flush_id = s.next_flush_id + 1]

Smaller(m, n) == IF m <= n THEN m ELSE n

(* take_pending_batch: the oldest bytes, at most batch_limit of them.       *)
BatchSize(s) == Smaller(Len(s.pending), batch_limit(s))

(* Variant that forgets to put the rest of a split chunk back.              *)
take_pending_batch_NoTail(s) ==
    [s EXCEPT !.pending = <<>>, !.unacked_bytes = @ + BatchSize(s)]

take_pending_batch(s) ==
    [s EXCEPT !.pending = SubSeq(@, BatchSize(s) + 1, Len(@)),
              !.unacked_bytes = @ + BatchSize(s)]

(* Variant that leaves the rest of the queue to the next push.              *)
flush_from_state_NoReschedule(before, s) ==
    LET data  == SubSeq(s.pending, 1, BatchSize(s))
        after == update_flow_state(take_pending_batch(s))
    IN  [st |-> after, todo |-> When(data # <<>>, Emit(data)) \o FlowChange(before, after)]

flush_from_state(before, s) ==
    LET data  == SubSeq(s.pending, 1, BatchSize(s))
        after == update_flow_state(take_pending_batch(s))
    IN  [st   |-> after,
         todo |-> When(data # <<>>, Emit(data))
                    \o FlowChange(before, after)
                    \o When(after.attached /\ after.pending # <<>>, Reschedule)]

(* flush_all_from_state: the newest CloseFlushMax bytes; older ones are     *)
(* trimmed, that is lost.                                                   *)
flush_all_from_state(s) ==
    LET n     == Len(s.pending)
        kept  == SubSeq(s.pending, n - Smaller(n, CloseFlushMax) + 1, n)
        after == update_flow_state([s EXCEPT !.pending = <<>>,
                                             !.unacked_bytes = @ + Len(kept)])
    IN  [st   |-> after,
         todo |-> When(kept # <<>>, Emit(kept)) \o FlowChange(s, after)]

-----------------------------------------------------------------------------
(* The methods.                                                             *)

push_owned(s, text) ==
    LET queued == [s EXCEPT !.pending = @ \o text]
        flowed == update_flow_state(queued)
        marked == IF overflows(flowed)
                  THEN [flowed EXCEPT !.catastrophic_close_sent = TRUE]
                  ELSE flowed
        flush_now  == marked.attached /\ Len(marked.pending) >= batch_limit(marked)
        flush_soon == /\ ~flush_now
                      /\ marked.attached
                      /\ s.pending = <<>>
                      /\ marked.scheduled_flush_id = NoFlush
        after == CASE flush_now  -> Cancelled(marked)
                   [] flush_soon -> Scheduled(marked)
                   [] OTHER      -> marked
    IN  [st   |-> after,
         todo |-> FlowChange(s, after)
                    \o When(overflows(flowed), Send(Close))
                    \o When(flush_soon, Spawn(after.next_flush_id))
                    \o When(flush_now, FlushPending)]

(* Variants: subtraction that does not saturate; the flow state is updated  *)
(* before the bytes are taken off.                                          *)
ack_NotSaturating(s, bytes) ==
    LET after == update_flow_state([s EXCEPT !.unacked_bytes = @ - bytes])
    IN  [st |-> after, todo |-> FlowChange(s, after)]

ack_StaleFlow(s, bytes) ==
    LET flowed == update_flow_state(s)
    IN  [st   |-> [flowed EXCEPT !.unacked_bytes = IF @ <= bytes THEN 0 ELSE @ - bytes],
         todo |-> FlowChange(s, flowed)]

ack(s, bytes) ==
    LET flowed == update_flow_state(
                    [s EXCEPT !.unacked_bytes = IF @ <= bytes THEN 0 ELSE @ - bytes])
        flush_soon == /\ flowed.attached
                      /\ flowed.pending # <<>>
                      /\ flowed.scheduled_flush_id = NoFlush
        after == IF flush_soon THEN Scheduled(flowed) ELSE flowed
    IN  [st   |-> after,
         todo |-> FlowChange(s, after) \o When(flush_soon, Spawn(after.next_flush_id))]

attach(s) ==
    flush_from_state(s, Cancelled([s EXCEPT !.attached = TRUE, !.unacked_bytes = 0]))

(* Variants: the flow state is left as it was; the flow change is lost.     *)
detach_StaleFlow(s) ==
    [st   |-> Cancelled([s EXCEPT !.attached = FALSE, !.unacked_bytes = 0]),
     todo |-> <<>>]

detach_Silent(s) ==
    [st   |-> update_flow_state(
                  Cancelled([s EXCEPT !.attached = FALSE, !.unacked_bytes = 0])),
     todo |-> <<>>]

detach(s) ==
    LET after == update_flow_state(
                    Cancelled([s EXCEPT !.attached = FALSE, !.unacked_bytes = 0]))
    IN  [st |-> after, todo |-> FlowChange(s, after)]

close(s) == flush_all_from_state(Cancelled(s))

flush_if_scheduled(s, id) ==
    LET taken == [s EXCEPT !.scheduled_flush_id = NoFlush]
    IN  CASE s.scheduled_flush_id # id -> [st |-> s, todo |-> <<>>]
          [] s.scheduled_flush_id = id /\ ~s.attached -> [st |-> taken, todo |-> <<>>]
          [] OTHER -> flush_from_state(s, taken)

flush_pending(s) ==
    IF s.attached THEN flush_from_state(s, Cancelled(s)) ELSE [st |-> s, todo |-> <<>>]

(* The second critical section of apply_flush_result.                       *)
reschedule(s) ==
    IF s.attached /\ s.pending # <<>> /\ s.scheduled_flush_id = NoFlush
    THEN [st |-> Scheduled(s), todo |-> <<Spawn(s.next_flush_id + 1)>>]
    ELSE [st |-> s, todo |-> <<>>]
=============================================================================

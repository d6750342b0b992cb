--------------------------- MODULE TerminalDrain ----------------------------
(***************************************************************************)
(* TerminalOutputDrain: the queue between the session's output events and  *)
(* xterm.  Each method of the class is an operator from the object's state *)
(* (a record) to its next state; the JavaScript event loop runs a method   *)
(* to its end, so TerminalOutput makes one step of each.                   *)
(*                                                                         *)
(* Output is a sequence of units of one byte.  The clock is left out:      *)
(* whether scheduleForeground takes the microtask, the animation frame or  *)
(* the delayed timer depends on elapsed time and on the screen, and is a   *)
(* parameter (fast) of the methods that may schedule; frame, fallback and  *)
(* delay are one armed callback, because each clears the others.           *)
(***************************************************************************)
EXTENDS Integers, Sequences, SequencesExt

CONSTANTS
    WriteChunk,         \* getWriteChunkBytes()
    BackgroundChunk,    \* output.backgroundWriteChunkBytes
    CatchUpChunk,       \* output.backgroundCatchUpWriteChunkBytes
    StrainedBacklog,    \* output.strainedBacklogBytes
    LowLatencyBacklog,  \* output.lowLatencyFlushBacklogBytes
    AckBatch            \* DEFAULT_ACK_BATCH_BYTES

ASSUME DrainAssumption ==
    /\ WriteChunk \in Nat \ {0}
    /\ BackgroundChunk \in Nat \ {0}
    /\ CatchUpChunk \in Nat \ {0}
    /\ StrainedBacklog \in Nat
    /\ LowLatencyBacklog \in Nat
    /\ AckBatch \in Nat \ {0}

Modes == {"foreground", "background", "hibernating", "hibernated"}

InitDrain ==
    [queue               |-> <<>>,
     mode                |-> "foreground",
     writingBytes        |-> 0,
     backendUnackedBytes |-> 0,
     pendingAckBytes     |-> 0,
     writeInFlight       |-> FALSE,
     writeQueue          |-> <<>>,    \* the promise chain of writes
     foreground          |-> FALSE,   \* foregroundFrame or foregroundTimer set
     microtaskPending    |-> FALSE,
     microtasks          |-> 0,       \* queued, whether or not still wanted
     backgroundTimer     |-> "none",  \* or the cadence it was armed with
     backgroundCatchUp   |-> FALSE,
     ackTimer            |-> FALSE,
     disposed            |-> FALSE,
     onAck               |-> 0]       \* bytes handed to onAck so far

-----------------------------------------------------------------------------
(* Acknowledgements.                                                        *)

AtMost(a, b) == IF a <= b THEN a ELSE b
Minus(a, b) == IF b <= a THEN a - b ELSE 0

(* Variant: a whole batch is acknowledged, however little is pending.       *)
sendAck_WholeBatch(d, bytes) ==
    LET ackBytes == AtMost(bytes, d.backendUnackedBytes)
    IN  [d EXCEPT !.backendUnackedBytes = @ - ackBytes, !.onAck = @ + AckBatch]

sendAck(d, bytes) ==
    LET ackBytes == AtMost(bytes, d.backendUnackedBytes)
    IN  [d EXCEPT !.backendUnackedBytes = @ - ackBytes, !.onAck = @ + ackBytes]

flushPendingAck(d, force) ==
    IF d.pendingAckBytes = 0 THEN [d EXCEPT !.ackTimer = IF force THEN FALSE ELSE @]
    ELSE IF ~force /\ d.pendingAckBytes < AckBatch THEN [d EXCEPT !.ackTimer = ~d.disposed \/ @]
    ELSE sendAck([d EXCEPT !.ackTimer = FALSE, !.pendingAckBytes = 0], d.pendingAckBytes)

-----------------------------------------------------------------------------
(* Scheduling.                                                              *)

cancelForeground(d) ==
    [d EXCEPT !.foreground = FALSE, !.microtaskPending = FALSE]

cancelBackground(d) ==
    [d EXCEPT !.backgroundTimer = "none"]

getPendingBytes(d) == Len(d.queue) + d.writingBytes + d.pendingAckBytes

(* The microtask needs little pending output; the rest of its condition is  *)
(* time left in the foreground turn and a calm screen (fast).               *)
scheduleForeground(d, fast) ==
    IF d.foreground \/ d.microtaskPending \/ d.disposed THEN d
    ELSE IF fast /\ getPendingBytes(d) <= LowLatencyBacklog
         THEN [d EXCEPT !.microtaskPending = TRUE, !.microtasks = @ + 1]
         ELSE [d EXCEPT !.foreground = TRUE]

(* The cadence has hysteresis: catch-up starts at the strained backlog and  *)
(* ends at the low-latency one.                                             *)
resolveBackgroundSchedule(d) ==
    [d EXCEPT !.backgroundCatchUp =
        IF d.backgroundCatchUp THEN Len(d.queue) > LowLatencyBacklog
                               ELSE Len(d.queue) >= StrainedBacklog]

(* A slow timer is replaced when catch-up starts; otherwise one is enough.  *)
scheduleBackground(d) ==
    LET r == resolveBackgroundSchedule(d)
        armed == [r EXCEPT !.backgroundTimer = IF r.backgroundCatchUp THEN "catchup" ELSE "normal"]
    IN  IF d.disposed THEN r
        ELSE IF d.backgroundTimer = "none" \/ (r.backgroundCatchUp /\ d.backgroundTimer = "normal")
             THEN armed
             ELSE r

(* Variant: a queue that cannot be drained in this mode is not looked at    *)
(* again, and neither is a background queue.                                *)
schedule_ForegroundOnly(d, fast) ==
    IF d.disposed THEN d
    ELSE IF d.queue = <<>> THEN flushPendingAck(d, TRUE)
    ELSE IF d.writeInFlight \/ d.mode # "foreground" THEN d
    ELSE scheduleForeground(d, fast)

schedule(d, fast) ==
    IF d.disposed THEN d
    ELSE IF d.queue = <<>> THEN flushPendingAck(d, TRUE)
    ELSE IF d.writeInFlight \/ d.mode \in {"hibernating", "hibernated"} THEN d
    ELSE IF d.mode = "background" THEN scheduleBackground(d)
    ELSE scheduleForeground(d, fast)

setMode(d, mode, fast) ==
    IF d.disposed THEN d
    ELSE IF d.mode = mode THEN schedule(d, fast)
    ELSE LET entered == [d EXCEPT !.mode = mode]
             fg == IF mode # "foreground" THEN cancelForeground(entered) ELSE entered
             bg == IF mode # "background"
                   THEN [cancelBackground(fg) EXCEPT !.backgroundCatchUp = FALSE]
                   ELSE fg
         IN  schedule(bg, fast)

(* Variant: new output overtakes what is queued.                            *)
enqueue_Overtakes(d, data, fast) ==
    IF d.disposed \/ data = <<>> THEN d
    ELSE schedule([d EXCEPT !.queue = data \o @,
                            !.backendUnackedBytes = @ + Len(data)], fast)

enqueue(d, data, fast) ==
    IF d.disposed \/ data = <<>> THEN d
    ELSE schedule([d EXCEPT !.queue = @ \o data,
                            !.backendUnackedBytes = @ + Len(data)], fast)

-----------------------------------------------------------------------------
(* Writing.  A write is a link of the promise chain writeQueue; its head is *)
(* the one xterm works on.  "then" names what runs when it has settled:     *)
(* the scheduler, or a waitForIdle call (by number); external text has no   *)
(* bytes to account for.                                                    *)

(* Takes up to max bytes from the front of the queue.                       *)
dequeueOutputChunk(d, max) ==
    LET n == AtMost(max, Len(d.queue)) IN SubSeq(d.queue, 1, n)

(* Variant: the payload is not counted as being written.                    *)
writePayload_Uncounted(d, data, then) ==
    [d EXCEPT !.queue = SubSeq(@, Len(data) + 1, Len(@)),
              !.writeInFlight = TRUE,
              !.writeQueue = Append(@, [data |-> data, then |-> then])]

writePayload(d, data, then) ==
    [d EXCEPT !.queue = SubSeq(@, Len(data) + 1, Len(@)),
              !.writingBytes = @ + Len(data),
              !.writeInFlight = TRUE,
              !.writeQueue = Append(@, [data |-> data, then |-> then])]

Scheduler == 0

flushOne(d, max, fast) ==
    IF d.writeInFlight \/ d.disposed THEN schedule(d, fast)
    ELSE LET payload == dequeueOutputChunk(d, max)
         IN  IF payload = <<>> THEN flushPendingAck(d, TRUE)
             ELSE writePayload(d, payload, Scheduler)

flushForeground(d, fast) ==
    IF d.mode # "foreground" \/ d.disposed THEN schedule(d, fast)
    ELSE flushOne(d, WriteChunk, fast)

flushBackground(d, fast) ==
    IF d.mode # "background" \/ d.disposed THEN schedule(d, fast)
    ELSE LET r == resolveBackgroundSchedule(d)
         IN  flushOne(r, IF r.backgroundCatchUp THEN CatchUpChunk ELSE BackgroundChunk, fast)

(* Variant: the payload is counted off in the callback and again after it.  *)
writeCallback_Twice(d) ==
    LET n == Len(Head(d.writeQueue).data)
        done == [d EXCEPT !.writeQueue = Tail(@),
                          !.writingBytes = @ - 2 * n,
                          !.pendingAckBytes = @ + n,
                          !.writeInFlight = FALSE]
    IN  flushPendingAck(done, d.queue = <<>>)

(* The callback of terminal.write for the head of the chain.                *)
writeCallback(d) ==
    LET n == Len(Head(d.writeQueue).data)
        done == [d EXCEPT !.writeQueue = Tail(@),
                          !.writingBytes = Minus(@, n),
                          !.pendingAckBytes = @ + n,
                          !.writeInFlight = FALSE]
    IN  flushPendingAck(done, d.queue = <<>>)

(* terminal.write throws: the payload is gone and is not acknowledged.      *)
writeError(d) ==
    [d EXCEPT !.writeQueue = Tail(@),
              !.writingBytes = Minus(@, Len(Head(d.writeQueue).data)),
              !.writeInFlight = FALSE]

writeExternal(d, text) ==
    [d EXCEPT !.writeQueue = Append(@, [data |-> <<>>, then |-> text])]

dispose(d, ackRemaining) ==
    LET flushed == flushPendingAck([d EXCEPT !.disposed = TRUE, !.ackTimer = FALSE], TRUE)
        acked == IF ackRemaining THEN sendAck(flushed, flushed.backendUnackedBytes) ELSE flushed
    IN  [InitDrain EXCEPT !.mode = d.mode, !.disposed = TRUE, !.onAck = acked.onAck,
                          !.microtasks = d.microtasks]
=============================================================================

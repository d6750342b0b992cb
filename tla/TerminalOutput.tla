--------------------------- MODULE TerminalOutput ---------------------------
(***************************************************************************)
(* The data plane of a terminal renderer: output events pass the frame     *)
(* gate into the drain, the drain writes to xterm and acknowledges.  Every *)
(* action is one turn of the webview's event loop: an output event, a      *)
(* timer, an animation frame, a write callback of xterm, or a call made by *)
(* the visibility and hibernation code (setMode, waitForIdle, a status     *)
(* notice, dispose).  Queued microtasks run before the next turn.          *)
(***************************************************************************)
EXTENDS FrameGate, TerminalDrain, FiniteSets

CONSTANTS
    Chunks,         \* the output events: sequences of kinds of units
    MaxUnits,       \* bound: units of output
    MaxModes,       \* bound: changes of the drain's mode
    MaxWaits,       \* bound: calls of waitForIdle
    MaxTimeouts,    \* bound: waitForIdle calls that time out
    MaxErrors       \* bound: writes that xterm refuses

ASSUME OutputAssumption ==
    /\ Chunks \subseteq Seq(Kinds) \ {<<>>}
    /\ MaxUnits \in Nat /\ MaxModes \in Nat
    /\ MaxWaits \in Nat /\ MaxTimeouts \in Nat /\ MaxErrors \in Nat

VARIABLES
    gate,           \* the Dec2026FrameGate
    drain,          \* the TerminalOutputDrain
    waits,          \* the waitForIdle calls, in order of their start
    received,       \* history: units that arrived
    forwarded,      \* history: units the gate handed to the drain
    dropped,        \* history: units the gate acknowledged without drawing
    screen,         \* history: units and notices xterm has processed
    failed,         \* history: units of refused writes
    abandoned,      \* history: a wait timed out and nothing was rescheduled
    modes, timeouts \* used-up bounds

vars == <<gate, drain, waits, received, forwarded, dropped, screen, failed,
          abandoned, modes, timeouts>>

Init ==
    /\ gate = InitGate
    /\ drain = InitDrain
    /\ waits = <<>>
    /\ received = <<>>
    /\ forwarded = <<>>
    /\ dropped = <<>>
    /\ screen = <<>>
    /\ failed = <<>>
    /\ abandoned = FALSE
    /\ modes = 0
    /\ timeouts = 0

-----------------------------------------------------------------------------
(* No microtask is waiting: the next turn may begin.                        *)
NextTurn == drain.microtasks = 0 /\ ~drain.disposed

(* Is d left with output that no callback will look at?                     *)
Unscheduled(d) ==
    /\ d.queue # <<>>
    /\ ~d.foreground /\ ~d.microtaskPending /\ d.backgroundTimer = "none"

(* The drain becomes d; a drain that is scheduled again is not abandoned.   *)
DrainBecomes(d) ==
    /\ drain' = d
    /\ abandoned' = (abandoned /\ Unscheduled(d))

(* The gate becomes g and has called forward and ackDropped on the way.     *)
GateBecomes(g) ==
    /\ gate' = [g EXCEPT !.out = <<>>, !.dropped = <<>>]
    /\ forwarded' = forwarded \o g.out
    /\ dropped' = dropped \o g.dropped

-----------------------------------------------------------------------------
(* waitForIdle polls: it writes what is queued itself, waits for writes     *)
(* that others started, and gives up after its deadline.                    *)

NoticeText(w) == 100 + w

(* Call w settles with this result; a status notice is then written behind  *)
(* whatever the chain still holds.                                          *)
Settle(d, ws, w, ok) ==
    [drain |-> IF ws[w].notice THEN writeExternal(d, NoticeText(w)) ELSE d,
     waits |-> [ws EXCEPT ![w].pc = IF ok THEN "idle" ELSE "timeout"]]

(* Variant: the wait ends when nothing is being written and leaves the      *)
(* queue to the scheduler.                                                  *)
Poll_LeavesQueue(d, ws, w) ==
    IF d.writeInFlight \/ d.writingBytes > 0
    THEN [drain |-> d, waits |-> [ws EXCEPT ![w].pc = "polling"]]
    ELSE Settle(schedule(flushPendingAck(d, TRUE), FALSE), ws, w, TRUE)

Poll(d, ws, w) ==
    IF d.queue # <<>>
    THEN [drain |-> writePayload(d, dequeueOutputChunk(d, WriteChunk), w),
          waits |-> [ws EXCEPT ![w].pc = "writing"]]
    ELSE IF d.writeInFlight \/ d.writingBytes > 0
    THEN [drain |-> d, waits |-> [ws EXCEPT ![w].pc = "polling"]]
    ELSE Settle(flushPendingAck(d, TRUE), ws, w, TRUE)

(* The poll of call w, at or past its deadline if expired.                  *)
PollOrExpire(d, w, expired) ==
    LET r == IF expired THEN Settle(d, waits, w, FALSE) ELSE Poll(d, waits, w)
    IN  /\ drain' = r.drain
        /\ waits' = r.waits
        /\ timeouts' = timeouts + (IF expired THEN 1 ELSE 0)
        /\ abandoned' = ((abandoned \/ expired) /\ Unscheduled(r.drain))

Expirations == IF timeouts < MaxTimeouts THEN BOOLEAN ELSE {FALSE}

(* flushFrameGateAndDrain, for a hibernation or before a status notice: the *)
(* gate is opened, the schedulers are cancelled and the first poll runs.    *)
waitForIdle(notice) ==
    /\ NextTurn
    /\ Len(waits) < MaxWaits
    /\ LET g == flush(gate)
           ws == Append(waits, [pc |-> "polling", notice |-> notice, after |-> Len(forwarded \o g.out)])
       IN  /\ GateBecomes(g)
           /\ \E fast \in BOOLEAN :
                 LET d == cancelBackground(cancelForeground(enqueue(drain, g.out, fast)))
                     r == Poll(d, ws, Len(ws))
                 IN  DrainBecomes(r.drain) /\ waits' = r.waits
    /\ UNCHANGED <<received, screen, failed, modes, timeouts>>

PollTimer(w) ==
    /\ NextTurn
    /\ waits[w].pc = "polling"
    /\ \E expired \in Expirations : PollOrExpire(drain, w, expired)
    /\ UNCHANGED <<gate, received, forwarded, dropped, screen, failed, modes>>

-----------------------------------------------------------------------------
(* An output event of the session.                                          *)
Receive(chunk, alternateScreen) ==
    /\ NextTurn
    /\ LET units == [i \in DOMAIN chunk |-> [pos |-> Len(received) + i, kind |-> chunk[i]]]
           g == enqueueGate(gate, units, alternateScreen, Len(drain.queue))
       IN  /\ received' = received \o units
           /\ GateBecomes(g)
           /\ \E fast \in BOOLEAN : DrainBecomes(enqueue(drain, g.out, fast))
    /\ UNCHANGED <<waits, screen, failed, modes, timeouts>>

FailOpen ==
    /\ NextTurn
    /\ gate.failOpenTimer
    /\ LET g == failOpenTimeout(gate)
       IN  /\ GateBecomes(g)
           /\ \E fast \in BOOLEAN : DrainBecomes(enqueue(drain, g.out, fast))
    /\ UNCHANGED <<waits, received, screen, failed, modes, timeouts>>

SetMode(mode) ==
    /\ NextTurn
    /\ modes < MaxModes
    /\ modes' = modes + 1
    /\ \E fast \in BOOLEAN : DrainBecomes(setMode(drain, mode, fast))
    /\ UNCHANGED <<gate, waits, received, forwarded, dropped, screen, failed, timeouts>>

-----------------------------------------------------------------------------
(* Callbacks of the drain.                                                  *)

DrainTurn(d) ==
    /\ DrainBecomes(d)
    /\ UNCHANGED <<gate, waits, received, forwarded, dropped, screen, failed, modes, timeouts>>

ForegroundFires ==
    /\ NextTurn
    /\ drain.foreground
    /\ \E fast \in BOOLEAN : DrainTurn(flushForeground([drain EXCEPT !.foreground = FALSE], fast))

(* A cancelled microtask runs all the same.                                 *)
MicrotaskRuns ==
    /\ drain.microtasks > 0
    /\ \E fast \in BOOLEAN :
          DrainTurn(flushForeground([drain EXCEPT !.microtasks = @ - 1,
                                                  !.microtaskPending = FALSE], fast))

BackgroundFires ==
    /\ NextTurn
    /\ drain.backgroundTimer # "none"
    /\ \E fast \in BOOLEAN :
          DrainTurn(flushBackground([drain EXCEPT !.backgroundTimer = "none"], fast))

AckTimerFires ==
    /\ NextTurn
    /\ drain.ackTimer
    /\ DrainTurn(flushPendingAck([drain EXCEPT !.ackTimer = FALSE], TRUE))

(* xterm has processed the head of the chain, or refuses it (a refusal is   *)
(* immediate in the program, here at any time).  Then whoever started the   *)
(* write goes on: the scheduler, or a waitForIdle call with its next poll.  *)
WriteSettles(d) ==
    LET then == Head(drain.writeQueue).then
    IN  IF then = Scheduler
        THEN /\ \E fast \in BOOLEAN : DrainBecomes(schedule(d, fast))
             /\ UNCHANGED <<waits, timeouts>>
        ELSE \E expired \in Expirations : PollOrExpire(flushPendingAck(d, TRUE), then, expired)

IsPayload(link) == link.data # <<>>

PayloadWritten ==
    /\ NextTurn
    /\ drain.writeQueue # <<>>
    /\ IsPayload(Head(drain.writeQueue))
    /\ screen' = screen \o Head(drain.writeQueue).data
    /\ WriteSettles(writeCallback(drain))
    /\ UNCHANGED <<gate, received, forwarded, dropped, failed, modes>>

PayloadRefused ==
    /\ NextTurn
    /\ drain.writeQueue # <<>>
    /\ IsPayload(Head(drain.writeQueue))
    /\ Len(failed) < MaxErrors
    /\ failed' = failed \o Head(drain.writeQueue).data
    /\ WriteSettles(writeError(drain))
    /\ UNCHANGED <<gate, received, forwarded, dropped, screen, modes>>

NoticeWritten ==
    /\ NextTurn
    /\ drain.writeQueue # <<>>
    /\ ~IsPayload(Head(drain.writeQueue))
    /\ screen' = Append(screen, [pos |-> Head(drain.writeQueue).then, kind |-> "notice"])
    /\ DrainBecomes([drain EXCEPT !.writeQueue = Tail(@)])
    /\ UNCHANGED <<gate, waits, received, forwarded, dropped, failed, modes, timeouts>>

(* Clean-up of the renderer: the gate first, then the drain.                *)
Dispose ==
    /\ NextTurn
    /\ GateBecomes(disposeGate(gate))
    /\ drain' = dispose(drain, FALSE)
    /\ UNCHANGED <<waits, received, screen, failed, abandoned, modes, timeouts>>

-----------------------------------------------------------------------------
(* The calls the drain and the gate have asked the event loop to make.      *)
Callback ==
    \/ FailOpen
    \/ \E w \in DOMAIN waits : PollTimer(w)
    \/ ForegroundFires
    \/ MicrotaskRuns
    \/ BackgroundFires
    \/ AckTimerFires
    \/ PayloadWritten
    \/ PayloadRefused
    \/ NoticeWritten

Next ==
    \/ \E chunk \in Chunks, alternateScreen \in BOOLEAN :
          Len(received) + Len(chunk) <= MaxUnits /\ Receive(chunk, alternateScreen)
    \/ \E mode \in Modes : SetMode(mode)
    \/ \E notice \in BOOLEAN : waitForIdle(notice)
    \/ Callback
    \/ Dispose

Spec == Init /\ [][Next]_vars

-----------------------------------------------------------------------------
(* Properties.                                                              *)

Units == [pos : Nat, kind : Kinds]
Waits == [pc : {"writing", "polling", "idle", "timeout"}, notice : BOOLEAN, after : Nat]

(* The types of the gate, the drain and the waits.                          *)
TypeOK ==
    /\ gate.pendingPrefix \in Seq(Units) /\ gate.currentFrameData \in Seq(Units)
    /\ gate.heldFrame \in Seq(Units) /\ gate.failOpenTimer \in BOOLEAN
    /\ gate.out = <<>> /\ gate.dropped = <<>>
    /\ drain.queue \in Seq(Units) /\ drain.mode \in Modes
    /\ drain.writingBytes \in Nat /\ drain.pendingAckBytes \in Nat
    /\ drain.backendUnackedBytes \in Nat /\ drain.onAck \in Nat
    /\ drain.writeQueue \in Seq([data : Seq(Units), then : Nat])
    /\ drain.microtasks \in Nat
    /\ waits \in Seq(Waits)

InFlight == FlattenSeq([i \in DOMAIN drain.writeQueue |-> drain.writeQueue[i].data])

(* The members of q at the places in I, in their order.                     *)
Selected(q, I) ==
    LET nth(k) == CHOOSE i \in I : Cardinality({j \in I : j <= i}) = k
    IN  [k \in 1 .. Cardinality(I) |-> q[nth(k)]]

Drawn == Selected(screen, {k \in DOMAIN screen : screen[k].kind # "notice"})

Open == ~drain.disposed

(* Every byte the backend is still owed an acknowledgement for is queued,   *)
(* being written, waiting to be acknowledged, or was refused by xterm; a    *)
(* counter that drifts would starve or flood the session's flow control.    *)
(* With several writes under way at once (waitForIdle beside the scheduler) *)
(* the counters are kept by different callbacks.                            *)
BytesAccounted ==
    Open =>
        /\ drain.writingBytes = Len(InFlight)
        /\ drain.backendUnackedBytes =
              Len(drain.queue) + drain.writingBytes + drain.pendingAckBytes + Len(failed)

(* Whatever mixture of foreground, background and waitForIdle writes drains *)
(* the queue, xterm gets what the gate forwarded in that order, once, less  *)
(* what it refused.                                                         *)
DrawnInOrder ==
    Open =>
        Drawn \o InFlight \o drain.queue =
            Selected(forwarded, {i \in DOMAIN forwarded : ~Contains(failed, forwarded[i])})

(* Somebody will look at the queue: an armed callback, a write that will    *)
(* reschedule, or a waitForIdle call.                                       *)
QueueIsWatched ==
    \/ ~Unscheduled(drain)
    \/ drain.microtasks > 0
    \/ \E i \in DOMAIN drain.writeQueue :
          IsPayload(drain.writeQueue[i]) /\ drain.writeQueue[i].then = Scheduler
    \/ \E w \in DOMAIN waits : waits[w].pc \in {"writing", "polling"}

(* What waits is looked at again: a queue in a mode that drains (unless a   *)
(* wait that timed out left it behind), drawn bytes that wait for the       *)
(* acknowledgement batch, and a frame in the gate, finished or not, through *)
(* every sequence of barriers, replacements, caps and pressure changes.     *)
NoLostWakeup ==
    Open =>
        /\ drain.queue # <<>> /\ drain.mode \in {"foreground", "background"} =>
              QueueIsWatched \/ abandoned
        /\ drain.pendingAckBytes > 0 => drain.ackTimer
        /\ gate.currentFrameData # <<>> \/ gate.heldFrame # <<>> => gate.failOpenTimer

(* A status notice (session closed, AI command, reconnecting) appears after *)
(* all the output that had arrived when it was requested, unless the wait   *)
(* in front of it timed out.                                                *)
NoticeAfterOutput ==
    \A k \in DOMAIN screen : screen[k].kind = "notice" =>
        LET wait == waits[screen[k].pos - NoticeText(0)]
        IN  wait.pc = "idle" =>
                \A i \in 1..wait.after :
                    Contains(SubSeq(screen, 1, k), forwarded[i]) \/ Contains(failed, forwarded[i])

(* A later frame, which is itself kept, repaints what this unit has drawn.  *)
Repainted(u) ==
    /\ u.kind # "stateful"
    /\ \E v \in ToSet(forwarded \o HeldUnits(gate)) : v.kind = "reset" /\ v.pos > u.pos

(* The gate neither loses nor doubles output: every unit that arrived was   *)
(* forwarded, was dropped, or is held, and only one of these.  While the    *)
(* renderer lives, output is dropped only in favour of a later frame that   *)
(* repaints the screen, and nothing with an effect beyond the screen is.    *)
GateKeepsEverything ==
    LET everything == forwarded \o dropped \o HeldUnits(gate)
    IN  /\ ToSet(everything) = ToSet(received)
        /\ IsInjective(everything)
        /\ Open => \A u \in ToSet(dropped) : Repainted(u)

(* The bytes among what xterm has processed.                                *)
DrawnBytes == Cardinality({k \in DOMAIN screen : screen[k].kind # "notice"})

(* The renderer as the backend's flow control sees it.                      *)
Credit == INSTANCE OutputCredit WITH
              received <- Len(received),
              consumed <- DrawnBytes + Len(dropped),
              acked <- drain.onAck + Len(dropped),
              open <- Open

(* Gate and drain together keep the promise of OutputCredit: never more     *)
(* credit than bytes drawn or given up.                                     *)
KeepsCredit == Credit!Spec
=============================================================================

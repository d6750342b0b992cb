----------------------------- MODULE OutputFlow -----------------------------
(***************************************************************************)
(* Terminal output from the source to the renderer: the reader and command *)
(* loops of the terminal backends, the flush timers, and the renderer that *)
(* acknowledges what it has drawn, all sharing one SessionOutputCoalescer. *)
(*                                                                         *)
(* Local, serial and telnet sessions read the source on one thread (task)  *)
(* and handle SessionCommands on another: Reader # Command.  An SSH        *)
(* session does both on one task whose biased select! takes commands       *)
(* first: Reader = Command.  Flush timers are tasks of their own in both.  *)
(***************************************************************************)
EXTENDS OutputCoalescer, FiniteSets

CONSTANTS
    Reader, Command,      \* the threads running the two loops
    ReadMax,              \* the read buffer: most bytes pushed at once
    SourceBytes,          \* bound: bytes the source ever produces
    MaxRequests           \* bound: attach, detach and close requests

ASSUME FlowAssumption ==
    /\ Reader \notin Nat /\ Command \notin Nat
    /\ ReadMax \in Nat \ {0}
    /\ SourceBytes \in Nat
    /\ MaxRequests \in Nat

VARIABLES
    st,             \* OutputState, behind the coalescer's mutex
    jobs,           \* what threads have decided on but not yet performed
    timers,         \* flush timers that are sleeping
    cmd_rx,         \* the session's command channel (unbounded, FIFO)
    output_paused,  \* the pause flag the source loop looks at
    gate,           \* the reader has seen output_paused = FALSE and is reading
    loop,           \* the command loop: "running", "exiting" or "closed"
    source,         \* the source loop: "open", "ending" or "done"
    produced,       \* bytes read from the source so far
    emitted,        \* what the sink received, in order
    acked,          \* bytes the renderer has acknowledged
    requests        \* attach, detach and close requests made

vars == <<st, jobs, timers, cmd_rx, output_paused, gate, loop, source,
          produced, emitted, acked, requests>>

SingleTask == Reader = Command
Loops == {Reader, Command}

Requests == {Attach, DetachRenderer, Close}

Init ==
    /\ st = InitOutputState
    /\ jobs = {}
    /\ timers = {}
    /\ cmd_rx = <<>>
    /\ output_paused = FALSE
    /\ gate = FALSE
    /\ loop = "running"
    /\ source = "open"
    /\ produced = 0
    /\ emitted = <<>>
    /\ acked = 0
    /\ requests = 0

-----------------------------------------------------------------------------
(* The effects thread t still has to perform, in order, if there are any.   *)
Job(t, effects) == {[thread |-> t, todo |-> e] : e \in {effects} \ {<<>>}}

(* Thread t has no effect left to perform: it is back in its own loop.      *)
Idle(t) == \A j \in jobs : j.thread # t

(* Thread t, idle so far, runs one critical section of the coalescer.       *)
Section(t, result) ==
    /\ st' = result.st
    /\ jobs' = jobs \cup Job(t, result.todo)

Running == loop = "running"

(* A send on the command channel; the receiver is dropped with the loop.    *)
Delivered(cmd) == IF Running THEN Append(cmd_rx, cmd) ELSE cmd_rx

-----------------------------------------------------------------------------
(* The source loop.                                                         *)

(* The reader passes the pause gate; it will read once before it looks at   *)
(* the flag again.                                                          *)
PassGate ==
    /\ ~SingleTask
    /\ source = "open"
    /\ Idle(Reader)
    /\ ~gate
    /\ ~output_paused
    /\ gate' = TRUE
    /\ UNCHANGED <<st, jobs, timers, cmd_rx, output_paused, loop, source,
                   produced, emitted, acked, requests>>

(* Variant without the bias of the select!: reads race with commands.       *)
CanRead_Unbiased ==
    /\ source = "open"
    /\ Idle(Reader)
    /\ IF SingleTask THEN Running /\ ~output_paused ELSE gate

(* May the source loop read now?                                            *)
CanRead ==
    /\ source = "open"
    /\ Idle(Reader)
    /\ IF SingleTask THEN Running /\ ~output_paused /\ cmd_rx = <<>> ELSE gate

ReadSource(n) ==
    /\ CanRead
    /\ produced + n <= SourceBytes
    /\ Section(Reader, push_owned(st, [i \in 1..n |-> produced + i]))
    /\ produced' = produced + n
    /\ gate' = FALSE
    /\ UNCHANGED <<timers, cmd_rx, output_paused, loop, source,
                   emitted, acked, requests>>

(* End of file or a read error.  A separate reader closes the coalescer     *)
(* and then signals the command loop; an SSH task leaves its loop.          *)
SourceEnds ==
    /\ CanRead
    /\ gate' = FALSE
    /\ IF SingleTask
       THEN /\ source' = "done"
            /\ loop' = "exiting"
            /\ UNCHANGED <<st, jobs>>
       ELSE /\ source' = "ending"
            /\ Section(Reader, close(st))
            /\ UNCHANGED loop
    /\ UNCHANGED <<timers, cmd_rx, output_paused, produced, emitted, acked, requests>>

ReaderDone ==
    /\ source = "ending"
    /\ Idle(Reader)
    /\ source' = "done"
    /\ UNCHANGED <<st, jobs, timers, cmd_rx, output_paused, gate, loop,
                   produced, emitted, acked, requests>>

-----------------------------------------------------------------------------
(* The command loop.                                                        *)

Take(kind) ==
    /\ Running
    /\ Idle(Command)
    /\ cmd_rx # <<>>
    /\ Head(cmd_rx).kind = kind
    /\ cmd_rx' = Tail(cmd_rx)

HandleAttach ==
    /\ Take("Attach")
    /\ Section(Command, attach(st))
    /\ UNCHANGED <<timers, output_paused, gate, loop, source,
                   produced, emitted, acked, requests>>

HandleDetach ==
    /\ Take("DetachRenderer")
    /\ Section(Command, detach(st))
    /\ UNCHANGED <<timers, output_paused, gate, loop, source,
                   produced, emitted, acked, requests>>

HandleAck ==
    /\ Take("AckOutput")
    /\ Section(Command, ack(st, Head(cmd_rx).bytes))
    /\ UNCHANGED <<timers, output_paused, gate, loop, source,
                   produced, emitted, acked, requests>>

HandlePause ==
    /\ Take("PauseOutput")
    /\ output_paused' = TRUE
    /\ UNCHANGED <<st, jobs, timers, gate, loop, source,
                   produced, emitted, acked, requests>>

HandleResume ==
    /\ Take("ResumeOutput")
    /\ output_paused' = FALSE
    /\ UNCHANGED <<st, jobs, timers, gate, loop, source,
                   produced, emitted, acked, requests>>

(* Leaving the loop releases a reader that waits at the gate.               *)
HandleClose ==
    /\ Take("Close")
    /\ loop' = "exiting"
    /\ output_paused' = FALSE
    /\ UNCHANGED <<st, jobs, timers, gate, source,
                   produced, emitted, acked, requests>>

NoticeReaderDone ==
    /\ Running
    /\ Idle(Command)
    /\ source = "done"
    /\ loop' = "exiting"
    /\ output_paused' = FALSE
    /\ UNCHANGED <<st, jobs, timers, cmd_rx, gate, source,
                   produced, emitted, acked, requests>>

CloseOutput ==
    /\ loop = "exiting"
    /\ Idle(Command)
    /\ loop' = "closed"
    /\ Section(Command, close(st))
    /\ UNCHANGED <<timers, cmd_rx, output_paused, gate, source,
                   produced, emitted, acked, requests>>

-----------------------------------------------------------------------------
(* Flush timers: a timer that fires becomes a thread until it has performed *)
(* its effects.                                                             *)

FireTimer(id) ==
    /\ id \in timers
    /\ timers' = timers \ {id}
    /\ Section(id, flush_if_scheduled(st, id))
    /\ UNCHANGED <<cmd_rx, output_paused, gate, loop, source,
                   produced, emitted, acked, requests>>

-----------------------------------------------------------------------------
(* Effects performed without the mutex.                                     *)

(* Job j performs its first effect, which leaves it more to do.             *)
Step(j, op, more) ==
    /\ Head(j.todo).op = op
    /\ jobs' = (jobs \ {j}) \cup Job(j.thread, more \o Tail(j.todo))

CallSink(j) ==
    /\ Step(j, "emit", <<>>)
    /\ emitted' = emitted \o Head(j.todo).data
    /\ UNCHANGED <<st, timers, cmd_rx, output_paused, gate, loop, source,
                   produced, acked, requests>>

SendCommand(j) ==
    /\ Step(j, "send", <<>>)
    /\ cmd_rx' = Delivered(Head(j.todo).cmd)
    /\ UNCHANGED <<st, timers, output_paused, gate, loop, source,
                   produced, emitted, acked, requests>>

ScheduleFlush(j) ==
    /\ Step(j, "spawn", <<>>)
    /\ timers' = timers \cup {Head(j.todo).id}
    /\ UNCHANGED <<st, cmd_rx, output_paused, gate, loop, source,
                   produced, emitted, acked, requests>>

(* Two effects are critical sections themselves.                            *)
FlushNow(j) ==
    /\ Step(j, "flush_pending", flush_pending(st).todo)
    /\ st' = flush_pending(st).st
    /\ UNCHANGED <<timers, cmd_rx, output_paused, gate, loop, source,
                   produced, emitted, acked, requests>>

RescheduleTail(j) ==
    /\ Step(j, "reschedule", reschedule(st).todo)
    /\ st' = reschedule(st).st
    /\ UNCHANGED <<timers, cmd_rx, output_paused, gate, loop, source,
                   produced, emitted, acked, requests>>

Perform(j) ==
    \/ CallSink(j)
    \/ SendCommand(j)
    \/ ScheduleFlush(j)
    \/ FlushNow(j)
    \/ RescheduleTail(j)

-----------------------------------------------------------------------------
(* The renderer, through the session commands of cmd/session.rs.            *)

Request(cmd) ==
    /\ Running
    /\ requests < MaxRequests
    /\ cmd_rx' = Delivered(cmd)
    /\ requests' = requests + 1
    /\ UNCHANGED <<st, jobs, timers, output_paused, gate, loop, source,
                   produced, emitted, acked>>

(* It acknowledges what it has drawn, at any later time, also when the      *)
(* bytes were emitted before it was detached and attached again.            *)
RendererAck ==
    /\ acked < Len(emitted)
    /\ cmd_rx' = Delivered(AckOutput(Len(emitted) - acked))
    /\ acked' = Len(emitted)
    /\ UNCHANGED <<st, jobs, timers, output_paused, gate, loop, source,
                   produced, emitted, requests>>

-----------------------------------------------------------------------------
HandleCommand ==
    \/ HandleAttach
    \/ HandleDetach
    \/ HandleAck
    \/ HandlePause
    \/ HandleResume
    \/ HandleClose
    \/ NoticeReaderDone
    \/ CloseOutput

Next ==
    \/ PassGate
    \/ \E n \in 1..ReadMax : ReadSource(n)
    \/ SourceEnds
    \/ ReaderDone
    \/ HandleCommand
    \/ \E id \in timers : FireTimer(id)
    \/ \E j \in jobs : Perform(j)
    \/ \E cmd \in Requests : Request(cmd)
    \/ RendererAck

Spec == Init /\ [][Next]_vars

(* Threads run, timers fire and the command loop polls its inputs.  Nothing *)
(* makes the source produce output or the renderer acknowledge it.          *)
Fairness ==
    /\ WF_vars(\E j \in jobs : Perform(j))
    /\ WF_vars(\E id \in timers : FireTimer(id))
    /\ WF_vars(HandleCommand)

FairSpec == Spec /\ Fairness

-----------------------------------------------------------------------------
(* Properties.                                                              *)

Effects ==
    [op : {"emit"}, data : Seq(Nat)]
      \cup [op : {"send"}, cmd : {PauseOutput, ResumeOutput, Close}]
      \cup [op : {"spawn"}, id : Nat]
      \cup {FlushPending, Reschedule}

Commands == Requests \cup {PauseOutput, ResumeOutput}
              \cup [kind : {"AckOutput"}, bytes : Nat]

(* The types of the shared state, the channel and the threads' effects.     *)
TypeOK ==
    /\ st \in OutputState
    /\ jobs \subseteq [thread : Loops \cup Nat, todo : Seq(Effects) \ {<<>>}]
    /\ timers \subseteq Nat
    /\ cmd_rx \in Seq(Commands)
    /\ output_paused \in BOOLEAN
    /\ gate \in BOOLEAN
    /\ loop \in {"running", "exiting", "closed"}
    /\ source \in {"open", "ending", "done"}
    /\ produced \in Nat
    /\ emitted \in Seq(Nat)
    /\ acked \in Nat
    /\ requests \in Nat

(* flow_paused never lags the backlog: outside a critical section a paused  *)
(* flow is above the low watermark and a running one below the high one.    *)
(* It needs every section that moves bytes to end in update_flow_state.     *)
WatermarksRespected == Hysteresis(st)

(* The effects some thread still has to perform.                            *)
Owed == UNION {Elements(j.todo) : j \in jobs}

(* Output queued for an attached renderer is never forgotten: the timer of  *)
(* the scheduled flush exists or is about to, or some thread is on its way  *)
(* to flush or to reschedule.                                               *)
FlushUnderWay ==
    st.attached /\ st.pending # <<>> =>
        \/ /\ st.scheduled_flush_id # NoFlush
           /\ st.scheduled_flush_id \in timers \/ Spawn(st.scheduled_flush_id) \in Owed
        \/ FlushPending \in Owed
        \/ Reschedule \in Owed

Occurrences(b, seq) == Cardinality({i \in DOMAIN seq : seq[i] = b})

InFlight(b) ==
    Cardinality({p \in UNION {{j} \X DOMAIN j.todo : j \in jobs} :
                    LET effect == p[1].todo[p[2]]
                    IN  effect.op = "emit" /\ b \in Elements(effect.data)})

(* Every byte read from the source is queued, on its way to the sink or     *)
(* emitted, and only in one of these places; bytes are trimmed only when    *)
(* the session closes.                                                      *)
NoByteLostOrDoubled ==
    \A b \in 1..produced :
        LET copies == Occurrences(b, st.pending) + InFlight(b) + Occurrences(b, emitted)
        IN  /\ copies <= 1
            /\ copies = 0 => loop = "closed" \/ source # "open"

(* A catastrophic backlog ends the session: the close command is owed,      *)
(* queued or already handled.                                               *)
OverflowCloses ==
    Backlog(st) >= CatastrophicBacklog =>
        \/ ~Running
        \/ Send(Close) \in Owed
        \/ Close \in Elements(cmd_rx)

(* Nothing is under way between the coalescer and the command loop.         *)
Settled ==
    /\ Running
    /\ cmd_rx = <<>>
    /\ jobs = {}

(* The source's pause flag follows the coalescer's decision: once all       *)
(* commands are handled the source is paused exactly when the backlog is    *)
(* held to be too high.                                                     *)
PauseAgreement == Settled => (output_paused <=> st.flow_paused)

(* With commands served before reads, a pause decided while pushing takes   *)
(* effect before the next read: the backlog passes the high watermark by    *)
(* less than one read, far from the catastrophic limit.                     *)
BacklogBounded == Backlog(st) < HighWatermark + ReadMax

(* Nothing is stuck.  Output queued for an attached renderer is emitted     *)
(* sooner or later, also when the renderer acknowledges nothing, because    *)
(* acknowledgements pace the source and never the flushes; and a source     *)
(* paused for a renderer that keeps acknowledging reads again.              *)
NothingStuck ==
    /\ (st.attached /\ st.pending # <<>>) ~> (st.pending = <<>> \/ ~st.attached)
    /\ WF_vars(RendererAck) =>
          ((output_paused /\ st.attached) ~> (~output_paused \/ ~st.attached))
=============================================================================

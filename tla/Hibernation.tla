----------------------------- MODULE Hibernation ----------------------------
(***************************************************************************)
(* Hibernation of a hidden terminal's renderer.  After two minutes without *)
(* output the hibernation controller drains the terminal, detaches it from *)
(* the backend, drains again, keeps a snapshot and lets React remove the   *)
(* xterm instance; being shown, input or a session event wakes it.         *)
(*                                                                         *)
(* The refs of the XTerminal component, its React state and the drain's    *)
(* mode are one record r; handlers are operators on r, because JavaScript  *)
(* runs them to their end.  What interleaves are the awaits: of the drain, *)
(* of invoke (a call reaches the session's command channel, is answered    *)
(* once it is queued there, and is handled by the session later), of       *)
(* listen, and of React's next commit.  Output events travel on a wire of  *)
(* their own, unordered with the answers.                                  *)
(*                                                                         *)
(* The drain is its mode and a backlog (TerminalOutput has the rest).  The *)
(* clock is one flag, quiet: the last output is two minutes old.           *)
(***************************************************************************)
EXTENDS Integers, Sequences, FiniteSets

CONSTANTS
    MaxOutput,      \* bound: output events of the session
    MaxShown,       \* bound: changes of visibility
    MaxWakes,       \* bound: inputs and session events that wake
    MaxRebuilds     \* bound: rebuilds of the terminal by a settings change

ASSUME HibernationAssumption ==
    /\ MaxOutput \in Nat /\ MaxShown \in Nat
    /\ MaxWakes \in Nat /\ MaxRebuilds \in Nat

VARIABLES
    r,          \* the component
    tasks,      \* the hibernateRenderer calls under way
    calls,      \* the invoke calls under way
    channel,    \* the session's command channel
    attached,   \* does the session emit output to the renderer?
    ended,      \* is the session gone?
    wire,       \* events on their way to the webview
    used        \* used-up bounds

vars == <<r, tasks, calls, channel, attached, ended, wire, used>>
backend == <<channel, attached, ended>>

NoEpoch == 0

Phases == {"idle", "preparing", "detached", "hibernated", "waking", "failed"}

(* An invoke call: by whom it is awaited, a number that tells it from the   *)
(* others, the epoch its continuation uses, and how far it has got.         *)
Call(command, by, number, epoch) ==
    [command |-> command, by |-> by, number |-> number, epoch |-> epoch, at |-> "sent"]

Init ==
    /\ r = [visible |-> TRUE, quiet |-> FALSE, disconnected |-> FALSE,
            phase |-> "idle", epoch |-> 0, pending |-> FALSE,
            timer |-> NoEpoch, detachedEpoch |-> NoEpoch,
            hibernatedRef |-> FALSE, cleanup |-> FALSE,
            hibernated |-> FALSE,       \* the state of the last commit
            nextHibernated |-> FALSE, commit |-> FALSE,
            generation |-> 1, alive |-> TRUE,
            setup |-> "attaching", mode |-> "foreground", backlog |-> 0,
            overlap |-> FALSE]          \* history: see NeverSilent
    /\ tasks = {}
    /\ calls = {Call("attach", "setup", 1, NoEpoch)}
    /\ channel = <<>>
    /\ attached = FALSE
    /\ ended = FALSE
    /\ wire = <<>>
    /\ used = [output |-> 0, shown |-> 0, wakes |-> 0, rebuilds |-> 0]

-----------------------------------------------------------------------------
(* Handlers.                                                                *)

isTerminalAlive(s, generation) == s.alive /\ s.generation = generation

resolveOutputDrainMode(s) ==
    IF s.hibernatedRef THEN "hibernated"
    ELSE IF s.phase \in {"preparing", "detached"} THEN "hibernating"
    ELSE IF s.visible THEN "foreground" ELSE "background"

(* Acts on the drain of the terminal there is now.                          *)
updateOutputDrainMode(s) ==
    IF s.alive THEN [s EXCEPT !.mode = resolveOutputDrainMode(s)] ELSE s

clearHibernateTimer(s) == [s EXCEPT !.timer = NoEpoch]

invalidateHibernation(s) == [clearHibernateTimer(s) EXCEPT !.epoch = @ + 1]

(* The notice it writes stands behind the queue, which is drained for it.   *)
enterDisconnectedState(s) == [s EXCEPT !.disconnected = TRUE, !.backlog = 0]

(* Variant: only the ref is reset; React is not told to build a terminal.   *)
requestWake_RefOnly(s) ==
    [clearHibernateTimer(s) EXCEPT
        !.epoch = @ + 1,
        !.phase = IF @ # "idle" THEN "waking" ELSE @,
        !.hibernatedRef = FALSE]

requestWake(s) ==
    [clearHibernateTimer(s) EXCEPT
        !.epoch = @ + 1,
        !.phase = IF @ # "idle" THEN "waking" ELSE @,
        !.hibernatedRef = FALSE,
        !.nextHibernated = IF s.hibernatedRef THEN FALSE ELSE @,
        !.commit = s.hibernatedRef \/ @]

scheduleHibernate(s) ==
    IF s.visible \/ s.timer # NoEpoch \/ s.phase # "idle" THEN s
    ELSE [s EXCEPT !.epoch = @ + 1, !.timer = s.epoch + 1]

applyVisibilityPolicy(s) ==
    IF ~s.alive THEN s
    ELSE IF s.visible THEN updateOutputDrainMode(clearHibernateTimer(s))
    ELSE scheduleHibernate(updateOutputDrainMode(s))

(* eligible stands for what the model leaves to chance: the session's type, *)
(* the screen, the search bar, AI capture, ZMODEM, peers, a write under way.*)
canHibernateRenderer(s, generation, allowPending, eligible) ==
    /\ isTerminalAlive(s, generation)
    /\ ~s.visible
    /\ allowPending \/ ~s.pending
    /\ s.phase = "idle" \/ (allowPending /\ s.phase \in {"preparing", "detached"})
    /\ eligible
    /\ ~s.disconnected
    /\ s.quiet

cancelRecentOutputHibernate(s) == scheduleHibernate([s EXCEPT !.phase = "idle"])

(* finally of hibernateRenderer.                                            *)
Finally(s, epoch) ==
    [s EXCEPT
        !.pending = FALSE,
        !.phase = IF \/ @ = "preparing"
                     \/ @ = "detached" /\ s.detachedEpoch # epoch
                     \/ @ = "failed" /\ s.detachedEpoch = NoEpoch
                  THEN "idle" ELSE @]

-----------------------------------------------------------------------------
(* hibernateRenderer, from the timer to the first await.                    *)
hibernateRenderer(eligible) ==
    /\ r.timer # NoEpoch
    /\ r.quiet
    /\ LET s == clearHibernateTimer(r)
           start == updateOutputDrainMode(
                        [s EXCEPT !.phase = "preparing", !.pending = TRUE,
                                  !.overlap = @ \/ calls # {} \/ s.setup # "done"])
       IN  IF r.timer # s.epoch
           THEN r' = s /\ UNCHANGED tasks
           ELSE IF ~canHibernateRenderer(s, s.generation, FALSE, eligible)
           THEN r' = [s EXCEPT !.phase = "idle"] /\ UNCHANGED tasks
           ELSE /\ r' = start
                /\ tasks' = tasks \union {[epoch |-> s.epoch, generation |-> s.generation,
                                           pc |-> "draining"]}
    /\ UNCHANGED <<calls, wire, used, backend>>

Goes(t, pc) == tasks' = (tasks \ {t}) \union {[t EXCEPT !.pc = pc]}

Ends(t, s) ==
    /\ r' = Finally(s, t.epoch)
    /\ tasks' = tasks \ {t}
    /\ UNCHANGED calls

(* flushFrameGateAndDrain has written everything, or it has timed out; the  *)
(* drain of a terminal that is gone counts as timed out.                    *)
AfterDrain(t, drained) ==
    IF drained THEN [r EXCEPT !.backlog = 0] ELSE r

DrainedBeforeDetach(t, drained, eligible) ==
    /\ t.pc = "draining"
    /\ drained => isTerminalAlive(r, t.generation)
    /\ LET s == AfterDrain(t, drained)
       IN  IF t.epoch # s.epoch THEN Ends(t, [s EXCEPT !.phase = "idle"])
           ELSE IF ~s.quiet THEN Ends(t, cancelRecentOutputHibernate(s))
           ELSE IF ~canHibernateRenderer(s, t.generation, TRUE, eligible) \/ ~drained
           THEN Ends(t, [s EXCEPT !.phase = "idle"])
           ELSE /\ r' = s
                /\ Goes(t, "detaching")
                /\ calls' = calls \union {Call("detach", "task", t.epoch, t.epoch)}
    /\ UNCHANGED <<wire, used, backend>>

(* Variant: the hibernation is cancelled without attaching again.           *)
Restores_Forgets(t, s, others) ==
    /\ r' = Finally([s EXCEPT !.phase = "idle"], t.epoch)
    /\ tasks' = tasks \ {t}
    /\ calls' = others

(* restoreDetachedRenderer, awaited by the task.                            *)
Restores(t, s, others) ==
    IF s.detachedEpoch # t.epoch
    THEN /\ r' = Finally(s, t.epoch)
         /\ tasks' = tasks \ {t}
         /\ calls' = others
    ELSE /\ r' = s
         /\ Goes(t, "restoring")
         /\ calls' = others \union {Call("attach", "task", t.epoch, t.epoch)}

MayGoOn(t, s, eligible) ==
    t.epoch = s.epoch /\ canHibernateRenderer(s, t.generation, TRUE, eligible)

(* The answer to detach_session_renderer.                                   *)
Detached(t, c, eligible) ==
    LET s == updateOutputDrainMode([r EXCEPT !.detachedEpoch = t.epoch, !.phase = "detached"])
    IN  IF c.at = "failed"
        THEN Restores(t, [r EXCEPT !.phase = "failed"], calls \ {c})
        ELSE IF ~MayGoOn(t, s, eligible)
        THEN Restores(t, s, calls \ {c})
        ELSE /\ r' = clearHibernateTimer(s)
             /\ Goes(t, "draining again")
             /\ calls' = calls \ {c}

(* Drained after the detach: the renderer hibernates, or is rolled back.    *)
DrainedAfterDetach(t, drained, eligible) ==
    /\ t.pc = "draining again"
    /\ drained => isTerminalAlive(r, t.generation)
    /\ LET s == AfterDrain(t, drained)
       IN  IF ~MayGoOn(t, s, eligible) \/ ~drained
           THEN Restores(t, s, calls)
           ELSE Ends(t, [s EXCEPT !.cleanup = TRUE, !.phase = "hibernated",
                                  !.mode = "hibernated", !.hibernatedRef = TRUE,
                                  !.nextHibernated = TRUE, !.commit = TRUE])
    /\ UNCHANGED <<wire, used, backend>>

-----------------------------------------------------------------------------
(* Answers to invoke.                                                       *)

(* The call reaches the command channel, or finds the session gone.         *)
CallArrives(c) ==
    /\ c.at = "sent"
    /\ calls' = (calls \ {c}) \union {[c EXCEPT !.at = IF ended THEN "failed" ELSE "queued"]}
    /\ channel' = IF ended THEN channel ELSE Append(channel, c.command)
    /\ UNCHANGED <<r, tasks, attached, ended, wire, used>>

(* Variant: the phase is left as it was.                                    *)
Restored_KeepsPhase(c) ==
    IF c.at = "failed" THEN enterDisconnectedState(r)
    ELSE [r EXCEPT !.detachedEpoch = NoEpoch]

(* restoreDetachedRenderer after its await.                                 *)
Restored(c) ==
    IF c.at = "failed" THEN enterDisconnectedState(r)
    ELSE [r EXCEPT !.detachedEpoch = NoEpoch, !.phase = "idle"]

(* The end of setup, whether or not its terminal still exists.              *)
SetUp(c) ==
    LET s == IF c.at = "failed"
             THEN enterDisconnectedState([r EXCEPT !.phase = "failed"])
             ELSE updateOutputDrainMode([r EXCEPT !.detachedEpoch = NoEpoch, !.phase = "idle"])
    IN  IF isTerminalAlive(r, c.number) THEN [s EXCEPT !.setup = "done"] ELSE s

(* The attach of the effect's clean-up.                                     *)
CleanedUp(c) ==
    IF c.at = "failed" THEN [r EXCEPT !.phase = "failed"]
    ELSE [r EXCEPT !.phase = "idle",
                   !.detachedEpoch = IF @ = c.epoch THEN NoEpoch ELSE @]

(* restoreDetachedRenderer(...).then in noteOutputActivity.                 *)
NoteRestored(c) ==
    LET s == Restored(c)
    IN  IF ~s.visible /\ s.phase = "idle" /\ s.alive THEN scheduleHibernate(s) ELSE s

Answered(c, eligible) ==
    /\ c.at # "sent"
    /\ \/ /\ c.by = "task"
          /\ \E t \in tasks :
                /\ t.epoch = c.epoch
                /\ \/ c.command = "detach" /\ Detached(t, c, eligible)
                   \/ /\ c.command = "attach"
                      /\ r' = Finally(Restored(c), t.epoch)
                      /\ tasks' = tasks \ {t}
                      /\ calls' = calls \ {c}
       \/ /\ c.by # "task"
          /\ r' = CASE c.by = "setup" -> SetUp(c)
                     [] c.by = "cleanup" -> CleanedUp(c)
                     [] c.by = "note" -> NoteRestored(c)
          /\ calls' = calls \ {c}
          /\ UNCHANGED tasks
    /\ UNCHANGED <<wire, used, backend>>

-----------------------------------------------------------------------------
(* Events.                                                                  *)

(* noteOutputActivity; s has the new event in its backlog.                  *)
noteOutputActivity(s) ==
    LET n == [s EXCEPT !.quiet = FALSE]
        cleared == clearHibernateTimer(n)
        cancelled == [cleared EXCEPT !.epoch = @ + 1]
    IN  IF s.visible THEN n
        ELSE IF s.phase = "idle" THEN scheduleHibernate(cleared)
        ELSE IF s.phase = "preparing"
        THEN scheduleHibernate(updateOutputDrainMode(
                [cancelled EXCEPT !.phase = "idle", !.pending = FALSE]))
        ELSE IF s.phase = "detached" THEN cancelled
        ELSE cleared

Listening == r.alive /\ r.setup \in {"listening", "attaching", "done"}

(* An output event reaches the webview; without a listener it is lost.      *)
OutputArrives ==
    /\ wire # <<>> /\ Head(wire) = "output"
    /\ wire' = Tail(wire)
    /\ r' = IF Listening THEN noteOutputActivity([r EXCEPT !.backlog = @ + 1]) ELSE r
    /\ calls' = IF /\ Listening /\ ~r.visible
                   /\ r.phase = "detached" /\ r.detachedEpoch # NoEpoch
                THEN calls \union {Call("attach", "note", r.epoch, r.detachedEpoch)}
                ELSE calls
    /\ UNCHANGED <<tasks, used, backend>>

(* The session's end reaches the terminal, or the wake listeners of a       *)
(* hibernated one.                                                          *)
ClosedArrives ==
    /\ wire # <<>> /\ Head(wire) = "closed"
    /\ wire' = Tail(wire)
    /\ r' = IF Listening THEN enterDisconnectedState(requestWake(r))
            ELSE IF r.hibernated THEN requestWake(r) ELSE r
    /\ UNCHANGED <<tasks, calls, used, backend>>

(* The effect of a changed visibility.                                      *)
VisibilityChanges ==
    /\ used.shown < MaxShown
    /\ used' = [used EXCEPT !.shown = @ + 1]
    /\ LET s == [r EXCEPT !.visible = ~@]
       IN  r' = applyVisibilityPolicy(IF s.visible THEN requestWake(s) ELSE s)
    /\ UNCHANGED <<tasks, calls, wire, backend>>

(* A focus, AI or ZMODEM event, or input to a terminal that is not idle.    *)
Wake ==
    /\ used.wakes < MaxWakes
    /\ Listening \/ r.hibernated
    /\ used' = [used EXCEPT !.wakes = @ + 1]
    /\ r' = requestWake(r)
    /\ UNCHANGED <<tasks, calls, wire, backend>>

-----------------------------------------------------------------------------
(* React.                                                                   *)

(* The clean-up of the terminal effect.                                     *)
IsHibernateCleanup == r.cleanup /\ r.phase = "hibernated"

CleanUp ==
    IF ~r.alive THEN r
    ELSE [(IF IsHibernateCleanup THEN clearHibernateTimer(r) ELSE invalidateHibernation(r))
             EXCEPT !.alive = FALSE, !.cleanup = FALSE, !.backlog = 0, !.setup = "none"]

(* A commit: clean-up of the old terminal, hibernatedRef, the new terminal. *)
Commit ==
    /\ r.commit
    /\ LET s == [CleanUp EXCEPT !.commit = FALSE, !.hibernated = r.nextHibernated,
                                !.hibernatedRef = r.nextHibernated]
           new == [s EXCEPT !.generation = @ + 1, !.alive = TRUE, !.setup = "starting",
                            !.disconnected = FALSE]
       IN  r' = IF s.hibernated THEN s ELSE applyVisibilityPolicy(updateOutputDrainMode(new))
    /\ calls' = IF r.alive /\ ~IsHibernateCleanup /\ r.detachedEpoch # NoEpoch
                THEN calls \union {Call("attach", "cleanup", r.generation, r.detachedEpoch)}
                ELSE calls
    /\ UNCHANGED <<tasks, wire, used, backend>>

(* A settings change that needs a new xterm instance.                       *)
Rebuild ==
    /\ used.rebuilds < MaxRebuilds
    /\ ~r.hibernated
    /\ used' = [used EXCEPT !.rebuilds = @ + 1]
    /\ r' = [r EXCEPT !.commit = TRUE]
    /\ UNCHANGED <<tasks, calls, wire, backend>>

(* setup: the output listener exists; later the snapshot has been replayed  *)
(* and the session is attached.                                             *)
Listens ==
    /\ r.setup = "starting"
    /\ r' = [r EXCEPT !.setup = "listening"]
    /\ UNCHANGED <<tasks, calls, wire, used, backend>>

SnapshotReplayed ==
    /\ r.setup = "listening"
    /\ r' = [r EXCEPT !.setup = "attaching"]
    /\ calls' = calls \union {Call("attach", "setup", r.generation, NoEpoch)}
    /\ UNCHANGED <<tasks, wire, used, backend>>

(* Variant: an empty queue is written, too.                                 *)
DrainWrites_Empty ==
    /\ r.alive
    /\ r.mode \in {"foreground", "background"}
    /\ r' = [r EXCEPT !.backlog = @ - 1]
    /\ UNCHANGED <<tasks, calls, wire, used, backend>>

(* The scheduler of the drain writes, unless its mode says otherwise.       *)
DrainWrites ==
    /\ r.alive
    /\ r.backlog > 0
    /\ r.mode \in {"foreground", "background"}
    /\ r' = [r EXCEPT !.backlog = @ - 1]
    /\ UNCHANGED <<tasks, calls, wire, used, backend>>

-----------------------------------------------------------------------------
(* The session.                                                             *)

SessionHandles ==
    /\ channel # <<>>
    /\ channel' = Tail(channel)
    /\ attached' = (Head(channel) = "attach")
    /\ UNCHANGED <<r, tasks, calls, ended, wire, used>>

SessionOutputs ==
    /\ attached /\ ~ended
    /\ used.output < MaxOutput
    /\ used' = [used EXCEPT !.output = @ + 1]
    /\ wire' = Append(wire, "output")
    /\ UNCHANGED <<r, tasks, calls, backend>>

SessionEnds ==
    /\ ~ended
    /\ ended' = TRUE
    /\ channel' = <<>>
    /\ wire' = Append(wire, "closed")
    /\ UNCHANGED <<r, tasks, calls, attached, used>>

(* Nothing is under way.                                                    *)
Settled ==
    /\ tasks = {} /\ calls = {} /\ channel = <<>> /\ wire = <<>>
    /\ ~r.commit
    /\ r.setup \in {"done", "none"}

(* Two minutes without output: answers, commits and drains take less.       *)
TimePasses ==
    /\ Settled
    /\ r.backlog = 0 \/ r.mode \notin {"foreground", "background"}
    /\ ~r.quiet
    /\ r' = [r EXCEPT !.quiet = TRUE]
    /\ UNCHANGED <<tasks, calls, wire, used, backend>>

-----------------------------------------------------------------------------
Task(t) ==
    \E drained \in BOOLEAN, eligible \in BOOLEAN :
        DrainedBeforeDetach(t, drained, eligible) \/ DrainedAfterDetach(t, drained, eligible)

Reply(c) == CallArrives(c) \/ \E eligible \in BOOLEAN : Answered(c, eligible)

Next ==
    \/ \E eligible \in BOOLEAN : hibernateRenderer(eligible)
    \/ \E t \in tasks : Task(t)
    \/ \E c \in calls : Reply(c)
    \/ OutputArrives
    \/ ClosedArrives
    \/ VisibilityChanges
    \/ Wake
    \/ Commit
    \/ Rebuild
    \/ Listens
    \/ SnapshotReplayed
    \/ DrainWrites
    \/ SessionHandles
    \/ SessionOutputs
    \/ SessionEnds
    \/ TimePasses

(* Awaits end: drains by their deadline, invoke and listen by an answer;    *)
(* React commits, the event loop delivers, the session reads its channel.   *)
Fairness ==
    /\ WF_vars(\E t \in tasks : Task(t))
    /\ WF_vars(\E c \in calls : Reply(c))
    /\ WF_vars(OutputArrives) /\ WF_vars(ClosedArrives)
    /\ WF_vars(Commit) /\ WF_vars(Listens) /\ WF_vars(SnapshotReplayed)
    /\ WF_vars(DrainWrites) /\ WF_vars(SessionHandles)

Spec == Init /\ [][Next]_vars /\ Fairness

-----------------------------------------------------------------------------
(* Properties.                                                              *)

Calls == [command : {"attach", "detach"}, by : {"task", "setup", "cleanup", "note"},
          number : Nat, epoch : Nat, at : {"sent", "queued", "failed"}]

(* The types of the variables.                                              *)
TypeOK ==
    /\ r.phase \in Phases
    /\ r.mode \in {"foreground", "background", "hibernating", "hibernated"}
    /\ r.setup \in {"none", "starting", "listening", "attaching", "done"}
    /\ r.epoch \in Nat /\ r.timer \in Nat /\ r.detachedEpoch \in Nat /\ r.backlog \in Nat
    /\ tasks \subseteq [epoch : Nat, generation : Nat,
                        pc : {"draining", "detaching", "draining again", "restoring"}]
    /\ calls \subseteq Calls
    /\ channel \in Seq({"attach", "detach"})
    /\ wire \in Seq({"output", "closed"})

(* A terminal that exists gets its session's output: once nothing is under  *)
(* way, whatever detaches, roll-backs, rebuilds and wake-ups crossed, the   *)
(* session is attached to it.  The exception is a hibernation that began    *)
(* while an attach was under way: its answer clears the phase and           *)
(* detachedHibernateEpochRef, and a later roll-back then does nothing.      *)
NeverSilent == Settled /\ r.alive /\ ~ended /\ ~r.overlap => attached

(* Once nothing is under way a shown terminal is not hibernated (requestWake *)
(* resets the ref, the state and the phase that a hibernation sets), and a   *)
(* terminal that is not hibernated exists and has its phase and pending flag *)
(* reset, so that it may hibernate another time.                             *)
ShownIsAwake ==
    Settled /\ ~ended =>
        /\ r.visible => ~r.hibernated
        /\ ~r.hibernated => r.alive /\ r.phase = "idle" /\ ~r.pending

(* Being shown wakes the terminal, or it is hidden again.                   *)
ShowingWakes == r.visible /\ ~ended ~> (r.alive /\ r.phase = "idle") \/ ~r.visible \/ ended
=============================================================================

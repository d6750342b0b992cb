--------------------------- MODULE TransferBackend ---------------------------
(***************************************************************************)
(* The backend of SFTP file transfers: one job per download or upload      *)
(* command, its TransferController (running, paused or cancelled, with a   *)
(* tokio Notify), the map ACTIVE_TRANSFERS that finds the controller by    *)
(* the transfer's id, automatic retries, and the commands pause, resume    *)
(* and cancel.  Tokio runs jobs and commands on several threads, so every  *)
(* stretch between two accesses to shared state is a step of its own.      *)
(*                                                                         *)
(* A user's retry of a transfer is a new job under the same id.  Paths,    *)
(* bytes and settings are left out: a file is its number of chunks, and    *)
(* every input or output may fail.  Directories are not modelled.          *)
(***************************************************************************)
EXTENDS Integers, Sequences, FiniteSets

CONSTANTS
    Ids,            \* the transfers
    Direction,      \* "download" or "upload": that of all of them
    Chunks,         \* chunks of a file
    MaxRetries,     \* the largest value of the setting max_transfer_retries
    MaxFaults,      \* bound: refused, skipped and failing jobs
    MaxStarts,      \* bound: jobs of one transfer
    MaxInbox        \* bound: messages in flight when the backend sends more

ASSUME TransferBackendAssumption ==
    /\ IsFiniteSet(Ids)
    /\ Direction \in {"download", "upload"}
    /\ Chunks \in Nat /\ MaxRetries \in Nat /\ MaxFaults \in Nat
    /\ MaxStarts \in Nat \ {0} /\ MaxInbox \in Nat

VARIABLES
    job,        \* the jobs
    active,     \* ACTIVE_TRANSFERS: whose controller is registered
    faults,     \* used-up bound
    calls,      \* commands on their way to the backend
    inbox       \* events and answers on their way to the webview, in order

backendVars == <<job, active, faults, calls, inbox>>

Jobs == Ids \X (1 .. MaxStarts)

Unregistered == 0

(* A job outside its tries, after so many of them.                          *)
Resting(pc, tries) ==
    [pc |-> pc, tries |-> tries, left |-> 0, ctl |-> "Running", woken |-> FALSE]

NoJob == Resting("none", 0)
JobOver == Resting("over", 0)

BackendInit ==
    /\ job = [j \in Jobs |-> NoJob]
    /\ active = [id \in Ids |-> Unregistered]
    /\ faults = 0
    /\ calls = {}
    /\ inbox = <<>>

Call(op, id, by) == [op |-> op, id |-> id, by |-> by]
Message(id, what) == [id |-> id, what |-> what]

Send(messages) == Len(inbox) < MaxInbox /\ inbox' = inbox \o messages
Emit(id, what) == Send(<<Message(id, what)>>)

Fault == faults < MaxFaults /\ faults' = faults + 1

starts(id) == Cardinality({n \in 1 .. MaxStarts : job[<<id, n>>].pc # "none"})

-----------------------------------------------------------------------------
(* The life of a job.                                                       *)

(* A new controller is registered under the id, over any other one.         *)
StartTry(j) ==
    /\ job[j].pc \in {"invoked", "again"}
    /\ job' = [job EXCEPT ![j] = [pc |-> "open", tries |-> job[j].tries + 1, left |-> Chunks,
                                  ctl |-> "Running", woken |-> FALSE]]
    /\ active' = [active EXCEPT ![j[1]] = j[2]]
    /\ Emit(j[1], "started")
    /\ UNCHANGED <<faults, calls>>

(* The session or its SFTP channel is missing: no event, only the error.    *)
RefuseJob(j) ==
    /\ job[j].pc = "invoked"
    /\ Fault
    /\ job' = [job EXCEPT ![j] = JobOver]
    /\ Emit(j[1], "rejected")
    /\ UNCHANGED <<active, calls>>

(* The target exists and is skipped: a download is reported as completed,   *)
(* an upload not at all.                                                    *)
SkipJob(j) ==
    /\ job[j].pc = "invoked"
    /\ Fault
    /\ job' = [job EXCEPT ![j].pc = "skipped"]
    /\ Send((IF Direction = "download" THEN <<Message(j[1], "completed")>> ELSE <<>>)
            \o <<Message(j[1], "resolved")>>)
    /\ UNCHANGED <<active, calls>>

OpenFile(j) ==
    /\ job[j].pc = "open"
    /\ job' = [job EXCEPT ![j].pc = "ready"]
    /\ UNCHANGED <<faults, active, calls, inbox>>

(* wait_for_transfer_ready: a job is ready once its Notified future exists. *)
(* The future is made before the state is read, and receives every          *)
(* notify_waiters from then on, also the one that comes before the await.   *)
ReadControlState(j) ==
    /\ job[j].pc = "ready"
    /\ job' = [job EXCEPT
                 ![j].pc = CASE job[j].ctl = "Running" -> "io"
                             [] job[j].ctl = "Cancelled" -> "cleanup"
                             [] job[j].ctl = "Paused" -> "paused",
                 ![j].woken = @ /\ job[j].ctl = "Paused"]
    /\ UNCHANGED <<faults, active, calls, inbox>>

AwaitNotified(j) ==
    /\ \/ /\ job[j].pc = "paused"
          /\ job' = [job EXCEPT ![j].pc = "waiting"]
       \/ /\ job[j].pc = "waiting"
          /\ job[j].woken
          /\ job' = [job EXCEPT ![j].pc = "ready", ![j].woken = FALSE]
    /\ UNCHANGED <<faults, active, calls, inbox>>

(* Mutant: the end of the file is missed. *)
MoveChunk_PastEnd(j) ==
    /\ job[j].pc = "io"
    /\ job' = [job EXCEPT ![j].pc = "ready", ![j].left = @ - 1]
    /\ \/ UNCHANGED inbox
       \/ Emit(j[1], "progress")
    /\ UNCHANGED <<faults, active, calls>>

(* A chunk is done; progress is reported when 50 ms have passed.            *)
MoveChunk(j) ==
    /\ job[j].pc = "io"
    /\ job[j].left > 0
    /\ job' = [job EXCEPT ![j].pc = "ready", ![j].left = @ - 1]
    /\ \/ UNCHANGED inbox
       \/ Emit(j[1], "progress")
    /\ UNCHANGED <<faults, active, calls>>

(* An upload's output is abandoned as soon as it is cancelled.              *)
AbandonOutput(j) ==
    /\ Direction = "upload"
    /\ job[j].pc = "io"
    /\ job[j].ctl = "Cancelled"
    /\ job' = [job EXCEPT ![j].pc = "cleanup"]
    /\ UNCHANGED <<faults, active, calls, inbox>>

(* unregister_transfer drops whatever is registered under the id.  It       *)
(* follows the report at once, and so does the answer to the command: one   *)
(* step.                                                                    *)
End(j, messages) ==
    /\ job' = [job EXCEPT ![j] = JobOver]
    /\ active' = [active EXCEPT ![j[1]] = Unregistered]
    /\ Send(messages)
    /\ UNCHANGED calls

EndCompleted(j) ==
    /\ job[j].pc = "io"
    /\ job[j].left = 0
    /\ End(j, <<Message(j[1], "completed"), Message(j[1], "resolved")>>)
    /\ UNCHANGED faults

EndCancelled(j) ==
    /\ job[j].pc = "cleanup"
    /\ End(j, <<Message(j[1], "rejected")>>)
    /\ UNCHANGED faults

(* A try fails: it is the last one, or the setting allows another.  Only    *)
(* here is the setting used, so it is chosen here.                          *)
EndFailed(j) ==
    /\ job[j].pc \in {"open", "io"}
    /\ End(j, <<Message(j[1], "error"), Message(j[1], "rejected")>>)
    /\ Fault

RepeatFailed(j) ==
    /\ job[j].pc \in {"open", "io"}
    /\ job[j].tries <= MaxRetries
    /\ job' = [job EXCEPT ![j] = Resting("again", job[j].tries)]
    /\ active' = [active EXCEPT ![j[1]] = Unregistered]
    /\ Emit(j[1], "error")
    /\ Fault
    /\ UNCHANGED calls

JobStep(j) ==
    \/ StartTry(j) \/ RefuseJob(j) \/ SkipJob(j) \/ OpenFile(j)
    \/ ReadControlState(j) \/ AwaitNotified(j)
    \/ MoveChunk(j) \/ AbandonOutput(j)
    \/ EndCompleted(j) \/ EndCancelled(j) \/ EndFailed(j) \/ RepeatFailed(j)

-----------------------------------------------------------------------------
(* The commands.                                                            *)

(* Mutant: the future is made after the state was read. *)
notify_waiters_Late(w) == [w EXCEPT !.woken = w.pc = "waiting"]

(* notify_waiters reaches every Notified future that exists.                *)
notify_waiters(w) == [w EXCEPT !.woken = w.pc \in {"ready", "paused", "waiting"}]

(* The controller's transitions: what becomes of the job whose controller   *)
(* it is, and the event; no event when the state does not allow it.         *)
pause(w) == [ok |-> w.ctl = "Running", event |-> "paused",
             job |-> [w EXCEPT !.ctl = "Paused"]]
resume(w) == [ok |-> w.ctl = "Paused", event |-> "resumed",
              job |-> notify_waiters([w EXCEPT !.ctl = "Running"])]
cancel(w) == [ok |-> w.ctl # "Cancelled", event |-> "cancelled",
              job |-> notify_waiters([w EXCEPT !.ctl = "Cancelled"])]

Control(op, w) == CASE op = "pause" -> pause(w)
                    [] op = "resume" -> resume(w)
                    [] op = "cancel" -> cancel(w)

(* pause_transfer, resume_transfer, cancel_transfer: nothing happens when   *)
(* no controller is registered.  Only cancelTransfer awaits its answer.     *)
HandleCall(c) ==
    LET j == <<c.id, active[c.id]>>
        done == Control(c.op, job[j])
        effective == active[c.id] # Unregistered /\ done.ok
        answer == IF c.by = "user" THEN <<>> ELSE <<Message(c.id, c.by)>>
    IN  /\ c \in calls
        /\ calls' = calls \ {c}
        /\ job' = IF effective THEN [job EXCEPT ![j] = done.job] ELSE job
        /\ Send((IF effective THEN <<Message(c.id, done.event)>> ELSE <<>>) \o answer)
        /\ UNCHANGED <<faults, active>>

BackendNext ==
    \/ \E j \in Jobs : JobStep(j)
    \/ \E c \in calls : HandleCall(c)
=============================================================================

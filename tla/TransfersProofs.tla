--------------------------- MODULE TransfersProofs ---------------------------
(***************************************************************************)
(* Proofs about Transfers, for any set of transfers, either direction, any *)
(* number of chunks, retries and slots, and all bounds.                    *)
(***************************************************************************)
EXTENDS Transfers, FiniteSetTheorems, SequenceTheorems, TLAPS

(* A job that found itself paused and has not been notified since is paused *)
(* still, from the moment it has read the state.  tries counts no further   *)
(* than the settings allow.                                                 *)
GoodJob(w) ==
    /\ w \in JobStates
    /\ w.pc = "invoked" => w.tries = 0
    /\ w.pc = "again" => w.tries <= MaxRetries
    /\ w.pc \in {"paused", "waiting"} /\ ~w.woken => w.ctl = "Paused"

Calls == [op : {"pause", "resume", "cancel"}, id : enqueued,
          by : {"user", "cancelOne", "cancelParked"}]

Messages ==
    [id : enqueued,
     what : {"started", "progress", "paused", "resumed", "resolved", "rejected",
             "cancelOne", "cancelParked"} \cup Finished]

(* Jobs, calls, messages and rows belong to transfers that were given out.  *)
GoodBackend ==
    /\ active \in [Ids -> 0 .. MaxStarts]
    /\ faults \in 0 .. MaxFaults
    /\ job \in [Jobs -> JobStates]
    /\ \A j \in Jobs : GoodJob(job[j])
    /\ \A j \in Jobs : job[j].pc # "none" => j[1] \in enqueued
    /\ calls \subseteq Calls
    /\ inbox \in Seq(Messages)

GoodPanel ==
    /\ items \in [Ids -> ItemStates] /\ shown \in [Ids -> ItemStates]
    /\ \A id \in Ids : items[id] # Absent => id \in enqueued
    /\ \A id \in Ids : shown[id] # Absent => id \in enqueued
    /\ enqueued \subseteq Ids
    /\ queued \subseteq enqueued /\ parked \subseteq enqueued /\ retried \subseteq enqueued
    /\ dirty \in BOOLEAN /\ effects \in BOOLEAN
    /\ clicks \in 0 .. MaxClicks

IInv == GoodBackend /\ GoodPanel

-----------------------------------------------------------------------------
(* Messages.                                                                *)

(* Sending good messages leaves good messages under way.                    *)
LEMMA SendGood ==
    ASSUME inbox \in Seq(Messages), NEW m \in Seq(Messages), Send(m)
    PROVE  inbox' \in Seq(Messages)
  BY DEF Send

(* One message of a known transfer is good.                                 *)
LEMMA OneMessage ==
    ASSUME NEW id \in enqueued,
           NEW what \in {"started", "progress", "paused", "resumed", "resolved", "rejected",
                         "cancelOne", "cancelParked"} \cup Finished
    PROVE  <<Message(id, what)>> \in Seq(Messages)
<1>1. Message(id, what) \in Messages
  BY DEF Message, Messages, Finished
<1> QED BY <1>1

(* And so are two.                                                          *)
LEMMA TwoMessages ==
    ASSUME NEW id \in enqueued,
           NEW a \in {"started", "progress", "paused", "resumed", "resolved", "rejected",
                      "cancelOne", "cancelParked"} \cup Finished,
           NEW b \in {"started", "progress", "paused", "resumed", "resolved", "rejected",
                      "cancelOne", "cancelParked"} \cup Finished
    PROVE  <<Message(id, a), Message(id, b)>> \in Seq(Messages)
<1>1. Message(id, a) \in Messages /\ Message(id, b) \in Messages
  BY DEF Message, Messages, Finished
<1> QED BY <1>1

(* Emitting an event of a known transfer.                                   *)
LEMMA EmitGood ==
    ASSUME inbox \in Seq(Messages), NEW id \in enqueued,
           NEW what \in {"started", "progress", "paused", "resumed", "resolved", "rejected",
                         "cancelOne", "cancelParked"} \cup Finished,
           Emit(id, what)
    PROVE  inbox' \in Seq(Messages)
  BY OneMessage, SendGood DEF Emit

-----------------------------------------------------------------------------
(* The backend.                                                             *)

(* A job that has ended is good.                                            *)
LEMMA OverGood == GoodJob(JobOver)
  BY TransferBackendAssumption DEF GoodJob, JobStates, JobOver, Resting

(* Changing one job, of a known transfer, into a good one.                  *)
LEMMA JobBecomes ==
    ASSUME GoodBackend, NEW j \in Jobs, j[1] \in enqueued, NEW w, GoodJob(w),
           job' = [job EXCEPT ![j] = w], UNCHANGED enqueued
    PROVE  /\ job' \in [Jobs -> JobStates]
           /\ \A k \in Jobs : GoodJob(job'[k])
           /\ \A k \in Jobs : job'[k].pc # "none" => k[1] \in enqueued'
  BY DEF GoodBackend, GoodJob

(* Every step of a job keeps the backend's part.                            *)
LEMMA JobStepGood ==
    ASSUME IInv, NEW j \in Jobs, JobStep(j), UNCHANGED uiVars
    PROVE  GoodBackend'
<1> USE DEF GoodBackend, uiVars
<1>0. /\ enqueued' = enqueued /\ j = <<j[1], j[2]>> /\ j[1] \in Ids /\ j[2] \in 1 .. MaxStarts
      /\ GoodJob(job[j]) /\ job[j] \in JobStates
      /\ Messages' = Messages /\ Calls' = Calls
  BY DEF IInv, Jobs, Messages, Calls
<1>1. ASSUME job[j].pc # "none" PROVE j[1] \in enqueued
  BY <1>1 DEF IInv
<1>2. CASE StartTry(j)
  <2> USE <1>2 DEF StartTry
  <2> DEFINE w == [pc |-> "open", tries |-> job[j].tries + 1, left |-> Chunks,
                   ctl |-> "Running", woken |-> FALSE]
  <2>1. j[1] \in enqueued
    BY <1>1
  <2>2. GoodJob(w)
    BY <1>0, TransferBackendAssumption DEF GoodJob, JobStates
  <2>3. job' = [job EXCEPT ![j] = w]
    BY <1>0 DEF JobStates
  <2>4. inbox' \in Seq(Messages)
    BY <2>1, EmitGood DEF IInv, Finished
  <2>5. active' \in [Ids -> 0 .. MaxStarts] /\ faults' \in 0 .. MaxFaults /\ calls' = calls
    BY <1>0, TransferBackendAssumption DEF IInv, Fault, End, Unregistered
  <2> QED BY <1>0, <2>1, <2>2, <2>3, <2>4, <2>5, JobBecomes DEF IInv
<1>3. CASE RefuseJob(j)
  <2> USE <1>3 DEF RefuseJob
  <2> DEFINE w == JobOver
  <2>1. j[1] \in enqueued
    BY <1>1
  <2>2. GoodJob(w)
    BY OverGood
  <2>3. job' = [job EXCEPT ![j] = w]
    BY <1>0 DEF JobStates
  <2>4. inbox' \in Seq(Messages)
    BY <2>1, EmitGood DEF IInv, Finished
  <2>5. active' \in [Ids -> 0 .. MaxStarts] /\ faults' \in 0 .. MaxFaults /\ calls' = calls
    BY <1>0, TransferBackendAssumption DEF IInv, Fault, End, Unregistered
  <2> QED BY <1>0, <2>1, <2>2, <2>3, <2>4, <2>5, JobBecomes DEF IInv
<1>4. CASE SkipJob(j)
  <2> USE <1>4 DEF SkipJob
  <2> DEFINE w == [job[j] EXCEPT !.pc = "skipped"]
  <2>1. j[1] \in enqueued
    BY <1>1
  <2>2. GoodJob(w)
    BY <1>0, TransferBackendAssumption DEF GoodJob, JobStates
  <2>3. job' = [job EXCEPT ![j] = w]
    BY <1>0 DEF JobStates
  <2>4. inbox' \in Seq(Messages)
    <3>1. /\ <<Message(j[1], "resolved")>> \in Seq(Messages)
          /\ <<Message(j[1], "completed")>> \in Seq(Messages)
      BY <2>1, OneMessage DEF Finished
    <3> DEFINE first == IF Direction = "download" THEN <<Message(j[1], "completed")>> ELSE <<>>
    <3>2. first \in Seq(Messages)
      BY <3>1
    <3> HIDE DEF first
    <3>3. first \o <<Message(j[1], "resolved")>> \in Seq(Messages)
      BY <3>1, <3>2
    <3> QED BY <3>3, SendGood DEF IInv, first
  <2>5. active' \in [Ids -> 0 .. MaxStarts] /\ faults' \in 0 .. MaxFaults /\ calls' = calls
    BY <1>0, TransferBackendAssumption DEF IInv, Fault, End, Unregistered
  <2> QED BY <1>0, <2>1, <2>2, <2>3, <2>4, <2>5, JobBecomes DEF IInv
<1>5. CASE OpenFile(j)
  <2> USE <1>5 DEF OpenFile
  <2> DEFINE w == [job[j] EXCEPT !.pc = "ready"]
  <2>1. j[1] \in enqueued
    BY <1>1
  <2>2. GoodJob(w)
    BY <1>0, TransferBackendAssumption DEF GoodJob, JobStates
  <2>3. job' = [job EXCEPT ![j] = w]
    BY <1>0 DEF JobStates
  <2>4. inbox' \in Seq(Messages)
    BY <1>0 DEF IInv
  <2>5. active' \in [Ids -> 0 .. MaxStarts] /\ faults' \in 0 .. MaxFaults /\ calls' = calls
    BY <1>0, TransferBackendAssumption DEF IInv, Fault, End, Unregistered
  <2> QED BY <1>0, <2>1, <2>2, <2>3, <2>4, <2>5, JobBecomes DEF IInv
<1>6. CASE ReadControlState(j)
  <2> USE <1>6 DEF ReadControlState
  <2> DEFINE w == [job[j] EXCEPT
                   !.pc = CASE job[j].ctl = "Running" -> "io"
                            [] job[j].ctl = "Cancelled" -> "cleanup"
                            [] job[j].ctl = "Paused" -> "paused",
                   !.woken = @ /\ job[j].ctl = "Paused"]
  <2>1. j[1] \in enqueued
    BY <1>1
  <2>2. GoodJob(w)
    BY <1>0, TransferBackendAssumption DEF GoodJob, JobStates
  <2>3. job' = [job EXCEPT ![j] = w]
    BY <1>0 DEF JobStates
  <2>4. inbox' \in Seq(Messages)
    BY <1>0 DEF IInv
  <2>5. active' \in [Ids -> 0 .. MaxStarts] /\ faults' \in 0 .. MaxFaults /\ calls' = calls
    BY <1>0, TransferBackendAssumption DEF IInv, Fault, End, Unregistered
  <2> QED BY <1>0, <2>1, <2>2, <2>3, <2>4, <2>5, JobBecomes DEF IInv
<1>7. CASE AwaitNotified(j)
  <2> DEFINE w == IF job[j].pc = "paused" THEN [job[j] EXCEPT !.pc = "waiting"]
                  ELSE [job[j] EXCEPT !.pc = "ready", !.woken = FALSE]
  <2>1. j[1] \in enqueued
    BY <1>1, <1>7 DEF AwaitNotified
  <2>2. GoodJob(w)
    BY <1>0 DEF GoodJob, JobStates
  <2>3. job' = [job EXCEPT ![j] = w]
    BY <1>0, <1>7 DEF JobStates, AwaitNotified
  <2> QED BY <1>0, <1>7, <2>1, <2>2, <2>3, JobBecomes DEF IInv, AwaitNotified
<1>8. CASE MoveChunk(j)
  <2> USE <1>8 DEF MoveChunk
  <2> DEFINE w == [job[j] EXCEPT !.pc = "ready", !.left = @ - 1]
  <2>1. j[1] \in enqueued
    BY <1>1
  <2>2. GoodJob(w)
    <3>1. job[j].left - 1 \in 0 .. Chunks
      BY <1>0, TransferBackendAssumption DEF JobStates
    <3>2. w \in JobStates
      BY <1>0, <3>1 DEF JobStates
    <3> QED BY <1>0, <3>2 DEF GoodJob, JobStates
  <2>3. job' = [job EXCEPT ![j] = w]
    BY <1>0 DEF JobStates
  <2>4. inbox' \in Seq(Messages)
    BY <2>1, EmitGood DEF IInv, Finished
  <2>5. active' \in [Ids -> 0 .. MaxStarts] /\ faults' \in 0 .. MaxFaults /\ calls' = calls
    BY <1>0, TransferBackendAssumption DEF IInv, Fault, End, Unregistered
  <2> QED BY <1>0, <2>1, <2>2, <2>3, <2>4, <2>5, JobBecomes DEF IInv
<1>9. CASE AbandonOutput(j)
  <2> USE <1>9 DEF AbandonOutput
  <2> DEFINE w == [job[j] EXCEPT !.pc = "cleanup"]
  <2>1. j[1] \in enqueued
    BY <1>1
  <2>2. GoodJob(w)
    BY <1>0, TransferBackendAssumption DEF GoodJob, JobStates
  <2>3. job' = [job EXCEPT ![j] = w]
    BY <1>0 DEF JobStates
  <2>4. inbox' \in Seq(Messages)
    BY <1>0 DEF IInv
  <2>5. active' \in [Ids -> 0 .. MaxStarts] /\ faults' \in 0 .. MaxFaults /\ calls' = calls
    BY <1>0, TransferBackendAssumption DEF IInv, Fault, End, Unregistered
  <2> QED BY <1>0, <2>1, <2>2, <2>3, <2>4, <2>5, JobBecomes DEF IInv
<1>10. CASE EndCompleted(j)
  <2> USE <1>10 DEF EndCompleted
  <2> DEFINE w == JobOver
  <2>1. j[1] \in enqueued
    BY <1>1
  <2>2. GoodJob(w)
    BY OverGood
  <2>3. job' = [job EXCEPT ![j] = w]
    BY <1>0 DEF JobStates, End
  <2>4. inbox' \in Seq(Messages)
    BY <2>1, TwoMessages, SendGood DEF IInv, End, Finished
  <2>5. active' \in [Ids -> 0 .. MaxStarts] /\ faults' \in 0 .. MaxFaults /\ calls' = calls
    BY <1>0, TransferBackendAssumption DEF IInv, Fault, End, Unregistered
  <2> QED BY <1>0, <2>1, <2>2, <2>3, <2>4, <2>5, JobBecomes DEF IInv
<1>11. CASE EndCancelled(j)
  <2> USE <1>11 DEF EndCancelled
  <2> DEFINE w == JobOver
  <2>1. j[1] \in enqueued
    BY <1>1
  <2>2. GoodJob(w)
    BY OverGood
  <2>3. job' = [job EXCEPT ![j] = w]
    BY <1>0 DEF JobStates, End
  <2>4. inbox' \in Seq(Messages)
    BY <2>1, OneMessage, SendGood DEF IInv, End, Finished
  <2>5. active' \in [Ids -> 0 .. MaxStarts] /\ faults' \in 0 .. MaxFaults /\ calls' = calls
    BY <1>0, TransferBackendAssumption DEF IInv, Fault, End, Unregistered
  <2> QED BY <1>0, <2>1, <2>2, <2>3, <2>4, <2>5, JobBecomes DEF IInv
<1>12. CASE EndFailed(j)
  <2> USE <1>12 DEF EndFailed
  <2> DEFINE w == JobOver
  <2>1. j[1] \in enqueued
    BY <1>1
  <2>2. GoodJob(w)
    BY OverGood
  <2>3. job' = [job EXCEPT ![j] = w]
    BY <1>0 DEF JobStates, End
  <2>4. inbox' \in Seq(Messages)
    BY <2>1, TwoMessages, SendGood DEF IInv, End, Finished
  <2>5. active' \in [Ids -> 0 .. MaxStarts] /\ faults' \in 0 .. MaxFaults /\ calls' = calls
    BY <1>0, TransferBackendAssumption DEF IInv, Fault, End, Unregistered
  <2> QED BY <1>0, <2>1, <2>2, <2>3, <2>4, <2>5, JobBecomes DEF IInv
<1>13. CASE RepeatFailed(j)
  <2> USE <1>13 DEF RepeatFailed
  <2> DEFINE w == Resting("again", job[j].tries)
  <2>1. j[1] \in enqueued
    BY <1>1
  <2>2. GoodJob(w)
    BY <1>0, TransferBackendAssumption DEF GoodJob, JobStates, Resting
  <2>3. job' = [job EXCEPT ![j] = w]
    BY <1>0 DEF JobStates
  <2>4. inbox' \in Seq(Messages)
    BY <2>1, EmitGood DEF IInv, Finished
  <2>5. active' \in [Ids -> 0 .. MaxStarts] /\ faults' \in 0 .. MaxFaults /\ calls' = calls
    BY <1>0, TransferBackendAssumption DEF IInv, Fault, End, Unregistered
  <2> QED BY <1>0, <2>1, <2>2, <2>3, <2>4, <2>5, JobBecomes DEF IInv
<1> QED BY <1>2, <1>3, <1>4, <1>5, <1>6, <1>7, <1>8, <1>9, <1>10, <1>11, <1>12, <1>13 DEF JobStep

(* Notifying a job changes one flag.                                        *)
LEMMA WokenBecomes ==
    ASSUME NEW w \in JobStates, NEW b \in BOOLEAN
    PROVE  LET n == [w EXCEPT !.woken = b]
           IN  /\ n \in JobStates /\ n.pc = w.pc /\ n.tries = w.tries /\ n.ctl = w.ctl
               /\ n.woken = b
  BY DEF JobStates

(* A job between its future and the end of its await has been notified.     *)
LEMMA NotifiedGood ==
    ASSUME NEW w \in JobStates
    PROVE  LET n == notify_waiters(w)
           IN  /\ n \in JobStates /\ n.pc = w.pc /\ n.tries = w.tries
               /\ w.pc \in {"paused", "waiting"} => n.woken
<1> DEFINE b == w.pc \in {"ready", "paused", "waiting"}
<1>1. b \in BOOLEAN /\ (w.pc \in {"paused", "waiting"} => b)
  OBVIOUS
<1>2. notify_waiters(w) = [w EXCEPT !.woken = b]
  BY Zenon DEF notify_waiters
<1> HIDE DEF b
<1> QED BY <1>1, <1>2, WokenBecomes

(* What a command makes of a job: pausing leaves Paused behind, resuming    *)
(* and cancelling notify whoever has read Paused.                           *)
LEMMA ControlGood ==
    ASSUME NEW w, GoodJob(w), NEW op \in {"pause", "resume", "cancel"}
    PROVE  /\ GoodJob(Control(op, w).job)
           /\ Control(op, w).job.pc = w.pc
           /\ Control(op, w).event \in {"paused", "resumed", "cancelled"}
<1>1. CASE op = "pause"
  BY <1>1 DEF Control, pause, GoodJob, JobStates
<1>2. CASE op = "resume"
  <2> DEFINE u == [w EXCEPT !.ctl = "Running"]
  <2>1. u \in JobStates /\ u.pc = w.pc /\ u.tries = w.tries
    BY DEF GoodJob, JobStates
  <2>2. Control(op, w).job = notify_waiters(u) /\ Control(op, w).event = "resumed"
    BY <1>2 DEF Control, resume
  <2> QED BY <2>1, <2>2, NotifiedGood DEF GoodJob
<1>3. CASE op = "cancel"
  <2> DEFINE u == [w EXCEPT !.ctl = "Cancelled"]
  <2>1. u \in JobStates /\ u.pc = w.pc /\ u.tries = w.tries
    BY DEF GoodJob, JobStates
  <2>2. Control(op, w).job = notify_waiters(u) /\ Control(op, w).event = "cancelled"
    BY <1>3 DEF Control, cancel
  <2> QED BY <2>1, <2>2, NotifiedGood DEF GoodJob
<1> QED BY <1>1, <1>2, <1>3

(* A command keeps the backend's part.                                      *)
LEMMA HandleCallGood ==
    ASSUME IInv, NEW c \in calls, HandleCall(c), UNCHANGED uiVars
    PROVE  GoodBackend'
<1> DEFINE j == <<c.id, active[c.id]>>
           done == Control(c.op, job[j])
           effective == active[c.id] # Unregistered /\ done.ok
           event == IF effective THEN <<Message(c.id, done.event)>> ELSE <<>>
           answer == IF c.by = "user" THEN <<>> ELSE <<Message(c.id, c.by)>>
<1>1. /\ enqueued' = enqueued /\ Messages' = Messages /\ Calls' = Calls
      /\ c.id \in enqueued /\ c.id \in Ids
      /\ c.op \in {"pause", "resume", "cancel"}
      /\ c.by \in {"user", "cancelOne", "cancelParked"}
  BY DEF IInv, GoodBackend, GoodPanel, Calls, Messages, uiVars
<1>2. /\ calls' = calls \ {c}
      /\ job' = IF effective THEN [job EXCEPT ![j] = done.job] ELSE job
      /\ Send(event \o answer)
      /\ faults' = faults /\ active' = active
  BY DEF HandleCall
<1>3. active[c.id] # Unregistered => j \in Jobs
  BY <1>1, TransferBackendAssumption DEF IInv, GoodBackend, Jobs, Unregistered
<1>4. ASSUME effective
      PROVE  /\ GoodJob(done.job) /\ done.job.pc = job[j].pc
             /\ done.event \in {"paused", "resumed", "cancelled"}
  BY <1>1, <1>3, <1>4, ControlGood DEF IInv, GoodBackend
<1>5. /\ job' \in [Jobs -> JobStates]
      /\ \A k \in Jobs : GoodJob(job'[k])
      /\ \A k \in Jobs : job'[k].pc # "none" => k[1] \in enqueued'
  <2>1. CASE effective
    <3>1. j[1] \in enqueued
      BY <1>1
    <3>2. GoodJob(done.job) /\ j \in Jobs /\ job' = [job EXCEPT ![j] = done.job]
      BY <1>2, <1>3, <1>4, <2>1
    <3> HIDE DEF done, j
    <3> QED BY <1>1, <3>1, <3>2, JobBecomes DEF IInv
  <2>2. CASE ~effective
    BY <1>1, <1>2, <2>2 DEF IInv, GoodBackend
  <2> QED BY <2>1, <2>2
<1>6. inbox' \in Seq(Messages)
  <2>1. event \in Seq(Messages)
    BY <1>1, <1>4, OneMessage DEF Finished
  <2>2. answer \in Seq(Messages)
    BY <1>1, OneMessage
  <2> HIDE DEF event, answer
  <2>3. event \o answer \in Seq(Messages)
    BY <2>1, <2>2
  <2> QED BY <1>2, <2>3, SendGood DEF IInv, GoodBackend
<1> QED BY <1>1, <1>2, <1>5, <1>6 DEF IInv, GoodBackend

(* The backend's steps leave the panel alone.                               *)
LEMMA BackendGood ==
    ASSUME IInv, BackendNext, UNCHANGED uiVars
    PROVE  IInv'
<1>1. GoodPanel'
  BY DEF IInv, GoodPanel, uiVars
<1>2. GoodBackend'
  BY JobStepGood, HandleCallGood DEF BackendNext
<1> QED BY <1>1, <1>2 DEF IInv

-----------------------------------------------------------------------------
(* The panel.                                                               *)

(* An update of a known row with a good item keeps the map.                 *)
LEMMA UpdateGood ==
    ASSUME IInv, NEW id \in Ids, NEW item \in ItemStates, NEW revision \in BOOLEAN,
           item # Absent => id \in enqueued',
           Update(id, item, revision), enqueued \subseteq enqueued'
    PROVE  /\ items' \in [Ids -> ItemStates] /\ dirty' \in BOOLEAN
           /\ \A i \in Ids : items'[i] # Absent => i \in enqueued'
<1>1. items' = [items EXCEPT ![id] = item]
  BY DEF Update
<1>2. dirty' \in BOOLEAN
  BY Zenon DEF Update
<1> QED BY <1>1, <1>2 DEF IInv, GoodPanel

(* Items with these fields are good ones.                                   *)
LEMMA ItemGood ==
    ASSUME NEW status \in Statuses, NEW queueState \in {"none", "pending", "running"}
    PROVE  Item(status, queueState) \in ItemStates
  BY DEF Item, ItemStates

(* A row that is changed stays a good one.                                  *)
LEMMA ChangedGood ==
    ASSUME IInv, NEW id \in Ids, NEW status \in Statuses,
           NEW queueState \in {"none", "pending", "running"}
    PROVE  /\ Changed(id, status, queueState) \in ItemStates
           /\ Changed(id, status, queueState) # Absent => id \in enqueued
  BY ItemGood DEF Changed, IInv, GoodPanel

(* The backend's part survives a step of the panel that adds good calls.    *)
LEMMA BackendKept ==
    ASSUME IInv, UNCHANGED <<job, active, faults>>,
           enqueued \subseteq enqueued', calls' \subseteq Calls', inbox' \in Seq(Messages')
    PROVE  GoodBackend'
  BY DEF IInv, GoodBackend, GoodJob

(* Render copies the map.                                                   *)
LEMMA RenderGood ==
    ASSUME IInv, Render
    PROVE  IInv'
<1>1. UNCHANGED <<backendVars, enqueued>>
  BY DEF Render
<1>2. GoodBackend'
  BY <1>1 DEF IInv, GoodBackend, GoodJob, backendVars, Calls, Messages
<1>3. GoodPanel'
  BY DEF IInv, GoodPanel, Render
<1> QED BY <1>2, <1>3 DEF IInv

(* The scheduler effect.                                                    *)
LEMMA RunEffectsGood ==
    ASSUME IInv, RunEffects
    PROVE  IInv'
<1>1. PICK S \in SUBSET Ids :
          /\ Chosen(S)
          /\ items' = [id \in Ids |->
                         IF id \in S /\ items[id].status = "queued"
                         THEN Item("transferring", "running") ELSE items[id]]
          /\ dirty' = (dirty \/ items' # items)
          /\ parked' = parked \ S
          /\ queued' = queued \ (S \ parked)
          /\ calls' = calls \cup {Call("resume", id, "user") : id \in S \cap parked}
          /\ job' = [j \in Jobs |-> IF j \in {Invoked(id) : id \in S \ parked}
                                    THEN Resting("invoked", 0) ELSE job[j]]
  BY DEF RunEffects
<1>2. /\ effects' = FALSE /\ enqueued' = enqueued /\ shown' = shown /\ clicks' = clicks
      /\ active' = active /\ faults' = faults /\ inbox' = inbox /\ retried' = retried
      /\ Messages' = Messages /\ Calls' = Calls
  BY DEF RunEffects, Messages, Calls
<1>3. S \subseteq enqueued
  BY <1>1 DEF Chosen, Candidates, IInv, GoodPanel
<1>4. GoodPanel'
  <2>1. Item("transferring", "running") \in ItemStates
    BY ItemGood DEF Statuses, Active
  <2>2. items' \in [Ids -> ItemStates]
    BY <1>1, <2>1 DEF IInv, GoodPanel
  <2>3. \A id \in Ids : items'[id] # Absent => id \in enqueued'
    BY <1>1, <1>2, <1>3 DEF IInv, GoodPanel
  <2>4. dirty' \in BOOLEAN
    BY <1>1, Zenon
  <2> QED BY <1>1, <1>2, <2>2, <2>3, <2>4 DEF IInv, GoodPanel
<1>5. GoodBackend'
  <2>1. calls' \subseteq Calls'
    BY <1>1, <1>2, <1>3 DEF IInv, GoodBackend, GoodPanel, Call, Calls
  <2>2. GoodJob(Resting("invoked", 0)) /\ Resting("invoked", 0) \in JobStates
    BY TransferBackendAssumption DEF GoodJob, JobStates, Resting
  <2>3. /\ job' \in [Jobs -> JobStates]
        /\ \A j \in Jobs : GoodJob(job'[j])
    BY <1>1, <2>2 DEF IInv, GoodBackend
  <2>4. ASSUME NEW j \in Jobs, job'[j].pc # "none" PROVE j[1] \in enqueued'
    <3>1. CASE j \in {Invoked(id) : id \in S \ parked}
      BY <1>2, <1>3, <3>1 DEF Invoked
    <3>2. CASE j \notin {Invoked(id) : id \in S \ parked}
      BY <1>1, <1>2, <2>4, <3>2 DEF IInv, GoodBackend
    <3> QED BY <3>1, <3>2
  <2> QED BY <1>2, <2>1, <2>3, <2>4 DEF IInv, GoodBackend
<1> QED BY <1>4, <1>5 DEF IInv

(* An event or an answer is handled.                                        *)
LEMMA ReceiveGood ==
    ASSUME IInv, Receive
    PROVE  IInv'
<1> DEFINE m == Head(inbox)
<1>1. /\ m \in Messages /\ Tail(inbox) \in Seq(Messages)
      /\ inbox' = Tail(inbox)
      /\ UNCHANGED <<job, active, faults, calls, shown, effects, clicks, enqueued, retried>>
      /\ HandleEvent(m) \/ HandleJobAnswer(m) \/ HandleCancelAnswer(m)
  BY DEF Receive, IInv, GoodBackend
<1> HIDE DEF m
<1>2. m.id \in enqueued /\ m.id \in Ids /\ Messages' = Messages /\ Calls' = Calls
  BY <1>1 DEF Messages, Calls, IInv, GoodPanel
<1>3. items[m.id] \in ItemStates
  BY <1>2 DEF IInv, GoodPanel
<1>4. items[m.id].queueState \in {"none", "pending", "running"}
  BY <1>3 DEF ItemStates
<1>5. GoodBackend'
  BY <1>1, <1>2, BackendKept DEF IInv, GoodBackend
<1>6. ASSUME NEW item \in ItemStates, NEW revision \in BOOLEAN, Update(m.id, item, revision),
             queued' \subseteq queued, parked' \subseteq parked
      PROVE  GoodPanel'
  BY <1>1, <1>2, <1>6, UpdateGood DEF IInv, GoodPanel
<1>7. CASE HandleEvent(m)
  <2>1. /\ Update(m.id, Received(m.id, m.what), m.what \in Finished \cup {"paused"})
        /\ m.what \in {"started", "progress", "paused", "resumed"} \cup Finished
        /\ queued' \subseteq queued /\ parked' \subseteq parked
    BY <1>7 DEF HandleEvent
  <2>2. Received(m.id, m.what) \in ItemStates
    <3>1. CASE m.what = "started"
      <4>1. PICK q \in {"none", "pending", "running"} :
                 Received(m.id, m.what) = Item("transferring", q)
        BY <1>4, <3>1 DEF Received, Finished
      <4>2. "transferring" \in Statuses
        BY DEF Statuses, Active
      <4> QED BY <4>1, <4>2, ItemGood
    <3>2. CASE m.what \in {"progress", "resumed"}
      BY <1>2, <1>4, <3>2, ChangedGood DEF Received, Statuses, Active
    <3>3. CASE m.what = "paused"
      BY <1>2, <1>4, <3>3, ChangedGood DEF Received, Statuses, Active
    <3>4. CASE m.what \in Finished
      <4>1. m.what \in Statuses
        BY <3>4 DEF Statuses
      <4>2. Received(m.id, m.what) = Changed(m.id, m.what, "none")
        BY <3>4 DEF Received, Finished
      <4> QED BY <1>2, <4>1, <4>2, ChangedGood
    <3> QED BY <2>1, <3>1, <3>2, <3>3, <3>4
  <2> DEFINE revision == m.what \in Finished \cup {"paused"}
  <2>3. revision \in BOOLEAN /\ Update(m.id, Received(m.id, m.what), revision)
    BY <2>1
  <2> HIDE DEF revision
  <2> QED BY <1>5, <1>6, <2>1, <2>2, <2>3 DEF IInv
<1>8. CASE HandleJobAnswer(m)
  <2>1. PICK item \in {items[m.id], Changed(m.id, "error", "none")} : Update(m.id, item, TRUE)
    BY <1>8 DEF HandleJobAnswer
  <2>2. item \in ItemStates
    BY <1>2, <1>3, <2>1, ChangedGood DEF Statuses, Finished
  <2>3. queued' \subseteq queued /\ parked' \subseteq parked
    BY <1>8 DEF HandleJobAnswer
  <2> QED BY <1>5, <1>6, <2>1, <2>2, <2>3 DEF IInv
<1>9. CASE HandleCancelAnswer(m)
  <2>1. PICK item \in {items[m.id], Changed(m.id, "cancelled", "none")} : Update(m.id, item, TRUE)
    BY <1>9 DEF HandleCancelAnswer
  <2>2. item \in ItemStates
    BY <1>2, <1>3, <2>1, ChangedGood DEF Statuses, Finished
  <2>3. queued' \subseteq queued /\ parked' \subseteq parked
    BY <1>9 DEF HandleCancelAnswer
  <2> QED BY <1>5, <1>6, <2>1, <2>2, <2>3 DEF IInv
<1> QED BY <1>1, <1>5, <1>7, <1>8, <1>9 DEF IInv

(* What every operation of the user leaves alone, and the calls it makes.   *)
LEMMA ClickGood ==
    ASSUME IInv, Click, calls' \subseteq Calls,
           items' \in [Ids -> ItemStates], dirty' \in BOOLEAN,
           \A i \in Ids : items'[i] # Absent => i \in enqueued,
           queued' \subseteq enqueued, parked' \subseteq enqueued, retried' \subseteq enqueued
    PROVE  IInv'
<1>1. /\ UNCHANGED <<job, active, faults, inbox, shown, effects, enqueued>>
      /\ clicks' \in 0 .. MaxClicks
  BY TransfersAssumption DEF Click, IInv, GoodPanel
<1>2. Messages' = Messages /\ Calls' = Calls
  BY <1>1 DEF Messages, Calls
<1>3. GoodBackend'
  BY <1>1, <1>2, BackendKept DEF IInv, GoodBackend
<1>4. GoodPanel'
  BY <1>1 DEF IInv, GoodPanel
<1> QED BY <1>3, <1>4 DEF IInv

(* A command sent for a known transfer.                                     *)
LEMMA InvokeGood ==
    ASSUME IInv, NEW op \in {"pause", "resume", "cancel"}, NEW id \in enqueued,
           NEW by \in {"user", "cancelOne", "cancelParked"}, Invoke(op, id, by)
    PROVE  calls' \subseteq Calls
  BY DEF IInv, GoodBackend, Invoke, Call, Calls

(* A shown row belongs to a transfer that was given out.                    *)
LEMMA ShownIsKnown ==
    ASSUME IInv, NEW id \in Ids, shown[id].status # "absent"
    PROVE  id \in enqueued
  BY DEF IInv, GoodPanel, Absent

(* The operations of the user.                                              *)
LEMMA UserGood ==
    ASSUME IInv, UserNext
    PROVE  IInv'
<1>0. /\ calls \subseteq Calls /\ queued \subseteq enqueued /\ parked \subseteq enqueued
      /\ retried \subseteq enqueued /\ items \in [Ids -> ItemStates] /\ dirty \in BOOLEAN
      /\ \A i \in Ids : items[i] # Absent => i \in enqueued
  BY DEF IInv, GoodBackend, GoodPanel
<1>1. ASSUME NEW id \in Ids, NEW item \in ItemStates, NEW revision \in BOOLEAN,
             id \in enqueued, Update(id, item, revision), Click, calls' \subseteq Calls,
             queued' \subseteq enqueued, parked' \subseteq enqueued, retried' \subseteq enqueued
      PROVE  IInv'
  <2>1. enqueued' = enqueued
    BY <1>1 DEF Click
  <2> QED BY <1>1, <2>1, UpdateGood, ClickGood
<1>2. ASSUME NEW id \in Ids, enqueueTransfer(id) PROVE IInv'
  <2>1. /\ Update(id, Item("queued", "pending"), TRUE)
        /\ enqueued' = enqueued \cup {id} /\ queued' = queued \cup {id}
        /\ UNCHANGED <<backendVars, shown, parked, effects, clicks, retried>>
    BY <1>2 DEF enqueueTransfer
  <2>2. Item("queued", "pending") \in ItemStates
    BY ItemGood DEF Statuses, Active
  <2>3. /\ items' \in [Ids -> ItemStates] /\ dirty' \in BOOLEAN
        /\ \A i \in Ids : items'[i] # Absent => i \in enqueued'
    BY <2>1, <2>2, UpdateGood
  <2>4. calls' \subseteq Calls'
    BY <1>0, <2>1 DEF Calls, backendVars
  <2>5. inbox' \in Seq(Messages')
    <3>1. Messages \subseteq Messages' /\ inbox' = inbox /\ inbox \in Seq(Messages)
      BY <2>1 DEF Messages, backendVars, IInv, GoodBackend
    <3> QED BY <3>1
  <2>6. GoodBackend'
    BY <2>1, <2>4, <2>5, BackendKept DEF backendVars
  <2> QED BY <2>1, <2>3, <2>6 DEF IInv, GoodPanel
<1>3. ASSUME NEW id \in Ids, pauseTransfer(id) PROVE IInv'
  <2>1. id \in enqueued /\ Click /\ queued' = queued /\ parked' = parked /\ retried' = retried
    BY <1>3, ShownIsKnown DEF pauseTransfer
  <2>2. CASE shown[id].status = "queued" /\ id \in queued \cup parked
    <3>1. PICK item \in {items[id], Item("paused", items[id].queueState), Item("paused", "running")},
               revision \in BOOLEAN : Update(id, item, revision)
      BY <1>3, <2>2 DEF pauseTransfer
    <3>2. item \in ItemStates
      BY <1>0, <3>1, ItemGood DEF Statuses, Active, ItemStates
    <3>3. calls' = calls
      BY <1>3, <2>2 DEF pauseTransfer
    <3> QED BY <1>0, <1>1, <2>1, <3>1, <3>2, <3>3
  <2>3. CASE ~(shown[id].status = "queued" /\ id \in queued \cup parked)
    <3>1. Invoke("pause", id, "user") /\ items' = items /\ dirty' = dirty
      BY <1>3, <2>3 DEF pauseTransfer
    <3> QED BY <1>0, <2>1, <3>1, InvokeGood, ClickGood
  <2> QED BY <2>2, <2>3
<1>4. ASSUME NEW id \in Ids, resumeTransfer(id) PROVE IInv'
  <2>1. id \in enqueued /\ Click /\ queued' = queued /\ retried' = retried
    BY <1>4, ShownIsKnown DEF resumeTransfer
  <2>2. CASE id \in queued \/ shown[id].queueState = "running"
    <3>1. PICK item \in {items[id], Item("queued", items[id].queueState), Item("queued", "pending")} :
               Update(id, item, TRUE)
      BY <1>4, <2>2 DEF resumeTransfer
    <3>2. item \in ItemStates
      BY <1>0, <3>1, ItemGood DEF Statuses, Active, ItemStates
    <3>3. calls' = calls /\ parked' \subseteq enqueued
      BY <1>0, <1>4, <2>1, <2>2 DEF resumeTransfer
    <3> QED BY <1>0, <1>1, <2>1, <3>1, <3>2, <3>3
  <2>3. CASE ~(id \in queued \/ shown[id].queueState = "running")
    <3>1. Invoke("resume", id, "user") /\ items' = items /\ dirty' = dirty /\ parked' = parked
      BY <1>4, <2>3 DEF resumeTransfer
    <3> QED BY <1>0, <2>1, <3>1, InvokeGood, ClickGood
  <2> QED BY <2>2, <2>3
<1>5. ASSUME NEW id \in Ids, cancelTransfer(id) PROVE IInv'
  <2>1. /\ id \in enqueued /\ Click /\ queued' \subseteq enqueued /\ parked' \subseteq enqueued
        /\ retried' = retried
    BY <1>0, <1>5, ShownIsKnown DEF cancelTransfer, Active
  <2>2. CASE id \in queued
    <3>1. PICK item \in {items[id], Changed(id, "cancelled", "none")} : Update(id, item, TRUE)
      BY <1>5, <2>2 DEF cancelTransfer
    <3>2. item \in ItemStates
      BY <1>0, <3>1, ChangedGood DEF Statuses, Finished
    <3>3. calls' = calls
      BY <1>5, <2>2 DEF cancelTransfer
    <3> QED BY <1>0, <1>1, <2>1, <3>1, <3>2, <3>3
  <2>3. CASE id \notin queued
    <3>1. PICK by \in {"cancelParked", "cancelOne"} : Invoke("cancel", id, by)
      BY <1>5, <2>3 DEF cancelTransfer
    <3>2. items' = items /\ dirty' = dirty
      BY <1>5, <2>3 DEF cancelTransfer
    <3> QED BY <1>0, <2>1, <3>1, <3>2, InvokeGood, ClickGood
  <2> QED BY <2>2, <2>3
<1>6. ASSUME NEW id \in Ids, retryTransfer(id) PROVE IInv'
  <2>1. /\ id \in enqueued /\ Click /\ calls' = calls
        /\ Update(id, Item("queued", "pending"), TRUE)
    BY <1>6, ShownIsKnown DEF retryTransfer
  <2>2. queued' \subseteq enqueued /\ parked' \subseteq enqueued /\ retried' \subseteq enqueued
    BY <1>0, <1>6, <2>1 DEF retryTransfer
  <2>3. Item("queued", "pending") \in ItemStates
    BY ItemGood DEF Statuses, Active
  <2> QED BY <1>0, <1>1, <2>1, <2>2, <2>3
<1>7. ASSUME NEW id \in Ids, removeTransfer(id) PROVE IInv'
  <2>1. id \in enqueued /\ Click /\ Update(id, Absent, FALSE)
    BY <1>7 DEF removeTransfer, IInv, GoodPanel
  <2>2. queued' \subseteq enqueued /\ parked' \subseteq enqueued /\ retried' \subseteq enqueued
    BY <1>0, <1>7 DEF removeTransfer
  <2>3. calls' \subseteq Calls
    <3>1. CASE id \in parked
      BY <1>7, <2>1, <3>1, InvokeGood DEF removeTransfer
    <3>2. CASE id \notin parked
      BY <1>0, <1>7, <3>2 DEF removeTransfer
    <3> QED BY <3>1, <3>2
  <2>4. Absent \in ItemStates
    BY DEF Absent, ItemStates, Statuses
  <2> QED BY <1>1, <2>1, <2>2, <2>3, <2>4
<1>8. ASSUME clearCompleted PROVE IInv'
  <2>1. /\ Click /\ dirty' = TRUE /\ calls' = calls
        /\ items' = [id \in Ids |-> IF items[id].status = "completed" THEN Absent ELSE items[id]]
        /\ queued' \subseteq queued /\ parked' \subseteq parked /\ retried' = retried
    BY <1>8 DEF clearCompleted
  <2>2. Absent \in ItemStates
    BY DEF Absent, ItemStates, Statuses
  <2>3. /\ items' \in [Ids -> ItemStates]
        /\ \A i \in Ids : items'[i] # Absent => i \in enqueued
    BY <1>0, <2>1, <2>2
  <2> QED BY <1>0, <2>1, <2>3, ClickGood
<1> QED BY <1>2, <1>3, <1>4, <1>5, <1>6, <1>7, <1>8 DEF UserNext

-----------------------------------------------------------------------------
(* Theorems.                                                                *)

(* The initial state satisfies the invariant.                               *)
LEMMA InitGood == Init => IInv
<1> SUFFICES ASSUME Init PROVE IInv
  OBVIOUS
<1>1. GoodJob(NoJob) /\ NoJob \in JobStates /\ NoJob.pc = "none"
  BY TransferBackendAssumption DEF GoodJob, JobStates, NoJob, Resting
<1>2. Absent \in ItemStates
  BY DEF Absent, ItemStates, Statuses
<1>3. GoodBackend
  BY <1>1, TransferBackendAssumption DEF Init, BackendInit, GoodBackend, Unregistered
<1>4. GoodPanel
  <2>1. /\ items = [id \in Ids |-> Absent] /\ shown = items
        /\ queued = {} /\ parked = {} /\ enqueued = {} /\ retried = {} /\ clicks = 0
        /\ dirty = FALSE /\ effects = FALSE
    BY Zenon DEF Init
  <2>2. dirty \in BOOLEAN /\ effects \in BOOLEAN
    BY <2>1, Zenon
  <2>3. clicks \in 0 .. MaxClicks
    BY <2>1, TransfersAssumption
  <2>4. /\ items \in [Ids -> ItemStates] /\ shown \in [Ids -> ItemStates]
        /\ \A id \in Ids : items[id] = Absent /\ shown[id] = Absent
    BY <1>2, <2>1
  <2> QED BY <2>1, <2>2, <2>3, <2>4 DEF GoodPanel
<1> QED BY <1>3, <1>4 DEF IInv

(* Every step keeps it.                                                     *)
LEMMA NextGood == IInv /\ [Next]_vars => IInv'
<1> SUFFICES ASSUME IInv, [Next]_vars PROVE IInv'
  OBVIOUS
<1>1. CASE UNCHANGED vars
  BY <1>1 DEF vars, backendVars, uiVars, IInv, GoodBackend, GoodPanel, GoodJob, Calls, Messages
<1>2. CASE Next
  BY <1>2, BackendGood, RenderGood, RunEffectsGood, ReceiveGood, UserGood DEF Next
<1> QED BY <1>1, <1>2

(* The inductive invariant of the transfers.                                *)
THEOREM TransfersInductive == Spec => []IInv
<1>1. QED BY InitGood, NextGood, PTL DEF Spec

(* Every variable keeps its type for any number of transfers and retries:   *)
(* no try is counted past the setting, no chunk past the end of the file,   *)
(* and the refs of the panel hold only transfers it has enqueued, although  *)
(* late events re-create rows that were removed.                            *)
THEOREM TransfersTypes == Spec => []TypeOK
<1>1. IInv => TypeOK
  BY DEF IInv, GoodBackend, GoodPanel, TypeOK
<1> QED BY <1>1, TransfersInductive, PTL

(* wait_for_transfer_ready misses no resume_transfer and no cancel_transfer,*)
(* whatever the number of jobs, commands and retries.                       *)
THEOREM NoMissedWakeup == Spec => []WokenWhenResumed
<1>1. IInv => WokenWhenResumed
  BY DEF IInv, GoodBackend, GoodJob, WokenWhenResumed
<1> QED BY <1>1, TransfersInductive, PTL

-----------------------------------------------------------------------------
(* The scheduler.                                                           *)

(* What a render leaves behind: as long as no other is due, the panel shows *)
(* what it knows; a queued transfer is in one of the refs or about to be    *)
(* cancelled; and when the effects have run as well, none of the refs'      *)
(* queued transfers would have had a slot.                                  *)
Rendered == ~dirty => items = shown

Waiting ==
    \A id \in Ids :
        items[id].status = "queued" => id \in queued \cup parked \/ ParkedCancel(id)

SlotsTaken ==
    ~dirty /\ ~effects =>
        \A id \in queued \cup parked :
            items[id].status = "queued" => Cardinality(Counted(items)) >= maxRunning

QueueInv == Rendered /\ Waiting /\ SlotsTaken

(* The larger and the smaller of two numbers.                               *)
LEMMA MaxOfTwo ==
    ASSUME NEW a \in Int, NEW b \in Int
    PROVE  Max({a, b}) \in {a, b} /\ Max({a, b}) >= a /\ Max({a, b}) >= b
<1>1. \E x \in {a, b} : \A y \in {a, b} : x >= y
  <2>1. CASE a >= b
    BY <2>1
  <2>2. CASE b >= a
    BY <2>2
  <2> QED BY <2>1, <2>2
<1>2. Max({a, b}) \in {a, b} /\ \A y \in {a, b} : Max({a, b}) >= y
  BY <1>1, Zenon DEF Max
<1> QED BY <1>2, Zenon

LEMMA MinOfTwo ==
    ASSUME NEW a \in Int, NEW b \in Int
    PROVE  Min({a, b}) \in {a, b} /\ Min({a, b}) =< a /\ Min({a, b}) =< b
<1>1. \E x \in {a, b} : \A y \in {a, b} : x =< y
  <2>1. CASE a =< b
    BY <2>1
  <2>2. CASE b =< a
    BY <2>2
  <2> QED BY <2>1, <2>2
<1>2. Min({a, b}) \in {a, b} /\ \A y \in {a, b} : Min({a, b}) =< y
  BY <1>1, Zenon DEF Min
<1> QED BY <1>2, Zenon

(* The number of slots is a number, whatever was configured.                *)
LEMMA SlotsAreNumbered == maxRunning \in Nat \ {0}
<1> DEFINE up == Max({1, Configured})
           c == Min({10, up})
<1>1. up \in Int /\ up >= 1
  BY MaxOfTwo, TransfersAssumption
<1> HIDE DEF up
<1>2. c \in Int /\ c >= 1
  BY <1>1, MinOfTwo
<1>3. maxRunning = IF c > 1 THEN c - 1 ELSE 1
  BY DEF maxRunning, getBackgroundTransferConcurrency, clampTransferConcurrency, c, up
<1> HIDE DEF c
<1> QED BY <1>2, <1>3

(* What an update of a row does.                                            *)
LEMMA UpdateMeans ==
    ASSUME IInv, NEW id \in Ids, NEW item, NEW revision \in BOOLEAN, Update(id, item, revision)
    PROVE  /\ items'[id] = item
           /\ \A i \in Ids : i # id => items'[i] = items[i]
           /\ ~dirty' => ~dirty /\ ~revision /\ items' = items
<1>1. items \in [Ids -> ItemStates] /\ items' = [items EXCEPT ![id] = item]
  BY DEF IInv, GoodPanel, Update
<1>2. ~dirty' => ~dirty /\ ~revision /\ item = items[id]
  BY Zenon DEF Update
<1>3. item = items[id] => items' = items
  BY <1>1
<1> QED BY <1>1, <1>2, <1>3

(* An update, with a new revision if the refs grow, keeps what was shown    *)
(* and the slots.                                                           *)
LEMMA UpdateCalm ==
    ASSUME IInv, QueueInv, NEW id \in Ids, NEW item, NEW revision \in BOOLEAN,
           Update(id, item, revision), shown' = shown, effects' = effects,
           revision \/ queued' \cup parked' \subseteq queued \cup parked
    PROVE  Rendered' /\ SlotsTaken'
<1>1. ~dirty' => /\ ~dirty /\ items' = items
                 /\ queued' \cup parked' \subseteq queued \cup parked
  BY UpdateMeans
<1> QED BY <1>1 DEF QueueInv, Rendered, SlotsTaken, Counted

(* So does a step that changes no row.                                      *)
LEMMA SameCalm ==
    ASSUME QueueInv, UNCHANGED <<items, shown, dirty, effects>>,
           queued' \cup parked' \subseteq queued \cup parked
    PROVE  Rendered' /\ SlotsTaken'
  BY DEF QueueInv, Rendered, SlotsTaken, Counted

(* A row that is updated waits where it should, the others as before.       *)
LEMMA UpdateWaits ==
    ASSUME IInv, QueueInv, NEW id \in Ids, NEW item, NEW revision \in BOOLEAN,
           Update(id, item, revision),
           item.status = "queued" => id \in queued' \cup parked' \/ ParkedCancel(id)',
           \A i \in Ids \ {id} : i \in queued \cup parked => i \in queued' \cup parked',
           \A i \in Ids \ {id} : ParkedCancel(i) => ParkedCancel(i)'
    PROVE  Waiting'
<1>1. /\ items'[id] = item
      /\ \A i \in Ids : i # id => items'[i] = items[i]
  BY UpdateMeans
<1>2. \A i \in Ids : items[i].status = "queued" => i \in queued \cup parked \/ ParkedCancel(i)
  BY DEF QueueInv, Waiting
<1>3. SUFFICES ASSUME NEW i \in Ids, items'[i].status = "queued"
               PROVE  i \in queued' \cup parked' \/ ParkedCancel(i)'
  BY DEF Waiting
<1>4. CASE i = id
  BY <1>1, <1>3, <1>4
<1>5. CASE i # id
  <2>1. items[i].status = "queued"
    BY <1>1, <1>3, <1>5
  <2>2. i \in Ids \ {id}
    BY <1>5
  <2> QED BY <1>2, <2>1, <2>2
<1> QED BY <1>4, <1>5

(* Commands and answers that stay under way.                                *)
LEMMA CancelKept ==
    ASSUME NEW id, ParkedCancel(id), calls \subseteq calls', inbox' = inbox
    PROVE  ParkedCancel(id)'
  BY DEF ParkedCancel

LEMMA CancelAppended ==
    ASSUME NEW id, inbox \in Seq(Messages), NEW ms \in Seq(Messages), inbox' = inbox \o ms,
           \E k \in DOMAIN inbox : inbox[k] = Message(id, "cancelParked")
    PROVE  ParkedCancel(id)'
<1>1. PICK k \in DOMAIN inbox : inbox[k] = Message(id, "cancelParked")
  OBVIOUS
<1>2. k \in DOMAIN inbox' /\ inbox'[k] = Message(id, "cancelParked")
  BY <1>1
<1> QED BY <1>2 DEF ParkedCancel

LEMMA CancelTail ==
    ASSUME NEW id, inbox \in Seq(Messages), inbox # <<>>, inbox' = Tail(inbox), calls' = calls,
           ParkedCancel(id), Head(inbox) # Message(id, "cancelParked")
    PROVE  ParkedCancel(id)'
<1>1. CASE Call("cancel", id, "cancelParked") \in calls
  BY <1>1 DEF ParkedCancel
<1>2. CASE \E k \in DOMAIN inbox : inbox[k] = Message(id, "cancelParked")
  <2>1. PICK k \in DOMAIN inbox : inbox[k] = Message(id, "cancelParked")
    BY <1>2
  <2>2. k # 1
    BY <2>1
  <2>3. k - 1 \in DOMAIN inbox' /\ inbox'[k - 1] = inbox[k]
    BY <2>1, <2>2
  <2> QED BY <2>1, <2>3 DEF ParkedCancel
<1> QED BY <1>1, <1>2 DEF ParkedCancel

-----------------------------------------------------------------------------
(* What the backend's steps have in common.                                 *)

(* The messages that leave a row ended: whoever receives one sees the       *)
(* transfer completed, failed, cancelled or gone.                           *)
Ending == Finished \cup {"rejected", "cancelOne", "cancelParked"}

(* A job whose controller is registered is between its start and its end.   *)
Underway == {"open", "ready", "paused", "waiting", "io", "cleanup"}

Live(id) == \E n \in 1 .. MaxStarts : job[<<id, n>>].pc \notin {"none", "over"}

(* What the job's controller has to do with it: a job goes on in the state  *)
(* its controller is in, a try that starts says so, and one that is to be   *)
(* repeated has told of its failure.                                        *)
Turns(j, w, ms) ==
    /\ \/ /\ w.pc \in Underway => job[j].pc \in Underway /\ w.ctl = job[j].ctl
          /\ \A k \in DOMAIN ms : ms[k].what \notin {"paused", "resumed"}
       \/ /\ job[j].pc \in {"invoked", "again"} /\ w.pc = "open"
          /\ ms = <<Message(j[1], "started")>>
    /\ w.pc # "invoked"
    /\ w.pc = "again" => \E k \in DOMAIN ms : ms[k].what \in Finished

(* The job j becomes w and sends ms; it ends with a message that says so.   *)
JobMoves(j, w, ms) ==
    /\ Turns(j, w, ms)
    /\ job[j].pc \notin {"none", "over"} /\ w.pc # "none"
    /\ job' = [job EXCEPT ![j] = w] /\ calls' = calls
    /\ ms \in Seq(Messages) /\ inbox' = inbox \o ms
    /\ \A k \in DOMAIN ms : ms[k].id = j[1]
    /\ w.pc = "over" => /\ \A k \in DOMAIN ms : ms[k].what \in Ending \cup {"resolved"}
                        /\ \E k \in DOMAIN ms : ms[k].what \in Ending
    /\ \/ active' = active /\ (job[j].pc \in Underway => w.pc \in Underway)
       \/ active' = [active EXCEPT ![j[1]] = Unregistered]
       \/ active' = [active EXCEPT ![j[1]] = j[2]] /\ w.pc \in Underway

Told ==
    {"started", "progress", "paused", "resumed", "resolved", "rejected",
     "cancelOne", "cancelParked"} \cup Finished

(* No message, one, or two of the same transfer.                            *)
LEMMA SendsNothing ==
    ASSUME inbox \in Seq(Messages), inbox' = inbox
    PROVE  /\ <<>> \in Seq(Messages) /\ inbox' = inbox \o <<>>
           /\ \A k \in DOMAIN <<>> : FALSE
  OBVIOUS

LEMMA SendsOne ==
    ASSUME inbox \in Seq(Messages), NEW id \in enqueued,
           NEW what \in Told
    PROVE  LET ms == <<Message(id, what)>>
           IN  /\ ms \in Seq(Messages)
               /\ \A k \in DOMAIN ms : ms[k].id = id /\ ms[k].what = what
               /\ 1 \in DOMAIN ms /\ ms[1].what = what
  BY OneMessage DEF Message, Told

LEMMA SendsTwo ==
    ASSUME inbox \in Seq(Messages), NEW id \in enqueued,
           NEW a \in Told, NEW b \in Told
    PROVE  LET ms == <<Message(id, a), Message(id, b)>>
           IN  /\ ms \in Seq(Messages)
               /\ \A k \in DOMAIN ms : ms[k].id = id /\ ms[k].what \in {a, b}
               /\ 1 \in DOMAIN ms /\ ms[1].what = a
  BY TwoMessages DEF Message, Told

LEMMA Joined ==
    ASSUME NEW T, NEW a \in T, NEW b \in T
    PROVE  <<a>> \o <<b>> = <<a, b>> /\ <<>> \o <<a>> = <<a>>
<1>1. <<a>> \in Seq(T) /\ <<b>> \in Seq(T)
  OBVIOUS
<1>2. <<>> \o <<a>> = <<a>>
  BY <1>1, ConcatEmptySeq
<1>3. <<a>> \o <<b>> = <<a, b>>
  <2> DEFINE s == <<a>> \o <<b>>
             t == <<a, b>>
  <2>1. s \in Seq(T) /\ t \in Seq(T) /\ Len(s) = 2 /\ Len(t) = 2
    BY <1>1
  <2>2. s[1] = t[1] /\ s[2] = t[2]
    BY <1>1
  <2> HIDE DEF s, t
  <2>3. \A i \in 1 .. Len(s) : s[i] = t[i]
    BY <2>1, <2>2
  <2>4. s = t
    BY <2>1, <2>3, SeqEqual
  <2> QED BY <2>4 DEF s, t
<1> QED BY <1>2, <1>3, Zenon

LEMMA FirstThen ==
    ASSUME NEW T, NEW e \in Seq(T), NEW a \in Seq(T), Len(e) = 1
    PROVE  /\ e \o a \in Seq(T) /\ 1 \in DOMAIN (e \o a) /\ (e \o a)[1] = e[1]
           /\ \A k \in DOMAIN (e \o a) : k # 1 => k - 1 \in DOMAIN a /\ (e \o a)[k] = a[k - 1]
<1> DEFINE n == Len(a)
           m == e \o a
<1>1. n \in Nat /\ DOMAIN a = 1 .. n /\ m \in Seq(T) /\ Len(m) = 1 + n
  <2>1. n \in Nat /\ DOMAIN a = 1 .. n
    BY LenProperties
  <2>2. m \in Seq(T) /\ Len(m) = Len(e) + Len(a)
    BY ConcatProperties
  <2> QED BY <2>1, <2>2
<1>2. DOMAIN m = 1 .. 1 + n
  BY <1>1
<1>3. m[1] = e[1]
  BY <1>1
<1>4. ASSUME NEW k \in 1 .. 1 + n, k # 1 PROVE k - 1 \in 1 .. n /\ m[k] = a[k - 1]
  BY <1>1, <1>4
<1> HIDE DEF m, n
<1>5. 1 \in 1 .. 1 + n
  BY <1>1
<1>6. /\ m \in Seq(T) /\ 1 \in DOMAIN m /\ m[1] = e[1]
      /\ \A k \in DOMAIN m : k # 1 => k - 1 \in DOMAIN a /\ m[k] = a[k - 1]
  BY <1>1, <1>2, <1>3, <1>4, <1>5
<1> QED BY <1>6 DEF m

(* Every step of a job is such a move.                                      *)
LEMMA JobStepMoves ==
    ASSUME IInv, NEW j \in Jobs, JobStep(j), UNCHANGED uiVars
    PROVE  \E w, ms : JobMoves(j, w, ms)
<1>0. /\ j = <<j[1], j[2]>> /\ j[1] \in Ids /\ j[2] \in 1 .. MaxStarts
      /\ job[j] \in JobStates /\ inbox \in Seq(Messages)
  BY DEF IInv, GoodBackend, Jobs
<1>t. {"started", "progress", "resolved", "rejected", "completed", "error"} \subseteq Told
  BY DEF Told, Finished
<1>1. ASSUME job[j].pc # "none" PROVE j[1] \in enqueued
  BY <1>1 DEF IInv, GoodBackend
<1>2. CASE StartTry(j)
  <2> USE <1>2 DEF StartTry
  <2> DEFINE w == [pc |-> "open", tries |-> job[j].tries + 1, left |-> Chunks,
                   ctl |-> "Running", woken |-> FALSE]
             ms == <<Message(j[1], "started")>>
  <2>1. j[1] \in enqueued /\ w.pc = "open"
    BY <1>1
  <2>2. ms \in Seq(Messages) /\ \A k \in DOMAIN ms : ms[k].id = j[1]
    BY <1>0, <2>1, <1>t, SendsOne
  <2>3. inbox' = inbox \o ms
    BY DEF Emit, Send
  <2>5. Turns(j, w, ms)
    BY <2>1 DEF Turns
  <2>4. JobMoves(j, w, ms)
    BY <2>1, <2>2, <2>3, <2>5 DEF JobMoves, Underway
  <2> QED BY <2>4
<1>3. CASE RefuseJob(j)
  <2> USE <1>3 DEF RefuseJob
  <2> DEFINE ms == <<Message(j[1], "rejected")>>
  <2>1. j[1] \in enqueued /\ JobOver.pc = "over"
    BY <1>1 DEF JobOver, Resting
  <2>2. /\ ms \in Seq(Messages) /\ \A k \in DOMAIN ms : ms[k].id = j[1] /\ ms[k].what = "rejected"
        /\ 1 \in DOMAIN ms
    BY <1>0, <2>1, <1>t, SendsOne
  <2>3. inbox' = inbox \o ms
    BY DEF Emit, Send
  <2> HIDE DEF ms
  <2>4. JobMoves(j, JobOver, ms)
    BY <2>1, <2>2, <2>3 DEF JobMoves, Underway, Ending, Turns
  <2> QED BY <2>4
<1>4. CASE SkipJob(j)
  <2> USE <1>4 DEF SkipJob
  <2> DEFINE w == [job[j] EXCEPT !.pc = "skipped"]
             first == IF Direction = "download" THEN <<Message(j[1], "completed")>> ELSE <<>>
             ms == first \o <<Message(j[1], "resolved")>>
  <2>1. j[1] \in enqueued /\ w.pc = "skipped" /\ job' = [job EXCEPT ![j] = w]
    BY <1>0, <1>1 DEF JobStates
  <2>2. /\ ms \in Seq(Messages)
        /\ \A k \in DOMAIN ms : ms[k].id = j[1] /\ ms[k].what \in {"completed", "resolved"}
    <3>0. Message(j[1], "completed") \in Messages /\ Message(j[1], "resolved") \in Messages
      BY <2>1 DEF Message, Messages, Finished
    <3>1. CASE Direction = "download"
      <4>1. ms = <<Message(j[1], "completed"), Message(j[1], "resolved")>>
        BY <3>1, <3>0, Joined
      <4> HIDE DEF ms
      <4> QED BY <1>0, <2>1, <4>1, <1>t, SendsTwo
    <3>2. CASE Direction # "download"
      <4>1. ms = <<Message(j[1], "resolved")>>
        BY <3>2, <3>0, Joined
      <4> HIDE DEF ms
      <4> QED BY <1>0, <2>1, <4>1, <1>t, SendsOne
    <3> QED BY <3>1, <3>2
  <2>3. inbox' = inbox \o ms
    BY DEF Send
  <2> HIDE DEF ms
  <2>4. JobMoves(j, w, ms)
    BY <2>1, <2>2, <2>3 DEF JobMoves, Underway, Turns
  <2> QED BY <2>4
<1>5. CASE OpenFile(j)
  <2> DEFINE w == [job[j] EXCEPT !.pc = "ready"]
  <2>1. /\ w.pc \in Underway /\ w.ctl = job[j].ctl /\ job[j].pc \in Underway
        /\ job' = [job EXCEPT ![j] = w]
    BY <1>0, <1>5 DEF JobStates, OpenFile, Underway
  <2>2. job[j].pc \notin {"none", "over"} /\ calls' = calls /\ active' = active /\ inbox' = inbox
    BY <1>5 DEF OpenFile
  <2> HIDE DEF w
  <2>3. JobMoves(j, w, <<>>)
    BY <1>0, <2>1, <2>2, SendsNothing DEF JobMoves, Underway, Turns
  <2> QED BY <2>3
<1>6. CASE ReadControlState(j)
  <2> DEFINE w == [job[j] EXCEPT
                   !.pc = CASE job[j].ctl = "Running" -> "io"
                            [] job[j].ctl = "Cancelled" -> "cleanup"
                            [] job[j].ctl = "Paused" -> "paused",
                   !.woken = @ /\ job[j].ctl = "Paused"]
  <2>1. /\ w.pc \in Underway /\ w.ctl = job[j].ctl /\ job[j].pc \in Underway
        /\ job' = [job EXCEPT ![j] = w]
    BY <1>0, <1>6 DEF JobStates, ReadControlState, Underway
  <2>2. job[j].pc \notin {"none", "over"} /\ calls' = calls /\ active' = active /\ inbox' = inbox
    BY <1>6 DEF ReadControlState
  <2> HIDE DEF w
  <2>3. JobMoves(j, w, <<>>)
    BY <1>0, <2>1, <2>2, SendsNothing DEF JobMoves, Underway, Turns
  <2> QED BY <2>3
<1>7. CASE AwaitNotified(j)
  <2> DEFINE w == IF job[j].pc = "paused" THEN [job[j] EXCEPT !.pc = "waiting"]
                  ELSE [job[j] EXCEPT !.pc = "ready", !.woken = FALSE]
  <2>1. /\ w.pc \in Underway /\ w.ctl = job[j].ctl /\ job[j].pc \in Underway
        /\ job' = [job EXCEPT ![j] = w]
    BY <1>0, <1>7 DEF JobStates, AwaitNotified, Underway
  <2>2. job[j].pc \notin {"none", "over"} /\ calls' = calls /\ active' = active /\ inbox' = inbox
    BY <1>7 DEF AwaitNotified
  <2> HIDE DEF w
  <2>3. JobMoves(j, w, <<>>)
    BY <1>0, <2>1, <2>2, SendsNothing DEF JobMoves, Underway, Turns
  <2> QED BY <2>3
<1>8. CASE AbandonOutput(j)
  <2> DEFINE w == [job[j] EXCEPT !.pc = "cleanup"]
  <2>1. /\ w.pc \in Underway /\ w.ctl = job[j].ctl /\ job[j].pc \in Underway
        /\ job' = [job EXCEPT ![j] = w]
    BY <1>0, <1>8 DEF JobStates, AbandonOutput, Underway
  <2>2. job[j].pc \notin {"none", "over"} /\ calls' = calls /\ active' = active /\ inbox' = inbox
    BY <1>8 DEF AbandonOutput
  <2> HIDE DEF w
  <2>3. JobMoves(j, w, <<>>)
    BY <1>0, <2>1, <2>2, SendsNothing DEF JobMoves, Underway, Turns
  <2> QED BY <2>3
<1>9. CASE MoveChunk(j)
  <2> DEFINE w == [job[j] EXCEPT !.pc = "ready", !.left = @ - 1]
             ms == <<Message(j[1], "progress")>>
  <2>1. /\ w.pc = "ready" /\ w.ctl = job[j].ctl /\ job[j].pc = "io"
        /\ job' = [job EXCEPT ![j] = w] /\ j[1] \in enqueued
    BY <1>0, <1>1, <1>9 DEF JobStates, MoveChunk
  <2>2. /\ job[j].pc \notin {"none", "over"} /\ calls' = calls /\ active' = active
        /\ inbox' = inbox \/ inbox' = inbox \o ms
    BY <1>9 DEF MoveChunk, Emit, Send
  <2>3. /\ ms \in Seq(Messages)
        /\ \A k \in DOMAIN ms : ms[k].id = j[1] /\ ms[k].what = "progress"
    BY <1>0, <2>1, <1>t, SendsOne
  <2> HIDE DEF w, ms
  <2>4. JobMoves(j, w, <<>>) \/ JobMoves(j, w, ms)
    BY <1>0, <2>1, <2>2, <2>3, SendsNothing DEF JobMoves, Underway, Turns
  <2> QED BY <2>4
<1>10. CASE EndCompleted(j)
  <2> DEFINE ms == <<Message(j[1], "completed"), Message(j[1], "resolved")>>
  <2>1. /\ job[j].pc \notin {"none", "over"} /\ calls' = calls /\ inbox' = inbox \o ms
        /\ job' = [job EXCEPT ![j] = JobOver]
        /\ active' = [active EXCEPT ![j[1]] = Unregistered]
    BY <1>10 DEF EndCompleted, End, Send
  <2>2. j[1] \in enqueued /\ JobOver.pc = "over"
    BY <1>1, <2>1 DEF JobOver, Resting
  <2>3. /\ ms \in Seq(Messages)
        /\ \A k \in DOMAIN ms : ms[k].id = j[1] /\ ms[k].what \in {"completed", "resolved"}
        /\ 1 \in DOMAIN ms /\ ms[1].what = "completed"
    BY <1>0, <2>2, <1>t, SendsTwo
  <2> HIDE DEF ms
  <2>4. JobMoves(j, JobOver, ms)
    BY <2>1, <2>2, <2>3 DEF JobMoves, Ending, Finished, Turns, Underway
  <2> QED BY <2>4
<1>11. CASE EndCancelled(j)
  <2> DEFINE ms == <<Message(j[1], "rejected")>>
  <2>1. /\ job[j].pc \notin {"none", "over"} /\ calls' = calls /\ inbox' = inbox \o ms
        /\ job' = [job EXCEPT ![j] = JobOver]
        /\ active' = [active EXCEPT ![j[1]] = Unregistered]
    BY <1>11 DEF EndCancelled, End, Send
  <2>2. j[1] \in enqueued /\ JobOver.pc = "over"
    BY <1>1, <2>1 DEF JobOver, Resting
  <2>3. /\ ms \in Seq(Messages)
        /\ \A k \in DOMAIN ms : ms[k].id = j[1] /\ ms[k].what \in {"rejected"}
        /\ 1 \in DOMAIN ms /\ ms[1].what = "rejected"
    BY <1>0, <2>2, <1>t, SendsOne
  <2> HIDE DEF ms
  <2>4. JobMoves(j, JobOver, ms)
    BY <2>1, <2>2, <2>3 DEF JobMoves, Ending, Finished, Turns, Underway
  <2> QED BY <2>4
<1>12. CASE EndFailed(j)
  <2> DEFINE ms == <<Message(j[1], "error"), Message(j[1], "rejected")>>
  <2>1. /\ job[j].pc \notin {"none", "over"} /\ calls' = calls /\ inbox' = inbox \o ms
        /\ job' = [job EXCEPT ![j] = JobOver]
        /\ active' = [active EXCEPT ![j[1]] = Unregistered]
    BY <1>12 DEF EndFailed, End, Send
  <2>2. j[1] \in enqueued /\ JobOver.pc = "over"
    BY <1>1, <2>1 DEF JobOver, Resting
  <2>3. /\ ms \in Seq(Messages)
        /\ \A k \in DOMAIN ms : ms[k].id = j[1] /\ ms[k].what \in {"error", "rejected"}
        /\ 1 \in DOMAIN ms /\ ms[1].what = "error"
    BY <1>0, <2>2, <1>t, SendsTwo
  <2> HIDE DEF ms
  <2>4. JobMoves(j, JobOver, ms)
    BY <2>1, <2>2, <2>3 DEF JobMoves, Ending, Finished, Turns, Underway
  <2> QED BY <2>4
<1>13. CASE RepeatFailed(j)
  <2> DEFINE w == Resting("again", job[j].tries)
             ms == <<Message(j[1], "error")>>
  <2>1. /\ job[j].pc \notin {"none", "over"} /\ calls' = calls /\ inbox' = inbox \o ms
        /\ job' = [job EXCEPT ![j] = w]
        /\ active' = [active EXCEPT ![j[1]] = Unregistered]
    BY <1>13 DEF RepeatFailed, Emit, Send
  <2>2. j[1] \in enqueued /\ w.pc = "again"
    BY <1>1, <2>1 DEF Resting
  <2>3. /\ ms \in Seq(Messages) /\ 1 \in DOMAIN ms
        /\ \A k \in DOMAIN ms : ms[k].id = j[1] /\ ms[k].what = "error"
    BY <1>0, <2>2, <1>t, SendsOne
  <2> HIDE DEF w, ms
  <2>4. JobMoves(j, w, ms)
    BY <2>1, <2>2, <2>3 DEF JobMoves, Turns, Finished, Underway
  <2> QED BY <2>4
<1> QED BY <1>2, <1>3, <1>4, <1>5, <1>6, <1>7, <1>8, <1>9, <1>10, <1>11, <1>12, <1>13 DEF JobStep

(* What a command does to the controller: it changes nothing, or stops it,  *)
(* or pauses a running one, or resumes one, and then says so first.         *)
Commands(c, ms) ==
    LET j == <<c.id, active[c.id]>>
    IN  /\ \A i \in Jobs : i # j => job'[i] = job[i]
        /\ \/ /\ \A k \in DOMAIN ms : ms[k].what \notin {"paused", "resumed"}
              /\ \A i \in Jobs : job'[i].ctl = "Running" => job[i].ctl = "Running"
           \/ /\ j \in Jobs /\ active[c.id] # Unregistered /\ 1 \in DOMAIN ms
              /\ \/ ms[1].what = "paused" /\ job[j].ctl = "Running" /\ job'[j].ctl = "Paused"
                 \/ ms[1].what = "resumed" /\ c.op = "resume"
              /\ \A k \in DOMAIN ms : k # 1 => ms[k].what \in Ending

(* A command tells of a registered controller, and answers.                 *)
CallMoves(c, ms) ==
    /\ Commands(c, ms)
    /\ calls' = calls \ {c} /\ active' = active
    /\ job' \in [Jobs -> JobStates]
    /\ \A j \in Jobs : job'[j].pc = job[j].pc
    /\ ms \in Seq(Messages) /\ inbox' = inbox \o ms
    /\ \A k \in DOMAIN ms : /\ ms[k].id = c.id
                            /\ ms[k].what \in Ending \/ active[c.id] # Unregistered
    /\ c.by # "user" => \E k \in DOMAIN ms : ms[k] = Message(c.id, c.by)

LEMMA HandleCallMoves ==
    ASSUME IInv, NEW c \in calls, HandleCall(c), UNCHANGED uiVars
    PROVE  \E ms : CallMoves(c, ms)
<1> DEFINE j == <<c.id, active[c.id]>>
           done == Control(c.op, job[j])
           effective == active[c.id] # Unregistered /\ done.ok
           event == IF effective THEN <<Message(c.id, done.event)>> ELSE <<>>
           answer == IF c.by = "user" THEN <<>> ELSE <<Message(c.id, c.by)>>
           ms == event \o answer
<1>1. /\ c.id \in enqueued /\ c.id \in Ids
      /\ c.op \in {"pause", "resume", "cancel"}
      /\ c.by \in {"user", "cancelOne", "cancelParked"}
      /\ inbox \in Seq(Messages) /\ job \in [Jobs -> JobStates]
  BY DEF IInv, GoodBackend, GoodPanel, Calls
<1>2. /\ calls' = calls \ {c}
      /\ job' = IF effective THEN [job EXCEPT ![j] = done.job] ELSE job
      /\ inbox' = inbox \o ms
      /\ active' = active
  BY DEF HandleCall, Send
<1>3. active[c.id] # Unregistered => j \in Jobs
  BY <1>1, TransferBackendAssumption DEF IInv, GoodBackend, Jobs, Unregistered
<1>4. ASSUME effective
      PROVE  /\ GoodJob(done.job) /\ done.job.pc = job[j].pc
             /\ done.event \in {"paused", "resumed", "cancelled"}
  BY <1>1, <1>3, <1>4, ControlGood DEF IInv, GoodBackend
<1>5. job' \in [Jobs -> JobStates] /\ \A k \in Jobs : job'[k].pc = job[k].pc
  <2>1. CASE effective
    <3>1. GoodJob(done.job) /\ j \in Jobs /\ job' = [job EXCEPT ![j] = done.job]
          /\ done.job.pc = job[j].pc
      BY <1>2, <1>3, <1>4, <2>1
    <3> HIDE DEF done, j
    <3> QED BY <1>1, <3>1 DEF GoodJob
  <2>2. CASE ~effective
    BY <1>1, <1>2, <2>2
  <2> QED BY <2>1, <2>2
<1>6. /\ event \in Seq(Messages)
      /\ \A k \in DOMAIN event : event[k].id = c.id /\ active[c.id] # Unregistered
  <2>1. CASE effective
    <3>1. done.event \in Told
      BY <1>4, <2>1 DEF Told, Finished
    <3>2. event = <<Message(c.id, done.event)>>
      BY <2>1
    <3>3. active[c.id] # Unregistered
      BY <2>1
    <3> HIDE DEF done, effective, event
    <3> QED BY <1>1, <3>1, <3>2, <3>3, SendsOne
  <2>2. CASE ~effective
    <3>1. event = <<>>
      BY <2>2
    <3> HIDE DEF event
    <3> QED BY <3>1
  <2> QED BY <2>1, <2>2
<1>7. /\ answer \in Seq(Messages)
      /\ \A k \in DOMAIN answer : answer[k].id = c.id /\ answer[k].what \in Ending
      /\ c.by # "user" => 1 \in DOMAIN answer /\ answer[1] = Message(c.id, c.by)
  <2>1. CASE c.by = "user"
    <3>1. answer = <<>>
      BY <2>1
    <3> HIDE DEF answer
    <3> QED BY <2>1, <3>1
  <2>2. CASE c.by # "user"
    <3>1. c.by \in Told /\ c.by \in Ending
      BY <1>1, <2>2 DEF Told, Ending
    <3>2. answer = <<Message(c.id, c.by)>>
      BY <2>2
    <3>3. /\ answer \in Seq(Messages) /\ 1 \in DOMAIN answer
          /\ \A k \in DOMAIN answer : answer[k].id = c.id /\ answer[k].what = c.by
      BY <1>1, <3>1, <3>2, SendsOne
    <3>4. answer[1] = Message(c.id, c.by)
      BY <3>2
    <3> HIDE DEF answer
    <3> QED BY <3>1, <3>3, <3>4
  <2> QED BY <2>1, <2>2
<1> HIDE DEF event, answer, effective, done, j
<1>8. /\ ms \in Seq(Messages)
      /\ \A k \in DOMAIN ms : /\ ms[k].id = c.id
                              /\ ms[k].what \in Ending \/ active[c.id] # Unregistered
  <2>1. ms \in Seq(Messages) /\ Len(ms) = Len(event) + Len(answer)
    BY <1>6, <1>7
  <2>2. ASSUME NEW k \in DOMAIN ms
        PROVE  \/ k \in DOMAIN event /\ ms[k] = event[k]
               \/ k - Len(event) \in DOMAIN answer /\ ms[k] = answer[k - Len(event)]
    BY <1>6, <1>7, <2>1
  <2> HIDE DEF ms
  <2> QED BY <1>6, <1>7, <2>1, <2>2
<1>9. c.by # "user" => \E k \in DOMAIN ms : ms[k] = Message(c.id, c.by)
  <2>1. SUFFICES ASSUME c.by # "user" PROVE \E k \in DOMAIN ms : ms[k] = Message(c.id, c.by)
    OBVIOUS
  <2>2. 1 \in DOMAIN answer /\ answer[1] = Message(c.id, c.by)
    BY <1>7, <2>1
  <2>3. Len(event) + 1 \in DOMAIN ms /\ ms[Len(event) + 1] = answer[1]
    BY <1>6, <1>7, <2>2
  <2> QED BY <2>2, <2>3
<1>11. Commands(c, ms)
  <2>1. \A i \in Jobs : i # j => job'[i] = job[i]
    BY <1>1, <1>2
  <2>2. CASE ~effective
    <3>1. job' = job /\ event = <<>>
      BY <1>2, <2>2 DEF event
    <3>2. ms = answer
      BY <1>7, <3>1
    <3> HIDE DEF ms
    <3>3. \A k \in DOMAIN ms : ms[k].what \notin {"paused", "resumed"}
      BY <1>7, <3>2 DEF Ending, Finished
    <3> QED BY <2>1, <3>1, <3>3 DEF Commands, j
  <2>3. CASE effective
    <3>1. /\ j \in Jobs /\ active[c.id] # Unregistered /\ done.ok
          /\ job' = [job EXCEPT ![j] = done.job]
      BY <1>2, <1>3, <2>3 DEF effective
    <3>2. event = <<Message(c.id, done.event)>>
      BY <2>3 DEF event
    <3>3. /\ Len(event) = 1 /\ event[1].what = done.event /\ event \in Seq(Messages)
      BY <1>6, <3>2 DEF Message
    <3>4. /\ ms \in Seq(Messages) /\ 1 \in DOMAIN ms /\ ms[1].what = done.event
          /\ \A k \in DOMAIN ms : k # 1 => k - 1 \in DOMAIN answer /\ ms[k] = answer[k - 1]
      <4>1. answer \in Seq(Messages) /\ event \in Seq(Messages) /\ Len(event) = 1
        BY <1>7, <3>3
      <4> QED BY <3>3, <4>1, FirstThen
    <3> HIDE DEF ms
    <3>5. \A k \in DOMAIN ms : k # 1 => ms[k].what \in Ending
      BY <1>7, <3>4
    <3>6. job[j] \in JobStates /\ job'[j] = done.job
      BY <1>1, <3>1
    <3>7. CASE c.op = "pause"
      <4>1. done.event = "paused" /\ job[j].ctl = "Running" /\ done.job.ctl = "Paused"
        BY <3>1, <3>6, <3>7 DEF done, Control, pause, JobStates
      <4> QED BY <2>1, <3>1, <3>4, <3>5, <3>6, <4>1 DEF Commands, j
    <3>8. CASE c.op = "resume"
      <4>1. done.event = "resumed"
        BY <3>8 DEF done, Control, resume
      <4> QED BY <2>1, <3>1, <3>4, <3>5, <3>8, <4>1 DEF Commands, j
    <3>9. CASE c.op = "cancel"
      <4>1. done.event = "cancelled"
        BY <3>9 DEF done, Control, cancel
      <4>2. done.job.ctl = "Cancelled"
        <5> DEFINE u == [job[j] EXCEPT !.ctl = "Cancelled"]
                   b == u.pc \in {"ready", "paused", "waiting"}
        <5>1. u \in JobStates /\ u.ctl = "Cancelled" /\ b \in BOOLEAN
          BY <3>6 DEF JobStates
        <5>2. done.job = notify_waiters(u)
          BY <3>9 DEF done, Control, cancel
        <5>3. notify_waiters(u) = [u EXCEPT !.woken = b]
          BY Zenon DEF notify_waiters
        <5> HIDE DEF u, b
        <5> QED BY <5>1, <5>2, <5>3, WokenBecomes
      <4>3. \A k \in DOMAIN ms : ms[k].what \notin {"paused", "resumed"}
        BY <3>4, <3>5, <4>1 DEF Ending, Finished
      <4>4. \A i \in Jobs : job'[i].ctl = "Running" => job[i].ctl = "Running"
        BY <2>1, <3>6, <4>2
      <4> QED BY <2>1, <4>3, <4>4 DEF Commands, j
    <3> QED BY <1>1, <3>7, <3>8, <3>9
  <2> QED BY <2>2, <2>3
<1> HIDE DEF ms
<1>10. CallMoves(c, ms)
  BY <1>2, <1>5, <1>8, <1>9, <1>11 DEF CallMoves
<1> QED BY <1>10

-----------------------------------------------------------------------------
(* No slot is left idle.                                                    *)

(* The backend takes no command or answer of a cancellation away.           *)
LEMMA BackendQueues ==
    ASSUME IInv, QueueInv, BackendNext, UNCHANGED uiVars
    PROVE  QueueInv'
<1>1. Rendered' /\ SlotsTaken'
  BY SameCalm DEF uiVars
<1>2. inbox \in Seq(Messages)
  BY DEF IInv, GoodBackend
<1>3. ASSUME NEW id \in Ids, ParkedCancel(id) PROVE ParkedCancel(id)'
  <2>1. CASE \E j \in Jobs : JobStep(j)
    <3>1. PICK j \in Jobs : \E w, ms : JobMoves(j, w, ms)
      BY <2>1, JobStepMoves
    <3>x. PICK w, ms : JobMoves(j, w, ms)
      BY <3>1
    <3>2. calls' = calls /\ ms \in Seq(Messages) /\ inbox' = inbox \o ms
      BY <3>x DEF JobMoves
    <3>3. CASE Call("cancel", id, "cancelParked") \in calls
      BY <3>2, <3>3 DEF ParkedCancel
    <3>4. CASE \E k \in DOMAIN inbox : inbox[k] = Message(id, "cancelParked")
      BY <1>2, <3>2, <3>4, CancelAppended
    <3> QED BY <1>3, <3>3, <3>4 DEF ParkedCancel
  <2>2. CASE \E c \in calls : HandleCall(c)
    <3>1. PICK c \in calls : \E ms : CallMoves(c, ms)
      BY <2>2, HandleCallMoves
    <3>x. PICK ms : CallMoves(c, ms)
      BY <3>1
    <3>2. /\ calls' = calls \ {c} /\ ms \in Seq(Messages) /\ inbox' = inbox \o ms
          /\ c.by # "user" => \E k \in DOMAIN ms : ms[k] = Message(c.id, c.by)
      BY <3>x DEF CallMoves
    <3>3. CASE c = Call("cancel", id, "cancelParked")
      <4>1. c.by # "user" /\ c.by = "cancelParked" /\ c.id = id
        BY <3>3 DEF Call
      <4>2. PICK k \in DOMAIN ms : ms[k] = Message(id, "cancelParked")
        BY <3>2, <4>1
      <4>3. Len(inbox) + k \in DOMAIN inbox' /\ inbox'[Len(inbox) + k] = ms[k]
        BY <1>2, <3>2
      <4> QED BY <4>2, <4>3 DEF ParkedCancel
    <3>4. CASE c # Call("cancel", id, "cancelParked") /\ Call("cancel", id, "cancelParked") \in calls
      BY <3>2, <3>4 DEF ParkedCancel
    <3>5. CASE \E k \in DOMAIN inbox : inbox[k] = Message(id, "cancelParked")
      BY <1>2, <3>2, <3>5, CancelAppended
    <3> QED BY <1>3, <3>3, <3>4, <3>5 DEF ParkedCancel
  <2> QED BY <2>1, <2>2 DEF BackendNext
<1>4. UNCHANGED <<items, queued, parked>>
  BY DEF uiVars
<1>5. Waiting'
  BY <1>3, <1>4 DEF QueueInv, Waiting
<1> QED BY <1>1, <1>5 DEF QueueInv

(* A render shows what is known; its effects have yet to run.               *)
LEMMA RenderQueues ==
    ASSUME IInv, QueueInv, Render
    PROVE  QueueInv'
<1>1. /\ shown' = items /\ items' = items /\ effects' = TRUE
      /\ UNCHANGED <<calls, inbox, queued, parked>>
  BY DEF Render, backendVars
<1>2. Rendered' /\ SlotsTaken'
  BY <1>1 DEF Rendered, SlotsTaken
<1>3. \A id \in Ids : ParkedCancel(id) => ParkedCancel(id)'
  BY <1>1, CancelKept
<1>4. Waiting'
  BY <1>1, <1>3 DEF QueueInv, Waiting
<1> QED BY <1>2, <1>4 DEF QueueInv

(* Effects that change nothing have found no candidate or no free slot.     *)
LEMMA NothingChosen ==
    ASSUME IInv, Chosen({}), NEW id \in queued \cup parked, shown[id].status = "queued"
    PROVE  Cardinality(Counted(shown)) >= maxRunning
<1> DEFINE cand == Candidates(shown)
           n == Cardinality(Counted(shown))
           free == Max({0, maxRunning - n})
<1>1. id \in cand /\ cand \subseteq Ids /\ Counted(shown) \subseteq Ids
  BY DEF Candidates, Counted, IInv, GoodPanel
<1>2. IsFiniteSet(cand) /\ IsFiniteSet(Counted(shown))
  BY <1>1, FS_Subset, TransferBackendAssumption
<1>3. Cardinality(cand) \in Nat /\ n \in Nat
  BY <1>2, FS_CardinalityType
<1>4. Cardinality(cand) # 0
  BY <1>1, <1>2, FS_EmptySet
<1>5. 0 = Min({free, Cardinality(cand)})
  <2>1. Cardinality({}) = Min({free, Cardinality(cand)})
    BY Zenon DEF Chosen
  <2> QED BY <2>1, FS_EmptySet, Zenon
<1> HIDE DEF cand, n
<1>6. maxRunning - n \in Int
  BY <1>3, SlotsAreNumbered
<1>7. free \in Int /\ free >= maxRunning - n
  BY <1>6, MaxOfTwo
<1> HIDE DEF free
<1>8. free = 0
  <2> DEFINE c == Cardinality(cand)
  <2>1. c \in Int /\ c # 0 /\ 0 = Min({free, c})
    BY <1>3, <1>4, <1>5
  <2> HIDE DEF c
  <2>2. Min({free, c}) \in {free, c}
    BY <1>7, <2>1, MinOfTwo
  <2> QED BY <2>1, <2>2
<1>9. n >= maxRunning
  BY <1>3, <1>7, <1>8, SlotsAreNumbered
<1> QED BY <1>9 DEF n

(* The effects of a render, as far as the rows go.                          *)
EffectsOf(S) ==
    /\ S \subseteq Ids /\ Chosen(S)
    /\ items' = [id \in Ids |->
                   IF id \in S /\ items[id].status = "queued"
                   THEN Item("transferring", "running") ELSE items[id]]
    /\ dirty' = (dirty \/ items' # items)
    /\ parked' = parked \ S
    /\ queued' = queued \ (S \ parked)
    /\ calls' = calls \cup {Call("resume", id, "user") : id \in S \cap parked}
    /\ job' = [j \in Jobs |-> IF j \in {Invoked(id) : id \in S \ parked}
                              THEN Resting("invoked", 0) ELSE job[j]]
    /\ effects' = FALSE
    /\ UNCHANGED <<active, faults, inbox, shown, clicks, enqueued, retried>>

LEMMA RunEffectsMeans ==
    ASSUME RunEffects
    PROVE  \E S : EffectsOf(S)
<1>1. PICK S \in SUBSET Ids :
          /\ Chosen(S)
          /\ items' = [id \in Ids |->
                         IF id \in S /\ items[id].status = "queued"
                         THEN Item("transferring", "running") ELSE items[id]]
          /\ dirty' = (dirty \/ items' # items)
          /\ parked' = parked \ S
          /\ queued' = queued \ (S \ parked)
          /\ calls' = calls \cup {Call("resume", id, "user") : id \in S \cap parked}
          /\ job' = [j \in Jobs |-> IF j \in {Invoked(id) : id \in S \ parked}
                                    THEN Resting("invoked", 0) ELSE job[j]]
  BY DEF RunEffects
<1>2. EffectsOf(S)
  BY <1>1, Zenon DEF EffectsOf, RunEffects
<1> QED BY <1>2

LEMMA RunEffectsQueues ==
    ASSUME IInv, QueueInv, RunEffects
    PROVE  QueueInv'
<1>1. PICK S : EffectsOf(S)
  BY RunEffectsMeans
<1>2. /\ parked' = parked \ S /\ queued' = queued \ (S \ parked)
      /\ inbox' = inbox /\ shown' = shown /\ calls \subseteq calls'
      /\ S \subseteq Ids /\ Chosen(S)
  BY <1>1 DEF EffectsOf
<1>3. \A id \in Ids : items'[id] = IF id \in S /\ items[id].status = "queued"
                                   THEN Item("transferring", "running") ELSE items[id]
  BY <1>1 DEF EffectsOf
<1>4. ~dirty' => ~dirty /\ items' = items
  BY <1>1, Zenon DEF EffectsOf
<1>5. Rendered'
  BY <1>2, <1>4 DEF QueueInv, Rendered
<1>6. SlotsTaken'
  <2> SUFFICES ASSUME ~dirty', NEW id \in queued' \cup parked', items'[id].status = "queued"
               PROVE  Cardinality(Counted(items'))  >= maxRunning
    BY DEF SlotsTaken
  <2>1. items' = shown /\ items = shown
    BY <1>4 DEF QueueInv, Rendered
  <2>2. id \in queued \cup parked /\ shown[id].status = "queued"
    BY <1>2, <2>1
  <2>3. ASSUME NEW i \in S PROVE FALSE
    <3>1. i \in Ids /\ items[i].status = "queued"
      BY <1>2, <2>1, <2>3 DEF Chosen, Candidates
    <3>2. items'[i].status = "transferring"
      BY <1>3, <2>3, <3>1 DEF Item
    <3> QED BY <2>1, <3>1, <3>2
  <2>4. S = {}
    BY <2>3
  <2>5. Cardinality(Counted(shown)) >= maxRunning
    BY <1>2, <2>2, <2>4, NothingChosen
  <2> QED BY <2>1, <2>5
<1>7. Waiting'
  <2> SUFFICES ASSUME NEW id \in Ids, items'[id].status = "queued"
               PROVE  id \in queued' \cup parked' \/ ParkedCancel(id)'
    BY DEF Waiting
  <2>1. items[id].status = "queued" /\ id \notin S
    BY <1>3 DEF Item
  <2>2. ParkedCancel(id) => ParkedCancel(id)'
    BY <1>2, CancelKept
  <2> QED BY <1>2, <2>1, <2>2 DEF QueueInv, Waiting
<1> QED BY <1>5, <1>6, <1>7 DEF QueueInv

(* What becomes of the row of a message, and of the refs.                   *)
ReceivedAs(m, item, revision) ==
    /\ m \in Messages /\ m.id \in Ids /\ Update(m.id, item, revision)
    /\ m.what \in Ending => item.status \notin Active
    /\ m.what = "resolved" => item = items[m.id]
    /\ m.what \notin Ending \cup {"resolved"} => item.status # "queued"
    /\ m.what \notin Ending => queued' = queued /\ parked' = parked
    /\ queued' \subseteq queued /\ parked' \subseteq parked
    /\ queued \ {m.id} \subseteq queued' /\ parked \ {m.id} \subseteq parked'

(* A row that was changed is absent or has the new status.                  *)
LEMMA ChangedStatus ==
    ASSUME NEW id, NEW status, NEW queueState
    PROVE  Changed(id, status, queueState).status \in {"absent", status}
  BY DEF Changed, Absent, Item

LEMMA ReceiveMeans ==
    ASSUME IInv, Receive
    PROVE  \E item : \E revision \in BOOLEAN : ReceivedAs(Head(inbox), item, revision)
<1> DEFINE m == Head(inbox)
<1>1. m \in Messages /\ (HandleEvent(m) \/ HandleJobAnswer(m) \/ HandleCancelAnswer(m))
  BY DEF Receive, IInv, GoodBackend
<1> HIDE DEF m
<1>2. m.id \in Ids /\ m.id \in enqueued
  BY <1>1 DEF Messages, IInv, GoodPanel
<1>3. CASE HandleEvent(m)
  <2> DEFINE revision == m.what \in Finished \cup {"paused"}
             item == Received(m.id, m.what)
  <2>1. Update(m.id, item, revision) /\ revision \in BOOLEAN
    BY <1>3 DEF HandleEvent
  <2>2. m.what \in {"started", "progress", "paused", "resumed"} \cup Finished
    BY <1>3 DEF HandleEvent
  <2>3. /\ queued' = IF m.what \in Finished THEN queued \ {m.id} ELSE queued
        /\ parked' = IF m.what \in Finished THEN parked \ {m.id} ELSE parked
    BY <1>3 DEF HandleEvent
  <2>4. m.what \notin Finished => m.what \notin Ending \cup {"resolved"}
    BY <2>2 DEF Ending, Finished
  <2>5. m.what \in Finished => m.what \in Ending /\ m.what # "resolved"
    BY DEF Ending, Finished
  <2>6. m.what \notin Finished => item.status # "queued"
    <3>1. CASE m.what = "started"
      BY <3>1 DEF Received, Item
    <3>2. CASE m.what \in {"progress", "resumed"}
      <4>1. item = Changed(m.id, "transferring", items[m.id].queueState)
        BY <3>2 DEF Received, Finished
      <4> HIDE DEF item
      <4> QED BY <4>1, ChangedStatus
    <3>3. CASE m.what = "paused"
      <4>1. item = Changed(m.id, "paused", items[m.id].queueState)
        BY <3>3 DEF Received, Finished
      <4> HIDE DEF item
      <4> QED BY <4>1, ChangedStatus
    <3> QED BY <2>2, <3>1, <3>2, <3>3
  <2>7. m.what \in Finished => item.status \notin Active
    <3>1. SUFFICES ASSUME m.what \in Finished PROVE item.status \notin Active
      OBVIOUS
    <3>2. item = Changed(m.id, m.what, "none")
      BY <3>1 DEF Received, Finished
    <3> HIDE DEF item
    <3> QED BY <3>1, <3>2, ChangedStatus DEF Finished, Active
  <2> HIDE DEF item, revision
  <2>8. ReceivedAs(m, item, revision)
    BY <1>1, <1>2, <2>1, <2>3, <2>4, <2>5, <2>6, <2>7 DEF ReceivedAs
  <2> QED BY <2>1, <2>8 DEF m
<1>4. CASE HandleJobAnswer(m)
  <2> DEFINE item == IF m.what = "rejected" /\ items[m.id].status \notin Finished
                     THEN Changed(m.id, "error", "none") ELSE items[m.id]
  <2>1. Update(m.id, item, TRUE) /\ queued' = queued /\ parked' = parked
        /\ m.what \in {"resolved", "rejected"}
    BY <1>4 DEF HandleJobAnswer
  <2>2. m.what = "resolved" => m.what \notin Ending /\ item = items[m.id]
    BY DEF Ending, Finished
  <2>3. m.what = "rejected" => m.what \in Ending
    BY DEF Ending
  <2>4. m.what = "rejected" => item.status \notin Active
    BY ChangedStatus DEF Finished, Active
  <2> HIDE DEF item
  <2>5. ReceivedAs(m, item, TRUE)
    BY <1>1, <1>2, <2>1, <2>2, <2>3, <2>4 DEF ReceivedAs
  <2> QED BY <2>5 DEF m
<1>5. CASE HandleCancelAnswer(m)
  <2> DEFINE item == IF items[m.id].status \in {"completed", "error"} THEN items[m.id]
                     ELSE Changed(m.id, "cancelled", "none")
  <2>1. /\ Update(m.id, item, TRUE) /\ m.what \in {"cancelOne", "cancelParked"}
        /\ queued' = IF m.what = "cancelOne" THEN queued \ {m.id} ELSE queued
        /\ parked' = IF m.what = "cancelOne" THEN parked \ {m.id} ELSE parked
    BY <1>5 DEF HandleCancelAnswer
  <2>2. m.what \in Ending /\ m.what # "resolved"
    BY <2>1 DEF Ending
  <2>3. item.status \notin Active
    BY ChangedStatus DEF Active
  <2> HIDE DEF item
  <2>4. ReceivedAs(m, item, TRUE)
    BY <1>1, <1>2, <2>1, <2>2, <2>3 DEF ReceivedAs
  <2> QED BY <2>4 DEF m
<1> QED BY <1>1, <1>3, <1>4, <1>5

(* An event or an answer that takes a row out of the refs has ended it.     *)
LEMMA ReceiveQueues ==
    ASSUME IInv, QueueInv, Receive
    PROVE  QueueInv'
<1>m. PICK m : m = Head(inbox)
  OBVIOUS
<1>0. PICK item : \E revision \in BOOLEAN : ReceivedAs(m, item, revision)
  BY <1>m, ReceiveMeans
<1>1. PICK revision \in BOOLEAN : ReceivedAs(m, item, revision)
  BY <1>0
<1>2. /\ inbox # <<>> /\ inbox' = Tail(inbox) /\ inbox \in Seq(Messages)
      /\ shown' = shown /\ effects' = effects /\ calls' = calls
  BY DEF Receive, IInv, GoodBackend
<1>3. /\ m \in Messages /\ m.id \in Ids /\ Update(m.id, item, revision)
      /\ m.what \in Ending => item.status \notin Active
      /\ m.what = "resolved" => item = items[m.id]
      /\ m.what \notin Ending \cup {"resolved"} => item.status # "queued"
      /\ m.what \notin Ending => queued' = queued /\ parked' = parked
      /\ queued' \subseteq queued /\ parked' \subseteq parked
      /\ queued \ {m.id} \subseteq queued' /\ parked \ {m.id} \subseteq parked'
  BY <1>1 DEF ReceivedAs
<1>4. ASSUME NEW id \in Ids, ParkedCancel(id), m # Message(id, "cancelParked")
      PROVE  ParkedCancel(id)'
  BY <1>m, <1>2, <1>4, CancelTail
<1>5. ASSUME NEW id, m = Message(id, "cancelParked")
      PROVE  m.what \in Ending /\ id = m.id
  BY <1>5 DEF Message, Ending
<1>6. Rendered' /\ SlotsTaken'
  BY <1>2, <1>3, UpdateCalm
<1>7. item.status = "queued" => m.what = "resolved" /\ m.what \notin Ending /\ item = items[m.id]
  BY <1>3 DEF Active
<1>8. item.status = "queued" => m.id \in queued' \cup parked' \/ ParkedCancel(m.id)'
  <2>1. SUFFICES ASSUME item.status = "queued"
                 PROVE  m.id \in queued' \cup parked' \/ ParkedCancel(m.id)'
    OBVIOUS
  <2>2. m # Message(m.id, "cancelParked") /\ items[m.id].status = "queued"
    BY <1>5, <1>7, <2>1
  <2>3. m.id \in queued \cup parked \/ ParkedCancel(m.id)
    BY <1>3, <2>2 DEF QueueInv, Waiting
  <2>4. queued' = queued /\ parked' = parked
    BY <1>3, <1>7, <2>1
  <2> QED BY <1>3, <1>4, <2>2, <2>3, <2>4
<1>9. /\ \A i \in Ids \ {m.id} : i \in queued \cup parked => i \in queued' \cup parked'
      /\ \A i \in Ids \ {m.id} : ParkedCancel(i) => ParkedCancel(i)'
  BY <1>3, <1>4, <1>5
<1>10. Waiting'
  BY <1>3, <1>8, <1>9, UpdateWaits
<1> QED BY <1>6, <1>10 DEF QueueInv

(* An update of the user, with the calls and refs that go with it.          *)
LEMMA UserUpdate ==
    ASSUME IInv, QueueInv, NEW id \in Ids, NEW item, NEW revision \in BOOLEAN,
           Update(id, item, revision), UNCHANGED <<shown, effects, inbox>>, calls \subseteq calls',
           revision \/ queued' \cup parked' \subseteq queued \cup parked,
           item.status = "queued" => id \in queued' \cup parked' \/ ParkedCancel(id)',
           queued \ {id} \subseteq queued', parked \ {id} \subseteq parked'
    PROVE  QueueInv'
<1>1. Rendered' /\ SlotsTaken'
  BY UpdateCalm
<1>2. \A i \in Ids \ {id} : i \in queued \cup parked => i \in queued' \cup parked'
  OBVIOUS
<1>3. \A i \in Ids \ {id} : ParkedCancel(i) => ParkedCancel(i)'
  BY CancelKept
<1>4. Waiting'
  BY <1>2, <1>3, UpdateWaits
<1> QED BY <1>1, <1>4 DEF QueueInv

(* A command of the user that changes no row.                               *)
LEMMA UserCall ==
    ASSUME IInv, QueueInv, NEW id \in Ids, UNCHANGED <<items, dirty, shown, effects, inbox>>,
           calls \subseteq calls', queued' \subseteq queued, parked' \subseteq parked,
           queued \ {id} \subseteq queued', parked \ {id} \subseteq parked',
           id \in queued' \cup parked' \/ id \notin queued \cup parked \/ ParkedCancel(id)'
    PROVE  QueueInv'
<1>1. Rendered' /\ SlotsTaken'
  BY SameCalm
<1>2. \A i \in Ids : ParkedCancel(i) => ParkedCancel(i)'
  BY CancelKept
<1>3. Waiting'
  BY <1>2 DEF QueueInv, Waiting
<1> QED BY <1>1, <1>3 DEF QueueInv

(* The operations of the user keep the queue.                               *)
LEMMA UserQueues ==
    ASSUME IInv, QueueInv, UserNext
    PROVE  QueueInv'
<1>0. /\ \A i \in Ids : items[i].status = "queued" => i \in queued \cup parked \/ ParkedCancel(i)
      /\ \A i \in Ids : calls' = calls /\ inbox' = inbox /\ ParkedCancel(i) => ParkedCancel(i)'
  BY CancelKept DEF QueueInv, Waiting
<1>1. ASSUME NEW id \in Ids, enqueueTransfer(id) PROVE QueueInv'
  <2>1. /\ Update(id, Item("queued", "pending"), TRUE)
        /\ queued' = queued \cup {id} /\ parked' = parked
        /\ UNCHANGED <<calls, inbox, shown, effects>>
    BY <1>1 DEF enqueueTransfer, backendVars
  <2> QED BY <2>1, UserUpdate
<1>2. ASSUME NEW id \in Ids, pauseTransfer(id) PROVE QueueInv'
  <2>1. queued' = queued /\ parked' = parked /\ UNCHANGED <<inbox, shown, effects>>
    BY <1>2 DEF pauseTransfer, Click
  <2>2. CASE shown[id].status = "queued" /\ id \in queued \cup parked
    <3>1. PICK item \in {items[id], Item("paused", items[id].queueState), Item("paused", "running")},
               revision \in BOOLEAN : Update(id, item, revision)
      BY <1>2, <2>2 DEF pauseTransfer
    <3>2. calls' = calls
      BY <1>2, <2>2 DEF pauseTransfer
    <3> QED BY <2>1, <2>2, <3>1, <3>2, UserUpdate
  <2>3. CASE ~(shown[id].status = "queued" /\ id \in queued \cup parked)
    <3>1. calls \subseteq calls' /\ items' = items /\ dirty' = dirty
      BY <1>2, <2>3 DEF pauseTransfer, Invoke
    <3> QED BY <2>1, <3>1, UserCall
  <2> QED BY <2>2, <2>3
<1>3. ASSUME NEW id \in Ids, resumeTransfer(id) PROVE QueueInv'
  <2>1. queued' = queued /\ UNCHANGED <<inbox, shown, effects>>
    BY <1>3 DEF resumeTransfer, Click
  <2>2. CASE id \in queued \/ shown[id].queueState = "running"
    <3>1. PICK item : Update(id, item, TRUE)
      BY <1>3, <2>2 DEF resumeTransfer
    <3>2. calls' = calls /\ parked' = IF id \in queued THEN parked ELSE parked \cup {id}
      BY <1>3, <2>2 DEF resumeTransfer
    <3>3. id \in queued' \cup parked'
      BY <2>1, <3>2
    <3> QED BY <2>1, <3>1, <3>2, <3>3, UserUpdate
  <2>3. CASE ~(id \in queued \/ shown[id].queueState = "running")
    <3>1. calls \subseteq calls' /\ items' = items /\ dirty' = dirty /\ parked' = parked
      BY <1>3, <2>3 DEF resumeTransfer, Invoke
    <3> QED BY <2>1, <3>1, UserCall
  <2> QED BY <2>2, <2>3
<1>4. ASSUME NEW id \in Ids, cancelTransfer(id) PROVE QueueInv'
  <2>1. queued' = queued \ {id} /\ parked' = parked \ {id} /\ UNCHANGED <<inbox, shown, effects>>
    BY <1>4 DEF cancelTransfer, Click
  <2>2. CASE id \in queued
    <3> DEFINE item == IF items[id].status \in {"completed", "error"} THEN items[id]
                       ELSE Changed(id, "cancelled", "none")
    <3>1. Update(id, item, TRUE) /\ calls' = calls
      BY <1>4, <2>2 DEF cancelTransfer
    <3>2. item.status # "queued"
      BY ChangedStatus
    <3> HIDE DEF item
    <3> QED BY <2>1, <3>1, <3>2, UserUpdate
  <2>3. CASE id \notin queued
    <3>1. /\ Invoke("cancel", id, IF id \in parked THEN "cancelParked" ELSE "cancelOne")
          /\ items' = items /\ dirty' = dirty
      BY <1>4, <2>3 DEF cancelTransfer
    <3>2. calls \subseteq calls'
      BY <3>1 DEF Invoke
    <3>3. id \in parked => ParkedCancel(id)'
      BY <3>1 DEF Invoke, ParkedCancel
    <3> QED BY <2>1, <2>3, <3>1, <3>2, <3>3, UserCall
  <2> QED BY <2>2, <2>3
<1>5. ASSUME NEW id \in Ids, retryTransfer(id) PROVE QueueInv'
  <2>1. /\ Update(id, Item("queued", "pending"), TRUE)
        /\ queued' = queued \cup {id} /\ parked' = parked \ {id}
        /\ UNCHANGED <<calls, inbox, shown, effects>>
    BY <1>5 DEF retryTransfer, Click
  <2> QED BY <2>1, UserUpdate
<1>6. ASSUME NEW id \in Ids, removeTransfer(id) PROVE QueueInv'
  <2>1. /\ Update(id, Absent, FALSE) /\ calls \subseteq calls'
        /\ queued' = queued \ {id} /\ parked' = parked \ {id}
        /\ UNCHANGED <<inbox, shown, effects>>
    BY <1>6 DEF removeTransfer, Click, Invoke
  <2>2. Absent.status # "queued"
    BY DEF Absent
  <2> QED BY <2>1, <2>2, UserUpdate
<1>7. ASSUME clearCompleted PROVE QueueInv'
  <2>1. /\ dirty' = TRUE /\ UNCHANGED <<calls, inbox>>
        /\ items' = [id \in Ids |-> IF items[id].status = "completed" THEN Absent ELSE items[id]]
        /\ queued' = {id \in queued : items[id].status # "completed"}
        /\ parked' = {id \in parked : items[id].status # "completed"}
    BY <1>7 DEF clearCompleted, Click
  <2>2. Rendered' /\ SlotsTaken'
    BY <2>1 DEF Rendered, SlotsTaken
  <2>3. ASSUME NEW id \in Ids, items'[id].status = "queued"
        PROVE  id \in queued' \cup parked' \/ ParkedCancel(id)'
    <3>1. items[id].status = "queued"
      BY <2>1, <2>3 DEF Absent
    <3> QED BY <1>0, <2>1, <3>1
  <2> QED BY <2>2, <2>3 DEF QueueInv, Waiting
<1> QED BY <1>1, <1>2, <1>3, <1>4, <1>5, <1>6, <1>7 DEF UserNext

(* The initial state, with no row.                                          *)
LEMMA InitQueues == Init => QueueInv
  BY DEF Init, QueueInv, Rendered, Waiting, SlotsTaken, Absent

LEMMA NextQueues == IInv /\ QueueInv /\ [Next]_vars => QueueInv'
<1> SUFFICES ASSUME IInv, QueueInv, [Next]_vars PROVE QueueInv'
  OBVIOUS
<1>1. CASE UNCHANGED vars
  <2>1. UNCHANGED <<items, shown, dirty, effects, queued, parked, calls, inbox>>
    BY <1>1 DEF vars, backendVars, uiVars
  <2>2. Rendered' /\ SlotsTaken'
    BY <2>1, SameCalm
  <2>3. \A i \in Ids : ParkedCancel(i) => ParkedCancel(i)'
    BY <2>1, CancelKept
  <2> QED BY <2>1, <2>2, <2>3 DEF QueueInv, Waiting
<1>2. CASE Next
  BY <1>2, BackendQueues, RenderQueues, RunEffectsQueues, ReceiveQueues, UserQueues DEF Next
<1> QED BY <1>1, <1>2

(* The scheduler leaves no slot idle, for any number of transfers and any   *)
(* setting: once nothing is left to render and no effect to run, whatever   *)
(* is queued waits in a ref (or for its cancellation), and all slots are    *)
(* taken, also after events that came between a render and its effects.     *)
THEOREM SchedulerFillsSlots == Spec => []NoIdleSlot
<1>1. IInv /\ QueueInv => NoIdleSlot
  BY DEF QueueInv, Waiting, SlotsTaken, NoIdleSlot
<1>2. Spec => []QueueInv
  BY InitQueues, NextQueues, TransfersInductive, PTL DEF Spec
<1> QED BY <1>1, <1>2, TransfersInductive, PTL

-----------------------------------------------------------------------------
(* No slot is leaked.                                                       *)

(* After the place k of the queue of messages there is one that ends id.    *)
EndsAfter(s, id, k) == \E i \in DOMAIN s : i > k /\ s[i].id = id /\ s[i].what \in Ending

(* Registered: the registered controller is that of a job under way.        *)
(* Contiguous: the jobs of a transfer are started one after the other.      *)
(* OneRef, MayStart: what waits to be started is not parked, and its job    *)
(* is still to come.                                                        *)
(* NewsLast: no message that would revive a row is the last one of its      *)
(* transfer: a job is under way that will end, or its end is behind it.     *)
(* Owed: a row that counts, or may come to count, will hear of an end.      *)
Registered ==
    \A id \in Ids : active[id] # Unregistered => job[<<id, active[id]>>].pc \in Underway

Started(id) == {n \in 1 .. MaxStarts : job[<<id, n>>].pc # "none"}

Contiguous == \A id \in Ids : Started(id) = 1 .. starts(id)

OneRef == queued \cap parked = {}

MayStart == \A id \in queued : starts(id) < MaxStarts

NewsLast ==
    \A k \in DOMAIN inbox :
        \/ inbox[k].what \in Ending \cup {"resolved"}
        \/ Live(inbox[k].id)
        \/ EndsAfter(inbox, inbox[k].id, k)

Owed ==
    \A id \in Ids : items[id].status \in Active =>
        \/ id \in queued /\ items[id].queueState = "pending"
        \/ Live(id)
        \/ EndsAfter(inbox, id, 0)

JobsInv == Registered /\ Contiguous
RefsInv == OneRef /\ MayStart
SlotInv == JobsInv /\ RefsInv /\ NewsLast /\ Owed

(* How often a transfer was started is a number, at most the bound.         *)
LEMMA StartsIsNat ==
    ASSUME NEW id
    PROVE  /\ IsFiniteSet(Started(id)) /\ starts(id) = Cardinality(Started(id))
           /\ starts(id) \in 0 .. MaxStarts
<1>1. Started(id) \subseteq 1 .. MaxStarts /\ starts(id) = Cardinality(Started(id))
  BY DEF Started, starts
<1>2. IsFiniteSet(1 .. MaxStarts) /\ Cardinality(1 .. MaxStarts) = MaxStarts
  BY FS_Interval, TransferBackendAssumption
<1>3. IsFiniteSet(Started(id)) /\ Cardinality(Started(id)) <= MaxStarts
  BY <1>1, <1>2, FS_Subset
<1>4. Cardinality(Started(id)) \in Nat
  BY <1>3, FS_CardinalityType
<1> QED BY <1>1, <1>3, <1>4, TransferBackendAssumption

(* The jobs that have been started stay the same ones.                      *)
LEMMA StartsKept ==
    ASSUME NEW id \in Ids, JobsInv,
           \A n \in 1 .. MaxStarts : job'[<<id, n>>].pc = "none" <=> job[<<id, n>>].pc = "none"
    PROVE  starts(id)' = starts(id) /\ Started(id)' = 1 .. starts(id)'
<1>1. Started(id)' = Started(id)
  BY DEF Started
<1>2. starts(id)' = Cardinality(Started(id)') /\ starts(id) = Cardinality(Started(id))
  BY DEF Started, starts
<1> QED BY <1>1, <1>2 DEF JobsInv, Contiguous

LEMMA CountedTo ==
    ASSUME NEW n \in Nat
    PROVE  Cardinality(1 .. n) = n
<1>1. Cardinality(1 .. n) = IF 1 > n THEN 0 ELSE n - 1 + 1
  BY FS_Interval
<1> QED BY <1>1

(* Or there is one more.                                                    *)
LEMMA StartsOneMore ==
    ASSUME NEW id \in Ids, JobsInv, starts(id) < MaxStarts,
           \A n \in 1 .. MaxStarts :
               job'[<<id, n>>].pc = "none" <=> job[<<id, n>>].pc = "none" /\ n # starts(id) + 1
    PROVE  Started(id)' = 1 .. starts(id)'
<1> DEFINE n == starts(id)
<1>1. n \in Nat /\ n + 1 \in 1 .. MaxStarts /\ Started(id) = 1 .. n
  BY StartsIsNat, TransferBackendAssumption DEF JobsInv, Contiguous
<1>2. Started(id)' = Started(id) \cup {n + 1}
  BY <1>1 DEF Started
<1> HIDE DEF n
<1>3. Started(id)' = 1 .. n + 1
  <2>1. 1 .. n + 1 = (1 .. n) \cup {n + 1}
    BY <1>1
  <2> QED BY <1>1, <1>2, <2>1
<1>4. Cardinality(1 .. n + 1) = n + 1
  <2>1. n + 1 \in Nat
    BY <1>1
  <2> QED BY <2>1, CountedTo
<1>5. starts(id)' = Cardinality(Started(id)')
  BY DEF Started, starts
<1> QED BY <1>3, <1>4, <1>5

(* Messages are added at the end: what a row or an earlier message was owed *)
(* by a job under way is owed by the job still, or by what it has sent.     *)
LEMMA NewsAppended ==
    ASSUME IInv, SlotInv, inbox \in Seq(Messages), NEW ms \in Seq(Messages), inbox' = inbox \o ms,
           UNCHANGED <<items, queued>>,
           \A id \in Ids :
               Live(id) => \/ Live(id)'
                           \/ \E k \in DOMAIN ms : ms[k].id = id /\ ms[k].what \in Ending,
           \A k \in DOMAIN ms : ms[k].what \in Ending \cup {"resolved"} \/ Live(ms[k].id)'
    PROVE  NewsLast' /\ Owed'
<1>1. /\ inbox' \in Seq(Messages) /\ Len(inbox') = Len(inbox) + Len(ms)
      /\ \A k \in DOMAIN inbox : k \in DOMAIN inbox' /\ inbox'[k] = inbox[k]
      /\ \A k \in DOMAIN ms : Len(inbox) + k \in DOMAIN inbox' /\ inbox'[Len(inbox) + k] = ms[k]
  OBVIOUS
<1>2. ASSUME NEW id, NEW k \in 0 .. Len(inbox), EndsAfter(inbox, id, k)
      PROVE  EndsAfter(inbox', id, k)
  BY <1>1, <1>2 DEF EndsAfter
<1>3. ASSUME NEW id, NEW k \in 0 .. Len(inbox), NEW n \in DOMAIN ms,
             ms[n].id = id, ms[n].what \in Ending
      PROVE  EndsAfter(inbox', id, k)
  <2>1. Len(inbox) + n > k
    BY <1>3
  <2> QED BY <1>1, <1>3, <2>1 DEF EndsAfter
<1>4. ASSUME NEW id \in Ids, NEW k \in 0 .. Len(inbox), Live(id) \/ EndsAfter(inbox, id, k)
      PROVE  Live(id)' \/ EndsAfter(inbox', id, k)
  BY <1>2, <1>3, <1>4
<1>5. Owed'
  <2>1. 0 \in 0 .. Len(inbox)
    OBVIOUS
  <2> QED BY <1>4, <2>1 DEF SlotInv, Owed
<1>6. ASSUME NEW k \in DOMAIN inbox', NEW id, inbox'[k].id = id
      PROVE  \/ inbox'[k].what \in Ending \cup {"resolved"}
             \/ Live(id)'
             \/ EndsAfter(inbox', id, k)
  <2>1. CASE k \in DOMAIN inbox
    <3>1. k \in 0 .. Len(inbox) /\ inbox'[k] = inbox[k] /\ inbox[k].id = id
      BY <1>1, <1>6, <2>1
    <3>0. id \in Ids
      <4>1. inbox[k] \in Messages
        BY <2>1
      <4> QED BY <3>1, <4>1 DEF Messages, IInv, GoodPanel
    <3>2. \/ inbox[k].what \in Ending \cup {"resolved"}
          \/ Live(id) \/ EndsAfter(inbox, id, k)
      BY <2>1, <3>1 DEF SlotInv, NewsLast
    <3> QED BY <1>4, <3>0, <3>1, <3>2
  <2>2. CASE k \notin DOMAIN inbox
    <3>1. k - Len(inbox) \in DOMAIN ms /\ inbox'[k] = ms[k - Len(inbox)]
      BY <1>1, <2>2
    <3>2. ms[k - Len(inbox)].id = id
      BY <1>6, <3>1
    <3>3. PICK n \in DOMAIN ms : ms[n].id = id /\ inbox'[k] = ms[n]
      BY <3>1, <3>2
    <3> QED BY <3>3
  <2> QED BY <2>1, <2>2
<1>7. NewsLast'
  BY <1>6 DEF NewsLast, Live
<1> QED BY <1>5, <1>7

(* A job's step.                                                            *)
LEMMA JobStepSlots ==
    ASSUME IInv, SlotInv, NEW j \in Jobs, NEW w, NEW ms, JobMoves(j, w, ms), UNCHANGED uiVars
    PROVE  SlotInv'
<1>1. /\ job[j].pc \notin {"none", "over"} /\ w.pc # "none"
      /\ job' = [job EXCEPT ![j] = w]
      /\ ms \in Seq(Messages) /\ inbox' = inbox \o ms
      /\ \A k \in DOMAIN ms : ms[k].id = j[1]
      /\ w.pc = "over" => /\ \A k \in DOMAIN ms : ms[k].what \in Ending \cup {"resolved"}
                          /\ \E k \in DOMAIN ms : ms[k].what \in Ending
      /\ \/ active' = active /\ (job[j].pc \in Underway => w.pc \in Underway)
         \/ active' = [active EXCEPT ![j[1]] = Unregistered]
         \/ active' = [active EXCEPT ![j[1]] = j[2]] /\ w.pc \in Underway
  BY DEF JobMoves
<1>2. /\ job \in [Jobs -> JobStates] /\ active \in [Ids -> 0 .. MaxStarts]
      /\ inbox \in Seq(Messages)
      /\ j = <<j[1], j[2]>> /\ j[1] \in Ids /\ j[2] \in 1 .. MaxStarts
      /\ UNCHANGED <<items, queued, parked>>
      /\ queued \subseteq Ids
  BY DEF IInv, GoodBackend, GoodPanel, Jobs, uiVars
<1>3. job'[j] = w /\ \A k \in Jobs : k # j => job'[k] = job[k]
  BY <1>1, <1>2
<1>4. \A id \in Ids, n \in 1 .. MaxStarts : <<id, n>> \in Jobs
  BY DEF Jobs
<1>5. \A id \in Ids : starts(id)' = starts(id) /\ Started(id)' = 1 .. starts(id)'
  <2> TAKE id \in Ids
  <2>1. \A n \in 1 .. MaxStarts : job'[<<id, n>>].pc = "none" <=> job[<<id, n>>].pc = "none"
    BY <1>1, <1>3, <1>4
  <2> QED BY <2>1, StartsKept DEF SlotInv
<1>6. Registered'
  <2> SUFFICES ASSUME NEW id \in Ids, active'[id] # Unregistered
               PROVE  job'[<<id, active'[id]>>].pc \in Underway
    BY DEF Registered
  <2>1. CASE id = j[1] /\ active'[id] = j[2] /\ w.pc \in Underway
    BY <1>2, <1>3, <2>1
  <2>2. CASE active'[id] = active[id] /\ (<<id, active[id]>> = j => w.pc \in Underway)
    <3>1. active[id] # Unregistered /\ active[id] \in 1 .. MaxStarts
      BY <1>2, <2>2, TransferBackendAssumption DEF Unregistered
    <3>2. job[<<id, active[id]>>].pc \in Underway /\ <<id, active[id]>> \in Jobs
      BY <1>4, <3>1 DEF SlotInv, JobsInv, Registered
    <3> QED BY <1>3, <2>2, <3>2
  <2>3. \/ id = j[1] /\ active'[id] = j[2] /\ w.pc \in Underway
        \/ active'[id] = active[id] /\ (<<id, active[id]>> = j => w.pc \in Underway)
    <3>1. CASE active' = active /\ (job[j].pc \in Underway => w.pc \in Underway)
      BY <3>1 DEF SlotInv, JobsInv, Registered
    <3>2. CASE active' = [active EXCEPT ![j[1]] = Unregistered]
      BY <1>2, <3>2
    <3>3. CASE active' = [active EXCEPT ![j[1]] = j[2]] /\ w.pc \in Underway
      BY <1>2, <3>3
    <3> QED BY <1>1, <3>1, <3>2, <3>3
  <2> QED BY <2>1, <2>2, <2>3
<1>7. OneRef' /\ MayStart'
  BY <1>2, <1>5 DEF SlotInv, RefsInv, OneRef, MayStart
<1>8. w.pc # "over" => Live(j[1])'
  BY <1>1, <1>2, <1>3 DEF Live
<1>9. ASSUME NEW id \in Ids, Live(id)
      PROVE  Live(id)' \/ \E k \in DOMAIN ms : ms[k].id = id /\ ms[k].what \in Ending
  <2>1. PICK n \in 1 .. MaxStarts : job[<<id, n>>].pc \notin {"none", "over"}
    BY <1>9 DEF Live
  <2>2. CASE <<id, n>> = j
    <3>1. id = j[1]
      BY <2>2
    <3> QED BY <1>1, <1>8, <3>1
  <2>3. CASE <<id, n>> # j
    <3>1. job'[<<id, n>>] = job[<<id, n>>]
      BY <1>1, <1>2, <2>3
    <3> QED BY <2>1, <3>1 DEF Live
  <2> QED BY <2>2, <2>3
<1>10. \A k \in DOMAIN ms : ms[k].what \in Ending \cup {"resolved"} \/ Live(ms[k].id)'
  BY <1>1, <1>8
<1>11. NewsLast' /\ Owed'
  BY <1>1, <1>2, <1>9, <1>10, NewsAppended
<1> QED BY <1>5, <1>6, <1>7, <1>11 DEF SlotInv, JobsInv, RefsInv, Contiguous

(* A command's.                                                             *)
LEMMA CallSlots ==
    ASSUME IInv, SlotInv, NEW c \in calls, NEW ms, CallMoves(c, ms), UNCHANGED uiVars
    PROVE  SlotInv'
<1>1. /\ active' = active /\ \A j \in Jobs : job'[j].pc = job[j].pc
      /\ ms \in Seq(Messages) /\ inbox' = inbox \o ms
      /\ \A k \in DOMAIN ms : /\ ms[k].id = c.id
                              /\ ms[k].what \in Ending \/ active[c.id] # Unregistered
  BY DEF CallMoves
<1>2. /\ active \in [Ids -> 0 .. MaxStarts] /\ inbox \in Seq(Messages)
      /\ UNCHANGED <<items, queued, parked>>
      /\ queued \subseteq Ids /\ c.id \in Ids
  BY DEF IInv, GoodBackend, GoodPanel, Calls, uiVars
<1>3. \A id \in Ids, n \in 1 .. MaxStarts : <<id, n>> \in Jobs
  BY DEF Jobs
<1>4. \A id \in Ids : active[id] # Unregistered => active[id] \in 1 .. MaxStarts
  BY <1>2, TransferBackendAssumption DEF Unregistered
<1>5. \A id \in Ids : starts(id)' = starts(id) /\ Started(id)' = 1 .. starts(id)'
  <2> TAKE id \in Ids
  <2>1. \A n \in 1 .. MaxStarts : job'[<<id, n>>].pc = "none" <=> job[<<id, n>>].pc = "none"
    BY <1>1, <1>3
  <2> QED BY <2>1, StartsKept DEF SlotInv
<1>6. Registered'
  BY <1>1, <1>3, <1>4 DEF SlotInv, JobsInv, Registered
<1>7. OneRef' /\ MayStart'
  BY <1>2, <1>5 DEF SlotInv, RefsInv, OneRef, MayStart
<1>8. ASSUME NEW id \in Ids, Live(id) PROVE Live(id)'
  BY <1>1, <1>3, <1>8 DEF Live
<1>9. active[c.id] # Unregistered => Live(c.id)'
  <2>1. SUFFICES ASSUME active[c.id] # Unregistered PROVE Live(c.id)
    BY <1>2, <1>8
  <2>2. active[c.id] \in 1 .. MaxStarts /\ job[<<c.id, active[c.id]>>].pc \in Underway
    BY <1>2, <1>4, <2>1 DEF SlotInv, JobsInv, Registered
  <2> QED BY <2>2 DEF Live, Underway
<1>10. \A k \in DOMAIN ms : ms[k].what \in Ending \cup {"resolved"} \/ Live(ms[k].id)'
  BY <1>1, <1>9
<1>11. NewsLast' /\ Owed'
  BY <1>1, <1>2, <1>8, <1>10, NewsAppended
<1> QED BY <1>5, <1>6, <1>7, <1>11 DEF SlotInv, JobsInv, RefsInv, Contiguous

(* Steps of the panel that leave the backend's jobs and messages alone.     *)
LEMMA PanelKeeps ==
    ASSUME SlotInv, UNCHANGED <<job, active, inbox>>
    PROVE  /\ JobsInv' /\ NewsLast'
           /\ \A id : starts(id)' = starts(id) /\ Live(id)' = Live(id)
           /\ \A id : EndsAfter(inbox', id, 0) = EndsAfter(inbox, id, 0)
  BY DEF SlotInv, JobsInv, Registered, Contiguous, Started, starts, NewsLast, Live, EndsAfter

(* A row that is updated by the user, and the refs.                         *)
LEMMA UserSlots ==
    ASSUME IInv, SlotInv, NEW id \in Ids, NEW item, NEW revision \in BOOLEAN,
           Update(id, item, revision), UNCHANGED <<job, active, inbox>>, RefsInv',
           queued \ {id} \subseteq queued',
           item.status \in Active =>
               \/ id \in queued' /\ item.queueState = "pending"
               \/ Live(id) \/ EndsAfter(inbox, id, 0)
    PROVE  SlotInv'
<1>1. /\ items'[id] = item
      /\ \A i \in Ids : i # id => items'[i] = items[i]
  BY UpdateMeans
<1>2. /\ JobsInv' /\ NewsLast'
      /\ \A i : Live(i)' = Live(i) /\ EndsAfter(inbox', i, 0) = EndsAfter(inbox, i, 0)
  BY PanelKeeps
<1>3. Owed'
  <2> SUFFICES ASSUME NEW i \in Ids, items'[i].status \in Active
               PROVE  \/ i \in queued' /\ items'[i].queueState = "pending"
                      \/ Live(i)' \/ EndsAfter(inbox', i, 0)
    BY DEF Owed
  <2>1. CASE i = id
    BY <1>1, <1>2, <2>1
  <2>2. CASE i # id
    BY <1>1, <1>2, <2>2 DEF SlotInv, Owed
  <2> QED BY <2>1, <2>2
<1> QED BY <1>2, <1>3 DEF SlotInv

(* Or none is.                                                              *)
LEMMA SameSlots ==
    ASSUME SlotInv, UNCHANGED <<job, active, inbox, items, queued>>, RefsInv'
    PROVE  SlotInv'
<1>1. /\ JobsInv' /\ NewsLast'
      /\ \A i : Live(i)' = Live(i) /\ EndsAfter(inbox', i, 0) = EndsAfter(inbox, i, 0)
  BY PanelKeeps
<1>2. Owed'
  BY <1>1 DEF SlotInv, Owed
<1> QED BY <1>1, <1>2 DEF SlotInv

(* Refs that lose ids, and none that gains one.                             *)
LEMMA RefsShrink ==
    ASSUME SlotInv, UNCHANGED job, queued' \subseteq queued, parked' \subseteq parked
    PROVE  RefsInv'
<1>1. \A id : starts(id)' = starts(id)
  BY DEF starts
<1> QED BY <1>1 DEF SlotInv, RefsInv, OneRef, MayStart

(* The operations of the user give no slot away.                            *)
LEMMA UserNextSlots ==
    ASSUME IInv, SlotInv, UserNext
    PROVE  SlotInv'
<1>0. /\ \A i \in Ids : items[i].status \in Active =>
            \/ i \in queued /\ items[i].queueState = "pending"
            \/ Live(i) \/ EndsAfter(inbox, i, 0)
      /\ queued \cap parked = {}
      /\ \A i \in queued : starts(i) < MaxStarts
      /\ queued \subseteq Ids /\ parked \subseteq Ids
      /\ queued \subseteq enqueued /\ parked \subseteq enqueued
  BY DEF SlotInv, Owed, RefsInv, OneRef, MayStart, IInv, GoodPanel
<1>1. ASSUME NEW id \in Ids, enqueueTransfer(id) PROVE SlotInv'
  <2>1. /\ Update(id, Item("queued", "pending"), TRUE) /\ id \notin enqueued
        /\ queued' = queued \cup {id} /\ parked' = parked
        /\ UNCHANGED <<job, active, inbox>>
    BY <1>1 DEF enqueueTransfer, backendVars
  <2>2. starts(id) = 0
    <3>1. \A n \in 1 .. MaxStarts : <<id, n>> \in Jobs /\ <<id, n>>[1] = id
      BY DEF Jobs
    <3>2. \A n \in 1 .. MaxStarts : job[<<id, n>>].pc = "none"
      BY <2>1, <3>1 DEF IInv, GoodBackend
    <3>3. Started(id) = {}
      BY <3>2 DEF Started
    <3> QED BY <3>3, FS_EmptySet, StartsIsNat
  <2>3. \A i : starts(i)' = starts(i)
    BY <2>1 DEF starts
  <2>4. RefsInv'
    BY <1>0, <2>1, <2>2, <2>3, TransferBackendAssumption DEF RefsInv, OneRef, MayStart
  <2>5. Item("queued", "pending").queueState = "pending"
    BY DEF Item
  <2> QED BY <2>1, <2>4, <2>5, UserSlots
<1>2. ASSUME NEW id \in Ids, pauseTransfer(id) PROVE SlotInv'
  <2>1. queued' = queued /\ parked' = parked /\ UNCHANGED <<job, active, inbox>>
    BY <1>2 DEF pauseTransfer, Click
  <2>2. RefsInv'
    BY <2>1, RefsShrink
  <2>3. CASE shown[id].status = "queued" /\ id \in queued \cup parked
    <3> DEFINE item == IF items[id].status # "queued" THEN items[id]
                       ELSE Item("paused", IF id \in queued THEN items[id].queueState ELSE "running")
               revision == id \notin queued
    <3>1. Update(id, item, revision) /\ revision \in BOOLEAN
      BY <1>2, <2>3 DEF pauseTransfer
    <3>2. item.status \in Active =>
               \/ id \in queued' /\ item.queueState = "pending"
               \/ Live(id) \/ EndsAfter(inbox, id, 0)
      <4>1. CASE items[id].status # "queued"
        BY <1>0, <2>1, <4>1
      <4>2. CASE items[id].status = "queued"
        <5>1. items[id].status \in Active
          BY <4>2 DEF Active
        <5>2. id \in queued => item.queueState = items[id].queueState
          BY <4>2 DEF Item
        <5> QED BY <1>0, <2>1, <5>1, <5>2
      <4> QED BY <4>1, <4>2
    <3> HIDE DEF item, revision
    <3> QED BY <2>1, <2>2, <3>1, <3>2, UserSlots
  <2>4. CASE ~(shown[id].status = "queued" /\ id \in queued \cup parked)
    <3>1. items' = items
      BY <1>2, <2>4 DEF pauseTransfer
    <3> QED BY <2>1, <2>2, <3>1, SameSlots
  <2> QED BY <2>3, <2>4
<1>3. ASSUME NEW id \in Ids, resumeTransfer(id) PROVE SlotInv'
  <2>1. queued' = queued /\ UNCHANGED <<job, active, inbox>>
    BY <1>3 DEF resumeTransfer, Click
  <2>2. \A i : starts(i)' = starts(i)
    BY <2>1 DEF starts
  <2>3. RefsInv'
    <3>1. parked' \subseteq parked \cup (IF id \in queued THEN {} ELSE {id})
      BY <1>3 DEF resumeTransfer
    <3> QED BY <1>0, <2>1, <2>2, <3>1 DEF RefsInv, OneRef, MayStart
  <2>4. CASE id \in queued \/ shown[id].queueState = "running"
    <3> DEFINE item == IF items[id].status # "paused" THEN items[id]
                       ELSE Item("queued", IF id \in queued THEN items[id].queueState ELSE "pending")
    <3>1. Update(id, item, TRUE)
      BY <1>3, <2>4 DEF resumeTransfer
    <3>2. item.status \in Active =>
               \/ id \in queued' /\ item.queueState = "pending"
               \/ Live(id) \/ EndsAfter(inbox, id, 0)
      <4>1. CASE items[id].status # "paused"
        BY <1>0, <2>1, <4>1
      <4>2. CASE items[id].status = "paused"
        <5>1. items[id].status \in Active
          BY <4>2 DEF Active
        <5>2. id \in queued => item.queueState = items[id].queueState
          BY <4>2 DEF Item
        <5> QED BY <1>0, <2>1, <5>1, <5>2
      <4> QED BY <4>1, <4>2
    <3> HIDE DEF item
    <3> QED BY <2>1, <2>3, <3>1, <3>2, UserSlots
  <2>5. CASE ~(id \in queued \/ shown[id].queueState = "running")
    <3>1. items' = items
      BY <1>3, <2>5 DEF resumeTransfer
    <3> QED BY <2>1, <2>3, <3>1, SameSlots
  <2> QED BY <2>4, <2>5
<1>4. ASSUME NEW id \in Ids, cancelTransfer(id) PROVE SlotInv'
  <2>1. queued' = queued \ {id} /\ parked' = parked \ {id} /\ UNCHANGED <<job, active, inbox>>
    BY <1>4 DEF cancelTransfer, Click
  <2>2. RefsInv'
    BY <2>1, RefsShrink
  <2>3. CASE id \in queued
    <3> DEFINE item == IF items[id].status \in {"completed", "error"} THEN items[id]
                       ELSE Changed(id, "cancelled", "none")
    <3>1. Update(id, item, TRUE)
      BY <1>4, <2>3 DEF cancelTransfer
    <3>2. item.status \notin Active
      BY ChangedStatus DEF Active
    <3> HIDE DEF item
    <3> QED BY <2>1, <2>2, <3>1, <3>2, UserSlots
  <2>4. CASE id \notin queued
    <3>1. items' = items /\ queued' = queued
      BY <1>4, <2>1, <2>4 DEF cancelTransfer
    <3> QED BY <2>1, <2>2, <3>1, SameSlots
  <2> QED BY <2>3, <2>4
<1>5. ASSUME NEW id \in Ids, retryTransfer(id) PROVE SlotInv'
  <2>1. /\ Update(id, Item("queued", "pending"), TRUE) /\ starts(id) < MaxStarts
        /\ queued' = queued \cup {id} /\ parked' = parked \ {id}
        /\ UNCHANGED <<job, active, inbox>>
    BY <1>5 DEF retryTransfer, Click
  <2>2. \A i : starts(i)' = starts(i)
    BY <2>1 DEF starts
  <2>3. RefsInv'
    BY <1>0, <2>1, <2>2 DEF RefsInv, OneRef, MayStart
  <2>4. Item("queued", "pending").queueState = "pending"
    BY DEF Item
  <2> QED BY <2>1, <2>3, <2>4, UserSlots
<1>6. ASSUME NEW id \in Ids, removeTransfer(id) PROVE SlotInv'
  <2>1. /\ Update(id, Absent, FALSE)
        /\ queued' = queued \ {id} /\ parked' = parked \ {id}
        /\ UNCHANGED <<job, active, inbox>>
    BY <1>6 DEF removeTransfer, Click
  <2>2. Absent.status \notin Active
    BY DEF Absent, Active
  <2>3. RefsInv'
    BY <2>1, RefsShrink
  <2> QED BY <2>1, <2>2, <2>3, UserSlots
<1>7. ASSUME clearCompleted PROVE SlotInv'
  <2>1. /\ UNCHANGED <<job, active, inbox>>
        /\ items' = [id \in Ids |-> IF items[id].status = "completed" THEN Absent ELSE items[id]]
        /\ queued' = {id \in queued : items[id].status # "completed"}
        /\ parked' = {id \in parked : items[id].status # "completed"}
    BY <1>7 DEF clearCompleted, Click
  <2>2. RefsInv'
    BY <2>1, RefsShrink
  <2>3. /\ JobsInv' /\ NewsLast'
        /\ \A i : Live(i)' = Live(i) /\ EndsAfter(inbox', i, 0) = EndsAfter(inbox, i, 0)
    BY <2>1, PanelKeeps
  <2>4. Owed'
    <3> SUFFICES ASSUME NEW i \in Ids, items'[i].status \in Active
                 PROVE  \/ i \in queued' /\ items'[i].queueState = "pending"
                        \/ Live(i)' \/ EndsAfter(inbox', i, 0)
      BY DEF Owed
    <3>1. items'[i] = items[i] /\ items[i].status # "completed"
      BY <2>1 DEF Absent, Active
    <3> QED BY <1>0, <2>1, <2>3, <3>1
  <2> QED BY <2>2, <2>3, <2>4 DEF SlotInv
<1> QED BY <1>1, <1>2, <1>3, <1>4, <1>5, <1>6, <1>7 DEF UserNext

(* The scheduler starts a job that was still to come, or lets one go on     *)
(* that is not over.                                                        *)
LEMMA RunEffectsSlots ==
    ASSUME IInv, SlotInv, RunEffects
    PROVE  SlotInv'
<1>1. PICK S : EffectsOf(S)
  BY RunEffectsMeans
<1>2. /\ parked' = parked \ S /\ queued' = queued \ (S \ parked)
      /\ inbox' = inbox /\ active' = active /\ S \subseteq queued \cup parked
  BY <1>1 DEF EffectsOf, Chosen, Candidates
<1>3. \A id \in Ids : items'[id] = IF id \in S /\ items[id].status = "queued"
                                   THEN Item("transferring", "running") ELSE items[id]
  BY <1>1 DEF EffectsOf
<1>4. /\ \A id \in Ids, n \in 1 .. MaxStarts : <<id, n>> \in Jobs
      /\ queued \cap parked = {} /\ queued \subseteq Ids /\ parked \subseteq Ids
      /\ \A id \in queued : starts(id) < MaxStarts
  BY DEF Jobs, SlotInv, RefsInv, OneRef, MayStart, IInv, GoodPanel
<1>5. ASSUME NEW id \in Ids, NEW n \in 1 .. MaxStarts
      PROVE  /\ id \in S \ parked /\ n = starts(id) + 1 => job'[<<id, n>>].pc = "invoked"
             /\ ~(id \in S \ parked /\ n = starts(id) + 1) => job'[<<id, n>>] = job[<<id, n>>]
  <2>1. job'[<<id, n>>] = IF <<id, n>> \in {Invoked(i) : i \in S \ parked}
                          THEN Resting("invoked", 0) ELSE job[<<id, n>>]
    BY <1>1, <1>4 DEF EffectsOf
  <2>2. <<id, n>> \in {Invoked(i) : i \in S \ parked} <=> id \in S \ parked /\ n = starts(id) + 1
    BY DEF Invoked
  <2> QED BY <2>1, <2>2 DEF Resting
<1>6. \A id \in S \ parked : starts(id) + 1 \in 1 .. MaxStarts
  BY <1>2, <1>4, StartsIsNat, TransferBackendAssumption
<1>7. \A id \in Ids : id \notin S \ parked => starts(id)' = starts(id)
  BY <1>5, StartsKept DEF SlotInv
<1>8. Contiguous'
  <2> SUFFICES ASSUME NEW id \in Ids PROVE Started(id)' = 1 .. starts(id)'
    BY DEF Contiguous
  <2>1. CASE id \in S \ parked
    <3>1. starts(id) < MaxStarts
      BY <1>2, <1>4, <2>1
    <3>2. job[<<id, starts(id) + 1>>].pc = "none"
      <4>1. starts(id) + 1 \notin Started(id) /\ starts(id) + 1 \in 1 .. MaxStarts
        BY <1>6, <2>1, StartsIsNat DEF SlotInv, JobsInv, Contiguous
      <4> QED BY <4>1 DEF Started
    <3>3. \A n \in 1 .. MaxStarts :
             job'[<<id, n>>].pc = "none" <=> job[<<id, n>>].pc = "none" /\ n # starts(id) + 1
      BY <1>5, <2>1
    <3> QED BY <3>1, <3>3, StartsOneMore DEF SlotInv
  <2>2. CASE id \notin S \ parked
    BY <1>5, <2>2, StartsKept DEF SlotInv
  <2> QED BY <2>1, <2>2
<1>9. Registered'
  <2> SUFFICES ASSUME NEW id \in Ids, active[id] # Unregistered
               PROVE  job'[<<id, active[id]>>].pc \in Underway
    BY <1>2 DEF Registered
  <2>1. active[id] \in 1 .. MaxStarts /\ job[<<id, active[id]>>].pc \in Underway
    BY TransferBackendAssumption
       DEF IInv, GoodBackend, Unregistered, SlotInv, JobsInv, Registered
  <2>2. active[id] \in 1 .. starts(id)
    BY <2>1 DEF SlotInv, JobsInv, Contiguous, Started, Underway
  <2>3. active[id] # starts(id) + 1
    BY <2>2, StartsIsNat
  <2> QED BY <1>5, <2>1, <2>3
<1>10. RefsInv'
  BY <1>2, <1>4, <1>7 DEF RefsInv, OneRef, MayStart
<1>11. ASSUME NEW id \in Ids, Live(id) PROVE Live(id)'
  <2>1. PICK n \in 1 .. MaxStarts : job[<<id, n>>].pc \notin {"none", "over"}
    BY <1>11 DEF Live
  <2>2. job'[<<id, n>>].pc \notin {"none", "over"}
    BY <1>5, <2>1
  <2> QED BY <2>2 DEF Live
<1>12. ASSUME NEW id \in S \ parked PROVE Live(id)'
  <2>1. id \in Ids /\ starts(id) + 1 \in 1 .. MaxStarts
    BY <1>2, <1>4, <1>6, <1>12
  <2>2. job'[<<id, starts(id) + 1>>].pc = "invoked"
    BY <1>5, <1>12, <2>1
  <2> QED BY <2>1, <2>2 DEF Live
<1>13. Owed'
  <2> SUFFICES ASSUME NEW id \in Ids, items'[id].status \in Active
               PROVE  \/ id \in queued' /\ items'[id].queueState = "pending"
                      \/ Live(id)' \/ EndsAfter(inbox', id, 0)
    BY DEF Owed
  <2>1. CASE id \in S \ parked
    BY <1>12, <2>1
  <2>2. CASE id \notin S \ parked
    <3>1. items[id].status \in Active /\ (id \notin S => items'[id] = items[id])
      BY <1>3 DEF Active
    <3>2. \/ id \in queued /\ items[id].queueState = "pending"
          \/ Live(id) \/ EndsAfter(inbox, id, 0)
      BY <3>1 DEF SlotInv, Owed
    <3>3. id \in queued => id \notin S /\ id \in queued'
      BY <1>2, <1>4, <2>2
    <3> QED BY <1>2, <1>11, <3>1, <3>2, <3>3
  <2> QED BY <2>1, <2>2
<1>14. NewsLast'
  <2> SUFFICES ASSUME NEW k \in DOMAIN inbox, NEW id, id = inbox[k].id
               PROVE  \/ inbox[k].what \in Ending \cup {"resolved"}
                      \/ Live(id)' \/ EndsAfter(inbox, id, k)
    BY <1>2 DEF NewsLast, Live
  <2>1. inbox[k] \in Messages
    BY DEF IInv, GoodBackend
  <2>2. id \in Ids
    BY <2>1 DEF Messages, IInv, GoodPanel
  <2> QED BY <1>11, <2>2 DEF SlotInv, NewsLast
<1> QED BY <1>8, <1>9, <1>10, <1>13, <1>14 DEF SlotInv, JobsInv

(* A message that revives a row is not the last one of its transfer.        *)
LEMMA ReceiveSlots ==
    ASSUME IInv, SlotInv, Receive
    PROVE  SlotInv'
<1>m. PICK m : m = Head(inbox)
  OBVIOUS
<1>0. PICK item : \E revision \in BOOLEAN : ReceivedAs(m, item, revision)
  BY <1>m, ReceiveMeans
<1>1. PICK revision \in BOOLEAN : ReceivedAs(m, item, revision)
  BY <1>0
<1>2. /\ inbox # <<>> /\ inbox' = Tail(inbox) /\ inbox \in Seq(Messages)
      /\ job' = job /\ active' = active
  BY DEF Receive, IInv, GoodBackend
<1>3. /\ m \in Messages /\ m.id \in Ids /\ Update(m.id, item, revision)
      /\ m.what \in Ending => item.status \notin Active
      /\ m.what = "resolved" => item = items[m.id]
      /\ m.what \notin Ending => queued' = queued /\ parked' = parked
      /\ queued' \subseteq queued /\ parked' \subseteq parked
      /\ queued \ {m.id} \subseteq queued'
  BY <1>1 DEF ReceivedAs
<1>4. /\ Len(inbox) > 0 /\ inbox[1] = m /\ inbox' \in Seq(Messages)
      /\ Len(inbox') = Len(inbox) - 1
      /\ \A k \in DOMAIN inbox' : k + 1 \in DOMAIN inbox /\ inbox'[k] = inbox[k + 1]
      /\ \A k \in DOMAIN inbox : k > 1 => k - 1 \in DOMAIN inbox' /\ inbox'[k - 1] = inbox[k]
  BY <1>m, <1>2
<1>5. ASSUME NEW id, NEW k \in Nat, EndsAfter(inbox, id, k + 1) PROVE EndsAfter(inbox', id, k)
  <2>1. PICK i \in DOMAIN inbox : i > k + 1 /\ inbox[i].id = id /\ inbox[i].what \in Ending
    BY <1>5 DEF EndsAfter
  <2>2. i \in Nat
    BY <1>2
  <2>3. i - 1 \in DOMAIN inbox' /\ inbox'[i - 1] = inbox[i] /\ i - 1 > k
    BY <1>4, <2>1, <2>2
  <2> QED BY <2>1, <2>3 DEF EndsAfter
<1>6. \A id : Live(id)' = Live(id)
  BY <1>2 DEF Live
<1>7. JobsInv'
  BY <1>2 DEF SlotInv, JobsInv, Registered, Contiguous, Started, starts
<1>8. RefsInv'
  BY <1>2, <1>3, RefsShrink
<1>9. NewsLast'
  <2> SUFFICES ASSUME NEW k \in DOMAIN inbox', NEW id, id = inbox'[k].id
               PROVE  \/ inbox'[k].what \in Ending \cup {"resolved"}
                      \/ Live(id)' \/ EndsAfter(inbox', id, k)
    BY DEF NewsLast, Live
  <2>1. k \in Nat /\ k + 1 \in DOMAIN inbox /\ inbox'[k] = inbox[k + 1]
    BY <1>4
  <2>2. \/ inbox[k + 1].what \in Ending \cup {"resolved"}
        \/ Live(id) \/ EndsAfter(inbox, id, k + 1)
    BY <2>1 DEF SlotInv, NewsLast
  <2> QED BY <1>5, <1>6, <2>1, <2>2
<1>10. ASSUME NEW id, EndsAfter(inbox, id, 0), m.id # id \/ m.what \notin Ending
       PROVE  EndsAfter(inbox', id, 0)
  <2>1. PICK i \in DOMAIN inbox : inbox[i].id = id /\ inbox[i].what \in Ending
    BY <1>10 DEF EndsAfter
  <2>2. i \in Nat /\ i > 1
    BY <1>2, <1>4, <1>10, <2>1
  <2>3. EndsAfter(inbox, id, 0 + 1)
    BY <2>1, <2>2 DEF EndsAfter
  <2> QED BY <1>5, <2>3
<1>11. /\ items'[m.id] = item
       /\ \A i \in Ids : i # m.id => items'[i] = items[i]
  BY <1>3, UpdateMeans
<1>12. Owed'
  <2> SUFFICES ASSUME NEW id \in Ids, items'[id].status \in Active
               PROVE  \/ id \in queued' /\ items'[id].queueState = "pending"
                      \/ Live(id)' \/ EndsAfter(inbox', id, 0)
    BY DEF Owed
  <2>1. CASE id # m.id
    <3>1. items'[id] = items[id] /\ (id \in queued => id \in queued')
      BY <1>3, <1>11, <2>1
    <3>2. \/ id \in queued /\ items[id].queueState = "pending"
          \/ Live(id) \/ EndsAfter(inbox, id, 0)
      BY <3>1 DEF SlotInv, Owed
    <3> QED BY <1>6, <1>10, <2>1, <3>1, <3>2
  <2>2. CASE id = m.id
    <3>1. m.what \notin Ending /\ items'[id] = item /\ queued' = queued
      BY <1>3, <1>11, <2>2
    <3>2. CASE m.what = "resolved"
      <4>1. items'[id] = items[id]
        BY <1>3, <2>2, <3>1, <3>2
      <4>2. \/ id \in queued /\ items[id].queueState = "pending"
            \/ Live(id) \/ EndsAfter(inbox, id, 0)
        BY <4>1 DEF SlotInv, Owed
      <4> QED BY <1>6, <1>10, <3>1, <4>1, <4>2
    <3>3. CASE m.what # "resolved"
      <4>1. 1 \in DOMAIN inbox /\ inbox[1].id = id /\ inbox[1].what \notin Ending \cup {"resolved"}
        BY <1>4, <2>2, <3>1, <3>3
      <4>2. Live(id) \/ EndsAfter(inbox, id, 0 + 1)
        BY <4>1 DEF SlotInv, NewsLast
      <4> QED BY <1>5, <1>6, <4>2
    <3> QED BY <3>2, <3>3
  <2> QED BY <2>1, <2>2
<1> QED BY <1>7, <1>8, <1>9, <1>12 DEF SlotInv

(* The initial state: no job, no message, no row.                           *)
LEMMA InitSlots == Init => SlotInv
<1> SUFFICES ASSUME Init PROVE SlotInv
  OBVIOUS
<1>1. /\ job = [j \in Jobs |-> NoJob] /\ active = [id \in Ids |-> Unregistered]
      /\ inbox = <<>> /\ queued = {} /\ parked = {}
      /\ items = [id \in Ids |-> Absent]
  BY DEF Init, BackendInit
<1>2. Absent.status \notin Active /\ NoJob.pc = "none"
  BY DEF Absent, Active, NoJob, Resting
<1>3. Registered /\ RefsInv /\ NewsLast /\ Owed
  BY <1>1, <1>2 DEF Registered, RefsInv, OneRef, MayStart, NewsLast, Owed
<1>4. ASSUME NEW id \in Ids PROVE Started(id) = 1 .. starts(id)
  <2>1. \A n \in 1 .. MaxStarts : job[<<id, n>>].pc = "none"
    BY <1>1, <1>2 DEF Jobs
  <2>2. Started(id) = {}
    BY <2>1 DEF Started
  <2>3. starts(id) = 0
    BY <2>2, StartsIsNat, FS_EmptySet
  <2> QED BY <2>2, <2>3
<1> QED BY <1>3, <1>4 DEF SlotInv, JobsInv, Contiguous

LEMMA NextSlots == IInv /\ SlotInv /\ [Next]_vars => SlotInv'
<1> SUFFICES ASSUME IInv, SlotInv, [Next]_vars PROVE SlotInv'
  OBVIOUS
<1>1. ASSUME UNCHANGED <<job, active, inbox, items, queued, parked>> PROVE SlotInv'
  BY <1>1, SameSlots, RefsShrink
<1>2. CASE UNCHANGED vars \/ Render
  BY <1>1, <1>2 DEF vars, backendVars, uiVars, Render
<1>3. CASE BackendNext /\ UNCHANGED uiVars
  <2>1. CASE \E j \in Jobs : JobStep(j)
    BY <1>3, <2>1, JobStepMoves, JobStepSlots
  <2>2. CASE \E c \in calls : HandleCall(c)
    BY <1>3, <2>2, HandleCallMoves, CallSlots
  <2> QED BY <1>3, <2>1, <2>2 DEF BackendNext
<1>4. CASE RunEffects \/ Receive \/ UserNext
  BY <1>4, RunEffectsSlots, ReceiveSlots, UserNextSlots
<1> QED BY <1>2, <1>3, <1>4 DEF Next

(* Every slot is given back, for any number of transfers, jobs, retries and *)
(* messages under way: a row that counts as running has a job that will     *)
(* end, or the news of its end is on its way, although an event that was    *)
(* overtaken by a removal or a retry may have revived the row.              *)
THEOREM SlotsAreGivenBack == Spec => []NoLeakedSlot
<1>1. IInv /\ SlotInv => NoLeakedSlot
  <2> SUFFICES ASSUME IInv, SlotInv, NEW id \in Ids, Quiet(id), id \in Counted(items)
               PROVE  FALSE
    BY DEF NoLeakedSlot
  <2>1. items[id].status \in Active /\ items[id].queueState = "running"
    BY DEF Counted, Item, Active
  <2>2. Live(id) \/ EndsAfter(inbox, id, 0)
    BY <2>1 DEF SlotInv, Owed
  <2> QED BY <2>2 DEF Quiet, Live, EndsAfter
<1>2. Spec => []SlotInv
  BY InitSlots, NextSlots, TransfersInductive, PTL DEF Spec
<1> QED BY <1>1, <1>2, TransfersInductive, PTL

-----------------------------------------------------------------------------
(* What is parked is held: the messages under way.                          *)

(* The message at place k of s is one of these, about id.                   *)
Of(s, k, id, what) == k \in 1 .. Len(s) /\ s[k].id = id /\ s[k].what \in what

Later(s, k, id, what) == \E l \in 1 .. Len(s) : k < l /\ Of(s, l, id, what)

(* Before the place k an end of id is told.                                 *)
Ended(s, k, id) == \E l \in 1 .. Len(s) : l < k /\ Of(s, l, id, Finished)

(* After the place k an end of id is told, and then that it started again.  *)
Anew(s, k, id) ==
    \E m \in 1 .. Len(s) : k < m /\ Of(s, m, id, Finished) /\ Later(s, m, id, {"started"})

Lively(w) == w.pc \in Underway /\ w.ctl = "Running"

(* What follows a message that the job, now w, was paused: before it is     *)
(* paused once more it was resumed or had ended; likewise if it runs, and   *)
(* if it is about to be tried again.                                        *)
Letters(s, id, w) ==
    \A k \in 1 .. Len(s) : Of(s, k, id, {"paused"}) =>
        /\ \A l \in 1 .. Len(s) : k < l /\ Of(s, l, id, {"paused"}) =>
              \E m \in 1 .. Len(s) : k < m /\ m < l /\ Of(s, m, id, Finished \cup {"resumed"})
        /\ Lively(w) => Later(s, k, id, {"resumed"}) \/ Anew(s, k, id)
        /\ w.pc = "again" => Later(s, k, id, Finished)

(* The job stands still, as far as the panel will hear before its end.      *)
Calm(s, id, w) ==
    /\ \A k \in 1 .. Len(s) : Of(s, k, id, {"paused"}) => Ended(s, k, id)
    /\ Lively(w) => Anew(s, 0, id)
    /\ w.pc = "again" => Later(s, 0, id, Finished)

(* A pause under way that was followed by a resume is behind an end.        *)
Ordered(s, id) ==
    \A k, l \in 1 .. Len(s) :
        k < l /\ Of(s, k, id, {"paused"}) /\ Of(s, l, id, {"resumed"}) => Ended(s, k, id)

Untold(s, id, what) == \A k \in 1 .. Len(s) : ~Of(s, k, id, what)

-----------------------------------------------------------------------------
(* Messages are added.                                                      *)

LEMMA OfAdded ==
    ASSUME NEW T, NEW s \in Seq(T), NEW ms \in Seq(T), NEW id, NEW what
    PROVE  /\ Len(s) \in Nat /\ Len(ms) \in Nat /\ Len(s \o ms) = Len(s) + Len(ms)
           /\ \A k \in 1 .. Len(s) : Of(s \o ms, k, id, what) <=> Of(s, k, id, what)
           /\ \A k \in 1 .. Len(ms) : Of(s \o ms, Len(s) + k, id, what) <=> Of(ms, k, id, what)
<1> DEFINE t == s \o ms
           n == Len(s)
           o == Len(ms)
<1>1. n \in Nat /\ o \in Nat
  BY LenProperties
<1>2. Len(t) = n + o /\ \A i \in 1 .. n + o : t[i] = IF i <= n THEN s[i] ELSE ms[i - n]
  BY ConcatProperties
<1>3. \A k \in 1 .. n : k \in 1 .. n + o /\ t[k] = s[k]
  BY <1>1, <1>2
<1>4. \A k \in 1 .. o : n + k \in 1 .. n + o /\ t[n + k] = ms[k]
  <2> SUFFICES ASSUME NEW k \in 1 .. o PROVE n + k \in 1 .. n + o /\ t[n + k] = ms[k]
    OBVIOUS
  <2>1. n + k \in 1 .. n + o /\ ~(n + k <= n) /\ (n + k) - n = k
    BY <1>1
  <2> QED BY <1>2, <2>1
<1> HIDE DEF t, n, o
<1>5. \A k \in 1 .. n : Of(t, k, id, what) <=> Of(s, k, id, what)
  BY <1>2, <1>3 DEF Of, n
<1>6. \A k \in 1 .. o : Of(t, n + k, id, what) <=> Of(ms, k, id, what)
  BY <1>2, <1>4 DEF Of, o
<1> QED BY <1>1, <1>2, <1>5, <1>6 DEF t, n, o

(* A message of the longer sequence is an old or a new one.                 *)
LEMMA OfSplit ==
    ASSUME NEW T, NEW s \in Seq(T), NEW ms \in Seq(T), NEW id, NEW what,
           NEW k, Of(s \o ms, k, id, what)
    PROVE  \/ k \in 1 .. Len(s) /\ Of(s, k, id, what)
           \/ k > Len(s) /\ k - Len(s) \in 1 .. Len(ms) /\ Of(ms, k - Len(s), id, what)
<1>1. /\ Len(s) \in Nat /\ Len(ms) \in Nat /\ k \in 1 .. Len(s) + Len(ms)
  BY OfAdded DEF Of
<1>2. CASE k <= Len(s)
  <2>1. k \in 1 .. Len(s)
    BY <1>1, <1>2
  <2> QED BY <2>1, OfAdded
<1>3. CASE ~(k <= Len(s))
  <2> DEFINE i == k - Len(s)
  <2>1. i \in 1 .. Len(ms) /\ k = Len(s) + i /\ k > Len(s)
    BY <1>1, <1>3
  <2> HIDE DEF i
  <2>2. Of(ms, i, id, what)
    BY <2>1, OfAdded
  <2> QED BY <2>1, <2>2 DEF i
<1> QED BY <1>2, <1>3

(* What was told stays told.                                                *)
LEMMA AddedKeeps ==
    ASSUME NEW T, NEW s \in Seq(T), NEW ms \in Seq(T), NEW id, NEW k \in Int
    PROVE  LET t == s \o ms
           IN  /\ \A what : Later(s, k, id, what) => Later(t, k, id, what)
               /\ Ended(s, k, id) => Ended(t, k, id)
               /\ Anew(s, k, id) => Anew(t, k, id)
<1> DEFINE t == s \o ms
<1>1. /\ Len(s) \in Nat /\ Len(ms) \in Nat /\ Len(t) = Len(s) + Len(ms)
      /\ \A what : \A i \in 1 .. Len(s) : Of(t, i, id, what) <=> Of(s, i, id, what)
  BY OfAdded
<1>2. \A i \in 1 .. Len(s) : i \in 1 .. Len(t)
  BY <1>1
<1> HIDE DEF t
<1>3. \A i \in Int : \A what : Later(s, i, id, what) => Later(t, i, id, what)
  BY <1>1, <1>2 DEF Later
<1>4. Ended(s, k, id) => Ended(t, k, id)
  BY <1>1, <1>2 DEF Ended
<1>5. Anew(s, k, id) => Anew(t, k, id)
  BY <1>1, <1>2, <1>3 DEF Anew
<1> QED BY <1>3, <1>4, <1>5 DEF t

(* One of the new messages is behind every old one.                         *)
LEMMA AddedLater ==
    ASSUME NEW T, NEW s \in Seq(T), NEW ms \in Seq(T), NEW id, NEW what,
           NEW i \in 1 .. Len(ms), Of(ms, i, id, what)
    PROVE  \A k \in 0 .. Len(s) : Later(s \o ms, k, id, what)
<1>1. /\ Len(s) \in Nat /\ Len(ms) \in Nat /\ Len(s \o ms) = Len(s) + Len(ms)
      /\ Of(s \o ms, Len(s) + i, id, what)
  BY OfAdded
<1>2. Len(s) + i \in 1 .. Len(s \o ms) /\ \A k \in 0 .. Len(s) : k < Len(s) + i
  BY <1>1
<1> QED BY <1>1, <1>2 DEF Later

-----------------------------------------------------------------------------
(* Nothing is said of a pause, and the job, w before and v now, runs only   *)
(* if it did or if this is told.                                            *)
LEMMA QuietLetters ==
    ASSUME NEW T, NEW s \in Seq(T), NEW ms \in Seq(T), NEW id, NEW w, NEW v,
           Untold(ms, id, {"paused"}),
           \/ Lively(v) => Lively(w)
           \/ w.pc = "again" /\ ~Untold(ms, id, {"started"})
           \/ ~Untold(ms, id, {"resumed"}),
           v.pc = "again" => w.pc = "again" \/ ~Untold(ms, id, Finished),
           Letters(s, id, w)
    PROVE  Letters(s \o ms, id, v)
<1> DEFINE t == s \o ms
<1>1. /\ Len(s) \in Nat /\ Len(t) \in Nat /\ \A k \in 1 .. Len(s) : k \in 1 .. Len(t) /\ k \in Int
      /\ \A what : \A k \in 1 .. Len(s) : Of(t, k, id, what) <=> Of(s, k, id, what)
  BY OfAdded
<1>2. \A k \in 1 .. Len(t) : Of(t, k, id, {"paused"}) => k \in 1 .. Len(s) /\ Of(s, k, id, {"paused"})
  BY OfSplit DEF Untold
<1>3. ASSUME NEW what, ~Untold(ms, id, what), NEW k \in 0 .. Len(s) PROVE Later(t, k, id, what)
  BY <1>3, AddedLater DEF Untold
<1>4. ASSUME NEW k \in 1 .. Len(s)
      PROVE  /\ \A what : Later(s, k, id, what) => Later(t, k, id, what)
             /\ Anew(s, k, id) => Anew(t, k, id)
  BY <1>1, AddedKeeps
<1> HIDE DEF t
<1>5. SUFFICES ASSUME NEW k \in 1 .. Len(t), Of(t, k, id, {"paused"})
      PROVE  /\ \A l \in 1 .. Len(t) : k < l /\ Of(t, l, id, {"paused"}) =>
                   \E m \in 1 .. Len(t) : k < m /\ m < l /\ Of(t, m, id, Finished \cup {"resumed"})
             /\ Lively(v) => Later(t, k, id, {"resumed"}) \/ Anew(t, k, id)
             /\ v.pc = "again" => Later(t, k, id, Finished)
  BY DEF Letters, t
<1>6. k \in 1 .. Len(s) /\ Of(s, k, id, {"paused"}) /\ k \in 0 .. Len(s)
  BY <1>1, <1>2, <1>5
<1>7. /\ \A l \in 1 .. Len(s) : k < l /\ Of(s, l, id, {"paused"}) =>
            \E m \in 1 .. Len(s) : k < m /\ m < l /\ Of(s, m, id, Finished \cup {"resumed"})
      /\ Lively(w) => Later(s, k, id, {"resumed"}) \/ Anew(s, k, id)
      /\ w.pc = "again" => Later(s, k, id, Finished)
  BY <1>6 DEF Letters
<1>8. ASSUME NEW l \in 1 .. Len(t), k < l, Of(t, l, id, {"paused"})
      PROVE  \E m \in 1 .. Len(t) : k < m /\ m < l /\ Of(t, m, id, Finished \cup {"resumed"})
  <2>1. PICK m \in 1 .. Len(s) : k < m /\ m < l /\ Of(s, m, id, Finished \cup {"resumed"})
    BY <1>2, <1>7, <1>8
  <2> QED BY <1>1, <2>1
<1>9. ASSUME Lively(v) PROVE Later(t, k, id, {"resumed"}) \/ Anew(t, k, id)
  <2>1. CASE Lively(w)
    BY <1>4, <1>6, <1>7, <2>1
  <2>2. CASE w.pc = "again" /\ ~Untold(ms, id, {"started"})
    <3>1. PICK m \in 1 .. Len(s) : k < m /\ Of(s, m, id, Finished)
      BY <1>7, <2>2 DEF Later
    <3>2. m \in 0 .. Len(s) /\ m \in 1 .. Len(t) /\ Of(t, m, id, Finished)
      BY <1>1, <3>1
    <3>3. Later(t, m, id, {"started"})
      BY <1>3, <2>2, <3>2
    <3> QED BY <3>1, <3>2, <3>3 DEF Anew
  <2>3. CASE ~Untold(ms, id, {"resumed"})
    BY <1>3, <1>6, <2>3
  <2> QED BY <1>9, <2>1, <2>2, <2>3
<1>10. ASSUME v.pc = "again" PROVE Later(t, k, id, Finished)
  BY <1>3, <1>4, <1>6, <1>7, <1>10
<1> QED BY <1>8, <1>9, <1>10

LEMMA QuietCalm ==
    ASSUME NEW T, NEW s \in Seq(T), NEW ms \in Seq(T), NEW id, NEW w, NEW v,
           Untold(ms, id, {"paused"}),
           \/ Lively(v) => Lively(w)
           \/ w.pc = "again" /\ ~Untold(ms, id, {"started"}),
           v.pc = "again" => w.pc = "again" \/ ~Untold(ms, id, Finished),
           Calm(s, id, w)
    PROVE  Calm(s \o ms, id, v)
<1> DEFINE t == s \o ms
<1>1. /\ Len(s) \in Nat /\ Len(t) \in Nat /\ \A k \in 1 .. Len(s) : k \in 1 .. Len(t) /\ k \in Int
      /\ \A what : \A k \in 1 .. Len(s) : Of(t, k, id, what) <=> Of(s, k, id, what)
      /\ 0 \in 0 .. Len(s) /\ 0 \in Int
  BY OfAdded
<1>2. \A k \in 1 .. Len(t) : Of(t, k, id, {"paused"}) => k \in 1 .. Len(s) /\ Of(s, k, id, {"paused"})
  BY OfSplit DEF Untold
<1>3. ASSUME NEW what, ~Untold(ms, id, what), NEW k \in 0 .. Len(s) PROVE Later(t, k, id, what)
  BY <1>3, AddedLater DEF Untold
<1>4. ASSUME NEW k \in Int
      PROVE  /\ \A what : Later(s, k, id, what) => Later(t, k, id, what)
             /\ Anew(s, k, id) => Anew(t, k, id)
             /\ Ended(s, k, id) => Ended(t, k, id)
  BY AddedKeeps
<1> HIDE DEF t
<1>5. ASSUME NEW k \in 1 .. Len(t), Of(t, k, id, {"paused"}) PROVE Ended(t, k, id)
  BY <1>1, <1>2, <1>4, <1>5 DEF Calm
<1>6. ASSUME Lively(v) PROVE Anew(t, 0, id)
  <2>1. CASE Lively(w)
    BY <1>1, <1>4, <2>1 DEF Calm
  <2>2. CASE w.pc = "again" /\ ~Untold(ms, id, {"started"})
    <3>1. PICK m \in 1 .. Len(s) : 0 < m /\ Of(s, m, id, Finished)
      BY <2>2 DEF Later, Calm
    <3>2. m \in 0 .. Len(s) /\ m \in 1 .. Len(t) /\ Of(t, m, id, Finished)
      BY <1>1, <3>1
    <3>3. Later(t, m, id, {"started"})
      BY <1>3, <2>2, <3>2
    <3> QED BY <3>1, <3>2, <3>3 DEF Anew
  <2> QED BY <1>6, <2>1, <2>2
<1>7. ASSUME v.pc = "again" PROVE Later(t, 0, id, Finished)
  BY <1>1, <1>3, <1>4, <1>7 DEF Calm
<1> QED BY <1>5, <1>6, <1>7 DEF Calm, t

(* A running job is paused, and says so first.                              *)
LEMMA PauseLetters ==
    ASSUME NEW T, NEW s \in Seq(T), NEW ms \in Seq(T), NEW id, NEW w, NEW v,
           \A k \in 1 .. Len(ms) : Of(ms, k, id, {"paused"}) => k = 1,
           Lively(w), ~Lively(v), v.pc # "again", Letters(s, id, w)
    PROVE  Letters(s \o ms, id, v)
<1> DEFINE t == s \o ms
<1>1. /\ Len(s) \in Nat /\ Len(t) \in Nat /\ \A k \in 1 .. Len(s) : k \in 1 .. Len(t) /\ k \in Int
      /\ \A what : \A k \in 1 .. Len(s) : Of(t, k, id, what) <=> Of(s, k, id, what)
  BY OfAdded
<1>2. \A k \in 1 .. Len(t) : Of(t, k, id, {"paused"}) =>
          (k \in 1 .. Len(s) /\ Of(s, k, id, {"paused"})) \/ k = Len(s) + 1
  <2> SUFFICES ASSUME NEW k \in 1 .. Len(t), Of(t, k, id, {"paused"}), ~(k = Len(s) + 1)
               PROVE  k \in 1 .. Len(s) /\ Of(s, k, id, {"paused"})
    OBVIOUS
  <2>1. CASE k > Len(s) /\ k - Len(s) \in 1 .. Len(ms) /\ Of(ms, k - Len(s), id, {"paused"})
    <3>1. k - Len(s) = 1
      BY <2>1
    <3> QED BY <1>1, <3>1
  <2> QED BY <2>1, OfSplit
<1> HIDE DEF t
<1>3. SUFFICES ASSUME NEW k \in 1 .. Len(t), Of(t, k, id, {"paused"}),
                      NEW l \in 1 .. Len(t), k < l, Of(t, l, id, {"paused"})
      PROVE  \E m \in 1 .. Len(t) : k < m /\ m < l /\ Of(t, m, id, Finished \cup {"resumed"})
  BY DEF Letters, t
<1>4. k \in 1 .. Len(s) /\ Of(s, k, id, {"paused"})
  <2>1. k # Len(s) + 1
    <3>1. l <= Len(s) + 1
      BY <1>1, <1>2, <1>3
    <3> QED BY <1>1, <1>3, <3>1
  <2> QED BY <1>2, <1>3, <2>1
<1>5. CASE l \in 1 .. Len(s) /\ Of(s, l, id, {"paused"})
  <2>1. PICK m \in 1 .. Len(s) : k < m /\ m < l /\ Of(s, m, id, Finished \cup {"resumed"})
    BY <1>3, <1>4, <1>5 DEF Letters
  <2> QED BY <1>1, <2>1
<1>6. CASE l = Len(s) + 1
  <2>1. Later(s, k, id, {"resumed"}) \/ Anew(s, k, id)
    BY <1>4 DEF Letters
  <2>2. PICK m \in 1 .. Len(s) : k < m /\ (Of(s, m, id, {"resumed"}) \/ Of(s, m, id, Finished))
    BY <2>1 DEF Later, Anew
  <2>3. Of(s, m, id, Finished \cup {"resumed"})
    BY <2>2 DEF Of
  <2>4. m < l /\ m \in 1 .. Len(t) /\ Of(t, m, id, Finished \cup {"resumed"})
    BY <1>1, <1>6, <2>3
  <2> QED BY <2>2, <2>4
<1> QED BY <1>2, <1>3, <1>5, <1>6

LEMMA PauseCalm ==
    ASSUME NEW T, NEW s \in Seq(T), NEW ms \in Seq(T), NEW id, NEW w, NEW v,
           Lively(w), ~Lively(v), v.pc # "again", Calm(s, id, w)
    PROVE  Calm(s \o ms, id, v)
<1> DEFINE t == s \o ms
<1>0. /\ Len(s) \in Nat /\ Len(ms) \in Nat /\ Len(t) = Len(s) + Len(ms)
      /\ \A what : \A k \in 1 .. Len(s) : Of(t, k, id, what) <=> Of(s, k, id, what)
  BY OfAdded
<1>1. /\ Len(s) \in Nat /\ Len(t) \in Nat /\ \A k \in 1 .. Len(s) : k \in 1 .. Len(t)
      /\ \A what : \A k \in 1 .. Len(s) : Of(t, k, id, what) <=> Of(s, k, id, what)
  BY <1>0
<1>2. PICK m \in 1 .. Len(s) : 0 < m /\ Of(s, m, id, Finished)
  <2>1. Anew(s, 0, id)
    BY DEF Calm
  <2> QED BY <2>1 DEF Anew
<1>3. ASSUME NEW k \in 1 .. Len(t), Of(t, k, id, {"paused"}) PROVE Ended(t, k, id)
  <2>1. CASE k \in 1 .. Len(s) /\ Of(s, k, id, {"paused"})
    <3>1. Ended(s, k, id) /\ k \in Int
      BY <2>1 DEF Calm
    <3> QED BY <3>1, AddedKeeps
  <2>2. CASE k > Len(s)
    <3>1. m \in 1 .. Len(t) /\ m < k /\ Of(t, m, id, Finished)
      BY <1>1, <1>2, <2>2
    <3> QED BY <3>1 DEF Ended
  <2> QED BY <1>3, <2>1, <2>2, OfSplit
<1> QED BY <1>3 DEF Calm

LEMMA QuietOrder ==
    ASSUME NEW T, NEW s \in Seq(T), NEW ms \in Seq(T), NEW id, Untold(ms, id, {"resumed"}),
           Ordered(s, id)
    PROVE  Ordered(s \o ms, id)
<1> DEFINE t == s \o ms
<1>1. /\ Len(s) \in Nat /\ Len(t) \in Nat /\ \A k \in 1 .. Len(t) : k \in Int
      /\ \A what : \A k \in 1 .. Len(s) : Of(t, k, id, what) <=> Of(s, k, id, what)
  BY OfAdded
<1>2. SUFFICES ASSUME NEW k \in 1 .. Len(t), NEW l \in 1 .. Len(t), k < l,
                      Of(t, k, id, {"paused"}), Of(t, l, id, {"resumed"})
               PROVE  Ended(t, k, id)
  BY DEF Ordered
<1>3. l \in 1 .. Len(s) /\ Of(s, l, id, {"resumed"})
  BY <1>2, OfSplit DEF Untold
<1>4. k \in 1 .. Len(s)
  BY <1>1, <1>2, <1>3
<1>5. Ended(s, k, id)
  BY <1>1, <1>2, <1>3, <1>4 DEF Ordered
<1> QED BY <1>1, <1>5, AddedKeeps

(* A job that stood still is resumed.                                       *)
LEMMA ResumeOrder ==
    ASSUME NEW T, NEW s \in Seq(T), NEW ms \in Seq(T), NEW id, NEW w,
           Untold(ms, id, {"paused"}), Calm(s, id, w)
    PROVE  Ordered(s \o ms, id)
<1> DEFINE t == s \o ms
<1>1. \A k \in 1 .. Len(t) : Of(t, k, id, {"paused"}) => Ended(t, k, id)
  <2> SUFFICES ASSUME NEW k \in 1 .. Len(t), Of(t, k, id, {"paused"}) PROVE Ended(t, k, id)
    OBVIOUS
  <2>1. k \in 1 .. Len(s) /\ Of(s, k, id, {"paused"}) /\ k \in Int
    BY OfSplit DEF Untold
  <2>2. Ended(s, k, id)
    BY <2>1 DEF Calm
  <2> QED BY <2>1, <2>2, AddedKeeps
<1> QED BY <1>1 DEF Ordered

-----------------------------------------------------------------------------
(* The first message is received.                                           *)

LEMMA OfTail ==
    ASSUME NEW T, NEW s \in Seq(T), s # <<>>
    PROVE  /\ Tail(s) \in Seq(T) /\ Len(Tail(s)) \in Nat /\ Len(s) = Len(Tail(s)) + 1
           /\ Head(s) = s[1]
           /\ \A id, what : \A k \in 1 .. Len(Tail(s)) :
                 Of(Tail(s), k, id, what) <=> Of(s, k + 1, id, what)
<1> DEFINE t == Tail(s)
           n == Len(t)
<1>1. t \in Seq(T) /\ n \in Nat /\ Len(s) = n + 1 /\ Head(s) = s[1]
  BY HeadTailProperties, LenProperties
<1>2. \A k \in 1 .. n : t[k] = s[k + 1] /\ k + 1 \in 1 .. n + 1
  BY <1>1, HeadTailProperties
<1> HIDE DEF t
<1>3. \A id, what : \A k \in 1 .. n : Of(t, k, id, what) <=> Of(s, k + 1, id, what)
  BY <1>1, <1>2 DEF Of
<1> QED BY <1>1, <1>3 DEF t

(* Places move up by one.                                                   *)
LEMMA TailKeeps ==
    ASSUME NEW T, NEW s \in Seq(T), s # <<>>, NEW id, NEW k \in 1 .. Len(Tail(s))
    PROVE  LET t == Tail(s)
           IN  /\ \A what : Later(s, k + 1, id, what) => Later(t, k, id, what)
               /\ Anew(s, k + 1, id) => Anew(t, k, id)
               /\ Ended(s, k + 1, id) => Of(s, 1, id, Finished) \/ Ended(t, k, id)
<1> DEFINE t == Tail(s)
           n == Len(t)
<1>1. /\ n \in Nat /\ Len(s) = n + 1
      /\ \A what : \A i \in 1 .. n : Of(t, i, id, what) <=> Of(s, i + 1, id, what)
  BY OfTail
<1> HIDE DEF t
<1>2. ASSUME NEW i \in 1 .. n, NEW what, Later(s, i + 1, id, what) PROVE Later(t, i, id, what)
  <2>1. PICK l \in 1 .. n + 1 : i + 1 < l /\ Of(s, l, id, what)
    BY <1>1, <1>2 DEF Later
  <2>2. l - 1 \in 1 .. n /\ i < l - 1 /\ (l - 1) + 1 = l
    BY <1>1, <2>1
  <2> QED BY <1>1, <2>1, <2>2 DEF Later, n
<1>3. ASSUME Anew(s, k + 1, id) PROVE Anew(t, k, id)
  <2>1. PICK m \in 1 .. n + 1 : k + 1 < m /\ Of(s, m, id, Finished) /\ Later(s, m, id, {"started"})
    BY <1>1, <1>3 DEF Anew
  <2>2. m - 1 \in 1 .. n /\ k < m - 1 /\ (m - 1) + 1 = m
    BY <1>1, <2>1
  <2>3. Of(t, m - 1, id, Finished) /\ Later(t, m - 1, id, {"started"})
    BY <1>1, <1>2, <2>1, <2>2
  <2> QED BY <2>2, <2>3 DEF Anew, n
<1>4. ASSUME Ended(s, k + 1, id), ~Of(s, 1, id, Finished) PROVE Ended(t, k, id)
  <2>1. PICK l \in 1 .. n + 1 : l < k + 1 /\ Of(s, l, id, Finished)
    BY <1>1, <1>4 DEF Ended
  <2>2. l # 1
    BY <1>4, <2>1
  <2>3. l - 1 \in 1 .. n /\ l - 1 < k /\ (l - 1) + 1 = l
    BY <1>1, <2>1, <2>2
  <2> QED BY <1>1, <2>1, <2>3 DEF Ended, n
<1>5. k \in 1 .. n
  BY DEF t, n
<1> QED BY <1>2, <1>3, <1>4, <1>5 DEF t

(* As seen from the front, what is left is what follows the first message.  *)
LEMMA TailFront ==
    ASSUME NEW T, NEW s \in Seq(T), s # <<>>, NEW id
    PROVE  LET t == Tail(s)
           IN  /\ \A what : Later(s, 1, id, what) => Later(t, 0, id, what)
               /\ \A what : Later(s, 0, id, what) => Of(s, 1, id, what) \/ Later(t, 0, id, what)
               /\ Anew(s, 1, id) => Anew(t, 0, id)
               /\ Anew(s, 0, id) => Of(s, 1, id, Finished) \/ Anew(t, 0, id)
<1> DEFINE t == Tail(s)
           n == Len(t)
<1>1. /\ n \in Nat /\ Len(s) = n + 1
      /\ \A what : \A i \in 1 .. n : Of(t, i, id, what) <=> Of(s, i + 1, id, what)
  BY OfTail
<1>2. ASSUME NEW i \in 1 .. n, NEW what, Later(s, i + 1, id, what) PROVE Later(t, i, id, what)
  BY <1>2, TailKeeps
<1> HIDE DEF t
<1>3. \A l \in 1 .. n + 1 : l # 1 => l - 1 \in 1 .. n /\ 0 < l - 1 /\ (l - 1) + 1 = l
  BY <1>1
<1>4. ASSUME NEW what, NEW l \in 1 .. Len(s), l # 1, Of(s, l, id, what) PROVE Later(t, 0, id, what)
  <2>1. l - 1 \in 1 .. n /\ 0 < l - 1 /\ (l - 1) + 1 = l
    BY <1>1, <1>3, <1>4
  <2>2. Of(t, l - 1, id, what)
    BY <1>1, <1>4, <2>1
  <2> QED BY <2>1, <2>2 DEF Later, n
<1>5. ASSUME NEW m \in 1 .. Len(s), m # 1, Of(s, m, id, Finished), Later(s, m, id, {"started"})
      PROVE  Anew(t, 0, id)
  <2>1. m - 1 \in 1 .. n /\ 0 < m - 1 /\ (m - 1) + 1 = m
    BY <1>1, <1>3, <1>5
  <2>2. Of(t, m - 1, id, Finished) /\ Later(t, m - 1, id, {"started"})
    BY <1>1, <1>2, <1>5, <2>1
  <2> QED BY <2>1, <2>2 DEF Anew, n
<1>6. \A what : Later(s, 1, id, what) => Later(t, 0, id, what)
  BY <1>4 DEF Later
<1>7. \A what : Later(s, 0, id, what) => Of(s, 1, id, what) \/ Later(t, 0, id, what)
  BY <1>4 DEF Later
<1>8. Anew(s, 1, id) => Anew(t, 0, id)
  BY <1>5 DEF Anew
<1>9. Anew(s, 0, id) => Of(s, 1, id, Finished) \/ Anew(t, 0, id)
  BY <1>5 DEF Anew
<1> QED BY <1>6, <1>7, <1>8, <1>9 DEF t

LEMMA TailLetters ==
    ASSUME NEW T, NEW s \in Seq(T), s # <<>>, NEW id, NEW w, Letters(s, id, w)
    PROVE  Letters(Tail(s), id, w)
<1> DEFINE t == Tail(s)
           n == Len(t)
<1>1. /\ n \in Nat /\ Len(s) = n + 1 /\ \A k \in 1 .. n : k + 1 \in 1 .. n + 1
      /\ \A what : \A i \in 1 .. n : Of(t, i, id, what) <=> Of(s, i + 1, id, what)
  BY OfTail
<1>2. ASSUME NEW k \in 1 .. n
      PROVE  /\ \A what : Later(s, k + 1, id, what) => Later(t, k, id, what)
             /\ Anew(s, k + 1, id) => Anew(t, k, id)
  BY TailKeeps
<1> HIDE DEF t
<1>3. SUFFICES ASSUME NEW k \in 1 .. n, Of(t, k, id, {"paused"})
      PROVE  /\ \A l \in 1 .. n : k < l /\ Of(t, l, id, {"paused"}) =>
                   \E m \in 1 .. n : k < m /\ m < l /\ Of(t, m, id, Finished \cup {"resumed"})
             /\ Lively(w) => Later(t, k, id, {"resumed"}) \/ Anew(t, k, id)
             /\ w.pc = "again" => Later(t, k, id, Finished)
  BY DEF Letters, t, n
<1>4. /\ \A l \in 1 .. n + 1 : k + 1 < l /\ Of(s, l, id, {"paused"}) =>
            \E m \in 1 .. n + 1 : k + 1 < m /\ m < l /\ Of(s, m, id, Finished \cup {"resumed"})
      /\ Lively(w) => Later(s, k + 1, id, {"resumed"}) \/ Anew(s, k + 1, id)
      /\ w.pc = "again" => Later(s, k + 1, id, Finished)
  BY <1>1, <1>3 DEF Letters
<1>5. ASSUME NEW l \in 1 .. n, k < l, Of(t, l, id, {"paused"})
      PROVE  \E m \in 1 .. n : k < m /\ m < l /\ Of(t, m, id, Finished \cup {"resumed"})
  <2>1. l + 1 \in 1 .. n + 1 /\ k + 1 < l + 1 /\ Of(s, l + 1, id, {"paused"})
    BY <1>1, <1>5
  <2>2. PICK m \in 1 .. n + 1 : k + 1 < m /\ m < l + 1 /\ Of(s, m, id, Finished \cup {"resumed"})
    BY <1>4, <2>1
  <2>3. m - 1 \in 1 .. n /\ k < m - 1 /\ m - 1 < l /\ (m - 1) + 1 = m
    BY <1>1, <2>2
  <2> QED BY <1>1, <2>2, <2>3
<1> QED BY <1>2, <1>3, <1>4, <1>5

(* Unless an end of id is received, nothing it is behind of comes first.    *)
LEMMA TailCalm ==
    ASSUME NEW T, NEW s \in Seq(T), s # <<>>, NEW id, NEW w, ~Of(s, 1, id, Finished), Calm(s, id, w)
    PROVE  Calm(Tail(s), id, w)
<1> DEFINE t == Tail(s)
           n == Len(t)
<1>1. /\ n \in Nat /\ Len(s) = n + 1 /\ \A k \in 1 .. n : k + 1 \in 1 .. n + 1
      /\ \A what : \A i \in 1 .. n : Of(t, i, id, what) <=> Of(s, i + 1, id, what)
  BY OfTail
<1>2. ASSUME NEW k \in 1 .. n PROVE Ended(s, k + 1, id) => Ended(t, k, id)
  BY TailKeeps
<1>3. /\ Later(s, 0, id, Finished) => Later(t, 0, id, Finished)
      /\ Anew(s, 0, id) => Anew(t, 0, id)
  BY TailFront
<1> HIDE DEF t
<1>4. \A k \in 1 .. n : Of(t, k, id, {"paused"}) => Ended(t, k, id)
  BY <1>1, <1>2 DEF Calm
<1> QED BY <1>3, <1>4 DEF Calm, t, n

LEMMA TailOrder ==
    ASSUME NEW T, NEW s \in Seq(T), s # <<>>, NEW id, ~Of(s, 1, id, Finished), Ordered(s, id)
    PROVE  Ordered(Tail(s), id)
<1> DEFINE t == Tail(s)
           n == Len(t)
<1>1. /\ n \in Nat /\ Len(s) = n + 1 /\ \A k \in 1 .. n : k + 1 \in 1 .. n + 1
      /\ \A what : \A i \in 1 .. n : Of(t, i, id, what) <=> Of(s, i + 1, id, what)
  BY OfTail
<1>2. ASSUME NEW k \in 1 .. n PROVE Ended(s, k + 1, id) => Ended(t, k, id)
  BY TailKeeps
<1> HIDE DEF t
<1>3. ASSUME NEW k \in 1 .. n, NEW l \in 1 .. n, k < l,
             Of(t, k, id, {"paused"}), Of(t, l, id, {"resumed"})
      PROVE  Ended(t, k, id)
  <2>1. /\ k + 1 \in 1 .. n + 1 /\ l + 1 \in 1 .. n + 1 /\ k + 1 < l + 1
        /\ Of(s, k + 1, id, {"paused"}) /\ Of(s, l + 1, id, {"resumed"})
    BY <1>1, <1>3
  <2>2. Ended(s, k + 1, id)
    BY <1>1, <2>1 DEF Ordered
  <2> QED BY <1>2, <2>2
<1> QED BY <1>3 DEF Ordered, t, n

LEMMA TailUntold ==
    ASSUME NEW T, NEW s \in Seq(T), s # <<>>, NEW id, NEW what, Untold(s, id, what)
    PROVE  Untold(Tail(s), id, what)
<1>1. /\ Len(Tail(s)) \in Nat /\ Len(s) = Len(Tail(s)) + 1
      /\ \A k \in 1 .. Len(Tail(s)) : Of(Tail(s), k, id, what) <=> Of(s, k + 1, id, what)
  BY OfTail
<1>2. \A k \in 1 .. Len(Tail(s)) : k + 1 \in 1 .. Len(s)
  BY <1>1
<1> QED BY <1>1, <1>2 DEF Untold

(* The pause that is received was the last word, unless an end follows.     *)
LEMMA PausedCalm ==
    ASSUME NEW T, NEW s \in Seq(T), s # <<>>, NEW id, NEW w, Of(s, 1, id, {"paused"}),
           Letters(s, id, w), Untold(s, id, {"resumed"})
    PROVE  Calm(Tail(s), id, w)
<1> DEFINE t == Tail(s)
           n == Len(t)
<1>1. /\ n \in Nat /\ Len(s) = n + 1 /\ 1 \in 1 .. n + 1
      /\ \A what : \A i \in 1 .. n : Of(t, i, id, what) <=> Of(s, i + 1, id, what)
  BY OfTail
<1>2. /\ Later(s, 1, id, Finished) => Later(t, 0, id, Finished)
      /\ Anew(s, 1, id) => Anew(t, 0, id)
  BY TailFront
<1> HIDE DEF t
<1>3. /\ \A l \in 1 .. n + 1 : 1 < l /\ Of(s, l, id, {"paused"}) =>
            \E m \in 1 .. n + 1 : 1 < m /\ m < l /\ Of(s, m, id, Finished \cup {"resumed"})
      /\ Lively(w) => Later(s, 1, id, {"resumed"}) \/ Anew(s, 1, id)
      /\ w.pc = "again" => Later(s, 1, id, Finished)
  BY <1>1 DEF Letters
<1>4. ~Later(s, 1, id, {"resumed"})
  BY DEF Later, Untold
<1>5. ASSUME NEW k \in 1 .. n, Of(t, k, id, {"paused"}) PROVE Ended(t, k, id)
  <2>1. k + 1 \in 1 .. n + 1 /\ 1 < k + 1 /\ Of(s, k + 1, id, {"paused"})
    BY <1>1, <1>5
  <2>2. PICK m \in 1 .. n + 1 : 1 < m /\ m < k + 1 /\ Of(s, m, id, Finished \cup {"resumed"})
    BY <1>3, <2>1
  <2>3. Of(s, m, id, Finished)
    BY <1>1, <2>2 DEF Untold, Of
  <2>4. m - 1 \in 1 .. n /\ m - 1 < k /\ (m - 1) + 1 = m
    BY <1>1, <2>2
  <2> QED BY <1>1, <2>3, <2>4 DEF Ended, n
<1> QED BY <1>2, <1>3, <1>4, <1>5 DEF Calm, t, n

-----------------------------------------------------------------------------
(* What is parked is held: a transfer the user has not retried.             *)

first(id) == job[<<id, 1>>]

Resumes(id) == Call("resume", id, "user") \in calls

NoResume(id) == ~Resumes(id) /\ Untold(inbox, id, {"resumed"})

(* The panel takes the transfer for one that stands still: it is queued, or *)
(* paused in a way that a click will queue it.                              *)
Halted(id) ==
    \/ items[id].status = "queued"
    \/ /\ items[id].status = "paused"
       /\ items[id].queueState = "running" \/ shown[id] = Item("paused", "running")

(* The transfer waits for its job to be started,                            *)
Fresh(id) ==
    /\ id \notin parked
    /\ first(id).pc = "none"
    /\ \A c \in calls : c.id # id
    /\ Untold(inbox, id, Told)
    /\ items[id] \in {Item("queued", "pending"), Item("paused", "pending")}
    /\ shown[id] \in {Absent, Item("queued", "pending"), Item("paused", "pending")}
    /\ effects /\ shown[id].status = "queued" => items[id].status = "queued"

(* or will never be started,                                                *)
Unstarted(id) ==
    /\ id \notin parked
    /\ items[id].status # "queued" /\ items[id].queueState # "running"
    /\ shown[id].queueState # "running"

(* or has been started, and the job has yet to begin.                       *)
Begun(id) ==
    /\ id \notin parked
    /\ ~Resumes(id)
    /\ Untold(inbox, id, {"paused", "resumed"})
    /\ shown[id].status # "paused"
    /\ items[id].status \notin {"paused", "queued"}

(* It has one job.                                                          *)
Alone(id) == \A n \in 1 .. MaxStarts : n # 1 => job[<<id, n>>].pc = "none"

(* What the panel knows and what it shows.                                  *)
Rows(id) ==
    /\ items[id].status = "queued" => items[id].queueState = "pending"
    /\ shown[id].status = "queued" /\ effects => items[id].queueState # "running"
    /\ items[id].status \in Finished \cup {"absent"} => items[id].queueState = "none"
    /\ id \notin queued /\ shown[id].status = "paused" /\ shown[id].queueState # "running" =>
          items[id].status # "queued" /\ items[id].queueState # "running"

(* No resume is on its way to a job that stands still, and none that is     *)
(* under way comes to a job that was paused again.                          *)
Mail(id) ==
    /\ Letters(inbox, id, first(id))
    /\ Halted(id) => NoResume(id) /\ Calm(inbox, id, first(id))
    /\ shown[id] = Item("paused", "running") => NoResume(id)
    /\ items[id].queueState = "running" => Ordered(inbox, id)
    /\ items[id].queueState = "running" /\ Resumes(id) => Calm(inbox, id, first(id))

Stands(id) ==
    /\ id \in queued => Fresh(id)
    /\ id \notin queued /\ first(id).pc = "none" => Unstarted(id)
    /\ first(id).pc = "invoked" => Begun(id)
    /\ Alone(id)
    /\ Rows(id)

Held(id) == Stands(id) /\ Mail(id)

ByUser == \A c \in calls : c.op = "resume" => c.by = "user"

HeldInv == ByUser /\ \A id \in Ids \ retried : Held(id)

(* The row stays as it is.                                                  *)
SameRow(id) ==
    /\ items'[id] = items[id] /\ shown'[id] = shown[id] /\ (effects' => effects)
    /\ id \in queued' <=> id \in queued
    /\ id \in parked' => id \in parked

LEMMA MailKept ==
    ASSUME NEW id, Mail(id), items'[id] = items[id], shown'[id] = shown[id],
           Resumes(id)' => Resumes(id),
           Letters(inbox', id, first(id)'),
           Calm(inbox, id, first(id)) => Calm(inbox', id, first(id)'),
           Ordered(inbox, id) => Ordered(inbox', id),
           Untold(inbox, id, {"resumed"}) => Untold(inbox', id, {"resumed"})
    PROVE  Mail(id)'
<1>1. (Resumes(id)' => Resumes(id)) /\ (Halted(id)' <=> Halted(id))
  BY DEF Halted
<1>2. NoResume(id) => NoResume(id)'
  BY <1>1 DEF NoResume
<1> QED BY <1>1, <1>2 DEF Mail

LEMMA StandsKept ==
    ASSUME NEW id, Held(id), SameRow(id), Mail(id)', Alone(id)',
           first(id)'.pc = "none" <=> first(id).pc = "none",
           first(id)'.pc = "invoked" =>
               first(id).pc = "invoked" /\ Untold(inbox', id, {"paused", "resumed"}),
           Resumes(id)' => Resumes(id),
           id \in queued => (\A c \in calls' : c.id # id) /\ Untold(inbox', id, Told)
    PROVE  Held(id)'
<1> USE DEF SameRow
<1>0. Stands(id)
  BY DEF Held
<1>1. id \in queued' => Fresh(id)'
  BY <1>0 DEF Stands, Fresh
<1>2. id \notin queued' /\ first(id)'.pc = "none" => Unstarted(id)'
  BY <1>0 DEF Stands, Unstarted
<1>3. first(id)'.pc = "invoked" => Begun(id)'
  BY <1>0 DEF Stands, Begun
<1>4. Rows(id)'
  BY <1>0 DEF Stands, Rows
<1> QED BY <1>1, <1>2, <1>3, <1>4 DEF Held, Stands

(* A step about other transfers.                                            *)
LEMMA MessageTold ==
    ASSUME IInv, NEW k \in 1 .. Len(inbox)
    PROVE  inbox[k] \in Messages /\ inbox[k].what \in Told /\ inbox[k].id \in Ids
<1>1. inbox[k] \in Messages
  BY DEF IInv, GoodBackend
<1> QED BY <1>1 DEF Messages, Told, IInv, GoodPanel

LEMMA OthersHeld ==
    ASSUME IInv, NEW id \in Ids, Held(id), SameRow(id),
           \A n \in 1 .. MaxStarts : job'[<<id, n>>] = job[<<id, n>>],
           \A c \in calls' : c.id = id => c \in calls,
           \/ inbox' = inbox
           \/ \E ms \in Seq(Messages) : inbox' = inbox \o ms /\ \A k \in 1 .. Len(ms) : ms[k].id # id
           \/ inbox # <<>> /\ inbox' = Tail(inbox) /\ Head(inbox).id # id
    PROVE  Held(id)'
<1>1. inbox \in Seq(Messages) /\ 1 \in 1 .. MaxStarts
  BY TransferBackendAssumption DEF IInv, GoodBackend
<1>2. first(id)' = first(id) /\ Alone(id)'
  BY <1>1 DEF first, Alone, Held, Stands
<1>3. Resumes(id)' => Resumes(id)
  BY DEF Resumes, Call
<1>4. /\ Letters(inbox, id, first(id)) => Letters(inbox', id, first(id))
      /\ Calm(inbox, id, first(id)) => Calm(inbox', id, first(id))
      /\ Ordered(inbox, id) => Ordered(inbox', id)
      /\ \A what : Untold(inbox, id, what) => Untold(inbox', id, what)
  <2>1. CASE inbox' = inbox
    BY <2>1
  <2>2. CASE \E ms \in Seq(Messages) : inbox' = inbox \o ms /\ \A k \in 1 .. Len(ms) : ms[k].id # id
    <3>1. PICK ms \in Seq(Messages) : inbox' = inbox \o ms /\ \A k \in 1 .. Len(ms) : ms[k].id # id
      BY <2>2
    <3>2. \A what : Untold(ms, id, what)
      BY <3>1 DEF Untold, Of
    <3>3. /\ Letters(inbox, id, first(id)) => Letters(inbox', id, first(id))
          /\ Calm(inbox, id, first(id)) => Calm(inbox', id, first(id))
      BY <1>1, <3>1, <3>2, QuietLetters, QuietCalm
    <3>4. Ordered(inbox, id) => Ordered(inbox', id)
      BY <1>1, <3>1, <3>2, QuietOrder
    <3>5. \A what : Untold(inbox, id, what) => Untold(inbox', id, what)
      <4> SUFFICES ASSUME NEW what, Untold(inbox, id, what), NEW k, Of(inbox', k, id, what) PROVE FALSE
        BY DEF Untold
      <4> QED BY <1>1, <3>1, <3>2, OfSplit DEF Untold
    <3> QED BY <3>3, <3>4, <3>5
  <2>3. CASE inbox # <<>> /\ inbox' = Tail(inbox) /\ Head(inbox).id # id
    <3>1. ~Of(inbox, 1, id, Finished)
      BY <1>1, <2>3 DEF Of
    <3> QED BY <1>1, <2>3, <3>1, TailLetters, TailCalm, TailOrder, TailUntold
  <2> QED BY <2>1, <2>2, <2>3
<1>5. Mail(id)'
  <2>1. Mail(id) /\ Letters(inbox, id, first(id))
    BY DEF Held, Mail
  <2> QED BY <1>2, <1>3, <1>4, <2>1, MailKept DEF SameRow
<1>6. first(id)'.pc = "invoked" => Untold(inbox', id, {"paused", "resumed"})
  BY <1>2, <1>4 DEF Held, Stands, Begun
<1>7. id \in queued => (\A c \in calls' : c.id # id) /\ Untold(inbox', id, Told)
  BY <1>4 DEF Held, Stands, Fresh
<1> QED BY <1>2, <1>3, <1>5, <1>6, <1>7, StandsKept

-----------------------------------------------------------------------------
(* What the backend does.                                                   *)

LEMMA NoneAdded ==
    ASSUME NEW T, NEW s \in Seq(T), NEW ms \in Seq(T), NEW id, NEW what,
           Untold(s, id, what), Untold(ms, id, what)
    PROVE  Untold(s \o ms, id, what)
<1> SUFFICES ASSUME NEW k, Of(s \o ms, k, id, what) PROVE FALSE
  BY DEF Untold
<1> QED BY OfSplit DEF Untold

LEMMA JobStepHeld ==
    ASSUME IInv, SlotInv, NEW j \in Jobs, NEW w, NEW ms, JobMoves(j, w, ms), UNCHANGED uiVars,
           NEW id \in Ids, Held(id)
    PROVE  Held(id)'
<1>1. /\ Turns(j, w, ms) /\ job[j].pc # "none" /\ w.pc # "none"
      /\ job' = [job EXCEPT ![j] = w] /\ calls' = calls
      /\ ms \in Seq(Messages) /\ inbox' = inbox \o ms
      /\ \A k \in 1 .. Len(ms) : ms[k].id = j[1]
  BY DEF JobMoves
<1>2. /\ job \in [Jobs -> JobStates] /\ inbox \in Seq(Messages)
      /\ j = <<j[1], j[2]>> /\ j[2] \in 1 .. MaxStarts /\ 1 \in 1 .. MaxStarts
      /\ \A n \in 1 .. MaxStarts : <<id, n>> \in Jobs
  BY TransferBackendAssumption DEF IInv, GoodBackend, Jobs
<1>3. job'[j] = w /\ \A i \in Jobs : i # j => job'[i] = job[i]
  BY <1>1, <1>2
<1>4. SameRow(id)
  BY DEF SameRow, uiVars
<1>5. CASE j[1] # id
  <2>1. \A n \in 1 .. MaxStarts : job'[<<id, n>>] = job[<<id, n>>]
    BY <1>2, <1>3, <1>5
  <2>2. \A k \in 1 .. Len(ms) : ms[k].id # id
    BY <1>1, <1>5
  <2> QED BY <1>1, <1>4, <2>1, <2>2, OthersHeld
<1>6. CASE j[1] = id
  <2>1. j = <<id, 1>> /\ first(id) = job[j] /\ first(id)' = w
    BY <1>1, <1>2, <1>3, <1>6 DEF Held, Stands, Alone, first
  <2>2. id \notin queued
    BY <1>1, <2>1 DEF Held, Stands, Fresh
  <2>3. Alone(id)'
    BY <1>2, <1>3, <2>1 DEF Held, Stands, Alone
  <2>4. Resumes(id)' <=> Resumes(id)
    BY <1>1 DEF Resumes
  <2>5. w.pc # "invoked" /\ (w.pc = "again" => ~Untold(ms, id, Finished))
    <3>1. ASSUME w.pc = "again" PROVE ~Untold(ms, id, Finished)
      <4>1. PICK k \in 1 .. Len(ms) : ms[k].what \in Finished
        BY <1>1, <3>1 DEF Turns
      <4> QED BY <1>1, <1>6, <4>1 DEF Untold, Of
    <3> QED BY <1>1, <3>1 DEF Turns
  <2>6. Untold(ms, id, {"paused"}) /\ Untold(ms, id, {"resumed"})
    <3>1. CASE \A k \in DOMAIN ms : ms[k].what \notin {"paused", "resumed"}
      BY <1>1, <3>1 DEF Untold, Of
    <3>2. CASE ms = <<Message(j[1], "started")>>
      BY <3>2 DEF Untold, Of, Message
    <3> QED BY <1>1, <3>1, <3>2 DEF Turns
  <2>7. /\ Mail(id) /\ Letters(inbox, id, first(id))
        /\ Ordered(inbox, id) => Ordered(inbox', id)
        /\ Untold(inbox, id, {"resumed"}) => Untold(inbox', id, {"resumed"})
        /\ Untold(inbox, id, {"paused"}) => Untold(inbox', id, {"paused"})
    BY <1>1, <1>2, <2>6, QuietOrder, NoneAdded DEF Held, Mail
  <2>8. CASE \/ Lively(w) => Lively(first(id))
             \/ first(id).pc = "again" /\ ~Untold(ms, id, {"started"})
    <3>1. /\ Letters(inbox', id, w)
          /\ Calm(inbox, id, first(id)) => Calm(inbox', id, w)
      BY <1>1, <1>2, <2>5, <2>6, <2>7, <2>8, QuietLetters, QuietCalm
    <3>2. Mail(id)'
      BY <1>4, <2>1, <2>4, <2>7, <3>1, MailKept DEF SameRow
    <3> QED BY <1>1, <1>4, <2>1, <2>2, <2>3, <2>4, <2>5, <3>2, StandsKept
  <2>9. CASE first(id).pc = "invoked"
    <3>1. Begun(id)
      BY <2>9 DEF Held, Stands
    <3>2. Untold(inbox, id, {"paused"}) /\ ~Halted(id)' /\ ~Resumes(id)'
      BY <1>4, <2>4, <3>1 DEF Begun, Halted, SameRow, Untold, Of
    <3>3. Letters(inbox', id, w)
      BY <2>7, <3>2 DEF Letters, Untold
    <3>4. shown'[id] # Item("paused", "running") /\ items'[id] = items[id]
      BY <1>4, <3>1 DEF Begun, SameRow, Item
    <3>5. Mail(id)'
      BY <2>1, <2>7, <3>2, <3>3, <3>4 DEF Mail
    <3> QED BY <1>1, <1>4, <2>1, <2>2, <2>3, <2>4, <2>5, <3>5, StandsKept
  <2>10. \/ Lively(w) => Lively(first(id))
         \/ first(id).pc = "again" /\ ~Untold(ms, id, {"started"})
         \/ first(id).pc = "invoked"
    <3>1. CASE w.pc \in Underway => job[j].pc \in Underway /\ w.ctl = job[j].ctl
      <4>1. Lively(w) => Lively(job[j])
        BY <3>1 DEF Lively
      <4> QED BY <2>1, <4>1
    <3>2. CASE job[j].pc \in {"invoked", "again"} /\ ms = <<Message(j[1], "started")>>
      <4>1. ~Untold(ms, id, {"started"})
        <5>1. Len(ms) = 1 /\ ms[1].id = id /\ ms[1].what = "started"
          BY <1>6, <3>2 DEF Message
        <5>2. Of(ms, 1, id, {"started"}) /\ 1 \in 1 .. Len(ms)
          BY <5>1 DEF Of
        <5> QED BY <5>2 DEF Untold
      <4> QED BY <2>1, <3>2, <4>1
    <3> QED BY <1>1, <3>1, <3>2 DEF Turns
  <2> QED BY <2>8, <2>9, <2>10
<1> QED BY <1>5, <1>6

LEMMA CallHeld ==
    ASSUME IInv, SlotInv, ByUser, NEW c \in calls, NEW ms, CallMoves(c, ms), UNCHANGED uiVars,
           NEW id \in Ids, Held(id)
    PROVE  Held(id)'
<1>1. /\ Commands(c, ms) /\ calls' = calls \ {c}
      /\ \A i \in Jobs : job'[i].pc = job[i].pc
      /\ ms \in Seq(Messages) /\ inbox' = inbox \o ms
      /\ \A k \in 1 .. Len(ms) : ms[k].id = c.id
      /\ DOMAIN ms = 1 .. Len(ms)
  BY DEF CallMoves
<1>2. /\ job \in [Jobs -> JobStates] /\ inbox \in Seq(Messages) /\ c \in Calls
      /\ 1 \in 1 .. MaxStarts
      /\ \A n \in 1 .. MaxStarts : <<id, n>> \in Jobs
  BY TransferBackendAssumption DEF IInv, GoodBackend, Jobs
<1>3. SameRow(id)
  BY DEF SameRow, uiVars
<1>4. CASE c.id # id
  <2>1. \A n \in 1 .. MaxStarts : job'[<<id, n>>] = job[<<id, n>>]
    BY <1>1, <1>2, <1>4 DEF Commands
  <2>2. \A k \in 1 .. Len(ms) : ms[k].id # id
    BY <1>1, <1>4
  <2> QED BY <1>1, <1>3, <2>1, <2>2, OthersHeld
<1>5. CASE c.id = id
  <2>1. id \notin queued /\ first(id)'.pc = first(id).pc /\ Alone(id)' /\ (Resumes(id)' => Resumes(id))
    BY <1>1, <1>2, <1>5 DEF Held, Stands, Fresh, Alone, Resumes, first
  <2>2. Mail(id) /\ Letters(inbox, id, first(id))
    BY DEF Held, Mail
  <2>3. CASE /\ \A k \in DOMAIN ms : ms[k].what \notin {"paused", "resumed"}
             /\ \A i \in Jobs : job'[i].ctl = "Running" => job[i].ctl = "Running"
    <3>1. /\ Untold(ms, id, {"paused"}) /\ Untold(ms, id, {"resumed"})
          /\ Untold(ms, id, {"paused", "resumed"})
      BY <1>1, <2>3 DEF Untold, Of
    <3>2. Lively(first(id)') => Lively(first(id))
      BY <1>2, <2>1, <2>3 DEF Lively, first
    <3>3. /\ Letters(inbox', id, first(id)')
          /\ Calm(inbox, id, first(id)) => Calm(inbox', id, first(id)')
      BY <1>1, <1>2, <2>1, <2>2, <3>1, <3>2, QuietLetters, QuietCalm
    <3>4. /\ Ordered(inbox, id) => Ordered(inbox', id)
          /\ Untold(inbox, id, {"resumed"}) => Untold(inbox', id, {"resumed"})
          /\ Untold(inbox, id, {"paused", "resumed"}) => Untold(inbox', id, {"paused", "resumed"})
      BY <1>1, <1>2, <3>1, QuietOrder, NoneAdded
    <3>5. Mail(id)'
      BY <1>3, <2>1, <2>2, <3>3, <3>4, MailKept DEF SameRow
    <3>6. first(id).pc = "invoked" => Untold(inbox', id, {"paused", "resumed"})
      BY <3>4 DEF Held, Stands, Begun
    <3> QED BY <1>3, <2>1, <3>5, <3>6, StandsKept
  <2>4. ASSUME NEW i \in Jobs, i = <<id, active[id]>>, active[id] # Unregistered
        PROVE  i = <<id, 1>> /\ first(id) = job[i] /\ first(id)' = job'[i] /\ first(id).pc \in Underway
    <3>1. job[i].pc \in Underway
      BY <2>4 DEF SlotInv, JobsInv, Registered
    <3>2. active[id] \in 1 .. MaxStarts /\ job[i].pc # "none"
      BY <2>4, <3>1 DEF Underway, Jobs
    <3>3. active[id] = 1
      BY <2>4, <3>2 DEF Held, Stands, Alone
    <3> QED BY <2>4, <3>1, <3>3 DEF first
  <2>5. CASE /\ <<c.id, active[c.id]>> \in Jobs /\ active[c.id] # Unregistered /\ 1 \in DOMAIN ms
             /\ \/ /\ ms[1].what = "paused" /\ job[<<c.id, active[c.id]>>].ctl = "Running"
                   /\ job'[<<c.id, active[c.id]>>].ctl = "Paused"
                \/ ms[1].what = "resumed" /\ c.op = "resume"
             /\ \A k \in DOMAIN ms : k # 1 => ms[k].what \in Ending
    <3>1. /\ first(id).pc \in Underway /\ first(id)'.pc \in Underway
          /\ first(id) = job[<<c.id, active[c.id]>>] /\ first(id)' = job'[<<c.id, active[c.id]>>]
      BY <1>5, <2>1, <2>4, <2>5
    <3>2. first(id)'.pc # "invoked" /\ first(id)'.pc # "again" /\ first(id)'.pc # "none"
      BY <3>1 DEF Underway
    <3>3. \A k \in 1 .. Len(ms) : k # 1 => ~Of(ms, k, id, {"paused"}) /\ ~Of(ms, k, id, {"resumed"})
      <4>1. "paused" \notin Ending /\ "resumed" \notin Ending
        BY DEF Ending, Finished
      <4> QED BY <1>1, <2>5, <4>1 DEF Of
    <3>4. SUFFICES Mail(id)'
      BY <1>3, <2>1, <3>2, StandsKept
    <3>5. CASE ms[1].what = "paused" /\ first(id).ctl = "Running" /\ first(id)'.ctl = "Paused"
      <4>1. Lively(first(id)) /\ ~Lively(first(id)')
        BY <3>1, <3>5 DEF Lively
      <4>2. Untold(ms, id, {"resumed"})
        BY <3>3, <3>5 DEF Untold, Of
      <4>3. \A k \in 1 .. Len(ms) : Of(ms, k, id, {"paused"}) => k = 1
        BY <3>3
      <4>4. Letters(inbox', id, first(id)')
        BY <1>1, <1>2, <2>2, <3>2, <4>1, <4>3, PauseLetters
      <4>5. Calm(inbox, id, first(id)) => Calm(inbox', id, first(id)')
        BY <1>1, <1>2, <3>2, <4>1, PauseCalm
      <4>6. /\ Ordered(inbox, id) => Ordered(inbox', id)
            /\ Untold(inbox, id, {"resumed"}) => Untold(inbox', id, {"resumed"})
        BY <1>1, <1>2, <4>2, QuietOrder, NoneAdded
      <4> QED BY <1>3, <2>1, <2>2, <4>4, <4>5, <4>6, MailKept DEF SameRow
    <3>6. CASE ms[1].what = "resumed" /\ c.op = "resume"
      <4>1. c = Call("resume", id, "user")
        <5>1. c.by = "user"
          BY <3>6 DEF ByUser
        <5>2. c = [op |-> c.op, id |-> c.id, by |-> c.by]
          BY <1>2 DEF Calls
        <5> QED BY <1>5, <3>6, <5>1, <5>2 DEF Call
      <4>2. Resumes(id) /\ ~Resumes(id)'
        BY <1>1, <4>1 DEF Resumes
      <4>3. ~Halted(id)' /\ shown'[id] # Item("paused", "running") /\ items'[id] = items[id]
        <5>1. Halted(id)' <=> Halted(id)
          BY <1>3 DEF Halted, SameRow
        <5> QED BY <1>3, <2>2, <4>2, <5>1 DEF Mail, NoResume, SameRow
      <4>4. Untold(ms, id, {"paused"}) /\ ~Untold(ms, id, {"resumed"})
        <5>1. Of(ms, 1, id, {"resumed"}) /\ ~Of(ms, 1, id, {"paused"}) /\ 1 \in 1 .. Len(ms)
          BY <1>1, <1>5, <2>5, <3>6 DEF Of
        <5> QED BY <3>3, <5>1 DEF Untold
      <4>5. Letters(inbox', id, first(id)')
        BY <1>1, <1>2, <2>2, <3>2, <4>4, QuietLetters
      <4>6. items[id].queueState = "running" => Ordered(inbox', id)
        <5>1. items[id].queueState = "running" => Calm(inbox, id, first(id))
          BY <2>2, <4>2 DEF Mail
        <5> QED BY <1>1, <1>2, <4>4, <5>1, ResumeOrder
      <4> QED BY <4>2, <4>3, <4>5, <4>6 DEF Mail
    <3> QED BY <2>5, <3>1, <3>5, <3>6
  <2> QED BY <1>1, <2>3, <2>5 DEF Commands
<1> QED BY <1>4, <1>5

-----------------------------------------------------------------------------
(* What the scheduler does.                                                 *)

LEMMA CalmOrdered ==
    ASSUME NEW s, NEW id, NEW w, Calm(s, id, w)
    PROVE  Ordered(s, id)
  BY DEF Calm, Ordered

(* Without a message of the transfer there is nothing to be read wrongly.   *)
LEMMA NothingTold ==
    ASSUME NEW s, NEW id, Untold(s, id, Told)
    PROVE  /\ \A what : what \subseteq Told => Untold(s, id, what)
           /\ Untold(s, id, {"resumed"}) /\ Untold(s, id, {"paused", "resumed"})
           /\ \A w : Letters(s, id, w)
           /\ Ordered(s, id)
           /\ \A w : w.pc = "none" => Calm(s, id, w)
<1>1. \A what : what \subseteq Told => Untold(s, id, what)
  BY DEF Untold, Of
<1>2. {"paused"} \subseteq Told /\ {"resumed"} \subseteq Told /\ {"paused", "resumed"} \subseteq Told
  BY DEF Told
<1>3. Untold(s, id, {"paused"}) /\ Untold(s, id, {"resumed"}) /\ Untold(s, id, {"paused", "resumed"})
  BY <1>1, <1>2
<1>4. (\A w : Letters(s, id, w)) /\ Ordered(s, id)
  BY <1>3 DEF Letters, Ordered, Untold
<1>5. \A w : w.pc = "none" => Calm(s, id, w)
  BY <1>3 DEF Calm, Untold, Lively, Underway
<1> QED BY <1>1, <1>3, <1>4, <1>5

LEMMA RenderHeld ==
    ASSUME IInv, Render, NEW id \in Ids, Held(id)
    PROVE  Held(id)'
<1>1. /\ shown' = items /\ items' = items /\ inbox' = inbox /\ calls' = calls /\ job' = job
      /\ queued' = queued /\ parked' = parked
  BY DEF Render, backendVars
<1>2. Stands(id) /\ Mail(id)
  BY DEF Held
<1>3. /\ first(id)' = first(id) /\ Resumes(id)' = Resumes(id) /\ NoResume(id)' = NoResume(id)
      /\ Alone(id)' = Alone(id)
  BY <1>1 DEF first, Resumes, NoResume, Alone
<1>4. Item("paused", "running").status = "paused" /\ Item("paused", "running").queueState = "running"
  BY DEF Item
<1>5. Halted(id)' => Halted(id)
  BY <1>1, <1>4 DEF Halted
<1>6. shown'[id] = Item("paused", "running") => Halted(id)
  BY <1>1, <1>4 DEF Halted
<1>7. Mail(id)'
  BY <1>1, <1>2, <1>3, <1>5, <1>6 DEF Mail
<1>8. id \in queued' => Fresh(id)'
  BY <1>1, <1>2, <1>3 DEF Stands, Fresh
<1>9. id \notin queued' /\ first(id)'.pc = "none" => Unstarted(id)'
  BY <1>1, <1>2, <1>3 DEF Stands, Unstarted
<1>10. first(id)'.pc = "invoked" => Begun(id)'
  BY <1>1, <1>2, <1>3 DEF Stands, Begun
<1>11. Rows(id)'
  BY <1>1, <1>2 DEF Stands, Rows
<1> QED BY <1>2, <1>3, <1>7, <1>8, <1>9, <1>10, <1>11 DEF Held, Stands

LEMMA RunEffectsHeld ==
    ASSUME IInv, SlotInv, RunEffects, NEW id \in Ids, Held(id)
    PROVE  Held(id)'
<1>0. PICK S : EffectsOf(S)
  BY RunEffectsMeans
<1>1. /\ parked' = parked \ S /\ queued' = queued \ (S \ parked)
      /\ inbox' = inbox /\ shown' = shown /\ S \subseteq queued \cup parked
      /\ \A i \in S : shown[i].status = "queued"
      /\ calls' = calls \cup {Call("resume", i, "user") : i \in S \cap parked}
      /\ effects /\ effects' = FALSE
  BY <1>0 DEF EffectsOf, Chosen, Candidates, RunEffects
<1>2. items'[id] = IF id \in S /\ items[id].status = "queued"
                   THEN Item("transferring", "running") ELSE items[id]
  BY <1>0 DEF EffectsOf
<1>3. /\ \A n \in 1 .. MaxStarts : <<id, n>> \in Jobs
      /\ 1 \in 1 .. MaxStarts
      /\ queued \cap parked = {}
  BY TransferBackendAssumption DEF Jobs, SlotInv, RefsInv, OneRef
<1>4. ASSUME NEW n \in 1 .. MaxStarts
      PROVE  /\ id \in S \ parked /\ n = starts(id) + 1 => job'[<<id, n>>].pc = "invoked"
             /\ ~(id \in S \ parked /\ n = starts(id) + 1) => job'[<<id, n>>] = job[<<id, n>>]
  <2>1. job'[<<id, n>>] = IF <<id, n>> \in {Invoked(i) : i \in S \ parked}
                          THEN Resting("invoked", 0) ELSE job[<<id, n>>]
    BY <1>0, <1>3 DEF EffectsOf
  <2>2. <<id, n>> \in {Invoked(i) : i \in S \ parked} <=> id \in S \ parked /\ n = starts(id) + 1
    BY DEF Invoked
  <2> QED BY <2>1, <2>2 DEF Resting
<1>5. Stands(id) /\ Mail(id)
  BY DEF Held
<1>6. CASE id \notin S
  <2>1. SameRow(id)
    BY <1>1, <1>2, <1>6 DEF SameRow
  <2>2. \A n \in 1 .. MaxStarts : job'[<<id, n>>] = job[<<id, n>>]
    BY <1>4, <1>6
  <2>3. \A c \in calls' : c.id = id => c \in calls
    BY <1>1, <1>6 DEF Call
  <2> QED BY <1>1, <2>1, <2>2, <2>3, OthersHeld
<1>7. CASE id \in S \cap parked
  <2>1. id \notin queued /\ id \notin queued' /\ id \notin parked' /\ shown[id].status = "queued"
    BY <1>1, <1>3, <1>7
  <2>2. first(id)' = first(id) /\ Alone(id)'
    BY <1>3, <1>4, <1>5, <1>7 DEF first, Alone, Stands
  <2>3. first(id).pc # "none" /\ first(id).pc # "invoked"
    BY <1>5, <1>7, <2>1 DEF Stands, Unstarted, Begun
  <2>4. items[id].queueState # "running"
    BY <1>1, <1>5, <2>1 DEF Stands, Rows
  <2>5. items'[id].status # "queued" /\ shown'[id] # Item("paused", "running")
    BY <1>1, <1>2, <1>7, <2>1 DEF Item
  <2>6. Rows(id)'
    BY <1>1, <1>2, <1>5, <1>7, <2>1 DEF Rows, Stands, Item, Finished
  <2>7. ~Halted(id)'
    BY <1>2, <2>4, <2>5 DEF Halted, Item
  <2>8. Letters(inbox', id, first(id)')
    BY <1>1, <1>5, <2>2 DEF Mail
  <2>9. items'[id].queueState = "running" => Calm(inbox', id, first(id)')
    <3>1. items'[id].queueState = "running" => Halted(id)
      BY <1>2, <2>4 DEF Halted
    <3> QED BY <1>1, <1>5, <2>2, <3>1 DEF Mail
  <2>10. Mail(id)'
    BY <2>5, <2>7, <2>8, <2>9, CalmOrdered DEF Mail
  <2> QED BY <2>1, <2>2, <2>3, <2>6, <2>10 DEF Held, Stands
<1>8. CASE id \in S \ parked
  <2>1. id \in queued /\ id \notin queued' /\ id \notin parked' /\ shown[id].status = "queued"
    BY <1>1, <1>8
  <2>2. Fresh(id) /\ Alone(id)
    BY <1>5, <2>1 DEF Stands
  <2>3. items'[id] = Item("transferring", "running")
    BY <1>1, <1>2, <1>8, <2>1, <2>2 DEF Fresh
  <2>4. starts(id) = 0
    <3>1. Started(id) = {}
      BY <2>2 DEF Started, Fresh, Alone, first
    <3> QED BY <3>1, StartsIsNat, FS_EmptySet
  <2>5. first(id)'.pc = "invoked" /\ Alone(id)'
    BY <1>3, <1>4, <1>8, <2>2, <2>4 DEF first, Alone
  <2>6. ~Resumes(id)'
    BY <1>1, <1>8, <2>2 DEF Resumes, Fresh, Call
  <2>7. /\ Untold(inbox', id, {"paused", "resumed"})
        /\ Letters(inbox', id, first(id)') /\ Ordered(inbox', id)
    BY <1>1, <2>2, NothingTold DEF Fresh
  <2>8. items'[id].status = "transferring" /\ shown'[id].status = "queued"
    BY <1>1, <2>1, <2>3 DEF Item
  <2>9. Rows(id)' /\ Begun(id)'
    BY <1>1, <2>1, <2>6, <2>7, <2>8 DEF Rows, Begun, Finished
  <2>10. Mail(id)'
    <3>1. ~Halted(id)' /\ shown'[id] # Item("paused", "running")
      BY <2>8 DEF Halted, Item
    <3> QED BY <2>6, <2>7, <3>1 DEF Mail
  <2> QED BY <2>1, <2>5, <2>9, <2>10 DEF Held, Stands
<1> QED BY <1>6, <1>7, <1>8

-----------------------------------------------------------------------------
(* What a message does.                                                     *)

(* The row of a transfer that is not about to be started.                   *)
LEMMA ReceivedRow ==
    ASSUME IInv, Receive, NEW m, m = Head(inbox), m.id \notin queued
    PROVE  LET id == m.id
           IN  \/ m.what = "resolved" /\ items'[id] = items[id]
               \/ /\ items'[id].status \in Finished \cup {"absent"}
                  /\ items'[id] = items[id] \/ items'[id].queueState = "none"
               \/ /\ m.what \in {"started", "progress", "resumed"}
                  /\ items'[id] = Item("transferring", items[id].queueState)
               \/ /\ m.what = "paused"
                  /\ items'[id] = Item("paused", items[id].queueState)
<1> DEFINE id == m.id
           it == items[id]
<1>1. m \in Messages /\ (HandleEvent(m) \/ HandleJobAnswer(m) \/ HandleCancelAnswer(m))
  BY DEF Receive, IInv, GoodBackend
<1>2. id \in Ids /\ items \in [Ids -> ItemStates] /\ it \in ItemStates
  BY <1>1 DEF Messages, IInv, GoodPanel
<1>3. ASSUME NEW item, NEW revision, Update(id, item, revision) PROVE items'[id] = item
  BY <1>2, <1>3 DEF Update
<1>4. ASSUME NEW status, NEW queueState
      PROVE  \/ Changed(id, status, queueState) = Item(status, queueState)
             \/ Changed(id, status, queueState) = Absent
  BY DEF Changed
<1>5. /\ Absent.status = "absent" /\ Absent.queueState = "none"
      /\ \A status : Item(status, "none").status = status /\ Item(status, "none").queueState = "none"
  BY DEF Absent, Item
<1>6. CASE HandleEvent(m)
  <2>1. items'[id] = Received(id, m.what)
    BY <1>3, <1>6 DEF HandleEvent
  <2>2. CASE m.what = "started"
    <3>1. Received(id, m.what) =
             Item("transferring", IF it.queueState # "none" THEN it.queueState ELSE "none")
      BY <2>2 DEF Received, Finished
    <3>2. (IF it.queueState # "none" THEN it.queueState ELSE "none") = it.queueState
      OBVIOUS
    <3> QED BY <2>1, <2>2, <3>1, <3>2
  <2>3. CASE m.what \in {"progress", "resumed"}
    <3>1. Received(id, m.what) = Changed(id, "transferring", it.queueState)
      BY <2>3 DEF Received, Finished
    <3> QED BY <1>4, <1>5, <2>1, <2>3, <3>1
  <2>4. CASE m.what = "paused"
    <3>1. Received(id, m.what) = Changed(id, "paused", it.queueState)
      BY <2>4 DEF Received, Finished
    <3> QED BY <1>4, <1>5, <2>1, <2>4, <3>1
  <2>5. CASE m.what \in Finished
    <3>1. Received(id, m.what) = Changed(id, m.what, "none")
      BY <2>5 DEF Received, Finished
    <3> QED BY <1>4, <1>5, <2>1, <2>5, <3>1
  <2> QED BY <1>6, <2>2, <2>3, <2>4, <2>5 DEF HandleEvent
<1>7. CASE HandleJobAnswer(m)
  <2>1. /\ m.what \in {"resolved", "rejected"}
        /\ items'[id] = IF m.what = "rejected" /\ it.status \notin Finished
                        THEN Changed(id, "error", "none") ELSE it
    BY <1>3, <1>7 DEF HandleJobAnswer
  <2>2. CASE m.what = "rejected" /\ it.status \notin Finished
    <3>1. items'[id] = Item("error", "none") \/ items'[id] = Absent
      BY <1>4, <2>1, <2>2
    <3> QED BY <1>5, <3>1 DEF Finished
  <2>3. CASE ~(m.what = "rejected" /\ it.status \notin Finished)
    BY <2>1, <2>3
  <2> QED BY <2>2, <2>3
<1>8. CASE HandleCancelAnswer(m)
  <2>1. items'[id] = IF it.status \in {"completed", "error"} THEN it
                     ELSE Changed(id, "cancelled", "none")
    BY <1>3, <1>8 DEF HandleCancelAnswer
  <2>2. CASE it.status \in {"completed", "error"}
    BY <2>1, <2>2 DEF Finished
  <2>3. CASE it.status \notin {"completed", "error"}
    <3>1. items'[id] = Item("cancelled", "none") \/ items'[id] = Absent
      BY <1>4, <2>1, <2>3
    <3> QED BY <1>5, <3>1 DEF Finished
  <2> QED BY <2>2, <2>3
<1> QED BY <1>1, <1>6, <1>7, <1>8

LEMMA ReceiveHeld ==
    ASSUME IInv, SlotInv, Receive, NEW id \in Ids, Held(id)
    PROVE  Held(id)'
<1>m. PICK m : m = Head(inbox)
  OBVIOUS
<1>0. PICK item : \E revision \in BOOLEAN : ReceivedAs(m, item, revision)
  BY <1>m, ReceiveMeans
<1>1. PICK revision \in BOOLEAN : ReceivedAs(m, item, revision)
  BY <1>0
<1>2. /\ inbox # <<>> /\ inbox' = Tail(inbox) /\ inbox \in Seq(Messages)
      /\ job' = job /\ calls' = calls /\ shown' = shown /\ effects' = effects
  BY DEF Receive, IInv, GoodBackend
<1>3. /\ m \in Messages /\ m.id \in Ids /\ Update(m.id, item, revision)
      /\ queued' \subseteq queued /\ parked' \subseteq parked
      /\ queued \ {m.id} \subseteq queued' /\ parked \ {m.id} \subseteq parked'
  BY <1>1 DEF ReceivedAs
<1>4. /\ items'[m.id] = item
      /\ \A i \in Ids : i # m.id => items'[i] = items[i]
  BY <1>3, UpdateMeans
<1>5. CASE m.id # id
  <2>1. SameRow(id)
    BY <1>2, <1>3, <1>4, <1>5 DEF SameRow
  <2> QED BY <1>m, <1>2, <1>5, <2>1, OthersHeld
<1>6. CASE m.id = id
  <2>1. /\ 1 \in 1 .. Len(inbox) /\ inbox[1] = m
        /\ m.what \in Told
    BY <1>m, <1>2, <1>3 DEF Messages, Told
  <2>2. \A what : Of(inbox, 1, id, what) <=> m.what \in what
    BY <1>6, <2>1 DEF Of
  <2>3. Stands(id) /\ Mail(id)
    BY DEF Held
  <2>4. id \notin queued /\ id \notin queued'
    <3>1. ~Untold(inbox, id, Told)
      BY <2>1, <2>2 DEF Untold
    <3> QED BY <1>3, <2>3, <3>1 DEF Stands, Fresh
  <2>5. \/ m.what = "resolved" /\ items'[id] = items[id]
        \/ /\ items'[id].status \in Finished \cup {"absent"}
           /\ items'[id] = items[id] \/ items'[id].queueState = "none"
        \/ /\ m.what \in {"started", "progress", "resumed"}
           /\ items'[id] = Item("transferring", items[id].queueState)
        \/ /\ m.what = "paused"
           /\ items'[id] = Item("paused", items[id].queueState)
    BY <1>m, <1>6, <2>4, ReceivedRow
  <2>6. /\ first(id)' = first(id) /\ Alone(id)' = Alone(id)
        /\ Resumes(id)' = Resumes(id)
    BY <1>2 DEF first, Alone, Resumes
  <2>7. /\ \A what : Untold(inbox, id, what) => Untold(inbox', id, what)
        /\ Letters(inbox', id, first(id)) /\ (NoResume(id) => NoResume(id)')
    <3>1. \A what : Untold(inbox, id, what) => Untold(inbox', id, what)
      BY <1>2, TailUntold
    <3>2. Letters(inbox', id, first(id))
      BY <1>2, <2>3, TailLetters DEF Mail
    <3> QED BY <2>6, <3>1, <3>2 DEF NoResume
  <2>8. /\ items'[id].status = "queued" => items[id].status = "queued" /\ items'[id] = items[id]
        /\ items'[id].queueState = "running" => items[id].queueState = "running"
        /\ items'[id].status = "paused" => items[id].status = "paused" \/ m.what = "paused"
    BY <2>5 DEF Item, Finished
  <2>9. items'[id].status \in Finished \cup {"absent"} => items'[id].queueState = "none"
    BY <2>3, <2>5 DEF Item, Finished, Stands, Rows
  <2>10. Rows(id)'
    BY <1>2, <2>3, <2>4, <2>8, <2>9 DEF Rows, Stands
  <2>11. first(id)'.pc = "none" => Unstarted(id)'
    BY <1>2, <1>3, <2>3, <2>4, <2>6, <2>8 DEF Stands, Unstarted
  <2>12. first(id)'.pc = "invoked" => Begun(id)'
    <3> SUFFICES ASSUME first(id).pc = "invoked" PROVE Begun(id)'
      BY <2>6
    <3>1. Begun(id)
      BY <2>3 DEF Stands
    <3>2. m.what # "paused"
      BY <2>1, <2>2, <3>1 DEF Begun, Untold
    <3> QED BY <1>2, <1>3, <2>6, <2>7, <2>8, <3>1, <3>2 DEF Begun
  <2>13. SUFFICES Mail(id)'
    BY <2>3, <2>4, <2>6, <2>10, <2>11, <2>12 DEF Held, Stands
  <2>14. shown'[id] = Item("paused", "running") => NoResume(id)'
    BY <1>2, <2>3, <2>7 DEF Mail
  <2>15. ASSUME m.what \notin Finished
         PROVE  /\ Calm(inbox, id, first(id)) => Calm(inbox', id, first(id)')
                /\ Ordered(inbox, id) => Ordered(inbox', id)
    BY <1>2, <2>2, <2>6, <2>15, TailCalm, TailOrder
  <2>16. CASE m.what = "resolved" /\ items'[id] = items[id]
    <3>1. m.what \notin Finished
      BY <2>16 DEF Finished
    <3> QED BY <1>2, <2>3, <2>6, <2>7, <2>15, <2>16, <3>1, MailKept
  <2>17. CASE items'[id].status \in Finished \cup {"absent"}
    <3>1. ~Halted(id)' /\ items'[id].queueState # "running"
      BY <2>9, <2>17 DEF Halted, Finished
    <3> QED BY <2>6, <2>7, <2>14, <3>1 DEF Mail
  <2>18. CASE /\ m.what \in {"started", "progress", "resumed"}
              /\ items'[id] = Item("transferring", items[id].queueState)
    <3>1. m.what \notin Finished /\ ~Halted(id)'
      BY <2>18 DEF Finished, Halted, Item
    <3> QED BY <2>3, <2>6, <2>7, <2>8, <2>14, <2>15, <3>1 DEF Mail
  <2>19. CASE /\ m.what = "paused"
              /\ items'[id] = Item("paused", items[id].queueState)
    <3>1. m.what \notin Finished /\ Of(inbox, 1, id, {"paused"})
      BY <2>2, <2>19 DEF Finished
    <3>2. items[id].queueState = "running" => NoResume(id)
      <4> SUFFICES ASSUME items[id].queueState = "running" PROVE NoResume(id)
        OBVIOUS
      <4>1. ~Ended(inbox, 1, id)
        BY DEF Ended
      <4>2. Untold(inbox, id, {"resumed"})
        <5> SUFFICES ASSUME NEW l \in 1 .. Len(inbox), Of(inbox, l, id, {"resumed"}) PROVE FALSE
          BY DEF Untold
        <5>1. l # 1
          BY <2>2, <2>19
        <5>2. Ordered(inbox, id) /\ 1 < l
          BY <2>3, <5>1 DEF Mail
        <5> QED BY <2>1, <3>1, <4>1, <5>2 DEF Ordered
      <4>3. ~Calm(inbox, id, first(id))
        BY <2>1, <3>1, <4>1 DEF Calm
      <4> QED BY <2>3, <4>2, <4>3 DEF Mail, NoResume
    <3>3. Halted(id)' => NoResume(id)
      <4>1. Halted(id)' => items[id].queueState = "running" \/ shown[id] = Item("paused", "running")
        BY <1>2, <2>19 DEF Halted, Item
      <4> QED BY <2>3, <3>2, <4>1 DEF Mail
    <3>4. NoResume(id) => Calm(inbox', id, first(id)')
      BY <1>2, <2>3, <2>6, <3>1, PausedCalm DEF Mail, NoResume
    <3>5. Halted(id)' => NoResume(id)' /\ Calm(inbox', id, first(id)')
      BY <2>7, <3>3, <3>4
    <3>6. items'[id].queueState = "running" =>
              Ordered(inbox', id) /\ Calm(inbox', id, first(id)')
      BY <2>3, <2>8, <2>15, <3>1, <3>2, <3>4 DEF Mail
    <3> QED BY <2>6, <2>7, <2>14, <3>5, <3>6 DEF Mail
  <2> QED BY <2>5, <2>16, <2>17, <2>18, <2>19
<1> QED BY <1>5, <1>6

-----------------------------------------------------------------------------
(* What the user does.                                                      *)

(* A command other than a resume is sent.                                   *)
LEMMA CalledHeld ==
    ASSUME NEW id, Held(id), SameRow(id), id \notin queued, UNCHANGED <<job, inbox>>,
           Resumes(id)' => Resumes(id)
    PROVE  Held(id)'
<1>1. first(id)' = first(id) /\ Alone(id)' = Alone(id)
  BY DEF first, Alone
<1>2. Mail(id) /\ Letters(inbox, id, first(id))
  BY DEF Held, Mail
<1>3. Mail(id)'
  BY <1>1, <1>2, MailKept DEF SameRow
<1>4. first(id).pc = "invoked" => Untold(inbox, id, {"paused", "resumed"})
  BY DEF Held, Stands, Begun
<1>5. Alone(id)
  BY DEF Held, Stands
<1> QED BY <1>1, <1>3, <1>4, <1>5, StandsKept

(* The row ends, or is gone.                                                *)
LEMMA GoneHeld ==
    ASSUME NEW id, Held(id), UNCHANGED <<job, inbox, shown>>, effects' => effects,
           items'[id].status \in Finished \cup {"absent"}, items'[id].queueState = "none",
           id \notin queued', id \notin parked', Resumes(id)' => Resumes(id)
    PROVE  Held(id)'
<1>1. first(id)' = first(id) /\ Alone(id)' = Alone(id)
  BY DEF first, Alone
<1>2. Stands(id) /\ Mail(id)
  BY DEF Held
<1>3. /\ ~Halted(id)' /\ items'[id].queueState # "running"
      /\ items'[id].status \notin {"queued", "paused"}
  BY DEF Halted, Finished
<1>4. NoResume(id) => NoResume(id)'
  BY DEF NoResume
<1>5. Mail(id)'
  BY <1>1, <1>2, <1>3, <1>4 DEF Mail
<1>6. shown[id].queueState # "running" \/ first(id).pc # "none"
  BY <1>2 DEF Stands, Unstarted, Fresh, Item, Absent
<1>7. first(id)'.pc = "none" => Unstarted(id)'
  BY <1>1, <1>3, <1>6 DEF Unstarted
<1>8. first(id)'.pc = "invoked" => Begun(id)'
  BY <1>1, <1>2, <1>3 DEF Stands, Begun
<1>9. Rows(id)'
  BY <1>3 DEF Rows
<1> QED BY <1>1, <1>2, <1>5, <1>7, <1>8, <1>9 DEF Held, Stands

(* The user acts on another transfer.                                       *)
LEMMA ClickOther ==
    ASSUME IInv, NEW a, NEW id \in Ids, a # id, Held(id), UNCHANGED <<job, inbox, shown, effects>>,
           items'[id] = items[id], \A c \in calls' : c.id # a => c \in calls,
           queued \ {a} = queued' \ {a}, parked \ {a} = parked' \ {a}
    PROVE  Held(id)'
<1>1. SameRow(id)
  BY DEF SameRow
<1> QED BY <1>1, OthersHeld

(* The fresh transfer is queued or paused.                                  *)
LEMMA FreshHeld ==
    ASSUME NEW id, id \in queued', Fresh(id)', Alone(id)'
    PROVE  Held(id)'
<1>1. /\ first(id)'.pc = "none" /\ ~Resumes(id)'
      /\ items'[id] \in {Item("queued", "pending"), Item("paused", "pending")}
      /\ Untold(inbox', id, Told)
  BY DEF Fresh, Resumes, Call
<1>2. items'[id].queueState = "pending" /\ items'[id].status \in {"queued", "paused"}
  BY <1>1 DEF Item
<1>3. /\ Letters(inbox', id, first(id)') /\ Calm(inbox', id, first(id)')
      /\ Untold(inbox', id, {"resumed"})
  BY <1>1, NothingTold
<1>4. NoResume(id)'
  BY <1>1, <1>3 DEF NoResume
<1>5. Mail(id)'
  BY <1>2, <1>3, <1>4 DEF Mail
<1>6. Rows(id)'
  BY <1>2 DEF Rows, Finished
<1> QED BY <1>1, <1>5, <1>6 DEF Held, Stands

LEMMA EnqueueHeld ==
    ASSUME IInv, SlotInv, NEW id \in Ids, enqueueTransfer(id)
    PROVE  Held(id)'
<1>1. /\ id \notin enqueued /\ Update(id, Item("queued", "pending"), TRUE)
      /\ queued' = queued \cup {id} /\ parked' = parked
      /\ UNCHANGED <<job, calls, inbox, shown>>
  BY DEF enqueueTransfer, backendVars
<1>2. items'[id] = Item("queued", "pending")
  BY <1>1, UpdateMeans
<1>3. \A n \in 1 .. MaxStarts : job[<<id, n>>].pc = "none"
  <2>1. \A n \in 1 .. MaxStarts : <<id, n>> \in Jobs /\ <<id, n>>[1] = id
    BY DEF Jobs
  <2> QED BY <1>1, <2>1 DEF IInv, GoodBackend
<1>4. id \notin parked /\ shown[id] = Absent /\ \A c \in calls : c.id # id
  BY <1>1 DEF IInv, GoodPanel, GoodBackend, Calls
<1>5. Untold(inbox, id, Told)
  <2> SUFFICES ASSUME NEW k \in 1 .. Len(inbox), inbox[k].id = id PROVE FALSE
    BY DEF Untold, Of
  <2>1. inbox[k] \in Messages
    BY DEF IInv, GoodBackend
  <2> QED BY <1>1, <2>1 DEF Messages
<1>6. first(id)'.pc = "none" /\ Alone(id)'
  BY <1>1, <1>3, TransferBackendAssumption DEF first, Alone
<1>7. Fresh(id)'
  BY <1>1, <1>2, <1>4, <1>5, <1>6 DEF Fresh, Item
<1> QED BY <1>1, <1>6, <1>7, FreshHeld

LEMMA PauseHeld ==
    ASSUME IInv, SlotInv, NEW id \in Ids, pauseTransfer(id), Held(id)
    PROVE  Held(id)'
<1>1. /\ UNCHANGED <<job, inbox, shown, effects, queued, parked>> /\ effects = FALSE
      /\ shown[id].status \in {"transferring", "queued"}
  BY DEF pauseTransfer, Click, IInv, GoodPanel
<1>2. Stands(id) /\ Mail(id) /\ queued \cap parked = {}
  BY DEF Held, SlotInv, RefsInv, OneRef
<1>3. first(id)' = first(id) /\ Alone(id)' = Alone(id) /\ Alone(id)
  BY <1>1, <1>2 DEF first, Alone, Stands
<1>4. CASE shown[id].status = "queued" /\ id \in queued \cup parked
  <2> DEFINE item == IF items[id].status # "queued" THEN items[id]
                     ELSE Item("paused", IF id \in queued THEN items[id].queueState ELSE "running")
             revision == id \notin queued
  <2>1. Update(id, item, revision) /\ revision \in BOOLEAN /\ calls' = calls
    BY <1>4 DEF pauseTransfer
  <2>2. items'[id] = item
    BY <2>1, UpdateMeans
  <2>3. Resumes(id)' = Resumes(id) /\ NoResume(id)' = NoResume(id)
    BY <1>1, <2>1 DEF Resumes, NoResume
  <2>4. CASE items[id].status # "queued"
    <3>1. SameRow(id)
      BY <1>1, <2>2, <2>4 DEF SameRow
    <3> QED BY <1>1, <2>1, <3>1, OthersHeld
  <2>5. CASE items[id].status = "queued" /\ id \in queued
    <3>1. Fresh(id)
      BY <1>2, <2>5 DEF Stands
    <3>2. items'[id] = Item("paused", "pending")
      BY <2>2, <2>5, <3>1 DEF Fresh, Item
    <3>3. Fresh(id)'
      BY <1>1, <1>3, <2>1, <3>1, <3>2 DEF Fresh
    <3> QED BY <1>1, <1>3, <2>5, <3>3, FreshHeld
  <2>6. CASE items[id].status = "queued" /\ id \notin queued
    <3>1. items'[id] = Item("paused", "running") /\ id \in parked
      BY <1>4, <2>2, <2>6
    <3>2. items'[id].status = "paused" /\ items'[id].queueState = "running"
      BY <3>1 DEF Item
    <3>3. first(id).pc # "none" /\ first(id).pc # "invoked"
      BY <1>2, <2>6, <3>1 DEF Stands, Unstarted, Begun
    <3>4. NoResume(id) /\ Calm(inbox, id, first(id)) /\ ~Resumes(id)
      BY <1>2, <2>6 DEF Mail, Halted, NoResume
    <3>5. Ordered(inbox, id)
      BY <3>4, CalmOrdered
    <3>6. Mail(id)'
      BY <1>1, <1>2, <1>3, <2>3, <3>4, <3>5 DEF Mail
    <3>7. Rows(id)'
      BY <1>1, <1>4, <3>2 DEF Rows, Finished
    <3> QED BY <1>1, <1>3, <2>6, <3>3, <3>6, <3>7 DEF Held, Stands
  <2> QED BY <2>4, <2>5, <2>6
<1>5. CASE ~(shown[id].status = "queued" /\ id \in queued \cup parked)
  <2>1. items' = items /\ calls' = calls \cup {Call("pause", id, "user")}
    BY <1>5 DEF pauseTransfer, Invoke
  <2>2. id \notin queued
    BY <1>1, <1>2, <1>5 DEF Stands, Fresh, Item, Absent
  <2>3. Resumes(id)' => Resumes(id)
    BY <2>1 DEF Resumes, Call
  <2>4. SameRow(id)
    BY <1>1, <2>1 DEF SameRow
  <2> QED BY <1>1, <2>2, <2>3, <2>4, CalledHeld
<1> QED BY <1>4, <1>5

LEMMA ResumeHeld ==
    ASSUME IInv, SlotInv, NEW id \in Ids, resumeTransfer(id), Held(id)
    PROVE  Held(id)'
<1>1. /\ UNCHANGED <<job, inbox, shown, effects, queued>> /\ effects = FALSE
      /\ shown[id].status = "paused" /\ shown[id] \in ItemStates
  BY DEF resumeTransfer, Click, IInv, GoodPanel
<1>2. Stands(id) /\ Mail(id)
  BY DEF Held
<1>3. first(id)' = first(id) /\ Alone(id)' = Alone(id) /\ Alone(id)
  BY <1>1, <1>2 DEF first, Alone, Stands
<1>4. CASE id \in queued \/ shown[id].queueState = "running"
  <2> DEFINE item == IF items[id].status # "paused" THEN items[id]
                     ELSE Item("queued", IF id \in queued THEN items[id].queueState ELSE "pending")
  <2>1. /\ Update(id, item, TRUE) /\ calls' = calls
        /\ parked' = IF id \in queued THEN parked ELSE parked \cup {id}
    BY <1>4 DEF resumeTransfer
  <2>2. items'[id] = item
    BY <2>1, UpdateMeans
  <2>3. Resumes(id)' = Resumes(id) /\ NoResume(id)' = NoResume(id)
    BY <1>1, <2>1 DEF Resumes, NoResume
  <2>4. CASE id \in queued
    <3>1. Fresh(id)
      BY <1>2, <2>4 DEF Stands
    <3>2. items'[id] = Item("queued", "pending")
      BY <2>2, <2>4, <3>1 DEF Fresh, Item
    <3>3. Fresh(id)'
      BY <1>1, <1>3, <2>1, <2>4, <3>1, <3>2 DEF Fresh
    <3> QED BY <1>1, <1>3, <2>4, <3>3, FreshHeld
  <2>5. CASE id \notin queued
    <3>1. shown[id].queueState = "running"
      BY <1>4, <2>5
    <3>2. shown[id] = Item("paused", "running")
      BY <1>1, <3>1 DEF ItemStates, Item
    <3>3. first(id).pc # "none" /\ first(id).pc # "invoked"
      BY <1>1, <1>2, <2>5, <3>1 DEF Stands, Unstarted, Begun
    <3>4. NoResume(id)
      BY <1>2, <3>2 DEF Mail
    <3>5. CASE items[id].status # "paused"
      <4>1. items'[id] = items[id]
        BY <2>2, <3>5
      <4>2. Mail(id)'
        BY <1>1, <1>2, <1>3, <2>3, <4>1, MailKept DEF Mail
      <4>3. Rows(id)'
        BY <1>1, <1>2, <4>1 DEF Stands, Rows
      <4> QED BY <1>1, <1>3, <2>5, <3>3, <4>2, <4>3 DEF Held, Stands
    <3>6. CASE items[id].status = "paused"
      <4>1. items'[id] = Item("queued", "pending")
        BY <2>2, <2>5, <3>6
      <4>2. items'[id].status = "queued" /\ items'[id].queueState = "pending"
        BY <4>1 DEF Item
      <4>3. Calm(inbox, id, first(id))
        BY <1>2, <3>2, <3>6 DEF Mail, Halted
      <4>4. Mail(id)'
        BY <1>1, <1>2, <1>3, <2>3, <3>4, <4>2, <4>3 DEF Mail
      <4>5. Rows(id)'
        BY <1>1, <3>1, <4>2 DEF Rows, Finished
      <4> QED BY <1>1, <1>3, <2>5, <3>3, <4>4, <4>5 DEF Held, Stands
    <3> QED BY <3>5, <3>6
  <2> QED BY <2>4, <2>5
<1>5. CASE ~(id \in queued \/ shown[id].queueState = "running")
  <2>1. items' = items /\ parked' = parked /\ id \notin queued /\ shown[id].queueState # "running"
    BY <1>5 DEF resumeTransfer
  <2>2. items[id].status # "queued" /\ items[id].queueState # "running"
    BY <1>1, <1>2, <2>1 DEF Stands, Rows
  <2>3. shown'[id] # Item("paused", "running")
    BY <1>1, <2>1 DEF Item
  <2>4. ~Halted(id)'
    BY <1>1, <2>1, <2>2, <2>3 DEF Halted
  <2>5. Mail(id)'
    BY <1>1, <1>2, <1>3, <2>1, <2>2, <2>3, <2>4 DEF Mail
  <2>6. first(id).pc # "invoked"
    BY <1>1, <1>2 DEF Stands, Begun
  <2>7. first(id)'.pc = "none" => Unstarted(id)'
    BY <1>1, <1>2, <1>3, <2>1 DEF Stands, Unstarted
  <2>8. Rows(id)'
    BY <1>1, <1>2, <2>1 DEF Stands, Rows
  <2> QED BY <1>1, <1>3, <2>1, <2>5, <2>6, <2>7, <2>8 DEF Held, Stands
<1> QED BY <1>4, <1>5

LEMMA CancelHeld ==
    ASSUME IInv, SlotInv, NEW id \in Ids, cancelTransfer(id), Held(id)
    PROVE  Held(id)'
<1>1. /\ UNCHANGED <<job, inbox, shown, effects>>
      /\ queued' = queued \ {id} /\ parked' = parked \ {id}
  BY DEF cancelTransfer, Click
<1>2. CASE id \in queued
  <2> DEFINE item == IF items[id].status \in {"completed", "error"} THEN items[id]
                     ELSE Changed(id, "cancelled", "none")
  <2>1. Update(id, item, TRUE) /\ calls' = calls
    BY <1>2 DEF cancelTransfer
  <2>2. items[id].status \in {"queued", "paused"}
    BY <1>2 DEF Held, Stands, Fresh, Item
  <2>3. items'[id] = Changed(id, "cancelled", "none")
    BY <2>1, <2>2, UpdateMeans
  <2>4. items'[id].status \in Finished \cup {"absent"} /\ items'[id].queueState = "none"
    BY <2>3 DEF Changed, Absent, Item, Finished
  <2>5. Resumes(id)' = Resumes(id)
    BY <2>1 DEF Resumes
  <2> QED BY <1>1, <2>4, <2>5, GoneHeld
<1>3. CASE id \notin queued
  <2>1. /\ items' = items
        /\ \E by : calls' = calls \cup {Call("cancel", id, by)}
    BY <1>3 DEF cancelTransfer, Invoke
  <2>2. Resumes(id)' => Resumes(id)
    BY <2>1 DEF Resumes, Call
  <2>3. SameRow(id)
    BY <1>1, <1>3, <2>1 DEF SameRow
  <2> QED BY <1>1, <1>3, <2>2, <2>3, CalledHeld
<1> QED BY <1>2, <1>3

LEMMA RemoveHeld ==
    ASSUME IInv, SlotInv, NEW id \in Ids, removeTransfer(id), Held(id)
    PROVE  Held(id)'
<1>1. /\ UNCHANGED <<job, inbox, shown, effects>>
      /\ queued' = queued \ {id} /\ parked' = parked \ {id}
      /\ Update(id, Absent, FALSE)
      /\ calls' \subseteq calls \cup {Call("cancel", id, "user")}
  BY DEF removeTransfer, Click, Invoke
<1>2. items'[id] = Absent
  BY <1>1, UpdateMeans
<1>3. items'[id].status \in Finished \cup {"absent"} /\ items'[id].queueState = "none"
  BY <1>2 DEF Absent
<1>4. Resumes(id)' => Resumes(id)
  BY <1>1 DEF Resumes, Call
<1> QED BY <1>1, <1>3, <1>4, GoneHeld

LEMMA ClearHeld ==
    ASSUME IInv, SlotInv, NEW id \in Ids, clearCompleted, Held(id)
    PROVE  Held(id)'
<1>1. /\ UNCHANGED <<job, inbox, shown, effects, calls>>
      /\ items'[id] = IF items[id].status = "completed" THEN Absent ELSE items[id]
      /\ queued' = {i \in queued : items[i].status # "completed"}
      /\ parked' = {i \in parked : items[i].status # "completed"}
  BY DEF clearCompleted, Click
<1>2. CASE items[id].status = "completed"
  <2>1. items'[id].status \in Finished \cup {"absent"} /\ items'[id].queueState = "none"
    BY <1>1, <1>2 DEF Absent
  <2>2. Resumes(id)' = Resumes(id)
    BY <1>1 DEF Resumes
  <2> QED BY <1>1, <1>2, <2>1, <2>2, GoneHeld
<1>3. CASE items[id].status # "completed"
  <2>1. SameRow(id)
    BY <1>1, <1>3 DEF SameRow
  <2> QED BY <1>1, <2>1, OthersHeld
<1> QED BY <1>2, <1>3

(* What an operation on the transfer a leaves alone.                        *)
Touches(a) ==
    /\ UNCHANGED <<job, inbox, shown, effects>>
    /\ \A i \in Ids : i # a => items'[i] = items[i]
    /\ \A c \in calls' : \/ c \in calls
                         \/ c.id = a /\ (c.op = "resume" => c.by = "user")
    /\ queued \ {a} = queued' \ {a} /\ parked \ {a} = parked' \ {a}
    /\ retried \subseteq retried'

LEMMA UserTouches ==
    ASSUME IInv, NEW a \in Ids,
           \/ enqueueTransfer(a) \/ pauseTransfer(a) \/ resumeTransfer(a)
           \/ cancelTransfer(a) \/ retryTransfer(a) \/ removeTransfer(a)
    PROVE  Touches(a)
<1>1. ASSUME NEW op, NEW by, op # "resume" \/ by = "user", Invoke(op, a, by)
      PROVE  \A c \in calls' : \/ c \in calls
                               \/ c.id = a /\ (c.op = "resume" => c.by = "user")
  BY <1>1 DEF Invoke, Call
<1>2. ASSUME NEW item, NEW revision, Update(a, item, revision)
      PROVE  \A i \in Ids : i # a => items'[i] = items[i]
  BY <1>2 DEF Update, IInv, GoodPanel
<1>3. CASE enqueueTransfer(a)
  BY <1>2, <1>3 DEF enqueueTransfer, backendVars, Touches
<1>4. CASE pauseTransfer(a)
  <2>1. UNCHANGED <<job, inbox, shown, effects, queued, parked, retried>>
    BY <1>4 DEF pauseTransfer, Click
  <2>2. CASE shown[a].status = "queued" /\ a \in queued \cup parked
    BY <1>2, <1>4, <2>1, <2>2 DEF pauseTransfer, Touches
  <2>3. CASE ~(shown[a].status = "queued" /\ a \in queued \cup parked)
    BY <1>1, <1>4, <2>1, <2>3 DEF pauseTransfer, Touches
  <2> QED BY <2>2, <2>3
<1>5. CASE resumeTransfer(a)
  <2>1. UNCHANGED <<job, inbox, shown, effects, queued, retried>>
    BY <1>5 DEF resumeTransfer, Click
  <2>2. CASE a \in queued \/ shown[a].queueState = "running"
    BY <1>2, <1>5, <2>1, <2>2 DEF resumeTransfer, Touches
  <2>3. CASE ~(a \in queued \/ shown[a].queueState = "running")
    BY <1>1, <1>5, <2>1, <2>3 DEF resumeTransfer, Touches
  <2> QED BY <2>2, <2>3
<1>6. CASE cancelTransfer(a)
  <2>1. /\ UNCHANGED <<job, inbox, shown, effects, retried>>
        /\ queued' = queued \ {a} /\ parked' = parked \ {a}
    BY <1>6 DEF cancelTransfer, Click
  <2>2. CASE a \in queued
    BY <1>2, <1>6, <2>1, <2>2 DEF cancelTransfer, Touches
  <2>3. CASE a \notin queued
    BY <1>1, <1>6, <2>1, <2>3 DEF cancelTransfer, Touches
  <2> QED BY <2>2, <2>3
<1>7. CASE retryTransfer(a)
  BY <1>2, <1>7 DEF retryTransfer, Click, Touches
<1>8. CASE removeTransfer(a)
  <2>1. /\ UNCHANGED <<job, inbox, shown, effects, retried>>
        /\ queued' = queued \ {a} /\ parked' = parked \ {a} /\ Update(a, Absent, FALSE)
    BY <1>8 DEF removeTransfer, Click
  <2>2. CASE a \in parked
    BY <1>1, <1>2, <1>8, <2>1, <2>2 DEF removeTransfer, Touches
  <2>3. CASE a \notin parked
    BY <1>2, <1>8, <2>1, <2>3 DEF removeTransfer, Touches
  <2> QED BY <2>2, <2>3
<1> QED BY <1>3, <1>4, <1>5, <1>6, <1>7, <1>8

LEMMA UserHeld ==
    ASSUME IInv, SlotInv, HeldInv, UserNext
    PROVE  HeldInv'
<1>1. ASSUME NEW a \in Ids, Touches(a), ~(retried' = retried) => a \in retried',
             a \notin retried /\ a \notin retried' => Held(a)'
      PROVE  HeldInv'
  <2>1. ByUser'
    BY <1>1 DEF HeldInv, ByUser, Touches
  <2>2. ASSUME NEW id \in Ids, id \notin retried' PROVE Held(id)'
    <3>1. id \notin retried /\ Held(id)
      BY <1>1, <2>2 DEF Touches, HeldInv
    <3>2. CASE id = a
      BY <1>1, <2>2, <3>1, <3>2
    <3>3. CASE id # a
      BY <1>1, <3>1, <3>3, ClickOther DEF Touches
    <3> QED BY <3>2, <3>3
  <2> QED BY <2>1, <2>2 DEF HeldInv
<1>2. ASSUME NEW a \in Ids, a \notin retried PROVE Held(a)
  BY <1>2 DEF HeldInv
<1>3. ASSUME NEW a \in Ids, enqueueTransfer(a) PROVE HeldInv'
  <2>1. Touches(a) /\ retried' = retried
    BY <1>3, UserTouches DEF enqueueTransfer
  <2> QED BY <1>1, <1>3, <2>1, EnqueueHeld
<1>4. ASSUME NEW a \in Ids, pauseTransfer(a) PROVE HeldInv'
  <2>1. Touches(a) /\ retried' = retried
    BY <1>4, UserTouches DEF pauseTransfer
  <2> QED BY <1>1, <1>2, <1>4, <2>1, PauseHeld
<1>5. ASSUME NEW a \in Ids, resumeTransfer(a) PROVE HeldInv'
  <2>1. Touches(a) /\ retried' = retried
    BY <1>5, UserTouches DEF resumeTransfer
  <2> QED BY <1>1, <1>2, <1>5, <2>1, ResumeHeld
<1>6. ASSUME NEW a \in Ids, cancelTransfer(a) PROVE HeldInv'
  <2>1. Touches(a) /\ retried' = retried
    BY <1>6, UserTouches DEF cancelTransfer
  <2> QED BY <1>1, <1>2, <1>6, <2>1, CancelHeld
<1>7. ASSUME NEW a \in Ids, retryTransfer(a) PROVE HeldInv'
  <2>1. Touches(a) /\ a \in retried'
    BY <1>7, UserTouches DEF retryTransfer
  <2> QED BY <1>1, <2>1
<1>8. ASSUME NEW a \in Ids, removeTransfer(a) PROVE HeldInv'
  <2>1. Touches(a) /\ retried' = retried
    BY <1>8, UserTouches DEF removeTransfer
  <2> QED BY <1>1, <1>2, <1>8, <2>1, RemoveHeld
<1>9. ASSUME clearCompleted PROVE HeldInv'
  <2>1. calls' = calls /\ retried' = retried
    BY <1>9 DEF clearCompleted
  <2>2. ByUser'
    BY <2>1 DEF HeldInv, ByUser
  <2> QED BY <1>2, <1>9, <2>1, <2>2, ClearHeld DEF HeldInv
<1> QED BY <1>3, <1>4, <1>5, <1>6, <1>7, <1>8, <1>9 DEF UserNext

LEMMA InitHeld == Init => HeldInv
<1> SUFFICES ASSUME Init PROVE HeldInv
  OBVIOUS
<1>1. /\ job = [j \in Jobs |-> NoJob] /\ calls = {} /\ inbox = <<>>
      /\ items = [id \in Ids |-> Absent] /\ shown = items
      /\ queued = {} /\ parked = {} /\ effects = FALSE
  BY DEF Init, BackendInit
<1>2. ASSUME NEW id \in Ids PROVE Held(id)
  <2>1. /\ Absent.status = "absent" /\ Absent.queueState = "none" /\ NoJob.pc = "none"
        /\ items[id] = Absent /\ shown[id] = Absent
    BY <1>1 DEF Absent, NoJob, Resting
  <2>2. \A n \in 1 .. MaxStarts : job[<<id, n>>].pc = "none"
    BY <1>1, <2>1 DEF Jobs
  <2>3. first(id).pc = "none" /\ Alone(id)
    BY <2>2, TransferBackendAssumption DEF first, Alone
  <2>4. Untold(inbox, id, Told)
    BY <1>1 DEF Untold
  <2>5. Letters(inbox, id, first(id)) /\ ~Halted(id) /\ shown[id] # Item("paused", "running")
    BY <2>1, <2>4, NothingTold DEF Halted, Item
  <2>6. Mail(id)
    BY <2>1, <2>5 DEF Mail
  <2>7. Unstarted(id) /\ Rows(id)
    BY <1>1, <2>1 DEF Unstarted, Rows, Finished
  <2> QED BY <1>1, <2>3, <2>6, <2>7 DEF Held, Stands
<1>3. ByUser
  BY <1>1 DEF ByUser
<1> QED BY <1>2, <1>3 DEF HeldInv

LEMMA NextHeld == IInv /\ SlotInv /\ HeldInv /\ [Next]_vars => HeldInv'
<1> SUFFICES ASSUME IInv, SlotInv, HeldInv, [Next]_vars PROVE HeldInv'
  OBVIOUS
<1>0. ByUser /\ \A id \in Ids \ retried : Held(id)
  BY DEF HeldInv
<1>1. CASE UNCHANGED vars
  <2>1. UNCHANGED <<job, calls, inbox, items, shown, queued, parked, effects, retried>>
    BY <1>1 DEF vars, backendVars, uiVars
  <2>2. ByUser'
    BY <1>0, <2>1 DEF ByUser
  <2>3. ASSUME NEW id \in Ids \ retried PROVE Held(id)'
    BY <1>0, <2>1, OthersHeld DEF SameRow
  <2> QED BY <2>1, <2>2, <2>3 DEF HeldInv
<1>2. CASE BackendNext /\ UNCHANGED uiVars
  <2>1. retried' = retried
    BY <1>2 DEF uiVars
  <2>2. CASE \E j \in Jobs : JobStep(j)
    <3>1. PICK j \in Jobs : \E w, ms : JobMoves(j, w, ms)
      BY <1>2, <2>2, JobStepMoves
    <3>2. PICK w, ms : JobMoves(j, w, ms)
      BY <3>1
    <3>3. ByUser'
      BY <1>0, <3>2 DEF ByUser, JobMoves
    <3> QED BY <1>0, <1>2, <2>1, <3>2, <3>3, JobStepHeld DEF HeldInv
  <2>3. CASE \E c \in calls : HandleCall(c)
    <3>1. PICK c \in calls : \E ms : CallMoves(c, ms)
      BY <1>2, <2>3, HandleCallMoves
    <3>2. PICK ms : CallMoves(c, ms)
      BY <3>1
    <3>3. ByUser'
      BY <1>0, <3>2 DEF ByUser, CallMoves
    <3> QED BY <1>0, <1>2, <2>1, <3>2, <3>3, CallHeld DEF HeldInv
  <2> QED BY <1>2, <2>2, <2>3 DEF BackendNext
<1>3. CASE Render
  <2>1. calls' = calls /\ retried' = retried
    BY <1>3 DEF Render, backendVars
  <2>2. ByUser'
    BY <1>0, <2>1 DEF ByUser
  <2> QED BY <1>0, <1>3, <2>1, <2>2, RenderHeld DEF HeldInv
<1>4. CASE RunEffects
  <2>1. PICK S : EffectsOf(S)
    BY <1>4, RunEffectsMeans
  <2>2. /\ retried' = retried
        /\ calls' = calls \cup {Call("resume", i, "user") : i \in S \cap parked}
    BY <2>1 DEF EffectsOf
  <2>3. ByUser'
    BY <1>0, <2>2 DEF ByUser, Call
  <2> QED BY <1>0, <1>4, <2>2, <2>3, RunEffectsHeld DEF HeldInv
<1>5. CASE Receive
  <2>1. calls' = calls /\ retried' = retried
    BY <1>5 DEF Receive
  <2>2. ByUser'
    BY <1>0, <2>1 DEF ByUser
  <2> QED BY <1>0, <1>5, <2>1, <2>2, ReceiveHeld DEF HeldInv
<1>6. CASE UserNext
  BY <1>6, UserHeld
<1> QED BY <1>1, <1>2, <1>3, <1>4, <1>5, <1>6 DEF Next

(* resumeTransfer keeps a paused transfer where it is until the scheduler   *)
(* has a slot for it, for any number of transfers, slots and messages under *)
(* way: no resume command or event of an earlier pause reaches the job of a *)
(* transfer that is parked, and a job that runs was started again by        *)
(* itself, which the panel is about to hear.                                *)
THEOREM ParkedStaysHeld == Spec => []ParkedIsHeld
<1>1. IInv /\ HeldInv => ParkedIsHeld
  <2> SUFFICES ASSUME IInv, HeldInv, NEW id \in parked \ retried, items[id].status = "queued",
                      NEW n \in 1 .. MaxStarts, Runs(<<id, n>>)
               PROVE  \E k \in DOMAIN inbox : inbox[k] = Message(id, "started")
    BY DEF ParkedIsHeld
  <2>1. id \in Ids /\ inbox \in Seq(Messages)
    BY DEF IInv, GoodPanel, GoodBackend
  <2>2. Held(id)
    BY <2>1 DEF HeldInv
  <2>3. n = 1
    BY <2>2 DEF Held, Stands, Alone, Runs
  <2>4. Lively(first(id))
    BY <2>3 DEF Lively, first, Runs, Underway
  <2>5. Anew(inbox, 0, id)
    BY <2>2, <2>4 DEF Held, Mail, Halted, Calm
  <2>6. PICK k \in 1 .. Len(inbox) : Of(inbox, k, id, {"started"})
    BY <2>5 DEF Anew, Later
  <2>7. inbox[k] \in Messages /\ inbox[k].id = id /\ inbox[k].what = "started"
    BY <2>1, <2>6 DEF Of
  <2>8. inbox[k] = Message(id, "started")
    BY <2>7 DEF Messages, Message
  <2> QED BY <2>1, <2>8
<1>2. Spec => []SlotInv
  BY InitSlots, NextSlots, TransfersInductive, PTL DEF Spec
<1>3. Spec => []HeldInv
  BY <1>2, InitHeld, NextHeld, TransfersInductive, PTL DEF Spec
<1> QED BY <1>1, <1>3, TransfersInductive, PTL
=============================================================================

------------------------------ MODULE Transfers ------------------------------
(***************************************************************************)
(* The transfer queue of the file panel: TransferProvider's map of         *)
(* transfers, its two refs (requests waiting to be started, paused         *)
(* transfers parked until a slot is free), the scheduler effect, the event *)
(* listener and the operations the panel offers, on top of the backend.    *)
(*                                                                         *)
(* React: handlers update items at once (a queue of updaters is the same   *)
(* to them), shown is the map of the last render, and the effects of a     *)
(* render run later, before the next render: they copy shown into          *)
(* transferMapRef and start what shown says is queued.  Messages of the    *)
(* backend may come between a render and its effects; the user acts on     *)
(* what is shown once they have run, so that transferMapRef is shown.      *)
(*                                                                         *)
(* A transfer is its status and queueState.  The Map's order, which only   *)
(* decides which of several candidates takes a slot, is left open.         *)
(***************************************************************************)
EXTENDS TransferBackend, FiniteSetsExt

CONSTANTS
    Configured,     \* the setting download_threads or upload_threads
    MaxClicks       \* bound: operations of the user

ASSUME TransfersAssumption == Configured \in Int /\ MaxClicks \in Nat

VARIABLES
    items,      \* transferMap with every update applied
    shown,      \* transferMap of the last render
    queued,     \* queuedTransfersRef
    parked,     \* parkedTransferIdsRef
    dirty,      \* an update or a new queueRevision waits for a render
    effects,    \* the effects of the last render have yet to run
    clicks,     \* used-up bound
    enqueued,   \* ids that were given out
    retried     \* history: transfers the user has retried

uiVars == <<items, shown, queued, parked, dirty, effects, clicks, enqueued, retried>>
vars == <<backendVars, uiVars>>

Absent == [status |-> "absent", queueState |-> "none"]

Finished == {"completed", "error", "cancelled"}
Active == {"queued", "transferring", "paused"}

Item(status, queueState) == [status |-> status, queueState |-> queueState]

Init ==
    /\ BackendInit
    /\ items = [id \in Ids |-> Absent]
    /\ shown = items
    /\ queued = {}
    /\ parked = {}
    /\ dirty = FALSE
    /\ effects = FALSE
    /\ clicks = 0
    /\ enqueued = {}
    /\ retried = {}

clampTransferConcurrency(value) == Min({10, Max({1, value})})

getBackgroundTransferConcurrency(value) ==
    LET configured == clampTransferConcurrency(value)
    IN  IF configured > 1 THEN configured - 1 ELSE 1

maxRunning == getBackgroundTransferConcurrency(Configured)

(* What an update does to items, and whether a render is due for it: React  *)
(* renders again when the map changed or queueRevision was counted up.      *)
Update(id, item, revision) ==
    /\ items' = [items EXCEPT ![id] = item]
    /\ dirty' = (dirty \/ revision \/ item # items[id])

Changed(id, status, queueState) ==
    IF items[id] = Absent THEN Absent ELSE Item(status, queueState)

-----------------------------------------------------------------------------
(* The scheduler.                                                           *)

Render ==
    /\ dirty /\ ~effects
    /\ shown' = items
    /\ dirty' = FALSE
    /\ effects' = TRUE
    /\ UNCHANGED <<backendVars, items, queued, parked, clicks, enqueued, retried>>

Counted(map) == {id \in Ids : map[id] = Item("transferring", "running")}

Candidates(map) == {id \in queued \cup parked : map[id].status = "queued"}

(* The candidates that take the free slots.                                 *)
Chosen(S) ==
    LET free == Max({0, maxRunning - Cardinality(Counted(shown))})
    IN  /\ S \subseteq Candidates(shown)
        /\ Cardinality(S) = Min({free, Cardinality(Candidates(shown))})

Invoked(id) == <<id, starts(id) + 1>>

RunEffects ==
    /\ effects
    /\ effects' = FALSE
    /\ \E S \in SUBSET Ids :
          /\ Chosen(S)
          /\ items' = [id \in Ids |->
                         IF id \in S /\ items[id].status = "queued"
                         THEN Item("transferring", "running") ELSE items[id]]
          /\ dirty' = (dirty \/ items' # items)
          /\ parked' = parked \ S
          /\ queued' = queued \ (S \ parked)
          /\ calls' = calls \cup {Call("resume", id, "user") : id \in S \cap parked}
          /\ job' = [j \in Jobs |-> IF j \in {Invoked(id) : id \in S \ parked}
                                    THEN Resting("invoked", 0) ELSE job[j]]
    /\ UNCHANGED <<active, faults, inbox, shown, clicks, enqueued, retried>>

-----------------------------------------------------------------------------
(* Events and answers.                                                      *)

(* The listener of transfer-event.                                          *)
Received(id, what) ==
    LET existing == items[id]
    IN  CASE what = "started" ->
               Item("transferring",
                    IF existing.queueState # "none" THEN existing.queueState
                    ELSE IF id \in queued THEN "running" ELSE "none")
          [] what \in {"progress", "resumed"} -> Changed(id, "transferring", existing.queueState)
          [] what = "paused" -> Changed(id, "paused", existing.queueState)
          [] what \in Finished -> Changed(id, what, "none")

HandleEvent(m) ==
    /\ m.what \in {"started", "progress", "paused", "resumed"} \cup Finished
    /\ Update(m.id, Received(m.id, m.what), m.what \in Finished \cup {"paused"})
    /\ queued' = IF m.what \in Finished THEN queued \ {m.id} ELSE queued
    /\ parked' = IF m.what \in Finished THEN parked \ {m.id} ELSE parked

(* Mutant: the rejected command is not caught. *)
HandleJobAnswer_NoCatch(m) ==
    /\ m.what \in {"resolved", "rejected"}
    /\ Update(m.id, items[m.id], TRUE)
    /\ UNCHANGED <<queued, parked>>

(* The answer to the command that ran the job: the scheduler's catch and    *)
(* finally.                                                                 *)
HandleJobAnswer(m) ==
    /\ m.what \in {"resolved", "rejected"}
    /\ Update(m.id,
              IF m.what = "rejected" /\ items[m.id].status \notin Finished
              THEN Changed(m.id, "error", "none") ELSE items[m.id],
              TRUE)
    /\ UNCHANGED <<queued, parked>>

(* cancelTransfer after its await; a parked transfer was cleaned up before. *)
HandleCancelAnswer(m) ==
    /\ m.what \in {"cancelOne", "cancelParked"}
    /\ Update(m.id,
              IF items[m.id].status \in {"completed", "error"} THEN items[m.id]
              ELSE Changed(m.id, "cancelled", "none"),
              TRUE)
    /\ queued' = IF m.what = "cancelOne" THEN queued \ {m.id} ELSE queued
    /\ parked' = IF m.what = "cancelOne" THEN parked \ {m.id} ELSE parked

Receive ==
    /\ inbox # <<>>
    /\ inbox' = Tail(inbox)
    /\ \/ HandleEvent(Head(inbox))
       \/ HandleJobAnswer(Head(inbox))
       \/ HandleCancelAnswer(Head(inbox))
    /\ UNCHANGED <<job, active, faults, calls, shown, effects, clicks, enqueued, retried>>

-----------------------------------------------------------------------------
(* What the user does.  Each needs its menu item, enabled for what is shown.*)

Click ==
    /\ ~effects
    /\ clicks < MaxClicks
    /\ clicks' = clicks + 1
    /\ UNCHANGED <<job, active, faults, inbox, shown, effects, enqueued>>

enqueueTransfer(id) ==
    /\ id \notin enqueued
    /\ enqueued' = enqueued \cup {id}
    /\ Update(id, Item("queued", "pending"), TRUE)
    /\ queued' = queued \cup {id}
    /\ UNCHANGED <<backendVars, shown, parked, effects, clicks, retried>>

Invoke(op, id, by) ==
    /\ Call(op, id, by) \notin calls
    /\ calls' = calls \cup {Call(op, id, by)}

pauseTransfer(id) ==
    /\ shown[id].status \in {"transferring", "queued"}
    /\ Click
    /\ IF shown[id].status = "queued" /\ id \in queued \cup parked
       THEN /\ Update(id,
                      IF items[id].status # "queued" THEN items[id]
                      ELSE Item("paused", IF id \in queued THEN items[id].queueState ELSE "running"),
                      id \notin queued)
            /\ UNCHANGED calls
       ELSE /\ Invoke("pause", id, "user")
            /\ UNCHANGED <<items, dirty>>
    /\ UNCHANGED <<queued, parked, retried>>

(* Mutant: the transfer is queued again and not parked. *)
resumeTransfer_Unparked(id) ==
    /\ shown[id].status = "paused"
    /\ Click
    /\ Update(id, Item("queued", items[id].queueState), TRUE)
    /\ UNCHANGED <<queued, parked, calls, retried>>

(* Mutant: the transfer is parked and resumed at once. *)
resumeTransfer_AtOnce(id) ==
    /\ shown[id].status = "paused"
    /\ Click
    /\ Update(id, Item("queued", "pending"), TRUE)
    /\ parked' = parked \cup {id}
    /\ Invoke("resume", id, "user")
    /\ UNCHANGED <<queued, retried>>

resumeTransfer(id) ==
    /\ shown[id].status = "paused"
    /\ Click
    /\ IF id \in queued \/ shown[id].queueState = "running"
       THEN /\ Update(id,
                      IF items[id].status # "paused" THEN items[id]
                      ELSE Item("queued", IF id \in queued THEN items[id].queueState ELSE "pending"),
                      TRUE)
            /\ parked' = IF id \in queued THEN parked ELSE parked \cup {id}
            /\ UNCHANGED calls
       ELSE /\ Invoke("resume", id, "user")
            /\ UNCHANGED <<items, dirty, parked>>
    /\ UNCHANGED <<queued, retried>>

cancelTransfer(id) ==
    /\ shown[id].status \in Active
    /\ Click
    /\ queued' = queued \ {id}
    /\ parked' = parked \ {id}
    /\ IF id \in queued
       THEN /\ Update(id,
                      IF items[id].status \in {"completed", "error"} THEN items[id]
                      ELSE Changed(id, "cancelled", "none"),
                      TRUE)
            /\ UNCHANGED calls
       ELSE /\ Invoke("cancel", id, IF id \in parked THEN "cancelParked" ELSE "cancelOne")
            /\ UNCHANGED <<items, dirty>>
    /\ UNCHANGED retried

retryTransfer(id) ==
    /\ shown[id].status \in {"error", "cancelled"}
    /\ starts(id) < MaxStarts
    /\ Click
    /\ parked' = parked \ {id}
    /\ queued' = queued \cup {id}
    /\ retried' = retried \cup {id}
    /\ Update(id, Item("queued", "pending"), TRUE)
    /\ UNCHANGED calls

(* The dialog that asks for confirmation may stay open while the transfer,  *)
(* deletable when it was opened, goes on.                                   *)
removeTransfer(id) ==
    /\ shown[id] # Absent
    /\ Click
    /\ IF id \in parked THEN Invoke("cancel", id, "user") ELSE UNCHANGED calls
    /\ queued' = queued \ {id}
    /\ parked' = parked \ {id}
    /\ Update(id, Absent, FALSE)
    /\ UNCHANGED retried

clearCompleted ==
    /\ \E id \in Ids : items[id].status = "completed"
    /\ Click
    /\ items' = [id \in Ids |-> IF items[id].status = "completed" THEN Absent ELSE items[id]]
    /\ dirty' = TRUE
    /\ queued' = {id \in queued : items[id].status # "completed"}
    /\ parked' = {id \in parked : items[id].status # "completed"}
    /\ UNCHANGED <<calls, retried>>

UserNext ==
    \/ \E id \in Ids : \/ enqueueTransfer(id)
                       \/ pauseTransfer(id) \/ resumeTransfer(id)
                       \/ cancelTransfer(id) \/ retryTransfer(id)
                       \/ removeTransfer(id)
    \/ clearCompleted

Next ==
    \/ BackendNext /\ UNCHANGED uiVars
    \/ Render \/ RunEffects \/ Receive
    \/ UserNext

Spec == Init /\ [][Next]_vars

-----------------------------------------------------------------------------
(* Properties.                                                              *)

Statuses == Active \cup Finished \cup {"absent"}

JobStates == [pc : {"none", "invoked", "again", "open", "ready", "paused", "waiting",
                    "io", "cleanup", "over", "skipped"},
              tries : 0 .. MaxRetries + 1, left : 0 .. Chunks,
              ctl : {"Running", "Paused", "Cancelled"}, woken : BOOLEAN]

ItemStates == [status : Statuses, queueState : {"none", "pending", "running"}]

(* The types of the variables.  The refs only know ids that were given out. *)
TypeOK ==
    /\ job \in [Jobs -> JobStates]
    /\ active \in [Ids -> 0 .. MaxStarts]
    /\ faults \in 0 .. MaxFaults /\ clicks \in 0 .. MaxClicks
    /\ items \in [Ids -> ItemStates] /\ shown \in [Ids -> ItemStates]
    /\ queued \subseteq enqueued /\ parked \subseteq enqueued /\ retried \subseteq enqueued
    /\ dirty \in BOOLEAN /\ effects \in BOOLEAN

(* wait_for_transfer_ready never sleeps through resume_transfer or          *)
(* cancel_transfer: a job that waits and was not woken is paused.           *)
WokenWhenResumed ==
    \A j \in Jobs : job[j].pc = "waiting" /\ ~job[j].woken => job[j].ctl = "Paused"

(* cancelTransfer awaits the answer for a transfer that was parked.         *)
ParkedCancel(id) ==
    \/ Call("cancel", id, "cancelParked") \in calls
    \/ \E k \in DOMAIN inbox : inbox[k] = Message(id, "cancelParked")

(* The scheduler effect leaves no transfer behind: once React has nothing   *)
(* left to do, a transfer that is queued and not being cancelled is still   *)
(* in one of the two refs, and every slot is taken.                         *)
NoIdleSlot ==
    ~dirty /\ ~effects =>
        \A id \in Ids : items[id].status = "queued" /\ ~ParkedCancel(id) =>
            /\ id \in queued \cup parked
            /\ Cardinality(Counted(items)) >= maxRunning

(* Nothing is under way for this transfer, and no job of it was skipped.    *)
Quiet(id) ==
    /\ \A n \in 1 .. MaxStarts : job[<<id, n>>].pc \in {"none", "over"}
    /\ \A c \in calls : c.id # id
    /\ \A k \in DOMAIN inbox : inbox[k].id # id

(* The catch of the scheduler and the event listener give every slot back:  *)
(* a transfer whose jobs have all ended is not counted as running, whatever *)
(* was paused, cancelled, retried or removed meanwhile.  (An upload that is *)
(* skipped in the backend is not told to the listener and keeps its slot.)  *)
NoLeakedSlot ==
    \A id \in Ids : Quiet(id) => id \notin Counted(items)

Runs(j) == job[j].pc \in {"open", "ready", "io"} /\ job[j].ctl = "Running"

(* resumeTransfer parks a paused transfer until the scheduler has a slot    *)
(* for it: while it is parked and queued, its job does not run, unless the  *)
(* job was started again by itself and the panel is about to hear of it.    *)
(* (Once the user has retried a transfer, events of its first job are taken *)
(* for those of the second, and a resume command delayed since then may     *)
(* reach a transfer that is parked.)                                        *)
ParkedIsHeld ==
    \A id \in parked \ retried :
        items[id].status = "queued" /\ (\E n \in 1 .. MaxStarts : Runs(<<id, n>>)) =>
            \E k \in DOMAIN inbox : inbox[k] = Message(id, "started")
=============================================================================

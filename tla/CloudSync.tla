----------------------------- MODULE CloudSync -----------------------------
(***************************************************************************)
(* Cloud sync: several devices that share one remote store.                *)
(*                                                                         *)
(* Each device runs a CloudSyncManager (core/cloud_sync/manager.rs).  Its  *)
(* operation lock admits one operation at a time, so op[d] is the holder   *)
(* of the lock; every await on the remote store is a step of its own, and  *)
(* between two steps the user may edit, another device may write, the      *)
(* operation timeout may drop the future, or the process may die.          *)
(*                                                                         *)
(* The push worker, the check worker and the user run operations, and      *)
(* settings are replaced beside them.  What a caller does before it asks   *)
(* for the lock and after the operation has returned, and freed it, is a   *)
(* sequence of awaits too: caller[d][c] says where c stands there, and the *)
(* callers of a device interleave, each with the operation of another one. *)
(*                                                                         *)
(* A configuration is a function from its sections (sessions, keys,        *)
(* settings, ... saved one after the other by apply_portable_snapshot) to  *)
(* values, and stands for its own payload hash.  A snapshot carries a      *)
(* revision and a configuration; the pointer of a snapshot is a copy of    *)
(* these two fields, so both have the same type here.                      *)
(***************************************************************************)
EXTENDS Naturals, FiniteSets

CONSTANTS
    Device,       \* the installations that share the store
    Sections,     \* number of sections apply_portable_snapshot saves
    Value,        \* values of a section
    Default,      \* value of every section of a fresh installation
    None,         \* absent: no object, no recorded hash, no revision
    Layouts,      \* the stores a behaviour may start from, see InitialStore
    Commands,     \* the commands the user gives
    AutoPull,     \* setting auto_pull_remote_changes
    RuntimeChecks,   \* whether the provider has checks: all but github_gist have
    MaxEdits, MaxCommands, MaxFailures, MaxCrashes,   \* bounds on the environment
    MaxEvents     \* bound on all these events together

ASSUME CloudSyncAssumption ==
    /\ Sections \in Nat \ {0}
    /\ Default \in Value
    /\ None \notin Value /\ None \notin [1..Sections -> Value]
    /\ None \notin [rev: Nat, hash: [1..Sections -> Value]]
    /\ Layouts \subseteq {"empty", "shared", "legacy", "dangling", "named"}
    /\ Commands \subseteq {"manual_push", "manual_pull", "resolve_upload",
                           "resolve_download", "recover_current_remote",
                           "enable", "disable", "test_connection"}
    /\ AutoPull \in BOOLEAN /\ RuntimeChecks \subseteq BOOLEAN
    /\ {MaxEdits, MaxCommands, MaxFailures, MaxCrashes, MaxEvents} \subseteq Nat

VARIABLES
    remote,       \* the objects of the store
    published,    \* history: every snapshot that was ever stored
    local,        \* local[d]: the configuration on the disk of d
    state,        \* state[d]: CloudSyncState, the sync baseline
    op,           \* op[d]: the operation that holds the lock of d
    status,       \* status[d]: the state the user is shown
    settings,     \* settings[d]: setting enabled, and what the provider implies
    retry,        \* retry[d]: what the automatic retry state lets workers do
    caller,       \* caller[d][c]: where c stands outside of the lock
    pending,      \* pending[d]: auto_push_notify holds a permit, or a retry is due
    gc,           \* gc[d]: the positions of the clean-up tasks d has spawned
    budget        \* what the environment has used of its bounds

vars == <<remote, published, local, state, op, status, settings, retry, caller,
          pending, gc, budget>>

-----------------------------------------------------------------------------
(* The objects of the store. *)

Config == [1..Sections -> Value]
Revision == Nat
Snapshot == [rev: Revision, hash: Config]
NamedRev == 0       \* the revision of an old store whose name is not a UUID
IsUuid(r) == r # NamedRev

DefaultConfig == [s \in 1..Sections |-> Default]
LegacyConfig == CHOOSE c \in Config : c # DefaultConfig \/ Config = {DefaultConfig}

\* stable: sync/niceterm-snapshot.redb.enc; latest, current, snapshots: the
\* objects of older versions.
EmptyStore == [stable |-> None, latest |-> None, current |-> None, snapshots |-> {}]
LegacyStore(s) == [stable |-> None, latest |-> s, current |-> s, snapshots |-> {s}]

InitialStore(l) ==
    CASE l = "empty"    -> EmptyStore
      \* the devices have synchronised before
      [] l = "shared"   -> [EmptyStore EXCEPT !.stable = [rev |-> 1, hash |-> DefaultConfig]]
      [] l = "legacy"   -> LegacyStore([rev |-> 1, hash |-> LegacyConfig])
      [] l = "named"    -> LegacyStore([rev |-> NamedRev, hash |-> LegacyConfig])
      \* the pointer survived, its snapshot and the current copy were deleted
      [] l = "dangling" -> [EmptyStore EXCEPT !.latest = [rev |-> 1, hash |-> DefaultConfig]]

load_sync_pointer(rm) == IF rm.stable # None THEN rm.stable ELSE rm.latest

\* The object that sync_snapshot_path names for a revision.
ObjectAt(rm, r) ==
    IF IsUuid(r) THEN rm.stable
    ELSE IF \E s \in rm.snapshots : s.rev = r
         THEN CHOOSE s \in rm.snapshots : s.rev = r
         ELSE None

upload_sync_snapshot(rm, s) ==
    IF IsUuid(s.rev)
    THEN [rm EXCEPT !.stable = s]
    ELSE [rm EXCEPT !.snapshots = {t \in @ : t.rev # s.rev} \cup {s}]

write_current_sync_snapshot_compat(rm, s) ==
    IF IsUuid(s.rev) THEN upload_sync_snapshot(rm, s) ELSE [rm EXCEPT !.current = s]

read_current_sync_snapshot_compat(rm) == IF rm.stable # None THEN rm.stable ELSE rm.current

commit_sync_pointer(rm, s) == IF IsUuid(s.rev) THEN rm ELSE [rm EXCEPT !.latest = s]

\* validate_snapshot_source_hash_against_pointer; a missing object fails too.
Validates(p, s) ==
    /\ s # None
    /\ IsUuid(p.rev) \/ s.rev = p.rev
    /\ s.hash = p.hash

\* A new revision: build_portable_snapshot draws a fresh UUID.
FreshRev == Cardinality(published) + 1

-----------------------------------------------------------------------------
(* Operations.  trigger is the trigger string of the source, force its flag. *)

NewOp(kind, trigger, pc, env) ==
    [kind |-> kind, trigger |-> trigger, pc |-> pc, env |-> env,
     ptr |-> None, snap |-> None, err |-> "none", done |-> 0]

NoOp == NewOp("none", "none", "idle", None)

Kinds == {"none", "push", "pull", "check", "recover", "test"}
Triggers == {"none", "auto_push", "periodic_check", "auto_pull_remote",
             "repair_missing_remote"} \cup Commands
Pcs == {"idle", "load", "resolve", "compat", "migrate", "reverify", "read_current",
        "upload", "verify", "commit", "refresh", "apply", "save",
        "test", "tested", "test_failed"}

Operation == [kind: Kinds, trigger: Triggers, pc: Pcs, env: Config \cup {None},
              ptr: Snapshot \cup {None}, snap: Snapshot \cup {None},
              err: {"none", "missing", "mismatch"}, done: 0..Sections]

Forced(o) == o.trigger \in {"resolve_upload", "repair_missing_remote"}

Busy(d) == op[d] # NoOp
At(d, pc) == op[d].pc = pc
Goto(d, pc) == op' = [op EXCEPT ![d].pc = pc]

\* Who runs an operation.  The first two have the automatic triggers; the last
\* one, replace_settings, runs none.
Callers == {"worker", "check", "user", "settings"}
CallerOf(trigger) ==
    CASE trigger = "auto_push"                              -> "worker"
      [] trigger \in {"periodic_check", "auto_pull_remote"} -> "check"
      [] OTHER                                              -> "user"

\* Before the lock: "gated", the gate was open; "skip", the lock was taken;
\* "repair", a second push is due.  After it: "reset"; record_failure in its
\* awaits "failure", "show", "record"; "transient" and "quiet", a check's failure
\* that a retry may cure; "decide", the push worker looks at the gate again.
\* "assigned" and "emit": new settings are in force.
CallerPcs == {"none", "gated", "skip", "repair", "reset", "failure", "show", "record",
              "transient", "quiet", "decide", "assigned", "emit"}

\* retryable: the error is not is_non_retryable_automatic_error.
NoCall == [pc |-> "none", retryable |-> FALSE]
StandsAt(d, c, pc) == caller[d][c].pc = pc
Stand(d, c, pc) == caller' = [caller EXCEPT ![d][c].pc = pc]

\* The caller c is done, or inside the lock.
Leave(d, c) == caller' = [caller EXCEPT ![d][c] = NoCall]

\* c neither runs an operation nor stands before or after one.
AtRest(d, c) ==
    /\ caller[d][c] = NoCall
    /\ Busy(d) => CallerOf(op[d].trigger) # c

\* "notice" is state "idle" with a message on what a check has found: nothing in
\* the store, a newer snapshot there, or local changes pending sync.
Statuses == {"idle", "notice", "running", "conflict", "failed", "disabled"}

TypeOK ==
    /\ remote \in [stable: Snapshot \cup {None}, latest: Snapshot \cup {None},
                   current: Snapshot \cup {None}, snapshots: SUBSET Snapshot]
    /\ published \subseteq Snapshot
    /\ local \in [Device -> Config]
    /\ state \in [Device -> [synced: Config \cup {None}, applied: Revision \cup {None}]]
    /\ op \in [Device -> Operation]
    /\ status \in [Device -> Statuses]
    /\ settings \in [Device -> [enabled: BOOLEAN, checks: BOOLEAN]]
    /\ retry \in [Device -> {"run", "wait", "suspended"}]
    /\ caller \in [Device -> [Callers -> [pc: CallerPcs, retryable: BOOLEAN]]]
    /\ pending \in [Device -> BOOLEAN]
    /\ gc \in [Device -> SUBSET {"current", "latest", "snapshots"}]
    /\ budget \in [edits: 0..MaxEdits, commands: 0..MaxCommands,
                   failures: 0..MaxFailures, crashes: 0..MaxCrashes]

Init ==
    /\ \E l \in Layouts :
           /\ remote = InitialStore(l)
           /\ state = [d \in Device |-> IF l = "shared"
                                       THEN [synced |-> DefaultConfig, applied |-> 1]
                                       ELSE [synced |-> None, applied |-> None]]
    /\ published = remote.snapshots \cup ({remote.stable} \ {None})
    /\ local = [d \in Device |-> DefaultConfig]
    /\ op = [d \in Device |-> NoOp]
    /\ status = [d \in Device |-> "idle"]
    /\ \E checks \in RuntimeChecks :
           settings = [d \in Device |-> [enabled |-> TRUE, checks |-> checks]]
    /\ retry = [d \in Device |-> "run"]
    /\ caller = [d \in Device |-> [c \in Callers |-> NoCall]]
    /\ pending = [d \in Device |-> FALSE]
    /\ gc = [d \in Device |-> {}]
    /\ budget = [edits |-> 0, commands |-> 0, failures |-> 0, crashes |-> 0]

Spend(what, max) ==
    /\ budget[what] < max
    /\ budget.edits + budget.commands + budget.failures + budget.crashes < MaxEvents
    /\ budget' = [budget EXCEPT ![what] = @ + 1]

-----------------------------------------------------------------------------
(* How an operation ends: the guard of the lock is dropped, and the caller goes *)
(* on with the result.  Each of these fixes op', status', caller' and pending'.  *)

Return(d, pc, retryable) ==
    /\ op' = [op EXCEPT ![d] = NoOp]
    /\ caller' = [caller EXCEPT ![d][CallerOf(op[d].trigger)] =
                      [pc |-> pc, retryable |-> retryable]]

\* Variant: a permit that arrived during the operation is dropped with it.
Succeed_ClearsPermit(d, shown) ==
    /\ Return(d, "reset", FALSE)
    /\ status' = [status EXCEPT ![d] = shown]
    /\ pending' = [pending EXCEPT ![d] = FALSE]

Succeed(d, shown) ==
    /\ Return(d, "reset", FALSE)
    /\ status' = [status EXCEPT ![d] = shown]
    /\ UNCHANGED pending

\* Variant: the check ends without a word on what it has found.
Notice_Silent(d) == Succeed(d, "idle")

Notice(d) == Succeed(d, "notice")

\* Variant: the kind of the conflict is stored as the status.
EndInConflict_Kind(d) ==
    /\ Return(d, IF op[d].kind = "check" THEN "reset" ELSE "failure", FALSE)
    /\ status' = [status EXCEPT ![d] = "content_conflict"]
    /\ UNCHANGED pending

\* status "conflict" is shown.  A check returns Ok(Conflict), a push or a pull an
\* error of the kind Config.
EndInConflict(d) ==
    /\ Return(d, IF op[d].kind = "check" THEN "reset" ELSE "failure", FALSE)
    /\ status' = [status EXCEPT ![d] = "conflict"]
    /\ UNCHANGED pending

\* The operation of d fails; "io" stands for the errors a retry may cure.  An
\* auto-pull fails as the check it is part of; a manual push that found the
\* snapshot missing is followed by a forced repair.
Fail(d, error) ==
    /\ Return(d, CASE op[d].trigger = "manual_push" /\ error = "missing" -> "repair"
                   [] CallerOf(op[d].trigger) = "check" /\ error = "io"  -> "transient"
                   [] OTHER                                              -> "failure",
              error = "io")
    /\ UNCHANGED <<status, pending>>

\* Variant: the hash of the configuration as it is now is recorded.
SaveState_Now(d, hash, rev) ==
    state' = [state EXCEPT ![d] = [synced |-> local[d], applied |-> rev]]

SaveState(d, hash, rev) ==
    state' = [state EXCEPT ![d] = [synced |-> hash, applied |-> rev]]

-----------------------------------------------------------------------------
(* Operations begin when the lock is free. *)

Store == <<remote, published>>
Disk == <<local, state>>

\* The caller c gets the lock; sync may have been disabled in the meantime.
Start(d, c, kind, trigger, pc) ==
    /\ ~Busy(d)
    /\ \/ /\ settings[d].enabled
          /\ op' = [op EXCEPT ![d] = NewOp(kind, trigger, pc,
                                           IF kind = "push" THEN local[d] ELSE None)]
          /\ status' = [status EXCEPT ![d] = "running"]
          /\ Leave(d, c)
       \/ /\ ~settings[d].enabled
          /\ Stand(d, c, "failure")
          /\ UNCHANGED <<op, status>>

\* The push worker takes its permit and finds the gate open.
PushGate(d) ==
    /\ pending[d]
    /\ AtRest(d, "worker")
    /\ settings[d].enabled
    /\ retry[d] = "run"
    /\ Stand(d, "worker", "gated")
    /\ pending' = [pending EXCEPT ![d] = FALSE]
    /\ UNCHANGED <<Store, Disk, op, status, settings, retry, gc, budget>>

\* The push worker takes its permit and finds sync disabled or suspended.
AutoPushDropped(d) ==
    /\ pending[d]
    /\ AtRest(d, "worker")
    /\ retry[d] = "suspended" \/ ~settings[d].enabled
    /\ pending' = [pending EXCEPT ![d] = FALSE]
    /\ UNCHANGED <<Store, Disk, op, status, settings, retry, caller, gc, budget>>

\* Its push gets the lock it has waited for.
AutoPush(d) ==
    /\ StandsAt(d, "worker", "gated")
    /\ Start(d, "worker", "push", "auto_push", "load")
    /\ UNCHANGED <<Store, Disk, settings, retry, pending, gc, budget>>

\* The operation timeout also covers the wait for the lock.
AutoPushTimesOut(d) ==
    /\ StandsAt(d, "worker", "gated")
    /\ Busy(d)
    /\ Spend("failures", MaxFailures)
    /\ caller' = [caller EXCEPT ![d]["worker"] = [pc |-> "failure", retryable |-> TRUE]]
    /\ UNCHANGED <<Store, Disk, op, status, settings, retry, pending, gc>>

\* The check worker (periodic, on focus, after new settings) finds the gate
\* open; the startup check is taken for the first of its checks.
CheckGate(d) ==
    /\ AtRest(d, "check")
    /\ settings[d].enabled
    /\ settings[d].checks
    /\ retry[d] = "run"
    /\ Stand(d, "check", "gated")
    /\ UNCHANGED <<Store, Disk, op, status, settings, retry, pending, gc, budget>>

\* Its check gets the lock.
Check(d) ==
    /\ StandsAt(d, "check", "gated")
    /\ ~Busy(d)
    /\ IF settings[d].enabled
       THEN /\ op' = [op EXCEPT ![d] = NewOp("check", "periodic_check", "load", local[d])]
            /\ status' = [status EXCEPT ![d] = "running"]
       ELSE /\ status' = [status EXCEPT ![d] = "disabled"]
            /\ UNCHANGED op
    /\ Leave(d, "check")
    /\ UNCHANGED <<Store, Disk, settings, retry, pending, gc, budget>>

\* The lock is taken: the check is skipped ...
CheckSkipped(d) ==
    /\ StandsAt(d, "check", "gated")
    /\ Busy(d)
    /\ Stand(d, "check", "skip")
    /\ UNCHANGED <<Store, Disk, op, status, settings, retry, pending, gc, budget>>

OperationOf == [manual_push |-> <<"push", "load">>, resolve_upload |-> <<"push", "load">>,
                manual_pull |-> <<"pull", "load">>, resolve_download |-> <<"pull", "load">>,
                recover_current_remote |-> <<"recover", "read_current">>]

\* sync_push_now, sync_pull_now and resolve_cloud_sync_conflict on behalf of the
\* user, who gives the next command when the last one has returned.
Command(d, c) ==
    /\ c \in DOMAIN OperationOf
    /\ Spend("commands", MaxCommands)
    /\ AtRest(d, "user")
    /\ Start(d, "user", OperationOf[c][1], c, OperationOf[c][2])
    /\ UNCHANGED <<Store, Disk, settings, retry, pending, gc>>

\* The second push of a manual push asks for the lock again.
Repair(d) ==
    /\ StandsAt(d, "user", "repair")
    /\ Start(d, "user", "push", "repair_missing_remote", "load")
    /\ UNCHANGED <<Store, Disk, settings, retry, pending, gc, budget>>

\* test_connection needs the lock at once, and keeps it until its result is shown.
TestConnection(d) ==
    /\ "test_connection" \in Commands
    /\ Spend("commands", MaxCommands)
    /\ AtRest(d, "user")
    /\ ~Busy(d)
    /\ op' = [op EXCEPT ![d] = NewOp("test", "test_connection", "test", None)]
    /\ status' = [status EXCEPT ![d] = "running"]
    /\ UNCHANGED <<Store, Disk, settings, retry, caller, pending, gc>>

\* replace_settings does not take the operation lock.
ReplaceSettings(d, c) ==
    /\ c \in {"enable", "disable"}
    /\ Spend("commands", MaxCommands)
    /\ AtRest(d, "settings")
    /\ settings' = [settings EXCEPT ![d].enabled = (c = "enable")]
    /\ Stand(d, "settings", "assigned")
    /\ UNCHANGED <<Store, Disk, op, status, retry, pending, gc>>

-----------------------------------------------------------------------------
(* What a caller does outside of the lock. *)

Outside(d) == UNCHANGED <<Store, Disk, op, settings, gc, budget>>

\* record_automatic_retry_failure: an earlier suspension outlasts a backoff.
record_automatic_retry_failure(d, retryable) ==
    retry' = [retry EXCEPT ![d] = IF retryable /\ @ # "suspended" THEN "wait" ELSE "suspended"]

\* The backoff has passed.
BackoffEnds(d) ==
    /\ retry[d] = "wait"
    /\ retry' = [retry EXCEPT ![d] = "run"]
    /\ UNCHANGED <<status, caller, pending>>
    /\ Outside(d)

\* ... and the status says so.
SkipShown(d) ==
    /\ StandsAt(d, "check", "skip")
    /\ status' = [status EXCEPT ![d] = "idle"]
    /\ Leave(d, "check")
    /\ UNCHANGED <<retry, pending>>
    /\ Outside(d)

\* After Ok.
reset_automatic_retry(d, c) ==
    /\ StandsAt(d, c, "reset")
    /\ retry' = [retry EXCEPT ![d] = "run"]
    /\ Leave(d, c)
    /\ UNCHANGED <<status, pending>>
    /\ Outside(d)

\* After Err the push worker decides whether to push again.
AfterFailure(d, c) == IF c = "worker" THEN Stand(d, c, "decide") ELSE Leave(d, c)

\* record_failure: nothing is recorded while a conflict is shown; otherwise the
\* history is written, then the status, then the automatic retry state.
ReadStatus(d, c) ==
    /\ StandsAt(d, c, "failure")
    /\ IF status[d] = "conflict" THEN AfterFailure(d, c) ELSE Stand(d, c, "show")
    /\ UNCHANGED <<status, retry, pending>>
    /\ Outside(d)

ShowFailure(d, c) ==
    /\ StandsAt(d, c, "show")
    /\ status' = [status EXCEPT ![d] = "failed"]
    /\ IF c = "user" THEN Leave(d, c) ELSE Stand(d, c, "record")
    /\ UNCHANGED <<retry, pending>>
    /\ Outside(d)

RecordRetry(d, c) ==
    /\ StandsAt(d, c, "record")
    /\ record_automatic_retry_failure(d, caller[d][c].retryable)
    /\ AfterFailure(d, c)
    /\ UNCHANGED <<status, pending>>
    /\ Outside(d)

\* handle_runtime_check_failure: a failure that a retry may cure starts a
\* backoff ...
handle_runtime_check_failure(d) ==
    /\ StandsAt(d, "check", "transient")
    /\ record_automatic_retry_failure(d, TRUE)
    /\ Stand(d, "check", "quiet")
    /\ UNCHANGED <<status, pending>>
    /\ Outside(d)

\* Variant: the status keeps what the check showed last.
QuietFailure_KeepsStatus(d) ==
    /\ StandsAt(d, "check", "quiet")
    /\ Leave(d, "check")
    /\ UNCHANGED <<status, retry, pending>>
    /\ Outside(d)

\* ... and leaves no trace for the user.
QuietFailure(d) ==
    /\ StandsAt(d, "check", "quiet")
    /\ status' = [status EXCEPT ![d] = "idle"]
    /\ Leave(d, "check")
    /\ UNCHANGED <<retry, pending>>
    /\ Outside(d)

\* The push worker pushes again after the backoff, if there still is one.
DecideRetry(d) ==
    /\ StandsAt(d, "worker", "decide")
    /\ pending' = [pending EXCEPT ![d] = @ \/ retry[d] = "wait"]
    /\ Leave(d, "worker")
    /\ UNCHANGED <<status, retry>>
    /\ Outside(d)

\* The rest of replace_settings.
ResetByReplace(d) ==
    /\ StandsAt(d, "settings", "assigned")
    /\ retry' = [retry EXCEPT ![d] = "run"]
    /\ Stand(d, "settings", "emit")
    /\ UNCHANGED <<status, pending>>
    /\ Outside(d)

set_status_after_settings_replace(d) ==
    /\ StandsAt(d, "settings", "emit")
    /\ status' = [status EXCEPT ![d] = IF settings[d].enabled THEN "idle" ELSE "disabled"]
    /\ Leave(d, "settings")
    /\ UNCHANGED <<retry, pending>>
    /\ Outside(d)

\* What all callers do with the result of an operation.
Outcome(d, c) ==
    \/ reset_automatic_retry(d, c)
    \/ ReadStatus(d, c) \/ ShowFailure(d, c) \/ RecordRetry(d, c)

\* The callers: ensure_auto_push_worker, ensure_runtime_remote_check_worker, and
\* the commands after their first lock.
PushWorker(d) ==
    \/ PushGate(d) \/ AutoPushDropped(d) \/ AutoPush(d)
    \/ Outcome(d, "worker") \/ DecideRetry(d)

CheckWorker(d) ==
    \/ CheckGate(d) \/ Check(d) \/ CheckSkipped(d) \/ SkipShown(d)
    \/ Outcome(d, "check") \/ handle_runtime_check_failure(d) \/ QuietFailure(d)

User(d) == Repair(d) \/ Outcome(d, "user")

Settings(d) == ResetByReplace(d) \/ set_status_after_settings_replace(d)

-----------------------------------------------------------------------------
(* The steps of an operation. *)

\* Reading the pointer.  A push compares it with the snapshot it has built.
LoadForPush(d, p) ==
    /\ op[d].kind = "push"
    /\ op' = [op EXCEPT ![d].ptr = p,
                        ![d].pc = IF p # None /\ p.hash = op[d].env THEN "resolve" ELSE "upload"]
    /\ UNCHANGED <<status, caller, pending>>

\* A pull builds its snapshot after reading the pointer.
LoadForPull(d, p) ==
    /\ op[d].kind = "pull"
    /\ \/ p = None /\ Fail(d, "config")
       \/ /\ p # None
          /\ op' = [op EXCEPT ![d].ptr = p, ![d].pc = "resolve", ![d].env = local[d]]
          /\ UNCHANGED <<status, caller, pending>>

\* A check has built its snapshot before.
LoadForCheck(d, p) ==
    /\ op[d].kind = "check"
    /\ \/ p = None /\ Notice(d)
       \/ /\ p # None
          /\ op' = [op EXCEPT ![d].ptr = p, ![d].pc = "resolve"]
          /\ UNCHANGED <<status, caller, pending>>

Load(d) ==
    /\ At(d, "load")
    /\ LET p == load_sync_pointer(remote)
       IN  LoadForPush(d, p) \/ LoadForPull(d, p) \/ LoadForCheck(d, p)
    /\ UNCHANGED <<Store, Disk, settings, retry, gc, budget>>

\* Variant: a change of the store alone is taken for being up to date.
decide_remote_check_IgnoresRemote(st, hash, p) ==
    IF p.hash = hash \/ st.synced = hash THEN "UpToDate"
    ELSE IF st.applied # p.rev THEN "Conflict" ELSE "LocalChanged"

decide_remote_check(st, hash, p) ==
    LET localChanged == st.synced # hash
        remoteChanged == st.applied # p.rev
    IN  CASE p.hash = hash                             -> "UpToDate"
          [] p.hash # hash /\ remoteChanged /\ localChanged   -> "Conflict"
          [] p.hash # hash /\ remoteChanged /\ ~localChanged  ->
                IF AutoPull THEN "AutoPull" ELSE "RemoteAvailable"
          [] p.hash # hash /\ ~remoteChanged /\ localChanged  -> "LocalChanged"
          [] p.hash # hash /\ ~remoteChanged /\ ~localChanged -> "UpToDate"

\* The store already has what is on the disk.
UpToDate(d) ==
    /\ SaveState(d, op[d].env, op[d].ptr.rev)
    /\ Succeed(d, "idle")

\* resolve_remote_snapshot returned the snapshot s.  A pull applies it unless
\* the hashes agree; a push resolves only when they do.
ResolvedForPull(d, s) ==
    \/ op[d].ptr.hash = op[d].env /\ UpToDate(d)
    \/ /\ op[d].ptr.hash # op[d].env
       /\ op' = [op EXCEPT ![d].pc = "apply", ![d].snap = s]
       /\ UNCHANGED <<state, status, caller, pending>>

\* A check decides.  An automatic pull goes on under the lock of the check; it
\* reads the settings again.
ResolvedForCheck(d) ==
    LET decision == decide_remote_check(state[d], op[d].env, op[d].ptr)
    IN  \/ decision = "UpToDate" /\ UpToDate(d)
        \/ /\ decision = "Conflict"
           /\ EndInConflict(d)
           /\ UNCHANGED state
        \/ /\ decision = "AutoPull" /\ settings[d].enabled
           /\ op' = [op EXCEPT ![d] = NewOp("pull", "auto_pull_remote", "load", None)]
           /\ status' = [status EXCEPT ![d] = "running"]
           /\ UNCHANGED <<state, caller, pending>>
        \/ /\ decision = "AutoPull" /\ ~settings[d].enabled
           /\ Fail(d, "config")
           /\ UNCHANGED state
        \/ /\ decision \in {"RemoteAvailable", "LocalChanged"}
           /\ Notice(d)
           /\ UNCHANGED state

Resolved(d, s) ==
    \/ op[d].kind = "push" /\ UpToDate(d)
    \/ op[d].kind = "pull" /\ ResolvedForPull(d, s)
    \/ op[d].kind = "check" /\ ResolvedForCheck(d)

\* read_snapshot_for_pointer.
Resolve(d) ==
    /\ At(d, "resolve")
    /\ LET s == ObjectAt(remote, op[d].ptr.rev)
       IN  IF Validates(op[d].ptr, s)
           THEN Resolved(d, s)
           ELSE /\ op' = [op EXCEPT ![d].pc = "compat",
                                    ![d].err = IF s = None THEN "missing" ELSE "mismatch"]
                /\ UNCHANGED <<state, status, caller, pending>>
    /\ UNCHANGED <<Store, local, settings, retry, gc, budget>>

\* Variant: the current copy is used as it is, and never migrated.
Compat_NoMigration(d) ==
    /\ At(d, "compat")
    /\ LET c == read_current_sync_snapshot_compat(remote)
           o == op[d]
       IN  \/ /\ c = None
              /\ Fail(d, o.err) /\ UNCHANGED state
           \/ /\ Validates(o.ptr, c)
              /\ Resolved(d, c)
           \/ /\ c # None /\ ~Validates(o.ptr, c)
              /\ EndInConflict(d)
              /\ UNCHANGED state
    /\ UNCHANGED <<Store, local, settings, retry, gc, budget>>

\* resolve_from_compatible_current.  A forced push goes on when the snapshot is
\* missing, to the end of the branch for equal hashes.
Compat(d) ==
    /\ At(d, "compat")
    /\ LET c == read_current_sync_snapshot_compat(remote)
           o == op[d]
       IN  \/ /\ c = None
              /\ IF Forced(o) /\ o.err = "missing"
                 THEN UpToDate(d)
                 ELSE Fail(d, o.err) /\ UNCHANGED state
           \/ /\ Validates(o.ptr, c)
              /\ op' = [op EXCEPT ![d] = [o EXCEPT !.pc = "migrate", !.snap = c]]
              /\ UNCHANGED <<state, status, caller, pending>>
           \/ /\ c # None /\ ~Validates(o.ptr, c)
              /\ EndInConflict(d)
              /\ UNCHANGED state
    /\ UNCHANGED <<Store, local, settings, retry, gc, budget>>

\* migrate_legacy_snapshot, and the check of what it uploaded.
Migrate(d) ==
    /\ At(d, "migrate")
    /\ remote' = upload_sync_snapshot(remote, op[d].snap)
    /\ published' = published \cup {op[d].snap}
    /\ Goto(d, "reverify")
    /\ UNCHANGED <<Disk, status, settings, retry, caller, pending, gc, budget>>

Reverify(d) ==
    /\ At(d, "reverify")
    /\ LET s == ObjectAt(remote, op[d].ptr.rev)
       IN  IF Validates(op[d].ptr, s)
           THEN Resolved(d, op[d].snap)
           ELSE Fail(d, IF s = None THEN "missing" ELSE "mismatch") /\ UNCHANGED state
    /\ UNCHANGED <<Store, local, settings, retry, gc, budget>>

\* recover_current_remote_snapshot reads what there is to recover from.
ReadCurrent(d) ==
    /\ At(d, "read_current")
    /\ LET c == read_current_sync_snapshot_compat(remote)
       IN  IF c = None
           THEN Fail(d, "config")
           ELSE /\ op' = [op EXCEPT ![d].pc = "upload", ![d].snap = c]
                /\ UNCHANGED <<status, caller, pending>>
    /\ UNCHANGED <<Store, Disk, settings, retry, gc, budget>>

Upload(d) ==
    /\ At(d, "upload")
    /\ LET s == IF op[d].kind = "push" THEN [rev |-> FreshRev, hash |-> op[d].env]
                                       ELSE op[d].snap
       IN  /\ remote' = upload_sync_snapshot(remote, s)
           /\ published' = published \cup {s}
           /\ op' = [op EXCEPT ![d].pc = "verify", ![d].snap = s]
    /\ UNCHANGED <<Disk, status, settings, retry, caller, pending, gc, budget>>

Verify(d) ==
    /\ At(d, "verify")
    /\ LET s == ObjectAt(remote, op[d].snap.rev)
       IN  IF Validates(op[d].snap, s)
           THEN Goto(d, "commit") /\ UNCHANGED <<status, caller, pending>>
           ELSE Fail(d, IF s = None THEN "missing" ELSE "mismatch")
    /\ UNCHANGED <<Store, Disk, settings, retry, gc, budget>>

Commit(d) ==
    /\ At(d, "commit")
    /\ remote' = commit_sync_pointer(remote, op[d].snap)
    /\ Goto(d, IF op[d].kind = "push" THEN "refresh" ELSE "apply")
    /\ UNCHANGED <<published, Disk, status, settings, retry, caller, pending, gc, budget>>

\* schedule_sync_snapshot_gc spawns a task, which begins with the current copy.
\* It is left out where it can never find an object: from an empty store, or
\* from one with the stable object only, every revision is a UUID, and nothing
\* ever writes the objects it removes.
CleanUpTask == IF Layouts \subseteq {"empty", "shared"} THEN {} ELSE {"current"}

\* apply_portable_snapshot saves one section after the other.
Apply(d) ==
    /\ At(d, "apply")
    /\ LET s == op[d].done + 1
       IN  /\ local' = [local EXCEPT ![d][s] = op[d].snap.hash[s]]
           /\ op' = [op EXCEPT ![d].done = s,
                               ![d].pc = IF s < Sections THEN "apply"
                                         ELSE IF op[d].kind = "pull" THEN "refresh" ELSE "save"]
           /\ gc' = IF s = Sections /\ op[d].kind = "recover"
                    THEN [gc EXCEPT ![d] = @ \cup CleanUpTask] ELSE gc
    /\ UNCHANGED <<Store, state, status, settings, retry, caller, pending, budget>>

\* The write after the commit, or after the apply of a pull: a failure is only
\* logged.  Then the clean-up task is spawned.
Refresh(d) ==
    /\ At(d, "refresh")
    /\ \/ /\ remote' = write_current_sync_snapshot_compat(remote, op[d].snap)
          /\ UNCHANGED budget
       \/ /\ Spend("failures", MaxFailures)
          /\ UNCHANGED remote
    /\ gc' = [gc EXCEPT ![d] = @ \cup CleanUpTask]
    /\ Goto(d, "save")
    /\ UNCHANGED <<published, Disk, status, settings, retry, caller, pending>>

Save(d) ==
    /\ At(d, "save")
    /\ SaveState(d, op[d].snap.hash, op[d].snap.rev)
    /\ Succeed(d, "idle")
    /\ UNCHANGED <<Store, local, settings, retry, gc, budget>>

\* A connection test has succeeded or failed, and says so under its lock.
Test(d) ==
    /\ At(d, "test")
    /\ \/ Goto(d, "tested") /\ retry' = [retry EXCEPT ![d] = "run"]
       \/ Goto(d, "test_failed") /\ UNCHANGED retry
    /\ UNCHANGED <<Store, Disk, status, settings, caller, pending, gc, budget>>

TestShown(d) ==
    /\ At(d, "tested") \/ At(d, "test_failed")
    /\ status' = [status EXCEPT ![d] = IF At(d, "tested") THEN "idle" ELSE "failed"]
    /\ op' = [op EXCEPT ![d] = NoOp]
    /\ UNCHANGED <<Store, Disk, settings, retry, caller, pending, gc, budget>>

Step(d) ==
    \/ Load(d) \/ Resolve(d) \/ Compat(d) \/ Migrate(d) \/ Reverify(d) \/ ReadCurrent(d)
    \/ Upload(d) \/ Verify(d) \/ Commit(d) \/ Apply(d) \/ Refresh(d) \/ Save(d)
    \/ Test(d) \/ TestShown(d)

-----------------------------------------------------------------------------
(* Clean-up, and the environment. *)

\* cleanup_legacy_sync_objects: one object, or one listing, after the other.
CleanUp(d) ==
    \E g \in gc[d] :
        /\ remote' = CASE g = "current"   -> [remote EXCEPT !.current = None]
                       [] g = "latest"    -> [remote EXCEPT !.latest = None]
                       [] g = "snapshots" -> [remote EXCEPT !.snapshots = {}]
        /\ gc' = [gc EXCEPT ![d] = (@ \ {g}) \cup
                     CASE g = "current"   -> {"latest"}
                       [] g = "latest"    -> {"snapshots"}
                       [] g = "snapshots" -> {}]
        /\ UNCHANGED <<published, Disk, op, status, settings, retry, caller, pending, budget>>

\* An operation fails at one of its awaits, or its timeout drops it there; what
\* it has written stays written.
OperationFails(d) ==
    /\ Busy(d) /\ op[d].kind # "test"
    /\ Spend("failures", MaxFailures)
    /\ Fail(d, "io")
    /\ UNCHANGED <<Store, Disk, settings, retry, gc>>

CleanUpFails(d) ==
    /\ Spend("failures", MaxFailures)
    /\ \E g \in gc[d] : gc' = [gc EXCEPT ![d] = @ \ {g}]
    /\ UNCHANGED <<Store, Disk, op, status, settings, retry, caller, pending>>

\* The user saves a section; notify_config_changed leaves a permit.
Edit(d) ==
    /\ Spend("edits", MaxEdits)
    /\ \E s \in 1..Sections : \E v \in Value \ {local[d][s]} :
           local' = [local EXCEPT ![d][s] = v]
    /\ pending' = [pending EXCEPT ![d] = @ \/ settings[d].enabled]
    /\ UNCHANGED <<Store, state, op, status, settings, retry, caller, gc>>

\* The process exits or is killed, and starts again (init).
Restart(d) ==
    /\ Spend("crashes", MaxCrashes)
    /\ op' = [op EXCEPT ![d] = NoOp]
    /\ status' = [status EXCEPT ![d] = "idle"]
    /\ retry' = [retry EXCEPT ![d] = "run"]
    /\ caller' = [caller EXCEPT ![d] = [c \in Callers |-> NoCall]]
    /\ pending' = [pending EXCEPT ![d] = FALSE]
    /\ gc' = [gc EXCEPT ![d] = {}]
    /\ UNCHANGED <<Store, Disk, settings>>

Next ==
    \E d \in Device :
        \/ Step(d)
        \/ PushWorker(d) \/ AutoPushTimesOut(d)
        \/ CheckWorker(d)
        \/ User(d) \/ Settings(d)
        \/ \E c \in Commands : Command(d, c) \/ ReplaceSettings(d, c)
        \/ TestConnection(d)
        \/ BackoffEnds(d)
        \/ CleanUp(d) \/ CleanUpFails(d)
        \/ OperationFails(d)
        \/ Edit(d)
        \/ Restart(d)

Spec == Init /\ [][Next]_vars

\* Every await ends (with_operation_timeout), both workers go on with what an
\* operation returned, and the push worker gets the lock in its turn (the lock is
\* a queue, and checks only try).  The check worker checks periodically; where
\* the provider has no checks, CheckGate is never enabled and nothing is assumed
\* of it.  Nothing is assumed of the user.
FairSpec ==
    /\ Spec
    /\ \A d \in Device : /\ WF_vars(Step(d))
                         /\ SF_vars(PushWorker(d))
                         /\ WF_vars(CheckWorker(d))
                         /\ WF_vars(BackoffEnds(d))

-----------------------------------------------------------------------------
(* Properties. *)

\* The baseline a device records was one revision of the store: whatever it
\* takes for synchronised, after edits during a push, concurrent uploads,
\* failures and restarts, was stored under the revision it recorded with it
\* (push_snapshot and pull_snapshot_locked save the hash of the envelope, not
\* of the configuration at that time).
BaselineWasStored ==
    \A d \in Device :
        state[d].synced # None =>
            [rev |-> state[d].applied, hash |-> state[d].synced] \in published

\* The snapshot a check, a pull or a recovery would find, or None.
Restorable(rm) ==
    LET p == load_sync_pointer(rm)
        c == read_current_sync_snapshot_compat(rm)
    IN  IF p # None /\ Validates(p, ObjectAt(rm, p.rev)) THEN ObjectAt(rm, p.rev) ELSE c

\* While some device counts on the store, the store can be restored from:
\* neither a migration, nor the clean-up of the legacy objects, nor a failure
\* or restart half-way leaves it without a readable snapshot.
StoreRestorable ==
    (\E d \in Device : state[d].synced # None) => Restorable(remote) # None

\* Nobody is left looking at an operation that no longer runs: while the status
\* says "running", an operation holds the lock, or a caller whose operation has
\* freed it is still to show how it ended or to start its repair (record_failure
\* gives up only while a conflict is shown; a check's transient failure takes
\* handle_runtime_check_failure to the end).
RunningIsBacked ==
    \A d \in Device :
        status[d] = "running" =>
            \/ Busy(d)
            \/ \E c \in Callers :
                   caller[d][c].pc \in {"repair", "failure", "show", "transient", "quiet"}

\* A push that was not forced by a conflict resolution replaces only a revision
\* the device has applied.
PushSeesRemote ==
    [][\A d \in Device :
          (Upload(d) /\ op[d].kind = "push" /\ ~Forced(op[d])) =>
              \/ load_sync_pointer(remote) = None
              \/ load_sync_pointer(remote).rev = state[d].applied]_vars

\* Changes do not stay on one device unnoticed: once somebody has edited, again
\* and again each enabled device has synchronised what is on its disk, shows a
\* conflict or failure, or waits for a settings change after an error that no
\* retry cures (the push worker serves every permit and pushes again after a
\* transient failure).  Another operation that succeeds between the failure of a
\* push and the push worker's second look at the gate takes the retry away.
\* What is left then is that checks go on to say what they find; where there are
\* none, nothing is left once the user has pushed by hand.
EditsAreSynced ==
    \A d \in Device :
        []<>(\/ ~settings[d].enabled
             \/ budget.edits = 0
             \/ ~settings[d].checks /\ budget.commands > 0
             \/ local[d] = state[d].synced
             \/ status[d] \in {"conflict", "failed"}
             \/ status[d] = "notice"
             \/ retry[d] = "suspended")

\* Devices do not drift apart unnoticed: again and again every device has what
\* the store holds, or one of them shows what a check has found, a conflict or a
\* failure, or waits for a settings change after one.
Convergence ==
    []<>(\/ \A d \in Device : Restorable(remote) # None => local[d] = Restorable(remote).hash
         \/ \E d \in Device : \/ ~settings[d].enabled
                              \/ status[d] \in {"notice", "conflict", "failed"}
                              \/ retry[d] = "suspended")
=============================================================================

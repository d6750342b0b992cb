-------------------------- MODULE CloudSyncProofs --------------------------
(***************************************************************************)
(* Proofs about CloudSync, for any number of devices, sections and values, *)
(* any commands and any bounds on the environment.                         *)
(***************************************************************************)
EXTENDS CloudSync, FiniteSetTheorems, TLAPS

(* What an operation carries at each of its awaits.                         *)
OpShape(o) ==
    /\ o.pc \in {"resolve", "compat", "migrate", "reverify"} =>
           /\ o.kind \in {"push", "pull", "check"}
           /\ o.ptr \in Snapshot
           /\ o.env \in Config
           /\ o.kind = "push" => o.ptr.hash = o.env
    /\ o.pc \in {"migrate", "reverify", "verify", "commit", "apply", "refresh", "save"} =>
           o.snap \in Snapshot
    /\ o.pc = "upload" => IF o.kind = "push" THEN o.env \in Config ELSE o.snap \in Snapshot
    /\ o.pc = "load" => /\ o.kind \in {"push", "pull", "check"}
                        /\ o.kind # "pull" => o.env \in Config
    /\ o.pc = "read_current" => o.kind = "recover"
    /\ Forced(o) => o.kind = "push"
    /\ o.pc = "apply" => o.done < Sections
    /\ o.pc \notin {"apply", "refresh", "save"} => o.done = 0

Shapes == \A d \in Device : OpShape(op[d])

(* TypeOK in three parts, each with what its induction needs: the store, the *)
(* operations with their callers and what is shown, and everything else.     *)
StoreT ==
    /\ remote \in [stable: Snapshot \cup {None}, latest: Snapshot \cup {None},
                   current: Snapshot \cup {None}, snapshots: SUBSET Snapshot]
    /\ published \subseteq Snapshot
    /\ IsFiniteSet(published)

ControlT ==
    /\ op \in [Device -> Operation]
    /\ status \in [Device -> Statuses]
    /\ caller \in [Device -> [Callers -> [pc: CallerPcs, retryable: BOOLEAN]]]
    /\ pending \in [Device -> BOOLEAN]
    /\ Shapes

RestT ==
    /\ local \in [Device -> Config]
    /\ state \in [Device -> [synced: Config \cup {None}, applied: Revision \cup {None}]]
    /\ settings \in [Device -> [enabled: BOOLEAN, checks: BOOLEAN]]
    /\ retry \in [Device -> {"run", "wait", "suspended"}]
    /\ gc \in [Device -> SUBSET {"current", "latest", "snapshots"}]
    /\ budget \in [edits: 0..MaxEdits, commands: 0..MaxCommands,
                   failures: 0..MaxFailures, crashes: 0..MaxCrashes]

TInv == StoreT /\ ControlT /\ RestT

-----------------------------------------------------------------------------
(* The initial states.                                                      *)

(* The configurations of the initial stores are configurations.             *)
LEMMA InitialConfigs == DefaultConfig \in Config /\ LegacyConfig \in Config
<1>1. DefaultConfig \in Config
  BY CloudSyncAssumption DEF DefaultConfig, Config
<1>2. \E c \in Config : c # DefaultConfig \/ Config = {DefaultConfig}
  BY <1>1
<1> QED BY <1>1, <1>2 DEF LegacyConfig

(* The object under a path is a snapshot, if there is one.                   *)
LEMMA ObjectType ==
    ASSUME StoreT, NEW r
    PROVE  /\ ObjectAt(remote, r) \in Snapshot \cup {None}
           /\ load_sync_pointer(remote) \in Snapshot \cup {None}
           /\ read_current_sync_snapshot_compat(remote) \in Snapshot \cup {None}
<1>1. ASSUME \E s \in remote.snapshots : s.rev = r
      PROVE  (CHOOSE s \in remote.snapshots : s.rev = r) \in Snapshot
  BY <1>1 DEF StoreT
<1> QED BY <1>1 DEF StoreT, ObjectAt, load_sync_pointer, read_current_sync_snapshot_compat

(* The initial store holds snapshots, finitely many.                        *)
LEMMA InitStore == Init => StoreT
<1> SUFFICES ASSUME NEW l \in Layouts,
                    remote = InitialStore(l),
                    published = remote.snapshots \cup ({remote.stable} \ {None})
             PROVE  StoreT
  BY DEF Init
<1> DEFINE s1 == [rev |-> 1, hash |-> LegacyConfig]
           s0 == [rev |-> NamedRev, hash |-> LegacyConfig]
           sd == [rev |-> 1, hash |-> DefaultConfig]
<1>1. s1 \in Snapshot /\ s0 \in Snapshot /\ sd \in Snapshot
  BY InitialConfigs DEF Snapshot, Revision, NamedRev
<1>2. l \in {"empty", "shared", "legacy", "dangling", "named"}
  BY CloudSyncAssumption
<1> HIDE DEF s1, s0, sd
<1>3. /\ remote \in [stable: Snapshot \cup {None}, latest: Snapshot \cup {None},
                     current: Snapshot \cup {None}, snapshots: SUBSET Snapshot]
      /\ remote.snapshots \in {{}, {s0}, {s1}}
  <2>1. CASE l = "empty"
    BY <2>1 DEF InitialStore, EmptyStore
  <2>2. CASE l = "shared"
    <3>1. remote = [EmptyStore EXCEPT !.stable = sd]
      BY <2>2 DEF InitialStore, sd
    <3> QED BY <3>1, <1>1 DEF EmptyStore
  <2>3. CASE l = "legacy"
    <3>1. remote = LegacyStore(s1)
      BY <2>3 DEF InitialStore, s1
    <3> QED BY <3>1, <1>1 DEF LegacyStore
  <2>4. CASE l = "named"
    <3>1. remote = LegacyStore(s0)
      BY <2>4 DEF InitialStore, s0
    <3> QED BY <3>1, <1>1 DEF LegacyStore
  <2>5. CASE l = "dangling"
    <3>1. remote = [EmptyStore EXCEPT !.latest = sd]
      BY <2>5 DEF InitialStore, sd
    <3> QED BY <3>1, <1>1 DEF EmptyStore
  <2> QED BY <1>2, <2>1, <2>2, <2>3, <2>4, <2>5
<1>4. published \subseteq Snapshot
  BY <1>3
<1>5. IsFiniteSet(remote.snapshots)
  <2>1. IsFiniteSet({}) /\ IsFiniteSet({s0}) /\ IsFiniteSet({s1})
    BY FS_EmptySet, FS_Singleton, Zenon
  <2> QED BY <1>3, <2>1
<1>6. IsFiniteSet({remote.stable} \ {None})
  <2>1. IsFiniteSet({remote.stable})
    BY FS_Singleton, Zenon
  <2> QED BY <2>1, FS_Difference
<1>7. IsFiniteSet(published)
  BY <1>5, <1>6, FS_Union
<1> QED BY <1>3, <1>4, <1>7 DEF StoreT

(* An operation that starts.                                                *)
LEMMA NewOpType ==
    ASSUME NEW k \in Kinds, NEW t \in Triggers, NEW pc \in {"load", "read_current", "test"},
           NEW c \in Config \cup {None},
           pc = "load" => k \in {"push", "pull", "check"} /\ (k # "pull" => c \in Config),
           pc = "read_current" => k = "recover",
           t \in {"resolve_upload", "repair_missing_remote"} => k = "push"
    PROVE  NewOp(k, t, pc, c) \in Operation /\ OpShape(NewOp(k, t, pc, c))
  BY CloudSyncAssumption DEF Operation, OpShape, Forced, Pcs, NewOp

(* A fresh operation carries nothing.                                       *)
LEMMA NoOpType == NoOp \in Operation /\ OpShape(NoOp)
  BY CloudSyncAssumption DEF NoOp, NewOp, Operation, OpShape, Forced, Kinds, Triggers, Pcs

(* Nothing runs initially.                                                  *)
LEMMA InitRest == Init => ControlT /\ RestT
<1> SUFFICES ASSUME Init PROVE ControlT /\ RestT
  OBVIOUS
<1>1. ControlT
  BY NoOpType DEF Init, ControlT, Shapes, Statuses, NoCall, CallerPcs
<1>2. RestT
  <2>1. local \in [Device -> Config] /\ gc \in [Device -> SUBSET {"current", "latest", "snapshots"}]
    BY InitialConfigs DEF Init
  <2>2. state \in [Device -> [synced: Config \cup {None}, applied: Revision \cup {None}]]
    BY InitialConfigs DEF Init, Revision
  <2>3. settings \in [Device -> [enabled: BOOLEAN, checks: BOOLEAN]]
    BY CloudSyncAssumption DEF Init
  <2>4. retry \in [Device -> {"run", "wait", "suspended"}]
    BY DEF Init
  <2>5. budget \in [edits: 0..MaxEdits, commands: 0..MaxCommands,
                    failures: 0..MaxFailures, crashes: 0..MaxCrashes]
    BY CloudSyncAssumption DEF Init
  <2> QED BY <2>1, <2>2, <2>3, <2>4, <2>5 DEF RestT
<1> QED BY <1>1, <1>2

-----------------------------------------------------------------------------
(* The operations and what the user is shown.                               *)

(* An operation is replaced by one of the right shape.                      *)
LEMMA OpUpdate ==
    ASSUME ControlT, NEW d \in Device, NEW o \in Operation, OpShape(o),
           op' = [op EXCEPT ![d] = o]
    PROVE  op' \in [Device -> Operation] /\ Shapes'
<1>1. op' \in [Device -> Operation]
  BY DEF ControlT
<1>2. ASSUME NEW e \in Device PROVE OpShape(op'[e])
  BY DEF ControlT, Shapes
<1> QED BY <1>1, <1>2 DEF Shapes, OpShape

(* The operation of a device has its type and its shape.                    *)
LEMMA OpOf ==
    ASSUME ControlT, NEW d \in Device
    PROVE  op[d] \in Operation /\ OpShape(op[d])
  BY DEF ControlT, Shapes

(* A caller takes its stand.                                                *)
LEMMA StandType ==
    ASSUME ControlT, NEW d \in Device, NEW c \in Callers, NEW pc \in CallerPcs,
           Stand(d, c, pc)
    PROVE  caller' \in [Device -> [Callers -> [pc: CallerPcs, retryable: BOOLEAN]]]
<1>1. [caller[d][c] EXCEPT !.pc = pc] \in [pc: CallerPcs, retryable: BOOLEAN]
  <2> DEFINE x == caller[d][c]
  <2>1. x \in [pc: CallerPcs, retryable: BOOLEAN]
    BY DEF ControlT
  <2> HIDE DEF x
  <2>2. [x EXCEPT !.pc = pc] \in [pc: CallerPcs, retryable: BOOLEAN]
    BY <2>1
  <2> QED BY <2>2 DEF x
<1>2. caller' = [caller EXCEPT ![d][c] = [caller[d][c] EXCEPT !.pc = pc]]
  BY DEF Stand, ControlT
<1> QED BY <1>1, <1>2 DEF ControlT

(* A caller leaves.                                                         *)
LEMMA LeaveType ==
    ASSUME ControlT, NEW d \in Device, NEW c \in Callers, Leave(d, c)
    PROVE  caller' \in [Device -> [Callers -> [pc: CallerPcs, retryable: BOOLEAN]]]
<1>1. NoCall \in [pc: CallerPcs, retryable: BOOLEAN]
  BY DEF NoCall, CallerPcs
<1> QED BY <1>1 DEF Leave, ControlT

(* The lock is freed and the caller goes on.                                *)
LEMMA ReturnType ==
    ASSUME ControlT, NEW d \in Device, NEW pc \in CallerPcs, NEW b \in BOOLEAN,
           Return(d, pc, b)
    PROVE  /\ op' = [op EXCEPT ![d] = NoOp]
           /\ op' \in [Device -> Operation] /\ Shapes'
           /\ caller' \in [Device -> [Callers -> [pc: CallerPcs, retryable: BOOLEAN]]]
<1>1. op' = [op EXCEPT ![d] = NoOp]
  BY DEF Return
<1>2. op' \in [Device -> Operation] /\ Shapes'
  BY <1>1, OpUpdate, NoOpType
<1>3. caller' \in [Device -> [Callers -> [pc: CallerPcs, retryable: BOOLEAN]]]
  <2> DEFINE k == CallerOf(op[d].trigger)
             v == [pc |-> pc, retryable |-> b]
  <2>1. caller' = [caller EXCEPT ![d][k] = v]
    BY DEF Return
  <2>2. v \in [pc: CallerPcs, retryable: BOOLEAN]
    OBVIOUS
  <2> HIDE DEF k, v
  <2> QED BY <2>1, <2>2 DEF ControlT
<1> QED BY <1>1, <1>2, <1>3

(* The ways an operation ends keep the types, and free the lock.            *)
LEMMA EndType ==
    ASSUME ControlT, NEW d \in Device,
           Succeed(d, "idle") \/ Notice(d) \/ EndInConflict(d) \/ \E e : Fail(d, e)
    PROVE  /\ ControlT'
           /\ op' = [op EXCEPT ![d] = NoOp]
<1>1. CASE Succeed(d, "idle") \/ Notice(d)
  <2>1. PICK shown \in {"idle", "notice"} : Succeed(d, shown)
    BY <1>1 DEF Notice
  <2>2. Return(d, "reset", FALSE) /\ "reset" \in CallerPcs
    BY <2>1 DEF Succeed, CallerPcs
  <2> QED BY <2>1, <2>2, ReturnType DEF Succeed, ControlT, Statuses
<1>2. CASE EndInConflict(d)
  <2>1. PICK pc \in {"reset", "failure"} : Return(d, pc, FALSE)
    BY <1>2 DEF EndInConflict
  <2>2. pc \in CallerPcs
    BY DEF CallerPcs
  <2> QED BY <1>2, <2>1, <2>2, ReturnType DEF EndInConflict, ControlT, Statuses
<1>3. CASE \E e : Fail(d, e)
  <2>1. PICK e : Fail(d, e)
    BY <1>3
  <2>2. PICK pc \in {"repair", "transient", "failure"} : Return(d, pc, e = "io")
    BY <2>1 DEF Fail
  <2>3. pc \in CallerPcs /\ (e = "io") \in BOOLEAN
    BY DEF CallerPcs
  <2> QED BY <2>1, <2>2, <2>3, ReturnType DEF Fail, ControlT
<1> QED BY <1>1, <1>2, <1>3

(* A device records a baseline.                                             *)
LEMMA SaveStateType ==
    ASSUME RestT, NEW d \in Device, NEW h \in Config, NEW r \in Revision, SaveState(d, h, r)
    PROVE  state' \in [Device -> [synced: Config \cup {None}, applied: Revision \cup {None}]]
  BY DEF SaveState, RestT

(* The environment uses up one of its bounds.                               *)
LEMMA SpendType ==
    ASSUME RestT
    PROVE  /\ Spend("edits", MaxEdits) \/ Spend("commands", MaxCommands)
                \/ Spend("failures", MaxFailures) \/ Spend("crashes", MaxCrashes)
              => budget' \in [edits: 0..MaxEdits, commands: 0..MaxCommands,
                              failures: 0..MaxFailures, crashes: 0..MaxCrashes]
<1>0. /\ {MaxEdits, MaxCommands, MaxFailures, MaxCrashes} \subseteq Nat
      /\ budget \in [edits: 0..MaxEdits, commands: 0..MaxCommands,
                     failures: 0..MaxFailures, crashes: 0..MaxCrashes]
  BY CloudSyncAssumption DEF RestT
<1>1. ASSUME NEW what, NEW max, Spend(what, max)
      PROVE  budget[what] < max /\ budget' = [budget EXCEPT ![what] = budget[what] + 1]
  BY <1>1 DEF Spend
<1>2. CASE Spend("edits", MaxEdits)
  BY <1>0, <1>1, <1>2
<1>3. CASE Spend("commands", MaxCommands)
  BY <1>0, <1>1, <1>3
<1>4. CASE Spend("failures", MaxFailures)
  BY <1>0, <1>1, <1>4
<1>5. CASE Spend("crashes", MaxCrashes)
  BY <1>0, <1>1, <1>5
<1> QED BY <1>2, <1>3, <1>4, <1>5

(* The store already has what is on the disk.                               *)
LEMMA UpToDateType ==
    ASSUME ControlT, RestT, NEW d \in Device, UpToDate(d),
           op[d].pc \in {"resolve", "compat", "migrate", "reverify"}
    PROVE  /\ ControlT'
           /\ state' \in [Device -> [synced: Config \cup {None}, applied: Revision \cup {None}]]
<1>1. op[d].ptr \in Snapshot /\ op[d].env \in Config
  BY OpOf DEF OpShape, Forced
<1>2. op[d].ptr.rev \in Revision
  BY <1>1 DEF Snapshot
<1> QED BY <1>1, <1>2, EndType, SaveStateType DEF UpToDate

(* A pull starts to apply the snapshot it resolved.                         *)
LEMMA ResolvedForPullType ==
    ASSUME ControlT, RestT, NEW d \in Device, NEW s \in Snapshot, ResolvedForPull(d, s),
           op[d].pc \in {"resolve", "compat", "migrate", "reverify"}
    PROVE  /\ ControlT'
           /\ state' \in [Device -> [synced: Config \cup {None}, applied: Revision \cup {None}]]
<1>1. CASE UpToDate(d)
  BY <1>1, UpToDateType
<1>2. CASE /\ op' = [op EXCEPT ![d].pc = "apply", ![d].snap = s]
           /\ UNCHANGED <<state, status, caller, pending>>
  <2> DEFINE o == [op[d] EXCEPT !.pc = "apply", !.snap = s]
  <2>1. op' = [op EXCEPT ![d] = o]
    BY <1>2 DEF ControlT
  <2>2. o \in Operation
    <3>1. op[d] \in Operation
      BY OpOf
    <3>2. "apply" \in Pcs
      BY DEF Pcs
    <3> QED BY <3>1, <3>2 DEF Operation
  <2>3. OpShape(o)
    <3>1. op[d] \in Operation /\ OpShape(op[d]) /\ op[d].done = 0
      BY OpOf DEF OpShape
    <3> QED BY <3>1, CloudSyncAssumption DEF OpShape, Forced, Operation
  <2> HIDE DEF o
  <2>4. op' \in [Device -> Operation] /\ Shapes'
    BY <2>1, <2>2, <2>3, OpUpdate
  <2> QED BY <1>2, <2>4 DEF ControlT, RestT
<1> QED BY <1>1, <1>2 DEF ResolvedForPull

(* A check ends, or turns into an automatic pull.                           *)
LEMMA ResolvedForCheckType ==
    ASSUME ControlT, RestT, NEW d \in Device, ResolvedForCheck(d),
           op[d].pc \in {"resolve", "compat", "migrate", "reverify"}
    PROVE  /\ ControlT'
           /\ state' \in [Device -> [synced: Config \cup {None}, applied: Revision \cup {None}]]
<1>0. state \in [Device -> [synced: Config \cup {None}, applied: Revision \cup {None}]]
  BY DEF RestT
<1>1. CASE UpToDate(d)
  BY <1>1, UpToDateType
<1>2. CASE EndInConflict(d) /\ UNCHANGED state
  BY <1>0, <1>2, EndType
<1>3. CASE /\ op' = [op EXCEPT ![d] = NewOp("pull", "auto_pull_remote", "load", None)]
           /\ status' = [status EXCEPT ![d] = "running"]
           /\ UNCHANGED <<state, caller, pending>>
  <2>1. "pull" \in Kinds /\ "auto_pull_remote" \in Triggers
    BY DEF Kinds, Triggers
  <2>2. op' \in [Device -> Operation] /\ Shapes'
    BY <1>3, <2>1, NewOpType, OpUpdate
  <2> QED BY <1>0, <1>3, <2>2 DEF ControlT, Statuses
<1>4. CASE Fail(d, "config") /\ UNCHANGED state
  BY <1>0, <1>4, EndType
<1>5. CASE Notice(d) /\ UNCHANGED state
  BY <1>0, <1>5, EndType
<1> QED BY <1>1, <1>2, <1>3, <1>4, <1>5 DEF ResolvedForCheck

(* The three operations that resolve a pointer.                             *)
LEMMA ResolvedType ==
    ASSUME ControlT, RestT, NEW d \in Device, NEW s \in Snapshot, Resolved(d, s),
           op[d].pc \in {"resolve", "compat", "migrate", "reverify"}
    PROVE  /\ ControlT'
           /\ state' \in [Device -> [synced: Config \cup {None}, applied: Revision \cup {None}]]
  BY UpToDateType, ResolvedForPullType, ResolvedForCheckType DEF Resolved

-----------------------------------------------------------------------------
(* The steps of an operation keep the types.                                *)

(* Load: the pointer is taken over.                                         *)
LEMMA LoadType ==
    ASSUME TInv, NEW d \in Device, Load(d)
    PROVE  TInv'
<1> DEFINE p == load_sync_pointer(remote)
<1>1. p \in Snapshot \cup {None}
  BY ObjectType DEF TInv
<1>2. op[d] \in Operation /\ OpShape(op[d]) /\ op[d].pc = "load"
  BY OpOf DEF TInv, Load, At
<1>3. StoreT' /\ RestT'
  BY DEF TInv, Load, Store, Disk, StoreT, RestT
<1>4. op[d].done = 0
  BY <1>2 DEF OpShape, Forced
<1>5. LoadForPush(d, p) \/ LoadForPull(d, p) \/ LoadForCheck(d, p)
  BY DEF Load
<1> HIDE DEF p
<1>6. ControlT'
  <2>1. CASE LoadForPush(d, p)
    <3> DEFINE q == IF p # None /\ p.hash = op[d].env THEN "resolve" ELSE "upload"
               o == [op[d] EXCEPT !.ptr = p, !.pc = q]
    <3>1. op' = [op EXCEPT ![d] = o]
      BY <2>1 DEF LoadForPush, ControlT, TInv
    <3>2. o \in Operation
      BY <1>1, <1>2 DEF Operation, Pcs
    <3>3. OpShape(o)
      BY <1>1, <1>2, <1>4, <2>1 DEF OpShape, Forced, Operation, LoadForPush
    <3> HIDE DEF o
    <3>4. op' \in [Device -> Operation] /\ Shapes'
      BY <3>1, <3>2, <3>3, OpUpdate DEF TInv
    <3> QED BY <2>1, <3>4 DEF LoadForPush, ControlT, TInv
  <2>2. CASE LoadForPull(d, p)
    <3>1. CASE Fail(d, "config")
      BY <3>1, EndType DEF TInv
    <3>2. CASE /\ p # None
               /\ op' = [op EXCEPT ![d].ptr = p, ![d].pc = "resolve", ![d].env = local[d]]
               /\ UNCHANGED <<status, caller, pending>>
      <4> DEFINE o == [op[d] EXCEPT !.ptr = p, !.pc = "resolve", !.env = local[d]]
      <4>1. op' = [op EXCEPT ![d] = o]
        BY <3>2 DEF ControlT, TInv
      <4>2. local[d] \in Config
        BY DEF TInv, RestT
      <4>3. o \in Operation
        BY <1>1, <1>2, <4>2 DEF Operation, Pcs
      <4>4. OpShape(o)
        BY <1>1, <1>2, <1>4, <2>2, <3>2, <4>2 DEF OpShape, Forced, Operation, LoadForPull
      <4> HIDE DEF o
      <4>5. op' \in [Device -> Operation] /\ Shapes'
        BY <4>1, <4>3, <4>4, OpUpdate DEF TInv
      <4> QED BY <3>2, <4>5 DEF ControlT, TInv
    <3> QED BY <2>2, <3>1, <3>2 DEF LoadForPull
  <2>3. CASE LoadForCheck(d, p)
    <3>1. CASE Notice(d)
      BY <3>1, EndType DEF TInv
    <3>2. CASE /\ p # None
               /\ op' = [op EXCEPT ![d].ptr = p, ![d].pc = "resolve"]
               /\ UNCHANGED <<status, caller, pending>>
      <4> DEFINE o == [op[d] EXCEPT !.ptr = p, !.pc = "resolve"]
      <4>1. op' = [op EXCEPT ![d] = o]
        BY <3>2 DEF ControlT, TInv
      <4>2. o \in Operation
        BY <1>1, <1>2 DEF Operation, Pcs
      <4>3. OpShape(o)
        BY <1>1, <1>2, <1>4, <2>3, <3>2 DEF OpShape, Forced, Operation, LoadForCheck
      <4> HIDE DEF o
      <4>4. op' \in [Device -> Operation] /\ Shapes'
        BY <4>1, <4>2, <4>3, OpUpdate DEF TInv
      <4> QED BY <3>2, <4>4 DEF ControlT, TInv
    <3> QED BY <2>3, <3>1, <3>2 DEF LoadForCheck
  <2> QED BY <1>5, <2>1, <2>2, <2>3
<1> QED BY <1>3, <1>6 DEF TInv

(* An operation moves on: op[d] becomes o, nothing is shown.                *)
LEMMA MoveType ==
    ASSUME ControlT, NEW d \in Device, NEW o \in Operation, OpShape(o),
           op' = [op EXCEPT ![d] = o], UNCHANGED <<status, caller, pending>>
    PROVE  ControlT'
<1>1. op' \in [Device -> Operation] /\ Shapes'
  BY OpUpdate
<1> QED BY <1>1 DEF ControlT

(* Uploading a snapshot keeps the store a store.                            *)
LEMMA UploadType ==
    ASSUME StoreT, NEW s \in Snapshot,
           remote' = upload_sync_snapshot(remote, s),
           published' = published \cup {s}
    PROVE  StoreT'
<1>1. IsFiniteSet(published')
  BY FS_AddElement DEF StoreT
<1>2. /\ remote' \in [stable: Snapshot \cup {None}, latest: Snapshot \cup {None},
                      current: Snapshot \cup {None}, snapshots: SUBSET Snapshot]
      /\ published' \subseteq Snapshot
  BY DEF StoreT, upload_sync_snapshot
<1> QED BY <1>1, <1>2 DEF StoreT

(* Resolve: the snapshot is found, or the fallback is tried.                *)
LEMMA ResolveType ==
    ASSUME TInv, NEW d \in Device, Resolve(d)
    PROVE  TInv'
<1> DEFINE s == ObjectAt(remote, op[d].ptr.rev)
<1>1. s \in Snapshot \cup {None}
  BY ObjectType DEF TInv
<1>2. op[d] \in Operation /\ OpShape(op[d]) /\ op[d].pc = "resolve"
  BY OpOf DEF TInv, Resolve, At
<1>3. StoreT' /\ UNCHANGED <<local, settings, retry, gc, budget>>
  BY DEF TInv, Resolve, Store, StoreT
<1>4. CASE Validates(op[d].ptr, s)
  <2>1. s \in Snapshot /\ Resolved(d, s)
    BY <1>1, <1>4 DEF Resolve, Validates
  <2> HIDE DEF s
  <2>2. ControlT'
    BY <1>2, <2>1, ResolvedType DEF TInv
  <2>3. RestT'
    BY <1>2, <1>3, <2>1, ResolvedType DEF TInv, RestT
  <2> QED BY <1>3, <2>2, <2>3 DEF TInv
<1>5. CASE ~Validates(op[d].ptr, s)
  <2> DEFINE e == IF s = None THEN "missing" ELSE "mismatch"
             o == [op[d] EXCEPT !.pc = "compat", !.err = e]
  <2>0. /\ op' = [op EXCEPT ![d].pc = "compat", ![d].err = e]
        /\ UNCHANGED <<state, status, caller, pending>>
    BY <1>5 DEF Resolve
  <2>1. e \in {"none", "missing", "mismatch"}
    OBVIOUS
  <2> HIDE DEF s, e
  <2>2. op' = [op EXCEPT ![d] = o]
    BY <2>0 DEF ControlT, TInv
  <2>3. o \in Operation
    BY <1>2, <2>1 DEF Operation, Pcs
  <2>4. OpShape(o)
    BY <1>2, <2>1 DEF OpShape, Forced, Operation
  <2> HIDE DEF o
  <2>5. ControlT'
    BY <2>0, <2>2, <2>3, <2>4, MoveType DEF TInv
  <2>6. RestT'
    BY <1>3, <2>0 DEF TInv, RestT
  <2> QED BY <1>3, <2>5, <2>6 DEF TInv
<1> QED BY <1>4, <1>5

(* Compat: the current copy is taken for the missing snapshot.              *)
LEMMA CompatType ==
    ASSUME TInv, NEW d \in Device, Compat(d)
    PROVE  TInv'
<1> DEFINE c == read_current_sync_snapshot_compat(remote)
<1>1. c \in Snapshot \cup {None}
  BY ObjectType DEF TInv
<1>2. op[d] \in Operation /\ OpShape(op[d]) /\ op[d].pc = "compat"
  BY OpOf DEF TInv, Compat, At
<1>3. StoreT' /\ UNCHANGED <<local, settings, retry, gc, budget>>
  BY DEF TInv, Compat, Store, StoreT
<1>4. \/ UpToDate(d)
      \/ Fail(d, op[d].err) /\ UNCHANGED state
      \/ /\ Validates(op[d].ptr, c)
         /\ op' = [op EXCEPT ![d] = [op[d] EXCEPT !.pc = "migrate", !.snap = c]]
         /\ UNCHANGED <<state, status, caller, pending>>
      \/ EndInConflict(d) /\ UNCHANGED state
  BY DEF Compat
<1> HIDE DEF c
<1>5. /\ ControlT'
      /\ state' \in [Device -> [synced: Config \cup {None}, applied: Revision \cup {None}]]
  <2>0. state \in [Device -> [synced: Config \cup {None}, applied: Revision \cup {None}]]
    BY DEF TInv, RestT
  <2>1. CASE UpToDate(d)
    BY <1>2, <2>1, UpToDateType DEF TInv
  <2>2. CASE Fail(d, op[d].err) /\ UNCHANGED state
    BY <2>0, <2>2, EndType DEF TInv
  <2>3. CASE /\ Validates(op[d].ptr, c)
             /\ op' = [op EXCEPT ![d] = [op[d] EXCEPT !.pc = "migrate", !.snap = c]]
             /\ UNCHANGED <<state, status, caller, pending>>
    <3> DEFINE o == [op[d] EXCEPT !.pc = "migrate", !.snap = c]
    <3>1. c \in Snapshot
      BY <1>1, <2>3 DEF Validates
    <3>2. o \in Operation
      BY <1>2, <3>1 DEF Operation, Pcs
    <3>3. OpShape(o)
      BY <1>2, <3>1 DEF OpShape, Forced, Operation
    <3>4. op' = [op EXCEPT ![d] = o]
      BY <2>3
    <3> HIDE DEF o
    <3> QED BY <2>0, <2>3, <3>2, <3>3, <3>4, MoveType DEF TInv
  <2>4. CASE EndInConflict(d) /\ UNCHANGED state
    BY <2>0, <2>4, EndType DEF TInv
  <2> QED BY <1>4, <2>1, <2>2, <2>3, <2>4
<1>6. RestT'
  BY <1>3, <1>5 DEF TInv, RestT
<1> QED BY <1>3, <1>5, <1>6 DEF TInv

(* Migrate: the current copy is stored under the new path.                  *)
LEMMA MigrateType ==
    ASSUME TInv, NEW d \in Device, Migrate(d)
    PROVE  TInv'
<1>1. op[d] \in Operation /\ OpShape(op[d]) /\ op[d].pc = "migrate"
  BY OpOf DEF TInv, Migrate, At
<1>2. op[d].snap \in Snapshot
  BY <1>1 DEF OpShape, Forced
<1>3. StoreT'
  BY <1>2, UploadType DEF Migrate, TInv
<1> DEFINE o == [op[d] EXCEPT !.pc = "reverify"]
<1>4. op' = [op EXCEPT ![d] = o]
  BY DEF Migrate, Goto, TInv, ControlT
<1>5. o \in Operation /\ OpShape(o)
  BY <1>1 DEF Operation, Pcs, OpShape, Forced
<1> HIDE DEF o
<1>6. ControlT'
  BY <1>4, <1>5, MoveType DEF Migrate, TInv
<1>7. RestT'
  BY DEF Migrate, TInv, RestT, Disk
<1> QED BY <1>3, <1>6, <1>7 DEF TInv

(* Reverify: the migrated snapshot is read back.                            *)
LEMMA ReverifyType ==
    ASSUME TInv, NEW d \in Device, Reverify(d)
    PROVE  TInv'
<1>1. op[d] \in Operation /\ OpShape(op[d]) /\ op[d].pc = "reverify"
  BY OpOf DEF TInv, Reverify, At
<1>2. op[d].snap \in Snapshot
  BY <1>1 DEF OpShape, Forced
<1>3. StoreT' /\ UNCHANGED <<local, settings, retry, gc, budget>>
  BY DEF TInv, Reverify, Store, StoreT
<1>4. \/ Resolved(d, op[d].snap)
      \/ \E e \in {"missing", "mismatch"} : Fail(d, e) /\ UNCHANGED state
  BY DEF Reverify
<1>5. /\ ControlT'
      /\ state' \in [Device -> [synced: Config \cup {None}, applied: Revision \cup {None}]]
  <2>1. CASE Resolved(d, op[d].snap)
    BY <1>1, <1>2, <2>1, ResolvedType DEF TInv
  <2>2. ASSUME NEW e \in {"missing", "mismatch"}, Fail(d, e) /\ UNCHANGED state
        PROVE  /\ ControlT'
               /\ state' \in [Device -> [synced: Config \cup {None},
                                         applied: Revision \cup {None}]]
    BY <2>2, EndType DEF TInv, RestT
  <2> QED BY <1>4, <2>1, <2>2
<1>6. RestT'
  BY <1>3, <1>5 DEF TInv, RestT
<1> QED BY <1>3, <1>5, <1>6 DEF TInv

(* ReadCurrent: a recovery takes what there is.                             *)
LEMMA ReadCurrentType ==
    ASSUME TInv, NEW d \in Device, ReadCurrent(d)
    PROVE  TInv'
<1> DEFINE c == read_current_sync_snapshot_compat(remote)
<1>1. c \in Snapshot \cup {None}
  BY ObjectType DEF TInv
<1>2. op[d] \in Operation /\ OpShape(op[d]) /\ op[d].pc = "read_current"
  BY OpOf DEF TInv, ReadCurrent, At
<1>3. StoreT' /\ RestT'
  BY DEF TInv, ReadCurrent, Store, Disk, StoreT, RestT
<1>4. CASE c = None
  BY <1>3, <1>4, EndType DEF TInv, ReadCurrent
<1>5. CASE c # None
  <2>1. /\ op' = [op EXCEPT ![d].pc = "upload", ![d].snap = c]
        /\ UNCHANGED <<status, caller, pending>>
    BY <1>5 DEF ReadCurrent
  <2> HIDE DEF c
  <2> DEFINE o == [op[d] EXCEPT !.pc = "upload", !.snap = c]
  <2>2. op' = [op EXCEPT ![d] = o]
    BY <2>1 DEF TInv, ControlT
  <2>3. o \in Operation /\ OpShape(o)
    BY <1>1, <1>2, <1>5 DEF Operation, Pcs, OpShape, Forced
  <2> HIDE DEF o
  <2>4. ControlT'
    BY <2>1, <2>2, <2>3, MoveType DEF TInv
  <2> QED BY <1>3, <2>4 DEF TInv
<1> QED BY <1>4, <1>5

(* A new revision is a revision: only finitely many snapshots were stored.  *)
LEMMA FreshRevType == ASSUME StoreT PROVE FreshRev \in Revision
<1>1. Cardinality(published) \in Nat
  BY FS_CardinalityType DEF StoreT
<1> QED BY <1>1 DEF FreshRev, Revision

(* Upload: the snapshot is stored before the pointer is committed.          *)
LEMMA UploadStepType ==
    ASSUME TInv, NEW d \in Device, Upload(d)
    PROVE  TInv'
<1> DEFINE s == IF op[d].kind = "push" THEN [rev |-> FreshRev, hash |-> op[d].env]
                                       ELSE op[d].snap
<1>1. op[d] \in Operation /\ OpShape(op[d]) /\ op[d].pc = "upload"
  BY OpOf DEF TInv, Upload, At
<1>2. s \in Snapshot
  BY <1>1, FreshRevType DEF OpShape, Forced, Snapshot, TInv
<1>3. /\ remote' = upload_sync_snapshot(remote, s)
      /\ published' = published \cup {s}
      /\ op' = [op EXCEPT ![d].pc = "verify", ![d].snap = s]
      /\ UNCHANGED <<status, caller, pending>>
  BY DEF Upload
<1> HIDE DEF s
<1>4. StoreT'
  BY <1>2, <1>3, UploadType DEF TInv
<1> DEFINE o == [op[d] EXCEPT !.pc = "verify", !.snap = s]
<1>5. op' = [op EXCEPT ![d] = o]
  BY <1>3 DEF TInv, ControlT
<1>6. o \in Operation /\ OpShape(o)
  BY <1>1, <1>2 DEF Operation, Pcs, OpShape, Forced
<1> HIDE DEF o
<1>7. ControlT'
  BY <1>3, <1>5, <1>6, MoveType DEF TInv
<1>8. RestT'
  BY DEF Upload, TInv, RestT, Disk
<1> QED BY <1>4, <1>7, <1>8 DEF TInv

(* Verify: what was uploaded is read back.                                  *)
LEMMA VerifyType ==
    ASSUME TInv, NEW d \in Device, Verify(d)
    PROVE  TInv'
<1>1. op[d] \in Operation /\ OpShape(op[d]) /\ op[d].pc = "verify"
  BY OpOf DEF TInv, Verify, At
<1>2. StoreT' /\ RestT'
  BY DEF TInv, Verify, Store, Disk, StoreT, RestT
<1>3. \/ Goto(d, "commit") /\ UNCHANGED <<status, caller, pending>>
      \/ \E e \in {"missing", "mismatch"} : Fail(d, e)
  BY DEF Verify
<1>4. CASE Goto(d, "commit") /\ UNCHANGED <<status, caller, pending>>
  <2> DEFINE o == [op[d] EXCEPT !.pc = "commit"]
  <2>1. op' = [op EXCEPT ![d] = o]
    BY <1>4 DEF Goto, TInv, ControlT
  <2>2. o \in Operation /\ OpShape(o)
    BY <1>1 DEF Operation, Pcs, OpShape, Forced
  <2> HIDE DEF o
  <2> QED BY <1>2, <1>4, <2>1, <2>2, MoveType DEF TInv
<1>5. CASE \E e \in {"missing", "mismatch"} : Fail(d, e)
  BY <1>2, <1>5, EndType DEF TInv
<1> QED BY <1>3, <1>4, <1>5

(* Commit: the pointer is written.                                          *)
LEMMA CommitType ==
    ASSUME TInv, NEW d \in Device, Commit(d)
    PROVE  TInv'
<1> DEFINE q == IF op[d].kind = "push" THEN "refresh" ELSE "apply"
           o == [op[d] EXCEPT !.pc = q]
<1>1. op[d] \in Operation /\ OpShape(op[d]) /\ op[d].pc = "commit"
  BY OpOf DEF TInv, Commit, At
<1>2. op[d].snap \in Snapshot /\ op[d].done = 0
  BY <1>1 DEF OpShape, Forced
<1>3. StoreT'
  BY <1>2 DEF Commit, commit_sync_pointer, StoreT, TInv
<1>4. q \in {"refresh", "apply"} /\ op' = [op EXCEPT ![d] = o]
  BY DEF Commit, Goto, TInv, ControlT
<1> HIDE DEF q
<1>5. o \in Operation
  BY <1>1, <1>4 DEF Operation, Pcs
<1>6. OpShape(o)
  BY <1>1, <1>2, <1>4, CloudSyncAssumption DEF Operation, OpShape, Forced
<1> HIDE DEF o
<1>7. ControlT'
  BY <1>4, <1>5, <1>6, MoveType DEF Commit, TInv
<1>8. RestT'
  BY DEF Commit, TInv, RestT, Disk
<1> QED BY <1>3, <1>7, <1>8 DEF TInv

(* Apply: one section is saved.                                             *)
LEMMA ApplyType ==
    ASSUME TInv, NEW d \in Device, Apply(d)
    PROVE  TInv'
<1> DEFINE s == op[d].done + 1
           q == IF s < Sections THEN "apply"
                ELSE IF op[d].kind = "pull" THEN "refresh" ELSE "save"
           o == [op[d] EXCEPT !.done = s, !.pc = q]
<1>1. op[d] \in Operation /\ OpShape(op[d]) /\ op[d].pc = "apply"
  BY OpOf DEF TInv, Apply, At
<1>2. op[d].snap \in Snapshot /\ s \in 1..Sections
  BY <1>1, CloudSyncAssumption DEF OpShape, Forced, Operation
<1>3. /\ local' = [local EXCEPT ![d][s] = op[d].snap.hash[s]]
      /\ op' = [op EXCEPT ![d].done = s, ![d].pc = q]
      /\ UNCHANGED <<status, caller, pending>>
  BY DEF Apply
<1>4. q \in {"apply", "refresh", "save"} /\ (q = "apply" => s < Sections)
  OBVIOUS
<1>5. gc' \in [Device -> SUBSET {"current", "latest", "snapshots"}]
  BY DEF Apply, CleanUpTask, TInv, RestT
<1> HIDE DEF s, q
<1>6. local' \in [Device -> Config]
  BY <1>2, <1>3 DEF TInv, RestT, Config, Snapshot
<1>7. op' = [op EXCEPT ![d] = o]
  BY <1>3 DEF TInv, ControlT
<1>8. o \in Operation
  <2>1. s \in 0..Sections /\ q \in Pcs
    BY <1>2, <1>4, CloudSyncAssumption DEF Pcs
  <2> HIDE DEF o
  <2>2. o = [op[d] EXCEPT !.done = s, !.pc = q]
    BY DEF o
  <2> QED BY <1>1, <2>1, <2>2 DEF Operation
<1>9. OpShape(o)
  BY <1>1, <1>2, <1>4 DEF Operation, OpShape, Forced
<1> HIDE DEF o
<1>10. ControlT'
  BY <1>3, <1>7, <1>8, <1>9, MoveType DEF TInv
<1>11. StoreT' /\ RestT'
  BY <1>5, <1>6 DEF Apply, TInv, StoreT, RestT, Store
<1> QED BY <1>10, <1>11 DEF TInv

(* Refresh: the current copy is written, or the failure logged.             *)
LEMMA RefreshType ==
    ASSUME TInv, NEW d \in Device, Refresh(d)
    PROVE  TInv'
<1> DEFINE o == [op[d] EXCEPT !.pc = "save"]
<1>1. op[d] \in Operation /\ OpShape(op[d]) /\ op[d].pc = "refresh"
  BY OpOf DEF TInv, Refresh, At
<1>2. op[d].snap \in Snapshot
  BY <1>1 DEF OpShape, Forced
<1>3. StoreT'
  <2>1. CASE remote' = write_current_sync_snapshot_compat(remote, op[d].snap)
    BY <1>2, <2>1 DEF Refresh, StoreT, TInv, write_current_sync_snapshot_compat,
                      upload_sync_snapshot
  <2>2. CASE UNCHANGED remote
    BY <2>2 DEF Refresh, StoreT, TInv
  <2> QED BY <2>1, <2>2 DEF Refresh
<1>4. op' = [op EXCEPT ![d] = o]
  BY DEF Refresh, Goto, TInv, ControlT
<1>5. o \in Operation /\ OpShape(o)
  BY <1>1 DEF Operation, Pcs, OpShape, Forced
<1> HIDE DEF o
<1>6. ControlT'
  BY <1>4, <1>5, MoveType DEF Refresh, TInv
<1>7. budget' \in [edits: 0..MaxEdits, commands: 0..MaxCommands,
                   failures: 0..MaxFailures, crashes: 0..MaxCrashes]
  BY SpendType DEF Refresh, CleanUpTask, TInv, RestT
<1>8. RestT'
  BY <1>7 DEF Refresh, CleanUpTask, TInv, RestT, Disk
<1> QED BY <1>3, <1>6, <1>8 DEF TInv

(* Save: the baseline is recorded.                                          *)
LEMMA SaveType ==
    ASSUME TInv, NEW d \in Device, Save(d)
    PROVE  TInv'
<1>1. op[d].snap \in Snapshot
  BY OpOf DEF TInv, Save, At, OpShape, Forced
<1>2. op[d].snap.hash \in Config /\ op[d].snap.rev \in Revision
  BY <1>1 DEF Snapshot
<1>3. state' \in [Device -> [synced: Config \cup {None}, applied: Revision \cup {None}]]
  BY <1>2, SaveStateType DEF Save, TInv
<1>4. ControlT'
  BY EndType DEF Save, TInv
<1>5. StoreT' /\ RestT'
  BY <1>3 DEF Save, TInv, StoreT, RestT, Store
<1> QED BY <1>4, <1>5 DEF TInv

(* A connection test ends.                                                  *)
LEMMA TestType ==
    ASSUME TInv, NEW d \in Device, Test(d) \/ TestShown(d)
    PROVE  TInv'
<1>1. op[d] \in Operation /\ OpShape(op[d])
  BY OpOf DEF TInv
<1>2. CASE Test(d)
  <2>1. PICK pc \in {"tested", "test_failed"} : op' = [op EXCEPT ![d].pc = pc]
    BY <1>2 DEF Test, Goto
  <2> DEFINE o == [op[d] EXCEPT !.pc = pc]
  <2>2. op' = [op EXCEPT ![d] = o]
    BY <2>1 DEF TInv, ControlT
  <2>3. o \in Operation
    BY <1>1 DEF Operation, Pcs
  <2>4. OpShape(o)
    BY <1>1, <1>2 DEF Test, At, Operation, OpShape, Forced
  <2> HIDE DEF o
  <2>5. ControlT'
    BY <1>2, <2>2, <2>3, <2>4, MoveType DEF Test, TInv
  <2>6. StoreT' /\ RestT'
    BY <1>2 DEF Test, TInv, StoreT, RestT, Store, Disk
  <2> QED BY <2>5, <2>6 DEF TInv
<1>3. CASE TestShown(d)
  <2>1. op' \in [Device -> Operation] /\ Shapes'
    BY <1>3, OpUpdate, NoOpType DEF TestShown, TInv
  <2>2. status' \in [Device -> Statuses]
    BY <1>3 DEF TestShown, TInv, ControlT, Statuses
  <2>3. ControlT'
    BY <1>3, <2>1, <2>2 DEF TestShown, TInv, ControlT
  <2>4. StoreT' /\ RestT'
    BY <1>3 DEF TestShown, TInv, StoreT, RestT, Store, Disk
  <2> QED BY <2>3, <2>4 DEF TInv
<1> QED BY <1>2, <1>3

-----------------------------------------------------------------------------
(* Operations begin.                                                        *)

(* A caller that has the lock starts its operation, or is refused.          *)
LEMMA StartType ==
    ASSUME TInv, NEW d \in Device, NEW c \in Callers,
           NEW k \in {"push", "pull", "recover"}, NEW t \in Triggers,
           NEW pc \in {"load", "read_current"},
           pc = "load" <=> k # "recover",
           t \in {"resolve_upload", "repair_missing_remote"} => k = "push",
           Start(d, c, k, t, pc), UNCHANGED pending
    PROVE  ControlT'
<1>1. ControlT /\ "failure" \in CallerPcs
  BY DEF TInv, CallerPcs
<1>2. CASE ~settings[d].enabled
  <2>1. Stand(d, c, "failure") /\ UNCHANGED <<op, status>>
    BY <1>2 DEF Start
  <2> QED BY <1>1, <2>1, StandType DEF ControlT, Shapes, OpShape
<1>3. CASE settings[d].enabled
  <2> DEFINE e == IF k = "push" THEN local[d] ELSE None
  <2>1. e \in Config \cup {None} /\ (k = "push" => e \in Config)
    BY DEF TInv, RestT
  <2>2. /\ op' = [op EXCEPT ![d] = NewOp(k, t, pc, e)]
        /\ status' = [status EXCEPT ![d] = "running"]
        /\ Leave(d, c)
    BY <1>3 DEF Start
  <2> HIDE DEF e
  <2>3. NewOp(k, t, pc, e) \in Operation /\ OpShape(NewOp(k, t, pc, e))
    BY <2>1, NewOpType DEF Kinds
  <2>4. op' \in [Device -> Operation] /\ Shapes'
    BY <1>1, <2>2, <2>3, OpUpdate
  <2>5. caller' \in [Device -> [Callers -> [pc: CallerPcs, retryable: BOOLEAN]]]
    BY <1>1, <2>2, LeaveType
  <2> QED BY <1>1, <2>2, <2>4, <2>5 DEF ControlT, Statuses
<1> QED BY <1>2, <1>3

(* A step of a caller outside of the lock.                                  *)
LEMMA OutsideType ==
    ASSUME TInv, NEW d \in Device, Outside(d),
           status' \in [Device -> Statuses],
           retry' \in [Device -> {"run", "wait", "suspended"}],
           caller' \in [Device -> [Callers -> [pc: CallerPcs, retryable: BOOLEAN]]],
           pending' \in [Device -> BOOLEAN]
    PROVE  TInv'
<1>1. StoreT' /\ RestT'
  BY DEF Outside, TInv, StoreT, RestT, Store, Disk
<1>2. ControlT'
  BY DEF Outside, TInv, ControlT, Shapes, OpShape
<1> QED BY <1>1, <1>2 DEF TInv

(* What a caller does with the result of an operation.                      *)
LEMMA OutcomeType ==
    ASSUME TInv, NEW d \in Device, NEW c \in Callers, Outcome(d, c)
    PROVE  TInv'
<1>0. /\ ControlT
      /\ status \in [Device -> Statuses]
      /\ retry \in [Device -> {"run", "wait", "suspended"}]
      /\ pending \in [Device -> BOOLEAN]
      /\ {"show", "record", "decide"} \subseteq CallerPcs
  BY DEF TInv, ControlT, RestT, CallerPcs
<1>1. ASSUME AfterFailure(d, c)
      PROVE  caller' \in [Device -> [Callers -> [pc: CallerPcs, retryable: BOOLEAN]]]
  BY <1>0, <1>1, StandType, LeaveType DEF AfterFailure
<1>2. CASE reset_automatic_retry(d, c)
  <2>1. caller' \in [Device -> [Callers -> [pc: CallerPcs, retryable: BOOLEAN]]]
    BY <1>0, <1>2, LeaveType DEF reset_automatic_retry
  <2> QED BY <1>0, <1>2, <2>1, OutsideType DEF reset_automatic_retry
<1>3. CASE ReadStatus(d, c)
  <2>1. caller' \in [Device -> [Callers -> [pc: CallerPcs, retryable: BOOLEAN]]]
    BY <1>0, <1>1, <1>3, StandType DEF ReadStatus
  <2> QED BY <1>0, <1>3, <2>1, OutsideType DEF ReadStatus
<1>4. CASE ShowFailure(d, c)
  <2>1. caller' \in [Device -> [Callers -> [pc: CallerPcs, retryable: BOOLEAN]]]
    BY <1>0, <1>4, StandType, LeaveType DEF ShowFailure
  <2>2. status' \in [Device -> Statuses]
    BY <1>0, <1>4 DEF ShowFailure, Statuses
  <2> QED BY <1>0, <1>4, <2>1, <2>2, OutsideType DEF ShowFailure
<1>5. CASE RecordRetry(d, c)
  <2>1. caller' \in [Device -> [Callers -> [pc: CallerPcs, retryable: BOOLEAN]]]
    BY <1>0, <1>1, <1>5 DEF RecordRetry
  <2>2. retry' \in [Device -> {"run", "wait", "suspended"}]
    BY <1>0, <1>5 DEF RecordRetry, record_automatic_retry_failure
  <2> QED BY <1>0, <1>5, <2>1, <2>2, OutsideType DEF RecordRetry
<1> QED BY <1>2, <1>3, <1>4, <1>5 DEF Outcome

(* The push worker.                                                         *)
LEMMA PushWorkerType ==
    ASSUME TInv, NEW d \in Device, PushWorker(d) \/ AutoPushTimesOut(d)
    PROVE  TInv'
<1>0. /\ ControlT
      /\ "worker" \in Callers /\ {"gated", "failure"} \subseteq CallerPcs
      /\ "push" \in Kinds /\ "auto_push" \in Triggers
  BY DEF TInv, Callers, CallerPcs, Kinds, Triggers
<1>1. CASE PushGate(d)
  <2>1. caller' \in [Device -> [Callers -> [pc: CallerPcs, retryable: BOOLEAN]]]
    BY <1>0, <1>1, StandType DEF PushGate
  <2>2. ControlT'
    BY <1>0, <1>1, <2>1 DEF PushGate, ControlT, Shapes, OpShape
  <2> QED BY <1>1, <2>2 DEF PushGate, TInv, StoreT, RestT, Store, Disk
<1>2. CASE AutoPushDropped(d)
  <2>1. ControlT'
    BY <1>0, <1>2 DEF AutoPushDropped, ControlT, Shapes, OpShape
  <2> QED BY <1>2, <2>1 DEF AutoPushDropped, TInv, StoreT, RestT, Store, Disk
<1>3. CASE AutoPush(d)
  <2>1. ControlT'
    BY <1>0, <1>3, StartType DEF AutoPush
  <2> QED BY <1>3, <2>1 DEF AutoPush, TInv, StoreT, RestT, Store, Disk
<1>4. CASE Outcome(d, "worker")
  BY <1>0, <1>4, OutcomeType
<1>5. CASE DecideRetry(d)
  <2>1. caller' \in [Device -> [Callers -> [pc: CallerPcs, retryable: BOOLEAN]]]
    BY <1>0, <1>5, LeaveType DEF DecideRetry
  <2>2. pending' \in [Device -> BOOLEAN]
    <3>1. PICK b \in BOOLEAN : pending' = [pending EXCEPT ![d] = b]
      BY <1>5 DEF DecideRetry
    <3> QED BY <1>0, <3>1 DEF ControlT
  <2> QED BY <1>5, <2>1, <2>2, OutsideType DEF DecideRetry, TInv, ControlT, RestT
<1>6. CASE AutoPushTimesOut(d)
  <2>1. budget' \in [edits: 0..MaxEdits, commands: 0..MaxCommands,
                     failures: 0..MaxFailures, crashes: 0..MaxCrashes]
    BY <1>6, SpendType DEF AutoPushTimesOut, TInv
  <2>2. caller' \in [Device -> [Callers -> [pc: CallerPcs, retryable: BOOLEAN]]]
    BY <1>0, <1>6 DEF AutoPushTimesOut, ControlT
  <2>3. ControlT'
    BY <1>0, <1>6, <2>2 DEF AutoPushTimesOut, ControlT, Shapes, OpShape
  <2> QED BY <1>6, <2>1, <2>3 DEF AutoPushTimesOut, TInv, StoreT, RestT, Store, Disk
<1> QED BY <1>1, <1>2, <1>3, <1>4, <1>5, <1>6 DEF PushWorker

(* The check worker.                                                        *)
LEMMA CheckWorkerType ==
    ASSUME TInv, NEW d \in Device, CheckWorker(d)
    PROVE  TInv'
<1>0. /\ ControlT
      /\ "check" \in Callers /\ {"gated", "skip", "quiet"} \subseteq CallerPcs
      /\ "check" \in Kinds /\ "periodic_check" \in Triggers
      /\ {"idle", "running", "disabled"} \subseteq Statuses
  BY DEF TInv, Callers, CallerPcs, Kinds, Triggers, Statuses
<1>1. CASE CheckGate(d) \/ CheckSkipped(d)
  <2>1. caller' \in [Device -> [Callers -> [pc: CallerPcs, retryable: BOOLEAN]]]
    BY <1>0, <1>1, StandType DEF CheckGate, CheckSkipped
  <2>2. ControlT'
    BY <1>0, <1>1, <2>1 DEF CheckGate, CheckSkipped, ControlT, Shapes, OpShape
  <2> QED BY <1>1, <2>2 DEF CheckGate, CheckSkipped, TInv, StoreT, RestT, Store, Disk
<1>2. CASE Check(d)
  <2>1. caller' \in [Device -> [Callers -> [pc: CallerPcs, retryable: BOOLEAN]]]
    BY <1>0, <1>2, LeaveType DEF Check
  <2>2. op' \in [Device -> Operation] /\ Shapes'
    <3> DEFINE o == NewOp("check", "periodic_check", "load", local[d])
    <3>1. o \in Operation /\ OpShape(o)
      BY <1>0, NewOpType DEF TInv, RestT
    <3> HIDE DEF o
    <3>2. CASE op' = [op EXCEPT ![d] = o]
      BY <1>0, <3>1, <3>2, OpUpdate
    <3>3. CASE UNCHANGED op
      BY <1>0, <3>3 DEF ControlT, Shapes, OpShape
    <3> QED BY <1>2, <3>2, <3>3 DEF Check, o
  <2>3. status' \in [Device -> Statuses]
    BY <1>0, <1>2 DEF Check, ControlT
  <2>4. ControlT'
    BY <1>0, <1>2, <2>1, <2>2, <2>3 DEF Check, ControlT
  <2> QED BY <1>2, <2>4 DEF Check, TInv, StoreT, RestT, Store, Disk
<1>3. CASE SkipShown(d) \/ QuietFailure(d)
  <2>1. caller' \in [Device -> [Callers -> [pc: CallerPcs, retryable: BOOLEAN]]]
    BY <1>0, <1>3, LeaveType DEF SkipShown, QuietFailure
  <2>2. status' \in [Device -> Statuses]
    BY <1>0, <1>3 DEF SkipShown, QuietFailure, ControlT
  <2>3. Outside(d) /\ UNCHANGED <<retry, pending>>
    BY <1>3 DEF SkipShown, QuietFailure
  <2>4. /\ retry' \in [Device -> {"run", "wait", "suspended"}]
        /\ pending' \in [Device -> BOOLEAN]
    BY <2>3 DEF TInv, ControlT, RestT
  <2> QED BY <2>1, <2>2, <2>3, <2>4, OutsideType
<1>4. CASE Outcome(d, "check")
  BY <1>0, <1>4, OutcomeType
<1>5. CASE handle_runtime_check_failure(d)
  <2>1. caller' \in [Device -> [Callers -> [pc: CallerPcs, retryable: BOOLEAN]]]
    BY <1>0, <1>5, StandType DEF handle_runtime_check_failure
  <2>2. retry' \in [Device -> {"run", "wait", "suspended"}]
    BY <1>5 DEF handle_runtime_check_failure, record_automatic_retry_failure, TInv, RestT
  <2> QED BY <1>5, <2>1, <2>2, OutsideType DEF handle_runtime_check_failure, TInv, ControlT
<1> QED BY <1>1, <1>2, <1>3, <1>4, <1>5 DEF CheckWorker

(* The user after the first lock, new settings, and the end of a backoff.   *)
LEMMA UserType ==
    ASSUME TInv, NEW d \in Device, User(d) \/ Settings(d) \/ BackoffEnds(d)
    PROVE  TInv'
<1>0. /\ ControlT
      /\ {"user", "settings"} \subseteq Callers /\ "emit" \in CallerPcs
      /\ "push" \in Kinds /\ "repair_missing_remote" \in Triggers
      /\ {"idle", "disabled"} \subseteq Statuses
  BY DEF TInv, Callers, CallerPcs, Kinds, Triggers, Statuses
<1>1. CASE Repair(d)
  <2>1. ControlT'
    BY <1>0, <1>1, StartType DEF Repair
  <2> QED BY <1>1, <2>1 DEF Repair, TInv, StoreT, RestT, Store, Disk
<1>2. CASE Outcome(d, "user")
  BY <1>0, <1>2, OutcomeType
<1>3. CASE ResetByReplace(d)
  <2>1. caller' \in [Device -> [Callers -> [pc: CallerPcs, retryable: BOOLEAN]]]
    BY <1>0, <1>3, StandType DEF ResetByReplace
  <2>2. retry' \in [Device -> {"run", "wait", "suspended"}]
    BY <1>3 DEF ResetByReplace, TInv, RestT
  <2> QED BY <1>3, <2>1, <2>2, OutsideType DEF ResetByReplace, TInv, ControlT
<1>4. CASE set_status_after_settings_replace(d)
  <2>1. caller' \in [Device -> [Callers -> [pc: CallerPcs, retryable: BOOLEAN]]]
    BY <1>0, <1>4, LeaveType DEF set_status_after_settings_replace
  <2>2. status' \in [Device -> Statuses]
    BY <1>0, <1>4 DEF set_status_after_settings_replace, ControlT
  <2> QED BY <1>4, <2>1, <2>2, OutsideType
          DEF set_status_after_settings_replace, TInv, ControlT, RestT
<1>5. CASE BackoffEnds(d)
  <2>1. retry' \in [Device -> {"run", "wait", "suspended"}]
    BY <1>5 DEF BackoffEnds, TInv, RestT
  <2> QED BY <1>5, <2>1, OutsideType DEF BackoffEnds, TInv, ControlT
<1> QED BY <1>1, <1>2, <1>3, <1>4, <1>5 DEF User, Settings

(* The commands of the user.                                                *)
LEMMA CommandType ==
    ASSUME TInv, NEW d \in Device,
           \/ TestConnection(d)
           \/ \E c \in Commands : Command(d, c) \/ ReplaceSettings(d, c)
    PROVE  TInv'
<1>0. ControlT /\ {"user", "settings"} \subseteq Callers /\ "assigned" \in CallerPcs
  BY DEF TInv, Callers, CallerPcs
<1>1. budget' \in [edits: 0..MaxEdits, commands: 0..MaxCommands,
                   failures: 0..MaxFailures, crashes: 0..MaxCrashes]
  BY SpendType DEF Command, TestConnection, ReplaceSettings, TInv
<1>2. ASSUME NEW c \in Commands, Command(d, c) PROVE TInv'
  <2>1. c \in Triggers /\ c # "repair_missing_remote"
    BY CloudSyncAssumption DEF Triggers
  <2>2. OperationOf[c] \in {<<"push", "load">>, <<"pull", "load">>,
                            <<"recover", "read_current">>}
    BY <1>2 DEF Command, OperationOf
  <2>3. c = "resolve_upload" => OperationOf[c][1] = "push"
    BY DEF OperationOf
  <2>4. Start(d, "user", OperationOf[c][1], c, OperationOf[c][2]) /\ UNCHANGED pending
    BY <1>2 DEF Command
  <2>5. PICK k \in {"push", "pull", "recover"}, pc \in {"load", "read_current"} :
            /\ Start(d, "user", k, c, pc)
            /\ pc = "load" <=> k # "recover"
            /\ c \in {"resolve_upload", "repair_missing_remote"} => k = "push"
    BY <2>1, <2>2, <2>3, <2>4
  <2>6. ControlT'
    BY <1>0, <2>1, <2>4, <2>5, StartType
  <2>7. StoreT' /\ RestT'
    BY <1>1, <1>2 DEF Command, TInv, StoreT, RestT, Store, Disk
  <2> QED BY <2>6, <2>7 DEF TInv
<1>3. CASE TestConnection(d)
  <2> DEFINE o == NewOp("test", "test_connection", "test", None)
  <2>1. o \in Operation /\ OpShape(o)
    <3>1. "test" \in Kinds /\ "test_connection" \in Triggers
      BY <1>3 DEF TestConnection, Kinds, Triggers
    <3> QED BY <3>1, NewOpType
  <2>2. op' = [op EXCEPT ![d] = o]
    BY <1>3 DEF TestConnection
  <2> HIDE DEF o
  <2>3. op' \in [Device -> Operation] /\ Shapes'
    BY <1>0, <2>1, <2>2, OpUpdate
  <2>4. ControlT'
    BY <1>0, <1>3, <2>3 DEF TestConnection, ControlT, Statuses
  <2>5. StoreT' /\ RestT'
    BY <1>1, <1>3 DEF TestConnection, TInv, StoreT, RestT, Store, Disk
  <2> QED BY <2>4, <2>5 DEF TInv
<1>4. ASSUME NEW c \in Commands, ReplaceSettings(d, c) PROVE TInv'
  <2>1. caller' \in [Device -> [Callers -> [pc: CallerPcs, retryable: BOOLEAN]]]
    BY <1>0, <1>4, StandType DEF ReplaceSettings
  <2>2. settings' \in [Device -> [enabled: BOOLEAN, checks: BOOLEAN]]
    <3>1. PICK b \in BOOLEAN : settings' = [settings EXCEPT ![d].enabled = b]
      BY <1>4 DEF ReplaceSettings
    <3> QED BY <3>1 DEF TInv, RestT
  <2>3. StoreT' /\ RestT'
    BY <1>1, <1>4, <2>2 DEF ReplaceSettings, TInv, StoreT, RestT, Store, Disk
  <2>4. ControlT'
    BY <1>0, <1>4, <2>1 DEF ReplaceSettings, ControlT, Shapes, OpShape
  <2> QED BY <2>3, <2>4 DEF TInv
<1> QED BY <1>2, <1>3, <1>4

(* Clean-up, failures, edits and restarts.                                  *)
LEMMA EnvironmentType ==
    ASSUME TInv, NEW d \in Device,
           CleanUp(d) \/ CleanUpFails(d) \/ OperationFails(d) \/ Edit(d) \/ Restart(d)
    PROVE  TInv'
<1>1. CASE CleanUp(d)
  <2>1. PICK g \in gc[d] :
            /\ remote' = CASE g = "current"   -> [remote EXCEPT !.current = None]
                           [] g = "latest"    -> [remote EXCEPT !.latest = None]
                           [] g = "snapshots" -> [remote EXCEPT !.snapshots = {}]
            /\ gc' = [gc EXCEPT ![d] = (gc[d] \ {g}) \cup
                         CASE g = "current"   -> {"latest"}
                           [] g = "latest"    -> {"snapshots"}
                           [] g = "snapshots" -> {}]
            /\ UNCHANGED <<published, Disk, op, status, settings, retry, caller, pending, budget>>
    BY <1>1 DEF CleanUp
  <2>2. g \in {"current", "latest", "snapshots"}
    BY DEF TInv, RestT
  <2>3. StoreT'
    BY <2>1, <2>2 DEF TInv, StoreT
  <2>4. gc' \in [Device -> SUBSET {"current", "latest", "snapshots"}]
    BY <2>1, <2>2 DEF TInv, RestT
  <2>5. ControlT' /\ RestT'
    BY <2>1, <2>4 DEF TInv, ControlT, RestT, Disk, Shapes, OpShape
  <2> QED BY <2>3, <2>5 DEF TInv
<1>2. CASE CleanUpFails(d)
  <2>1. budget' \in [edits: 0..MaxEdits, commands: 0..MaxCommands,
                     failures: 0..MaxFailures, crashes: 0..MaxCrashes]
    BY <1>2, SpendType DEF CleanUpFails, TInv
  <2>2. gc' \in [Device -> SUBSET {"current", "latest", "snapshots"}]
    BY <1>2 DEF CleanUpFails, TInv, RestT
  <2>3. ControlT'
    BY <1>2 DEF CleanUpFails, TInv, ControlT, Shapes, OpShape
  <2> QED BY <1>2, <2>1, <2>2, <2>3 DEF CleanUpFails, TInv, StoreT, RestT, Store, Disk
<1>3. CASE OperationFails(d)
  <2>1. budget' \in [edits: 0..MaxEdits, commands: 0..MaxCommands,
                     failures: 0..MaxFailures, crashes: 0..MaxCrashes]
    BY <1>3, SpendType DEF OperationFails, TInv
  <2>2. ControlT'
    BY <1>3, EndType DEF OperationFails, TInv
  <2> QED BY <1>3, <2>1, <2>2 DEF OperationFails, TInv, StoreT, RestT, Store, Disk
<1>4. CASE Edit(d)
  <2>1. budget' \in [edits: 0..MaxEdits, commands: 0..MaxCommands,
                     failures: 0..MaxFailures, crashes: 0..MaxCrashes]
    BY <1>4, SpendType DEF Edit, TInv
  <2>2. local' \in [Device -> Config]
    BY <1>4 DEF Edit, TInv, RestT, Config
  <2>3. pending' \in [Device -> BOOLEAN]
    <3>1. PICK b \in BOOLEAN : pending' = [pending EXCEPT ![d] = b]
      <4>1. settings[d].enabled \in BOOLEAN /\ pending[d] \in BOOLEAN
        BY DEF TInv, RestT, ControlT
      <4> QED BY <1>4, <4>1 DEF Edit
    <3> QED BY <3>1 DEF TInv, ControlT
  <2>4. ControlT'
    BY <1>4, <2>3 DEF Edit, TInv, ControlT, Shapes, OpShape
  <2> QED BY <1>4, <2>1, <2>2, <2>4 DEF Edit, TInv, StoreT, RestT, Store
<1>5. CASE Restart(d)
  <2>1. budget' \in [edits: 0..MaxEdits, commands: 0..MaxCommands,
                     failures: 0..MaxFailures, crashes: 0..MaxCrashes]
    BY <1>5, SpendType DEF Restart, TInv
  <2>2. op' \in [Device -> Operation] /\ Shapes'
    BY <1>5, NoOpType, OpUpdate DEF Restart, TInv
  <2>3. caller' \in [Device -> [Callers -> [pc: CallerPcs, retryable: BOOLEAN]]]
    <3>1. NoCall \in [pc: CallerPcs, retryable: BOOLEAN]
      BY DEF NoCall, CallerPcs
    <3> QED BY <1>5, <3>1 DEF Restart, TInv, ControlT
  <2>4. ControlT'
    BY <1>5, <2>2, <2>3 DEF Restart, TInv, ControlT, Statuses
  <2>5. StoreT' /\ RestT'
    BY <1>5, <2>1 DEF Restart, TInv, StoreT, RestT, Store, Disk
  <2> QED BY <2>4, <2>5 DEF TInv
<1> QED BY <1>1, <1>2, <1>3, <1>4, <1>5

-----------------------------------------------------------------------------
(* What a device does beside the steps of its operation.                    *)
Other(d) ==
    \/ PushWorker(d) \/ AutoPushTimesOut(d) \/ CheckWorker(d)
    \/ User(d) \/ Settings(d) \/ BackoffEnds(d)
    \/ TestConnection(d) \/ \E c \in Commands : Command(d, c) \/ ReplaceSettings(d, c)
    \/ CleanUp(d) \/ CleanUpFails(d) \/ OperationFails(d) \/ Edit(d) \/ Restart(d)

(* A step is a step of an operation, or one of the others.                  *)
LEMMA NextSteps == Next => \E d \in Device : Step(d) \/ Other(d)
  BY DEF Next, Other

(* Every step keeps the types and the shapes of the operations.             *)
LEMMA TypeStep == TInv /\ [Next]_vars => TInv'
<1> SUFFICES ASSUME TInv, [Next]_vars PROVE TInv'
  OBVIOUS
<1>1. ASSUME NEW d \in Device, Step(d) PROVE TInv'
  BY <1>1, LoadType, ResolveType, CompatType, MigrateType, ReverifyType, ReadCurrentType,
     UploadStepType, VerifyType, CommitType, ApplyType, RefreshType, SaveType, TestType
     DEF Step
<1>2. ASSUME NEW d \in Device, Other(d) PROVE TInv'
  BY <1>2, PushWorkerType, CheckWorkerType, UserType, CommandType, EnvironmentType DEF Other
<1>3. CASE UNCHANGED vars
  BY <1>3 DEF vars, TInv, StoreT, ControlT, RestT, Shapes, OpShape
<1> QED BY <1>1, <1>2, <1>3, NextSteps

(* The types of CloudSync, the shapes of its operations included.           *)
LEMMA TypeInduction == Spec => []TInv
<1>1. Init => TInv
  BY InitStore, InitRest DEF TInv
<1> QED BY <1>1, TypeStep, PTL DEF Spec

(* Every value of the cloud sync manager stays in its type: in particular an *)
(* operation never uses a pointer, a snapshot or an envelope it does not     *)
(* have, and apply_portable_snapshot never saves a section past the last.    *)
THEOREM CloudSyncTypes == Spec => []TypeOK
<1>1. TInv => TypeOK
  BY DEF TInv, StoreT, ControlT, RestT, TypeOK
<1> QED BY <1>1, TypeInduction, PTL

-----------------------------------------------------------------------------
(* Status "running".  Whoever frees the lock, or leaves, settles the status   *)
(* first or stands where it is still to be settled.                           *)

(* Where a caller stands while the end of its operation is still to be shown. *)
Ending == {"repair", "failure", "show", "transient", "quiet"}

(* What is shown for an operation and the callers of its device.             *)
Backed(o, st, cs) == st = "running" => o # NoOp \/ \E c \in Callers : cs[c].pc \in Ending

(* A step of one device has to be looked at on that device only.             *)
LEMMA BackedFrame ==
    ASSUME RunningIsBacked, NEW d \in Device,
           \A e \in Device \ {d} : /\ op'[e] = op[e]
                                   /\ status'[e] = status[e]
                                   /\ caller'[e] = caller[e],
           Backed(op'[d], status'[d], caller'[d])
    PROVE  RunningIsBacked'
<1>1. ASSUME NEW e \in Device PROVE Backed(op'[e], status'[e], caller'[e])
  <2>1. CASE e = d
    BY <2>1
  <2>2. CASE e # d
    <3>1. Backed(op[e], status[e], caller[e])
      BY DEF RunningIsBacked, Backed, Busy, Ending
    <3> QED BY <2>2, <3>1
  <2> QED BY <2>1, <2>2
<1> QED BY <1>1 DEF RunningIsBacked, Backed, Busy, Ending

(* An operation moves on.                                                    *)
LEMMA BackedMove ==
    ASSUME ControlT, RunningIsBacked, NEW d \in Device, NEW o, o.pc # "idle",
           op' = [op EXCEPT ![d] = o], UNCHANGED <<status, caller>>
    PROVE  RunningIsBacked'
<1>1. o # NoOp
  BY DEF NoOp, NewOp
<1>2. op'[d] = o /\ \A e \in Device \ {d} : op'[e] = op[e]
  BY DEF ControlT
<1> QED BY <1>1, <1>2, BackedFrame DEF Backed

(* A device starts an operation, or takes back "running".                    *)
LEMMA BackedStart ==
    ASSUME ControlT, RunningIsBacked, NEW d \in Device, NEW o, NEW st, NEW c \in Callers,
           o.pc # "idle" \/ st # "running",
           op' = [op EXCEPT ![d] = o], status' = [status EXCEPT ![d] = st],
           UNCHANGED caller \/ Leave(d, c)
    PROVE  RunningIsBacked'
<1>1. o # NoOp \/ st # "running"
  BY DEF NoOp, NewOp
<1>2. /\ op'[d] = o /\ status'[d] = st
      /\ \A e \in Device \ {d} : op'[e] = op[e] /\ status'[e] = status[e]
  BY DEF ControlT
<1>3. \A e \in Device \ {d} : caller'[e] = caller[e]
  BY DEF ControlT, Leave
<1> QED BY <1>1, <1>2, <1>3, BackedFrame DEF Backed

(* An operation ends: the status is settled, or the caller is to settle it.  *)
LEMMA BackedEnd ==
    ASSUME ControlT, RunningIsBacked, NEW d \in Device,
           Succeed(d, "idle") \/ Notice(d) \/ EndInConflict(d) \/ \E e : Fail(d, e)
    PROVE  RunningIsBacked'
<1> DEFINE k == CallerOf(op[d].trigger)
<1>0. k \in Callers
  BY DEF CallerOf, Callers
<1>1. PICK pc, b : Return(d, pc, b)
  BY DEF Succeed, Notice, EndInConflict, Fail
<1>2. /\ caller' = [caller EXCEPT ![d][k] = [pc |-> pc, retryable |-> b]]
      /\ op' = [op EXCEPT ![d] = NoOp]
  BY <1>1 DEF Return
<1> HIDE DEF k
<1>3. \A e \in Device \ {d} : op'[e] = op[e] /\ caller'[e] = caller[e]
  BY <1>2 DEF ControlT
<1>4. CASE Succeed(d, "idle") \/ Notice(d) \/ EndInConflict(d)
  <2>1. /\ status'[d] # "running"
        /\ \A e \in Device \ {d} : status'[e] = status[e]
    BY <1>4 DEF Succeed, Notice, EndInConflict, ControlT
  <2> QED BY <1>3, <2>1, BackedFrame DEF Backed
<1>5. CASE \E e : Fail(d, e)
  <2>1. PICK e : Fail(d, e)
    BY <1>5
  <2>2. PICK q \in {"repair", "transient", "failure"}, r \in BOOLEAN : Return(d, q, r)
    BY <2>1 DEF Fail
  <2>3. caller' = [caller EXCEPT ![d][k] = [pc |-> q, retryable |-> r]]
    BY <2>2 DEF Return, k
  <2>4. caller'[d][k].pc = q
    BY <1>0, <2>3 DEF ControlT
  <2>5. UNCHANGED status
    BY <2>1 DEF Fail
  <2>6. Backed(op'[d], status'[d], caller'[d])
    BY <1>0, <2>4 DEF Backed, Ending
  <2> QED BY <1>3, <2>5, <2>6, BackedFrame
<1> QED BY <1>4, <1>5

(* A caller moves on outside of the lock: the status is settled, or still to *)
(* be settled by this caller, or was not for it to settle.                   *)
LEMMA BackedStand ==
    ASSUME ControlT, RunningIsBacked, NEW d \in Device, NEW c \in Callers, NEW pc,
           Stand(d, c, pc) \/ (pc = "none" /\ Leave(d, c)),
           UNCHANGED op,
           \A e \in Device \ {d} : status'[e] = status[e],
           \/ status'[d] # "running"
           \/ pc \in Ending /\ status'[d] = status[d]
           \/ caller[d][c].pc \notin Ending /\ status'[d] = status[d]
    PROVE  RunningIsBacked'
<1>1. caller'[d][c].pc = pc
  BY DEF Stand, Leave, NoCall, ControlT
<1>2. /\ \A b \in Callers \ {c} : caller'[d][b] = caller[d][b]
      /\ \A e \in Device \ {d} : caller'[e] = caller[e]
  BY DEF Stand, Leave, ControlT
<1>3. Backed(op[d], status[d], caller[d])
  BY DEF RunningIsBacked, Backed, Busy, Ending
<1>4. Backed(op'[d], status'[d], caller'[d])
  BY <1>1, <1>2, <1>3 DEF Backed
<1> QED BY <1>2, <1>4, BackedFrame

(* The steps of an operation.                                                *)
LEMMA BackedStep ==
    ASSUME TInv, RunningIsBacked, NEW d \in Device, Step(d)
    PROVE  RunningIsBacked'
<1>0. ControlT /\ op[d] \in Operation
  BY OpOf DEF TInv
<1>1. ASSUME NEW o, op' = [op EXCEPT ![d] = o], o.pc # "idle", UNCHANGED <<status, caller>>
      PROVE  RunningIsBacked'
  BY <1>0, <1>1, BackedMove
<1>2. CASE Succeed(d, "idle") \/ Notice(d) \/ EndInConflict(d) \/ \E e : Fail(d, e)
  BY <1>0, <1>2, BackedEnd
<1>3. CASE Load(d)
  <2> DEFINE p == load_sync_pointer(remote)
  <2>0. LoadForPush(d, p) \/ LoadForPull(d, p) \/ LoadForCheck(d, p)
    BY <1>3 DEF Load
  <2> HIDE DEF p
  <2>1. CASE LoadForPush(d, p)
    <3> DEFINE q == IF p # None /\ p.hash = op[d].env THEN "resolve" ELSE "upload"
               o == [op[d] EXCEPT !.ptr = p, !.pc = q]
    <3>1. op' = [op EXCEPT ![d] = o]
      BY <1>0, <2>1 DEF LoadForPush, ControlT
    <3>2. o.pc # "idle"
      BY <1>0 DEF Operation
    <3> HIDE DEF o
    <3> QED BY <1>1, <2>1, <3>1, <3>2 DEF LoadForPush
  <2>2. CASE LoadForPull(d, p) /\ ~Fail(d, "config")
    <3> DEFINE o == [op[d] EXCEPT !.ptr = p, !.pc = "resolve", !.env = local[d]]
    <3>1. op' = [op EXCEPT ![d] = o] /\ UNCHANGED <<status, caller>>
      BY <1>0, <2>2 DEF LoadForPull, ControlT
    <3>2. o.pc # "idle"
      BY <1>0 DEF Operation
    <3> HIDE DEF o
    <3> QED BY <1>1, <3>1, <3>2
  <2>3. CASE LoadForCheck(d, p) /\ ~Notice(d)
    <3> DEFINE o == [op[d] EXCEPT !.ptr = p, !.pc = "resolve"]
    <3>1. op' = [op EXCEPT ![d] = o] /\ UNCHANGED <<status, caller>>
      BY <1>0, <2>3 DEF LoadForCheck, ControlT
    <3>2. o.pc # "idle"
      BY <1>0 DEF Operation
    <3> HIDE DEF o
    <3> QED BY <1>1, <3>1, <3>2
  <2> QED BY <1>2, <2>0, <2>1, <2>2, <2>3
<1>4. ASSUME NEW s, Resolved(d, s) PROVE RunningIsBacked'
  <2>1. CASE /\ op' = [op EXCEPT ![d].pc = "apply", ![d].snap = s]
             /\ UNCHANGED <<state, status, caller, pending>>
    <3> DEFINE o == [op[d] EXCEPT !.pc = "apply", !.snap = s]
    <3>1. op' = [op EXCEPT ![d] = o]
      BY <1>0, <2>1 DEF ControlT
    <3>2. o.pc # "idle"
      BY <1>0 DEF Operation
    <3> HIDE DEF o
    <3> QED BY <1>1, <2>1, <3>1, <3>2
  <2>2. CASE /\ op' = [op EXCEPT ![d] = NewOp("pull", "auto_pull_remote", "load", None)]
             /\ status' = [status EXCEPT ![d] = "running"]
             /\ UNCHANGED <<state, caller, pending>>
    <3> DEFINE o == NewOp("pull", "auto_pull_remote", "load", None)
    <3>1. op' = [op EXCEPT ![d] = o] /\ o.pc # "idle" /\ "user" \in Callers
      BY <2>2 DEF NewOp, Callers
    <3> HIDE DEF o
    <3> QED BY <1>0, <2>2, <3>1, BackedStart
  <2> QED BY <1>2, <1>4, <2>1, <2>2 DEF Resolved, UpToDate, ResolvedForPull, ResolvedForCheck
<1>5. CASE Resolve(d)
  <2>1. CASE ~\E s : Resolved(d, s)
    <3>1. PICK e : /\ op' = [op EXCEPT ![d].pc = "compat", ![d].err = e]
                   /\ UNCHANGED <<state, status, caller, pending>>
      BY <1>5, <2>1 DEF Resolve
    <3> DEFINE o == [op[d] EXCEPT !.pc = "compat", !.err = e]
    <3>2. op' = [op EXCEPT ![d] = o]
      BY <1>0, <3>1 DEF ControlT
    <3>3. o.pc # "idle"
      BY <1>0 DEF Operation
    <3> HIDE DEF o
    <3> QED BY <1>1, <3>1, <3>2, <3>3
  <2> QED BY <1>4, <2>1
<1>6. CASE Compat(d)
  <2> DEFINE c == read_current_sync_snapshot_compat(remote)
             o == [op[d] EXCEPT !.pc = "migrate", !.snap = c]
  <2>1. \/ Succeed(d, "idle") \/ EndInConflict(d) \/ \E e : Fail(d, e)
        \/ op' = [op EXCEPT ![d] = o] /\ UNCHANGED <<state, status, caller, pending>>
    BY <1>6 DEF Compat, UpToDate
  <2>2. o.pc # "idle"
    BY <1>0 DEF Operation
  <2> HIDE DEF o
  <2> QED BY <1>1, <1>2, <2>1, <2>2
<1>7. ASSUME NEW pc, pc # "idle", Goto(d, pc), UNCHANGED <<status, caller>>
      PROVE  RunningIsBacked'
  <2> DEFINE o == [op[d] EXCEPT !.pc = pc]
  <2>1. op' = [op EXCEPT ![d] = o]
    BY <1>0, <1>7 DEF Goto, ControlT
  <2>2. o.pc # "idle"
    BY <1>0, <1>7 DEF Operation
  <2> HIDE DEF o
  <2> QED BY <1>1, <1>7, <2>1, <2>2
<1>8. CASE Migrate(d)
  BY <1>7, <1>8 DEF Migrate
<1>9. CASE Reverify(d)
  BY <1>2, <1>4, <1>9 DEF Reverify
<1>10. CASE ReadCurrent(d)
  <2>1. CASE ~Fail(d, "config")
    <3>1. PICK c : /\ op' = [op EXCEPT ![d].pc = "upload", ![d].snap = c]
                   /\ UNCHANGED <<status, caller, pending>>
      BY <1>10, <2>1 DEF ReadCurrent
    <3> DEFINE o == [op[d] EXCEPT !.pc = "upload", !.snap = c]
    <3>2. op' = [op EXCEPT ![d] = o]
      BY <1>0, <3>1 DEF ControlT
    <3>3. o.pc # "idle"
      BY <1>0 DEF Operation
    <3> HIDE DEF o
    <3> QED BY <1>1, <3>1, <3>2, <3>3
  <2> QED BY <1>2, <2>1
<1>11. CASE Upload(d)
  <2>1. PICK s : op' = [op EXCEPT ![d].pc = "verify", ![d].snap = s]
    BY <1>11 DEF Upload
  <2> DEFINE o == [op[d] EXCEPT !.pc = "verify", !.snap = s]
  <2>2. op' = [op EXCEPT ![d] = o]
    BY <1>0, <2>1 DEF ControlT
  <2>3. o.pc # "idle"
    BY <1>0 DEF Operation
  <2> HIDE DEF o
  <2> QED BY <1>1, <1>11, <2>2, <2>3 DEF Upload
<1>12. CASE Verify(d)
  BY <1>2, <1>7, <1>12 DEF Verify
<1>13. CASE Commit(d)
  <2> DEFINE q == IF op[d].kind = "push" THEN "refresh" ELSE "apply"
  <2>1. q # "idle" /\ Goto(d, q) /\ UNCHANGED <<status, caller>>
    BY <1>13 DEF Commit
  <2> HIDE DEF q
  <2> QED BY <1>7, <2>1
<1>14. CASE Refresh(d)
  BY <1>7, <1>14 DEF Refresh
<1>15. CASE Apply(d)
  <2> DEFINE s == op[d].done + 1
             q == IF s < Sections THEN "apply"
                  ELSE IF op[d].kind = "pull" THEN "refresh" ELSE "save"
  <2>1. q # "idle" /\ op' = [op EXCEPT ![d].done = s, ![d].pc = q]
    BY <1>15 DEF Apply
  <2> HIDE DEF s, q
  <2> DEFINE o == [op[d] EXCEPT !.done = s, !.pc = q]
  <2>2. op' = [op EXCEPT ![d] = o]
    BY <1>0, <2>1 DEF ControlT
  <2>3. o.pc # "idle"
    BY <1>0, <2>1 DEF Operation
  <2> HIDE DEF o
  <2> QED BY <1>1, <1>15, <2>2, <2>3 DEF Apply
<1>16. CASE Save(d)
  BY <1>2, <1>16 DEF Save
<1>17. CASE Test(d)
  BY <1>7, <1>17 DEF Test
<1>18. CASE TestShown(d)
  <2>1. PICK st \in {"idle", "failed"} :
            /\ op' = [op EXCEPT ![d] = NoOp]
            /\ status' = [status EXCEPT ![d] = st]
            /\ UNCHANGED caller
    BY <1>18 DEF TestShown
  <2> QED BY <1>0, <2>1, BackedStart DEF Callers
<1> QED BY <1>3, <1>5, <1>6, <1>8, <1>9, <1>10, <1>11, <1>12, <1>13, <1>14, <1>15, <1>16,
           <1>17, <1>18 DEF Step

(* What a caller does with the result of its operation.                      *)
LEMMA BackedOutcome ==
    ASSUME TInv, RunningIsBacked, NEW d \in Device, NEW c \in Callers, Outcome(d, c)
    PROVE  RunningIsBacked'
<1>0. ControlT
  BY DEF TInv
<1>1. ASSUME AfterFailure(d, c)
      PROVE  \E pc : Stand(d, c, pc) \/ (pc = "none" /\ Leave(d, c))
  BY <1>1 DEF AfterFailure
<1>2. CASE reset_automatic_retry(d, c)
  BY <1>0, <1>2, BackedStand DEF reset_automatic_retry, StandsAt, Outside, Ending
<1>3. CASE ReadStatus(d, c)
  <2>1. UNCHANGED <<op, status>>
    BY <1>3 DEF ReadStatus, Outside
  <2>2. CASE status[d] = "conflict"
    BY <1>0, <1>1, <1>3, <2>1, <2>2, BackedStand DEF ReadStatus
  <2>3. CASE status[d] # "conflict"
    BY <1>0, <1>3, <2>1, <2>3, BackedStand DEF ReadStatus, Ending
  <2> QED BY <2>2, <2>3
<1>4. CASE ShowFailure(d, c)
  <2>1. /\ status'[d] # "running"
        /\ \A e \in Device \ {d} : status'[e] = status[e]
        /\ UNCHANGED op
    BY <1>0, <1>4 DEF ShowFailure, ControlT, Outside
  <2>2. \E pc : Stand(d, c, pc) \/ (pc = "none" /\ Leave(d, c))
    BY <1>4 DEF ShowFailure
  <2> QED BY <1>0, <2>1, <2>2, BackedStand
<1>5. CASE RecordRetry(d, c)
  <2>1. UNCHANGED <<op, status>> /\ caller[d][c].pc \notin Ending
    BY <1>5 DEF RecordRetry, StandsAt, Ending, Outside
  <2> QED BY <1>0, <1>1, <1>5, <2>1, BackedStand DEF RecordRetry
<1> QED BY <1>2, <1>3, <1>4, <1>5 DEF Outcome

(* The steps of the callers.                                                 *)
LEMMA BackedCaller ==
    ASSUME TInv, RunningIsBacked, NEW d \in Device,
           \/ PushWorker(d) \/ AutoPushTimesOut(d) \/ CheckWorker(d)
           \/ User(d) \/ Settings(d) \/ BackoffEnds(d)
    PROVE  RunningIsBacked'
<1>0. ControlT /\ {"worker", "check", "user", "settings"} \subseteq Callers
  BY DEF TInv, Callers
<1>1. ASSUME NEW c \in Callers, NEW pc, Stand(d, c, pc) \/ (pc = "none" /\ Leave(d, c)),
             UNCHANGED <<op, status>>, caller[d][c].pc \notin Ending \/ pc \in Ending
      PROVE  RunningIsBacked'
  BY <1>0, <1>1, BackedStand
<1>2. ASSUME NEW c \in Callers, NEW k, NEW t, NEW pc \in {"load", "read_current"},
             Start(d, c, k, t, pc)
      PROVE  RunningIsBacked'
  <2>1. CASE settings[d].enabled
    <3> DEFINE o == NewOp(k, t, pc, IF k = "push" THEN local[d] ELSE None)
    <3>1. op' = [op EXCEPT ![d] = o] /\ status' = [status EXCEPT ![d] = "running"]
      BY <2>1, <1>2 DEF Start
    <3>2. o.pc # "idle" /\ Leave(d, c)
      BY <2>1, <1>2 DEF Start, NewOp
    <3> HIDE DEF o
    <3> QED BY <1>0, <3>1, <3>2, BackedStart
  <2>2. CASE ~settings[d].enabled
    BY <1>1, <1>2, <2>2 DEF Start, Ending
  <2> QED BY <2>1, <2>2
<1>3. CASE AutoPush(d) \/ Repair(d)
  BY <1>0, <1>2, <1>3 DEF AutoPush, Repair
<1>4. CASE PushGate(d) \/ CheckGate(d)
  <2>1. caller[d]["worker"].pc \notin Ending \/ ~PushGate(d)
    BY DEF PushGate, AtRest, NoCall, Ending
  <2>2. caller[d]["check"].pc \notin Ending \/ ~CheckGate(d)
    BY DEF CheckGate, AtRest, NoCall, Ending
  <2> QED BY <1>0, <1>1, <1>4, <2>1, <2>2 DEF PushGate, CheckGate
<1>5. CASE AutoPushDropped(d) \/ BackoffEnds(d)
  BY <1>5 DEF AutoPushDropped, BackoffEnds, Outside, RunningIsBacked, Busy
<1>6. CASE DecideRetry(d) \/ CheckSkipped(d)
  <2>1. caller[d]["worker"].pc \notin Ending \/ ~DecideRetry(d)
    BY DEF DecideRetry, StandsAt, Ending
  <2>2. caller[d]["check"].pc \notin Ending \/ ~CheckSkipped(d)
    BY DEF CheckSkipped, StandsAt, Ending
  <2> QED BY <1>0, <1>1, <1>6, <2>1, <2>2 DEF DecideRetry, CheckSkipped, Outside
<1>7. CASE AutoPushTimesOut(d)
  <2>1. caller' = [caller EXCEPT ![d]["worker"] = [pc |-> "failure", retryable |-> TRUE]]
    BY <1>7 DEF AutoPushTimesOut
  <2>2. caller'[d]["worker"].pc \in Ending
    BY <1>0, <2>1 DEF ControlT, Ending
  <2>3. \A e \in Device \ {d} : caller'[e] = caller[e]
    BY <1>0, <2>1 DEF ControlT
  <2>4. Backed(op'[d], status'[d], caller'[d])
    BY <1>0, <2>2 DEF Backed
  <2> QED BY <1>7, <2>3, <2>4, BackedFrame DEF AutoPushTimesOut
<1>8. CASE Check(d)
  <2>1. CASE settings[d].enabled
    <3> DEFINE o == NewOp("check", "periodic_check", "load", local[d])
    <3>1. op' = [op EXCEPT ![d] = o] /\ status' = [status EXCEPT ![d] = "running"]
      BY <1>8, <2>1 DEF Check
    <3>2. o.pc # "idle" /\ Leave(d, "check")
      BY <1>8 DEF Check, NewOp
    <3> HIDE DEF o
    <3> QED BY <1>0, <3>1, <3>2, BackedStart
  <2>2. CASE ~settings[d].enabled
    <3>1. UNCHANGED op /\ status' = [status EXCEPT ![d] = "disabled"] /\ Leave(d, "check")
      BY <1>8, <2>2 DEF Check
    <3>2. status'[d] # "running" /\ \A e \in Device \ {d} : status'[e] = status[e]
      BY <1>0, <3>1 DEF ControlT
    <3> QED BY <1>0, <3>1, <3>2, BackedStand
  <2> QED BY <2>1, <2>2
<1>9. ASSUME NEW c \in Callers, NEW st, st # "running", Leave(d, c), UNCHANGED op,
             status' = [status EXCEPT ![d] = st]
      PROVE  RunningIsBacked'
  <2>1. status'[d] # "running" /\ \A e \in Device \ {d} : status'[e] = status[e]
    BY <1>0, <1>9 DEF ControlT
  <2> QED BY <1>0, <1>9, <2>1, BackedStand
<1>10. CASE SkipShown(d) \/ QuietFailure(d)
  BY <1>0, <1>9, <1>10 DEF SkipShown, QuietFailure, Outside
<1>11. CASE set_status_after_settings_replace(d)
  <2>1. PICK st \in {"idle", "disabled"} : status' = [status EXCEPT ![d] = st]
    BY <1>11 DEF set_status_after_settings_replace
  <2>2. Leave(d, "settings") /\ UNCHANGED op
    BY <1>11 DEF set_status_after_settings_replace, Outside
  <2> QED BY <1>0, <1>9, <2>1, <2>2
<1>12. CASE handle_runtime_check_failure(d)
  BY <1>0, <1>1, <1>12 DEF handle_runtime_check_failure, Outside, Ending
<1>13. CASE ResetByReplace(d)
  BY <1>0, <1>1, <1>13 DEF ResetByReplace, StandsAt, Outside, Ending
<1>14. CASE Outcome(d, "worker") \/ Outcome(d, "check") \/ Outcome(d, "user")
  BY <1>0, <1>14, BackedOutcome
<1> QED BY <1>3, <1>4, <1>5, <1>6, <1>7, <1>8, <1>10, <1>11, <1>12, <1>13, <1>14
        DEF PushWorker, CheckWorker, User, Settings

(* The steps of the user and of the environment.                             *)
LEMMA BackedEnvironment ==
    ASSUME TInv, RunningIsBacked, NEW d \in Device,
           \/ TestConnection(d)
           \/ \E c \in Commands : Command(d, c) \/ ReplaceSettings(d, c)
           \/ CleanUp(d) \/ CleanUpFails(d) \/ OperationFails(d) \/ Edit(d) \/ Restart(d)
    PROVE  RunningIsBacked'
<1>0. ControlT /\ {"user", "settings"} \subseteq Callers
  BY DEF TInv, Callers
<1>1. ASSUME NEW c \in Commands, Command(d, c) PROVE RunningIsBacked'
  <2> DEFINE k == OperationOf[c][1]
             pc == OperationOf[c][2]
  <2>1. pc \in {"load", "read_current"} /\ Start(d, "user", k, c, pc)
    BY <1>1 DEF Command, OperationOf
  <2> HIDE DEF k, pc
  <2>2. CASE settings[d].enabled
    <3> DEFINE o == NewOp(k, c, pc, IF k = "push" THEN local[d] ELSE None)
    <3>1. op' = [op EXCEPT ![d] = o] /\ status' = [status EXCEPT ![d] = "running"]
      BY <2>1, <2>2 DEF Start
    <3>2. o.pc # "idle" /\ Leave(d, "user")
      BY <2>1, <2>2 DEF Start, NewOp
    <3> HIDE DEF o
    <3> QED BY <1>0, <3>1, <3>2, BackedStart
  <2>3. CASE ~settings[d].enabled
    <3>1. Stand(d, "user", "failure") /\ UNCHANGED <<op, status>>
      BY <2>1, <2>3 DEF Start
    <3> QED BY <1>0, <3>1, BackedStand DEF Ending
  <2> QED BY <2>2, <2>3
<1>2. CASE TestConnection(d)
  <2> DEFINE o == NewOp("test", "test_connection", "test", None)
  <2>1. /\ op' = [op EXCEPT ![d] = o] /\ status' = [status EXCEPT ![d] = "running"]
        /\ o.pc # "idle"
        /\ UNCHANGED caller
    BY <1>2 DEF TestConnection, NewOp
  <2> HIDE DEF o
  <2> QED BY <1>0, <2>1, BackedStart
<1>3. ASSUME NEW c \in Commands, ReplaceSettings(d, c) PROVE RunningIsBacked'
  <2>1. caller[d]["settings"].pc \notin Ending
    BY <1>3 DEF ReplaceSettings, AtRest, NoCall, Ending
  <2> QED BY <1>0, <1>3, <2>1, BackedStand DEF ReplaceSettings
<1>4. CASE OperationFails(d)
  BY <1>0, <1>4, BackedEnd DEF OperationFails
<1>5. CASE Restart(d)
  <2>1. /\ status'[d] # "running"
        /\ \A e \in Device \ {d} : /\ op'[e] = op[e]
                                   /\ status'[e] = status[e]
                                   /\ caller'[e] = caller[e]
    BY <1>0, <1>5 DEF Restart, ControlT
  <2> QED BY <2>1, BackedFrame DEF Backed
<1>6. CASE UNCHANGED <<op, status, caller>>
  BY <1>6 DEF RunningIsBacked, Busy
<1> QED BY <1>1, <1>2, <1>3, <1>4, <1>5, <1>6 DEF CleanUp, CleanUpFails, Edit

(* Nobody is left looking at an operation that no longer runs, for any number *)
(* of devices and whatever the push worker, the check worker, the user and    *)
(* new settings do between an operation's return and the record of its end    *)
(* (sync_push_now, record_failure, handle_runtime_check_failure and           *)
(* replace_settings write the status outside of the lock).                    *)
THEOREM RunningHasBacker == Spec => []RunningIsBacked
<1>1. Init => RunningIsBacked
  BY DEF Init, RunningIsBacked
<1>2. TInv /\ RunningIsBacked /\ [Next]_vars => RunningIsBacked'
  <2> SUFFICES ASSUME TInv, RunningIsBacked, [Next]_vars PROVE RunningIsBacked'
    OBVIOUS
  <2>1. CASE UNCHANGED vars
    BY <2>1 DEF vars, RunningIsBacked, Busy
  <2>2. ASSUME NEW d \in Device, Step(d) PROVE RunningIsBacked'
    BY <2>2, BackedStep
  <2>3. ASSUME NEW d \in Device, Other(d) PROVE RunningIsBacked'
    BY <2>3, BackedCaller, BackedEnvironment DEF Other
  <2> QED BY <2>1, <2>2, <2>3, NextSteps
<1> QED BY <1>1, <1>2, TypeInduction, PTL DEF Spec

-----------------------------------------------------------------------------
(* The baseline.  Everything the store holds, and everything an operation    *)
(* carries from one await to the next, was stored as it is.                  *)

StoreStored ==
    /\ remote.stable # None => remote.stable \in published
    /\ remote.latest # None => remote.latest \in published
    /\ remote.current # None => remote.current \in published
    /\ remote.snapshots \subseteq published

StoredIn(o, stored) ==
    /\ o.pc \in {"resolve", "compat", "migrate", "reverify"} => o.ptr \in stored
    /\ o.pc \in {"apply", "migrate", "reverify", "verify", "commit", "refresh", "save"}
           \/ (o.pc = "upload" /\ o.kind # "push") => o.snap \in stored

OpStored(o) == StoredIn(o, published)

OpsStored == \A d \in Device : OpStored(op[d])

BInv == StoreStored /\ OpsStored /\ BaselineWasStored

(* What is read from the store was stored.                                  *)
LEMMA ReadStored ==
    ASSUME StoreStored, NEW r
    PROVE  /\ ObjectAt(remote, r) # None => ObjectAt(remote, r) \in published
           /\ load_sync_pointer(remote) # None => load_sync_pointer(remote) \in published
           /\ read_current_sync_snapshot_compat(remote) # None
                  => read_current_sync_snapshot_compat(remote) \in published
<1>1. ASSUME \E s \in remote.snapshots : s.rev = r
      PROVE  (CHOOSE s \in remote.snapshots : s.rev = r) \in published
  BY <1>1 DEF StoreStored
<1> QED BY <1>1 DEF StoreStored, ObjectAt, load_sync_pointer,
                    read_current_sync_snapshot_compat

(* An operation that ends or starts carries nothing.                        *)
LEMMA NewOpStored ==
    ASSUME NEW k, NEW t, NEW pc \in {"idle", "load", "read_current", "test"}, NEW c
    PROVE  OpStored(NewOp(k, t, pc, c))
  BY DEF OpStored, StoredIn, NewOp

(* The operation of one device changes; nothing that was stored is forgotten. *)
LEMMA OpsStoredUpdate ==
    ASSUME OpsStored, NEW d \in Device, NEW o, OpStored(o),
           op \in [Device -> Operation], op' = [op EXCEPT ![d] = o],
           published' = published
    PROVE  OpsStored'
<1>1. ASSUME NEW e \in Device PROVE OpStored(op'[e])
  BY DEF OpsStored
<1> QED BY <1>1 DEF OpsStored, OpStored, StoredIn

(* The ways an operation ends.                                              *)
LEMMA EndStored ==
    ASSUME OpsStored, ControlT, NEW d \in Device, published' = published,
           Succeed(d, "idle") \/ Notice(d) \/ EndInConflict(d) \/ \E e : Fail(d, e)
    PROVE  OpsStored'
<1>1. op \in [Device -> Operation] /\ OpStored(NoOp)
  BY NewOpStored DEF ControlT, NoOp
<1>2. op' = [op EXCEPT ![d] = NoOp]
  BY EndType
<1> QED BY <1>1, <1>2, OpsStoredUpdate

(* A baseline that was stored is recorded.                                  *)
LEMMA SaveStored ==
    ASSUME RestT, BaselineWasStored, NEW d \in Device, NEW h, NEW r,
           [rev |-> r, hash |-> h] \in published', published \subseteq published',
           SaveState(d, h, r)
    PROVE  BaselineWasStored'
<1>1. ASSUME NEW e \in Device, state'[e].synced # None
      PROVE  [rev |-> state'[e].applied, hash |-> state'[e].synced] \in published'
  <2>1. CASE e = d
    BY <2>1 DEF RestT, SaveState
  <2>2. CASE e # d
    BY <1>1, <2>2 DEF RestT, SaveState, BaselineWasStored
  <2> QED BY <2>1, <2>2
<1> QED BY <1>1 DEF BaselineWasStored

(* The baseline stays while the store only grows.                           *)
LEMMA BaselineKept ==
    ASSUME BaselineWasStored, UNCHANGED state, published \subseteq published'
    PROVE  BaselineWasStored'
  BY DEF BaselineWasStored

(* A snapshot is its revision and its hash.                                 *)
LEMMA SnapshotFields ==
    ASSUME NEW s \in Snapshot
    PROVE  s = [rev |-> s.rev, hash |-> s.hash]
  BY DEF Snapshot

(* Nothing is saved: the operation moves on, and the store is left alone.    *)
LEMMA MoveStored ==
    ASSUME TInv, BInv, NEW d \in Device, NEW o, OpStored(o),
           op' = [op EXCEPT ![d] = o], UNCHANGED <<Store, state>>
    PROVE  BInv'
<1>1. OpsStored'
  BY OpsStoredUpdate DEF BInv, TInv, ControlT, Store
<1>2. StoreStored' /\ BaselineWasStored'
  BY DEF BInv, StoreStored, BaselineWasStored, Store
<1> QED BY <1>1, <1>2 DEF BInv

(* The operation ends and nothing is saved.                                 *)
LEMMA QuietEndStored ==
    ASSUME TInv, BInv, NEW d \in Device, UNCHANGED <<Store, state>>,
           Succeed(d, "idle") \/ Notice(d) \/ EndInConflict(d) \/ \E e : Fail(d, e)
    PROVE  BInv'
<1>1. OpsStored'
  BY EndStored DEF BInv, TInv, Store
<1>2. StoreStored' /\ BaselineWasStored'
  BY DEF BInv, StoreStored, BaselineWasStored, Store
<1> QED BY <1>1, <1>2 DEF BInv

(* The operation ends and a revision that was stored is recorded.           *)
LEMMA SavedEndStored ==
    ASSUME TInv, BInv, NEW d \in Device, UNCHANGED Store, NEW h, NEW r,
           [rev |-> r, hash |-> h] \in published,
           SaveState(d, h, r), Succeed(d, "idle")
    PROVE  BInv'
<1>1. published' = published /\ remote' = remote
  BY DEF Store
<1>2. OpsStored'
  BY <1>1, EndStored DEF BInv, TInv
<1>3. BaselineWasStored'
  BY <1>1, SaveStored DEF BInv, TInv
<1>4. StoreStored'
  BY <1>1 DEF BInv, StoreStored
<1> QED BY <1>2, <1>3, <1>4 DEF BInv

(* The pointer of an operation that finds itself up to date was stored with  *)
(* the hash of the envelope, unless it is the revision already recorded.     *)
LEMMA UpToDateStored ==
    ASSUME TInv, BInv, NEW d \in Device, UpToDate(d), UNCHANGED Store,
           op[d].pc \in {"resolve", "compat", "migrate", "reverify"},
           \/ op[d].ptr.hash = op[d].env
           \/ state[d].synced = op[d].env /\ state[d].applied = op[d].ptr.rev
    PROVE  BInv'
<1> DEFINE b == [rev |-> op[d].ptr.rev, hash |-> op[d].env]
<1>1. op[d].ptr \in Snapshot /\ op[d].env \in Config
  BY OpOf DEF TInv, OpShape
<1>2. CASE op[d].ptr.hash = op[d].env
  <2>1. op[d].ptr \in published
    BY DEF BInv, OpsStored, OpStored, StoredIn
  <2>2. op[d].ptr = b
    BY <1>1, <1>2, SnapshotFields
  <2>3. b \in published
    BY <2>1, <2>2
  <2> QED BY <2>3, SavedEndStored DEF UpToDate
<1>3. CASE state[d].synced = op[d].env /\ state[d].applied = op[d].ptr.rev
  <2>1. state[d].synced # None
    BY <1>1, <1>3, CloudSyncAssumption DEF Config
  <2>2. b \in published
    BY <1>3, <2>1 DEF BInv, BaselineWasStored
  <2> QED BY <2>2, SavedEndStored DEF UpToDate
<1> QED BY <1>2, <1>3

(* The pointer was resolved.                                                *)
LEMMA ResolvedStored ==
    ASSUME TInv, BInv, NEW d \in Device, UNCHANGED Store, NEW s \in published, Resolved(d, s),
           op[d].pc \in {"resolve", "compat", "migrate", "reverify"}
    PROVE  BInv'
<1>1. op[d] \in Operation /\ OpShape(op[d]) /\ OpStored(op[d])
  BY OpOf DEF TInv, BInv, OpsStored
<1>2. CASE op[d].kind = "push" /\ UpToDate(d)
  <2>1. op[d].ptr.hash = op[d].env
    BY <1>1, <1>2 DEF OpShape
  <2> QED BY <1>2, <2>1, UpToDateStored
<1>3. CASE ResolvedForPull(d, s)
  <2>1. CASE op[d].ptr.hash = op[d].env /\ UpToDate(d)
    BY <2>1, UpToDateStored
  <2>2. CASE op' = [op EXCEPT ![d].pc = "apply", ![d].snap = s] /\ UNCHANGED state
    <3> DEFINE o == [op[d] EXCEPT !.pc = "apply", !.snap = s]
    <3>1. op' = [op EXCEPT ![d] = o]
      BY <2>2 DEF TInv, ControlT
    <3>2. OpStored(o)
      BY <1>1 DEF OpStored, StoredIn, Operation
    <3> HIDE DEF o
    <3> QED BY <2>2, <3>1, <3>2, MoveStored
  <2> QED BY <1>3, <2>1, <2>2 DEF ResolvedForPull
<1>4. CASE ResolvedForCheck(d)
  <2> DEFINE dec == decide_remote_check(state[d], op[d].env, op[d].ptr)
  <2>1. CASE dec = "UpToDate" /\ UpToDate(d)
    <3>1. \/ op[d].ptr.hash = op[d].env
          \/ state[d].synced = op[d].env /\ state[d].applied = op[d].ptr.rev
      BY <2>1 DEF decide_remote_check
    <3> QED BY <2>1, <3>1, UpToDateStored
  <2>2. CASE /\ op' = [op EXCEPT ![d] = NewOp("pull", "auto_pull_remote", "load", None)]
             /\ UNCHANGED state
    <3>1. OpStored(NewOp("pull", "auto_pull_remote", "load", None))
      BY NewOpStored
    <3> QED BY <2>2, <3>1, MoveStored
  <2>3. CASE (Notice(d) \/ EndInConflict(d) \/ Fail(d, "config")) /\ UNCHANGED state
    BY <2>3, QuietEndStored
  <2> QED BY <1>4, <2>1, <2>2, <2>3 DEF ResolvedForCheck
<1> QED BY <1>2, <1>3, <1>4 DEF Resolved

(* A snapshot is uploaded: it counts as stored from then on.                *)
LEMMA UploadStored ==
    ASSUME TInv, BInv, NEW d \in Device, NEW s \in Snapshot, NEW o, UNCHANGED state,
           remote' = upload_sync_snapshot(remote, s),
           published' = published \cup {s},
           op' = [op EXCEPT ![d] = o],
           StoredIn(o, published')
    PROVE  BInv'
<1>1. StoreStored'
  BY DEF TInv, StoreT, BInv, StoreStored, upload_sync_snapshot
<1>2. BaselineWasStored'
  BY DEF BInv, BaselineWasStored
<1>3. OpsStored'
  <2>1. ASSUME NEW e \in Device PROVE StoredIn(op'[e], published')
    <3>1. CASE e = d
      BY <3>1 DEF TInv, ControlT
    <3>2. CASE e # d
      BY <3>2 DEF TInv, ControlT, BInv, OpsStored, OpStored, StoredIn
    <3> QED BY <3>1, <3>2
  <2> QED BY <2>1 DEF OpsStored, OpStored
<1> QED BY <1>1, <1>2, <1>3 DEF BInv

(* The store is rewritten with what was stored, and the operation moves on. *)
LEMMA RewriteStored ==
    ASSUME TInv, BInv, NEW d \in Device, NEW o, OpStored(o), UNCHANGED <<published, state>>,
           StoreStored', op' = [op EXCEPT ![d] = o]
    PROVE  BInv'
<1>1. OpsStored'
  BY OpsStoredUpdate DEF BInv, TInv, ControlT
<1>2. BaselineWasStored'
  BY DEF BInv, BaselineWasStored
<1> QED BY <1>1, <1>2 DEF BInv

(* The steps of an operation up to the migration.                           *)
LEMMA StoredStepRead ==
    ASSUME TInv, BInv, NEW d \in Device,
           Load(d) \/ Resolve(d) \/ Compat(d) \/ Reverify(d) \/ ReadCurrent(d)
    PROVE  BInv'
<1>0. op[d] \in Operation /\ OpShape(op[d]) /\ OpStored(op[d]) /\ StoreStored /\ ControlT
  BY OpOf DEF TInv, BInv, OpsStored
<1>1. CASE Load(d)
  <2> DEFINE p == load_sync_pointer(remote)
  <2>0. /\ LoadForPush(d, p) \/ LoadForPull(d, p) \/ LoadForCheck(d, p)
        /\ p # None => p \in published
        /\ UNCHANGED <<Store, state>>
    BY <1>0, <1>1, ReadStored DEF Load, Disk
  <2> HIDE DEF p
  <2>1. CASE LoadForPush(d, p)
    <3> DEFINE q == IF p # None /\ p.hash = op[d].env THEN "resolve" ELSE "upload"
               o == [op[d] EXCEPT !.ptr = p, !.pc = q]
    <3>1. op' = [op EXCEPT ![d] = o]
      BY <1>0, <2>1 DEF LoadForPush, ControlT
    <3>2. OpStored(o)
      BY <1>0, <2>0, <2>1 DEF OpStored, StoredIn, Operation, LoadForPush
    <3> HIDE DEF o
    <3> QED BY <2>0, <3>1, <3>2, MoveStored
  <2>2. CASE LoadForPull(d, p) /\ ~Fail(d, "config")
    <3> DEFINE o == [op[d] EXCEPT !.ptr = p, !.pc = "resolve", !.env = local[d]]
    <3>1. op' = [op EXCEPT ![d] = o] /\ p # None
      BY <1>0, <2>2 DEF LoadForPull, ControlT
    <3>2. OpStored(o)
      BY <1>0, <2>0, <3>1 DEF OpStored, StoredIn, Operation
    <3> HIDE DEF o
    <3> QED BY <2>0, <3>1, <3>2, MoveStored
  <2>3. CASE LoadForCheck(d, p) /\ ~Notice(d)
    <3> DEFINE o == [op[d] EXCEPT !.ptr = p, !.pc = "resolve"]
    <3>1. op' = [op EXCEPT ![d] = o] /\ p # None
      BY <1>0, <2>3 DEF LoadForCheck, ControlT
    <3>2. OpStored(o)
      BY <1>0, <2>0, <3>1 DEF OpStored, StoredIn, Operation
    <3> HIDE DEF o
    <3> QED BY <2>0, <3>1, <3>2, MoveStored
  <2>4. CASE Fail(d, "config") \/ Notice(d)
    BY <2>0, <2>4, QuietEndStored
  <2> QED BY <2>0, <2>1, <2>2, <2>3, <2>4
<1>2. CASE Resolve(d)
  <2> DEFINE s == ObjectAt(remote, op[d].ptr.rev)
  <2>0. op[d].pc = "resolve" /\ UNCHANGED Store /\ (s # None => s \in published)
    BY <1>0, <1>2, ReadStored DEF Resolve, At
  <2>1. CASE Validates(op[d].ptr, s)
    <3>1. s \in published /\ Resolved(d, s)
      BY <1>2, <2>0, <2>1 DEF Resolve, Validates
    <3> HIDE DEF s
    <3> QED BY <2>0, <3>1, ResolvedStored
  <2>2. CASE ~Validates(op[d].ptr, s)
    <3>1. PICK e : op' = [op EXCEPT ![d].pc = "compat", ![d].err = e]
      BY <1>2, <2>2 DEF Resolve
    <3> DEFINE o == [op[d] EXCEPT !.pc = "compat", !.err = e]
    <3>2. op' = [op EXCEPT ![d] = o]
      BY <1>0, <3>1 DEF ControlT
    <3>3. OpStored(o)
      BY <1>0, <2>0 DEF OpStored, StoredIn, Operation
    <3>4. UNCHANGED state
      BY <1>2, <2>2 DEF Resolve
    <3> HIDE DEF o
    <3> QED BY <2>0, <3>2, <3>3, <3>4, MoveStored
  <2> QED BY <2>1, <2>2
<1>3. CASE Compat(d)
  <2> DEFINE c == read_current_sync_snapshot_compat(remote)
  <2>0. op[d].pc = "compat" /\ UNCHANGED Store /\ (c # None => c \in published)
    BY <1>0, <1>3, ReadStored DEF Compat, At
  <2>1. CASE Forced(op[d]) /\ UpToDate(d)
    <3>1. op[d].ptr.hash = op[d].env
      BY <1>0, <2>0, <2>1 DEF OpShape
    <3> QED BY <2>0, <2>1, <3>1, UpToDateStored
  <2>2. CASE (Fail(d, op[d].err) \/ EndInConflict(d)) /\ UNCHANGED state
    BY <2>0, <2>2, QuietEndStored
  <2>3. CASE /\ Validates(op[d].ptr, c)
             /\ op' = [op EXCEPT ![d] = [op[d] EXCEPT !.pc = "migrate", !.snap = c]]
             /\ UNCHANGED state
    <3> DEFINE o == [op[d] EXCEPT !.pc = "migrate", !.snap = c]
    <3>1. c \in published
      BY <2>0, <2>3 DEF Validates
    <3>2. op' = [op EXCEPT ![d] = o]
      BY <2>3
    <3> HIDE DEF c
    <3>3. OpStored(o)
      BY <1>0, <2>0, <3>1 DEF OpStored, StoredIn, Operation
    <3> HIDE DEF o
    <3> QED BY <2>0, <2>3, <3>2, <3>3, MoveStored
  <2> QED BY <1>3, <2>1, <2>2, <2>3 DEF Compat
<1>4. CASE Reverify(d)
  <2>0. op[d].pc = "reverify" /\ UNCHANGED Store /\ op[d].snap \in published
    BY <1>0, <1>4 DEF Reverify, At, OpStored, StoredIn
  <2>1. CASE Resolved(d, op[d].snap)
    BY <2>0, <2>1, ResolvedStored
  <2>2. CASE (\E e : Fail(d, e)) /\ UNCHANGED state
    BY <2>0, <2>2, QuietEndStored
  <2> QED BY <1>4, <2>1, <2>2 DEF Reverify
<1>5. CASE ReadCurrent(d)
  <2> DEFINE c == read_current_sync_snapshot_compat(remote)
             o == [op[d] EXCEPT !.pc = "upload", !.snap = c]
  <2>0. op[d].pc = "read_current" /\ UNCHANGED <<Store, state>> /\ (c # None => c \in published)
    BY <1>0, <1>5, ReadStored DEF ReadCurrent, At, Disk
  <2>1. CASE Fail(d, "config")
    BY <2>0, <2>1, QuietEndStored
  <2>2. CASE c # None /\ op' = [op EXCEPT ![d].pc = "upload", ![d].snap = c]
    <3> HIDE DEF c
    <3>1. op' = [op EXCEPT ![d] = o]
      BY <1>0, <2>2 DEF ControlT
    <3>2. OpStored(o)
      BY <1>0, <2>0, <2>2 DEF OpStored, StoredIn, Operation
    <3> HIDE DEF o
    <3> QED BY <2>0, <3>1, <3>2, MoveStored
  <2> QED BY <1>5, <2>1, <2>2 DEF ReadCurrent
<1> QED BY <1>1, <1>2, <1>3, <1>4, <1>5

(* The steps of an operation that write the store, the disk or the baseline. *)
LEMMA StoredStepWrite ==
    ASSUME TInv, BInv, NEW d \in Device,
           \/ Migrate(d) \/ Upload(d) \/ Verify(d) \/ Commit(d) \/ Apply(d) \/ Refresh(d)
           \/ Save(d) \/ Test(d) \/ TestShown(d)
    PROVE  BInv'
<1>0. op[d] \in Operation /\ OpShape(op[d]) /\ OpStored(op[d]) /\ StoreStored /\ ControlT
  BY OpOf DEF TInv, BInv, OpsStored
<1>1. CASE Migrate(d)
  <2> DEFINE s == op[d].snap
             o == [op[d] EXCEPT !.pc = "reverify"]
  <2>1. op[d].pc = "migrate" /\ s \in Snapshot
    BY <1>0, <1>1 DEF Migrate, At, OpShape
  <2>2. op' = [op EXCEPT ![d] = o]
    BY <1>0, <1>1 DEF Migrate, Goto, ControlT
  <2>3. /\ remote' = upload_sync_snapshot(remote, s)
        /\ published' = published \cup {s}
        /\ UNCHANGED state
    BY <1>1 DEF Migrate, Disk
  <2>4. o.pc = "reverify" /\ o.ptr \in published' /\ o.snap \in published'
    BY <1>0, <2>1, <2>3 DEF OpStored, StoredIn, Operation
  <2> HIDE DEF s, o
  <2>5. StoredIn(o, published')
    BY <2>4 DEF StoredIn
  <2> QED BY <2>1, <2>2, <2>3, <2>5, UploadStored
<1>2. CASE Upload(d)
  <2> DEFINE s == IF op[d].kind = "push" THEN [rev |-> FreshRev, hash |-> op[d].env]
                                         ELSE op[d].snap
             o == [op[d] EXCEPT !.pc = "verify", !.snap = s]
  <2>1. s \in Snapshot
    BY <1>0, <1>2, FreshRevType DEF Upload, At, OpShape, Snapshot, TInv
  <2>2. /\ remote' = upload_sync_snapshot(remote, s)
        /\ published' = published \cup {s}
        /\ op' = [op EXCEPT ![d].pc = "verify", ![d].snap = s]
        /\ UNCHANGED state
    BY <1>2 DEF Upload, Disk
  <2> HIDE DEF s
  <2>3. op' = [op EXCEPT ![d] = o]
    BY <1>0, <2>2 DEF ControlT
  <2>4. o.pc = "verify" /\ o.snap \in published'
    BY <1>0, <2>2 DEF Operation
  <2> HIDE DEF o
  <2>5. StoredIn(o, published')
    BY <2>4 DEF StoredIn
  <2> QED BY <2>1, <2>2, <2>3, <2>5, UploadStored
<1>3. CASE Verify(d)
  <2>1. UNCHANGED <<Store, state>>
    BY <1>3 DEF Verify, Disk
  <2>2. CASE \E e : Fail(d, e)
    BY <2>1, <2>2, QuietEndStored
  <2>3. CASE Goto(d, "commit")
    <3> DEFINE o == [op[d] EXCEPT !.pc = "commit"]
    <3>1. op' = [op EXCEPT ![d] = o]
      BY <1>0, <2>3 DEF Goto, ControlT
    <3>2. OpStored(o)
      BY <1>0, <1>3 DEF Verify, At, OpStored, StoredIn, Operation
    <3> HIDE DEF o
    <3> QED BY <2>1, <3>1, <3>2, MoveStored
  <2> QED BY <1>3, <2>2, <2>3 DEF Verify
<1>4. CASE Commit(d)
  <2> DEFINE q == IF op[d].kind = "push" THEN "refresh" ELSE "apply"
             o == [op[d] EXCEPT !.pc = q]
  <2>1. op[d].snap \in published
    BY <1>0, <1>4 DEF Commit, At, OpStored, StoredIn
  <2>2. StoreStored'
    BY <1>0, <1>4, <2>1 DEF Commit, commit_sync_pointer, StoreStored, TInv, StoreT
  <2>3. op' = [op EXCEPT ![d] = o] /\ q \in {"refresh", "apply"}
    BY <1>0, <1>4 DEF Commit, Goto, ControlT
  <2> HIDE DEF q
  <2>4. OpStored(o)
    BY <1>0, <2>1, <2>3 DEF OpStored, StoredIn, Operation
  <2>5. UNCHANGED <<published, state>>
    BY <1>4 DEF Commit, Disk
  <2> HIDE DEF o
  <2> QED BY <2>2, <2>3, <2>4, <2>5, RewriteStored
<1>5. CASE Apply(d)
  <2> DEFINE s == op[d].done + 1
             q == IF s < Sections THEN "apply"
                  ELSE IF op[d].kind = "pull" THEN "refresh" ELSE "save"
             o == [op[d] EXCEPT !.done = s, !.pc = q]
  <2>1. op[d].snap \in published
    BY <1>0, <1>5 DEF Apply, At, OpStored, StoredIn
  <2>2. op' = [op EXCEPT ![d].done = s, ![d].pc = q] /\ UNCHANGED <<Store, state>>
    BY <1>5 DEF Apply
  <2>3. q \in {"apply", "refresh", "save"}
    OBVIOUS
  <2> HIDE DEF s, q
  <2>4. op' = [op EXCEPT ![d] = o]
    BY <1>0, <2>2 DEF ControlT
  <2>5. OpStored(o)
    BY <1>0, <2>1, <2>3 DEF OpStored, StoredIn, Operation
  <2> HIDE DEF o
  <2> QED BY <2>2, <2>4, <2>5, MoveStored
<1>6. CASE Refresh(d)
  <2> DEFINE o == [op[d] EXCEPT !.pc = "save"]
  <2>1. op[d].snap \in published
    BY <1>0, <1>6 DEF Refresh, At, OpStored, StoredIn
  <2>2. StoreStored'
    <3>1. CASE UNCHANGED remote
      BY <1>0, <1>6, <3>1 DEF Refresh, StoreStored
    <3>2. CASE remote' = write_current_sync_snapshot_compat(remote, op[d].snap)
      BY <1>0, <1>6, <2>1, <3>2 DEF Refresh, StoreStored, TInv, StoreT,
                                    write_current_sync_snapshot_compat, upload_sync_snapshot
    <3> QED BY <1>6, <3>1, <3>2 DEF Refresh
  <2>3. op' = [op EXCEPT ![d] = o]
    BY <1>0, <1>6 DEF Refresh, Goto, ControlT
  <2>4. OpStored(o)
    BY <1>0, <2>1 DEF OpStored, StoredIn, Operation
  <2>5. UNCHANGED <<published, state>>
    BY <1>6 DEF Refresh, Disk
  <2> HIDE DEF o
  <2> QED BY <2>2, <2>3, <2>4, <2>5, RewriteStored
<1>7. CASE Save(d)
  <2>1. op[d].snap \in published /\ op[d].snap \in Snapshot
    BY <1>0, <1>7 DEF Save, At, OpStored, StoredIn, OpShape
  <2>2. [rev |-> op[d].snap.rev, hash |-> op[d].snap.hash] \in published
    BY <2>1, SnapshotFields
  <2> QED BY <1>7, <2>2, SavedEndStored DEF Save
<1>8. CASE Test(d)
  <2>1. PICK q \in {"tested", "test_failed"} : Goto(d, q)
    BY <1>8 DEF Test
  <2> DEFINE o == [op[d] EXCEPT !.pc = q]
  <2>2. op' = [op EXCEPT ![d] = o]
    BY <1>0, <2>1 DEF Goto, ControlT
  <2>3. OpStored(o)
    BY <1>0 DEF OpStored, StoredIn, Operation
  <2>4. UNCHANGED <<Store, state>>
    BY <1>8 DEF Test, Disk
  <2> HIDE DEF o
  <2> QED BY <2>2, <2>3, <2>4, MoveStored
<1>9. CASE TestShown(d)
  <2>1. OpStored(NoOp)
    BY NewOpStored DEF NoOp
  <2> QED BY <1>9, <2>1, MoveStored DEF TestShown, Disk
<1> QED BY <1>1, <1>2, <1>3, <1>4, <1>5, <1>6, <1>7, <1>8, <1>9

(* Of the other steps only the clean-up touches the store; the others record *)
(* no baseline and spawn no clean-up task, and an operation they start or end *)
(* carries nothing.                                                          *)
LEMMA OtherEffect ==
    ASSUME TInv, NEW d \in Device, Other(d), ~CleanUp(d)
    PROVE  /\ UNCHANGED <<Store, state>>
           /\ \A e \in Device : gc'[e] \subseteq gc[e]
           /\ \/ UNCHANGED op
              \/ \E k, t, c : \E pc \in {"idle", "load", "read_current", "test"} :
                     op' = [op EXCEPT ![d] = NewOp(k, t, pc, c)]
<1> DEFINE Begun == \E k, t, c : \E pc \in {"idle", "load", "read_current", "test"} :
                        op' = [op EXCEPT ![d] = NewOp(k, t, pc, c)]
<1>0. ControlT /\ gc \in [Device -> SUBSET {"current", "latest", "snapshots"}]
  BY DEF TInv, RestT
<1>1. ASSUME NEW k, NEW t, NEW c, NEW pc \in {"load", "read_current"}, Start(d, c, k, t, pc)
      PROVE  UNCHANGED op \/ Begun
  BY <1>1 DEF Start
<1>2. ASSUME NEW k, NEW t, NEW c, NEW pc \in {"idle", "load", "read_current", "test"},
             op' = [op EXCEPT ![d] = NewOp(k, t, pc, c)]
      PROVE  Begun
  BY <1>2
<1>3. ASSUME op' = [op EXCEPT ![d] = NoOp] PROVE Begun
  BY <1>2, <1>3 DEF NoOp
<1> HIDE DEF Begun
<1>4. CASE Outside(d)
  BY <1>4 DEF Outside, Disk
<1>5. ASSUME NEW c, Outcome(d, c) PROVE Outside(d)
  BY <1>5 DEF Outcome, reset_automatic_retry, ReadStatus, ShowFailure, RecordRetry
<1>6. CASE \/ DecideRetry(d) \/ SkipShown(d) \/ handle_runtime_check_failure(d)
           \/ QuietFailure(d) \/ Settings(d) \/ BackoffEnds(d)
  <2>1. Outside(d)
    BY <1>6 DEF DecideRetry, SkipShown, handle_runtime_check_failure, QuietFailure, Settings,
                ResetByReplace, set_status_after_settings_replace, BackoffEnds
  <2> QED BY <1>4, <2>1
<1>7. CASE \/ PushGate(d) \/ AutoPushDropped(d) \/ CheckGate(d) \/ CheckSkipped(d)
           \/ AutoPushTimesOut(d)
  BY <1>7 DEF PushGate, AutoPushDropped, CheckGate, CheckSkipped, AutoPushTimesOut, Disk
<1>8. CASE AutoPush(d) \/ Repair(d)
  <2>1. UNCHANGED op \/ Begun
    BY <1>1, <1>8 DEF AutoPush, Repair
  <2> QED BY <1>8, <2>1 DEF AutoPush, Repair, Disk, Begun
<1>9. CASE Check(d)
  <2>1. UNCHANGED op \/ Begun
    BY <1>2, <1>9 DEF Check
  <2> QED BY <1>9, <2>1 DEF Check, Disk, Begun
<1>10. CASE TestConnection(d)
  <2>1. Begun
    BY <1>2, <1>10 DEF TestConnection
  <2> QED BY <1>10, <2>1 DEF TestConnection, Disk, Begun
<1>11. ASSUME NEW c \in Commands, Command(d, c)
       PROVE  UNCHANGED <<Store, state, gc>> /\ (UNCHANGED op \/ Begun)
  <2>1. OperationOf[c][2] \in {"load", "read_current"}
    BY <1>11 DEF Command, OperationOf
  <2> QED BY <1>1, <1>11, <2>1 DEF Command, Disk
<1>12. ASSUME NEW c \in Commands, ReplaceSettings(d, c) PROVE UNCHANGED <<Store, state, gc, op>>
  BY <1>12 DEF ReplaceSettings, Disk
<1>13. CASE CleanUpFails(d)
  BY <1>0, <1>13 DEF CleanUpFails, Disk
<1>14. CASE OperationFails(d)
  <2>1. Begun
    BY <1>0, <1>3, <1>14, EndType DEF OperationFails
  <2> QED BY <1>14, <2>1 DEF OperationFails, Disk, Begun
<1>15. CASE Edit(d)
  BY <1>15 DEF Edit
<1>16. CASE Restart(d)
  <2>1. Begun
    BY <1>3, <1>16 DEF Restart
  <2> QED BY <1>0, <1>16, <2>1 DEF Restart, Disk, Begun
<1>17. CASE PushWorker(d) \/ CheckWorker(d) \/ User(d)
  BY <1>4, <1>5, <1>6, <1>7, <1>8, <1>9, <1>17 DEF PushWorker, CheckWorker, User
<1> QED BY <1>6, <1>7, <1>10, <1>11, <1>12, <1>13, <1>14, <1>15, <1>16, <1>17 DEF Other, Begun

(* The steps outside an operation record no baseline, and take from the      *)
(* store at most what the clean-up deletes.                                  *)
LEMMA StoredOther ==
    ASSUME TInv, BInv, NEW d \in Device, Other(d)
    PROVE  BInv'
<1>1. CASE ~CleanUp(d)
  <2>1. CASE UNCHANGED op
    <3>1. UNCHANGED <<Store, state>>
      BY <1>1, OtherEffect
    <3> QED BY <2>1, <3>1 DEF BInv, OpsStored, OpStored, StoreStored, BaselineWasStored, Store
  <2>2. ASSUME NEW k, NEW t, NEW c, NEW pc \in {"idle", "load", "read_current", "test"},
               op' = [op EXCEPT ![d] = NewOp(k, t, pc, c)]
        PROVE  BInv'
    <3>1. OpStored(NewOp(k, t, pc, c)) /\ UNCHANGED <<Store, state>>
      BY <1>1, NewOpStored, OtherEffect
    <3> QED BY <2>2, <3>1, MoveStored
  <2> QED BY <1>1, <2>1, <2>2, OtherEffect
<1>2. CASE CleanUp(d)
  <2>1. PICK g \in gc[d] :
            /\ remote' = CASE g = "current"   -> [remote EXCEPT !.current = None]
                           [] g = "latest"    -> [remote EXCEPT !.latest = None]
                           [] g = "snapshots" -> [remote EXCEPT !.snapshots = {}]
            /\ UNCHANGED <<op, published, state>>
    BY <1>2 DEF CleanUp, Disk
  <2>2. g \in {"current", "latest", "snapshots"}
    BY DEF TInv, RestT
  <2>3. StoreStored'
    BY <2>1, <2>2 DEF BInv, StoreStored, TInv, StoreT
  <2> QED BY <2>1, <2>3 DEF BInv, OpsStored, OpStored, BaselineWasStored
<1> QED BY <1>1, <1>2

(* Initially the store holds what was stored, unless its pointer dangles.   *)
LEMMA InitStored == "dangling" \notin Layouts /\ Init => BInv
<1> SUFFICES ASSUME NEW l \in Layouts \ {"dangling"},
                    remote = InitialStore(l),
                    state = [d \in Device |-> IF l = "shared"
                                             THEN [synced |-> DefaultConfig, applied |-> 1]
                                             ELSE [synced |-> None, applied |-> None]],
                    published = remote.snapshots \cup ({remote.stable} \ {None}),
                    op = [d \in Device |-> NoOp]
             PROVE  BInv
  BY DEF Init
<1>1. OpsStored
  BY NewOpStored DEF OpsStored, NoOp
<1>2. l \in {"empty", "shared", "legacy", "named"}
  BY CloudSyncAssumption
<1>3. StoreStored
  BY <1>2 DEF StoreStored, InitialStore, EmptyStore, LegacyStore
<1>4. BaselineWasStored
  <2>1. CASE l = "shared"
    <3> DEFINE sd == [rev |-> 1, hash |-> DefaultConfig]
    <3>1. sd \in Snapshot /\ None \notin Snapshot
      BY InitialConfigs, CloudSyncAssumption DEF Snapshot, Revision, Config
    <3>2. remote.stable = sd
      BY <2>1 DEF InitialStore, EmptyStore
    <3>3. sd \in published
      BY <3>1, <3>2
    <3> QED BY <2>1, <3>3 DEF BaselineWasStored
  <2>2. CASE l # "shared"
    BY <2>2 DEF BaselineWasStored
  <2> QED BY <2>1, <2>2
<1> QED BY <1>1, <1>3, <1>4 DEF BInv

(* Everything that is read, carried or recorded was stored as it is.         *)
LEMMA StoredInduction == "dangling" \notin Layouts => (Spec => []BInv)
<1> SUFFICES ASSUME "dangling" \notin Layouts PROVE Spec => []BInv
  OBVIOUS
<1>1. Init => BInv
  BY InitStored
<1>2. TInv /\ BInv /\ [Next]_vars => BInv'
  <2> SUFFICES ASSUME TInv, BInv, [Next]_vars PROVE BInv'
    OBVIOUS
  <2>1. CASE UNCHANGED vars
    BY <2>1 DEF vars, BInv, OpsStored, OpStored, StoreStored, BaselineWasStored
  <2>2. ASSUME NEW d \in Device, Step(d) PROVE BInv'
    BY <2>2, StoredStepRead, StoredStepWrite DEF Step
  <2> QED BY <2>1, <2>2, StoredOther, NextSteps
<1> QED BY <1>1, <1>2, TypeInduction, PTL DEF Spec

(* The baseline a device records was one revision of the store, with the     *)
(* hash and the revision that belong together: for any number of devices,    *)
(* concurrent uploads, edits during an operation, failures and restarts      *)
(* (push_snapshot, pull_snapshot_locked, check_remote, and the migration of  *)
(* an older store).  The one store it needs to exclude is the one whose      *)
(* pointer names a snapshot that was deleted before: see README.             *)
THEOREM BaselineIsStored == "dangling" \notin Layouts => (Spec => []BaselineWasStored)
<1>1. BInv => BaselineWasStored
  BY DEF BInv
<1> QED BY <1>1, StoredInduction, PTL

-----------------------------------------------------------------------------
(* The store stays readable.  The stable object, once written, is replaced   *)
(* and never deleted; before it is written no device counts on the store and *)
(* no clean-up task runs.                                                    *)

(* Every revision that was stored is a UUID.                                 *)
Uuids == \A s \in published : IsUuid(s.rev)

(* An operation that has written nothing yet; one that follows a pointer has *)
(* the current copy to fall back on.                                         *)
BeforeWrite(o, rm) ==
    /\ o.pc \in {"idle", "load", "resolve", "compat", "migrate", "read_current", "upload",
               "test", "tested", "test_failed"}
    /\ o.pc \in {"resolve", "compat", "migrate"} => rm.current # None

(* The store before anything is written to it.                               *)
Untouched ==
    /\ remote.latest # None => remote.current # None
    /\ \A d \in Device : /\ state[d].synced = None
                         /\ gc[d] = {}
                         /\ BeforeWrite(op[d], remote)

RInv == Uuids /\ (remote.stable = None => Untouched)

(* A new revision is a UUID.                                                 *)
LEMMA FreshIsUuid == ASSUME StoreT PROVE IsUuid(FreshRev)
<1>1. Cardinality(published) \in Nat
  BY FS_CardinalityType DEF StoreT
<1> QED BY <1>1 DEF FreshRev, IsUuid, NamedRev

(* The snapshot that a migration or an upload writes is named by a UUID.     *)
LEMMA WrittenIsUuid ==
    ASSUME TInv, BInv, Uuids, NEW d \in Device, Migrate(d) \/ Upload(d)
    PROVE  \E s : /\ IsUuid(s.rev)
                 /\ s \in Snapshot
                 /\ remote' = upload_sync_snapshot(remote, s)
                 /\ published' = published \cup {s}
<1>0. op[d] \in Operation /\ OpShape(op[d]) /\ OpStored(op[d])
  BY OpOf DEF TInv, BInv, OpsStored
<1>1. CASE Migrate(d)
  <2>1. op[d].snap \in published
    BY <1>0, <1>1 DEF Migrate, At, OpStored, StoredIn
  <2> QED BY <1>1, <2>1 DEF Migrate, Uuids, TInv, StoreT
<1>2. CASE Upload(d) /\ op[d].kind = "push"
  <2> DEFINE s == [rev |-> FreshRev, hash |-> op[d].env]
  <2>1. s \in Snapshot /\ s.rev = FreshRev
    <3>1. op[d].env \in Config
      BY <1>0, <1>2 DEF Upload, At, OpShape, Forced
    <3> QED BY <3>1, FreshRevType DEF Snapshot, TInv
  <2>2. IsUuid(s.rev)
    BY <2>1, FreshIsUuid DEF TInv
  <2> QED BY <1>2, <2>1, <2>2 DEF Upload
<1>3. CASE Upload(d) /\ op[d].kind # "push"
  <2>1. op[d].snap \in published
    BY <1>0, <1>3 DEF Upload, At, OpStored, StoredIn
  <2> QED BY <1>3, <2>1 DEF Upload, Uuids, TInv, StoreT
<1> QED BY <1>1, <1>2, <1>3

(* Writing a snapshot creates the stable object, or replaces it.             *)
LEMMA WriteReadable ==
    ASSUME TInv, BInv, RInv, NEW d \in Device, Migrate(d) \/ Upload(d)
    PROVE  RInv'
<1>1. PICK s : /\ IsUuid(s.rev)
               /\ s \in Snapshot
               /\ remote' = upload_sync_snapshot(remote, s)
               /\ published' = published \cup {s}
  BY WrittenIsUuid DEF RInv
<1>2. remote'.stable = s
  BY <1>1 DEF upload_sync_snapshot, TInv, StoreT
<1>3. s # None
  BY <1>1, CloudSyncAssumption DEF Snapshot, Revision, Config
<1>4. Uuids'
  BY <1>1 DEF RInv, Uuids
<1> QED BY <1>2, <1>3, <1>4 DEF RInv

(* With the stable object there, a step only must not delete it.             *)
LEMMA StableReadable ==
    ASSUME RInv, UNCHANGED published, remote.stable # None, remote'.stable = remote.stable
    PROVE  RInv'
  BY DEF RInv, Uuids

(* Before the first write, a step of one device leaves the store, the        *)
(* baselines and the clean-up tasks alone, and moves its operation.          *)
LEMMA EarlyReadable ==
    ASSUME TInv, RInv, UNCHANGED <<Store, state>>, remote.stable = None,
           NEW d \in Device,
           \A e \in Device : gc'[e] \subseteq gc[e],
           \A e \in Device \ {d} : op'[e] = op[e],
           BeforeWrite(op'[d], remote)
    PROVE  RInv'
<1>1. Uuids'
  BY DEF RInv, Uuids, Store
<1>2. Untouched'
  <2>1. ASSUME NEW e \in Device
        PROVE  /\ state'[e].synced = None
               /\ gc'[e] = {}
               /\ BeforeWrite(op'[e], remote)
    <3>1. CASE e = d
      BY <3>1 DEF RInv, Untouched
    <3>2. CASE e # d
      BY <3>2 DEF RInv, Untouched
    <3> QED BY <3>1, <3>2
  <2>2. remote' = remote
    BY DEF Store
  <2> QED BY <2>1, <2>2 DEF RInv, Untouched, BeforeWrite
<1> QED BY <1>1, <1>2 DEF RInv

(* An operation that has ended writes nothing.                                *)
LEMMA EndEarly ==
    ASSUME ControlT, NEW d \in Device,
           Succeed(d, "idle") \/ Notice(d) \/ EndInConflict(d) \/ \E e : Fail(d, e)
    PROVE  /\ \A e \in Device \ {d} : op'[e] = op[e]
           /\ op'[d].pc = "idle"
<1>1. op' = [op EXCEPT ![d] = NoOp]
  BY EndType
<1> QED BY <1>1 DEF ControlT, NoOp, NewOp

(* Before the first write every step of an operation that does not write     *)
(* leaves the store as it is: no pointer can be validated, and an operation  *)
(* that follows the legacy pointer finds the current copy.                   *)
LEMMA StepEarly ==
    ASSUME TInv, BInv, RInv, remote.stable = None, NEW d \in Device,
           Step(d), ~Migrate(d), ~Upload(d)
    PROVE  RInv'
<1>0. /\ op[d] \in Operation /\ OpShape(op[d]) /\ OpStored(op[d])
      /\ BeforeWrite(op[d], remote)
      /\ remote.latest # None => remote.current # None
      /\ ControlT
  BY OpOf DEF TInv, BInv, OpsStored, RInv, Untouched
<1>1. op[d].pc \in {"idle", "load", "resolve", "compat", "migrate", "read_current", "upload",
                   "test", "tested", "test_failed"}
  BY <1>0 DEF BeforeWrite
<1>2. Load(d) \/ Resolve(d) \/ Compat(d) \/ ReadCurrent(d) \/ Test(d) \/ TestShown(d)
  BY <1>1 DEF Step, At, Reverify, Verify, Commit, Apply, Refresh, Save
<1>3. UNCHANGED <<Store, gc>>
  BY <1>2 DEF Load, Resolve, Compat, ReadCurrent, Test, TestShown
<1>4. ASSUME UNCHANGED state, Succeed(d, "idle") \/ Notice(d) \/ EndInConflict(d) \/ \E e : Fail(d, e)
      PROVE  RInv'
  <2>1. /\ \A e \in Device \ {d} : op'[e] = op[e]
        /\ op'[d].pc = "idle"
    BY <1>0, <1>4, EndEarly
  <2>2. BeforeWrite(op'[d], remote)
    BY <2>1 DEF BeforeWrite
  <2> QED BY <1>3, <1>4, <2>1, <2>2, EarlyReadable
<1>5. ASSUME NEW o, op' = [op EXCEPT ![d] = o], UNCHANGED state, BeforeWrite(o, remote)
      PROVE  RInv'
  <2>1. op'[d] = o /\ \A e \in Device \ {d} : op'[e] = op[e]
    BY <1>0, <1>5 DEF ControlT
  <2> QED BY <1>3, <1>5, <2>1, EarlyReadable
<1>6. CASE Load(d)
  <2> DEFINE p == load_sync_pointer(remote)
  <2>0. LoadForPush(d, p) \/ LoadForPull(d, p) \/ LoadForCheck(d, p)
    BY <1>6 DEF Load
  <2>1. p # None => remote.current # None
    BY <1>0 DEF load_sync_pointer
  <2>2. UNCHANGED state
    BY <1>6 DEF Load, Disk
  <2> HIDE DEF p
  <2>3. CASE LoadForPush(d, p)
    <3> DEFINE q == IF p # None /\ p.hash = op[d].env THEN "resolve" ELSE "upload"
               o == [op[d] EXCEPT !.ptr = p, !.pc = q]
    <3>1. op' = [op EXCEPT ![d] = o]
      BY <1>0, <2>3 DEF LoadForPush, ControlT
    <3>2. o.pc = q
      BY <1>0 DEF Operation
    <3> HIDE DEF o
    <3>3. BeforeWrite(o, remote)
      BY <2>1, <3>2 DEF BeforeWrite
    <3> QED BY <1>5, <2>2, <3>1, <3>3
  <2>4. CASE LoadForPull(d, p) /\ ~Fail(d, "config")
    <3> DEFINE o == [op[d] EXCEPT !.ptr = p, !.pc = "resolve", !.env = local[d]]
    <3>1. op' = [op EXCEPT ![d] = o] /\ p # None
      BY <1>0, <2>4 DEF LoadForPull, ControlT
    <3>2. o.pc = "resolve"
      BY <1>0 DEF Operation
    <3> HIDE DEF o
    <3>3. BeforeWrite(o, remote)
      BY <2>1, <3>1, <3>2 DEF BeforeWrite
    <3> QED BY <1>5, <2>2, <3>1, <3>3
  <2>5. CASE LoadForCheck(d, p) /\ ~Notice(d)
    <3> DEFINE o == [op[d] EXCEPT !.ptr = p, !.pc = "resolve"]
    <3>1. op' = [op EXCEPT ![d] = o] /\ p # None
      BY <1>0, <2>5 DEF LoadForCheck, ControlT
    <3>2. o.pc = "resolve"
      BY <1>0 DEF Operation
    <3> HIDE DEF o
    <3>3. BeforeWrite(o, remote)
      BY <2>1, <3>1, <3>2 DEF BeforeWrite
    <3> QED BY <1>5, <2>2, <3>1, <3>3
  <2> QED BY <1>4, <2>0, <2>2, <2>3, <2>4, <2>5
<1>7. CASE Resolve(d)
  <2>1. op[d].ptr \in published /\ remote.current # None
    BY <1>0, <1>7 DEF Resolve, At, OpStored, StoredIn, BeforeWrite
  <2>2. ObjectAt(remote, op[d].ptr.rev) = None
    BY <2>1 DEF ObjectAt, RInv, Uuids
  <2>3. /\ op' = [op EXCEPT ![d].pc = "compat", ![d].err = "missing"]
        /\ UNCHANGED state
    BY <1>7, <2>2 DEF Resolve, Validates
  <2> DEFINE o == [op[d] EXCEPT !.pc = "compat", !.err = "missing"]
  <2>4. op' = [op EXCEPT ![d] = o]
    BY <1>0, <2>3 DEF ControlT
  <2>5. o.pc = "compat"
    BY <1>0 DEF Operation
  <2> HIDE DEF o
  <2>6. BeforeWrite(o, remote)
    BY <2>1, <2>5 DEF BeforeWrite
  <2> QED BY <1>5, <2>3, <2>4, <2>6
<1>8. CASE Compat(d)
  <2> DEFINE c == read_current_sync_snapshot_compat(remote)
  <2>1. remote.current # None
    BY <1>0, <1>8 DEF Compat, At, BeforeWrite
  <2>2. c # None
    BY <2>1 DEF read_current_sync_snapshot_compat
  <2>3. \/ /\ op' = [op EXCEPT ![d] = [op[d] EXCEPT !.pc = "migrate", !.snap = c]]
           /\ UNCHANGED state
        \/ EndInConflict(d) /\ UNCHANGED state
    BY <1>8, <2>2 DEF Compat
  <2> DEFINE o == [op[d] EXCEPT !.pc = "migrate", !.snap = c]
  <2>4. o.pc = "migrate"
    BY <1>0 DEF Operation
  <2>5. \/ op' = [op EXCEPT ![d] = o] /\ UNCHANGED state
        \/ EndInConflict(d) /\ UNCHANGED state
    BY <2>3
  <2> HIDE DEF o, c
  <2>6. BeforeWrite(o, remote)
    BY <2>1, <2>4 DEF BeforeWrite
  <2> QED BY <1>4, <1>5, <2>5, <2>6
<1>9. CASE ReadCurrent(d)
  <2>1. UNCHANGED state
    BY <1>9 DEF ReadCurrent, Disk
  <2>2. CASE Fail(d, "config")
    BY <1>4, <2>1, <2>2
  <2>3. CASE ~Fail(d, "config")
    <3>1. PICK c : op' = [op EXCEPT ![d].pc = "upload", ![d].snap = c]
      BY <1>9, <2>3 DEF ReadCurrent
    <3> DEFINE o == [op[d] EXCEPT !.pc = "upload", !.snap = c]
    <3>2. op' = [op EXCEPT ![d] = o]
      BY <1>0, <3>1 DEF ControlT
    <3>3. o.pc = "upload"
      BY <1>0 DEF Operation
    <3> HIDE DEF o
    <3>4. BeforeWrite(o, remote)
      BY <3>3 DEF BeforeWrite
    <3> QED BY <1>5, <2>1, <3>2, <3>4
  <2> QED BY <2>2, <2>3
<1>10. CASE Test(d)
  <2>1. PICK q \in {"tested", "test_failed"} : Goto(d, q)
    BY <1>10 DEF Test
  <2> DEFINE o == [op[d] EXCEPT !.pc = q]
  <2>2. op' = [op EXCEPT ![d] = o]
    BY <1>0, <2>1 DEF Goto, ControlT
  <2>3. BeforeWrite(o, remote)
    BY <1>0 DEF BeforeWrite, Operation
  <2>4. UNCHANGED state
    BY <1>10 DEF Test, Disk
  <2> HIDE DEF o
  <2> QED BY <1>5, <2>2, <2>3, <2>4
<1>11. CASE TestShown(d)
  <2>1. BeforeWrite(NoOp, remote)
    BY DEF BeforeWrite, NoOp, NewOp
  <2> QED BY <1>5, <1>11, <2>1 DEF TestShown, Disk
<1> QED BY <1>2, <1>6, <1>7, <1>8, <1>9, <1>10, <1>11

(* A step that does not write leaves the stable object and the history: the  *)
(* pointer and the current copy are written for old revisions only, and the  *)
(* refresh writes what was stored.                                           *)
LEMMA StableKept ==
    ASSUME TInv, BInv, Uuids, remote.stable # None, NEW d \in Device,
           Step(d), ~Migrate(d), ~Upload(d)
    PROVE  UNCHANGED published /\ remote'.stable # None
<1>0. /\ op[d] \in Operation /\ OpShape(op[d]) /\ OpStored(op[d])
      /\ remote \in [stable: Snapshot \cup {None}, latest: Snapshot \cup {None},
                     current: Snapshot \cup {None}, snapshots: SUBSET Snapshot]
  BY OpOf DEF TInv, BInv, OpsStored, StoreT
<1>1. CASE Commit(d)
  BY <1>0, <1>1 DEF Commit, commit_sync_pointer
<1>2. CASE Refresh(d)
  <2>1. op[d].snap \in published /\ op[d].snap \in Snapshot
    BY <1>0, <1>2 DEF Refresh, At, OpStored, StoredIn, OpShape, Forced
  <2>2. op[d].snap # None
    BY <2>1, CloudSyncAssumption DEF Snapshot, Revision, Config
  <2>3. remote' = remote \/ remote' = [remote EXCEPT !.stable = op[d].snap]
    BY <1>2, <2>1 DEF Refresh, write_current_sync_snapshot_compat, upload_sync_snapshot, Uuids
  <2>4. remote'.stable \in {remote.stable, op[d].snap}
    BY <1>0, <2>3
  <2> QED BY <1>2, <2>2, <2>4 DEF Refresh
<1>3. CASE ~Commit(d) /\ ~Refresh(d)
  BY <1>3 DEF Step, Load, Resolve, Compat, Reverify, ReadCurrent, Verify, Apply, Save, Test, TestShown,
              Store
<1> QED BY <1>1, <1>2, <1>3

(* The other steps of a device delete legacy objects only.                   *)
LEMMA OtherReadable ==
    ASSUME TInv, RInv, NEW d \in Device, Other(d)
    PROVE  RInv'
<1>0. /\ ControlT
      /\ remote \in [stable: Snapshot \cup {None}, latest: Snapshot \cup {None},
                     current: Snapshot \cup {None}, snapshots: SUBSET Snapshot]
      /\ gc \in [Device -> SUBSET {"current", "latest", "snapshots"}]
  BY DEF TInv, StoreT, RestT
<1>1. CASE CleanUp(d)
  <2>1. PICK g \in gc[d] :
             remote' = CASE g = "current"   -> [remote EXCEPT !.current = None]
                         [] g = "latest"    -> [remote EXCEPT !.latest = None]
                         [] g = "snapshots" -> [remote EXCEPT !.snapshots = {}]
    BY <1>1 DEF CleanUp
  <2>2. g \in {"current", "latest", "snapshots"}
    BY <1>0
  <2>3. remote'.stable = remote.stable
    BY <1>0, <2>1, <2>2
  <2>4. remote.stable # None
    BY DEF RInv, Untouched
  <2>5. UNCHANGED published
    BY <1>1 DEF CleanUp
  <2> QED BY <2>3, <2>4, <2>5, StableReadable
<1>2. CASE ~CleanUp(d)
  <2>1. UNCHANGED <<Store, state>> /\ \A e \in Device : gc'[e] \subseteq gc[e]
    BY <1>2, OtherEffect
  <2>2. CASE remote.stable # None
    BY <2>1, <2>2, StableReadable DEF Store
  <2>3. CASE remote.stable = None
    <3>1. BeforeWrite(op[d], remote)
      BY <2>3 DEF RInv, Untouched
    <3>2. CASE UNCHANGED op
      BY <2>1, <2>3, <3>1, <3>2, EarlyReadable
    <3>3. ASSUME NEW k, NEW t, NEW c, NEW pc \in {"idle", "load", "read_current", "test"},
                 op' = [op EXCEPT ![d] = NewOp(k, t, pc, c)]
          PROVE  RInv'
      <4>1. op'[d].pc = pc /\ \A e \in Device \ {d} : op'[e] = op[e]
        BY <1>0, <3>3 DEF ControlT, NewOp
      <4>2. BeforeWrite(op'[d], remote)
        BY <4>1 DEF BeforeWrite
      <4> QED BY <2>1, <2>3, <4>1, <4>2, EarlyReadable
    <3> QED BY <1>2, <3>2, <3>3, OtherEffect
  <2> QED BY <2>2, <2>3
<1> QED BY <1>1, <1>2

(* The stores a behaviour starts from: one that was never used, one that is  *)
(* shared, or one that an older version left with its current copy.          *)
LEMMA InitReadable ==
    {"dangling", "named"} \cap Layouts = {} /\ Init => RInv
<1> SUFFICES ASSUME {"dangling", "named"} \cap Layouts = {}, Init PROVE RInv
  OBVIOUS
<1>1. PICK l \in Layouts :
           /\ remote = InitialStore(l)
           /\ state = [d \in Device |-> IF l = "shared"
                                       THEN [synced |-> DefaultConfig, applied |-> 1]
                                       ELSE [synced |-> None, applied |-> None]]
  BY DEF Init
<1>2. l \in {"empty", "shared", "legacy"}
  BY CloudSyncAssumption
<1>3. published = remote.snapshots \cup ({remote.stable} \ {None})
  BY DEF Init
<1>4. \A d \in Device : gc[d] = {} /\ BeforeWrite(op[d], remote)
  BY DEF Init, BeforeWrite, NoOp, NewOp
<1> DEFINE s1 == [rev |-> 1, hash |-> LegacyConfig]
           sd == [rev |-> 1, hash |-> DefaultConfig]
<1>5. IsUuid(s1.rev) /\ IsUuid(sd.rev)
  BY DEF IsUuid, NamedRev
<1>6. s1 # None /\ sd # None
  BY InitialConfigs, CloudSyncAssumption DEF Config
<1>7. \/ l = "empty" /\ remote = EmptyStore
      \/ l = "shared" /\ remote = [EmptyStore EXCEPT !.stable = sd]
      \/ l = "legacy" /\ remote = LegacyStore(s1)
  BY <1>1, <1>2 DEF InitialStore
<1> HIDE DEF s1, sd
<1>8. CASE l = "shared"
  <2>1. remote.stable = sd /\ remote.snapshots = {}
    BY <1>7, <1>8 DEF EmptyStore
  <2> QED BY <1>3, <1>5, <1>6, <2>1 DEF RInv, Uuids
<1>9. CASE l # "shared"
  <2>1. /\ remote.stable = None
        /\ remote.snapshots \subseteq {s1}
        /\ remote.latest # None => remote.current # None
    BY <1>7, <1>9 DEF EmptyStore, LegacyStore
  <2>2. \A d \in Device : state[d].synced = None
    BY <1>1, <1>9
  <2> QED BY <1>3, <1>4, <1>5, <2>1, <2>2 DEF RInv, Uuids, Untouched
<1> QED BY <1>8, <1>9

(* While some device counts on the store, the store can be restored from, for *)
(* any number of devices, failures and restarts between any two awaits: the  *)
(* clean-up of the legacy objects only ever runs beside the stable object    *)
(* (migrate_legacy_snapshot and push_snapshot write it first).  A store whose *)
(* pointer dangles, or whose revisions are no UUIDs, is not covered.         *)
THEOREM StoreStaysRestorable ==
    {"dangling", "named"} \cap Layouts = {} => (Spec => []StoreRestorable)
<1> SUFFICES ASSUME {"dangling", "named"} \cap Layouts = {}
             PROVE  Spec => []StoreRestorable
  OBVIOUS
<1>1. Init => RInv
  BY InitReadable
<1>2. TInv /\ BInv /\ RInv /\ [Next]_vars => RInv'
  <2> SUFFICES ASSUME TInv, BInv, RInv, [Next]_vars PROVE RInv'
    OBVIOUS
  <2>1. CASE UNCHANGED vars
    BY <2>1 DEF vars, RInv, Uuids, Untouched
  <2>2. ASSUME NEW d \in Device, Step(d) PROVE RInv'
    <3>1. CASE Migrate(d) \/ Upload(d)
      BY <3>1, WriteReadable
    <3>2. CASE ~Migrate(d) /\ ~Upload(d) /\ remote.stable = None
      BY <2>2, <3>2, StepEarly
    <3>3. CASE ~Migrate(d) /\ ~Upload(d) /\ remote.stable # None
      <4>1. UNCHANGED published /\ remote'.stable # None
        BY <2>2, <3>3, StableKept DEF RInv
      <4> QED BY <4>1 DEF RInv, Uuids
    <3> QED BY <3>1, <3>2, <3>3
  <2> QED BY <2>1, <2>2, OtherReadable, NextSteps
<1>3. RInv => StoreRestorable
  <2> SUFFICES ASSUME RInv, NEW d \in Device, state[d].synced # None
               PROVE  Restorable(remote) # None
    BY DEF StoreRestorable
  <2>1. remote.stable # None
    BY DEF RInv, Untouched
  <2>2. read_current_sync_snapshot_compat(remote) # None
    BY <2>1 DEF read_current_sync_snapshot_compat
  <2> QED BY <2>2 DEF Restorable, Validates
<1>4. "dangling" \notin Layouts
  OBVIOUS
<1> QED BY <1>1, <1>2, <1>3, <1>4, TypeInduction, StoredInduction, PTL DEF Spec

=============================================================================

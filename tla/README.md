# Verification of NiceTerm's core

NiceTerm (NyaTerm in its documentation) is a desktop terminal: a Rust backend
(`src-tauri/src/`) that runs terminal, SSH, file-transfer and remote-desktop
sessions and keeps the configuration, and a React frontend (`src/`) that draws
them. This directory holds TLA+ models of the parts whose correctness depends
on interleavings, failures and restarts, the TLC runs that check them and the
TLAPS proofs about them. `PROJECT.json` maps every definition to its lines.

## 1. Inventory

### 1.1 Components

| Component | State | Operations | Interacts with |
|---|---|---|---|
| Session output coalescer (`core/output.rs`) | queue of pending text, unacknowledged bytes, attached, paused, flush identifiers, behind one mutex | push, ack, attach, detach, close, flush (now, by timer, rescheduled) | readers, command loops, timers, webview sink, command channel |
| Terminal session loops (`core/terminal_session/*/session.rs`) | pause flag, reader thread, command loop | read, handle `SessionCommand`s, end | coalescer, session manager |
| SSH I/O loop (`core/ssh/io.rs`) | one task with a biased `select!` | the same, commands before reads | coalescer, SSH channel |
| Acknowledgement coordinator (`components/terminal/outputAckCoordinator.ts`) | leases per session, batch in flight, retry timer | acquire, report, dispose, pump, complete, fail, retry | `ack_session_output` command |
| Cloud sync manager (`core/cloud_sync/manager.rs`) | settings, sync baseline, status, operation lock, retry gate, push permit | push, pull, check, resolve, recover, test, auto-push worker, check worker | remote store, portable snapshot, configuration |
| Sync protocol, migration, clean-up (`protocol.rs`, `migration.rs`, `remote.rs`, `gc.rs`) | objects of the remote store: stable snapshot, legacy pointer, current copy, snapshot directory | load, resolve, upload, verify, commit, refresh, migrate, clean up | all devices of a user |
| Portable snapshot (`core/portable_snapshot/`) | none of its own | build, encode, apply section by section | configuration, storage |
| Session manager (`core/session.rs`) | sessions, command submissions, confirmation queues, save worker | create, submit, confirm, close, delete, reload, flush at shutdown | every session kind, history store |
| Command history store (`core/history/`, `storage/history.rs`) | entries, dirty flag, stored entries | add, delete, trim, prepare, write, load | session manager, portable snapshot |
| SSH client, tunnels, agent broker, X11 (`core/ssh/`) | connections, pending authentications, tunnels | connect, authenticate, forward, reconnect | network |
| SFTP/SCP transfers (`core/sftp/`) | transfer controllers, table of active transfers, duplicate decisions, caches | start, move chunks, retry, pause, resume, cancel, decide | SSH, transfer queue |
| Transfer queue (`context/TransferContext.tsx`, `FileTransfer.tsx`) | map of transfers, waiting requests, parked transfers | enqueue, schedule, handle events, pause, resume, cancel, retry, remove | transfer commands and events |
| MCP host, approvals, capabilities (`core/mcp/`, `core/capabilities/`) | pending approvals, connections, stored output | request, answer, cancel | frontend, sessions |
| Capture, recording, watcher, ZMODEM | per-session parsers and writers | feed, start, stop | session loops |
| AI, quick commands, importer, monitoring | lists, requests | mostly parsing and storage | frontend |
| RDP, VNC | protocol clients, frames | connect, reconnect, input | frontend |
| Storage, configuration | redb tables, settings files | load, save | everything |
| Output drain (`terminalOutputDrain.ts`) | queue, mode, timers, write chain, byte counters | enqueue, schedule, write, acknowledge, wait for idle, dispose | frame gate, xterm, coordinator |
| Frame gate (`dec2026FrameGate.ts`) | prefix, open frame, held frame, deadline | enqueue, hold, replace, flush, fail open, dispose | output events, drain |
| Hibernation (`xterminalHibernationController.ts`, `XTerminal.tsx`, `xterminalSessionEvents.ts`) | phase, epoch, timer, detached epoch, React state | schedule, hibernate, roll back, wake, rebuild | drain, attach and detach commands |

`PROJECT.json` lists all of them with what is modelled of each.

### 1.2 Which behaviours are hard

*Output flow.* Every method of the coalescer decides under the mutex and acts
after releasing it. Reader, command loop and any number of flush timers
interleave between decision and effect: a flush may be lost, bytes may be
emitted twice or out of order, a pause may overtake a resume. Correct means:
nothing queued for an attached renderer is forgotten, nothing is lost or
doubled, the order is kept, the source is paused exactly while the backlog is
high, a catastrophic backlog ends the session.

*Acknowledgements.* Failures, retries, disposal and replacement of terminals
interleave. Correct means: each reported byte is confirmed or given up with its
disposed lease, once; nothing stalls; generations do not overtake each other.

*Cloud sync.* Several devices write a store that offers neither transactions
nor conditional writes; every operation consists of many awaits at which it can
fail, time out or die, while the user edits. Correct means: no unseen snapshot
is overwritten, no edit is lost silently, the recorded baseline is true, the
store stays restorable through migration and clean-up, nobody is left looking at an
operation that no longer runs, and devices agree in the end, or somebody is told or
automation is suspended.

*Renderer.* Animation frames, fallback timers, microtasks, background timers,
write callbacks and waits for idle all drain one queue; the frame gate in front
of it holds and drops output. Correct means: what is drawn is what arrived, in
order; a frame is dropped only if a later one repaints it; the acknowledged
bytes are the drawn or dropped ones; nothing waits without a wake-up.

*Hibernation.* A hidden terminal is drained, detached, drained again and
removed, across four awaits during which it may be shown, rebuilt, receive
output or lose its session. Correct means: a terminal that exists is attached,
draws what it receives, and showing it wakes it.

*Transfers.* Jobs run on backend threads; the panel learns of them by events,
keeps the number of running transfers with a React effect, and sends commands
that may find the job gone, failing or replaced by a retry. Correct means: a
command that reaches a job takes effect, no request is forgotten, and every slot
comes back.

*Command history.* Submissions, shell reports, session ends, deletions, the save
worker, pulls and the shutdown each take two mutexes several times, in any order.
Correct means: a submitted command reaches the history once, no change waits
without a save under way, and the list is in the order of use.

The hazards, each at its line and with the properties aimed at it, are in
`PROJECT.json`.

## 2. Modules

| Module | Models |
|---|---|
| `OutputCoalescer` | the critical sections of the coalescer as operators from a state to a new state and a list of effects still to be performed |
| `OutputFlow` (extends it) | reader, command loop, timers, channel, renderer; one action per section and per effect |
| `MCOutputFlow` | instance for TLC |
| `OutputFlowProofs` | inductive invariant and theorems about `OutputFlow` |
| `OutputBytesProofs` (extends it) | theorems about its bytes, backlog, pause and overflow |
| `OutputAck` | the acknowledgement coordinator, one action per callback |
| `OutputAckProofs` | theorems about `OutputAck` |
| `CloudSync` | devices, their managers and the shared store, one action per await |
| `CloudSyncProofs` | invariants and theorems about `CloudSync` |
| `MCCloudSync` | instance for TLC, with the symmetry of the devices |
| `OutputCredit` | abstract specification: what the renderer promises flow control |
| `TerminalDrain` | the drain's methods and callbacks as operators on its state |
| `FrameGate` | the frame gate's methods as operators on its state |
| `TerminalOutput` (extends both) | output events, timers, callbacks, waits and disposal, one action per turn of the event loop; implements `OutputCredit` |
| `MCTerminalOutput` | instance for TLC: the chunks in which output arrives |
| `TerminalOutputProofs` | theorems about `TerminalOutput`, with its refinement of `OutputCredit` |
| `Hibernation` | the terminal component's refs, hibernation tasks, commands and the session |
| `HibernationProofs` | theorems about `Hibernation` |
| `TransferBackend` | jobs, controllers, `ACTIVE_TRANSFERS`, transfer commands |
| `Transfers` (extends it) | the transfer queue of the panel on top of the backend |
| `MCTransfers` | instance for TLC, with the symmetry of the transfers |
| `TransfersProofs` | theorems about `Transfers` |
| `CommandHistory` | command submissions of the session manager, the history store, its save worker, shutdown, pull and restart |
| `MCCommandHistory` | instance for TLC, with the symmetry of the commands |
| `CommandHistoryProofs` | theorems about `CommandHistory` |

Definitions whose name has an underscored suffix such as `Succeed_ClearsPermit` are
variants: the operator of that name with one plausible mistake. They are not
part of any specification; replacing the operator by its variant must break a
property, which shows that the property depends on that piece of code.

### 2.1 Output flow

`st` is the `OutputState` behind the mutex. A method such as `push_owned` is an
operator returning `[st, todo]`: `todo` is what the calling thread does after
unlocking, in the source's order: `emit` (call the sink), `send` (a
`SessionCommand`), `spawn` (a timer), and the two effects that take the mutex
again, `flush_pending` and `reschedule`. `jobs` holds the unfinished lists, and
`Perform` executes one effect; a thread is back in its loop when it has no job.
Text is the sequence of the positions of its bytes in the source, so loss,
duplication and order are visible. The chunks of the `VecDeque` are
concatenated, since only their total length is ever tested, and characters have
one byte, so the UTF-8 boundary adjustment of a batch is left out.

`Reader # Command` is the local, serial and telnet layout (two threads, with
the window between looking at the pause flag and reading, `gate`);
`Reader = Command` is SSH, where a read needs an empty command queue because
the `select!` is `biased`. Flush identifiers do not wrap (`wrapping_add` on 64
bits).

### 2.2 Acknowledgement coordinator

JavaScript callbacks run to completion, so each is one action: acquire, report,
dispose, the completion and failure of a batch, and the retry timer. `pump` is
an operator on the session record used by all of them. History variables count
what was reported, confirmed and given up. Lease ids only grow, so the list
`leaseOrder` is always the ids of the map in increasing order and the order of
the ids stands for it. The length of the delay (a timer
that fires at some time) and log throttling are left out.

### 2.3 Cloud sync

`op[d]` is the holder of device d's operation lock together with its program
counter. Each await on the store is one step: `Load`, `Resolve`, `Compat`,
`Migrate`, `Reverify`, `ReadCurrent`, `Upload`, `Verify`, `Commit`, `Apply`
(once per section), `Refresh`, `Save`. `Succeed`, `Notice`, `EndInConflict` and
`Fail` are how operations end; each returns and thereby frees the lock
(`push_snapshot` drops its guard, `manager.rs:744`).

What a caller does before it has the lock and after the operation has returned
is not protected by it. `caller[d][c]` is the program counter of the push
worker, the check worker, the user's command and `replace_settings` there, and
each await of theirs is a step that interleaves with the operations of the
others:

- the push worker takes its permit at the gate (`PushGate`, or
  `AutoPushDropped`), waits for the lock (`AutoPush`, `AutoPushTimesOut`) and
  after a failure looks at the gate again (`DecideRetry`);
- a check passes its gate (`CheckGate`), then takes the lock (`Check`) or finds
  it taken (`CheckSkipped`) and says so in another step (`SkipShown`);
- `Ok` resets the automatic retry (`reset_automatic_retry`); `Err` goes through
  `record_failure`: it reads the status (`ReadStatus`), appends to the history
  and shows the failure (`ShowFailure`), and records the retry or the suspension
  (`RecordRetry`). A check's transient failure takes
  `handle_runtime_check_failure` instead, then goes back to idle
  (`QuietFailure`);
- a manual push that found the snapshot missing asks for the lock again
  (`Repair`);
- `replace_settings` assigns (`ReplaceSettings`), resets the retry
  (`ResetByReplace`) and sets the status, all without the lock;
- `test_connection` does everything under the lock (`TestConnection`, `Test`,
  `TestShown`).

The environment edits, gives commands, changes settings, fails any await
(`OperationFails`, which is also the operation timeout) and restarts the process
(`Restart`).

A configuration is a function from sections to values and stands for its own
hash; a snapshot is a revision and a configuration; a pointer copies both.
`Layouts` lists the stores a run starts from: empty, shared (already
synchronised), legacy (pointer, current copy and snapshot directory of older
versions), dangling (pointer without object) and named (a legacy store whose
revision is not a UUID, which the code still reads).

Abstractions: a revision is drawn when the snapshot is uploaded instead of when
it is built (nothing looks at it between); a check reads the pointer once, the
code twice within the same decision; unreadable objects are failures of the step
that reads them; saving the sync state does not fail; throttles and back-off
durations are the delay of a step; the texts a running operation shows are one
status, `running`; the user gives one command at a time (`isBusy`,
`SyncBackupTab.tsx:1045`), and one `replace_settings` runs at a time; the startup
check is the first periodic one; `auto_push_on_change` is part of `enabled`;
`plan_snapshot_gc` deletes nothing from at most five snapshots. When no run of the
instance starts from a store with objects of an older version, none is ever written,
and the clean-up task, which could delete nothing, is left out (`CleanUpTask`).

A store kept in a GitHub Gist has no runtime checks at all (`manager.rs:646`,
`1612`). `settings[d].checks` is FALSE for it: `CheckGate` is then never enabled,
fairness of `CheckWorker` promises nothing, and news of other devices arrive only
with the user's commands. `cloud_retry` runs with and without checks;
`Convergence` is claimed for devices that have them.

### 2.4 Terminal output

JavaScript runs a callback to its end, so the methods of gate and drain are
operators on their state and an action of `TerminalOutput` is one turn of the
event loop; microtasks come before the next turn (`NextTurn`). Output is a
sequence of units with a position and a kind; a unit is one byte, and control
sequences may be cut between two chunks. The classifier is two predicates on the
kinds in a frame: nothing but drawing, and a reset before anything printable.
Delays are timers that fire at some time, the low-latency decision of
`scheduleForeground` is left open (`fast`), and xterm's write is a chain whose
entries are called back in order or, at most `MaxErrors` times, refused.
`waitForIdle` is a record per call: it writes by itself, polls, and may pass its
deadline at most `MaxTimeouts` times.

`OutputCredit` is the abstract side of flow control: three counters, received,
consumed and acknowledged, that grow and stay in this order until the renderer
closes. The refinement maps them to the events received, the units drawn
(`DrawnBytes`, the bytes among what xterm has processed) or dropped, and the
bytes handed to `onAck` (dropped units are acknowledged by the gate at once). It
joins this module to `OutputFlow`, whose renderer acknowledges at most what was
emitted, and to `OutputAck`, which forwards the acknowledgements.

### 2.5 Hibernation

`r` is the component: refs, React state of the last commit and of the next one,
the drain's mode and backlog. A call of `hibernateRenderer` is a member of
`tasks`, an `invoke` a member of `calls`: it is queued in the session's command
channel, answered, and handled by the session later, in the order of the
channel. What decides eligibility besides visibility, phase and silence is left
open (`eligible`), and so is whether a drain finished or timed out. The clock is
one flag, set when nothing else is under way (`TimePasses`): two minutes without
output are longer than an answer, a commit or a drain.

`overlap` is a history variable that marks a hibernation begun while an attach
was under way; see section 5.

### 2.6 Transfers

A job is a program counter, its tries, the chunks left, the state of its
controller and whether its `Notified` future has been notified. Creating the
future, reading the state and awaiting are separate steps, because pause, resume
and cancel run on other threads. `ACTIVE_TRANSFERS` maps an id to the job whose
controller was registered last. The refused command, the duplicate that is
skipped, the failing input or output and the repeated try are bounded by
`MaxFaults`; the user's retry starts another job under the same id.

In the panel, `items` is the map with every update applied, `shown` the map of
the last render; `dirty` and `effects` say that a render or its effects are due.
The scheduler effect chooses any candidates for the free slots, since only the
Map's order decides among them. The user acts on what is shown. `retried` is a
history variable: the transfers the user has retried.

Abstractions: single files in one direction (no directories, copies or ZMODEM
rows); events and answers arrive in order, calls to the backend in any order,
one call of a kind per transfer at a time; the report, the unregistering and the
answer of a job are one step; the number of retries the settings allow is chosen
when a try fails; the retention limit of 200 finished rows is not reached.

### 2.7 Command history

`submissions` is the map of `CommandSubmissionState`s, `entries` and `dirty` the
store. Each critical section is one step, and an operation with several of them
is a member of `tasks`: adding an entry and requesting its save, the three
sections of `remove_session`, the two of `delete_history_command`. The I/O loop
of a session awaits its own task (`Loop`), commands of the webview run beside
it. The save worker and the shutdown on the main thread prepare a snapshot in one
step and write it in another, which may fail. `permit` is the `Notify`.

A command is what `sanitize_history_command` leaves of it. Times of last use are
ranks, and two uses never fall on the same millisecond. The shell reports the
commands written to it in order, may leave some out and may repeat the last one.
`owed` and `allowed` are history variables: what must be somewhere, and how often
a command may have been counted. The start of a shutdown allows each command it
takes one more count, because the report of it may still come and count again; a
deletion allows one for every session that forgets the command as its last report,
because a repetition of that report is then new. What a full history pushes out,
also while the shutdown adds its list, and what a load does not find, is no longer
owed.

## 3. Runs

| Run | Instance | States | Shows |
|---|---|---|---|
| `output_threads` | two threads, 4 bytes, 2 requests | 4.5 M | types, watermarks, no forgotten flush, no byte lost or doubled, overflow closes |
| `output_task` | one task, 5 bytes, 2 requests, fair | 0.3 M | the backlog passes the high watermark by less than a read; the pause flag agrees once everything is handled; queued output is emitted; a paused source resumes when the renderer acknowledges |
| `ack_coordinator` | 3 leases, 4 bytes, 3 failures, fair | 8 k | no stall, no loss, one final attempt, generations in order, every report settles |
| `cloud_safety` | 2 devices, any 2 of edits, failures, restarts and 1 command of any kind, 2 layouts | 1.2 M | types, baseline, restorable store, nobody is left looking at an operation that no longer runs |
| `cloud_live` | 2 devices that have synchronised before, 2 edits or 1 edit and 1 failure, fair | 57 k | edits are synchronised; devices agree or somebody is told |
| `cloud_retry` | 1 device, 2 sections, all layouts, with and without checks, any 3 of 2 edits, 2 failures and 1 manual push, fair | 0.4 M | retries still get the edits out, or the user is told, or the worker is suspended |
| `cloud_push_overwrites` | 2 devices, 2 edits | violation | section 6 |
| `terminal_output` | 6 units, 1 mode change, 1 wait, 1 timeout, 1 refused write | 1.3 M | types, byte accounting, order on the screen, no lost wake-up, notices after output, nothing lost or dropped without a repaint, refinement of `OutputCredit` |
| `hibernation` | 1 output event, 2 changes of visibility, 1 wake-up, 1 rebuild, fair | 1.2 M | types, a settled terminal is attached and its phase idle, a shown one is not hibernated, showing one wakes it |
| `transfers` | 2 transfers, 1 slot, 2 jobs each, 1 fault, 2 user actions | 2.5 M | types, no wake-up missed, no idle slot, no leaked slot, a parked transfer does not run |
| `command_history` | 1 session, 2 commands, 2 submissions, 1 entry, 1 pending, 2 deletions, pulls, failing writes, shutdowns or restarts | 2.3 M | the limits, no command lost or counted twice, no change without a save under way |
| `history_order` | the same with 2 entries | violation | section 6 |

*Bounds.* Output: 4 bytes with batches of 1 and 2 and watermarks 1 and 3 let a
read cross a batch, fill the high watermark and (at 4) the catastrophic limit;
two requests allow attach, detach and a second attach or a close. Three leases
give a middle generation that is neither oldest nor newest. Cloud sync: two
devices and two values produce every relation between local, baseline and
remote; two edits make both devices change or one change during its own push.
`MaxEvents` bounds edits, commands, failures and restarts together, so that every
pair of them (in `cloud_retry` every three) is met without their product: a command
and a failure, two failures, an edit and a restart, each on any await inside or
outside of the lock; only two commands of the user are not met in one behaviour. Two
events suffice for `cloud_safety`, because checks and automatic pushes need none: a
push that fails while a check waits at its gate is an edit and a failure.
`cloud_retry` needs a third, for the manual push that resets the retry between the
failure and the second look at the gate. Terminal output: six units are a frame, a
cut sequence and a second frame that replaces or does not replace the first; the
chunk sizes make a queue take several writes, and `AckBatch` 2 leaves a remainder to
the timer.
Hibernation: hiding and showing once is the shortest history that enters and
leaves every phase; a rebuild and a wake-up fall on any await. Transfers: two
transfers compete for one slot; the second job is a manual retry, the repeated
try an automatic one, and two messages under way let the news of a repeated try
wait beside an answer. Command history: with room for one pending command and one
entry the second submission overflows the queue, and the second command pushes
the first out of the history. `MaxEdits`, `MaxCommands`,
`MaxFailures`, `MaxCrashes` and their like in the other modules bound only the
environment; operations of the program are unbounded. The exceptions are
`MaxStarts` (jobs of one transfer) and `MaxInbox` (messages under way when the
backend sends more).

*Deadlock* is not checked: a closed session, an idle coordinator, devices that
are all disabled or suspended, a disposed renderer, finished transfers and a
history at rest really stop.

*Fairness.* Output: threads run, timers fire and the command loop polls (tokio
and the operating system schedule every runnable task); neither source nor
renderer is assumed fair, except that the second half of `NothingStuck` assumes a
renderer that goes on acknowledging. Coordinator: promises settle and timers
fire. Cloud
sync: every await of an operation ends (`Step`), because `with_operation_timeout`
bounds each; back-offs end; the check worker wakes periodically, where there are
checks, and goes on with its result; the push worker is strongly fair because tokio's
mutex is FIFO and checks only try the lock, so they cannot starve a waiting push.
Nothing is assumed of clean-up tasks. Hibernation: drains end by their
deadline, `invoke` and `listen` are answered, React commits, events are
delivered, the session reads its channel, and the drain writes in the modes that
write. Fairness never covers edits, commands, failures, restarts, or what the
user shows and hides. Symmetry is used only in the runs without liveness.

## 4. Proofs

`OutputFlowProofs` proves for every value of the limits, either thread layout
and every bound:

- `Inductive`: `Spec => []IInv`;
- `TypeCorrect`: `Spec => []TypeOK`;
- `WatermarksAlways`: `Spec => []WatermarksRespected`;
- `NoLostFlush`: `Spec => []FlushUnderWay`.

Assumptions: `LimitsAssumption` (sizes are naturals, batches are not empty, low
watermark < high watermark <= catastrophic backlog) and `FlowAssumption` (the
threads are not timer identifiers); TLC evaluates both on the runs.

`FlushUnderWay` is not inductive. A push that finds a flush already scheduled
adds nothing, so the scheduled identifier must always belong to a sleeping timer
or to one that a thread is about to spawn, also while nothing is queued or
nobody is attached. `IInv` therefore says that about every scheduled identifier,
next to the types and the flow state. The argument has three layers: each method
keeps the promise (`KeepsPromise`: it leaves an identifier only with its timer,
and output queued for an attached renderer only with a flush scheduled or owed);
running a section or performing an effect changes what is owed in a known way
(`SectionOwed`, `StepOwed`); and each action of `Next` is one of the two.

`OutputBytesProofs` adds, for the same constants:

- `BytesAccountedFor`: `Spec => []NoByteLostOrDoubled`;
- `OverflowAlwaysCloses`: `Spec => []OverflowCloses`;
- `PauseAgrees`: `SingleTask => (Spec => []PauseAgreement)`;
- `BacklogStaysBounded`: `SingleTask => (Spec => []BacklogBounded)`.

`SingleTask` is the SSH layout; with separate threads the last two do not hold
(section 5). Bytes (`ByteInv`): every unfinished list of effects emits only with
its first one, the bytes in the queue, those about to be emitted by different
threads and those emitted are disjoint, each without a repetition, and together
they are the bytes read. Each method moves a prefix of the queue into its own
list (`Moved`) and nothing else. Overflow (`CloseInv`): a catastrophic backlog
has set `catastrophic_close_sent`, and once that is set the close is owed by a
thread, queued or handled, also after the backlog has fallen again.
Pause (`FlowInv`): only the one task tells the flow state, so what it is about
to send, else the last flow command in the channel, else the loop's flag, is the
state under the mutex; the backlog then grows by one read at most, because the
task reads with an empty channel only.

`OutputAckProofs` proves for any number of leases, bytes and failures:

- `AckTypes`: `Spec => []TypeOK`;
- `AckNoStall`: `Spec => []NoStall`;
- `AckAccounted`: `Spec => []NoAckLost`;
- `AckGenerations`: `Spec => []GenerationsSerialized`.

Assumption: `AckAssumption` (the bounds are naturals). None of the four is
inductive. `IInv` says what the flags of a lease tell of each other and of being
active or retried (a disposed lease accepts nothing, and has its final attempt
while it has bytes), that only the newest lease is active and only the active
one is not disposed, that an idle session has nothing to send (`Calm`), that
each lease's bytes balance, that a lease that has sent or is sending has no
unsettled predecessor (`OldestFirst`), and that a final attempt is not made
twice. All actions end in `pump`; the lemma `Pumped` says once what it may do:
nothing while busy, else forget disposed leases without bytes and send for the
oldest that has some. It needs the least element of a set of ids, which the
library's well-founded induction gives (`LeastNatural`).

`CloudSyncProofs` proves for every set of devices, sections, values and
commands, both settings of `auto_pull_remote_changes` and every bound:

- `CloudSyncTypes`: `Spec => []TypeOK`;
- `RunningHasBacker`: `Spec => []RunningIsBacked`;
- `BaselineIsStored`: `Spec => []BaselineWasStored`, for every initial store
  but the dangling one;
- `StoreStaysRestorable`: `Spec => []StoreRestorable`, for every initial store
  but the dangling one and the one whose head is not a UUID.

Assumptions: `CloudSyncAssumption` (at least one section, `None` is neither a
value, a configuration nor a snapshot, the layouts and commands are known ones).

`TypeOK` is not inductive: `UpToDate` reads the pointer of an operation, `Save`
its snapshot, and both may be absent. `TInv` adds `Shapes`, what an operation
carries at each of its awaits (a pointer and an envelope while it resolves, with
equal hashes if it pushes; a snapshot from the upload on; unsaved sections while
it applies), and that only finitely many snapshots were stored, which makes the
next revision a number. `RunningIsBacked` is inductive beside `TInv`, but only because each
caller is followed through its awaits: a return frees the lock and puts its caller
where it still has to show something, or has already written the status under the
lock; and a caller that leaves such a place has written a status that is not
running, has found a conflict, or has taken the lock again. A status that another
caller writes in between is no obstacle, since nobody writes `running` without
taking the lock in the same step. `BaselineWasStored` needs `BInv`: whatever the store
holds, and whatever pointer or snapshot an operation carries across an await, was
stored as it is. The interesting case is a check that finds itself up to date
although the hashes differ: then it records again the revision it had. A dangling
pointer breaks `BInv` in the initial state; section 5 says what follows from it.
`StoreRestorable` needs `RInv`: every revision is a UUID, and as long as there is
no stable object nobody has written: the legacy pointer still has its copy, no
device has a baseline, no clean-up is pending, and every operation is at an await
before its first write. Hence clean-up, which only a committed operation starts,
finds a stable object, and what it removes is not the last copy. The two excluded
layouts are the ones section 5 describes: the first is broken from the start, in
the second the clean-up removes the only object.

`TerminalOutputProofs` proves for every size of chunks, batches and backlogs, any
sequence of events, waits and changes of mode, and every bound:

- `TerminalTypes`: `GateMode # "collapse" => (Spec => []TypeOK)`;
- `TerminalWakes`: `GateMode # "collapse" => (Spec => []NoLostWakeup)`;
- `TerminalAccounts`: `GateMode # "collapse" => (Spec => []BytesAccounted)`;
- `TerminalDrawsInOrder`: `GateMode # "collapse" => (Spec => []DrawnInOrder)`;
- `TerminalNotices`: `GateMode # "collapse" => (Spec => []NoticeAfterOutput)`;
- `TerminalKeepsCredit`: `GateMode # "collapse" => (Spec => KeepsCredit)`, the
  refinement of `OutputCredit`.

The hypothesis is what `resolveDec2026FrameGateMode` answers unless a build asks
for something else (`dec2026FrameGate.ts:96`): off in release builds, shadow in
development ones; the run checks the mode that collapses. The gate then holds
nothing, and every action is one of two kinds (`NextWorks`): it works, that is
takes bytes in, draws some and has some refused, or it closes the renderer. The
inductive invariant `Inv` says of the drain that credit is never given for what is
queued, being written or refused (`Solvent`), drawn bytes have an acknowledgement
timer (`AckArmed`), `writingBytes` is the length of what the chain of writes holds
(`Weighs`), a write in flight is in the chain (`Flies`), and a payload written by
a wait belongs to that wait alone (`Linked`). `Watched`, the wake-up, rests on the
last two: otherwise the callback of a write could find nobody to look at the queue
again. Three sums (`Entered`, `Painted`, `Lost`) join the drain's counters to what
was received, drawn and refused. That a chain can be flattened into one sequence
of units is shown with a least counterexample, since induction over the chain is
not available.

The order of the output is a second layer, `Story`, on top of `Inv`. `Says(d)` is
what the drain still has to say: its chain of writes flattened, then its queue. A
method of the drain moves units from the queue to the end of the chain and leaves
`Says` as it is; the answer to a write takes the head's units off it. `Sorted` says
that the screen without its notices, followed by `Says`, holds what arrived less what
was refused, with growing positions (`Order`); positions are the order of arrival
(`Numbered`). `DrawnInOrder` follows because a sequence with growing positions is
determined by its members. It is not inductive alone: the units of a refused write
leave the middle of the order, which is harmless only since no unit appears twice.
For `NoticeAfterOutput` the question is what happens between the end of a wait and
its notice, which is a write of its own at the end of the chain. `Done` says that
a wait that became idle has its output drawn or refused (it became idle with `Says`
empty), `Notes` that a notice in the chain belongs to a wait that is over, `Heard`
the property itself, for which a later refusal or drawing changes nothing. `Tells`
collects what every action that leaves the renderer alive does to the histories, and
`TellsStory` shows once that this keeps `Story`.

`HibernationProofs` proves for any number of outputs, changes of visibility,
wake-ups and rebuilds:

- `HibernationInductive`: `Spec => []IInv`;
- `HibernationTypes`: `Spec => []TypeOK`;
- `TerminalNeverSilent`: `Spec => []NeverSilent`;
- `TerminalAwake`: `Spec => []ShownIsAwake`.

`IInv` follows a hibernation through its awaits: at most one is under way
(`OneTask`: `pendingHibernate` is reset early, but the clock says then that output
came); a task or a set-up waits for the call it made and no other (`OwnCalls`,
`SetupCalls`); the phase tells at which await it is (`PhaseTells`); a phase that is
waking has something under way that clears it (`WakesUp`); while the session is
going to be detached, a set-up, an attach or a roll-back is ahead (`Reattaches`),
which needs that a hibernation not cancelled has the calls to itself
(`Undisturbed`) and that an attach queued while it drains again stands behind its
detach (`AttachedBehind`). The exception `overlap` of `NeverSilent` is in the invariant,
too.

That a shown terminal is awake is a second invariant, `Shown`: the ref and the state
React will commit agree, so does the committed state unless a commit is due, and a
terminal that is shown has a ref that is not hibernated. A hibernation sets the ref
only after it has seen the terminal hidden in the same turn, and the effect of the
change of visibility wakes it in the turn that shows it; every other handler leaves
these fields alone (`Alike`). Once nothing is under way no commit is due, which turns
it into the first half of `ShownIsAwake`; the second half follows from `IInv`.

`TransfersProofs` proves for every set of transfers, either direction and every
number of chunks, retries, slots and messages in flight:

- `TransfersInductive`: `Spec => []IInv`;
- `TransfersTypes`: `Spec => []TypeOK`;
- `NoMissedWakeup`: `Spec => []WokenWhenResumed`;
- `SchedulerFillsSlots`: `Spec => []NoIdleSlot`;
- `SlotsAreGivenBack`: `Spec => []NoLeakedSlot`;
- `ParkedStaysHeld`: `Spec => []ParkedIsHeld`.

Assumptions: `TransferBackendAssumption` and `TransfersAssumption` (the
transfers are finitely many, the bounds are naturals, a transfer may be started
at least once, the setting of the slots is an integer).

`WokenWhenResumed` is about a job that awaits its notification; it is not
inductive, because a resume may come after the job has read the state and before
it awaits. `GoodJob` says the same from the reading on, and holds because the
`Notified` future exists by then and receives the notification. `TypeOK` needs
two more things: a row, call, message or job belongs to a transfer that was
enqueued (a late `started` re-creates a removed row, and a command is invoked for
what is shown, which may be older than the map), and a job between two tries has
used no more of them than the setting allows.

`NoIdleSlot` speaks of a panel at rest. `QueueInv` adds what holds before it
rests: unless a render is due, the panel shows what it knows; a queued row is in
one of the two refs or about to be cancelled; and when no effect is due either, no
slot was free for it. The scheduling effect fills slots one by one, and
`Cardinality` of the rows that count is what both sides compare. `NoLeakedSlot`
needs `SlotInv`: a registration belongs to a job that has not ended, the jobs of a
transfer are numbered without a gap, what waits for its start is not parked, and,
the heart of it, `NewsLast` and
`Owed`: no message that could set a row to running is the last word about its
transfer, and a row that counts, or may come to count, has a job, a call or a
message under way that ends it.

`ParkedIsHeld` compares a row of the panel with a job, and what keeps them together
is the order of the messages and commands in between. `HeldInv` says of a transfer
the user has not retried: it has one job (`Alone`), which has yet to be started
(`Fresh`), will never be (`Unstarted`), has yet to begin (`Begun`), or has begun; in
the messages under way two pauses have a resume or an end between them, and a job
that runs, or is about to be repeated, has told so after its last pause
(`Letters`). While the panel takes the transfer for one that stands still
(`Halted`: queued, or paused in a way that a click will queue it), no resume
command or event is under way and no pause before an end, and a job that runs has
told of an end and a new start (`Calm`). A row that holds a slot hears of no pause
that a later resume has overtaken (`Ordered`). Each step of the job, each command,
event, render and click is then one lemma (`JobStepHeld`, `CallHeld`,
`ReceiveHeld`, `RenderHeld`, `RunEffectsHeld`, `PauseHeld`, `ResumeHeld`, ...),
resting on lemmas about what appending messages and taking the first one away do
to `Letters`, `Calm` and `Ordered`.

The attempts to prove it found two behaviours that the run's bounds do not reach.
A failed try that repeats itself has sent its started event, and another message of
the transfer is under way too; the property leaves out a job whose started event is
under way, and the run allows two messages. And after a user's retry that a late
answer to the cancellation has ended, a resume command delayed since then can reach
a transfer that is parked again; TLC replays it with ten clicks. The history
variable `retried` restricts the property to transfers the user has not retried.

`CommandHistoryProofs` proves for every set of sessions and commands and every
limit:

- `HistoryInductive`: `Spec => []IInv`;
- `HistoryTypes`: `Spec => []TypeOK`;
- `NoCommandIsLost`: `Spec => []NoCommandLost`;
- `CommandsCountedOnce`: `Spec => []CountedOnce`;
- `NoForgottenSave`: `Spec => []SaveUnderWay`.

Assumptions: `HistoryAssumption` (the sessions are finitely many, the limits are
naturals, the history has room for an entry) and `NoneAssumption` (the absent state
is not a state). `SaveUnderWay` is inductive up to the shapes of the records. The
argument: whoever sets `dirty` is at its request or, on the main thread, at the loop
that prepares; the request leaves a permit; the worker that consumes it is awake
until it has prepared a snapshot; and it goes to sleep only from a check that found
the store clean.

`TypeOK` needs `Linked` (together `HInv`): a task of a session's I/O loop is the
only one of its session, the end of a session finds the session's state still there,
and a task about to add or delete has a command to do it with. `NoCommandLost` is not
inductive: a command that waits in a session's state would be dropped by a removal
that had already flushed it. `Kept` asks that it waits in a session that is open or
still to be flushed. `CountedOnce` is not inductive either, for two reasons. A
report can add a command that is in no queue (the shell reports what an overflow,
a shutdown or a deletion took out of it), and a restart or a pull replaces the
entries by an older copy. `Books` therefore counts for each session the larger of
what its queue holds and what the shell may still report and have counted, and
bounds the uses of a command in *every* copy: the entries, both snapshots and what
is stored. Filtering, sorting and counting are operators on positions (`retain`,
`Places`, `Count`), which is why lemmas about injections between index sets can
take the place of induction over the lists; the shutdown's list is a recursive
function, followed by a least counterexample.

Only model-checked:

- all liveness (fairness is outside the prover's reach);
- the properties of `TerminalOutput` while frames are collapsed: the gate's
  `SelectSeq` and folds need induction over the sequences. `GateKeepsEverything` is
  about nothing but what the gate holds and drops in that mode, so there is no theorem
  about it at all.

## 5. What is not modelled

`PROJECT.json` gives the reason for each component. In short: parsing and
formatting, network and cryptographic I/O and the user interface's layout are
out. Most of the TypeScript is forms, menus and panels without a protocol of
their own; they cannot be modelled by anything but themselves. MCP
approvals, tunnels, capture, recording, watcher and ZMODEM have state worth
modelling and are not modelled yet.

Known behaviours of the code that the models reach and no run asks about.

*Output flow.*
- The sink is called after the mutex is released: a timer and a reader that took
  consecutive batches can hand them over in the wrong order (`output.rs:261`;
  the test `pending_output_is_preserved_in_order_without_dropped_bytes`,
  `output.rs:634`, runs on one thread).
- Pause and resume are sent after the mutex is released, too: with separate
  threads the two can cross, and a local source stays paused with an empty
  backlog (`output.rs:138`). One task cannot cross itself; `PauseAgreement` says of
  that layout (SSH) that flag and coalescer agree once everything is handled.

*Cloud sync.*
- The refresh at the end of a pull writes back what the pull read, over a
  snapshot another device has pushed meanwhile (`Refresh`).
- An automatic pull decides before it downloads that nothing changed locally; an
  edit saved in between is overwritten (`manager.rs:1134`; the guide promises
  that it "only handles cases with no unsynchronized local changes").
- A manual push over a dangling pointer whose hash equals the local one reports
  success and uploads nothing (`manager.rs:838`; the comment two lines above
  says that the upload replaces it). The safety run starts from the other layouts.
- A request for an automatic push is kept in memory only, so an edit followed by
  an exit within the debounce window is not pushed after the restart. The runs
  of `EditsAreSynced` have no restarts.
- The clean-up of legacy objects empties the snapshot directory, which for a
  store whose head is not a UUID holds the only object (layout `named`). The
  run of `StoreRestorable` starts from the other layouts.
- The suspension of automatic work may not be visible. `push_snapshot` frees the
  lock when it returns, and the failure is shown and the suspension recorded in later
  awaits (`manager.rs:1223`, `1253`). A check that has passed its gate sets the status
  to idle over it, because the lock is taken (`:419`), it succeeds, or it fails for a
  transient reason (`:597`); so does `replace_settings`. Only the history still
  holds the failure (`:1211`). `RunningIsBacked` asks that the status is not stale,
  not that it stays; `EditsAreSynced` and `Convergence` count a suspension as an end.
- A check or a manual command that succeeds between the push worker's
  `record_failure` and its second look at the gate (`:717`) resets the retry, and the
  worker drops the push it should repeat. Checks then go on to report local changes;
  without checks nothing does, which is the exception in `EditsAreSynced`. The same
  reset lifts a suspension nobody has dealt with.
- `EditsAreSynced` and `Convergence` are checked with two devices that edit once each,
  or once and a failure, not with several failures on two devices: liveness is out of
  TLC's reach there.
- The push permit consumed while automation is suspended is dropped and not
  renewed when the settings change (`manager.rs:714`).

*Terminal output.*
- `flush` of the frame gate forwards the prefix, then the open frame, then the
  held one, which is older. It happens when a wait, a barrier or a
  change of pressure meets an open frame behind a held one. `DrawnInOrder`
  speaks of what the gate forwarded.
- An end sequence cut between two chunks inside a frame is not recognised, and a
  prefix kept for the next chunk has no deadline; `NoLostWakeup` speaks of
  frames. The gate is off in production builds.
- A wait for idle that times out leaves the queue unscheduled until the next
  event or change of mode (`abandoned` in `NoLostWakeup`); a refused write is
  never acknowledged (`failed` in `BytesAccounted`).

*Hibernation.*
- After the await of `detach_session_renderer` the task sets the phase to detached
  and the drain's mode to hibernating before it looks at the epoch
  (`xterminalHibernationController.ts:290`). A terminal shown meanwhile is attached
  again, visible and idle, but the roll-back does not set the mode back: it draws
  nothing until it is hidden and shown once more.
- `NeverSilent` leaves out hibernations that begin while an attach is under way
  (`overlap`): the attach's answer clears `detachedHibernateEpochRef` and the
  phase, the hibernation's roll-back then does nothing, and the terminal stays
  detached. Two minutes without output make it unlikely.
- Output emitted before the session handled the detach and delivered after the
  hibernation is lost: no listener exists.
- A cancelled hibernation leaves a *hidden* terminal's drain in mode hibernating;
  its output is drawn when it is shown.
- Not in the model: unmounting the component, the window in which the wake
  listeners of a hibernated terminal are being registered, the snapshot.

*Transfers.*
- The chunk in flight when a transfer is paused reports its progress after the
  pause, and every progress event sets the row to transferring
  (`TransferContext.tsx:309`): the panel then shows a running transfer and offers
  no resume, and the job waits for ever.
- The error event of a try that is repeated clears the row's `queueState` and
  frees its slot; the repeated try's started event does not take it again. More
  transfers then run than the setting allows.
- An upload skipped for its duplicate returns without an event (`fs.rs:762`): its
  row keeps its slot (`Quiet` leaves out skipped jobs).
- A cancel that arrives before the job has registered, or while a failing try is
  about to be repeated, is lost; the answer marks the row as cancelled and the
  job's next event marks it as running again.
- A retry while the old job is ending gives two jobs with one id; when the first
  ends, `unregister_transfer` drops the second's registration, and pause and
  cancel no longer reach it.
- After a retry, a resume command delayed since before it can let a job go on that
  is parked and waits for a slot. `ParkedIsHeld` speaks of transfers the user has
  not retried.

*Command history.*
- A command registered after its session has left the map, and before its state
  is dropped, waits in that state and is dropped with it.
- A pull loads the history from the storage and forgets what was not saved yet
  (`apply.rs:53`), although sync snapshots leave the local history alone.
- The store is marked clean before the write: one that fails is repeated only with
  the next change (`store.rs:78`). A worker's write that began before the shutdown
  may also land after the shutdown's.
- A deletion clears the states before the store: an entry on its way in between
  comes back. It forgets the last report, too, so a repeated one counts again.
- A report that arrives after the shutdown has taken the pending commands counts
  its command again.
- Not in the model: commands added before `init_history_store` has loaded, and a
  reader thread that outlives the wait for it.

## 6. Disagreements between code and documentation

Each has a violation run and a finding with the quotation in `PROJECT.json`.

1. `cloud_push_overwrites`: a push does not look whether the head is one the
   device has seen.
2. `history_order`: `load` takes a list that is sorted newest first as its
   entries, which the store keeps oldest first. After a restart or a pull the
   history is listed oldest first, and a full one drops its newest command.

## 7. Plan

1. Done: output coalescer and flow, acknowledgement coordinator, cloud sync with
   its store; the renderer's drain and frame gate with an abstract specification;
   hibernation; transfers with the panel's queue; command submissions and their
   history; theorems about each of them (section 4).
2. Proofs left: the frame gate while it collapses.
3. Capture processor; recording start and stop against close. MCP approvals.
4. A finer model of one sync manager's workers: debounce, back-off steps, waiters
   of the operation lock, throttles; `plan_snapshot_gc` as a pure algorithm
   against a reference definition.
5. Directory transfers and duplicate decisions; tunnels, agent broker, watcher,
   ZMODEM, VNC reconnect.

--------------------------- MODULE CommandHistory ---------------------------
(***************************************************************************)
(* Command history: what SessionManager does with the commands that are    *)
(* submitted in its sessions.  In a session whose shell reports the        *)
(* commands it runs a submission waits for the report (at most MaxPending  *)
(* of them); otherwise it goes to the history at once.  The history store  *)
(* is written by a debouncing worker and once more at shutdown.            *)
(*                                                                         *)
(* Each of the two mutexes (command_submissions, history_store) is held    *)
(* for a stretch without an await: such a stretch is one step, and every   *)
(* operation that takes several is a task that other tasks, the worker and *)
(* the main thread at shutdown overtake.                                   *)
(*                                                                         *)
(* A command is what sanitize_history_command leaves of it.  The time of   *)
(* an entry's last use is its rank among the entries; two uses never fall  *)
(* on the same millisecond.  The event that tells the webview of a change, *)
(* the searches and the recording are left out.                            *)
(***************************************************************************)
EXTENDS Integers, Sequences, FiniteSets, SequencesExt, FiniteSetsExt

CONSTANTS
    Session, Command,
    None,
    MaxPending,         \* MAX_PENDING_CONFIRMATIONS
    MaxHistory,         \* MAX_HISTORY
    MaxSubmissions,     \* bound: commands submitted
    MaxEvents           \* bound: deletions, pulls, failing writes, shutdowns, restarts

ASSUME HistoryAssumption ==
    /\ IsFiniteSet(Session)
    /\ None \notin Session \cup Command
    /\ MaxPending \in Nat /\ MaxHistory \in Nat \ {0}
    /\ MaxSubmissions \in Nat /\ MaxEvents \in Nat

VARIABLES
    sessions,       \* new, open (in the map of sessions) or closed
    submissions,    \* command_submissions
    shell,          \* what each shell runs unreported, and its last report
    tasks,          \* operations of the manager under way
    entries, dirty, \* the history store
    disk,           \* what is stored
    permit,         \* history_save_notify
    worker,         \* the save worker and the snapshot it writes
    main,           \* flush_history_before_shutdown
    budget,         \* used-up bounds
    owed,           \* commands submitted in open sessions, not deleted or pushed out
    allowed         \* how often a command may have been counted

manager == <<sessions, submissions, shell, tasks>>
store == <<entries, dirty>>
saving == <<permit, worker, main>>
ghosts == <<owed, allowed>>
vars == <<manager, store, disk, saving, budget, ghosts>>

Submit ==
    /\ budget.submissions < MaxSubmissions
    /\ budget' = [budget EXCEPT !.submissions = @ + 1]

Happens ==
    /\ budget.events < MaxEvents
    /\ budget' = [budget EXCEPT !.events = @ + 1]

Idle == [pc |-> "idle", snapshot |-> <<>>]

Init ==
    /\ sessions = [s \in Session |-> "new"]
    /\ submissions = [s \in Session |-> None]
    /\ shell = [s \in Session |-> [running |-> <<>>, reported |-> None]]
    /\ tasks = {}
    /\ entries = <<>> /\ dirty = FALSE /\ disk = {}
    /\ permit = FALSE
    /\ worker = Idle
    /\ main = [pc |-> "idle", todo |-> <<>>, snapshot |-> <<>>]
    /\ budget = [submissions |-> 0, events |-> 0]
    /\ owed = {}
    /\ allowed = [c \in Command |-> 0]

-----------------------------------------------------------------------------
(* The history store.                                                       *)

trim_to_max_history(list) ==
    IF Len(list) <= MaxHistory THEN list
    ELSE SubSeq(list, Len(list) - MaxHistory + 1, Len(list))

(* Vec::retain: the elements of q at the positions in I, in their order.    *)
retain(q, I) ==
    LET nth(k) == CHOOSE i \in I : Cardinality({j \in I : j <= i}) = k
    IN  [k \in 1 .. Cardinality(I) |-> q[nth(k)]]

(* Where the entries of a command are.                                      *)
Places(c, list) == {i \in DOMAIN list : list[i].command = c}

Uses(c, list) ==
    IF Places(c, list) = {} THEN 0 ELSE list[Min(Places(c, list))].uses

Others(c, list) ==
    IF Places(c, list) = {} THEN list ELSE RemoveAt(list, Min(Places(c, list)))

(* The times of last use as ranks.                                          *)
Ranked(list) ==
    [i \in DOMAIN list |->
        [list[i] EXCEPT !.at = Cardinality({j \in DOMAIN list : list[j].at <= list[i].at})]]

Used(list, c) ==
    Append(Others(c, list), [command |-> c, at |-> MaxHistory + 1, uses |-> Uses(c, list) + 1])

(* Variant: no limit.                                                       *)
add_Untrimmed(list, c) == Ranked(Used(list, c))

(* A known command moves to the end.                                        *)
add(list, c) == Ranked(trim_to_max_history(Used(list, c)))

(* list_recent_command_history: the newest ones, the newest first.          *)
Sorted(S) ==
    CHOOSE q \in SetToSeqs(S) : \A i, j \in DOMAIN q : i < j => q[i].at >= q[j].at

Stored ==
    LET all == Sorted(disk)
    IN  SubSeq(all, 1, IF Len(all) < MaxHistory THEN Len(all) ELSE MaxHistory)

(* load takes over what is stored, in that order, unless nothing is.        *)
load ==
    IF disk = {} THEN [entries |-> entries, dirty |-> dirty]
    ELSE [entries |-> Stored, dirty |-> FALSE]

Commands(list) == {list[i].command : i \in DOMAIN list}

-----------------------------------------------------------------------------
(* Tasks.                                                                   *)

Free == CHOOSE n \in 1 .. Cardinality(tasks) + 1 : \A t \in tasks : t.id # n

(* A task of the webview (io = None) or of the I/O loop of a session.       *)
Start(op, io, pc, todo) ==
    tasks' = tasks \cup {[id |-> Free, op |-> op, io |-> io, pc |-> pc, todo |-> todo]}

Loop(s) == \A t \in tasks : t.io # s

Becomes(t, pc, todo) == tasks' = (tasks \ {t}) \cup {[t EXCEPT !.pc = pc, !.todo = todo]}

(* The rest of a task that has these commands left to add.                  *)
Continue(t, todo) ==
    \/ todo # <<>> /\ Becomes(t, "add", todo)
    \/ todo = <<>> /\ t.op = "remove" /\ Becomes(t, "drop", <<>>)
    \/ todo = <<>> /\ t.op # "remove" /\ tasks' = tasks \ {t}

(* What a full history pushes out, or a load forgets, is owed no longer.    *)
Forget(known) == owed' = owed \ (known \ Commands(entries'))

(* Variant: only a new command counts as a change.                          *)
AddEntry_NewOnly(t) ==
    LET c == Head(t.todo)
    IN  /\ t.pc = "add"
        /\ entries' = add(entries, c)
        /\ dirty' = TRUE
        /\ IF c \in Commands(entries) THEN Continue(t, Tail(t.todo))
           ELSE Becomes(t, "request", Tail(t.todo))
        /\ Forget(Commands(entries))
        /\ UNCHANGED <<sessions, submissions, shell, disk, saving, budget, allowed>>

(* add_history_entry: the store, then the request to save it.               *)
AddEntry(t) ==
    /\ t.pc = "add"
    /\ entries' = add(entries, Head(t.todo))
    /\ dirty' = TRUE
    /\ Becomes(t, "request", Tail(t.todo))
    /\ Forget(Commands(entries))
    /\ UNCHANGED <<sessions, submissions, shell, disk, saving, budget, allowed>>

RequestSave(t) ==
    /\ t.pc = "request"
    /\ permit' = TRUE
    /\ Continue(t, t.todo)
    /\ UNCHANGED <<sessions, submissions, shell, store, disk, worker, main, budget, ghosts>>

-----------------------------------------------------------------------------
(* Sessions and submissions.                                                *)

SubmissionStates ==
    [candidates : {q \in Seq(Command) : Len(q) <= MaxPending}, last : Command \cup {None},
     awaits : BOOLEAN, degraded : BOOLEAN]

ASSUME NoneAssumption == None \notin SubmissionStates

SubmissionState(awaits) ==
    [candidates |-> <<>>, last |-> None, awaits |-> awaits, degraded |-> FALSE]

(* session_awaits_shell_event decides; both maps are filled before the I/O  *)
(* loop runs.                                                               *)
add_session(s) ==
    /\ sessions[s] = "new"
    /\ sessions' = [sessions EXCEPT ![s] = "open"]
    /\ \E awaits \in BOOLEAN :
          submissions' = [submissions EXCEPT ![s] = SubmissionState(awaits)]
    /\ UNCHANGED <<shell, tasks, store, disk, saving, budget, ghosts>>

Waits(state) == state # None /\ state.awaits

(* The shell of this session reports the commands it runs.                  *)
Reporting(state) == state # None /\ (state.awaits \/ state.degraded)

(* The webview writes the command to the shell when it is registered.  The  *)
(* session may be closed by then.                                           *)
register_command_submission(s, c) ==
    LET state == submissions[s]
        queue == Append(state.candidates, c)
    IN  /\ sessions[s] # "new"
        /\ Submit
        /\ \/ /\ ~Waits(state)
              /\ Start("add", None, "add", <<c>>)
              /\ UNCHANGED submissions
           \/ /\ Waits(state)
              /\ Len(queue) <= MaxPending
              /\ submissions' = [submissions EXCEPT ![s].candidates = queue]
              /\ UNCHANGED tasks
           \/ /\ Waits(state)
              /\ Len(queue) > MaxPending
              /\ submissions' = [submissions EXCEPT
                                   ![s] = [SubmissionState(FALSE) EXCEPT !.degraded = TRUE]]
              /\ Start("add", None, "add", queue)
        /\ shell' = IF sessions[s] = "open" /\ Reporting(state)
                    THEN [shell EXCEPT ![s].running = Append(@, c)] ELSE shell
        /\ owed' = IF sessions[s] = "open" THEN owed \cup {c} ELSE owed
        /\ allowed' = [allowed EXCEPT ![c] = @ + 1]
        /\ UNCHANGED <<sessions, store, disk, saving>>

(* Variant: a degraded session still counts reports.                        *)
confirm_command_submission_Degraded(s, c) ==
    LET state == submissions[s]
    IN  IF c \notin ToSet(state.candidates) /\ state.last = c
        THEN UNCHANGED <<submissions, tasks>>
        ELSE /\ submissions' = [submissions EXCEPT
                                  ![s].candidates = RemoveFirst(@, c), ![s].last = c]
             /\ Start("add", s, "add", <<c>>)

(* The I/O loop awaits it.                                                  *)
confirm_command_submission(s, c) ==
    LET state == submissions[s]
    IN  IF \/ state.degraded
           \/ c \notin ToSet(state.candidates) /\ state.last = c
        THEN UNCHANGED <<submissions, tasks>>
        ELSE /\ submissions' = [submissions EXCEPT
                                  ![s].candidates = RemoveFirst(@, c), ![s].last = c]
             /\ Start("add", s, "add", <<c>>)

(* The shell reports a command it runs, having left out some before it, or  *)
(* repeats its last report before it runs another one.                      *)
Report(s) ==
    /\ sessions[s] = "open"
    /\ Loop(s)
    /\ \/ \E k \in DOMAIN shell[s].running :
             /\ confirm_command_submission(s, shell[s].running[k])
             /\ shell' = [shell EXCEPT
                            ![s] = [running |-> SubSeq(@.running, k + 1, Len(@.running)),
                                    reported |-> @.running[k]]]
       \/ /\ shell[s].reported # None /\ shell[s].running = <<>>
          /\ confirm_command_submission(s, shell[s].reported)
          /\ UNCHANGED shell
    /\ UNCHANGED <<sessions, store, disk, saving, budget, ghosts>>

(* The I/O loop ends: first the session leaves the map.                     *)
remove_session(s) ==
    /\ sessions[s] = "open"
    /\ Loop(s)
    /\ sessions' = [sessions EXCEPT ![s] = "closed"]
    /\ Start("remove", s, "flush", <<>>)
    /\ UNCHANGED <<submissions, shell, store, disk, saving, budget, ghosts>>

(* Variant: the submissions are dropped and not flushed.                    *)
flush_pending_submission_Drops(t) ==
    /\ t.pc = "flush"
    /\ submissions' = [submissions EXCEPT ![t.io].candidates = <<>>]
    /\ Continue(t, <<>>)
    /\ UNCHANGED <<sessions, shell, store, disk, saving, budget, ghosts>>

(* Then what is pending is taken out, to be added.                          *)
flush_pending_submission(t) ==
    /\ t.pc = "flush"
    /\ submissions' = [submissions EXCEPT ![t.io].candidates = <<>>]
    /\ Continue(t, submissions[t.io].candidates)
    /\ UNCHANGED <<sessions, shell, store, disk, saving, budget, ghosts>>

(* At last the session's state is dropped.                                  *)
DropSubmissions(t) ==
    /\ t.pc = "drop"
    /\ submissions' = [submissions EXCEPT ![t.io] = None]
    /\ tasks' = tasks \ {t}
    /\ UNCHANGED <<sessions, shell, store, disk, saving, budget, ghosts>>

(* A command is deleted in every session's state, and then in the store.    *)
(* A session forgets that it was its last report, so one more is counted.   *)
delete_history_command(c) ==
    /\ Happens
    /\ submissions' = [s \in Session |->
          IF submissions[s] = None THEN None
          ELSE [submissions[s] EXCEPT
                  !.candidates = retain(@, {i \in DOMAIN @ : @[i] # c}),
                  !.last = IF @ = c THEN None ELSE @]]
    /\ Start("delete", None, "delete", <<c>>)
    /\ owed' = owed \ {c}
    /\ allowed' = [allowed EXCEPT ![c] = @ +
          Cardinality({s \in Session : submissions[s] # None /\ submissions[s].last = c})]
    /\ UNCHANGED <<sessions, shell, store, disk, saving>>

DeleteEntry(t) ==
    LET c == Head(t.todo)
    IN  /\ t.pc = "delete"
        /\ entries' = Ranked(retain(entries, DOMAIN entries \ Places(c, entries)))
        /\ IF Len(entries') = Len(entries)
           THEN tasks' = tasks \ {t} /\ UNCHANGED dirty
           ELSE Becomes(t, "request", <<>>) /\ dirty' = TRUE
        /\ owed' = owed \ {c}
        /\ UNCHANGED <<sessions, submissions, shell, disk, saving, budget, allowed>>

TaskStep(t) ==
    \/ AddEntry(t) \/ RequestSave(t)
    \/ flush_pending_submission(t) \/ DropSubmissions(t)
    \/ DeleteEntry(t)

-----------------------------------------------------------------------------
(* Saving.                                                                  *)

WorkerAt(pc) == worker' = [worker EXCEPT !.pc = pc]

(* The save worker awaits the permit, and lets more of them pass until none *)
(* comes for 100 ms; one may come before it takes the store's mutex.        *)
Debounce ==
    /\ worker.pc \in {"idle", "debounce"}
    /\ permit
    /\ permit' = FALSE
    /\ WorkerAt("debounce")
    /\ UNCHANGED <<manager, store, disk, main, budget, ghosts>>

(* prepare_save marks the store clean before the snapshot is written.       *)
PrepareSave ==
    /\ worker.pc = "debounce"
    /\ worker' = IF dirty THEN [pc |-> "write", snapshot |-> entries]
                 ELSE [worker EXCEPT !.pc = "check"]
    /\ dirty' = FALSE
    /\ UNCHANGED <<manager, entries, disk, permit, main, budget, ghosts>>

(* flush_prepared_save replaces what is stored, or fails, in a transaction. *)
Write(snapshot, ok) ==
    \/ ok /\ disk' = ToSet(snapshot) /\ UNCHANGED budget
    \/ ~ok /\ Happens /\ UNCHANGED disk

WriteSnapshot ==
    /\ worker.pc = "write"
    /\ \E ok \in BOOLEAN : Write(worker.snapshot, ok)
    /\ worker' = [pc |-> "check", snapshot |-> <<>>]
    /\ UNCHANGED <<manager, store, permit, main, ghosts>>

CheckDirty ==
    /\ worker.pc = "check"
    /\ WorkerAt(IF dirty THEN "debounce" ELSE "idle")
    /\ UNCHANGED <<manager, store, disk, permit, main, budget, ghosts>>

Count(c, list) == Cardinality({i \in DOMAIN list : list[i] = c})

Candidates(s) == IF submissions[s] = None THEN <<>> ELSE submissions[s].candidates

(* flush_history_before_shutdown, on the main thread: take what is pending, *)
(* add it, and write until the store is clean or a write fails.  A report   *)
(* of what was taken may still come, and counts again.  The map of sessions *)
(* has no order.                                                            *)
ShutdownTake ==
    /\ main.pc = "idle"
    /\ Happens
    /\ \E order \in SetToSeqs(Session) :
          main' = [main EXCEPT !.pc = "add",
                     !.todo = FlattenSeq([i \in DOMAIN order |-> Candidates(order[i])])]
    /\ submissions' = [s \in Session |->
          IF submissions[s] = None THEN None ELSE [submissions[s] EXCEPT !.candidates = <<>>]]
    /\ allowed' = [c \in Command |-> allowed[c] + Count(c, main'.todo)]
    /\ UNCHANGED <<sessions, shell, tasks, store, disk, permit, worker, owed>>

ShutdownAdd ==
    LET list[n \in 0 .. Len(main.todo)] ==
          IF n = 0 THEN entries ELSE add(list[n - 1], main.todo[n])
    IN  /\ main.pc = "add"
        /\ entries' = list[Len(main.todo)]
        /\ dirty' = (dirty \/ main.todo # <<>>)
        /\ main' = [main EXCEPT !.pc = "save", !.todo = <<>>]
        /\ Forget(UNION {Commands(list[n]) : n \in DOMAIN list})
        /\ UNCHANGED <<manager, disk, permit, worker, budget, allowed>>

ShutdownSave ==
    /\ main.pc = "save"
    /\ main' = IF dirty THEN [main EXCEPT !.pc = "write", !.snapshot = entries]
               ELSE [main EXCEPT !.pc = "done"]
    /\ dirty' = FALSE
    /\ UNCHANGED <<manager, entries, disk, permit, worker, budget, ghosts>>

ShutdownWrite ==
    /\ main.pc = "write"
    /\ \E ok \in BOOLEAN :
          /\ Write(main.snapshot, ok)
          /\ main' = [main EXCEPT !.pc = IF ok THEN "save" ELSE "done", !.snapshot = <<>>]
    /\ UNCHANGED <<manager, store, permit, worker, ghosts>>

SaveStep ==
    \/ Debounce \/ PrepareSave \/ WriteSnapshot \/ CheckDirty
    \/ ShutdownTake \/ ShutdownAdd \/ ShutdownSave \/ ShutdownWrite

-----------------------------------------------------------------------------
(* Loading.                                                                 *)

(* A pulled snapshot was applied: the history, which is not part of it, is  *)
(* loaded again, and what was not saved yet is forgotten.                   *)
reload_history_from_storage ==
    /\ Happens
    /\ entries' = load.entries /\ dirty' = load.dirty
    /\ Forget(Commands(entries))
    /\ UNCHANGED <<manager, disk, saving, allowed>>

(* The program exits after its shutdown or is killed, and starts again.     *)
(* init_history_store loads the history before the first session opens.     *)
Restart ==
    /\ Happens
    /\ sessions' = [s \in Session |-> IF sessions[s] = "new" THEN "new" ELSE "closed"]
    /\ submissions' = [s \in Session |-> None]
    /\ shell' = [s \in Session |-> [running |-> <<>>, reported |-> None]]
    /\ tasks' = {}
    /\ entries' = Stored /\ dirty' = FALSE
    /\ permit' = FALSE /\ worker' = Idle
    /\ main' = [pc |-> "idle", todo |-> <<>>, snapshot |-> <<>>]
    /\ owed' = owed \cap Commands(Stored)
    /\ UNCHANGED <<disk, allowed>>

Next ==
    \/ \E s \in Session :
          \/ add_session(s) \/ Report(s) \/ remove_session(s)
          \/ \E c \in Command : register_command_submission(s, c)
    \/ \E c \in Command : delete_history_command(c)
    \/ \E t \in tasks : TaskStep(t)
    \/ SaveStep
    \/ reload_history_from_storage
    \/ Restart

Spec == Init /\ [][Next]_vars

-----------------------------------------------------------------------------
(* Properties.                                                              *)

Entries == [command : Command, at : 1 .. MaxHistory, uses : Nat \ {0}]
History == {q \in Seq(Entries) : Len(q) <= MaxHistory}

Tasks ==
    [id : Nat \ {0}, op : {"add", "remove", "delete"}, io : Session \cup {None},
     pc : {"add", "request", "flush", "drop", "delete"}, todo : Seq(Command)]

(* The types of the variables.  Neither the history nor a session's queue   *)
(* ever grows past its limit, whoever fills it, and also not in what is     *)
(* saved and loaded.                                                        *)
TypeOK ==
    /\ sessions \in [Session -> {"new", "open", "closed"}]
    /\ submissions \in [Session -> SubmissionStates \cup {None}]
    /\ shell \in [Session -> [running : Seq(Command), reported : Command \cup {None}]]
    /\ tasks \subseteq Tasks
    /\ entries \in History /\ dirty \in BOOLEAN
    /\ disk \subseteq Entries
    /\ permit \in BOOLEAN
    /\ worker \in [pc : {"idle", "debounce", "write", "check"}, snapshot : History]
    /\ main \in [pc : {"idle", "add", "save", "write", "done"}, todo : Seq(Command),
                 snapshot : History]
    /\ budget \in [submissions : 0 .. MaxSubmissions, events : 0 .. MaxEvents]
    /\ owed \subseteq Command
    /\ allowed \in [Command -> Nat]

(* The commands a task has still to add.                                    *)
Carried(t) == IF t.op = "delete" THEN <<>> ELSE t.todo

InHand == (UNION {ToSet(Carried(t)) : t \in tasks}) \cup ToSet(main.todo)
Waiting == UNION {ToSet(Candidates(s)) : s \in Session}

(* A command submitted in an open session is not lost: it waits for its     *)
(* report, is on its way into the history, or is in it until newer ones     *)
(* push it out, through reports, overflows, the end of the session and the  *)
(* shutdown.                                                                *)
NoCommandLost == owed \subseteq Waiting \cup InHand \cup Commands(entries)

Sum(f) == Cardinality(UNION {{x} \X (1 .. f[x]) : x \in DOMAIN f})

(* How often a command was counted, or will be.                             *)
Counted(c) ==
    Uses(c, entries) + Count(c, main.todo)
    + Sum([t \in tasks |-> Count(c, Carried(t))])
    + Sum([s \in Session |-> Count(c, Candidates(s))])

(* No submission is counted twice, whether its report comes before or after *)
(* the queue overflows, comes twice, or not before the session ends.        *)
(* (Exceptions: the report after a deletion or the start of the shutdown.)  *)
CountedOnce == \A c \in Command : Counted(c) <= allowed[c]

(* The save worker sleeps through no change: a history that differs from    *)
(* what was last prepared for saving has a permit waiting, a task about to  *)
(* leave one, a worker on its way to prepare_save, or a shutdown that is.   *)
SaveUnderWay ==
    dirty => \/ permit
             \/ worker.pc # "idle"
             \/ \E t \in tasks : t.pc = "request"
             \/ main.pc = "save"

(* get_all_history, which reverses the entries, returns the most recent     *)
(* first.                                                                   *)
NewestFirst ==
    \A i, j \in DOMAIN entries : i < j => entries[i].at < entries[j].at
=============================================================================

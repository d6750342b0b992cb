-------------------------- MODULE HibernationProofs --------------------------
(***************************************************************************)
(* Proofs about Hibernation, for any number of outputs, changes of         *)
(* visibility, inputs and rebuilds.                                        *)
(***************************************************************************)
EXTENDS Hibernation, SequenceTheorems, TLAPS

(* The component.                                                           *)
Component ==
    [visible : BOOLEAN, quiet : BOOLEAN, disconnected : BOOLEAN,
     phase : Phases, epoch : Nat, pending : BOOLEAN,
     timer : Nat, detachedEpoch : Nat,
     hibernatedRef : BOOLEAN, cleanup : BOOLEAN,
     hibernated : BOOLEAN, nextHibernated : BOOLEAN, commit : BOOLEAN,
     generation : Nat, alive : BOOLEAN,
     setup : {"none", "starting", "listening", "attaching", "done"},
     mode : {"foreground", "background", "hibernating", "hibernated"},
     backlog : Nat, overlap : BOOLEAN]

Tasks == [epoch : Nat, generation : Nat,
          pc : {"draining", "detaching", "draining again", "restoring"}]

Types ==
    /\ r \in Component
    /\ tasks \subseteq Tasks
    /\ calls \subseteq Calls
    /\ channel \in Seq({"attach", "detach"})
    /\ wire \in Seq({"output", "closed"})
    /\ attached \in BOOLEAN /\ ended \in BOOLEAN

(* At most one hibernation is under way: what lets a second one start while *)
(* pending is reset early is the clock, which says that output has come.    *)
OneTask ==
    /\ \A t \in tasks, u \in tasks : t = u
    /\ tasks # {} /\ r.quiet => r.pending
    /\ r.pending => tasks # {}
    /\ \A t \in tasks : t.epoch <= r.epoch

(* A task awaits the call it has made, and no other is made in its name;    *)
(* only a session that has ended refuses one.                               *)
OwnCalls ==
    /\ \A c \in calls : c.by # "task" => c.command = "attach"
    /\ \A c \in calls, d \in calls : c.by = "task" /\ d.by = "task" => c = d
    /\ \A c \in calls, t \in tasks : c.by = "task" =>
          t.epoch = c.epoch
          /\ t.pc = IF c.command = "detach" THEN "detaching" ELSE "restoring"
    /\ \A c \in calls : c.by = "task" => tasks # {}
    /\ \A c \in calls : c.at = "failed" => ended

(* The setup of the terminal there is now makes its call once.              *)
SetupCalls ==
    \A c \in calls : c.by = "setup" =>
        /\ c.number <= r.generation
        /\ r.alive /\ c.number = r.generation => r.setup \notin {"starting", "listening"}

(* There is a terminal, unless React has removed it; and what the phase     *)
(* says of the tasks and of React.                                          *)
PhaseTells ==
    /\ r.alive <=> ~r.hibernated
    /\ r.phase = "preparing" => \E t \in tasks : t.pc \in {"draining", "detaching"}
    /\ r.phase = "hibernated" =>
          tasks = {} /\ r.hibernatedRef /\ r.nextHibernated /\ (r.commit \/ ~r.alive)
    /\ r.phase = "failed" => ended
    /\ r.phase = "detached" /\ ~ended =>
          \E t \in tasks : \/ t.pc = "restoring"
                           \/ t.pc = "draining again" /\ r.detachedEpoch = t.epoch

AttachUnderWay == \E c \in calls : c.command = "attach"
AttachSent == \E c \in calls : c.command = "attach" /\ c.at = "sent"
DetachUnderWay == \E c \in calls : c.command = "detach"
RollsBack == \E t \in tasks : t.pc = "draining again" /\ r.detachedEpoch = t.epoch

(* A terminal will be set up, or React has none.                            *)
SetUpAhead == r.commit \/ ~r.alive \/ r.setup \in {"starting", "listening"}

(* A phase that is waking will be idle: something that clears it is under   *)
(* way.                                                                     *)
WakesUp ==
    r.phase = "waking" /\ ~ended =>
        \/ SetUpAhead
        \/ AttachUnderWay
        \/ \E t \in tasks : t.pc \in {"draining", "detaching", "restoring"}
        \/ RollsBack

(* The state the session will be in when it has read its channel.           *)
WillBeAttached ==
    IF channel = <<>> THEN attached ELSE channel[Len(channel)] = "attach"

(* Whoever detaches has an attach to make up for it.                        *)
Reattaches ==
    ~ended /\ ~r.overlap /\ ~WillBeAttached =>
        SetUpAhead \/ AttachSent \/ DetachUnderWay \/ RollsBack

(* A hibernation that has begun with nothing under way, and has not been    *)
(* cancelled, has the calls and the terminal to itself.                     *)
Undisturbed ==
    ~r.overlap =>
        \A t \in tasks : t.epoch = r.epoch /\ t.pc # "restoring" =>
            /\ r.alive /\ r.setup = "done"
            /\ \A c \in calls : c.command = "detach"

(* While it drains again, an attach that is queued stands behind the        *)
(* detach.                                                                  *)
AttachedBehind ==
    ~ended /\ ~r.overlap =>
        \A t \in tasks : t.pc = "draining again" =>
            \A c \in calls : c.command = "attach" /\ c.at = "queued" => WillBeAttached

IInv ==
    /\ Types /\ OneTask /\ OwnCalls /\ SetupCalls /\ PhaseTells
    /\ WakesUp /\ Reattaches /\ Undisturbed /\ AttachedBehind

-----------------------------------------------------------------------------
(* The handlers.                                                            *)

(* An epoch is at least itself.                                             *)
LEMMA Reflexive == \A n \in Nat : n >= n
  OBVIOUS

(* What most handlers leave alone: the terminal, its setup, and who has     *)
(* detached it.                                                             *)
Kept(u, s) ==
    /\ u \in Component
    /\ u.generation = s.generation
    /\ u.alive = s.alive /\ u.hibernated = s.hibernated
    /\ u.setup = s.setup /\ u.overlap = s.overlap
    /\ u.detachedEpoch = s.detachedEpoch

(* Neither the phase nor what React and the task are told has changed.      *)
Quietly(u, s) ==
    /\ Kept(u, s)
    /\ u.phase = s.phase /\ u.quiet = s.quiet /\ u.pending = s.pending
    /\ u.hibernatedRef = s.hibernatedRef /\ u.nextHibernated = s.nextHibernated
    /\ u.commit = s.commit /\ u.cleanup = s.cleanup

(* The mode of the drain is one of four.                                    *)
LEMMA ModeSet ==
    ASSUME NEW s \in Component
    PROVE  LET u == updateOutputDrainMode(s)
           IN  Quietly(u, s) /\ u.epoch = s.epoch /\ u.timer = s.timer
                /\ u.backlog = s.backlog
<1>1. resolveOutputDrainMode(s) \in {"foreground", "background", "hibernating", "hibernated"}
  BY DEF resolveOutputDrainMode
<1> QED BY <1>1 DEF updateOutputDrainMode, Component, Quietly, Kept

(* Clearing the timer changes nothing else.                                 *)
LEMMA TimerCleared ==
    ASSUME NEW s \in Component
    PROVE  LET u == clearHibernateTimer(s)
           IN  Quietly(u, s) /\ u.epoch = s.epoch /\ u.timer = NoEpoch
                /\ u.backlog = s.backlog
  BY DEF clearHibernateTimer, Component, Quietly, Kept, NoEpoch

(* Setting the timer takes a new epoch.                                     *)
LEMMA Scheduled ==
    ASSUME NEW s \in Component
    PROVE  LET u == scheduleHibernate(s)
           IN  Quietly(u, s) /\ u.epoch \in {s.epoch, s.epoch + 1}
<1>1. CASE s.visible \/ s.timer # NoEpoch \/ s.phase # "idle"
  BY <1>1 DEF scheduleHibernate, Component, Quietly, Kept
<1>2. CASE ~(s.visible \/ s.timer # NoEpoch \/ s.phase # "idle")
  <2> DEFINE e == s.epoch + 1
  <2>1. e \in Nat
    BY DEF Component
  <2>2. scheduleHibernate(s) = [s EXCEPT !.epoch = e, !.timer = e]
    BY <1>2 DEF scheduleHibernate
  <2>3. e \in {s.epoch, s.epoch + 1}
    OBVIOUS
  <2> HIDE DEF e
  <2> QED BY <2>1, <2>2, <2>3, ZenonT(60) DEF Component, Quietly, Kept
<1> QED BY <1>1, <1>2

(* requestWake: a phase that is not idle is waking, and React is told to    *)
(* build a terminal when the renderer had hibernated.                       *)
LEMMA Woken ==
    ASSUME NEW s \in Component
    PROVE  LET u == requestWake(s)
           IN  /\ Kept(u, s) /\ u.epoch = s.epoch + 1
               /\ u.phase = (IF s.phase # "idle" THEN "waking" ELSE "idle")
               /\ u.quiet = s.quiet /\ u.pending = s.pending
               /\ s.hibernatedRef => u.commit
               /\ s.commit => u.commit
<1> DEFINE c == clearHibernateTimer(s)
           e == c.epoch + 1
           p == IF c.phase # "idle" THEN "waking" ELSE c.phase
           n == IF s.hibernatedRef THEN FALSE ELSE c.nextHibernated
           m == s.hibernatedRef \/ c.commit
<1>1. Quietly(c, s) /\ c.epoch = s.epoch
  BY TimerCleared
<1>2. requestWake(s) = [c EXCEPT !.epoch = e, !.phase = p, !.hibernatedRef = FALSE,
                                 !.nextHibernated = n, !.commit = m]
  BY Zenon DEF requestWake
<1> HIDE DEF c
<1>3. c \in Component /\ c.phase = s.phase /\ c.commit = s.commit
  BY <1>1 DEF Quietly, Kept
<1>4. e \in Nat /\ p \in Phases /\ n \in BOOLEAN
  <2>1. c.epoch \in Nat /\ c.phase \in Phases /\ c.nextHibernated \in BOOLEAN
    BY <1>3 DEF Component
  <2>2. e \in Nat
    BY <2>1
  <2>3. p \in Phases
    BY <2>1 DEF Phases
  <2>4. n \in BOOLEAN
    BY <2>1, Zenon
  <2> QED BY <2>2, <2>3, <2>4
<1>5. m \in BOOLEAN /\ (s.hibernatedRef => m) /\ (s.commit => m)
  BY <1>3, Zenon
<1>6. e = s.epoch + 1 /\ p = IF s.phase # "idle" THEN "waking" ELSE "idle"
  BY <1>1, <1>3
<1> HIDE DEF e, p, n, m
<1> DEFINE u == requestWake(s)
<1>7. /\ u.epoch = e /\ u.phase = p /\ u.commit = m
      /\ u.quiet = c.quiet /\ u.pending = c.pending
  BY <1>2, <1>3 DEF Component
<1>8. u \in Component
  BY <1>2, <1>3, <1>4, <1>5, ZenonT(60) DEF Component
<1>9. Kept(u, c)
  BY <1>2, <1>3, <1>8 DEF Component, Kept
<1> QED BY <1>1, <1>5, <1>6, <1>7, <1>9 DEF Kept, Quietly

(* A settled visibility sets the mode and perhaps the timer.                *)
LEMMA PolicyApplied ==
    ASSUME NEW s \in Component
    PROVE  LET u == applyVisibilityPolicy(s)
           IN  Quietly(u, s) /\ u.epoch \in {s.epoch, s.epoch + 1}
<1>1. CASE ~s.alive
  BY <1>1 DEF applyVisibilityPolicy, Quietly, Kept
<1>2. CASE s.alive /\ s.visible
  <2> DEFINE u == clearHibernateTimer(s)
  <2>1. Quietly(u, s) /\ u.epoch = s.epoch
    BY TimerCleared
  <2> HIDE DEF u
  <2>2. LET v == updateOutputDrainMode(u) IN Quietly(v, u) /\ v.epoch = u.epoch
    BY <2>1, ModeSet DEF Quietly, Kept
  <2>3. applyVisibilityPolicy(s) = updateOutputDrainMode(u)
    BY <1>2 DEF applyVisibilityPolicy, u
  <2> QED BY <2>1, <2>2, <2>3 DEF Quietly, Kept
<1>3. CASE s.alive /\ ~s.visible
  <2> DEFINE u == updateOutputDrainMode(s)
  <2>1. Quietly(u, s) /\ u.epoch = s.epoch
    BY ModeSet
  <2> HIDE DEF u
  <2>2. LET v == scheduleHibernate(u) IN Quietly(v, u) /\ v.epoch \in {u.epoch, u.epoch + 1}
    BY <2>1, Scheduled DEF Quietly, Kept
  <2>3. applyVisibilityPolicy(s) = scheduleHibernate(u)
    BY <1>3 DEF applyVisibilityPolicy, u
  <2> QED BY <2>1, <2>2, <2>3 DEF Quietly, Kept
<1> QED BY <1>1, <1>2, <1>3

(* The end of a task: pending is reset, and so is a phase nobody clears.    *)
LEMMA Finished ==
    ASSUME NEW s \in Component, NEW epoch \in Nat
    PROVE  LET u == Finally(s, epoch)
           IN  /\ Kept(u, s) /\ u.epoch = s.epoch /\ ~u.pending /\ u.quiet = s.quiet
               /\ u.hibernatedRef = s.hibernatedRef /\ u.nextHibernated = s.nextHibernated
               /\ u.commit = s.commit
               /\ u.phase \in {s.phase, "idle"}
               /\ u.phase # "preparing"
               /\ u.phase = "detached" => s.detachedEpoch = epoch
  BY ZenonT(60) DEF Finally, Component, Kept, Phases

(* The end of a session changes neither phase nor tasks.                    *)
LEMMA Disconnected ==
    ASSUME NEW s \in Component
    PROVE  LET u == enterDisconnectedState(s)
           IN  Quietly(u, s) /\ u.epoch = s.epoch
  BY DEF enterDisconnectedState, Component, Quietly, Kept

(* A drain has no say in anything else.                                     *)
LEMMA Drained ==
    ASSUME NEW t, NEW drained \in BOOLEAN, r \in Component
    PROVE  LET u == AfterDrain(t, drained)
           IN  Quietly(u, r) /\ u.epoch = r.epoch /\ u.timer = r.timer
<1>1. CASE drained
  BY <1>1 DEF AfterDrain, Component, Quietly, Kept
<1>2. CASE ~drained
  BY <1>2 DEF AfterDrain, Component, Quietly, Kept
<1> QED BY <1>1, <1>2

-----------------------------------------------------------------------------
(* Steps that concern neither tasks nor calls.                              *)

(* The session's side and the calls are as they were.                       *)
Elsewhere ==
    /\ tasks' = tasks /\ calls' = calls
    /\ channel' = channel /\ attached' = attached /\ ended' = ended
    /\ wire' \in Seq({"output", "closed"})

(* A step that leaves the phase alone, or clears it.                        *)
LEMMA CalmStep ==
    ASSUME IInv, Elsewhere, Kept(r', r), r'.epoch >= r.epoch,
           r'.phase \in {r.phase, "idle"},
           r'.quiet => r.quiet, r'.pending => r.pending, r'.quiet => r'.pending = r.pending,
           r'.hibernatedRef = r.hibernatedRef, r'.nextHibernated = r.nextHibernated,
           r.commit => r'.commit
    PROVE  IInv'
<1> USE DEF Kept, Elsewhere
<1>1. Types'
  BY DEF IInv, Types, Tasks, Calls
<1>2. OneTask'
  <2>1. \A t \in tasks : t.epoch \in Nat
    BY DEF IInv, Types, Tasks
  <2>2. r.epoch \in Nat /\ r'.epoch \in Nat
    BY DEF IInv, Types, Component
  <2> QED BY <2>1, <2>2 DEF IInv, OneTask
<1>3. OwnCalls' /\ SetupCalls'
  BY DEF IInv, OwnCalls, SetupCalls
<1>4. PhaseTells'
  BY DEF IInv, PhaseTells
<1>5. WakesUp'
  BY DEF IInv, WakesUp, SetUpAhead, AttachUnderWay, RollsBack
<1>6. Reattaches'
  BY DEF IInv, Reattaches, WillBeAttached, SetUpAhead, AttachSent, DetachUnderWay, RollsBack
<1>7. Undisturbed'
  <2>1. \A t \in tasks : t.epoch \in Nat /\ t.epoch <= r.epoch
    BY DEF IInv, Types, Tasks, OneTask
  <2>2. r.epoch \in Nat /\ r'.epoch \in Nat
    BY DEF IInv, Types, Component
  <2>3. \A t \in tasks : t.epoch = r'.epoch => t.epoch = r.epoch
    BY <2>1, <2>2
  <2> QED BY <2>3 DEF IInv, Undisturbed
<1>8. AttachedBehind'
  BY DEF IInv, AttachedBehind, WillBeAttached
<1> QED BY <1>1, <1>2, <1>3, <1>4, <1>5, <1>6, <1>7, <1>8 DEF IInv

(* A wake-up: the epoch is new, and a phase that was not idle is waking.    *)
LEMMA WakeStep ==
    ASSUME IInv, Elsewhere, Kept(r', r), r'.epoch > r.epoch,
           r'.phase = (IF r.phase # "idle" THEN "waking" ELSE "idle"),
           r'.quiet = r.quiet, r'.pending = r.pending,
           r.hibernatedRef => r'.commit, r.commit => r'.commit
    PROVE  IInv'
<1> USE DEF Kept, Elsewhere
<1>0. /\ \A t \in tasks : t.epoch \in Nat /\ t.epoch <= r.epoch
      /\ r.epoch \in Nat /\ r'.epoch \in Nat
  BY DEF IInv, Types, Tasks, OneTask, Component
<1>1. Types'
  BY DEF IInv, Types, Tasks, Calls
<1>2. OneTask'
  BY <1>0 DEF IInv, OneTask
<1>3. OwnCalls' /\ SetupCalls'
  BY DEF IInv, OwnCalls, SetupCalls
<1>4. PhaseTells'
  BY DEF IInv, PhaseTells
<1>5. WakesUp'
  <2> SUFFICES ASSUME r'.phase = "waking", ~ended
               PROVE  WakesUp'
    BY DEF WakesUp
  <2>1. r.phase \in Phases /\ r.phase # "idle"
    BY DEF IInv, Types, Component
  <2>2. CASE r.phase \in {"preparing", "detached", "hibernated", "failed"}
    BY <2>2 DEF IInv, PhaseTells, WakesUp, SetUpAhead, AttachUnderWay, RollsBack
  <2>3. CASE r.phase = "waking"
    BY <2>3 DEF IInv, WakesUp, SetUpAhead, AttachUnderWay, RollsBack
  <2> QED BY <2>1, <2>2, <2>3 DEF Phases
<1>6. Reattaches'
  BY DEF IInv, Reattaches, WillBeAttached, SetUpAhead, AttachSent, DetachUnderWay, RollsBack
<1>7. Undisturbed'
  BY <1>0 DEF IInv, Undisturbed
<1>8. AttachedBehind'
  BY DEF IInv, AttachedBehind, WillBeAttached
<1> QED BY <1>1, <1>2, <1>3, <1>4, <1>5, <1>6, <1>7, <1>8 DEF IInv

(* A step of the component that only handles a wake-up.                     *)
LEMMA WokenStep ==
    ASSUME IInv, Elsewhere, r' = requestWake(r)
    PROVE  IInv'
<1>1. r \in Component
  BY DEF IInv, Types
<1>2. LET u == requestWake(r)
      IN  /\ Kept(u, r) /\ u.epoch = r.epoch + 1
          /\ u.phase = (IF r.phase # "idle" THEN "waking" ELSE "idle")
          /\ u.quiet = r.quiet /\ u.pending = r.pending
          /\ r.hibernatedRef => u.commit
          /\ r.commit => u.commit
  BY <1>1, Woken
<1>3. r.epoch \in Nat /\ r.epoch + 1 > r.epoch
  BY <1>1 DEF Component
<1> QED BY <1>2, <1>3, WakeStep

(* A focus, AI or ZMODEM event, or input.                                   *)
LEMMA WakeGood == ASSUME IInv, Wake PROVE IInv'
<1>1. Elsewhere /\ r' = requestWake(r)
  BY DEF Wake, Elsewhere, backend, IInv, Types
<1> QED BY <1>1, WokenStep

(* The session's end is heard.                                              *)
LEMMA ClosedGood == ASSUME IInv, ClosedArrives PROVE IInv'
<1>1. Elsewhere
  BY DEF ClosedArrives, Elsewhere, backend, IInv, Types
<1>2. r \in Component
  BY DEF IInv, Types
<1>3. CASE Listening
  <2> DEFINE s == requestWake(r)
  <2>1. /\ Kept(s, r) /\ s.epoch = r.epoch + 1
        /\ s.phase = (IF r.phase # "idle" THEN "waking" ELSE "idle")
        /\ s.quiet = r.quiet /\ s.pending = r.pending
        /\ r.hibernatedRef => s.commit
        /\ r.commit => s.commit
    BY <1>2, Woken
  <2> HIDE DEF s
  <2>2. r' = enterDisconnectedState(s)
    BY <1>3 DEF ClosedArrives, s
  <2>3. LET u == enterDisconnectedState(s) IN Quietly(u, s) /\ u.epoch = s.epoch
    BY <2>1, Disconnected DEF Kept
  <2>4. r.epoch \in Nat /\ r.epoch + 1 > r.epoch
    BY <1>2 DEF Component
  <2> QED BY <1>1, <2>1, <2>2, <2>3, <2>4, WakeStep DEF Quietly, Kept
<1>4. CASE ~Listening /\ r.hibernated
  BY <1>1, <1>4, WokenStep DEF ClosedArrives
<1>5. CASE ~Listening /\ ~r.hibernated
  <2>1. r' = r /\ r.epoch >= r.epoch
    BY <1>2, <1>5 DEF ClosedArrives, Component
  <2> QED BY <1>1, <1>2, <2>1, CalmStep DEF Kept
<1> QED BY <1>3, <1>4, <1>5

(* The terminal is shown or hidden.                                         *)
LEMMA VisibilityGood == ASSUME IInv, VisibilityChanges PROVE IInv'
<1>1. Elsewhere
  BY DEF VisibilityChanges, Elsewhere, backend, IInv, Types
<1>2. r \in Component
  BY DEF IInv, Types
<1> DEFINE s == [r EXCEPT !.visible = ~@]
<1>3. /\ Kept(s, r) /\ s.epoch = r.epoch
      /\ s.phase = r.phase /\ s.quiet = r.quiet /\ s.pending = r.pending
      /\ s.hibernatedRef = r.hibernatedRef /\ s.nextHibernated = r.nextHibernated
      /\ s.commit = r.commit
  BY <1>2 DEF Component, Kept
<1> HIDE DEF s
<1>4. r' = applyVisibilityPolicy(IF s.visible THEN requestWake(s) ELSE s)
  BY DEF VisibilityChanges, s
<1>5. s \in Component /\ r.epoch \in Nat
  BY <1>2, <1>3 DEF Kept, Component
<1>6. CASE s.visible
  <2> DEFINE u == requestWake(s)
  <2>1. /\ Kept(u, s) /\ u.epoch = s.epoch + 1
        /\ u.phase = (IF s.phase # "idle" THEN "waking" ELSE "idle")
        /\ u.quiet = s.quiet /\ u.pending = s.pending
        /\ s.hibernatedRef => u.commit
        /\ s.commit => u.commit
    BY <1>5, Woken
  <2> HIDE DEF u
  <2>2. r' = applyVisibilityPolicy(u)
    BY <1>4, <1>6 DEF u
  <2>3. Quietly(r', u) /\ r'.epoch \in {u.epoch, u.epoch + 1}
    BY <2>1, <2>2, PolicyApplied DEF Kept
  <2>4. r'.epoch > r.epoch
    BY <1>3, <1>5, <2>1, <2>3
  <2> QED BY <1>1, <1>3, <2>1, <2>3, <2>4, WakeStep DEF Quietly, Kept
<1>7. CASE ~s.visible
  <2>1. Quietly(r', s) /\ r'.epoch \in {s.epoch, s.epoch + 1}
    BY <1>4, <1>5, <1>7, PolicyApplied
  <2>2. r'.epoch >= r.epoch
    BY <1>3, <1>5, <2>1
  <2> QED BY <1>1, <1>3, <2>1, <2>2, CalmStep DEF Quietly, Kept
<1> QED BY <1>6, <1>7

(* The drain writes.                                                        *)
LEMMA DrainGood == ASSUME IInv, DrainWrites PROVE IInv'
<1>1. Elsewhere
  BY DEF DrainWrites, Elsewhere, backend, IInv, Types
<1>2. r \in Component
  BY DEF IInv, Types
<1>3. r.backlog \in Nat /\ r.backlog > 0 /\ r' = [r EXCEPT !.backlog = r.backlog - 1]
  BY <1>2 DEF DrainWrites, Component
<1> DEFINE b == r.backlog - 1
<1>4. b \in Nat /\ r' = [r EXCEPT !.backlog = b]
  BY <1>3
<1> HIDE DEF b
<1>5. /\ Kept(r', r) /\ r'.epoch >= r.epoch
      /\ r'.phase = r.phase /\ r'.quiet = r.quiet /\ r'.pending = r.pending
      /\ r'.hibernatedRef = r.hibernatedRef /\ r'.nextHibernated = r.nextHibernated
      /\ r.commit => r'.commit
  BY <1>2, <1>4 DEF Component, Kept
<1> QED BY <1>1, <1>5, CalmStep

(* A settings change asks for a new terminal.                               *)
LEMMA RebuildGood == ASSUME IInv, Rebuild PROVE IInv'
<1>1. Elsewhere
  BY DEF Rebuild, Elsewhere, backend, IInv, Types
<1>2. r \in Component
  BY DEF IInv, Types
<1>3. /\ Kept(r', r) /\ r'.epoch >= r.epoch
      /\ r'.phase = r.phase /\ r'.quiet = r.quiet /\ r'.pending = r.pending
      /\ r'.hibernatedRef = r.hibernatedRef /\ r'.nextHibernated = r.nextHibernated
      /\ r.commit => r'.commit
  <2>1. r' = [r EXCEPT !.commit = TRUE]
    BY DEF Rebuild
  <2>2. Kept(r', r)
    BY <1>2, <2>1 DEF Component, Kept
  <2> QED BY <1>2, <2>1, <2>2 DEF Component
<1> QED BY <1>1, <1>3, CalmStep

(* The session emits output.                                                *)
LEMMA OutputGood == ASSUME IInv, SessionOutputs PROVE IInv'
<1>1. r \in Component /\ r' = r /\ wire \in Seq({"output", "closed"})
  BY DEF SessionOutputs, IInv, Types
<1>2. Elsewhere
  BY <1>1 DEF SessionOutputs, Elsewhere, backend
<1>3. r'.epoch >= r.epoch
  BY <1>1 DEF Component
<1> QED BY <1>1, <1>2, <1>3, CalmStep DEF Kept

(* Two minutes without output: no task is left.                             *)
LEMMA TimeGood == ASSUME IInv, TimePasses PROVE IInv'
<1>1. r \in Component /\ r' = [r EXCEPT !.quiet = TRUE] /\ tasks = {}
      /\ UNCHANGED <<tasks, calls, channel, attached, ended, wire>>
  BY DEF TimePasses, Settled, backend, IInv, Types
<1>2. /\ Kept(r', r) /\ r'.epoch = r.epoch
      /\ r'.phase = r.phase /\ r'.pending = r.pending
      /\ r'.hibernatedRef = r.hibernatedRef /\ r'.nextHibernated = r.nextHibernated
      /\ r'.commit = r.commit
  BY <1>1 DEF Component, Kept
<1> USE <1>1, <1>2 DEF Kept
<1>3. Types'
  BY DEF IInv, Types, Tasks, Calls
<1>4. OneTask' /\ OwnCalls' /\ SetupCalls' /\ PhaseTells'
  BY DEF IInv, OneTask, OwnCalls, SetupCalls, PhaseTells
<1>5. WakesUp'
  BY DEF IInv, WakesUp, SetUpAhead, AttachUnderWay, RollsBack
<1>6. Reattaches'
  BY DEF IInv, Reattaches, WillBeAttached, SetUpAhead, AttachSent, DetachUnderWay, RollsBack
<1>7. Undisturbed' /\ AttachedBehind'
  BY DEF IInv, Undisturbed, AttachedBehind
<1> QED BY <1>3, <1>4, <1>5, <1>6, <1>7 DEF IInv

-----------------------------------------------------------------------------
(* The session.                                                             *)

(* Reading the channel does not change what it will come to.                *)
LEMMA SameInTheEnd ==
    ASSUME IInv, SessionHandles
    PROVE  WillBeAttached' <=> WillBeAttached
<1>1. /\ channel \in Seq({"attach", "detach"}) /\ channel # <<>>
      /\ channel' = Tail(channel) /\ attached' = (Head(channel) = "attach")
  BY DEF SessionHandles, IInv, Types
<1>2. CASE Len(channel) = 1
  <2>1. channel' = <<>> /\ Head(channel) = channel[Len(channel)]
    BY <1>1, <1>2
  <2> QED BY <1>1, <2>1 DEF WillBeAttached
<1>3. CASE Len(channel) # 1
  <2>0. Len(channel) \in Nat /\ Len(channel) > 1
    <3> DEFINE n == Len(channel)
    <3>1. n \in Nat \ {0} /\ n # 1
      BY <1>1, <1>3, EmptySeq
    <3> HIDE DEF n
    <3>2. n \in Nat /\ n > 1
      BY <3>1
    <3> QED BY <3>2 DEF n
  <2>1. /\ Len(channel') = Len(channel) - 1
        /\ channel'[Len(channel) - 1] = channel[Len(channel)]
    BY <1>1, <2>0
  <2>2. channel' # <<>>
    BY <2>0, <2>1
  <2> QED BY <1>1, <2>1, <2>2 DEF WillBeAttached
<1> QED BY <1>2, <1>3

(* The session reads a command.                                             *)
LEMMA HandlesGood == ASSUME IInv, SessionHandles PROVE IInv'
<1>1. UNCHANGED <<r, tasks, calls, ended, wire>> /\ (WillBeAttached' <=> WillBeAttached)
  BY SameInTheEnd DEF SessionHandles
<1>2. Types'
  <2>1. attached' \in BOOLEAN
    BY Zenon DEF SessionHandles
  <2>2. channel' \in Seq({"attach", "detach"})
    BY DEF SessionHandles, IInv, Types
  <2> QED BY <1>1, <2>1, <2>2 DEF IInv, Types, Tasks, Calls
<1>3. OneTask' /\ OwnCalls' /\ SetupCalls' /\ PhaseTells' /\ Undisturbed'
  BY <1>1 DEF IInv, OneTask, OwnCalls, SetupCalls, PhaseTells, Undisturbed
<1>4. WakesUp'
  BY <1>1 DEF IInv, WakesUp, SetUpAhead, AttachUnderWay, RollsBack
<1>5. Reattaches' /\ AttachedBehind'
  BY <1>1 DEF IInv, Reattaches, AttachedBehind, SetUpAhead, AttachSent, DetachUnderWay,
              RollsBack
<1> QED BY <1>2, <1>3, <1>4, <1>5 DEF IInv

(* The session ends.                                                        *)
LEMMA EndsGood == ASSUME IInv, SessionEnds PROVE IInv'
<1>1. /\ UNCHANGED <<r, tasks, calls, attached>> /\ ended' = TRUE /\ channel' = <<>>
      /\ wire' = Append(wire, "closed")
  BY DEF SessionEnds
<1>2. Types'
  <2>1. wire' \in Seq({"output", "closed"}) /\ channel' \in Seq({"attach", "detach"})
    BY <1>1 DEF IInv, Types
  <2>2. ended' \in BOOLEAN
    BY <1>1
  <2> QED BY <1>1, <2>1, <2>2 DEF IInv, Types, Tasks, Calls
<1>3. OneTask' /\ OwnCalls' /\ SetupCalls' /\ PhaseTells' /\ Undisturbed'
  BY <1>1 DEF IInv, OneTask, OwnCalls, SetupCalls, PhaseTells, Undisturbed
<1>4. WakesUp' /\ Reattaches' /\ AttachedBehind'
  BY <1>1 DEF WakesUp, Reattaches, AttachedBehind
<1> QED BY <1>2, <1>3, <1>4 DEF IInv

-----------------------------------------------------------------------------
(* Calls.                                                                   *)

(* A call reaches the session's channel.                                    *)
LEMMA ArrivesGood == ASSUME IInv, NEW c \in calls, CallArrives(c) PROVE IInv'
<1> DEFINE at == IF ended THEN "failed" ELSE "queued"
           d == [c EXCEPT !.at = at]
<1>1. /\ c.at = "sent" /\ calls' = (calls \ {c}) \union {d}
      /\ channel' = IF ended THEN channel ELSE Append(channel, c.command)
      /\ UNCHANGED <<r, tasks, attached, ended, wire>>
  BY DEF CallArrives
<1>2. c \in Calls
  BY DEF IInv, Types
<1>3. /\ d \in Calls /\ d.command = c.command /\ d.by = c.by /\ d.number = c.number
      /\ d.epoch = c.epoch /\ d.at = at
  BY <1>2 DEF Calls
<1>4. at = "failed" => ended
  OBVIOUS
<1> HIDE DEF at, d
<1>5. c.command \in {"attach", "detach"} /\ channel \in Seq({"attach", "detach"})
  BY <1>2 DEF Calls, IInv, Types
<1>6. Types'
  <2>1. channel' \in Seq({"attach", "detach"})
    BY <1>1, <1>5
  <2>2. calls' \subseteq Calls
    BY <1>1, <1>3 DEF IInv, Types
  <2>3. tasks' \subseteq Tasks' /\ calls' \subseteq Calls'
    BY <1>1, <2>2 DEF IInv, Types, Tasks, Calls
  <2>4. r' \in Component' /\ wire' \in Seq({"output", "closed"})
        /\ attached' \in BOOLEAN /\ ended' \in BOOLEAN
    BY <1>1 DEF IInv, Types
  <2> QED BY <2>1, <2>3, <2>4 DEF Types
<1>7. ~ended => (WillBeAttached' <=> c.command = "attach")
  <2> SUFFICES ASSUME ~ended PROVE WillBeAttached' <=> c.command = "attach"
    OBVIOUS
  <2>1. channel' = Append(channel, c.command)
    BY <1>1
  <2>2. channel' # <<>> /\ channel'[Len(channel')] = c.command
    BY <1>5, <2>1
  <2> QED BY <2>2 DEF WillBeAttached
<1>8. OneTask' /\ PhaseTells'
  BY <1>1 DEF IInv, OneTask, PhaseTells
<1>9. OwnCalls'
  BY <1>1, <1>3, <1>4 DEF IInv, OwnCalls
<1>10. SetupCalls'
  BY <1>1, <1>3 DEF IInv, SetupCalls
<1>11. WakesUp'
  <2>1. AttachUnderWay => AttachUnderWay'
    BY <1>1, <1>3 DEF AttachUnderWay
  <2> QED BY <1>1, <2>1 DEF IInv, WakesUp, SetUpAhead, RollsBack
<1>12. Reattaches'
  <2>1. c.command = "detach" => DetachUnderWay'
    BY <1>1, <1>3 DEF DetachUnderWay
  <2> QED BY <1>1, <1>5, <1>7, <2>1 DEF Reattaches
<1>13. Undisturbed'
  BY <1>1, <1>3 DEF IInv, Undisturbed
<1>14. AttachedBehind'
  <2> SUFFICES ASSUME ~ended, ~r.overlap, NEW t \in tasks, t.pc = "draining again"
               PROVE  WillBeAttached'
    BY <1>1 DEF AttachedBehind
  <2>1. c.command # "detach"
    BY DEF IInv, OwnCalls
  <2> QED BY <1>5, <1>7, <2>1
<1> QED BY <1>6, <1>8, <1>9, <1>10, <1>11, <1>12, <1>13, <1>14 DEF IInv

(* A queued attach is answered that no task awaits, or one that failed is.  *)
LEMMA OtherAnswered ==
    ASSUME IInv, NEW c \in calls, c.by # "task", c.at # "sent",
           calls' = calls \ {c}, UNCHANGED <<tasks, channel, attached, ended, wire>>,
           r' \in Component, r'.generation = r.generation,
           r'.alive = r.alive, r'.hibernated = r.hibernated, r'.overlap = r.overlap,
           r'.quiet = r.quiet, r'.pending = r.pending,
           r'.hibernatedRef = r.hibernatedRef, r'.nextHibernated = r.nextHibernated,
           r'.commit = r.commit, r'.epoch >= r.epoch,
           \/ r'.setup = r.setup
           \/ r'.setup = "done" /\ c.by = "setup" /\ r.alive /\ c.number = r.generation,
           c.at = "failed" => r'.phase \in {r.phase, "failed"} /\ r'.detachedEpoch = r.detachedEpoch,
           c.at = "queued" => r'.phase = "idle"
    PROVE  IInv'
<1>1. /\ c.command = "attach" /\ c.at \in {"queued", "failed"}
      /\ c.at = "failed" => ended
  BY DEF IInv, OwnCalls, Types, Calls
<1>2. /\ \A t \in tasks : t.epoch \in Nat /\ t.epoch <= r.epoch
      /\ r.epoch \in Nat /\ r'.epoch \in Nat
  BY DEF IInv, Types, Tasks, OneTask, Component
<1>3. Types'
  BY DEF IInv, Types, Tasks, Calls
<1>4. OneTask'
  BY <1>2 DEF IInv, OneTask
<1>5. OwnCalls'
  BY DEF IInv, OwnCalls
<1>6. SetupCalls'
  BY DEF IInv, SetupCalls
<1>7. PhaseTells'
  BY <1>1 DEF IInv, PhaseTells
<1>8. WakesUp'
  BY <1>1 DEF WakesUp
<1>9. Reattaches'
  <2> SUFFICES ASSUME ~ended, ~r.overlap, ~WillBeAttached
               PROVE  (SetUpAhead \/ AttachSent \/ DetachUnderWay \/ RollsBack)'
    BY DEF Reattaches, WillBeAttached
  <2>1. c.at = "queued"
    BY <1>1
  <2>2. SetUpAhead => SetUpAhead'
    BY DEF SetUpAhead, IInv, SetupCalls
  <2>3. (AttachSent => AttachSent') /\ (DetachUnderWay => DetachUnderWay')
    BY <1>1 DEF AttachSent, DetachUnderWay
  <2>4. ~RollsBack
    BY <1>1, <2>1 DEF RollsBack, IInv, AttachedBehind
  <2> QED BY <2>2, <2>3, <2>4 DEF IInv, Reattaches
<1>10. Undisturbed'
  BY <1>2 DEF IInv, Undisturbed
<1>11. AttachedBehind'
  BY DEF IInv, AttachedBehind, WillBeAttached
<1> QED BY <1>3, <1>4, <1>5, <1>6, <1>7, <1>8, <1>9, <1>10, <1>11 DEF IInv

(* restoreDetachedRenderer after its await.                                 *)
LEMMA RestoredIs ==
    ASSUME r \in Component, NEW c
    PROVE  LET u == Restored(c)
           IN  /\ u \in Component /\ u.generation = r.generation
               /\ u.alive = r.alive /\ u.hibernated = r.hibernated /\ u.overlap = r.overlap
               /\ u.quiet = r.quiet /\ u.pending = r.pending
               /\ u.hibernatedRef = r.hibernatedRef /\ u.nextHibernated = r.nextHibernated
               /\ u.commit = r.commit /\ u.epoch = r.epoch /\ u.setup = r.setup
               /\ c.at = "failed" => u.phase = r.phase /\ u.detachedEpoch = r.detachedEpoch
               /\ c.at # "failed" => u.phase = "idle" /\ u.detachedEpoch = NoEpoch
<1>1. CASE c.at = "failed"
  <2>1. Restored(c) = enterDisconnectedState(r)
    BY <1>1 DEF Restored
  <2> QED BY <1>1, <2>1, Disconnected DEF Quietly, Kept
<1>2. CASE c.at # "failed"
  <2>1. Restored(c) = [r EXCEPT !.detachedEpoch = NoEpoch, !.phase = "idle"]
    BY <1>2 DEF Restored
  <2>2. NoEpoch \in Nat /\ "idle" \in Phases
    BY DEF NoEpoch, Phases
  <2>3. Restored(c) \in Component
    BY <2>1, <2>2 DEF Component
  <2> QED BY <1>2, <2>1, <2>3 DEF Component
<1> QED BY <1>1, <1>2

(* The note's restore may set the timer.                                    *)
LEMMA NoteRestoredIs ==
    ASSUME r \in Component, NEW c
    PROVE  LET u == NoteRestored(c)
           IN  /\ u \in Component /\ u.generation = r.generation
               /\ u.alive = r.alive /\ u.hibernated = r.hibernated /\ u.overlap = r.overlap
               /\ u.quiet = r.quiet /\ u.pending = r.pending
               /\ u.hibernatedRef = r.hibernatedRef /\ u.nextHibernated = r.nextHibernated
               /\ u.commit = r.commit /\ u.epoch >= r.epoch /\ u.setup = r.setup
               /\ c.at = "failed" => u.phase = r.phase /\ u.detachedEpoch = r.detachedEpoch
               /\ c.at # "failed" => u.phase = "idle"
<1> DEFINE s == Restored(c)
<1>1. /\ s \in Component /\ s.generation = r.generation
      /\ s.alive = r.alive /\ s.hibernated = r.hibernated /\ s.overlap = r.overlap
      /\ s.quiet = r.quiet /\ s.pending = r.pending
      /\ s.hibernatedRef = r.hibernatedRef /\ s.nextHibernated = r.nextHibernated
      /\ s.commit = r.commit /\ s.epoch = r.epoch /\ s.setup = r.setup
      /\ c.at = "failed" => s.phase = r.phase /\ s.detachedEpoch = r.detachedEpoch
      /\ c.at # "failed" => s.phase = "idle"
  BY RestoredIs
<1>2. NoteRestored(c) = IF ~s.visible /\ s.phase = "idle" /\ s.alive THEN scheduleHibernate(s) ELSE s
  BY Zenon DEF NoteRestored
<1> HIDE DEF s
<1>3. r.epoch \in Nat /\ r.epoch >= r.epoch /\ r.epoch + 1 >= r.epoch
  BY DEF Component
<1>4. LET v == scheduleHibernate(s) IN Quietly(v, s) /\ v.epoch \in {s.epoch, s.epoch + 1}
  BY <1>1, Scheduled
<1>5. CASE ~s.visible /\ s.phase = "idle" /\ s.alive
  BY <1>1, <1>2, <1>3, <1>4, <1>5 DEF Quietly, Kept
<1>6. CASE ~(~s.visible /\ s.phase = "idle" /\ s.alive)
  BY <1>1, <1>2, <1>3, <1>6
<1> QED BY <1>5, <1>6

(* The attach of the clean-up.                                              *)
LEMMA CleanedUpIs ==
    ASSUME r \in Component, NEW c
    PROVE  LET u == CleanedUp(c)
           IN  /\ u \in Component /\ u.generation = r.generation
               /\ u.alive = r.alive /\ u.hibernated = r.hibernated /\ u.overlap = r.overlap
               /\ u.quiet = r.quiet /\ u.pending = r.pending
               /\ u.hibernatedRef = r.hibernatedRef /\ u.nextHibernated = r.nextHibernated
               /\ u.commit = r.commit /\ u.epoch = r.epoch /\ u.setup = r.setup
               /\ c.at = "failed" => u.phase = "failed" /\ u.detachedEpoch = r.detachedEpoch
               /\ c.at # "failed" => u.phase = "idle"
<1>1. CASE c.at = "failed"
  BY <1>1 DEF CleanedUp, Component, Phases
<1>2. CASE c.at # "failed"
  <2> DEFINE e == IF r.detachedEpoch = c.epoch THEN NoEpoch ELSE r.detachedEpoch
  <2>1. e \in Nat
    BY DEF Component, NoEpoch
  <2>2. CleanedUp(c) = [r EXCEPT !.phase = "idle", !.detachedEpoch = e]
    BY <1>2 DEF CleanedUp
  <2> HIDE DEF e
  <2> QED BY <1>2, <2>1, <2>2, ZenonT(60) DEF Component, Phases
<1> QED BY <1>1, <1>2

(* The end of setup.                                                        *)
LEMMA SetUpIs ==
    ASSUME r \in Component, NEW c
    PROVE  LET u == SetUp(c)
           IN  /\ u \in Component /\ u.generation = r.generation
               /\ u.alive = r.alive /\ u.hibernated = r.hibernated /\ u.overlap = r.overlap
               /\ u.quiet = r.quiet /\ u.pending = r.pending
               /\ u.hibernatedRef = r.hibernatedRef /\ u.nextHibernated = r.nextHibernated
               /\ u.commit = r.commit /\ u.epoch = r.epoch
               /\ \/ u.setup = r.setup
                  \/ u.setup = "done" /\ r.alive /\ c.number = r.generation
               /\ c.at = "failed" => u.phase = "failed" /\ u.detachedEpoch = r.detachedEpoch
               /\ c.at # "failed" => u.phase = "idle"
<1> DEFINE s == IF c.at = "failed"
                THEN enterDisconnectedState([r EXCEPT !.phase = "failed"])
                ELSE updateOutputDrainMode([r EXCEPT !.detachedEpoch = NoEpoch, !.phase = "idle"])
<1>1. /\ s \in Component /\ s.generation = r.generation
      /\ s.alive = r.alive /\ s.hibernated = r.hibernated /\ s.overlap = r.overlap
      /\ s.quiet = r.quiet /\ s.pending = r.pending
      /\ s.hibernatedRef = r.hibernatedRef /\ s.nextHibernated = r.nextHibernated
      /\ s.commit = r.commit /\ s.epoch = r.epoch /\ s.setup = r.setup
      /\ c.at = "failed" => s.phase = "failed" /\ s.detachedEpoch = r.detachedEpoch
      /\ c.at # "failed" => s.phase = "idle"
  <2>1. CASE c.at = "failed"
    <3> DEFINE a == [r EXCEPT !.phase = "failed"]
    <3>1. Kept(a, r) /\ a.phase = "failed" /\ a.quiet = r.quiet /\ a.pending = r.pending
          /\ a.hibernatedRef = r.hibernatedRef /\ a.nextHibernated = r.nextHibernated
          /\ a.commit = r.commit /\ a.epoch = r.epoch
      BY DEF Component, Phases, Kept
    <3>2. s = enterDisconnectedState(a)
      BY <2>1
    <3> HIDE DEF a, s
    <3>3. Quietly(s, a) /\ s.epoch = a.epoch
      BY <3>1, <3>2, Disconnected DEF Kept
    <3> QED BY <2>1, <3>1, <3>3 DEF Quietly, Kept
  <2>2. CASE c.at # "failed"
    <3> DEFINE a == [r EXCEPT !.detachedEpoch = NoEpoch, !.phase = "idle"]
    <3>1. /\ a \in Component /\ a.generation = r.generation
          /\ a.alive = r.alive /\ a.hibernated = r.hibernated /\ a.overlap = r.overlap
          /\ a.quiet = r.quiet /\ a.pending = r.pending
          /\ a.hibernatedRef = r.hibernatedRef /\ a.nextHibernated = r.nextHibernated
          /\ a.commit = r.commit /\ a.epoch = r.epoch /\ a.setup = r.setup
          /\ a.phase = "idle"
      BY DEF Component, Phases, NoEpoch
    <3>2. s = updateOutputDrainMode(a)
      BY <2>2
    <3> HIDE DEF a, s
    <3>3. Quietly(s, a) /\ s.epoch = a.epoch
      BY <3>1, <3>2, ModeSet
    <3> QED BY <2>2, <3>1, <3>3 DEF Quietly, Kept
  <2> QED BY <2>1, <2>2
<1>2. SetUp(c) = IF isTerminalAlive(r, c.number) THEN [s EXCEPT !.setup = "done"] ELSE s
  BY Zenon DEF SetUp
<1> HIDE DEF s
<1>3. CASE isTerminalAlive(r, c.number)
  <2>1. SetUp(c) = [s EXCEPT !.setup = "done"] /\ r.alive /\ c.number = r.generation
    BY <1>2, <1>3 DEF isTerminalAlive
  <2> DEFINE u == SetUp(c)
  <2>2. u \in Component /\ u.setup = "done"
    BY <1>1, <2>1 DEF Component
  <2>3. /\ u.generation = s.generation
        /\ u.alive = s.alive /\ u.hibernated = s.hibernated /\ u.overlap = s.overlap
        /\ u.quiet = s.quiet /\ u.pending = s.pending
        /\ u.hibernatedRef = s.hibernatedRef /\ u.nextHibernated = s.nextHibernated
        /\ u.commit = s.commit /\ u.epoch = s.epoch
        /\ u.phase = s.phase /\ u.detachedEpoch = s.detachedEpoch
    BY <1>1, <2>1, ZenonT(60) DEF Component
  <2> HIDE DEF u
  <2> QED BY <1>1, <2>1, <2>2, <2>3, ZenonT(60) DEF u
<1>4. CASE ~isTerminalAlive(r, c.number)
  BY <1>1, <1>2, <1>4
<1> QED BY <1>3, <1>4

(* The answers that no task awaits.                                         *)
LEMMA OtherGood ==
    ASSUME IInv, NEW c \in calls, c.by # "task", c.at # "sent",
           r' = CASE c.by = "setup" -> SetUp(c)
                  [] c.by = "cleanup" -> CleanedUp(c)
                  [] c.by = "note" -> NoteRestored(c),
           calls' = calls \ {c}, UNCHANGED <<tasks, channel, attached, ended, wire>>
    PROVE  IInv'
<1>1. r \in Component
  BY DEF IInv, Types
<1>2. c.by \in {"setup", "cleanup", "note"} /\ r.epoch >= r.epoch
      /\ (c.at = "queued" => c.at # "failed")
  BY <1>1 DEF IInv, Types, Calls, Component
<1>3. CASE c.by = "setup"
  <2>1. r' = SetUp(c)
    BY <1>3
  <2> QED BY <1>1, <1>2, <1>3, <2>1, SetUpIs, OtherAnswered
<1>4. CASE c.by = "cleanup"
  <2>1. r' = CleanedUp(c)
    BY <1>4
  <2> QED BY <1>1, <1>2, <1>4, <2>1, CleanedUpIs, OtherAnswered
<1>5. CASE c.by = "note"
  <2>1. r' = NoteRestored(c)
    BY <1>5
  <2> QED BY <1>1, <1>2, <1>5, <2>1, NoteRestoredIs, OtherAnswered
<1> QED BY <1>2, <1>3, <1>4, <1>5

(* An attach is sent by someone else than a task, which is not undisturbed. *)
LEMMA AttachStep ==
    ASSUME IInv, UNCHANGED <<tasks, channel, attached, ended>>,
           wire' \in Seq({"output", "closed"}),
           NEW d \in Calls, d.command = "attach", d.at = "sent", d.by # "task",
           calls' = calls \union {d},
           r' \in Component, r'.generation = r.generation,
           r'.alive = r.alive, r'.hibernated = r.hibernated, r'.overlap = r.overlap,
           r'.quiet => r.quiet, r'.pending = r.pending, r'.phase = r.phase,
           r'.hibernatedRef = r.hibernatedRef, r'.nextHibernated = r.nextHibernated,
           r'.commit = r.commit, r'.epoch >= r.epoch, r'.detachedEpoch = r.detachedEpoch,
           r.setup # "done" \/ r'.epoch > r.epoch,
           \/ d.by # "setup" /\ r'.setup = r.setup
           \/ d.by = "setup" /\ d.number = r.generation /\ r'.setup = "attaching"
    PROVE  IInv'
<1>1. /\ \A t \in tasks : t.epoch \in Nat /\ t.epoch <= r.epoch
      /\ r.epoch \in Nat /\ r'.epoch \in Nat /\ r.generation \in Nat
  BY DEF IInv, Types, Tasks, OneTask, Component
<1>2. Types'
  BY DEF IInv, Types, Tasks, Calls
<1>3. OneTask'
  BY <1>1 DEF IInv, OneTask
<1>4. OwnCalls'
  BY DEF IInv, OwnCalls
<1>5. SetupCalls'
  BY <1>1 DEF IInv, SetupCalls
<1>6. PhaseTells'
  BY DEF IInv, PhaseTells
<1>7. WakesUp' /\ Reattaches'
  BY DEF WakesUp, Reattaches, AttachUnderWay, AttachSent
<1>8. Undisturbed'
  BY <1>1 DEF IInv, Undisturbed
<1>9. AttachedBehind'
  BY DEF IInv, AttachedBehind, WillBeAttached
<1> QED BY <1>2, <1>3, <1>4, <1>5, <1>6, <1>7, <1>8, <1>9 DEF IInv

(* setup has its listener.                                                  *)
LEMMA ListensGood == ASSUME IInv, Listens PROVE IInv'
<1>1. /\ r \in Component /\ r' = [r EXCEPT !.setup = "listening"] /\ r.setup = "starting"
      /\ UNCHANGED <<tasks, calls, channel, attached, ended, wire>>
  BY DEF Listens, backend, IInv, Types
<1>2. /\ r' \in Component /\ r'.setup = "listening"
      /\ r'.generation = r.generation /\ r'.alive = r.alive
      /\ r'.hibernated = r.hibernated /\ r'.overlap = r.overlap /\ r'.epoch = r.epoch
      /\ r'.quiet = r.quiet /\ r'.pending = r.pending /\ r'.phase = r.phase
      /\ r'.hibernatedRef = r.hibernatedRef /\ r'.nextHibernated = r.nextHibernated
      /\ r'.commit = r.commit /\ r'.detachedEpoch = r.detachedEpoch
  BY <1>1 DEF Component
<1>3. r.setup = "starting" /\ UNCHANGED <<tasks, calls, channel, attached, ended, wire>>
  BY <1>1
<1> USE <1>3, <1>2
<1>4. Types'
  BY DEF IInv, Types, Tasks, Calls
<1>5. OneTask' /\ OwnCalls'
  BY DEF IInv, OneTask, OwnCalls
<1>6. SetupCalls'
  BY DEF IInv, SetupCalls
<1>7. PhaseTells'
  BY DEF IInv, PhaseTells
<1>8. WakesUp' /\ Reattaches'
  BY DEF WakesUp, Reattaches, SetUpAhead
<1>9. Undisturbed' /\ AttachedBehind'
  BY DEF IInv, Undisturbed, AttachedBehind, WillBeAttached
<1> QED BY <1>4, <1>5, <1>6, <1>7, <1>8, <1>9 DEF IInv

(* setup attaches.                                                          *)
LEMMA ReplayedGood == ASSUME IInv, SnapshotReplayed PROVE IInv'
<1> DEFINE d == Call("attach", "setup", r.generation, NoEpoch)
<1>1. /\ r \in Component /\ r' = [r EXCEPT !.setup = "attaching"] /\ r.setup = "listening"
      /\ calls' = calls \union {d}
      /\ UNCHANGED <<tasks, channel, attached, ended, wire>>
      /\ wire \in Seq({"output", "closed"})
  BY DEF SnapshotReplayed, backend, IInv, Types
<1>2. /\ r' \in Component /\ r'.setup = "attaching"
      /\ r'.generation = r.generation /\ r'.alive = r.alive
      /\ r'.hibernated = r.hibernated /\ r'.overlap = r.overlap /\ r'.epoch >= r.epoch
      /\ r'.quiet = r.quiet /\ r'.pending = r.pending /\ r'.phase = r.phase
      /\ r'.hibernatedRef = r.hibernatedRef /\ r'.nextHibernated = r.nextHibernated
      /\ r'.commit = r.commit /\ r'.detachedEpoch = r.detachedEpoch
  BY <1>1 DEF Component
<1>3. /\ d \in Calls /\ d.command = "attach" /\ d.at = "sent" /\ d.by = "setup"
      /\ d.number = r.generation
  BY <1>1 DEF Call, Calls, NoEpoch, Component
<1> HIDE DEF d
<1> QED BY <1>1, <1>2, <1>3, AttachStep

(* Output without a call: the hibernation is cancelled or put off.          *)
LEMMA NotedIs ==
    ASSUME NEW s \in Component
    PROVE  LET u == noteOutputActivity(s)
           IN  /\ Kept(u, s) /\ ~u.quiet /\ u.epoch >= s.epoch
               /\ u.phase \in {s.phase, "idle"}
               /\ u.pending => s.pending
               /\ u.hibernatedRef = s.hibernatedRef /\ u.nextHibernated = s.nextHibernated
               /\ u.commit = s.commit
               /\ ~s.visible /\ s.phase = "detached" =>
                     u.phase = s.phase /\ u.pending = s.pending /\ u.epoch > s.epoch
<1> DEFINE n == [s EXCEPT !.quiet = FALSE]
           cleared == clearHibernateTimer(n)
           cancelled == [cleared EXCEPT !.epoch = @ + 1]
           idle == [cancelled EXCEPT !.phase = "idle", !.pending = FALSE]
<1>0. s.epoch \in Nat /\ "idle" \in Phases
  BY DEF Component, Phases
<1>1. /\ Kept(n, s) /\ ~n.quiet /\ n.epoch = s.epoch /\ n.phase = s.phase
      /\ n.pending = s.pending /\ n.commit = s.commit
      /\ n.hibernatedRef = s.hibernatedRef /\ n.nextHibernated = s.nextHibernated
  BY DEF Component, Kept
<1>2. noteOutputActivity(s) =
        IF s.visible THEN n
        ELSE IF s.phase = "idle" THEN scheduleHibernate(cleared)
        ELSE IF s.phase = "preparing" THEN scheduleHibernate(updateOutputDrainMode(idle))
        ELSE IF s.phase = "detached" THEN cancelled
        ELSE cleared
  BY Zenon DEF noteOutputActivity
<1> HIDE DEF n
<1>3. Quietly(cleared, n) /\ cleared.epoch = n.epoch
  BY <1>1, TimerCleared DEF Kept
<1> HIDE DEF cleared
<1>4. /\ Quietly(cancelled, cleared) /\ cancelled.epoch = cleared.epoch + 1
  <2> DEFINE e == cleared.epoch + 1
  <2>1. e \in Nat /\ cleared \in Component
    BY <1>0, <1>1, <1>3 DEF Quietly, Kept
  <2>2. cancelled = [cleared EXCEPT !.epoch = e]
    OBVIOUS
  <2> HIDE DEF e, cancelled
  <2>3. cancelled \in Component
    BY <2>1, <2>2 DEF Component
  <2>4. cancelled.epoch = e /\ Quietly(cancelled, cleared)
    BY <2>1, <2>2, <2>3 DEF Component, Quietly, Kept
  <2> QED BY <2>4 DEF e
<1> HIDE DEF cancelled
<1>5. /\ Kept(idle, cancelled) /\ idle.phase = "idle" /\ ~idle.pending
      /\ idle.epoch = cancelled.epoch
      /\ idle.quiet = cancelled.quiet /\ idle.commit = cancelled.commit
      /\ idle.hibernatedRef = cancelled.hibernatedRef
      /\ idle.nextHibernated = cancelled.nextHibernated
  <2>1. cancelled \in Component
    BY <1>4 DEF Quietly, Kept
  <2>2. idle \in Component
    BY <1>0, <2>1 DEF Component
  <2> QED BY <2>1, <2>2 DEF Component, Kept
<1> HIDE DEF idle
<1>6. CASE s.visible
  BY <1>0, <1>1, <1>2, <1>6 DEF Kept
<1>7. CASE ~s.visible /\ s.phase = "idle"
  <2>1. LET v == scheduleHibernate(cleared)
        IN  Quietly(v, cleared) /\ v.epoch \in {cleared.epoch, cleared.epoch + 1}
    BY <1>3, Scheduled DEF Quietly, Kept
  <2> QED BY <1>0, <1>1, <1>2, <1>3, <1>7, <2>1 DEF Quietly, Kept
<1>8. CASE ~s.visible /\ s.phase = "preparing"
  <2> DEFINE m == updateOutputDrainMode(idle)
  <2>1. Quietly(m, idle) /\ m.epoch = idle.epoch
    BY <1>5, ModeSet DEF Kept
  <2>2. noteOutputActivity(s) = scheduleHibernate(m)
    BY <1>2, <1>8
  <2> HIDE DEF m
  <2>3. LET v == scheduleHibernate(m) IN Quietly(v, m) /\ v.epoch \in {m.epoch, m.epoch + 1}
    BY <2>1, Scheduled DEF Quietly, Kept
  <2> QED BY <1>0, <1>1, <1>3, <1>4, <1>5, <1>8, <2>1, <2>2, <2>3 DEF Quietly, Kept
<1>9. CASE ~s.visible /\ s.phase = "detached"
  BY <1>0, <1>1, <1>2, <1>3, <1>4, <1>9 DEF Quietly, Kept
<1>10. CASE ~s.visible /\ s.phase \notin {"idle", "preparing", "detached"}
  BY <1>0, <1>1, <1>2, <1>3, <1>10 DEF Quietly, Kept
<1> QED BY <1>6, <1>7, <1>8, <1>9, <1>10

(* Output reaches the webview.                                              *)
LEMMA OutputArrivesGood == ASSUME IInv, OutputArrives PROVE IInv'
<1>1. /\ r \in Component /\ r.epoch \in Nat
      /\ UNCHANGED <<tasks, channel, attached, ended>>
      /\ wire' \in Seq({"output", "closed"})
  BY DEF OutputArrives, backend, IInv, Types, Component
<1>2. CASE ~Listening
  <2>1. Elsewhere /\ r' = r
    BY <1>1, <1>2 DEF OutputArrives, Elsewhere
  <2> QED BY <1>1, <2>1, CalmStep DEF Kept
<1>3. CASE Listening
  <2> DEFINE s == [r EXCEPT !.backlog = @ + 1]
  <2>1. r' = noteOutputActivity(s)
    BY <1>3 DEF OutputArrives
  <2>2. /\ Kept(s, r) /\ s.epoch = r.epoch /\ s.phase = r.phase
        /\ s.quiet = r.quiet /\ s.pending = r.pending /\ s.visible = r.visible
        /\ s.hibernatedRef = r.hibernatedRef /\ s.nextHibernated = r.nextHibernated
        /\ s.commit = r.commit
    <3> DEFINE b == r.backlog + 1
    <3>1. b \in Nat
      BY <1>1 DEF Component
    <3>2. s = [r EXCEPT !.backlog = b]
      OBVIOUS
    <3> HIDE DEF b, s
    <3> QED BY <1>1, <3>1, <3>2 DEF Component, Kept
  <2> HIDE DEF s
  <2>3. /\ Kept(r', s) /\ ~r'.quiet /\ r'.epoch >= s.epoch
        /\ r'.phase \in {s.phase, "idle"}
        /\ r'.pending => s.pending
        /\ r'.hibernatedRef = s.hibernatedRef /\ r'.nextHibernated = s.nextHibernated
        /\ r'.commit = s.commit
        /\ ~s.visible /\ s.phase = "detached" =>
              r'.phase = s.phase /\ r'.pending = s.pending /\ r'.epoch > s.epoch
    BY <2>1, <2>2, NotedIs DEF Kept
  <2>4. CASE ~r.visible /\ r.phase = "detached" /\ r.detachedEpoch # NoEpoch
    <3> DEFINE d == Call("attach", "note", r.epoch, r.detachedEpoch)
    <3>1. calls' = calls \union {d}
      BY <1>3, <2>4 DEF OutputArrives
    <3>2. d \in Calls /\ d.command = "attach" /\ d.at = "sent" /\ d.by = "note"
      BY <1>1 DEF Call, Calls, Component
    <3> HIDE DEF d
    <3> QED BY <1>1, <2>2, <2>3, <2>4, <3>1, <3>2, AttachStep DEF Kept
  <2>5. CASE ~(~r.visible /\ r.phase = "detached" /\ r.detachedEpoch # NoEpoch)
    <3>1. Elsewhere
      BY <1>1, <1>3, <2>5 DEF OutputArrives, Elsewhere
    <3> QED BY <2>2, <2>3, <3>1, CalmStep DEF Kept
  <2> QED BY <2>4, <2>5
<1> QED BY <1>2, <1>3

-----------------------------------------------------------------------------
(* React.                                                                   *)

(* The clean-up of the terminal effect ends the hibernation under way,      *)
(* unless it is the one that hibernation has asked for.                     *)
LEMMA CleanUpIs ==
    ASSUME r \in Component
    PROVE  LET s == CleanUp
           IN  /\ s \in Component /\ ~s.alive
               /\ s.generation = r.generation /\ s.overlap = r.overlap
               /\ s.detachedEpoch = r.detachedEpoch /\ s.phase = r.phase
               /\ s.quiet = r.quiet /\ s.pending = r.pending
               /\ s.nextHibernated = r.nextHibernated
               /\ s.epoch >= r.epoch
               /\ r.alive /\ ~IsHibernateCleanup => s.epoch > r.epoch
<1>0. r.epoch \in Nat
  BY DEF Component
<1>1. CASE ~r.alive
  BY <1>0, <1>1 DEF CleanUp
<1>2. CASE r.alive
  <2> DEFINE a == IF IsHibernateCleanup THEN clearHibernateTimer(r) ELSE invalidateHibernation(r)
  <2>1. /\ Quietly(a, r) /\ a.epoch >= r.epoch
        /\ ~IsHibernateCleanup => a.epoch > r.epoch
    <3> DEFINE c == clearHibernateTimer(r)
               e == c.epoch + 1
    <3>1. Quietly(c, r) /\ c.epoch = r.epoch
      BY TimerCleared
    <3>2. CASE IsHibernateCleanup
      BY <1>0, <3>1, <3>2
    <3>3. CASE ~IsHibernateCleanup
      <4>1. a = [c EXCEPT !.epoch = e]
        BY <3>3 DEF invalidateHibernation
      <4>2. e \in Nat /\ e > r.epoch /\ e >= r.epoch /\ c \in Component
        BY <1>0, <3>1 DEF Quietly, Kept
      <4> HIDE DEF e, c, a
      <4>3. a \in Component
        BY <4>1, <4>2 DEF Component
      <4>4. Quietly(a, c) /\ a.epoch = e
        BY <4>1, <4>2, <4>3 DEF Component, Quietly, Kept
      <4> QED BY <3>1, <4>2, <4>4 DEF Quietly, Kept
    <3> QED BY <3>2, <3>3
  <2>2. CleanUp = [a EXCEPT !.alive = FALSE, !.cleanup = FALSE, !.backlog = 0, !.setup = "none"]
    BY <1>2 DEF CleanUp
  <2> HIDE DEF a
  <2> DEFINE s == CleanUp
  <2>3. a \in Component
    BY <2>1 DEF Quietly, Kept
  <2>4. s \in Component /\ ~s.alive
    BY <2>2, <2>3, ZenonT(60) DEF Component
  <2>5. /\ s.generation = a.generation /\ s.overlap = a.overlap
        /\ s.detachedEpoch = a.detachedEpoch /\ s.phase = a.phase
        /\ s.quiet = a.quiet /\ s.pending = a.pending
        /\ s.nextHibernated = a.nextHibernated /\ s.epoch = a.epoch
    BY <2>2, <2>3 DEF Component
  <2> HIDE DEF s
  <2>6. /\ s.epoch >= r.epoch
        /\ r.alive /\ ~IsHibernateCleanup => s.epoch > r.epoch
    BY <2>1, <2>5
  <2> QED BY <2>1, <2>4, <2>5, <2>6 DEF Quietly, Kept, s
<1> QED BY <1>1, <1>2

(* What a commit makes of the component.                                    *)
LEMMA CommittedIs ==
    ASSUME r \in Component, Commit
    PROVE  /\ r' \in Component /\ r'.overlap = r.overlap
           /\ r'.detachedEpoch = r.detachedEpoch /\ r'.phase = r.phase
           /\ r'.quiet = r.quiet /\ r'.pending = r.pending
           /\ r'.nextHibernated = r.nextHibernated
           /\ r'.hibernatedRef = r.nextHibernated /\ r'.hibernated = r.nextHibernated
           /\ r'.epoch >= r.epoch
           /\ r.alive /\ ~IsHibernateCleanup => r'.epoch > r.epoch
           /\ r.nextHibernated => ~r'.alive /\ r'.generation = r.generation
           /\ ~r.nextHibernated =>
                 r'.alive /\ r'.setup = "starting" /\ r'.generation = r.generation + 1
<1> DEFINE c == CleanUp
           n == r.nextHibernated
           s == [c EXCEPT !.commit = FALSE, !.hibernated = n, !.hibernatedRef = n]
           g == s.generation + 1
           new == [s EXCEPT !.generation = g, !.alive = TRUE, !.setup = "starting",
                            !.disconnected = FALSE]
<1>1. r' = IF s.hibernated THEN s ELSE applyVisibilityPolicy(updateOutputDrainMode(new))
  BY Zenon DEF Commit
<1>2. /\ c \in Component /\ ~c.alive
      /\ c.generation = r.generation /\ c.overlap = r.overlap
      /\ c.detachedEpoch = r.detachedEpoch /\ c.phase = r.phase
      /\ c.quiet = r.quiet /\ c.pending = r.pending
      /\ c.nextHibernated = r.nextHibernated
      /\ c.epoch >= r.epoch
      /\ r.alive /\ ~IsHibernateCleanup => c.epoch > r.epoch
  BY CleanUpIs
<1>3. n \in BOOLEAN
  BY DEF Component
<1> HIDE DEF c, n
<1>4. s \in Component /\ s.hibernated = n /\ s.hibernatedRef = n
  BY <1>2, <1>3, ZenonT(60) DEF Component
<1>5. /\ s.alive = c.alive
      /\ s.generation = c.generation /\ s.overlap = c.overlap
      /\ s.detachedEpoch = c.detachedEpoch /\ s.phase = c.phase
      /\ s.quiet = c.quiet /\ s.pending = c.pending
      /\ s.nextHibernated = c.nextHibernated /\ s.epoch = c.epoch
  BY <1>2 DEF Component
<1> HIDE DEF s
<1>6. g \in Nat /\ g = r.generation + 1
  BY <1>2, <1>4, <1>5 DEF Component
<1> HIDE DEF g
<1>7. new \in Component /\ new.generation = g /\ new.alive /\ new.setup = "starting"
  BY <1>4, <1>6, ZenonT(60) DEF Component
<1>8. /\ new.overlap = s.overlap /\ new.hibernated = s.hibernated
      /\ new.hibernatedRef = s.hibernatedRef
      /\ new.detachedEpoch = s.detachedEpoch /\ new.phase = s.phase
      /\ new.quiet = s.quiet /\ new.pending = s.pending
      /\ new.nextHibernated = s.nextHibernated /\ new.epoch = s.epoch
  BY <1>4 DEF Component
<1> HIDE DEF new
<1>9. CASE s.hibernated
  <2>1. r' = s /\ r.nextHibernated
    BY <1>1, <1>4, <1>9 DEF n
  <2> QED BY <1>2, <1>4, <1>5, <2>1 DEF n
<1>10. CASE ~s.hibernated
  <2> DEFINE u == updateOutputDrainMode(new)
  <2>1. Quietly(u, new) /\ u.epoch = new.epoch
    BY <1>7, ModeSet
  <2>2. r' = applyVisibilityPolicy(u)
    BY <1>1, <1>10
  <2> HIDE DEF u
  <2>3. Quietly(r', u) /\ r'.epoch \in {u.epoch, u.epoch + 1}
    BY <2>1, <2>2, PolicyApplied DEF Quietly, Kept
  <2>4. r.epoch \in Nat /\ c.epoch \in Nat /\ u.epoch = c.epoch
    BY <1>2, <1>5, <1>8, <2>1 DEF Component
  <2>5. /\ r'.epoch >= r.epoch
        /\ r.alive /\ ~IsHibernateCleanup => r'.epoch > r.epoch
    BY <1>2, <2>3, <2>4
  <2>6. ~r.nextHibernated
    BY <1>4, <1>10 DEF n
  <2> QED BY <1>2, <1>4, <1>5, <1>6, <1>7, <1>8, <2>1, <2>3, <2>5, <2>6
             DEF Quietly, Kept, n
<1> QED BY <1>9, <1>10

(* React commits.                                                           *)
LEMMA CommitGood == ASSUME IInv, Commit PROVE IInv'
<1>1. r \in Component /\ UNCHANGED <<tasks, channel, attached, ended, wire>>
  BY DEF Commit, backend, IInv, Types
<1>2. /\ r' \in Component /\ r'.overlap = r.overlap
      /\ r'.detachedEpoch = r.detachedEpoch /\ r'.phase = r.phase
      /\ r'.quiet = r.quiet /\ r'.pending = r.pending
      /\ r'.nextHibernated = r.nextHibernated
      /\ r'.hibernatedRef = r.nextHibernated /\ r'.hibernated = r.nextHibernated
      /\ r'.epoch >= r.epoch
      /\ r.alive /\ ~IsHibernateCleanup => r'.epoch > r.epoch
      /\ r.nextHibernated => ~r'.alive /\ r'.generation = r.generation
      /\ ~r.nextHibernated =>
            r'.alive /\ r'.setup = "starting" /\ r'.generation = r.generation + 1
  BY <1>1, CommittedIs
<1>3. \A d \in calls' \ calls : d \in Calls /\ d.command = "attach" /\ d.at = "sent" /\ d.by = "cleanup"
  <2> DEFINE d == Call("attach", "cleanup", r.generation, r.detachedEpoch)
  <2>1. d \in Calls /\ d.command = "attach" /\ d.at = "sent" /\ d.by = "cleanup"
    BY <1>1 DEF Call, Calls, Component
  <2>2. calls' \in {calls, calls \union {d}}
    BY DEF Commit
  <2> HIDE DEF d
  <2> QED BY <2>1, <2>2
<1>4. calls \subseteq calls'
  BY DEF Commit
<1>5. /\ \A t \in tasks : t.epoch \in Nat /\ t.epoch <= r.epoch
      /\ r.epoch \in Nat /\ r'.epoch \in Nat /\ r.generation \in Nat
  BY <1>1, <1>2 DEF IInv, Types, Tasks, OneTask, Component
<1>6. Types'
  <2>1. calls' \subseteq Calls
    BY <1>3 DEF IInv, Types
  <2> QED BY <1>1, <1>2, <2>1 DEF IInv, Types, Tasks, Calls
<1>7. OneTask'
  BY <1>1, <1>2, <1>5 DEF IInv, OneTask
<1>8. OwnCalls'
  BY <1>1, <1>3 DEF IInv, OwnCalls
<1>9. SetupCalls'
  <2> SUFFICES ASSUME NEW c \in calls', c.by = "setup"
               PROVE  /\ c.number <= r'.generation
                      /\ r'.alive /\ c.number = r'.generation =>
                            r'.setup \notin {"starting", "listening"}
    BY DEF SetupCalls
  <2>1. c \in calls
    BY <1>3
  <2>2. c.number \in Nat /\ c.number <= r.generation
    BY <2>1 DEF IInv, Types, Calls, SetupCalls
  <2>3. CASE r.nextHibernated
    BY <1>2, <2>2, <2>3
  <2>4. CASE ~r.nextHibernated
    BY <1>2, <1>5, <2>2, <2>4
  <2> QED BY <2>3, <2>4
<1>10. PhaseTells'
  <2>1. r'.alive <=> ~r'.hibernated
    BY <1>2
  <2> QED BY <1>1, <1>2, <2>1 DEF IInv, PhaseTells
<1>11. SetUpAhead'
  BY <1>2 DEF SetUpAhead
<1>12. WakesUp' /\ Reattaches'
  BY <1>11 DEF WakesUp, Reattaches
<1>13. Undisturbed'
  <2> SUFFICES ASSUME ~r.overlap, NEW t \in tasks, t.epoch = r'.epoch, t.pc # "restoring"
               PROVE  FALSE
    BY <1>1, <1>2 DEF Undisturbed
  <2>1. t.epoch = r.epoch /\ r'.epoch = r.epoch
    BY <1>2, <1>5
  <2>2. r.alive
    BY <2>1 DEF IInv, Undisturbed
  <2>3. r.phase = "hibernated"
    BY <1>2, <1>5, <2>1, <2>2 DEF IsHibernateCleanup
  <2> QED BY <2>3 DEF IInv, PhaseTells
<1>14. AttachedBehind'
  BY <1>1, <1>2, <1>3 DEF IInv, AttachedBehind, WillBeAttached
<1> QED BY <1>6, <1>7, <1>8, <1>9, <1>10, <1>12, <1>13, <1>14 DEF IInv

-----------------------------------------------------------------------------
(* hibernateRenderer.                                                       *)

(* A hibernation begins: no other one is under way.                         *)
LEMMA BeginsGood ==
    ASSUME IInv, NEW t \in Tasks, t.pc = "draining", t.epoch = r.epoch,
           tasks' = tasks \union {t},
           UNCHANGED <<calls, channel, attached, ended, wire>>,
           r' \in Component, r'.generation = r.generation,
           r'.alive = r.alive, r'.hibernated = r.hibernated, r'.setup = r.setup,
           r'.quiet = r.quiet, r'.pending, r'.phase = "preparing",
           r'.hibernatedRef = r.hibernatedRef, r'.nextHibernated = r.nextHibernated,
           r'.commit = r.commit, r'.epoch = r.epoch, r'.detachedEpoch = r.detachedEpoch,
           ~r'.overlap => ~r.overlap /\ calls = {} /\ r.setup = "done",
           r.alive, r.quiet, ~r.pending
    PROVE  IInv'
<1>1. tasks = {} /\ tasks' = {t}
  BY DEF IInv, OneTask
<1>2. r.epoch \in Nat /\ r'.epoch \in Nat
  BY DEF IInv, Types, Component
<1>3. Types'
  BY DEF IInv, Types, Tasks, Calls
<1>4. OneTask'
  BY <1>1, <1>2 DEF OneTask
<1>5. OwnCalls'
  BY <1>1 DEF IInv, OwnCalls
<1>6. SetupCalls'
  BY DEF IInv, SetupCalls
<1>7. PhaseTells'
  BY <1>1 DEF IInv, PhaseTells
<1>8. WakesUp'
  BY DEF WakesUp
<1>9. Reattaches'
  BY <1>1 DEF IInv, Reattaches, WillBeAttached, SetUpAhead, AttachSent, DetachUnderWay,
              RollsBack
<1>10. Undisturbed'
  BY <1>1 DEF Undisturbed
<1>11. AttachedBehind'
  BY <1>1 DEF AttachedBehind
<1> QED BY <1>3, <1>4, <1>5, <1>6, <1>7, <1>8, <1>9, <1>10, <1>11 DEF IInv

(* The timer fires.                                                         *)
LEMMA TimerGood ==
    ASSUME IInv, NEW eligible \in BOOLEAN, hibernateRenderer(eligible)
    PROVE  IInv'
<1> DEFINE s == clearHibernateTimer(r)
           o == s.overlap \/ calls # {} \/ s.setup # "done"
           p == [s EXCEPT !.phase = "preparing", !.pending = TRUE, !.overlap = o]
           t == [epoch |-> s.epoch, generation |-> s.generation, pc |-> "draining"]
<1>1. /\ r \in Component /\ r.epoch \in Nat /\ r.quiet
      /\ UNCHANGED <<calls, channel, attached, ended, wire>>
      /\ wire \in Seq({"output", "closed"})
      /\ "idle" \in Phases /\ "preparing" \in Phases
  BY DEF hibernateRenderer, backend, IInv, Types, Component, Phases
<1>2. \/ r' = s /\ tasks' = tasks
      \/ r' = [s EXCEPT !.phase = "idle"] /\ tasks' = tasks
      \/ /\ canHibernateRenderer(s, s.generation, FALSE, eligible)
         /\ r' = updateOutputDrainMode(p) /\ tasks' = tasks \union {t}
  BY DEF hibernateRenderer
<1>3. Quietly(s, r) /\ s.epoch = r.epoch
  BY <1>1, TimerCleared
<1> HIDE DEF s
<1>4. s \in Component
  BY <1>3 DEF Quietly, Kept
<1>5. CASE r' = s /\ tasks' = tasks
  <2>1. Elsewhere
    BY <1>1, <1>5 DEF Elsewhere
  <2>2. r'.epoch >= r.epoch
    BY <1>1, <1>3, <1>5
  <2> QED BY <1>3, <1>5, <2>1, <2>2, CalmStep DEF Quietly, Kept
<1>6. CASE r' = [s EXCEPT !.phase = "idle"] /\ tasks' = tasks
  <2>1. Elsewhere
    BY <1>1, <1>6 DEF Elsewhere
  <2>2. r' \in Component /\ r'.phase = "idle"
    BY <1>1, <1>4, <1>6 DEF Component
  <2>3. /\ Kept(r', s) /\ r'.epoch = s.epoch /\ r'.quiet = s.quiet /\ r'.pending = s.pending
        /\ r'.hibernatedRef = s.hibernatedRef /\ r'.nextHibernated = s.nextHibernated
        /\ r'.commit = s.commit
    BY <1>4, <1>6, <2>2 DEF Component, Kept
  <2>4. r'.epoch >= r.epoch
    BY <1>1, <1>3, <2>3
  <2> QED BY <1>3, <2>1, <2>2, <2>3, <2>4, CalmStep DEF Quietly, Kept
<1>7. CASE /\ canHibernateRenderer(s, s.generation, FALSE, eligible)
           /\ r' = updateOutputDrainMode(p) /\ tasks' = tasks \union {t}
  <2>1. s.alive /\ ~s.pending
    BY <1>7 DEF canHibernateRenderer, isTerminalAlive
  <2>2. o \in BOOLEAN /\ (~o => ~s.overlap /\ calls = {} /\ s.setup = "done")
    BY Zenon
  <2>3. t \in Tasks /\ t.pc = "draining" /\ t.epoch = s.epoch
    BY <1>4 DEF Tasks, Component
  <2> HIDE DEF o, t
  <2>4. p \in Component /\ p.phase = "preparing" /\ p.pending /\ p.overlap = o
    BY <1>1, <1>4, <2>2 DEF Component
  <2>5. /\ p.generation = s.generation /\ p.alive = s.alive /\ p.hibernated = s.hibernated
        /\ p.setup = s.setup /\ p.quiet = s.quiet
        /\ p.hibernatedRef = s.hibernatedRef /\ p.nextHibernated = s.nextHibernated
        /\ p.commit = s.commit /\ p.epoch = s.epoch /\ p.detachedEpoch = s.detachedEpoch
    BY <1>4 DEF Component
  <2> HIDE DEF p
  <2>6. Quietly(r', p) /\ r'.epoch = p.epoch
    BY <1>7, <2>4, ModeSet
  <2>7. tasks' = tasks \union {t}
    BY <1>7
  <2> QED BY <1>1, <1>3, <2>1, <2>2, <2>3, <2>4, <2>5, <2>6, <2>7, BeginsGood
             DEF Quietly, Kept
<1> QED BY <1>2, <1>5, <1>6, <1>7

(* A task ends.                                                             *)
LEMMA TaskEnds ==
    ASSUME IInv, NEW t \in tasks, tasks' = tasks \ {t}, t.pc # "detaching" \/ ended,
           UNCHANGED <<channel, attached, ended, wire>>,
           calls' \subseteq calls,
           \A c \in calls : c.by = "task" => c \notin calls',
           \A c \in calls \ calls' : c.by = "task" /\ c.at # "sent",
           r' \in Component, r'.generation = r.generation,
           r'.alive = r.alive, r'.hibernated = r.hibernated, r'.setup = r.setup,
           r'.overlap = r.overlap, r'.epoch >= r.epoch, ~r'.pending,
           r.commit => r'.commit,
           r'.phase # "preparing",
           r'.phase = "hibernated" => r'.hibernatedRef /\ r'.nextHibernated /\ r'.commit,
           r'.phase = "failed" => ended,
           r'.phase = "detached" => ended,
           r'.phase = "waking" =>
              ended \/ (t.pc = "draining again" /\ r.phase = "waking" /\ calls' = calls),
           RollsBack => r'.commit \/ ended \/ t.pc # "draining again"
    PROVE  IInv'
<1>1. tasks' = {}
  BY DEF IInv, OneTask
<1>2. Types'
  BY <1>1 DEF IInv, Types, Tasks, Calls
<1>3. OneTask'
  BY <1>1 DEF OneTask
<1>4. OwnCalls'
  BY <1>1 DEF IInv, OwnCalls
<1>5. SetupCalls'
  BY DEF IInv, SetupCalls
<1>6. PhaseTells'
  BY <1>1 DEF IInv, PhaseTells
<1>7. \A u \in tasks : u = t
  BY DEF IInv, OneTask
<1>8. WakesUp'
  BY <1>7 DEF IInv, WakesUp, SetUpAhead, AttachUnderWay, RollsBack
<1>9. Reattaches'
  <2> SUFFICES ASSUME ~ended, ~r.overlap, ~WillBeAttached
               PROVE  (SetUpAhead \/ AttachSent \/ DetachUnderWay \/ RollsBack)'
    BY DEF Reattaches, WillBeAttached
  <2>1. SetUpAhead => SetUpAhead'
    BY DEF SetUpAhead
  <2>2. AttachSent => AttachSent'
    BY DEF AttachSent
  <2>3. ~DetachUnderWay
    BY DEF DetachUnderWay, IInv, OwnCalls
  <2>4. RollsBack => SetUpAhead'
    BY <1>7 DEF RollsBack, SetUpAhead
  <2> QED BY <2>1, <2>2, <2>3, <2>4 DEF IInv, Reattaches
<1>10. Undisturbed' /\ AttachedBehind'
  BY <1>1 DEF Undisturbed, AttachedBehind
<1> QED BY <1>2, <1>3, <1>4, <1>5, <1>6, <1>8, <1>9, <1>10 DEF IInv

(* A task rolls back: it attaches again.                                    *)
LEMMA TaskRestores ==
    ASSUME IInv, NEW t \in tasks, Goes(t, "restoring"),
           NEW others \in SUBSET calls, \A c \in others : c.by # "task",
           calls' = others \union {Call("attach", "task", t.epoch, t.epoch)},
           UNCHANGED <<channel, attached, ended, wire>>,
           r' \in Component, r'.generation = r.generation,
           r'.alive = r.alive, r'.hibernated = r.hibernated, r'.setup = r.setup,
           r'.overlap = r.overlap, r'.epoch = r.epoch,
           r'.pending = r.pending, r'.quiet = r.quiet,
           r'.phase \notin {"preparing", "hibernated"}, r'.phase = "failed" => ended
    PROVE  IInv'
<1> DEFINE u == [t EXCEPT !.pc = "restoring"]
           d == Call("attach", "task", t.epoch, t.epoch)
<1>1. t \in Tasks /\ t.epoch \in Nat /\ t.epoch <= r.epoch
  BY DEF IInv, Types, Tasks, OneTask
<1>2. u \in Tasks /\ u.epoch = t.epoch /\ u.pc = "restoring"
  BY <1>1 DEF Tasks
<1>3. tasks' = {u}
  BY DEF Goes, IInv, OneTask
<1>4. /\ d \in Calls /\ d.command = "attach" /\ d.at = "sent" /\ d.by = "task"
      /\ d.epoch = t.epoch
  BY <1>1 DEF Call, Calls
<1>5. calls' = others \union {d}
  OBVIOUS
<1> HIDE DEF u, d
<1>6. Types'
  BY <1>2, <1>3, <1>4, <1>5 DEF IInv, Types, Tasks, Calls
<1>7. OneTask'
  BY <1>1, <1>2, <1>3 DEF IInv, OneTask
<1>8. OwnCalls'
  BY <1>2, <1>3, <1>4, <1>5 DEF IInv, OwnCalls
<1>9. SetupCalls'
  BY <1>4, <1>5 DEF IInv, SetupCalls
<1>10. PhaseTells'
  BY <1>2, <1>3 DEF IInv, PhaseTells
<1>11. WakesUp' /\ Reattaches'
  BY <1>4, <1>5 DEF WakesUp, Reattaches, AttachUnderWay, AttachSent
<1>12. Undisturbed' /\ AttachedBehind'
  BY <1>2, <1>3 DEF Undisturbed, AttachedBehind
<1> QED BY <1>6, <1>7, <1>8, <1>9, <1>10, <1>11, <1>12 DEF IInv

(* restoreDetachedRenderer, called by a task that is about to end.          *)
LEMMA RestoresGood ==
    ASSUME IInv, NEW t \in tasks, NEW s \in Component, NEW others \in SUBSET calls,
           Restores(t, s, others), t.pc # "detaching" \/ ended \/ s.detachedEpoch = t.epoch,
           \A c \in calls : c.by = "task" => c \notin others,
           \A c \in calls \ others : c.by = "task" /\ c.at # "sent",
           UNCHANGED <<channel, attached, ended, wire>>,
           s.generation = r.generation, s.alive = r.alive, s.hibernated = r.hibernated,
           s.setup = r.setup, s.overlap = r.overlap, s.epoch = r.epoch,
           s.pending = r.pending, s.quiet = r.quiet,
           s.hibernatedRef = r.hibernatedRef, s.nextHibernated = r.nextHibernated,
           s.commit = r.commit,
           \/ s.phase = "failed" /\ ended
           \/ s.phase = "detached" /\ s.detachedEpoch = t.epoch
           \/ /\ s.phase = r.phase /\ s.detachedEpoch = r.detachedEpoch
              /\ t.pc = "draining again" /\ others = calls
    PROVE  IInv'
<1>1. s.phase \notin {"preparing", "hibernated"} /\ (s.phase = "failed" => ended)
  <2>1. \A u \in tasks : u = t
    BY DEF IInv, OneTask
  <2> QED BY <2>1 DEF IInv, PhaseTells
<1>2. t.epoch \in Nat /\ \A u \in tasks : u = t
  BY DEF IInv, Types, Tasks, OneTask
<1>3. CASE s.detachedEpoch = t.epoch
  <2>1. /\ r' = s /\ Goes(t, "restoring")
        /\ calls' = others \union {Call("attach", "task", t.epoch, t.epoch)}
    BY <1>3 DEF Restores
  <2>2. \A c \in others : c.by # "task"
    OBVIOUS
  <2> QED BY <1>1, <2>1, <2>2, TaskRestores
<1>4. CASE s.detachedEpoch # t.epoch
  <2>1. r' = Finally(s, t.epoch) /\ tasks' = tasks \ {t} /\ calls' = others
    BY <1>4 DEF Restores
  <2>2. /\ Kept(r', s) /\ r'.epoch = s.epoch /\ ~r'.pending /\ r'.quiet = s.quiet
        /\ r'.hibernatedRef = s.hibernatedRef /\ r'.nextHibernated = s.nextHibernated
        /\ r'.commit = s.commit
        /\ r'.phase \in {s.phase, "idle"}
        /\ r'.phase # "preparing"
        /\ r'.phase = "detached" => s.detachedEpoch = t.epoch
    BY <1>2, <2>1, Finished
  <2>3. r'.epoch = r.epoch /\ r.epoch >= r.epoch
    <3>1. r.epoch \in Nat
      BY DEF IInv, Types, Component
    <3>2. r.epoch >= r.epoch
      BY <3>1, Reflexive
    <3> QED BY <2>2, <3>2, Zenon
  <2>4. RollsBack => ended
    BY <1>2, <1>4 DEF RollsBack
  <2>5. r'.phase = "waking" =>
          ended \/ (t.pc = "draining again" /\ r.phase = "waking" /\ others = calls)
    BY <1>4, <2>2
  <2>6. /\ t.pc # "detaching" \/ ended
        /\ r'.phase = "detached" => ended
        /\ r'.phase = "failed" => ended
        /\ r'.phase # "hibernated"
    BY <1>1, <1>4, <2>2
  <2>7. /\ r' \in Component /\ r'.generation = r.generation
        /\ r'.alive = r.alive /\ r'.hibernated = r.hibernated /\ r'.setup = r.setup
        /\ r'.overlap = r.overlap /\ r'.commit = r.commit
    BY <2>2 DEF Kept
  <2> QED BY <2>1, <2>2, <2>3, <2>4, <2>5, <2>6, <2>7, TaskEnds
<1> QED BY <1>3, <1>4

(* A task that waits for its drain has made no call.                        *)
LEMMA NoOwnCall ==
    ASSUME IInv, NEW t \in tasks, t.pc \in {"draining", "draining again"}, NEW c \in calls
    PROVE  c.by # "task" /\ c.command = "attach"
  BY DEF IInv, OwnCalls

(* A task ends before the detach, in phase idle.                            *)
LEMMA EndsIdle ==
    ASSUME IInv, NEW t \in tasks, t.pc = "draining", NEW s \in Component, s.phase = "idle",
           Ends(t, s), UNCHANGED <<channel, attached, ended, wire>>,
           s.generation = r.generation, s.alive = r.alive, s.hibernated = r.hibernated,
           s.setup = r.setup, s.overlap = r.overlap, s.epoch >= r.epoch, s.commit = r.commit
    PROVE  IInv'
<1>1. r' = Finally(s, t.epoch) /\ tasks' = tasks \ {t} /\ calls' = calls /\ t.epoch \in Nat
  BY DEF Ends, IInv, Types, Tasks
<1>2. /\ Kept(r', s) /\ r'.epoch = s.epoch /\ ~r'.pending
      /\ r'.commit = s.commit /\ r'.phase = "idle"
  BY <1>1, Finished
<1>3. \A c \in calls : c.by # "task"
  BY NoOwnCall
<1> QED BY <1>1, <1>2, <1>3, TaskEnds DEF Kept

(* The first drain ends.                                                    *)
LEMMA BeforeDetachGood ==
    ASSUME IInv, NEW t \in tasks, NEW drained \in BOOLEAN, NEW eligible \in BOOLEAN,
           DrainedBeforeDetach(t, drained, eligible)
    PROVE  IInv'
<1> DEFINE s == AfterDrain(t, drained)
           i == [s EXCEPT !.phase = "idle"]
           d == Call("detach", "task", t.epoch, t.epoch)
<1>1. /\ r \in Component /\ r.epoch \in Nat /\ t.pc = "draining" /\ t \in Tasks
      /\ UNCHANGED <<channel, attached, ended, wire>> /\ "idle" \in Phases
  BY DEF DrainedBeforeDetach, backend, IInv, Types, Component, Phases
<1>2. \/ Ends(t, i)
      \/ Ends(t, scheduleHibernate(i))
      \/ /\ t.epoch = s.epoch /\ canHibernateRenderer(s, t.generation, TRUE, eligible)
         /\ r' = s /\ Goes(t, "detaching") /\ calls' = calls \union {d}
  BY DEF DrainedBeforeDetach, cancelRecentOutputHibernate
<1>3. Quietly(s, r) /\ s.epoch = r.epoch
  BY <1>1, Drained
<1> HIDE DEF s
<1>4. s \in Component
  BY <1>3 DEF Quietly, Kept
<1>5. i \in Component /\ i.phase = "idle"
  BY <1>1, <1>4 DEF Component
<1>6. /\ Kept(i, s) /\ i.epoch = s.epoch /\ i.commit = s.commit
  BY <1>4, <1>5 DEF Component, Kept
<1> HIDE DEF i
<1>7. CASE Ends(t, i)
  <2>1. i.epoch >= r.epoch
    BY <1>1, <1>3, <1>6, Reflexive
  <2> QED BY <1>1, <1>3, <1>5, <1>6, <1>7, <2>1, EndsIdle DEF Quietly, Kept
<1>8. CASE Ends(t, scheduleHibernate(i))
  <2> DEFINE u == scheduleHibernate(i)
  <2>1. Quietly(u, i) /\ u.epoch \in {i.epoch, i.epoch + 1}
    BY <1>5, Scheduled
  <2>2. Ends(t, u)
    BY <1>8
  <2> HIDE DEF u
  <2>3. u.epoch >= r.epoch
    BY <1>1, <1>3, <1>6, <2>1
  <2> QED BY <1>1, <1>3, <1>5, <1>6, <2>1, <2>2, <2>3, EndsIdle DEF Quietly, Kept
<1>9. CASE /\ t.epoch = s.epoch /\ canHibernateRenderer(s, t.generation, TRUE, eligible)
           /\ r' = s /\ Goes(t, "detaching") /\ calls' = calls \union {d}
  <2> DEFINE u == [t EXCEPT !.pc = "detaching"]
  <2>1. u \in Tasks /\ u.epoch = t.epoch /\ u.pc = "detaching" /\ t.epoch \in Nat
    BY <1>1 DEF Tasks
  <2>2. tasks' = {u} /\ \A v \in tasks : v = t
    BY <1>9 DEF Goes, IInv, OneTask
  <2>3. /\ d \in Calls /\ d.command = "detach" /\ d.at = "sent" /\ d.by = "task"
        /\ d.epoch = t.epoch
    BY <2>1 DEF Call, Calls
  <2>4. calls' = calls \union {d} /\ r' = s
    BY <1>9
  <2>5. \A c \in calls : c.by # "task" /\ c.command = "attach"
    BY <1>1, NoOwnCall
  <2> HIDE DEF u, d
  <2>6. /\ r' \in Component /\ r'.generation = r.generation
        /\ r'.alive = r.alive /\ r'.hibernated = r.hibernated /\ r'.setup = r.setup
        /\ r'.overlap = r.overlap /\ r'.epoch = r.epoch
        /\ r'.pending = r.pending /\ r'.quiet = r.quiet /\ r'.phase = r.phase
        /\ r'.hibernatedRef = r.hibernatedRef /\ r'.nextHibernated = r.nextHibernated
        /\ r'.commit = r.commit /\ r'.detachedEpoch = r.detachedEpoch
    BY <1>3, <2>4 DEF Quietly, Kept
  <2>7. Types'
    BY <1>1, <2>1, <2>2, <2>3, <2>4, <2>6 DEF IInv, Types, Tasks, Calls
  <2>8. OneTask'
    BY <1>1, <2>1, <2>2, <2>6 DEF IInv, OneTask
  <2>9. OwnCalls'
    BY <1>1, <2>1, <2>2, <2>3, <2>4, <2>5 DEF IInv, OwnCalls
  <2>10. SetupCalls'
    BY <2>3, <2>4, <2>6 DEF IInv, SetupCalls
  <2>11. PhaseTells'
    BY <1>1, <2>1, <2>2, <2>6 DEF IInv, PhaseTells
  <2>12. WakesUp' /\ Reattaches'
    BY <2>1, <2>2, <2>3, <2>4 DEF WakesUp, Reattaches, DetachUnderWay
  <2>13. Undisturbed'
    BY <1>1, <2>1, <2>2, <2>3, <2>4, <2>6 DEF IInv, Undisturbed
  <2>14. AttachedBehind'
    BY <2>1, <2>2 DEF AttachedBehind
  <2> QED BY <2>7, <2>8, <2>9, <2>10, <2>11, <2>12, <2>13, <2>14 DEF IInv
<1> QED BY <1>2, <1>7, <1>8, <1>9

(* The second drain ends.                                                   *)
LEMMA AfterDetachGood ==
    ASSUME IInv, NEW t \in tasks, NEW drained \in BOOLEAN, NEW eligible \in BOOLEAN,
           DrainedAfterDetach(t, drained, eligible)
    PROVE  IInv'
<1> DEFINE s == AfterDrain(t, drained)
           h == [s EXCEPT !.cleanup = TRUE, !.phase = "hibernated",
                          !.mode = "hibernated", !.hibernatedRef = TRUE,
                          !.nextHibernated = TRUE, !.commit = TRUE]
<1>1. /\ r \in Component /\ r.epoch \in Nat /\ t.pc = "draining again" /\ t \in Tasks
      /\ UNCHANGED <<channel, attached, ended, wire>> /\ "hibernated" \in Phases
  BY DEF DrainedAfterDetach, backend, IInv, Types, Component, Phases
<1>2. Restores(t, s, calls) \/ Ends(t, h)
  BY DEF DrainedAfterDetach
<1>3. Quietly(s, r) /\ s.epoch = r.epoch
  BY <1>1, Drained
<1> HIDE DEF s
<1>4. s \in Component
  BY <1>3 DEF Quietly, Kept
<1>5. \A c \in calls : c.by # "task"
  BY <1>1, NoOwnCall
<1>6. CASE Restores(t, s, calls)
  BY <1>1, <1>3, <1>4, <1>5, <1>6, RestoresGood DEF Quietly, Kept
<1>7. CASE Ends(t, h)
  <2>1. /\ h \in Component /\ h.phase = "hibernated" /\ h.hibernatedRef
        /\ h.nextHibernated /\ h.commit
    BY <1>1, <1>4 DEF Component
  <2>2. Kept(h, s) /\ h.epoch = s.epoch
    BY <1>4, <2>1 DEF Component, Kept
  <2> HIDE DEF h
  <2>3. r' = Finally(h, t.epoch) /\ tasks' = tasks \ {t} /\ calls' = calls /\ t.epoch \in Nat
    BY <1>1, <1>7 DEF Ends, Tasks
  <2>4. /\ Kept(r', h) /\ r'.epoch = h.epoch /\ ~r'.pending
        /\ r'.hibernatedRef = h.hibernatedRef /\ r'.nextHibernated = h.nextHibernated
        /\ r'.commit = h.commit
        /\ r'.phase \in {"hibernated", "idle"}
    BY <2>1, <2>3, Finished
  <2>5. r'.epoch >= r.epoch
    BY <1>1, <1>3, <2>2, <2>4, Reflexive
  <2> QED BY <1>1, <1>3, <1>5, <2>1, <2>2, <2>3, <2>4, <2>5, TaskEnds, ZenonT(60) DEF Quietly, Kept
<1> QED BY <1>2, <1>6, <1>7

(* The detach is answered.                                                  *)
LEMMA DetachedGood ==
    ASSUME IInv, NEW t \in tasks, NEW c \in calls, NEW eligible \in BOOLEAN,
           c.by = "task", c.command = "detach", c.at # "sent", Detached(t, c, eligible),
           UNCHANGED <<channel, attached, ended, wire>>
    PROVE  IInv'
<1> DEFINE a == [r EXCEPT !.detachedEpoch = t.epoch, !.phase = "detached"]
           s == updateOutputDrainMode(a)
           f == [r EXCEPT !.phase = "failed"]
           others == calls \ {c}
<1>1. /\ r \in Component /\ r.epoch \in Nat /\ t \in Tasks /\ t.epoch \in Nat
      /\ "failed" \in Phases /\ "detached" \in Phases
  BY DEF IInv, Types, Component, Phases, Tasks
<1>2. /\ t.pc = "detaching" /\ t.epoch = c.epoch
      /\ c.at = "failed" => ended
      /\ \A d \in calls : d.by = "task" => d = c
      /\ \A d \in calls : d.command = "detach" => d = c
      /\ \A u \in tasks : u = t
  <2>1. c \in Calls /\ \A d \in calls : d.command \in {"attach", "detach"}
    BY DEF IInv, Types, Calls
  <2> QED BY <2>1 DEF IInv, OwnCalls, OneTask
<1>3. \/ c.at = "failed" /\ Restores(t, f, others)
      \/ Restores(t, s, others)
      \/ /\ MayGoOn(t, s, eligible)
         /\ r' = clearHibernateTimer(s) /\ Goes(t, "draining again") /\ calls' = others
  BY DEF Detached
<1>4. /\ \A d \in calls : d.by = "task" => d \notin others
      /\ \A d \in calls \ others : d.by = "task" /\ d.at # "sent"
      /\ others \subseteq calls
  BY <1>2
<1> HIDE DEF others
<1>5. CASE c.at = "failed" /\ Restores(t, f, others)
  <2>1. f \in Component /\ f.phase = "failed"
    BY <1>1 DEF Component
  <2>2. /\ Kept(f, r) /\ f.epoch = r.epoch /\ f.pending = r.pending /\ f.quiet = r.quiet
        /\ f.hibernatedRef = r.hibernatedRef /\ f.nextHibernated = r.nextHibernated
        /\ f.commit = r.commit
    BY <1>1, <2>1 DEF Component, Kept
  <2> HIDE DEF f
  <2> QED BY <1>2, <1>4, <1>5, <2>1, <2>2, RestoresGood DEF Kept
<1>6. /\ s \in Component /\ s.phase = "detached" /\ s.detachedEpoch = t.epoch
      /\ s.generation = r.generation /\ s.alive = r.alive /\ s.hibernated = r.hibernated
      /\ s.setup = r.setup /\ s.overlap = r.overlap /\ s.epoch = r.epoch
      /\ s.pending = r.pending /\ s.quiet = r.quiet
      /\ s.hibernatedRef = r.hibernatedRef /\ s.nextHibernated = r.nextHibernated
      /\ s.commit = r.commit
  <2>1. a \in Component /\ a.phase = "detached" /\ a.detachedEpoch = t.epoch
    BY <1>1 DEF Component
  <2>2. /\ a.generation = r.generation /\ a.alive = r.alive /\ a.hibernated = r.hibernated
        /\ a.setup = r.setup /\ a.overlap = r.overlap /\ a.epoch = r.epoch
        /\ a.pending = r.pending /\ a.quiet = r.quiet
        /\ a.hibernatedRef = r.hibernatedRef /\ a.nextHibernated = r.nextHibernated
        /\ a.commit = r.commit
    BY <1>1 DEF Component
  <2> HIDE DEF a
  <2>3. Quietly(s, a) /\ s.epoch = a.epoch
    BY <2>1, ModeSet
  <2> HIDE DEF s
  <2> QED BY <2>1, <2>2, <2>3 DEF Quietly, Kept
<1> HIDE DEF s
<1>7. CASE Restores(t, s, others)
  BY <1>2, <1>4, <1>6, <1>7, RestoresGood
<1>8. CASE /\ MayGoOn(t, s, eligible)
           /\ r' = clearHibernateTimer(s) /\ Goes(t, "draining again") /\ calls' = others
  <2> DEFINE u == [t EXCEPT !.pc = "draining again"]
  <2>1. u \in Tasks /\ u.epoch = t.epoch /\ u.pc = "draining again"
    BY <1>1 DEF Tasks
  <2>2. tasks' = {u} /\ calls' = others /\ t.epoch = r.epoch
    BY <1>2, <1>6, <1>8 DEF Goes, MayGoOn
  <2> HIDE DEF u
  <2>3. Quietly(r', s) /\ r'.epoch = s.epoch
    BY <1>6, <1>8, TimerCleared
  <2>4. /\ r' \in Component /\ r'.generation = r.generation
        /\ r'.alive = r.alive /\ r'.hibernated = r.hibernated /\ r'.setup = r.setup
        /\ r'.overlap = r.overlap /\ r'.epoch = r.epoch
        /\ r'.pending = r.pending /\ r'.quiet = r.quiet /\ r'.phase = "detached"
        /\ r'.hibernatedRef = r.hibernatedRef /\ r'.nextHibernated = r.nextHibernated
        /\ r'.commit = r.commit /\ r'.detachedEpoch = t.epoch
    BY <1>6, <2>3 DEF Quietly, Kept
  <2>5. RollsBack'
    BY <2>1, <2>2, <2>4 DEF RollsBack
  <2>6. Types'
    BY <1>4, <2>1, <2>2, <2>4 DEF IInv, Types, Tasks, Calls
  <2>7. OneTask'
    BY <1>1, <1>2, <2>1, <2>2, <2>4 DEF IInv, OneTask
  <2>8. OwnCalls'
    BY <1>4, <2>2 DEF IInv, OwnCalls
  <2>9. SetupCalls'
    BY <1>4, <2>2, <2>4 DEF IInv, SetupCalls
  <2>10. PhaseTells'
    BY <2>1, <2>2, <2>4 DEF IInv, PhaseTells
  <2>11. WakesUp' /\ Reattaches'
    BY <2>5 DEF WakesUp, Reattaches
  <2>12. ~r.overlap => r.alive /\ r.setup = "done" /\ calls' = {}
    BY <1>2, <2>2 DEF IInv, Undisturbed, others
  <2>13. Undisturbed' /\ AttachedBehind'
    BY <2>4, <2>12 DEF Undisturbed, AttachedBehind
  <2> QED BY <2>6, <2>7, <2>8, <2>9, <2>10, <2>11, <2>13 DEF IInv
<1> QED BY <1>3, <1>5, <1>7, <1>8

(* The attach of a roll-back is answered.                                   *)
LEMMA RestoredGood ==
    ASSUME IInv, NEW t \in tasks, NEW c \in calls,
           c.by = "task", c.command = "attach", c.at # "sent",
           r' = Finally(Restored(c), t.epoch), tasks' = tasks \ {t}, calls' = calls \ {c},
           UNCHANGED <<channel, attached, ended, wire>>
    PROVE  IInv'
<1> DEFINE s == Restored(c)
<1>1. r \in Component /\ t.epoch \in Nat /\ r.epoch \in Nat
  BY DEF IInv, Types, Component, Tasks
<1>2. /\ t.pc = "restoring"
      /\ c.at = "failed" => ended
      /\ \A d \in calls : d.by = "task" => d = c
      /\ \A u \in tasks : u = t
  BY DEF IInv, OwnCalls, OneTask
<1>3. /\ s \in Component /\ s.generation = r.generation
      /\ s.alive = r.alive /\ s.hibernated = r.hibernated /\ s.overlap = r.overlap
      /\ s.quiet = r.quiet /\ s.pending = r.pending
      /\ s.hibernatedRef = r.hibernatedRef /\ s.nextHibernated = r.nextHibernated
      /\ s.commit = r.commit /\ s.epoch = r.epoch /\ s.setup = r.setup
      /\ c.at = "failed" => s.phase = r.phase /\ s.detachedEpoch = r.detachedEpoch
      /\ c.at # "failed" => s.phase = "idle" /\ s.detachedEpoch = NoEpoch
  BY <1>1, RestoredIs
<1> HIDE DEF s
<1>4. /\ Kept(r', s) /\ r'.epoch = s.epoch /\ ~r'.pending
      /\ r'.commit = s.commit
      /\ r'.phase \in {s.phase, "idle"}
      /\ r'.phase # "preparing"
  BY <1>1, <1>3, Finished DEF s
<1>5. r'.epoch >= r.epoch
  BY <1>1, <1>3, <1>4, Reflexive
<1>6. r'.phase # "idle" => ended /\ r'.phase = r.phase
  BY <1>2, <1>3, <1>4
<1>7. r'.phase # "hibernated"
  BY <1>6 DEF IInv, PhaseTells
<1> QED BY <1>2, <1>3, <1>4, <1>5, <1>6, <1>7, TaskEnds, ZenonT(60) DEF Kept

(* An answer arrives.                                                       *)
LEMMA AnsweredGood ==
    ASSUME IInv, NEW c \in calls, NEW eligible \in BOOLEAN, Answered(c, eligible)
    PROVE  IInv'
<1>1. c.at # "sent" /\ UNCHANGED <<channel, attached, ended, wire>>
  BY DEF Answered, backend
<1>2. CASE c.by = "task"
  <2>1. PICK t \in tasks :
            \/ c.command = "detach" /\ Detached(t, c, eligible)
            \/ /\ c.command = "attach"
               /\ r' = Finally(Restored(c), t.epoch)
               /\ tasks' = tasks \ {t}
               /\ calls' = calls \ {c}
    BY <1>2 DEF Answered
  <2> QED BY <1>1, <1>2, <2>1, DetachedGood, RestoredGood
<1>3. CASE c.by # "task"
  <2>1. /\ r' = CASE c.by = "setup" -> SetUp(c)
                  [] c.by = "cleanup" -> CleanedUp(c)
                  [] c.by = "note" -> NoteRestored(c)
        /\ calls' = calls \ {c} /\ tasks' = tasks
    BY <1>3, Zenon DEF Answered
  <2> QED BY <1>1, <1>3, <2>1, OtherGood
<1> QED BY <1>2, <1>3

-----------------------------------------------------------------------------
(* Theorems.                                                                *)

(* The initial state satisfies the invariant.                               *)
LEMMA InitGood == Init => IInv
<1> SUFFICES ASSUME Init PROVE IInv
  OBVIOUS
<1> DEFINE d == Call("attach", "setup", 1, NoEpoch)
<1>1. /\ d \in Calls /\ d.command = "attach" /\ d.at = "sent" /\ d.by = "setup" /\ d.number = 1
  BY DEF Call, Calls, NoEpoch
<1>2. calls = {d} /\ tasks = {} /\ channel = <<>> /\ wire = <<>>
  BY DEF Init
<1>3. attached \in BOOLEAN /\ ended \in BOOLEAN
  BY Zenon DEF Init
<1>4. r \in Component
  BY DEF Init, Component, Phases, NoEpoch
<1>5. /\ r.alive /\ ~r.hibernated /\ r.setup = "attaching" /\ r.phase = "idle"
      /\ ~r.pending /\ r.generation = 1
  BY DEF Init
<1> HIDE DEF d
<1>6. Types
  BY <1>1, <1>2, <1>3, <1>4 DEF Types
<1>7. OneTask /\ OwnCalls /\ SetupCalls /\ PhaseTells
  BY <1>1, <1>2, <1>5 DEF OneTask, OwnCalls, SetupCalls, PhaseTells
<1>8. WakesUp /\ Reattaches /\ Undisturbed /\ AttachedBehind
  BY <1>1, <1>2, <1>5 DEF WakesUp, Reattaches, Undisturbed, AttachedBehind, AttachSent
<1> QED BY <1>6, <1>7, <1>8 DEF IInv

(* Every step keeps it.                                                     *)
LEMMA NextGood == IInv /\ [Next]_vars => IInv'
<1> SUFFICES ASSUME IInv, [Next]_vars PROVE IInv'
  OBVIOUS
<1>1. CASE UNCHANGED vars
  <2>1. Elsewhere /\ r' = r /\ r \in Component /\ r.epoch \in Nat
    BY <1>1 DEF vars, Elsewhere, IInv, Types, Component
  <2>2. r.epoch >= r.epoch
    BY <2>1, Reflexive
  <2> QED BY <2>1, <2>2, CalmStep DEF Kept
<1>2. CASE \E eligible \in BOOLEAN : hibernateRenderer(eligible)
  BY <1>2, TimerGood
<1>3. CASE \E t \in tasks : Task(t)
  BY <1>3, BeforeDetachGood, AfterDetachGood DEF Task
<1>4. CASE \E c \in calls : Reply(c)
  BY <1>4, ArrivesGood, AnsweredGood DEF Reply
<1> QED BY <1>1, <1>2, <1>3, <1>4, OutputArrivesGood, ClosedGood, VisibilityGood, WakeGood,
           CommitGood, RebuildGood, ListensGood, ReplayedGood, DrainGood, HandlesGood,
           OutputGood, EndsGood, TimeGood DEF Next

(* The inductive invariant of the hibernation.                              *)
THEOREM HibernationInductive == Spec => []IInv
<1>1. QED BY InitGood, NextGood, PTL DEF Spec

(* Every variable keeps its type: the phases, the modes of the drain, the   *)
(* calls of the controller and what travels both ways, whatever crosses.    *)
THEOREM HibernationTypes == Spec => []TypeOK
<1>1. IInv => TypeOK
  BY DEF IInv, Types, Tasks, Component, TypeOK
<1> QED BY <1>1, HibernationInductive, PTL

(* A terminal that exists is attached to its session once nothing is under  *)
(* way, for any number of detaches, roll-backs, rebuilds and wake-ups.      *)
THEOREM TerminalNeverSilent == Spec => []NeverSilent
<1>1. IInv => NeverSilent
  <2> SUFFICES ASSUME IInv, Settled, r.alive, ~ended, ~r.overlap PROVE attached
    BY DEF NeverSilent
  <2>1. ~SetUpAhead
    BY DEF Settled, SetUpAhead
  <2>2. ~AttachSent /\ ~DetachUnderWay /\ ~RollsBack
    BY DEF Settled, AttachSent, DetachUnderWay, RollsBack
  <2>3. WillBeAttached
    BY <2>1, <2>2 DEF IInv, Reattaches
  <2> QED BY <2>3 DEF Settled, WillBeAttached
<1> QED BY <1>1, HibernationInductive, PTL

-----------------------------------------------------------------------------
(* Being shown.  The ref, React's state and the state React will commit say  *)
(* the same, and nothing of a hibernation is left in them while the terminal *)
(* is shown.                                                                 *)

Fields == {"visible", "hibernated", "hibernatedRef", "nextHibernated", "commit"}

Shown(s) ==
    /\ Fields \subseteq DOMAIN s
    /\ s.nextHibernated <=> s.hibernatedRef
    /\ ~s.commit => (s.hibernated <=> s.nextHibernated)
    /\ s.visible => ~s.hibernatedRef

(* What a handler leaves alone that neither hibernates nor wakes.            *)
Alike(u, s) ==
    /\ DOMAIN u = DOMAIN s
    /\ u.visible = s.visible /\ u.hibernated = s.hibernated
    /\ u.hibernatedRef = s.hibernatedRef /\ u.nextHibernated = s.nextHibernated
    /\ u.commit = s.commit

(* It leaves the terminal as it is shown.                                    *)
LEMMA AlikeShown ==
    ASSUME NEW s, NEW u, Alike(u, s), Shown(s) PROVE Shown(u)
  BY DEF Alike, Shown

(* One such handler after another.                                           *)
LEMMA AlikeTwice ==
    ASSUME NEW s, NEW u, NEW v, Alike(v, u), Alike(u, s) PROVE Alike(v, s)
  BY DEF Alike

(* The handlers that only set a mode, a timer, a phase or what concerns the  *)
(* output.                                                                   *)
LEMMA HandlersAlike ==
    ASSUME NEW s, Fields \subseteq DOMAIN s
    PROVE  /\ Alike(s, s)
           /\ Alike(updateOutputDrainMode(s), s)
           /\ Alike(clearHibernateTimer(s), s)
           /\ Alike(invalidateHibernation(s), s)
           /\ Alike(enterDisconnectedState(s), s)
           /\ Alike(scheduleHibernate(s), s)
           /\ \A p : Alike([s EXCEPT !.phase = p], s)
           /\ \A e : Alike(Finally(s, e), s)
<1>1. Alike(s, s) /\ Alike(updateOutputDrainMode(s), s)
  BY DEF Alike, Fields, updateOutputDrainMode
<1>2. Alike(clearHibernateTimer(s), s) /\ Alike(invalidateHibernation(s), s)
  BY DEF Alike, Fields, clearHibernateTimer, invalidateHibernation
<1>3. Alike(enterDisconnectedState(s), s) /\ Alike(scheduleHibernate(s), s)
  BY DEF Alike, Fields, enterDisconnectedState, scheduleHibernate
<1>4. \A p : Alike([s EXCEPT !.phase = p], s)
  BY DEF Alike, Fields
<1>5. ASSUME NEW e PROVE Alike(Finally(s, e), s)
  BY DEF Alike, Fields, Finally
<1> QED BY <1>1, <1>2, <1>3, <1>4, <1>5

(* The handlers made from them.                                              *)
LEMMA CombinedAlike ==
    ASSUME NEW s, Fields \subseteq DOMAIN s
    PROVE  /\ Alike(applyVisibilityPolicy(s), s)
           /\ Alike(cancelRecentOutputHibernate(s), s)
           /\ Alike(noteOutputActivity(s), s)
<1>1. ASSUME NEW u, Alike(u, s) PROVE Fields \subseteq DOMAIN u
  BY <1>1 DEF Alike
<1>2. ASSUME NEW u, Alike(u, s)
      PROVE  Alike(updateOutputDrainMode(u), s) /\ Alike(scheduleHibernate(u), s)
  BY <1>1, <1>2, HandlersAlike, AlikeTwice
<1>3. Alike(applyVisibilityPolicy(s), s)
  <2>1. Alike(updateOutputDrainMode(clearHibernateTimer(s)), s)
    BY <1>2, HandlersAlike
  <2>2. Alike(scheduleHibernate(updateOutputDrainMode(s)), s)
    BY <1>2, HandlersAlike
  <2> QED BY <2>1, <2>2, HandlersAlike DEF applyVisibilityPolicy
<1>4. Alike(cancelRecentOutputHibernate(s), s)
  BY <1>2, HandlersAlike DEF cancelRecentOutputHibernate
<1>5. Alike(noteOutputActivity(s), s)
  <2> DEFINE n == [s EXCEPT !.quiet = FALSE]
             cleared == clearHibernateTimer(n)
             cancelled == [cleared EXCEPT !.epoch = @ + 1]
             reset == [cancelled EXCEPT !.phase = "idle", !.pending = FALSE]
  <2>1. Alike(n, s)
    BY DEF Alike, Fields
  <2>2. Alike(cleared, s)
    BY <1>1, <2>1, HandlersAlike, AlikeTwice
  <2> HIDE DEF cleared
  <2>3. Alike(cancelled, s) /\ Alike(reset, s)
    BY <2>2 DEF Alike, Fields
  <2> HIDE DEF cancelled, reset
  <2>4. Alike(scheduleHibernate(cleared), s)
    BY <1>2, <2>2
  <2>5. Alike(scheduleHibernate(updateOutputDrainMode(reset)), s)
    BY <1>2, <2>3
  <2>6. noteOutputActivity(s) \in {n, scheduleHibernate(cleared), cancelled, cleared,
                                   scheduleHibernate(updateOutputDrainMode(reset))}
    BY DEF noteOutputActivity, cleared, cancelled, reset
  <2> QED BY <2>1, <2>2, <2>3, <2>4, <2>5, <2>6
<1> QED BY <1>3, <1>4, <1>5

(* requestWake: nothing is hibernated, or React is told so.                  *)
LEMMA WokenShown ==
    ASSUME NEW s, Fields \subseteq DOMAIN s,
           s.nextHibernated <=> s.hibernatedRef,
           ~s.commit => (s.hibernated <=> s.nextHibernated)
    PROVE  Shown(requestWake(s))
<1> DEFINE c == clearHibernateTimer(s)
<1>1. Alike(c, s)
  BY HandlersAlike
<1> DEFINE u == [c EXCEPT !.epoch = @ + 1,
                          !.phase = IF @ # "idle" THEN "waking" ELSE @,
                          !.hibernatedRef = FALSE,
                          !.nextHibernated = IF s.hibernatedRef THEN FALSE ELSE @,
                          !.commit = s.hibernatedRef \/ @]
<1>2. requestWake(s) = u
  BY DEF requestWake
<1> HIDE DEF c
<1>3. /\ DOMAIN u = DOMAIN s /\ u.visible = s.visible /\ u.hibernated = s.hibernated
      /\ u.hibernatedRef = FALSE
      /\ u.nextHibernated = (IF s.hibernatedRef THEN FALSE ELSE s.nextHibernated)
      /\ u.commit = (s.hibernatedRef \/ s.commit)
  BY <1>1 DEF Alike, Fields
<1> HIDE DEF u
<1>4. Shown(u)
  BY <1>3 DEF Shown
<1> QED BY <1>2, <1>4

(* The handlers of the answers.                                              *)
LEMMA AnswersAlike ==
    ASSUME Fields \subseteq DOMAIN r, NEW c
    PROVE  /\ Alike(Restored(c), r) /\ Alike(SetUp(c), r)
           /\ Alike(CleanedUp(c), r) /\ Alike(NoteRestored(c), r)
<1>1. ASSUME NEW u, Alike(u, r) PROVE Fields \subseteq DOMAIN u
  BY <1>1 DEF Alike
<1>2. Alike(Restored(c), r)
  <2>1. Alike([r EXCEPT !.detachedEpoch = NoEpoch, !.phase = "idle"], r)
    BY DEF Alike, Fields
  <2> QED BY <2>1, HandlersAlike DEF Restored
<1>3. Alike(SetUp(c), r)
  <2> DEFINE f == [r EXCEPT !.phase = "failed"]
             g == [r EXCEPT !.detachedEpoch = NoEpoch, !.phase = "idle"]
             s == IF c.at = "failed" THEN enterDisconnectedState(f)
                                     ELSE updateOutputDrainMode(g)
  <2>1. Alike(f, r) /\ Alike(g, r)
    BY DEF Alike, Fields
  <2> HIDE DEF f, g
  <2>2. Alike(s, r)
    BY <1>1, <2>1, HandlersAlike, AlikeTwice
  <2>3. SetUp(c) = IF isTerminalAlive(r, c.number) THEN [s EXCEPT !.setup = "done"] ELSE s
    BY DEF SetUp, f, g
  <2> HIDE DEF s
  <2>4. Alike([s EXCEPT !.setup = "done"], r)
    BY <2>2 DEF Alike, Fields
  <2> QED BY <2>2, <2>3, <2>4
<1>4. Alike(CleanedUp(c), r)
  BY DEF Alike, Fields, CleanedUp
<1>5. Alike(NoteRestored(c), r)
  <2> DEFINE s == Restored(c)
  <2>1. Alike(s, r)
    BY <1>2
  <2> HIDE DEF s
  <2>2. Alike(scheduleHibernate(s), r)
    BY <1>1, <2>1, HandlersAlike, AlikeTwice
  <2>3. NoteRestored(c) \in {s, scheduleHibernate(s)}
    BY DEF NoteRestored, s
  <2> QED BY <2>1, <2>2, <2>3
<1> QED BY <1>2, <1>3, <1>4, <1>5

(* A task of the controller; only the drain after the detach hibernates, and *)
(* only a terminal that is hidden.                                           *)
LEMMA TaskShown ==
    ASSUME Shown(r), NEW t, Task(t) PROVE Shown(r')
<1>0. Fields \subseteq DOMAIN r
  BY DEF Shown
<1>1. PICK drained \in BOOLEAN, eligible \in BOOLEAN :
          DrainedBeforeDetach(t, drained, eligible) \/ DrainedAfterDetach(t, drained, eligible)
  BY DEF Task
<1> DEFINE s == AfterDrain(t, drained)
<1>2. Alike(s, r)
  BY <1>0 DEF AfterDrain, Alike, Fields
<1>3. DrainedBeforeDetach(t, drained, eligible) =>
          \/ r' = Finally([s EXCEPT !.phase = "idle"], t.epoch)
          \/ r' = Finally(cancelRecentOutputHibernate(s), t.epoch)
          \/ r' = s
  BY DEF DrainedBeforeDetach, Ends
<1>4. DrainedAfterDetach(t, drained, eligible) =>
          \/ r' = Finally(s, t.epoch)
          \/ r' = s
          \/ /\ ~s.visible
             /\ r' = Finally([s EXCEPT !.cleanup = TRUE, !.phase = "hibernated",
                                       !.mode = "hibernated", !.hibernatedRef = TRUE,
                                       !.nextHibernated = TRUE, !.commit = TRUE], t.epoch)
  BY DEF DrainedAfterDetach, Ends, Restores, MayGoOn, canHibernateRenderer
<1> HIDE DEF s
<1>5. Fields \subseteq DOMAIN s /\ Shown(s)
  BY <1>0, <1>2, AlikeShown DEF Alike
<1>6. ASSUME NEW u, Alike(u, s) PROVE Shown(Finally(u, t.epoch))
  BY <1>5, <1>6, HandlersAlike, AlikeShown DEF Alike
<1>7. Alike(s, s) /\ Alike([s EXCEPT !.phase = "idle"], s)
      /\ Alike(cancelRecentOutputHibernate(s), s)
  BY <1>5, HandlersAlike, CombinedAlike
<1>8. ASSUME ~s.visible
      PROVE  Shown(Finally([s EXCEPT !.cleanup = TRUE, !.phase = "hibernated",
                                     !.mode = "hibernated", !.hibernatedRef = TRUE,
                                     !.nextHibernated = TRUE, !.commit = TRUE], t.epoch))
  <2> DEFINE u == [s EXCEPT !.cleanup = TRUE, !.phase = "hibernated",
                            !.mode = "hibernated", !.hibernatedRef = TRUE,
                            !.nextHibernated = TRUE, !.commit = TRUE]
  <2>1. Fields \subseteq DOMAIN u /\ Shown(u)
    BY <1>5, <1>8 DEF Shown, Fields
  <2> HIDE DEF u
  <2>2. Shown(Finally(u, t.epoch))
    BY <2>1, HandlersAlike, AlikeShown
  <2> QED BY <2>2 DEF u
<1> QED BY <1>1, <1>3, <1>4, <1>5, <1>6, <1>7, <1>8

(* An answer.                                                                *)
LEMMA AnswerShown ==
    ASSUME IInv, Shown(r), NEW c \in calls, NEW eligible, Answered(c, eligible)
    PROVE  Shown(r')
<1>0. Fields \subseteq DOMAIN r
  BY DEF Shown
<1>1. ASSUME NEW t, NEW s, NEW others, Alike(s, r), Restores(t, s, others) PROVE Shown(r')
  <2>1. Fields \subseteq DOMAIN s
    BY <1>0, <1>1 DEF Alike
  <2>2. Alike(Finally(s, t.epoch), s)
    BY <2>1, HandlersAlike
  <2>3. Alike(r', r)
    BY <1>1, <2>2, AlikeTwice DEF Restores
  <2> QED BY <2>3, AlikeShown
<1>2. ASSUME NEW t, Detached(t, c, eligible) PROVE Shown(r')
  <2> DEFINE d == [r EXCEPT !.detachedEpoch = t.epoch, !.phase = "detached"]
             f == [r EXCEPT !.phase = "failed"]
             s == updateOutputDrainMode(d)
  <2>1. Alike(d, r) /\ Alike(f, r)
    BY <1>0 DEF Alike, Fields
  <2>2. \/ Restores(t, f, calls \ {c})
        \/ Restores(t, s, calls \ {c})
        \/ r' = clearHibernateTimer(s)
    BY <1>2 DEF Detached
  <2> HIDE DEF d, f
  <2>3. Alike(s, r) /\ Fields \subseteq DOMAIN s
    <3>1. Alike(s, d)
      BY <1>0, <2>1, HandlersAlike DEF Alike
    <3>2. Alike(s, r)
      BY <2>1, <3>1, AlikeTwice
    <3> QED BY <1>0, <3>2 DEF Alike
  <2> HIDE DEF s
  <2>4. Alike(clearHibernateTimer(s), r)
    BY <2>3, HandlersAlike, AlikeTwice
  <2> QED BY <1>1, <2>1, <2>2, <2>3, <2>4, AlikeShown
<1>3. ASSUME NEW t, r' = Finally(Restored(c), t.epoch) PROVE Shown(r')
  <2> DEFINE u == Restored(c)
  <2>1. Alike(u, r)
    BY <1>0, AnswersAlike
  <2> HIDE DEF u
  <2>2. Alike(Finally(u, t.epoch), u)
    BY <1>0, <2>1, HandlersAlike DEF Alike
  <2>3. r' = Finally(u, t.epoch)
    BY <1>3 DEF u
  <2> QED BY <2>1, <2>2, <2>3, AlikeTwice, AlikeShown
<1>4. Shown(SetUp(c)) /\ Shown(CleanedUp(c)) /\ Shown(NoteRestored(c))
  BY <1>0, AnswersAlike, AlikeShown
<1>5. CASE c.by = "task"
  BY <1>2, <1>3, <1>5 DEF Answered
<1>6. CASE c.by # "task"
  <2>1. c.by \in {"setup", "cleanup", "note"}
    BY <1>6 DEF IInv, Types, Calls
  <2>2. r' = CASE c.by = "setup" -> SetUp(c)
               [] c.by = "cleanup" -> CleanedUp(c)
               [] c.by = "note" -> NoteRestored(c)
    BY <1>6 DEF Answered
  <2>3. r' \in {SetUp(c), CleanedUp(c), NoteRestored(c)}
    BY <2>1, <2>2
  <2> QED BY <1>4, <2>3
<1> QED BY <1>5, <1>6

(* React's commit: the states agree again.                                   *)
LEMMA CommitShown ==
    ASSUME Shown(r), Commit PROVE Shown(r')
<1>0. Fields \subseteq DOMAIN r
  BY DEF Shown
<1> DEFINE c == CleanUp
           s == [c EXCEPT !.commit = FALSE, !.hibernated = r.nextHibernated,
                          !.hibernatedRef = r.nextHibernated]
           new == [s EXCEPT !.generation = @ + 1, !.alive = TRUE, !.setup = "starting",
                            !.disconnected = FALSE]
<1>1. r' = IF s.hibernated THEN s ELSE applyVisibilityPolicy(updateOutputDrainMode(new))
  BY DEF Commit
<1>2. Alike(c, r)
  <2> DEFINE u == IF IsHibernateCleanup THEN clearHibernateTimer(r) ELSE invalidateHibernation(r)
  <2>1. Alike(u, r)
    BY <1>0, HandlersAlike
  <2>2. c = IF ~r.alive THEN r
            ELSE [u EXCEPT !.alive = FALSE, !.cleanup = FALSE, !.backlog = 0, !.setup = "none"]
    BY DEF CleanUp
  <2> HIDE DEF u, c
  <2>3. Alike([u EXCEPT !.alive = FALSE, !.cleanup = FALSE, !.backlog = 0, !.setup = "none"], r)
    BY <1>0, <2>1 DEF Alike, Fields
  <2> QED BY <1>0, <2>2, <2>3, HandlersAlike
<1> HIDE DEF c
<1>3. Fields \subseteq DOMAIN s /\ Shown(s)
  BY <1>0, <1>2 DEF Alike, Fields, Shown
<1> HIDE DEF s
<1>4. Alike(new, s)
  BY <1>3 DEF Alike, Fields
<1> HIDE DEF new
<1>5. Alike(updateOutputDrainMode(new), s)
  BY <1>3, <1>4, HandlersAlike, AlikeTwice DEF Alike
<1>6. Alike(applyVisibilityPolicy(updateOutputDrainMode(new)), s)
  BY <1>3, <1>5, CombinedAlike, AlikeTwice DEF Alike
<1> QED BY <1>1, <1>3, <1>6, AlikeShown

(* The terminal is shown or hidden, or wakes.                                *)
LEMMA WakesShown ==
    ASSUME Shown(r), VisibilityChanges \/ Wake \/ ClosedArrives PROVE Shown(r')
<1>0. /\ Fields \subseteq DOMAIN r
      /\ r.nextHibernated <=> r.hibernatedRef
      /\ ~r.commit => (r.hibernated <=> r.nextHibernated)
  BY DEF Shown
<1>1. Shown(requestWake(r))
  BY <1>0, WokenShown
<1>2. CASE VisibilityChanges
  <2> DEFINE s == [r EXCEPT !.visible = ~@]
  <2>1. /\ Fields \subseteq DOMAIN s
        /\ s.nextHibernated <=> s.hibernatedRef
        /\ ~s.commit => (s.hibernated <=> s.nextHibernated)
    BY <1>0 DEF Fields
  <2>2. r' = applyVisibilityPolicy(IF s.visible THEN requestWake(s) ELSE s)
    BY <1>2 DEF VisibilityChanges
  <2> HIDE DEF s
  <2>3. ASSUME NEW u, Shown(u) PROVE Shown(applyVisibilityPolicy(u))
    <3>1. Fields \subseteq DOMAIN u
      BY <2>3 DEF Shown
    <3> QED BY <2>3, <3>1, CombinedAlike, AlikeShown
  <2>4. CASE s.visible
    BY <2>1, <2>2, <2>3, <2>4, WokenShown
  <2>5. CASE ~s.visible
    <3>1. Shown(s)
      BY <2>1, <2>5 DEF Shown
    <3> QED BY <2>2, <2>3, <2>5, <3>1
  <2> QED BY <2>4, <2>5
<1>3. CASE Wake
  BY <1>1, <1>3 DEF Wake
<1>4. CASE ClosedArrives
  <2> DEFINE u == requestWake(r)
  <2>1. r' \in {enterDisconnectedState(u), u, r}
    BY <1>4 DEF ClosedArrives
  <2>2. Shown(u) /\ Fields \subseteq DOMAIN u
    BY <1>1 DEF Shown
  <2> HIDE DEF u
  <2>3. Shown(enterDisconnectedState(u))
    BY <2>2, HandlersAlike, AlikeShown
  <2> QED BY <2>1, <2>2, <2>3
<1> QED BY <1>2, <1>3, <1>4

(* The other steps.                                                          *)
LEMMA RestShown ==
    ASSUME Shown(r),
           \/ \E eligible \in BOOLEAN : hibernateRenderer(eligible)
           \/ \E c \in calls : CallArrives(c)
           \/ OutputArrives \/ Rebuild \/ Listens \/ SnapshotReplayed \/ DrainWrites
           \/ SessionHandles \/ SessionOutputs \/ SessionEnds \/ TimePasses
    PROVE  Shown(r')
<1>0. Fields \subseteq DOMAIN r
  BY DEF Shown
<1>1. ASSUME NEW eligible \in BOOLEAN, hibernateRenderer(eligible) PROVE Shown(r')
  <2> DEFINE s == clearHibernateTimer(r)
             u == [s EXCEPT !.phase = "preparing", !.pending = TRUE,
                            !.overlap = @ \/ calls # {} \/ s.setup # "done"]
  <2>1. r' \in {s, [s EXCEPT !.phase = "idle"], updateOutputDrainMode(u)}
    BY <1>1 DEF hibernateRenderer
  <2>2. Alike(s, r)
    BY <1>0, HandlersAlike
  <2> HIDE DEF s
  <2>3. Alike(u, r) /\ Alike([s EXCEPT !.phase = "idle"], r)
    BY <1>0, <2>2 DEF Alike, Fields
  <2> HIDE DEF u
  <2>4. Alike(updateOutputDrainMode(u), r)
    BY <1>0, <2>3, HandlersAlike, AlikeTwice DEF Alike
  <2> QED BY <2>1, <2>2, <2>3, <2>4, AlikeShown
<1>2. CASE OutputArrives
  <2> DEFINE s == [r EXCEPT !.backlog = @ + 1]
  <2>1. r' = noteOutputActivity(s) \/ r' = r
    BY <1>2 DEF OutputArrives
  <2>2. Alike(s, r)
    BY <1>0 DEF Alike, Fields
  <2> HIDE DEF s
  <2>3. Alike(noteOutputActivity(s), r)
    BY <1>0, <2>2, CombinedAlike, AlikeTwice DEF Alike
  <2> QED BY <2>1, <2>3, AlikeShown
<1>3. CASE Rebuild
  <2>1. r' = [r EXCEPT !.commit = TRUE]
    BY <1>3 DEF Rebuild
  <2> QED BY <1>0, <2>1 DEF Shown, Fields
<1>4. CASE Listens \/ SnapshotReplayed
  <2>1. PICK p : r' = [r EXCEPT !.setup = p]
    BY <1>4 DEF Listens, SnapshotReplayed
  <2>2. Alike(r', r)
    BY <1>0, <2>1 DEF Alike, Fields
  <2> QED BY <2>2, AlikeShown
<1>5. CASE DrainWrites
  <2>1. Alike(r', r)
    BY <1>0, <1>5 DEF DrainWrites, Alike, Fields
  <2> QED BY <2>1, AlikeShown
<1>6. CASE TimePasses
  <2>1. Alike(r', r)
    BY <1>0, <1>6 DEF TimePasses, Alike, Fields
  <2> QED BY <2>1, AlikeShown
<1>7. CASE UNCHANGED r
  BY <1>7
<1> QED BY <1>1, <1>2, <1>3, <1>4, <1>5, <1>6, <1>7
        DEF CallArrives, SessionHandles, SessionOutputs, SessionEnds

(* A shown terminal is not hibernated once nothing is under way; one that is *)
(* not hibernated exists, and its phase is idle again: no wake-up gets       *)
(* stuck, however many hibernations, rebuilds and outputs it crosses.        *)
THEOREM TerminalAwake == Spec => []ShownIsAwake
<1>1. IInv /\ Shown(r) => ShownIsAwake
  <2> SUFFICES ASSUME IInv, Shown(r), Settled, ~ended
               PROVE  /\ r.visible => ~r.hibernated
                      /\ ~r.hibernated => r.alive /\ r.phase = "idle" /\ ~r.pending
    BY DEF ShownIsAwake
  <2>1. r.visible => ~r.hibernated
    BY DEF Shown, Settled
  <2>2. ASSUME ~r.hibernated PROVE r.alive /\ r.phase = "idle" /\ ~r.pending
    <3>1. r.alive /\ ~r.pending
      BY <2>2 DEF IInv, PhaseTells, OneTask, Settled
    <3>2. r.phase \in Phases
      BY DEF IInv, Types, Component
    <3>3. r.phase # "waking"
      BY <3>1 DEF IInv, WakesUp, SetUpAhead, AttachUnderWay, RollsBack, Settled
    <3>4. r.phase \notin {"preparing", "detached", "hibernated", "failed"}
      BY <3>1 DEF IInv, PhaseTells, Settled
    <3> QED BY <3>1, <3>2, <3>3, <3>4 DEF Phases
  <2> QED BY <2>1, <2>2
<1>2. Init => Shown(r)
  BY DEF Init, Shown, Fields
<1>3. IInv /\ Shown(r) /\ [Next]_vars => Shown(r')
  <2> SUFFICES ASSUME IInv, Shown(r), [Next]_vars PROVE Shown(r')
    OBVIOUS
  <2>1. CASE UNCHANGED vars
    BY <2>1 DEF vars
  <2>2. ASSUME NEW c \in calls, Reply(c) PROVE Shown(r')
    BY <2>2, AnswerShown, RestShown DEF Reply
  <2> QED BY <2>1, <2>2, TaskShown, CommitShown, WakesShown, RestShown DEF Next
<1>4. Shown(r)' <=> Shown(r')
  BY DEF Shown
<1> QED BY <1>1, <1>2, <1>3, <1>4, HibernationInductive, PTL DEF Spec
=============================================================================

----------------------------- MODULE GitSchedule -----------------------------
(***************************************************************************)
(* When one Vault's Git turns run, and what they leave behind: the poll    *)
(* schedule and the checkout lease (src/src/git/managed_task.rs), the      *)
(* commit cooldown (src/src/git/commit_cooldown.rs), and the Git and       *)
(* Commit turns of src/src/vault_executor.rs.  The Vault is a two-way      *)
(* managed one: tracked by the scheduler, leased, and committed on change. *)
(*                                                                         *)
(* Five tasks run between each other's steps: the lane's worker, the       *)
(* scheduler's tick, the cooldown's tick, the forwarder of change intents  *)
(* and a management lifecycle (an edit, a disable, an enable), one at a    *)
(* time.  Notes are counted: `written' were saved, `committed' of them are *)
(* in the history.  What a sync does to the repository is ManagedSync's.   *)
(*                                                                         *)
(* Time is two facts: `aged', the poll interval is over since the last     *)
(* completed turn, and `rested', the backoff is over.  A shorter interval  *)
(* only makes the first of them true sooner.                               *)
(***************************************************************************)
EXTENDS Naturals

CONSTANT MaxEvents  \* bound on saves, failing turns, lifecycles, manual syncs,
                    \* restarts and locks taken by another process, in any mix

ASSUME ScheduleAssumption == MaxEvents \in Nat

Kind == {"Git", "Commit"}

\* What a turn came to.  classify_checkout_error and classify_sync_error
\* sort the codes: by whether the failure concerns the remote alone
\* (is_remote_only_failure) and by whether it is worth an automatic retry.
Failure == {"unreachable", "conflict", "dirty", "unreadable", "busy", "revoked", "panicked"}
Result == Failure \cup {"ok"}
RemoteOnly == {"unreachable", "conflict"}
Retryable == {"unreachable", "unreadable", "busy"}

\* VaultGitStatus and the kind of error with it.
StatusOf(result) == IF result = "ok" THEN "ready"
                    ELSE IF result \in RemoteOnly THEN "remote" ELSE "local"

VARIABLES
  block,      \* the Vault's active control block, 0 for none
  life,       \* how far the lifecycle under way is
  drained, pending, turn,      \* the Vault's Git lane in the coordinator
  entry,      \* VaultScheduleEntry: tracked or not, next attempt, lease, last turn
  aged, rested,                \* the clock, as above
  remembered, \* the durable record of the last completed turn
  lock,       \* the checkout's OS lock: free, held here, held elsewhere
  cooldown,   \* CooldownEntry
  tick, reminder, intent, control, \* tasks between reading and asking
  written, committed,
  status,     \* the Git status readers see
  asked,      \* history: who asked for the pending Git turn
  unresolved, masked, \* history: a remote failure no sync resolved; and whether the
              \* status need not say so since
  forgiven,   \* history: how the debt of a commit was last dropped, since the last save
  events      \* how much has happened that the bound counts

queue == <<drained, pending, turn>>
clock == <<aged, rested>>
tasks == <<tick, reminder, intent, control>>
notes == <<written, committed>>
told == <<status, unresolved, masked>>
vars == <<block, life, queue, entry, clock, remembered, lock, cooldown, tasks,
          notes, told, asked, forgiven, events>>

NoTurn == [kind |-> "none", stage |-> "none", on |-> 0, lease |-> FALSE,
           result |-> "none"]
Untracked == [tracked |-> FALSE, wait |-> "now", backoff |-> 0, lease |-> FALSE,
              last |-> "none"]
NoWindow == [window |-> "none", owed |-> FALSE]

\* activate of a Vault not tracked: due at once, or when the remembered turn's
\* interval is over (restored_schedule).
Restored == [Untracked EXCEPT !.tracked = TRUE, !.last = remembered,
                              !.wait = IF remembered = "none" THEN "now" ELSE "interval"]
Activated == IF entry.tracked THEN entry ELSE Restored

\* Mutant: a backoff that is over is not looked at.
MutDue == /\ entry.tracked
          /\ entry.wait = "now" \/ (entry.wait = "interval" /\ aged)
Due == /\ entry.tracked
       /\ \/ entry.wait = "now"
          \/ entry.wait = "interval" /\ aged
          \/ entry.wait = "backoff" /\ rested

\* A process starts on what an earlier one remembered, and its first lifecycle
\* is the one that activates the Vault: run in server.rs starts the worker, the
\* forwarder and the ticks after it.
Init ==
  /\ block = 1 /\ life = "starting"
  /\ drained = FALSE /\ pending = {} /\ turn = NoTurn
  /\ entry = Untracked
  /\ aged \in BOOLEAN /\ rested = FALSE
  /\ remembered \in {"none", "ready", "remote"}
  /\ lock = "free"
  /\ cooldown = NoWindow
  /\ tick = "idle" /\ reminder = "idle" /\ intent = FALSE /\ control = "idle"
  /\ written = 0 /\ committed = 0
  /\ status = "pending"
  /\ asked = {}
  /\ unresolved = (remembered = "remote") /\ masked = FALSE
  /\ forgiven = "no"
  /\ events = 0

\* What nobody owes and only a bound ends: a save, a failure, an operation.
Happens == events < MaxEvents /\ events' = events + 1

\* VaultWorkCoordinator::request, from somebody who asks in the name of `who'.
RequestGit(who) ==
  IF drained THEN UNCHANGED <<pending, asked>>
  ELSE /\ pending' = pending \cup {"Git"}
       /\ asked' = asked \cup {who}

\* request_if_idle: never a rerun behind a turn under way.  Mutant: a request.
MutRequestGitIfIdle(who) == RequestGit(who)
RequestGitIfIdle(who) ==
  IF turn.kind = "Git" \/ "Git" \in pending THEN UNCHANGED <<pending, asked>>
  ELSE RequestGit(who)

\* A request for a Commit turn that a drained queue refuses leaves no debt.
RequestCommit ==
  IF drained THEN forgiven' = "closed" /\ UNCHANGED pending
  ELSE pending' = pending \cup {"Commit"} /\ UNCHANGED forgiven

-----------------------------------------------------------------------------
(* The scheduler's tick, a manual sync.                                    *)

\* tick computes who is due under the entries lock, and asks after it.
TickReads ==
  /\ tick = "idle" /\ Due
  /\ tick' = "due"
  /\ UNCHANGED <<block, life, queue, entry, clock, remembered, lock, cooldown, reminder,
                 intent, control, notes, told, asked, forgiven, events>>

TickAsks ==
  /\ tick = "due"
  /\ tick' = "idle"
  /\ RequestGitIfIdle("tick")
  /\ UNCHANGED <<block, life, drained, turn, entry, clock, remembered, lock, cooldown,
                 reminder, intent, control, notes, told, forgiven, events>>

\* managed_git_control: the Vault is enabled, sync_now registers it, then asks.
CheckControl ==
  /\ control = "idle" /\ block # 0 /\ life # "starting"
  /\ Happens
  /\ control' = "checked"
  /\ UNCHANGED <<block, life, queue, entry, clock, remembered, lock, cooldown, tick,
                 reminder, intent, notes, told, asked, forgiven>>

SyncNow ==
  /\ control = "checked"
  /\ control' = "idle"
  /\ entry' = Activated
  /\ RequestGit("user")
  /\ UNCHANGED <<block, life, drained, turn, clock, remembered, lock, cooldown, tick,
                 reminder, intent, notes, told, forgiven, events>>

\* Time passes.
IntervalEnds ==
  /\ ~aged /\ aged' = TRUE
  /\ UNCHANGED <<block, life, queue, entry, rested, remembered, lock, cooldown, tasks,
                 notes, told, asked, forgiven, events>>
BackoffEnds ==
  /\ entry.wait = "backoff" /\ ~rested /\ rested' = TRUE
  /\ UNCHANGED <<block, life, queue, entry, aged, remembered, lock, cooldown, tasks,
                 notes, told, asked, forgiven, events>>

-----------------------------------------------------------------------------
(* Saves, change intents and the commit cooldown.                          *)

\* A note is saved, by the server or by an editor; the watcher will report it.
Write ==
  /\ Happens
  /\ written' = written + 1
  /\ intent' = TRUE
  /\ forgiven' = "no"
  /\ UNCHANGED <<block, life, queue, entry, clock, remembered, lock, cooldown, tick,
                 reminder, control, committed, told, asked>>

\* try_admit, refused
Refused == [cooldown EXCEPT !.owed = TRUE]

\* forward_vault_change_intent, request_commit_for_change: a Vault without a
\* control block makes no commits; one in its window owes the turn instead.
ForwardIntent ==
  /\ intent /\ life # "starting"
  /\ intent' = FALSE
  /\ IF block # 0 /\ cooldown.window # "open"
     THEN RequestCommit /\ cooldown' = NoWindow
     ELSE /\ cooldown' = IF block = 0 THEN cooldown ELSE Refused
          /\ forgiven' = IF block = 0 THEN "closed" ELSE forgiven
          /\ UNCHANGED pending
  /\ UNCHANGED <<block, life, drained, turn, entry, clock, remembered, lock, tick,
                 reminder, control, notes, told, asked, events>>

WindowEnds ==
  /\ cooldown.window = "open"
  /\ cooldown' = [cooldown EXCEPT !.window = "over"]
  /\ UNCHANGED <<block, life, queue, entry, clock, remembered, lock, tasks, notes,
                 told, asked, forgiven, events>>

\* due: a window that is over gives up its entry and, if it owes one, a turn.
ReminderReads ==
  /\ reminder = "idle" /\ cooldown.window = "over"
  /\ cooldown' = NoWindow
  /\ reminder' = IF cooldown.owed THEN "owed" ELSE "idle"
  /\ UNCHANGED <<block, life, queue, entry, clock, remembered, lock, tick, intent,
                 control, notes, told, asked, forgiven, events>>

ReminderAsks ==
  /\ reminder = "owed"
  /\ reminder' = "idle"
  /\ RequestCommit
  /\ UNCHANGED <<block, life, drained, turn, entry, clock, remembered, lock, cooldown,
                 tick, intent, control, notes, told, asked, events>>

-----------------------------------------------------------------------------
(* A Git or Commit turn.                                                   *)

StartTurn(k) ==
  /\ turn = NoTurn /\ k \in pending /\ life # "starting"
  /\ turn' = [NoTurn EXCEPT !.kind = k, !.stage = "taken"]
  /\ pending' = pending \ {k}
  /\ asked' = IF k = "Git" THEN {} ELSE asked
  /\ UNCHANGED <<block, life, drained, entry, clock, remembered, lock, cooldown, tasks,
                 notes, told, forgiven, events>>

\* What dropping an entry does to the lock: the lease in it is released.
Released == IF entry.lease THEN "free" ELSE lock

\* The Vault has left the collection: a Git turn stops the scheduler from
\* tracking it, a Commit turn is a no-op.
OpenRetired ==
  /\ turn.stage = "taken" /\ block = 0
  /\ turn' = NoTurn
  /\ IF turn.kind = "Git"
     THEN entry' = Untracked /\ lock' = Released /\ UNCHANGED forgiven
     ELSE forgiven' = "closed" /\ UNCHANGED <<entry, lock>>
  /\ UNCHANGED <<block, life, drained, pending, clock, remembered, cooldown, tasks, notes,
                 told, asked, events>>

\* plan_git_turn reads the registry for credentials, which may fail.
OpenTurn ==
  /\ turn.stage = "taken" /\ block # 0
  /\ \/ /\ turn' = [turn EXCEPT !.stage = "opened", !.on = block]
        /\ UNCHANGED events
     \/ /\ turn.kind = "Git"
        /\ Happens
        /\ turn' = [turn EXCEPT !.stage = "ran", !.on = block, !.result = "unreadable"]
  /\ UNCHANGED <<block, life, drained, pending, entry, clock, remembered, lock, cooldown,
                 tasks, notes, told, asked, forgiven>>

\* take_or_acquire_checkout_lease
TakeLease ==
  /\ turn.stage = "opened"
  /\ IF entry.lease \/ lock = "free"
     THEN /\ turn' = [turn EXCEPT !.stage = "leased", !.lease = TRUE]
          /\ entry' = [entry EXCEPT !.lease = FALSE]
          /\ lock' = "here"
     ELSE /\ turn' = [turn EXCEPT !.stage = "ran", !.result = "busy"]
          /\ UNCHANGED <<entry, lock>>
  /\ UNCHANGED <<block, life, drained, pending, clock, remembered, cooldown, tasks, notes,
                 told, asked, forgiven, events>>

\* The control block was revoked before the turn had the write exclusion: it
\* ends without its work, and drops the lease.
RunRevoked ==
  /\ turn.stage = "leased" /\ turn.on # block
  /\ turn' = [turn EXCEPT !.stage = "ran", !.result = "revoked", !.lease = FALSE]
  /\ lock' = "free"
  /\ UNCHANGED <<block, life, drained, pending, entry, clock, remembered, cooldown, tasks,
                 notes, told, asked, forgiven, events>>

\* The work itself.  A sync commits the drift before it meets the remote, so
\* it may fail after that; a panic takes the lease with it.
RunTurn(result) ==
  /\ turn.stage = "leased" /\ turn.on = block
  /\ result \in {"ok", "dirty", "panicked"} \/ (turn.kind = "Git" /\ result \in RemoteOnly)
  /\ IF result = "ok" THEN UNCHANGED events ELSE Happens
  /\ \/ committed' = written /\ result # "dirty"
     \/ committed' = committed /\ result # "ok"
  /\ turn' = [turn EXCEPT !.stage = "ran", !.result = result,
                          !.lease = (result # "panicked")]
  /\ lock' = IF result = "panicked" THEN "free" ELSE lock
  /\ UNCHANGED <<block, life, drained, pending, entry, clock, remembered, cooldown, tasks,
                 written, told, asked, forgiven>>

\* keep_checkout_lease, in one critical section with deactivate's removal.
\* Mutant: the lease is stored whether or not the Vault is still tracked.
MutKeptLease == entry' = [entry EXCEPT !.lease = TRUE] /\ UNCHANGED lock
KeptLease == IF entry.tracked
             THEN entry' = [entry EXCEPT !.lease = TRUE] /\ UNCHANGED lock
             ELSE lock' = "free" /\ UNCHANGED entry

KeepLease ==
  /\ turn.stage = "ran" /\ turn.lease
  /\ turn' = [turn EXCEPT !.lease = FALSE]
  /\ KeptLease
  /\ UNCHANGED <<block, life, drained, pending, clock, remembered, cooldown, tasks, notes,
                 told, asked, forgiven, events>>

\* publish_managed_git_turn_outcome: a control block revoked meanwhile refuses
\* the status.
PublishGit ==
  /\ turn.kind = "Git" /\ turn.stage = "ran" /\ ~turn.lease
  /\ turn' = [turn EXCEPT !.stage = "published"]
  /\ status' = IF turn.on = block THEN StatusOf(turn.result) ELSE status
  /\ unresolved' = IF turn.result = "ok" THEN FALSE
                   ELSE unresolved \/ turn.result \in RemoteOnly
  /\ masked' = IF turn.on # block THEN TRUE
               ELSE IF turn.result \in Failure \ RemoteOnly THEN masked \/ unresolved
               ELSE FALSE
  /\ UNCHANGED <<block, life, drained, pending, entry, clock, remembered, lock, cooldown,
                 tasks, notes, asked, forgiven, events>>

\* record_outcome: the next attempt after a completed turn is an interval away,
\* after a retryable failure a backoff that doubles once.
NextAttempt(result) ==
  IF result \in Retryable
  THEN [entry EXCEPT !.wait = "backoff", !.backoff = IF @ = 0 THEN 1 ELSE 2]
  ELSE [entry EXCEPT !.wait = "interval", !.backoff = 0, !.last = StatusOf(result)]

RecordOutcome ==
  /\ turn.kind = "Git" /\ turn.stage = "published"
  /\ turn' = NoTurn
  /\ IF ~entry.tracked THEN UNCHANGED <<entry, clock, remembered>>
     ELSE /\ entry' = NextAttempt(turn.result)
          /\ rested' = FALSE
          /\ IF turn.result \in Retryable THEN UNCHANGED <<aged, remembered>>
             ELSE aged' = FALSE /\ remembered' = StatusOf(turn.result)
  /\ UNCHANGED <<block, life, drained, pending, lock, cooldown, tasks, notes, told, asked,
                 forgiven, events>>

\* A commit proves the local half: only a failure of the remote still stands.
\* Mutant: it clears that too.
MutAfterCommit == "ready"
AfterCommit == IF status = "remote" THEN "remote" ELSE "ready"

\* arm: the window opens owing a turn.  Mutant: it opens owing none.
MutArmed == [window |-> "open", owed |-> FALSE]
Armed == [window |-> "open", owed |-> TRUE]

\* finish_commit_turn, with CommitCooldown::clear and arm
FinishCommit ==
  /\ turn.kind = "Commit" /\ turn.stage = "ran" /\ ~turn.lease
  /\ turn' = NoTurn
  /\ IF turn.result = "ok"
     THEN /\ cooldown' = NoWindow
          /\ forgiven' = IF cooldown.owed THEN "cleared" ELSE forgiven
          /\ status' = IF turn.on = block THEN AfterCommit ELSE status
          /\ masked' = (masked \/ (status = "pending" /\ unresolved))
     ELSE /\ cooldown' = Armed
          /\ status' = IF turn.on = block THEN "local" ELSE status
          /\ masked' = (masked \/ unresolved)
          /\ UNCHANGED forgiven
  /\ UNCHANGED <<block, life, drained, pending, entry, clock, remembered, lock, tasks,
                 notes, unresolved, asked, events>>

-----------------------------------------------------------------------------
(* Lifecycles, restarts, other processes.                                  *)

\* drain_vault
Drain ==
  /\ drained' = TRUE /\ pending' = {} /\ asked' = {}
  /\ forgiven' = IF "Commit" \in pending THEN "closed" ELSE forgiven

\* A definition edit replaces the control block, which inherits the Git status,
\* and leaves the schedule and the lease alone.
Edit ==
  /\ life = "idle" /\ block # 0
  /\ Happens
  /\ block' = 3 - block
  /\ Drain
  /\ life' = "waiting"
  /\ UNCHANGED <<turn, entry, clock, remembered, lock, cooldown, tasks, notes, told>>

\* deactivate
Deactivated == entry' = Untracked /\ lock' = Released

Disable ==
  /\ life = "idle" /\ block # 0
  /\ Happens
  /\ block' = 0
  /\ Drain
  /\ Deactivated
  /\ life' = "waiting"
  /\ UNCHANGED <<turn, clock, remembered, cooldown, tasks, notes, told>>

Enable ==
  /\ life = "idle" /\ block = 0
  /\ Happens
  /\ block' = 1
  /\ status' = "pending"
  /\ unresolved' = (remembered = "remote") /\ masked' = FALSE
  /\ life' = "activating"
  /\ UNCHANGED <<queue, entry, clock, remembered, lock, cooldown, tasks, notes, asked,
                 forgiven>>

\* wait_for_vault_safe_boundary
Settle ==
  /\ life = "waiting" /\ turn = NoTurn
  /\ life' = IF block = 0 THEN "idle" ELSE "activating"
  /\ UNCHANGED <<block, queue, entry, clock, remembered, lock, cooldown, tasks, notes,
                 told, asked, forgiven, events>>

\* Reactivation: the queue opens, the scheduler tracks the Vault, and a status
\* nothing had been published in when it looked is that of the remembered turn.
Activate ==
  /\ life = "activating"
  /\ drained' = FALSE
  /\ entry' = Activated
  /\ life' = IF status = "pending" THEN "republishing" ELSE "asking"
  /\ UNCHANGED <<block, pending, turn, clock, remembered, lock, cooldown, tasks, notes,
                 told, asked, forgiven, events>>

Republish ==
  /\ life = "republishing"
  /\ IF entry.last = "none" THEN UNCHANGED <<status, masked>>
     ELSE /\ status' = entry.last
          /\ masked' = (masked \/ status # "pending")
  /\ life' = "asking"
  /\ UNCHANGED <<block, queue, entry, clock, remembered, lock, cooldown, tasks, notes,
                 unresolved, asked, forgiven, events>>

\* The first lifecycle of a process does all this before any task runs.
Start ==
  /\ life = "starting"
  /\ life' = "idle"
  /\ entry' = Activated
  /\ status' = IF entry'.last = "none" THEN status ELSE entry'.last
  /\ UNCHANGED <<block, drained, turn, clock, remembered, lock, cooldown, tasks, notes,
                 unresolved, masked, forgiven, events>>
  /\ IF Due' THEN RequestGitIfIdle("activation") ELSE UNCHANGED <<pending, asked>>

\* request_if_due
AskIfDue ==
  /\ life = "asking"
  /\ life' = "idle"
  /\ IF Due THEN RequestGitIfIdle("activation") ELSE UNCHANGED <<pending, asked>>
  /\ UNCHANGED <<block, drained, turn, entry, clock, remembered, lock, cooldown, tasks,
                 notes, told, forgiven, events>>

\* The process ends at any point and another starts: the registry, the durable
\* record, the notes and the history are all that is left.
Restart ==
  /\ Happens
  /\ block' = IF block = 0 THEN 0 ELSE 1
  /\ life' = IF block = 0 THEN "idle" ELSE "starting"
  /\ drained' = FALSE /\ pending' = {} /\ turn' = NoTurn /\ asked' = {}
  /\ entry' = Untracked /\ rested' = FALSE
  /\ lock' = IF lock = "here" THEN "free" ELSE lock
  /\ cooldown' = NoWindow
  /\ tick' = "idle" /\ reminder' = "idle" /\ intent' = FALSE /\ control' = "idle"
  /\ status' = "pending"
  /\ unresolved' = (remembered = "remote") /\ masked' = FALSE
  /\ forgiven' = "restarted"
  /\ UNCHANGED <<aged, remembered, notes>>

\* Another process takes the checkout's lock, and releases it.
OutsideTakes ==
  /\ lock = "free"
  /\ Happens
  /\ lock' = "elsewhere"
  /\ UNCHANGED <<block, life, queue, entry, clock, remembered, cooldown, tasks, notes,
                 told, asked, forgiven>>
OutsideReleases ==
  /\ lock = "elsewhere"
  /\ lock' = "free"
  /\ UNCHANGED <<block, life, queue, entry, clock, remembered, cooldown, tasks, notes,
                 told, asked, forgiven, events>>

-----------------------------------------------------------------------------
Scheduling == TickReads \/ TickAsks \/ SyncNow
Committing == ForwardIntent \/ ReminderReads \/ ReminderAsks
Working == OpenRetired \/ OpenTurn \/ TakeLease \/ RunRevoked
           \/ (\E result \in Result : RunTurn(result))
           \/ KeepLease \/ PublishGit \/ RecordOutcome \/ FinishCommit
Living == Start \/ Settle \/ Activate \/ Republish \/ AskIfDue
Passing == IntervalEnds \/ BackoffEnds \/ WindowEnds \/ OutsideReleases

Next == \/ Scheduling \/ Committing \/ Working \/ Living \/ Passing
        \/ \E k \in Kind : StartTurn(k)
        \/ Write \/ CheckControl \/ Edit \/ Disable \/ Enable \/ Restart \/ OutsideTakes

Spec == Init /\ [][Next]_vars

\* Every task takes its next step, time passes, and the worker takes a turn
\* of each kind that waits; saves, controls and operations may never come.
Fairness ==
  /\ WF_vars(TickReads) /\ WF_vars(TickAsks) /\ WF_vars(SyncNow)
  /\ WF_vars(ForwardIntent) /\ WF_vars(ReminderReads) /\ WF_vars(ReminderAsks)
  /\ WF_vars(Working) /\ WF_vars(Living)
  /\ WF_vars(IntervalEnds) /\ WF_vars(BackoffEnds) /\ WF_vars(WindowEnds)
  /\ WF_vars(OutsideReleases)
  /\ \A k \in Kind : WF_vars(StartTurn(k))

FairSpec == Spec /\ Fairness

-----------------------------------------------------------------------------
(* Properties.                                                             *)

TypeOK ==
  /\ block \in 0 .. 2
  /\ life \in {"starting", "idle", "waiting", "activating", "republishing", "asking"}
  /\ drained \in BOOLEAN /\ pending \in SUBSET Kind
  /\ turn \in [kind : Kind \cup {"none"},
               stage : {"none", "taken", "opened", "leased", "ran", "published"},
               on : 0 .. 2, lease : BOOLEAN, result : Result \cup {"none"}]
  /\ entry \in [tracked : BOOLEAN, wait : {"now", "interval", "backoff"}, backoff : 0 .. 2,
                lease : BOOLEAN, last : {"none", "ready", "remote", "local"}]
  /\ aged \in BOOLEAN /\ rested \in BOOLEAN
  /\ remembered \in {"none", "ready", "remote", "local"}
  /\ lock \in {"free", "here", "elsewhere"}
  /\ cooldown \in [window : {"none", "open", "over"}, owed : BOOLEAN]
  /\ tick \in {"idle", "due"} /\ reminder \in {"idle", "owed"}
  /\ intent \in BOOLEAN
  /\ control \in {"idle", "checked"}
  /\ written \in Nat /\ committed \in Nat
  /\ status \in {"pending", "ready", "remote", "local"}
  /\ asked \in SUBSET {"tick", "user", "activation"}
  /\ unresolved \in BOOLEAN /\ masked \in BOOLEAN
  /\ forgiven \in {"no", "closed", "restarted", "cleared"}
  /\ events \in Nat

\* Somebody still has to bring about the commit of what is uncommitted.
CommitUnderWay ==
  turn.kind = "Commit" /\ (turn.stage \in {"taken", "opened", "leased"}
                           \/ (turn.stage = "ran" /\ turn.result # "ok"))
DebtIsOwed == \/ intent \/ reminder = "owed" \/ cooldown.owed
              \/ "Commit" \in pending \/ CommitUnderWay

\* A saved note that is not in the history is owed a Commit turn through every
\* failure, cooldown and race, unless the debt was dropped: by a drain or a
\* closed queue, by a restart, or with a window that a success cleared.
CommitOwed == committed < written => DebtIsOwed \/ forgiven # "no"

\* The state keeps its shape.  The checkout's lock is held for exactly one owner, a tracked entry or the
\* turn under way: no order of a turn's end and a disable leaks it.
LeaseHasOwner ==
  /\ TypeOK
  /\ ~(entry.lease /\ turn.lease)
  /\ lock = "here" <=> entry.lease \/ turn.lease
  /\ entry.lease => entry.tracked

\* A remote failure stays in the Vault's status until a sync succeeds, and no
\* longer, except where it is masked: by a later local failure, because the
\* turn's control block was replaced while it ran, or because a turn and the
\* activation that republishes the remembered one overtook each other.
RemoteFailureShown ==
  life = "idle" /\ block # 0 /\ turn.stage # "published" /\ ~masked
    => (status = "remote" <=> unresolved)

\* When a retryable failure arms its backoff, no turn that the schedule asked
\* for on its own waits behind it, which would run at once (#127).
BackoffIsHonoured ==
  [][entry'.wait = "backoff" /\ entry' # entry /\ turn.stage = "published"
       => "tick" \notin asked' /\ "activation" \notin asked']_vars

\* Whatever failed or was dropped, the notes of an enabled Vault are committed
\* in the end: its schedule comes round again.
EventuallyCommitted == []<>(committed = written \/ block = 0)
=============================================================================

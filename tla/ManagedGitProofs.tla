----------------------------- MODULE ManagedGitProofs -----------------------------
(***************************************************************************)
(* Managed Git, in two halves.  GitSchedule for any number of saves,       *)
(* failures, lifecycles, restarts and manual syncs: the commit debt, the   *)
(* lease, the backoff and the remote failure.  ManagedSync for any files,  *)
(* saves, pushes of others, failures and crashes: what a turn leaves on    *)
(* the remote, in the files and in the history.                            *)
(***************************************************************************)
EXTENDS GitSchedule, ManagedSync, TLAPS

(***************************************************************************)
(* GitSchedule: the inductive invariant                                    *)
(***************************************************************************)
\* Which turn is at which stage, and when it holds the checkout.
TurnInv ==
  /\ turn.stage = "none" => turn = NoTurn
  /\ turn.kind = "none" => turn = NoTurn
  /\ turn.stage = "published" => turn.kind = "Git"
  /\ turn.lease => turn.stage \in {"leased", "ran"}
  /\ turn.stage = "leased" => turn.lease
  /\ turn.stage \in {"ran", "published"} => turn.result \in Result

LeaseInv ==
  /\ ~(entry.lease /\ turn.lease)
  /\ lock = "here" <=> entry.lease \/ turn.lease
  /\ entry.lease => entry.tracked

CommitInv == committed <= written /\ CommitOwed

\* Behind a Git turn under way only a user's request waits.
AskedInv == turn.kind = "Git" => asked \subseteq {"user"}

\* A Vault that is disabled has no work, and nobody who could ask for some.
QuietInv ==
  /\ drained => pending = {}
  /\ life = "waiting" => drained
  /\ life \notin {"idle", "waiting"} => block # 0
  /\ life = "idle" /\ block = 0 =>
       /\ turn = NoTurn /\ pending = {}
       /\ \/ drained
          \/ /\ tick = "idle" /\ reminder = "idle" /\ control = "idle"
             /\ ~entry.tracked /\ cooldown = NoWindow

\* The remembered turn is the schedule's last.
LastInv ==
  /\ entry.last = IF entry.tracked THEN remembered ELSE "none"
  /\ life = "republishing" => entry.tracked
  /\ life = "starting" => turn = NoTurn /\ status = "pending"

\* What the status says of the remote, or will once the remembered turn is republished.
RemoteInv ==
  /\ ~masked => (unresolved <=> \/ status = "remote"
                                \/ status = "pending" /\ remembered = "remote")
  /\ turn.stage = "published" => masked \/ status # "pending"
  /\ life \in {"asking", "idle"} /\ block # 0 /\ status = "pending" =>
       masked \/ remembered # "remote"

IInv == /\ TypeOK /\ TurnInv /\ LeaseInv /\ CommitInv /\ AskedInv /\ QuietInv
        /\ LastInv /\ RemoteInv

(***************************************************************************)
(* The steps, by what they touch                                           *)
(***************************************************************************)
\* They leave the turn, the schedule, the checkout and the status alone.
Aside ==
  \/ TickReads \/ TickAsks \/ CheckControl \/ IntervalEnds \/ BackoffEnds
  \/ Write \/ ForwardIntent \/ WindowEnds \/ ReminderReads \/ ReminderAsks
  \/ Settle \/ AskIfDue
Runs == \E r \in Result : RunTurn(r)
Starts == \E k \in Kind : StartTurn(k)
TurnStep ==
  \/ Starts \/ OpenRetired \/ OpenTurn \/ TakeLease \/ RunRevoked \/ Runs
  \/ KeepLease \/ PublishGit \/ RecordOutcome \/ FinishCommit
LifeStep ==
  SyncNow \/ Start \/ Activate \/ Republish \/ Edit \/ Disable \/ Enable \/ Restart
Outside == OutsideTakes \/ OutsideReleases

LEMMA Steps == [Next]_vars => Aside \/ TurnStep \/ LifeStep \/ Outside \/ UNCHANGED vars
BY DEF Next, Scheduling, Committing, Working, Living, Passing, Aside, TurnStep, LifeStep, Outside,
       Runs, Starts

LEMMA AsideLeaves ==
  Aside => UNCHANGED <<block, turn, entry, remembered, lock, status, unresolved, masked, committed>>
BY DEF Aside, TickReads, TickAsks, CheckControl, IntervalEnds, BackoffEnds, Write, ForwardIntent,
       WindowEnds, ReminderReads, ReminderAsks, Settle, AskIfDue, queue, notes, told

(***************************************************************************)
(* Types                                                                   *)
(***************************************************************************)
Entry == [tracked : BOOLEAN, wait : {"now", "interval", "backoff"}, backoff : 0 .. 2,
          lease : BOOLEAN, last : {"none", "ready", "remote", "local"}]
Turn == [kind : Kind \cup {"none"},
         stage : {"none", "taken", "opened", "leased", "ran", "published"},
         on : 0 .. 2, lease : BOOLEAN, result : Result \cup {"none"}]
Window == [window : {"none", "open", "over"}, owed : BOOLEAN]

Queued ==
  /\ block \in 0 .. 2
  /\ life \in {"starting", "idle", "waiting", "activating", "republishing", "asking"}
  /\ drained \in BOOLEAN /\ pending \in SUBSET Kind /\ turn \in Turn
Scheduled ==
  /\ entry \in Entry /\ aged \in BOOLEAN /\ rested \in BOOLEAN
  /\ remembered \in {"none", "ready", "remote", "local"}
  /\ lock \in {"free", "here", "elsewhere"}
  /\ cooldown \in Window
Asking ==
  /\ tick \in {"idle", "due"} /\ reminder \in {"idle", "owed"}
  /\ intent \in BOOLEAN /\ control \in {"idle", "checked"}
  /\ asked \in SUBSET {"tick", "user", "activation"}
Recorded ==
  /\ written \in Nat /\ committed \in Nat /\ events \in Nat
  /\ status \in {"pending", "ready", "remote", "local"}
  /\ unresolved \in BOOLEAN /\ masked \in BOOLEAN
  /\ forgiven \in {"no", "closed", "restarted", "cleared"}

LEMMA TypeParts == TypeOK <=> Queued /\ Scheduled /\ Asking /\ Recorded
BY DEF TypeOK, Queued, Scheduled, Asking, Recorded, Entry, Turn, Window

LEMMA NextTypeParts == Queued' /\ Scheduled' /\ Asking' /\ Recorded' => TypeOK'
BY DEF TypeOK, Queued, Scheduled, Asking, Recorded, Entry, Turn, Window

LEMMA Records ==
  /\ NoTurn \in Turn /\ Untracked \in Entry /\ NoWindow \in Window /\ Armed \in Window
  /\ \A r : StatusOf(r) \in {"ready", "remote", "local"}
  /\ Queued => turn \in Turn
  /\ Scheduled => Restored \in Entry /\ Activated \in Entry /\ Refused \in Window
<1>1. NoTurn \in Turn /\ Untracked \in Entry /\ NoWindow \in Window /\ Armed \in Window
  BY DEF NoTurn, Turn, Untracked, Entry, NoWindow, Armed, Window
<1>2. \A r : StatusOf(r) \in {"ready", "remote", "local"} BY DEF StatusOf
<1>3. ASSUME Scheduled PROVE Restored \in Entry /\ Activated \in Entry /\ Refused \in Window
  <2>1. Restored \in Entry BY <1>1, <1>3 DEF Scheduled, Restored, Entry
  <2>2. Refused \in Window BY <1>3 DEF Scheduled, Refused, Window
  <2> QED BY <1>3, <2>1, <2>2 DEF Scheduled, Activated
<1> QED BY <1>1, <1>2, <1>3 DEF Queued

LEMMA AsideTypes == TypeOK /\ Aside => TypeOK'
<1> SUFFICES ASSUME TypeOK, Aside PROVE TypeOK' OBVIOUS
<1>0. Queued /\ Scheduled /\ Asking /\ Recorded BY TypeParts
<1>1. UNCHANGED <<block, turn, entry, remembered, lock, status, unresolved, masked, committed>>
  BY AsideLeaves
<1> USE DEF Aside, TickReads, TickAsks, CheckControl, IntervalEnds, BackoffEnds, Write, ForwardIntent,
       WindowEnds, ReminderReads, ReminderAsks, Settle, AskIfDue, queue, notes, clock, tasks,
       RequestGit, RequestGitIfIdle, RequestCommit, Happens
<1>2. Queued' BY <1>0, <1>1 DEF Queued, Kind
<1>3. Scheduled'
  <2>1. cooldown' \in Window
    <3>1. cooldown' \in {cooldown, NoWindow, Refused, [cooldown EXCEPT !.window = "over"]} OBVIOUS
    <3>2. [cooldown EXCEPT !.window = "over"] \in Window BY <1>0 DEF Scheduled, Window
    <3> QED BY <1>0, <3>1, <3>2, Records DEF Scheduled
  <2>2. aged' \in BOOLEAN /\ rested' \in BOOLEAN BY <1>0 DEF Scheduled
  <2> QED BY <1>0, <1>1, <2>1, <2>2 DEF Scheduled
<1>4. Asking' BY <1>0 DEF Asking
<1>5. Recorded'
  <2>1. written' \in Nat /\ events' \in Nat BY <1>0 DEF Recorded
  <2>2. forgiven' \in {"no", "closed", "restarted", "cleared"} BY <1>0 DEF Recorded
  <2> QED BY <1>0, <1>1, <2>1, <2>2 DEF Recorded
<1> QED BY <1>2, <1>3, <1>4, <1>5, NextTypeParts

LEMMA TurnTypes == TypeOK /\ TurnStep => TypeOK'
<1> SUFFICES ASSUME TypeOK, TurnStep PROVE TypeOK' OBVIOUS
<1>0. Queued /\ Scheduled /\ Asking /\ Recorded BY TypeParts
<1>1. \A st \in {"leased", "ran", "published", "opened"}, l \in BOOLEAN, r \in Result \cup {"none"}, b \in 0 .. 2 :
        [turn EXCEPT !.stage = st, !.on = b, !.lease = l, !.result = r] \in Turn
  BY <1>0 DEF Queued, Turn
<1>2. turn \in Turn /\ entry \in Entry /\ block \in 0 .. 2 BY <1>0 DEF Queued, Scheduled
<1>3. turn' \in Turn
  <2>1. CASE Starts
    <3>1. \A k \in Kind : [NoTurn EXCEPT !.kind = k, !.stage = "taken"] \in Turn
      BY Records DEF Turn
    <3> QED BY <2>1, <3>1 DEF Starts, StartTurn
  <2>2. CASE OpenRetired \/ RecordOutcome \/ FinishCommit
    BY <2>2, Records DEF OpenRetired, RecordOutcome, FinishCommit
  <2>3. CASE OpenTurn BY <1>2, <2>3 DEF OpenTurn, Turn, Result, Failure
  <2>4. CASE TakeLease \/ RunRevoked BY <1>2, <2>4 DEF TakeLease, RunRevoked, Turn, Result, Failure
  <2>5. CASE Runs BY <1>2, <2>5 DEF Runs, RunTurn, Turn
  <2>6. CASE KeepLease \/ PublishGit BY <1>2, <2>6 DEF KeepLease, PublishGit, Turn
  <2> QED BY <2>1, <2>2, <2>3, <2>4, <2>5, <2>6 DEF TurnStep
<1>4. Queued'
  <2>1. UNCHANGED <<block, life, drained>> /\ pending' \subseteq pending
    BY DEF TurnStep, Starts, Runs, StartTurn, OpenRetired, OpenTurn, TakeLease, RunRevoked, RunTurn,
       KeepLease, PublishGit, RecordOutcome, FinishCommit
  <2> QED BY <1>0, <1>3, <2>1 DEF Queued
<1>5. Scheduled'
  <2>1. entry' \in Entry
    <3>1. CASE OpenRetired BY <1>2, <3>1, Records DEF OpenRetired
    <3>2. CASE TakeLease \/ KeepLease BY <1>2, <3>2 DEF TakeLease, KeepLease, KeptLease, Entry
    <3>3. CASE RecordOutcome
      <4>1. \A b \in 0 .. 2 : [entry EXCEPT !.wait = "backoff", !.backoff = b] \in Entry
        BY <1>2 DEF Entry
      <4>2. \A b \in 0 .. 2, st \in {"ready", "remote", "local"} :
              [entry EXCEPT !.wait = "interval", !.backoff = b, !.last = st] \in Entry
        BY <1>2 DEF Entry
      <4>3. 0 \in 0 .. 2 /\ (IF entry.backoff = 0 THEN 1 ELSE 2) \in 0 .. 2 OBVIOUS
      <4>4. NextAttempt(turn.result) \in Entry
        <5>1. CASE turn.result \in Retryable BY <4>1, <4>3, <5>1 DEF NextAttempt
        <5>2. CASE turn.result \notin Retryable BY <4>2, <4>3, <5>2, Records DEF NextAttempt
        <5> QED BY <5>1, <5>2
      <4> QED BY <1>2, <3>3, <4>4 DEF RecordOutcome
    <3>4. CASE UNCHANGED entry BY <1>2, <3>4
    <3> QED BY <3>1, <3>2, <3>3, <3>4
         DEF TurnStep, Starts, Runs, StartTurn, OpenTurn, RunRevoked, RunTurn, PublishGit, FinishCommit
  <2>2. aged' \in BOOLEAN /\ rested' \in BOOLEAN /\ remembered' \in {"none", "ready", "remote", "local"}
    <3>1. aged' \in {aged, FALSE} /\ rested' \in {rested, FALSE}
          /\ remembered' \in {remembered, StatusOf(turn.result)}
      BY DEF TurnStep, Starts, Runs, StartTurn, OpenRetired, OpenTurn, TakeLease, RunRevoked, RunTurn,
         KeepLease, PublishGit, RecordOutcome, FinishCommit, clock
    <3>2. StatusOf(turn.result) \in {"ready", "remote", "local"} BY Records
    <3> QED BY <1>0, <3>1, <3>2 DEF Scheduled
  <2>3. lock' \in {lock, "free", "here"}
    BY DEF TurnStep, Starts, Runs, StartTurn, OpenRetired, OpenTurn, TakeLease, RunRevoked, RunTurn,
       KeepLease, KeptLease, PublishGit, RecordOutcome, FinishCommit, Released
  <2>4. cooldown' \in {cooldown, NoWindow, Armed}
    BY DEF TurnStep, Starts, Runs, StartTurn, OpenRetired, OpenTurn, TakeLease, RunRevoked, RunTurn,
       KeepLease, PublishGit, RecordOutcome, FinishCommit
  <2> QED BY <1>0, <2>1, <2>2, <2>3, <2>4, Records DEF Scheduled
<1>6. Asking'
  <2>1. UNCHANGED tasks /\ asked' \in {asked, {}}
    BY DEF TurnStep, Starts, Runs, StartTurn, OpenRetired, OpenTurn, TakeLease, RunRevoked, RunTurn,
       KeepLease, PublishGit, RecordOutcome, FinishCommit
  <2> QED BY <1>0, <2>1 DEF Asking, tasks
<1>7. Recorded'
  <2>1. UNCHANGED written /\ committed' \in {committed, written} /\ events' \in {events, events + 1}
    BY DEF TurnStep, Starts, Runs, StartTurn, OpenRetired, OpenTurn, TakeLease, RunRevoked, RunTurn,
       KeepLease, PublishGit, RecordOutcome, FinishCommit, notes, Happens
  <2>2. status' \in {status, "ready", "remote", "local"}
    <3>1. CASE PublishGit BY <3>1, Records DEF PublishGit
    <3>2. CASE FinishCommit BY <3>2 DEF FinishCommit, AfterCommit
    <3>3. CASE UNCHANGED status BY <3>3
    <3> QED BY <3>1, <3>2, <3>3 DEF TurnStep, Starts, Runs, StartTurn, OpenRetired, OpenTurn, TakeLease,
            RunRevoked, RunTurn, KeepLease, RecordOutcome, told
  <2>3. unresolved' \in BOOLEAN /\ masked' \in BOOLEAN
    <3>1. CASE PublishGit BY <1>0, <3>1 DEF PublishGit, Recorded
    <3>2. CASE FinishCommit BY <1>0, <3>2 DEF FinishCommit, Recorded
    <3>3. CASE UNCHANGED <<unresolved, masked>> BY <1>0, <3>3 DEF Recorded
    <3> QED BY <3>1, <3>2, <3>3 DEF TurnStep, Starts, Runs, StartTurn, OpenRetired, OpenTurn, TakeLease,
            RunRevoked, RunTurn, KeepLease, RecordOutcome, told
  <2>4. forgiven' \in {forgiven, "closed", "cleared"}
    BY DEF TurnStep, Starts, Runs, StartTurn, OpenRetired, OpenTurn, TakeLease, RunRevoked, RunTurn,
       KeepLease, PublishGit, RecordOutcome, FinishCommit
  <2> QED BY <1>0, <2>1, <2>2, <2>3, <2>4 DEF Recorded
<1> QED BY <1>4, <1>5, <1>6, <1>7, NextTypeParts

LEMMA LifeTypes == TypeOK /\ (LifeStep \/ Outside \/ UNCHANGED vars) => TypeOK'
<1> SUFFICES ASSUME TypeOK, LifeStep \/ Outside \/ UNCHANGED vars PROVE TypeOK' OBVIOUS
<1>0. Queued /\ Scheduled /\ Asking /\ Recorded BY TypeParts
<1> USE DEF LifeStep, Outside, SyncNow, Start, Activate, Republish, Edit, Disable, Enable, Restart,
        OutsideTakes, OutsideReleases, Happens, Drain, Deactivated, RequestGit, RequestGitIfIdle,
        Released, vars, queue, clock, tasks, notes, told
<1>1. Queued'
  <2>1. turn' \in {turn, NoTurn} /\ drained' \in {drained, TRUE, FALSE}
        /\ pending' \in {pending, pending \cup {"Git"}, {}}
    OBVIOUS
  <2>2. life' \in {life, "starting", "idle", "waiting", "activating", "republishing", "asking"} OBVIOUS
  <2>3. block' \in {block, 0, 1, 3 - block} /\ (block' = 3 - block /\ block' # block => block # 0)
    BY <1>0 DEF Queued
  <2>4. block' \in 0 .. 2 BY <1>0, <2>3 DEF Queued
  <2>5. turn' \in Turn /\ drained' \in BOOLEAN /\ pending' \in SUBSET Kind
    BY <1>0, <2>1, Records DEF Queued, Kind
  <2> HIDE DEF LifeStep, Outside
  <2> QED BY <1>0, <2>2, <2>4, <2>5 DEF Queued
<1>2. Scheduled'
  <2>1. entry' \in {entry, Activated, Untracked} /\ cooldown' \in {cooldown, NoWindow} OBVIOUS
  <2>2. aged' = aged /\ rested' \in {rested, FALSE} /\ remembered' = remembered OBVIOUS
  <2>3. lock' \in {lock, "free", "elsewhere"} OBVIOUS
  <2> HIDE DEF LifeStep, Outside, Released, queue, clock, tasks, notes, told, vars
  <2> QED BY <1>0, <2>1, <2>2, <2>3, Records DEF Scheduled
<1>3. Asking'
  <2>1. asked' \in {asked, {}, asked \cup {"user"}, asked \cup {"activation"}} OBVIOUS
  <2>2. tick' \in {tick, "idle"} /\ reminder' \in {reminder, "idle"} /\ intent' \in {intent, FALSE}
        /\ control' \in {control, "idle"}
    OBVIOUS
  <2> HIDE DEF LifeStep, Outside, Released, queue, clock, tasks, notes, told, vars
  <2> QED BY <1>0, <2>1, <2>2 DEF Asking
<1>4. Recorded'
  <2>1. UNCHANGED notes /\ events' \in {events, events + 1}
        /\ forgiven' \in {forgiven, "closed", "restarted"}
    OBVIOUS
  <2>2. status' \in {status, "pending"} \/ (status' = entry'.last /\ entry'.last # "none")
    OBVIOUS
  <2>3. entry'.last \in {"none", "ready", "remote", "local"} BY <1>2 DEF Scheduled, Entry
  <2>4. unresolved' \in BOOLEAN /\ masked' \in BOOLEAN BY <1>0 DEF Recorded
  <2> HIDE DEF LifeStep, Outside, Released, queue, clock, tasks, told, vars
  <2> QED BY <1>0, <2>1, <2>2, <2>3, <2>4 DEF Recorded, notes
<1> QED BY <1>1, <1>2, <1>3, <1>4, NextTypeParts

(***************************************************************************)
(* The initial state                                                       *)
(***************************************************************************)
LEMMA InitIInv == Init => IInv
<1> SUFFICES ASSUME Init PROVE IInv OBVIOUS
<1> USE DEF Init
<1>1. TypeOK
  <2>1. Queued
    <3>1. 1 \in 0 .. 2 /\ {} \in SUBSET Kind OBVIOUS
    <3> QED BY <3>1, Records DEF Queued
  <2>3. Scheduled BY Records DEF Scheduled
  <2>2. Asking /\ Recorded BY DEF Asking, Recorded
  <2> QED BY <2>1, <2>2, <2>3, TypeParts
<1>2. TurnInv /\ LeaseInv /\ AskedInv /\ QuietInv BY DEF TurnInv, LeaseInv, AskedInv, QuietInv, NoTurn, Untracked
<1>3. CommitInv BY DEF CommitInv, CommitOwed
<1>4. LastInv /\ RemoteInv BY DEF LastInv, RemoteInv, Untracked, NoTurn
<1> QED BY <1>1, <1>2, <1>3, <1>4 DEF IInv

(***************************************************************************)
(* The turn, the lease, who asked                                          *)
(***************************************************************************)
LEMMA LifeLeavesTurn ==
  LifeStep => \/ UNCHANGED <<turn, status, masked, unresolved>>
              \/ UNCHANGED turn /\ (Start \/ Republish \/ Enable)
              \/ Restart
BY DEF LifeStep, SyncNow, Start, Activate, Republish, Edit, Disable, Enable, Restart, queue, told

LEMMA KeepsTurnInv == IInv /\ [Next]_vars => TurnInv'
<1> SUFFICES ASSUME IInv, [Next]_vars PROVE TurnInv' OBVIOUS
<1>0. TurnInv /\ turn \in Turn BY TypeParts DEF IInv, Queued
<1>1. CASE UNCHANGED turn BY <1>0, <1>1 DEF TurnInv, NoTurn
<1>2. CASE turn' = NoTurn BY <1>2 DEF TurnInv, NoTurn
<1>3. CASE TurnStep
  <2>1. CASE Starts
    <3>1. PICK k \in Kind : turn' = [NoTurn EXCEPT !.kind = k, !.stage = "taken"]
      BY <2>1 DEF Starts, StartTurn
    <3> QED BY <3>1 DEF TurnInv, NoTurn, Kind
  <2>2. CASE OpenTurn
    <3>1. /\ turn.stage = "taken" /\ turn'.stage \in {"opened", "ran"}
          /\ turn'.kind = turn.kind /\ turn'.lease = turn.lease
          /\ (turn'.stage = "ran" => turn'.result = "unreadable")
      BY <1>0, <2>2 DEF OpenTurn, Turn
    <3> QED BY <1>0, <3>1 DEF TurnInv, NoTurn, Result, Failure
  <2>3. CASE TakeLease
    <3>1. /\ turn.stage = "opened" /\ turn'.kind = turn.kind
          /\ \/ turn'.stage = "leased" /\ turn'.lease
             \/ turn'.stage = "ran" /\ turn'.lease = turn.lease /\ turn'.result = "busy"
      BY <1>0, <2>3 DEF TakeLease, Turn
    <3> QED BY <1>0, <3>1 DEF TurnInv, NoTurn, Result, Failure
  <2>4. CASE RunRevoked BY <1>0, <2>4 DEF RunRevoked, TurnInv, Turn, NoTurn, Result, Failure
  <2>5. CASE Runs BY <1>0, <2>5 DEF Runs, RunTurn, TurnInv, Turn, NoTurn
  <2>6. CASE KeepLease BY <1>0, <2>6 DEF KeepLease, TurnInv, Turn, NoTurn
  <2>7. CASE PublishGit BY <1>0, <2>7 DEF PublishGit, TurnInv, Turn, NoTurn
  <2>8. CASE OpenRetired \/ RecordOutcome \/ FinishCommit
    BY <1>2, <2>8 DEF OpenRetired, RecordOutcome, FinishCommit
  <2> QED BY <1>3, <2>1, <2>2, <2>3, <2>4, <2>5, <2>6, <2>7, <2>8 DEF TurnStep
<1>4. CASE Restart BY <1>2, <1>4 DEF Restart
<1>5. CASE Outside \/ UNCHANGED vars BY <1>1, <1>5 DEF Outside, OutsideTakes, OutsideReleases, vars, queue
<1> QED BY <1>1, <1>3, <1>4, <1>5, Steps, AsideLeaves, LifeLeavesTurn

LEMMA KeepsLeaseInv == IInv /\ [Next]_vars => LeaseInv'
<1> SUFFICES ASSUME IInv, [Next]_vars PROVE LeaseInv' OBVIOUS
<1>0. TurnInv /\ LeaseInv /\ turn \in Turn /\ entry \in Entry /\ lock \in {"free", "here", "elsewhere"}
  BY TypeParts DEF IInv, Queued, Scheduled
<1>1. CASE UNCHANGED <<turn, entry, lock>> BY <1>0, <1>1 DEF LeaseInv
<1>2. CASE TurnStep
  <2>1. CASE Starts
    <3>1. turn = NoTurn /\ ~turn'.lease /\ UNCHANGED <<entry, lock>>
      BY <2>1 DEF Starts, StartTurn, NoTurn
    <3> QED BY <1>0, <3>1 DEF LeaseInv, NoTurn
  <2>2. CASE OpenRetired
    <3>1. turn' = NoTurn /\ ~turn.lease BY <1>0, <2>2 DEF OpenRetired, TurnInv
    <3>2. \/ entry' = Untracked /\ lock' = Released
          \/ UNCHANGED <<entry, lock>> BY <2>2 DEF OpenRetired
    <3> QED BY <1>0, <3>1, <3>2 DEF LeaseInv, NoTurn, Untracked, Released
  <2>3. CASE OpenTurn
    <3>1. UNCHANGED <<entry, lock>> /\ turn'.lease = turn.lease BY <1>0, <2>3 DEF OpenTurn, Turn
    <3> QED BY <1>0, <3>1 DEF LeaseInv
  <2>4. CASE TakeLease
    <3>1. ~turn.lease BY <1>0, <2>4 DEF TakeLease, TurnInv
    <3>2. CASE entry.lease \/ lock = "free"
      <4>1. turn'.lease /\ entry' = [entry EXCEPT !.lease = FALSE] /\ lock' = "here"
        BY <1>0, <2>4, <3>2 DEF TakeLease, Turn
      <4> QED BY <1>0, <4>1 DEF LeaseInv, Entry
    <3>3. CASE ~(entry.lease \/ lock = "free")
      <4>1. turn'.lease = turn.lease /\ UNCHANGED <<entry, lock>>
        BY <1>0, <2>4, <3>3 DEF TakeLease, Turn
      <4> QED BY <1>0, <4>1 DEF LeaseInv
    <3> QED BY <3>2, <3>3
  <2>5. CASE RunRevoked
    <3>1. turn.lease /\ ~turn'.lease /\ lock' = "free" /\ UNCHANGED entry
      BY <1>0, <2>5 DEF RunRevoked, TurnInv, Turn
    <3> QED BY <1>0, <3>1 DEF LeaseInv
  <2>6. CASE Runs
    <3>1. PICK r \in Result : RunTurn(r) BY <2>6 DEF Runs
    <3>2. turn.lease /\ turn'.lease = (r # "panicked") /\ UNCHANGED entry
          /\ lock' = IF r = "panicked" THEN "free" ELSE lock
      BY <1>0, <3>1 DEF RunTurn, TurnInv, Turn
    <3> QED BY <1>0, <3>2 DEF LeaseInv
  <2>7. CASE KeepLease
    <3>1. turn.lease /\ ~turn'.lease BY <1>0, <2>7 DEF KeepLease, Turn
    <3>2. CASE entry.tracked
      <4>1. entry' = [entry EXCEPT !.lease = TRUE] /\ UNCHANGED lock
        BY <2>7, <3>2 DEF KeepLease, KeptLease
      <4> QED BY <1>0, <3>1, <3>2, <4>1 DEF LeaseInv, Entry
    <3>3. CASE ~entry.tracked
      <4>1. lock' = "free" /\ UNCHANGED entry BY <2>7, <3>3 DEF KeepLease, KeptLease
      <4> QED BY <1>0, <3>1, <4>1 DEF LeaseInv
    <3> QED BY <3>2, <3>3
  <2>8. CASE PublishGit
    <3>1. UNCHANGED <<entry, lock>> /\ turn'.lease = turn.lease BY <1>0, <2>8 DEF PublishGit, Turn
    <3> QED BY <1>0, <3>1 DEF LeaseInv
  <2>9. CASE RecordOutcome
    <3>1. ~turn.lease /\ turn' = NoTurn /\ lock' = lock BY <1>0, <2>9 DEF RecordOutcome, TurnInv
    <3>2. entry'.lease = entry.lease /\ entry'.tracked = entry.tracked
      BY <1>0, <2>9 DEF RecordOutcome, NextAttempt, Entry
    <3> QED BY <1>0, <3>1, <3>2 DEF LeaseInv, NoTurn
  <2>10. CASE FinishCommit
    <3>1. ~turn.lease /\ turn' = NoTurn /\ UNCHANGED <<entry, lock>> BY <2>10 DEF FinishCommit
    <3> QED BY <1>0, <3>1 DEF LeaseInv, NoTurn
  <2> QED BY <1>2, <2>1, <2>2, <2>3, <2>4, <2>5, <2>6, <2>7, <2>8, <2>9, <2>10 DEF TurnStep
<1>3. CASE LifeStep
  <2>1. CASE SyncNow \/ Start \/ Activate
    <3>1. UNCHANGED <<turn, lock>> /\ entry' = Activated
      BY <2>1 DEF SyncNow, Start, Activate
    <3>2. Activated.lease = entry.lease /\ Activated.tracked
      BY <1>0 DEF Activated, Restored, Untracked, LeaseInv, Entry
    <3> QED BY <1>0, <3>1, <3>2 DEF LeaseInv
  <2>2. CASE Disable
    <3>1. UNCHANGED turn /\ entry' = Untracked /\ lock' = Released BY <2>2 DEF Disable, Deactivated
    <3> QED BY <1>0, <3>1 DEF LeaseInv, Untracked, Released
  <2>3. CASE Restart
    <3>1. turn' = NoTurn /\ entry' = Untracked /\ lock' = IF lock = "here" THEN "free" ELSE lock
      BY <2>3 DEF Restart
    <3> QED BY <1>0, <3>1 DEF LeaseInv, Untracked, NoTurn
  <2>4. CASE Republish \/ Edit \/ Enable BY <1>1, <2>4 DEF Republish, Edit, Enable, queue
  <2> QED BY <1>3, <2>1, <2>2, <2>3, <2>4 DEF LifeStep
<1>4. CASE Outside
  <2>1. UNCHANGED <<turn, entry>> /\ lock # "here" /\ lock' # "here"
    BY <1>4 DEF Outside, OutsideTakes, OutsideReleases, queue
  <2> QED BY <1>0, <2>1 DEF LeaseInv
<1>5. CASE UNCHANGED vars BY <1>1, <1>5 DEF vars, queue
<1> QED BY <1>1, <1>2, <1>3, <1>4, <1>5, Steps, AsideLeaves

LEMMA KeepsAskedInv == IInv /\ [Next]_vars => AskedInv'
<1> SUFFICES ASSUME IInv, [Next]_vars PROVE AskedInv' OBVIOUS
<1>0. AskedInv /\ TurnInv /\ turn \in Turn BY TypeParts DEF IInv, Queued
<1>1. CASE UNCHANGED turn /\ asked' \in {asked, asked \cup {"user"}, {}} BY <1>0, <1>1 DEF AskedInv
<1>2. CASE turn' = NoTurn BY <1>2 DEF AskedInv, NoTurn
<1>3. CASE TurnStep
  <2>1. CASE Starts
    <3>1. PICK k \in Kind : StartTurn(k) BY <2>1 DEF Starts
    <3>2. turn'.kind = k /\ (k = "Git" => asked' = {}) BY <3>1 DEF StartTurn, NoTurn
    <3> QED BY <3>2 DEF AskedInv
  <2>2. CASE OpenRetired \/ RecordOutcome \/ FinishCommit
    BY <1>2, <2>2 DEF OpenRetired, RecordOutcome, FinishCommit
  <2>3. CASE OpenTurn \/ TakeLease \/ RunRevoked \/ Runs \/ KeepLease \/ PublishGit
    <3>1. UNCHANGED asked
      BY <2>3 DEF OpenTurn, TakeLease, RunRevoked, Runs, RunTurn, KeepLease, PublishGit
    <3>2. turn'.kind = turn.kind
      BY <1>0, <2>3 DEF OpenTurn, TakeLease, RunRevoked, Runs, RunTurn, KeepLease, PublishGit, Turn
    <3> QED BY <1>0, <3>1, <3>2 DEF AskedInv
  <2> QED BY <1>3, <2>1, <2>2, <2>3 DEF TurnStep
<1>4. CASE Aside
  <2>1. UNCHANGED turn BY <1>4, AsideLeaves
  <2>2. turn.kind = "Git" => UNCHANGED asked
    BY <1>4 DEF Aside, TickReads, TickAsks, CheckControl, IntervalEnds, BackoffEnds, Write,
       ForwardIntent, WindowEnds, ReminderReads, ReminderAsks, Settle, AskIfDue, RequestGitIfIdle
  <2> QED BY <1>0, <2>1, <2>2 DEF AskedInv
<1>5. CASE LifeStep
  <2>1. CASE SyncNow BY <1>1, <2>1 DEF SyncNow, RequestGit
  <2>2. CASE Start
    <3>1. UNCHANGED turn /\ (turn.kind = "Git" => UNCHANGED asked)
      BY <2>2 DEF Start, RequestGitIfIdle
    <3> QED BY <1>0, <3>1 DEF AskedInv
  <2>3. CASE Activate \/ Republish \/ Edit \/ Disable \/ Enable
    BY <1>1, <2>3 DEF Activate, Republish, Edit, Disable, Enable, Drain, queue
  <2>4. CASE Restart BY <1>2, <2>4 DEF Restart
  <2> QED BY <1>5, <2>1, <2>2, <2>3, <2>4 DEF LifeStep
<1>6. CASE Outside \/ UNCHANGED vars
  BY <1>1, <1>6 DEF Outside, OutsideTakes, OutsideReleases, vars, queue
<1> QED BY <1>3, <1>4, <1>5, <1>6, Steps

(***************************************************************************)
(* The debt of a commit                                                    *)
(***************************************************************************)
LEMMA KeepsCommitInv == IInv /\ [Next]_vars => CommitInv'
<1> SUFFICES ASSUME IInv, [Next]_vars PROVE CommitInv' OBVIOUS
<1>0. CommitInv /\ TurnInv /\ turn \in Turn /\ written \in Nat /\ committed \in Nat /\ cooldown \in Window
  BY TypeParts DEF IInv, Queued, Scheduled, Recorded
\* Most steps leave what is written and committed alone, and keep every debt or forgive it.
<1> DEFINE Kept == \/ forgiven' # "no"
                   \/ forgiven' = forgiven /\ (DebtIsOwed => DebtIsOwed')
<1>1. ASSUME UNCHANGED notes, Kept PROVE CommitInv'
  <2>1. UNCHANGED <<written, committed>> BY <1>1 DEF notes
  <2>2. CASE forgiven' # "no" BY <1>0, <2>1, <2>2 DEF CommitInv, CommitOwed
  <2>3. CASE forgiven' = forgiven /\ (DebtIsOwed => DebtIsOwed')
    <3> HIDE DEF DebtIsOwed
    <3> QED BY <1>0, <2>1, <2>3 DEF CommitInv, CommitOwed
  <2> QED BY <1>1, <2>2, <2>3
<1>2. CASE UNCHANGED <<intent, reminder, cooldown, pending, turn, notes, forgiven>>
  <2>1. Kept BY <1>2 DEF DebtIsOwed, CommitUnderWay
  <2> HIDE DEF Kept
  <2> QED BY <1>1, <1>2, <2>1
<1>3. CASE Aside
  <2>1. CASE Write
    <3>1. intent' /\ written' = written + 1 /\ committed' = committed BY <2>1 DEF Write
    <3> QED BY <1>0, <3>1 DEF CommitInv, CommitOwed, DebtIsOwed
  <2>2. CASE ForwardIntent
    <3>1. UNCHANGED <<turn, notes, reminder>> BY <2>2 DEF ForwardIntent
    <3>2. CASE block = 0
      <4>1. forgiven' = "closed" BY <2>2, <3>2 DEF ForwardIntent
      <4> QED BY <1>1, <3>1, <4>1
    <3>3. CASE block # 0 /\ cooldown.window # "open"
      <4>1. CASE drained
        <5>1. forgiven' = "closed" BY <2>2, <3>3, <4>1 DEF ForwardIntent, RequestCommit
        <5> QED BY <1>1, <3>1, <5>1
      <4>2. CASE ~drained
        <5>1. "Commit" \in pending' /\ forgiven' = forgiven
          BY <2>2, <3>3, <4>2 DEF ForwardIntent, RequestCommit
        <5>2. Kept BY <5>1 DEF DebtIsOwed
        <5> HIDE DEF Kept
        <5> QED BY <1>1, <3>1, <5>2
      <4> QED BY <4>1, <4>2
    <3>4. CASE block # 0 /\ cooldown.window = "open"
      <4>1. cooldown'.owed /\ forgiven' = forgiven
        BY <1>0, <2>2, <3>4 DEF ForwardIntent, Refused, Window
      <4>2. Kept BY <4>1 DEF DebtIsOwed
      <4> HIDE DEF Kept
      <4> QED BY <1>1, <3>1, <4>2
    <3> QED BY <3>2, <3>3, <3>4
  <2>3. CASE WindowEnds
    <3>1. UNCHANGED <<intent, reminder, pending, turn, notes, forgiven>> /\ cooldown'.owed = cooldown.owed
      BY <1>0, <2>3 DEF WindowEnds, tasks, queue, Window
    <3>2. Kept BY <3>1 DEF DebtIsOwed, CommitUnderWay
    <3> HIDE DEF Kept
    <3> QED BY <1>1, <3>1, <3>2
  <2>4. CASE ReminderReads
    <3>1. UNCHANGED <<intent, pending, turn, notes, forgiven>> /\ reminder = "idle"
          /\ (cooldown.owed => reminder' = "owed")
      BY <2>4 DEF ReminderReads, queue
    <3>2. Kept BY <3>1 DEF DebtIsOwed, CommitUnderWay
    <3> HIDE DEF Kept
    <3> QED BY <1>1, <3>1, <3>2
  <2>5. CASE ReminderAsks
    <3>1. UNCHANGED notes /\ (forgiven' = "closed" \/ ("Commit" \in pending' /\ forgiven' = forgiven))
      BY <2>5 DEF ReminderAsks, RequestCommit
    <3>2. Kept BY <3>1 DEF DebtIsOwed
    <3> HIDE DEF Kept
    <3> QED BY <1>1, <3>1, <3>2
  <2>6. CASE TickAsks \/ AskIfDue
    <3>1. UNCHANGED <<intent, reminder, cooldown, turn, notes, forgiven>> /\ pending \subseteq pending'
      BY <2>6 DEF TickAsks, AskIfDue, RequestGitIfIdle, RequestGit, tasks
    <3>2. Kept BY <3>1 DEF DebtIsOwed, CommitUnderWay
    <3> HIDE DEF Kept
    <3> QED BY <1>1, <3>1, <3>2
  <2>7. CASE TickReads \/ CheckControl \/ IntervalEnds \/ BackoffEnds \/ Settle
    BY <1>2, <2>7 DEF TickReads, CheckControl, IntervalEnds, BackoffEnds, Settle, queue, tasks
  <2> QED BY <1>3, <2>1, <2>2, <2>3, <2>4, <2>5, <2>6, <2>7 DEF Aside
<1>4. CASE TurnStep
  <2>1. CASE Starts
    <3>1. PICK k \in Kind : StartTurn(k) BY <2>1 DEF Starts
    <3>2. /\ UNCHANGED <<intent, reminder, cooldown, notes, forgiven>>
          /\ turn = NoTurn /\ pending' = pending \ {k} /\ turn'.kind = k /\ turn'.stage = "taken"
      BY <3>1 DEF StartTurn, NoTurn, tasks
    <3>3. Kept BY <3>2 DEF DebtIsOwed, CommitUnderWay, NoTurn
    <3> HIDE DEF Kept
    <3> QED BY <1>1, <3>2, <3>3
  <2>2. CASE OpenRetired
    <3>1. CASE turn.kind = "Git"
      <4>1. UNCHANGED <<intent, reminder, cooldown, pending, notes, forgiven>> 
        BY <2>2, <3>1 DEF OpenRetired, tasks
      <4>2. Kept BY <3>1, <4>1 DEF DebtIsOwed, CommitUnderWay
      <4> HIDE DEF Kept
      <4> QED BY <1>1, <4>1, <4>2
    <3>2. CASE turn.kind # "Git"
      <4>1. UNCHANGED notes /\ forgiven' = "closed" BY <2>2, <3>2 DEF OpenRetired
      <4> QED BY <1>1, <4>1
    <3> QED BY <3>1, <3>2
  <2>3. CASE OpenTurn \/ TakeLease \/ RunRevoked \/ KeepLease
    <3>1. UNCHANGED <<intent, reminder, cooldown, pending, notes, forgiven>>
      BY <2>3 DEF OpenTurn, TakeLease, RunRevoked, KeepLease, tasks
    <3>2. turn'.kind = turn.kind
      BY <1>0, <2>3 DEF OpenTurn, TakeLease, RunRevoked, KeepLease, Turn
    <3>3. \/ turn'.stage \in {"opened", "leased"}
          \/ turn'.stage = "ran" /\ turn'.result # "ok"
          \/ turn'.stage = "ran" /\ turn.stage = "ran" /\ turn'.result = turn.result
      BY <1>0, <2>3 DEF OpenTurn, TakeLease, RunRevoked, KeepLease, Turn
    <3>4. Kept BY <3>1, <3>2, <3>3 DEF DebtIsOwed, CommitUnderWay
    <3> HIDE DEF Kept
    <3> QED BY <1>1, <3>1, <3>4
  <2>4. CASE Runs
    <3>1. PICK r \in Result : RunTurn(r) BY <2>4 DEF Runs
    <3>2. /\ UNCHANGED <<intent, reminder, cooldown, pending, written, forgiven>>
          /\ \/ committed' = written
             \/ committed' = committed /\ r # "ok"
          /\ turn'.kind = turn.kind /\ turn'.stage = "ran" /\ turn'.result = r
      BY <1>0, <3>1 DEF RunTurn, tasks, Turn
    <3>3. CASE committed' = written BY <1>0, <3>2, <3>3 DEF CommitInv, CommitOwed
    <3>4. CASE committed' = committed /\ r # "ok"
      <4>1. Kept BY <3>2, <3>4 DEF DebtIsOwed, CommitUnderWay
      <4>2. UNCHANGED notes BY <3>2, <3>4 DEF notes
      <4> HIDE DEF Kept
      <4> QED BY <1>1, <4>1, <4>2
    <3> QED BY <3>2, <3>3, <3>4
  <2>5. CASE PublishGit \/ RecordOutcome
    <3>1. UNCHANGED <<intent, reminder, cooldown, pending, notes, forgiven>> /\ turn.kind = "Git"
      BY <2>5 DEF PublishGit, RecordOutcome, tasks
    <3>2. Kept BY <3>1 DEF DebtIsOwed, CommitUnderWay
    <3> HIDE DEF Kept
    <3> QED BY <1>1, <3>1, <3>2
  <2>6. CASE FinishCommit
    <3>1. UNCHANGED <<intent, reminder, pending, notes>> BY <2>6 DEF FinishCommit, tasks
    <3>2. CASE turn.result = "ok"
      <4>1. /\ turn.stage = "ran" /\ turn' = NoTurn /\ cooldown' = NoWindow
            /\ forgiven' = IF cooldown.owed THEN "cleared" ELSE forgiven
        BY <2>6, <3>2 DEF FinishCommit
      <4>2. Kept BY <3>1, <3>2, <4>1 DEF DebtIsOwed, CommitUnderWay
      <4> HIDE DEF Kept
      <4> QED BY <1>1, <3>1, <4>2
    <3>3. CASE turn.result # "ok"
      <4>1. cooldown'.owed /\ forgiven' = forgiven BY <2>6, <3>3 DEF FinishCommit, Armed
      <4>2. Kept BY <4>1 DEF DebtIsOwed
      <4> HIDE DEF Kept
      <4> QED BY <1>1, <3>1, <4>2
    <3> QED BY <3>2, <3>3
  <2> QED BY <1>4, <2>1, <2>2, <2>3, <2>4, <2>5, <2>6 DEF TurnStep
<1>5. CASE LifeStep
  <2>1. CASE SyncNow \/ Start
    <3>1. UNCHANGED <<intent, reminder, cooldown, turn, notes, forgiven>> /\ pending \subseteq pending'
      BY <2>1 DEF SyncNow, Start, RequestGitIfIdle, RequestGit, tasks
    <3>2. Kept BY <3>1 DEF DebtIsOwed, CommitUnderWay
    <3> HIDE DEF Kept
    <3> QED BY <1>1, <3>1, <3>2
  <2>2. CASE Edit \/ Disable
    <3>1. UNCHANGED <<intent, reminder, cooldown, turn, notes>>
          /\ forgiven' = IF "Commit" \in pending THEN "closed" ELSE forgiven
      BY <2>2 DEF Edit, Disable, Drain, tasks
    <3>2. Kept BY <3>1 DEF DebtIsOwed, CommitUnderWay
    <3> HIDE DEF Kept
    <3> QED BY <1>1, <3>1, <3>2
  <2>3. CASE Restart
    <3>1. UNCHANGED notes /\ forgiven' = "restarted" BY <2>3 DEF Restart
    <3> QED BY <1>1, <3>1
  <2>4. CASE Activate \/ Republish \/ Enable
    BY <1>2, <2>4 DEF Activate, Republish, Enable, queue, tasks
  <2> QED BY <1>5, <2>1, <2>2, <2>3, <2>4 DEF LifeStep
<1>6. CASE Outside \/ UNCHANGED vars
  BY <1>2, <1>6 DEF Outside, OutsideTakes, OutsideReleases, vars, queue, tasks, notes
<1> HIDE DEF Kept
<1> QED BY <1>3, <1>4, <1>5, <1>6, Steps

(***************************************************************************)
(* A Vault that is disabled                                                *)
(***************************************************************************)
\* A request waits only behind an open queue.
LEMMA KeepsDrained == IInv /\ [Next]_vars => (drained => pending = {})'
<1> SUFFICES ASSUME IInv, [Next]_vars PROVE (drained => pending = {})' OBVIOUS
<1>0. drained => pending = {} BY DEF IInv, QuietInv
<1>1. CASE UNCHANGED <<drained, pending>> BY <1>0, <1>1
<1>2. CASE Aside
  <2>1. drained' = drained /\ (drained => pending' = pending)
    BY <1>2 DEF Aside, TickReads, TickAsks, CheckControl, IntervalEnds, BackoffEnds, Write,
       ForwardIntent, WindowEnds, ReminderReads, ReminderAsks, Settle, AskIfDue, queue,
       RequestGitIfIdle, RequestGit, RequestCommit
  <2> QED BY <1>0, <2>1
<1>3. CASE TurnStep
  <2>1. drained' = drained /\ pending' \subseteq pending
    BY <1>3 DEF TurnStep, Starts, Runs, StartTurn, OpenRetired, OpenTurn, TakeLease, RunRevoked, RunTurn,
       KeepLease, PublishGit, RecordOutcome, FinishCommit
  <2> QED BY <1>0, <2>1
<1>4. CASE LifeStep
  <2>1. pending' = {} \/ ~drained' \/ (drained' = drained /\ (drained => pending' = pending))
    BY <1>4 DEF LifeStep, SyncNow, Start, Activate, Republish, Edit, Disable, Enable, Restart,
       Drain, RequestGitIfIdle, RequestGit, queue
  <2> QED BY <1>0, <2>1
<1>5. CASE Outside \/ UNCHANGED vars
  BY <1>1, <1>5 DEF Outside, OutsideTakes, OutsideReleases, vars, queue
<1> QED BY <1>2, <1>3, <1>4, <1>5, Steps

LEMMA KeepsQuietInv == IInv /\ [Next]_vars => QuietInv'
<1> SUFFICES ASSUME IInv, [Next]_vars PROVE QuietInv' OBVIOUS
<1>0. QuietInv /\ TurnInv /\ LastInv /\ turn \in Turn /\ block \in 0 .. 2
  BY TypeParts DEF IInv, Queued
<1>1. (drained => pending = {})' BY KeepsDrained
<1>2. CASE UNCHANGED <<life, block, drained, pending, turn, tick, reminder, control, entry, cooldown>>
  BY <1>0, <1>2 DEF QuietInv, NoTurn, NoWindow
<1>3. (life = "waiting" => drained)' /\ (life \notin {"idle", "waiting"} => block # 0)'
  <2>1. CASE Aside \/ TurnStep
    <3>1. UNCHANGED <<drained, block>>
          /\ \/ life' = life
             \/ life = "asking" /\ life' = "idle"
             \/ life = "waiting" /\ life' = IF block = 0 THEN "idle" ELSE "activating"
      BY <2>1 DEF Aside, TickReads, TickAsks, CheckControl, IntervalEnds, BackoffEnds, Write,
       ForwardIntent, WindowEnds, ReminderReads, ReminderAsks, Settle, AskIfDue, queue,
       TurnStep, Starts, Runs, StartTurn, OpenRetired, OpenTurn, TakeLease, RunRevoked, RunTurn,
       KeepLease, PublishGit, RecordOutcome, FinishCommit
    <3> QED BY <1>0, <3>1 DEF QuietInv
  <2>2. CASE Edit \/ Disable \/ Enable \/ Restart
    <3>1. \/ life' = "waiting" /\ drained'
          \/ life' \in {"activating", "starting"} /\ block' = 1
          \/ life' = "idle"
      BY <2>2 DEF Edit, Disable, Enable, Restart, Drain
    <3> QED BY <3>1
  <2>3. CASE SyncNow \/ Start \/ Activate \/ Republish
    <3>1. block' = block /\ \/ life' = life /\ drained' = drained
                            \/ life' = "idle"
                            \/ life' \in {"republishing", "asking"} /\ life = "activating"
                            \/ life' = "asking" /\ life = "republishing"
      BY <2>3 DEF SyncNow, Start, Activate, Republish
    <3> QED BY <1>0, <3>1 DEF QuietInv
  <2>4. CASE Outside \/ UNCHANGED vars
    BY <1>0, <2>4 DEF Outside, OutsideTakes, OutsideReleases, vars, queue, QuietInv
  <2> QED BY <2>1, <2>2, <2>3, <2>4, Steps DEF LifeStep
<1>4. ASSUME (life = "idle" /\ block = 0)'
      PROVE  /\ turn' = NoTurn /\ pending' = {}
             /\ \/ drained'
                \/ /\ tick' = "idle" /\ reminder' = "idle" /\ control' = "idle"
                   /\ ~entry'.tracked /\ cooldown' = NoWindow
  <2>1. CASE life = "idle" /\ block = 0
    <3>0. /\ turn = NoTurn /\ pending = {}
          /\ \/ drained
             \/ /\ tick = "idle" /\ reminder = "idle" /\ control = "idle"
                /\ ~entry.tracked /\ cooldown = NoWindow
      BY <1>0, <2>1 DEF QuietInv
    <3>1. CASE Aside
      <4>0. UNCHANGED <<turn, entry>> BY <3>1, AsideLeaves
      <4>1. CASE TickReads \/ TickAsks \/ ReminderReads \/ ReminderAsks \/ WindowEnds
        <5>1. drained
          BY <3>0, <4>1 DEF TickReads, TickAsks, ReminderReads, ReminderAsks, WindowEnds, Due, NoWindow
        <5>2. UNCHANGED <<drained, pending>>
          BY <4>1, <5>1 DEF TickReads, TickAsks, ReminderReads, ReminderAsks, WindowEnds, queue,
             RequestGitIfIdle, RequestGit, RequestCommit
        <5> QED BY <3>0, <4>0, <5>1, <5>2
      <4>2. CASE ForwardIntent
        <5>1. UNCHANGED <<drained, pending, tick, reminder, control, cooldown>>
          BY <2>1, <4>2 DEF ForwardIntent
        <5> QED BY <3>0, <4>0, <5>1
      <4>3. CASE IntervalEnds \/ BackoffEnds \/ Write
        <5>1. UNCHANGED <<drained, pending, tick, reminder, control, cooldown>>
          BY <4>3 DEF IntervalEnds, BackoffEnds, Write, queue, tasks
        <5> QED BY <3>0, <4>0, <5>1
      <4>4. ~CheckControl /\ ~Settle /\ ~AskIfDue BY <2>1 DEF CheckControl, Settle, AskIfDue
      <4> QED BY <3>1, <4>1, <4>2, <4>3, <4>4 DEF Aside
    <3>2. ~TurnStep
      <4>1. turn.stage = "none" /\ turn.kind = "none" BY <3>0 DEF NoTurn
      <4> QED BY <3>0, <4>1 DEF TurnStep, Starts, Runs, StartTurn, OpenRetired, OpenTurn, TakeLease,
              RunRevoked, RunTurn, KeepLease, PublishGit, RecordOutcome, FinishCommit
    <3>3. CASE SyncNow
      <4>1. drained BY <3>0, <3>3 DEF SyncNow
      <4>2. UNCHANGED <<turn, drained, pending>> BY <3>3, <4>1 DEF SyncNow, RequestGit
      <4> QED BY <3>0, <4>1, <4>2
    <3>4. CASE Restart BY <3>4 DEF Restart, Untracked
    <3>5. ~Start /\ ~Activate /\ ~Republish /\ ~Edit /\ ~Disable /\ ~Enable
      BY <1>4, <2>1 DEF Start, Activate, Republish, Edit, Disable, Enable
    <3>6. CASE Outside
      <4>1. UNCHANGED <<turn, drained, pending, tick, reminder, control, entry, cooldown>>
        BY <3>6 DEF Outside, OutsideTakes, OutsideReleases, queue, tasks
      <4> QED BY <3>0, <4>1
    <3>7. CASE UNCHANGED vars BY <3>0, <3>7 DEF vars, queue, tasks
    <3> QED BY <3>1, <3>2, <3>3, <3>4, <3>5, <3>6, <3>7, Steps DEF LifeStep
  <2>2. CASE ~(life = "idle" /\ block = 0)
    <3>1. CASE Settle
      <4>1. life = "waiting" /\ turn = NoTurn /\ UNCHANGED <<turn, drained, pending>>
        BY <3>1 DEF Settle, queue
      <4> QED BY <1>0, <4>1 DEF QuietInv
    <3>2. CASE Restart BY <3>2 DEF Restart, Untracked
    <3>3. CASE Aside /\ ~Settle
      <4>1. UNCHANGED block /\ (life' = life \/ life = "asking")
        BY <3>3 DEF Aside, TickReads, TickAsks, CheckControl, IntervalEnds, BackoffEnds, Write,
           ForwardIntent, WindowEnds, ReminderReads, ReminderAsks, AskIfDue
      <4> QED BY <1>0, <1>4, <2>2, <4>1 DEF QuietInv
    <3>4. CASE TurnStep
      <4>1. UNCHANGED <<block, life>>
        BY <3>4 DEF TurnStep, Starts, Runs, StartTurn, OpenRetired, OpenTurn, TakeLease, RunRevoked,
           RunTurn, KeepLease, PublishGit, RecordOutcome, FinishCommit
      <4> QED BY <1>4, <2>2, <4>1
    <3>5. CASE LifeStep /\ ~Restart
      <4>1. \/ UNCHANGED <<block, life>>
            \/ life' # "idle"
            \/ life = "starting" /\ block' = block
        BY <3>5 DEF LifeStep, SyncNow, Start, Activate, Republish, Edit, Disable, Enable
      <4> QED BY <1>0, <1>4, <2>2, <4>1 DEF QuietInv
    <3>6. CASE Outside \/ UNCHANGED vars
      <4>1. UNCHANGED <<block, life>> BY <3>6 DEF Outside, OutsideTakes, OutsideReleases, vars
      <4> QED BY <1>4, <2>2, <4>1
    <3> QED BY <3>1, <3>2, <3>3, <3>4, <3>5, <3>6, Steps
  <2> QED BY <2>1, <2>2
<1> QED BY <1>1, <1>3, <1>4 DEF QuietInv

(***************************************************************************)
(* The remembered turn and the remote failure                              *)
(***************************************************************************)
LEMMA KeepsLastInv == IInv /\ [Next]_vars => LastInv'
<1> SUFFICES ASSUME IInv, [Next]_vars PROVE LastInv' OBVIOUS
<1>0. LastInv /\ QuietInv /\ TurnInv /\ entry \in Entry BY TypeParts DEF IInv, Scheduled
<1>1. CASE Aside
  <2>1. UNCHANGED <<turn, entry, remembered, status>> BY <1>1, AsideLeaves
  <2>2. life' = life \/ life' \in {"idle", "activating"}
    BY <1>1 DEF Aside, TickReads, TickAsks, CheckControl, IntervalEnds, BackoffEnds, Write,
       ForwardIntent, WindowEnds, ReminderReads, ReminderAsks, Settle, AskIfDue
  <2> QED BY <1>0, <2>1, <2>2 DEF LastInv
<1>2. CASE TurnStep
  <2>1. life' = life /\ life # "starting"
    <3>1. life' = life
      BY <1>2 DEF TurnStep, Starts, Runs, StartTurn, OpenRetired, OpenTurn, TakeLease, RunRevoked,
         RunTurn, KeepLease, PublishGit, RecordOutcome, FinishCommit
    <3>2. turn = NoTurn => Starts
      BY <1>2 DEF TurnStep, Runs, OpenRetired, OpenTurn, TakeLease, RunRevoked,
         RunTurn, KeepLease, PublishGit, RecordOutcome, FinishCommit, NoTurn
    <3>3. Starts => life # "starting" BY DEF Starts, StartTurn
    <3> QED BY <1>0, <3>1, <3>2, <3>3 DEF LastInv
  <2>2. /\ entry'.last = IF entry'.tracked THEN remembered' ELSE "none"
        /\ life = "republishing" => entry'.tracked
    <3>1. CASE OpenRetired
      <4>1. block = 0 /\ entry' \in {Untracked, entry} /\ remembered' = remembered
        BY <3>1 DEF OpenRetired
      <4> QED BY <1>0, <4>1 DEF LastInv, QuietInv, Untracked
    <3>2. CASE TakeLease \/ KeepLease
      <4>1. /\ entry'.last = entry.last /\ entry'.tracked = entry.tracked /\ remembered' = remembered
        BY <1>0, <3>2 DEF TakeLease, KeepLease, KeptLease, Entry
      <4> QED BY <1>0, <4>1 DEF LastInv
    <3>3. CASE RecordOutcome
      <4>1. CASE ~entry.tracked
        <5>1. UNCHANGED <<entry, remembered>> BY <3>3, <4>1 DEF RecordOutcome
        <5> QED BY <1>0, <5>1 DEF LastInv
      <4>2. CASE entry.tracked /\ turn.result \in Retryable
        <5>1. entry'.last = entry.last /\ entry'.tracked /\ remembered' = remembered
          BY <1>0, <3>3, <4>2 DEF RecordOutcome, NextAttempt, Entry
        <5> QED BY <1>0, <4>2, <5>1 DEF LastInv
      <4>3. CASE entry.tracked /\ turn.result \notin Retryable
        <5>1. entry'.last = StatusOf(turn.result) /\ entry'.tracked /\ remembered' = StatusOf(turn.result)
          BY <1>0, <3>3, <4>3 DEF RecordOutcome, NextAttempt, Entry
        <5> QED BY <5>1
      <4> QED BY <4>1, <4>2, <4>3
    <3>4. CASE UNCHANGED <<entry, remembered>> BY <1>0, <3>4 DEF LastInv
    <3> QED BY <1>2, <3>1, <3>2, <3>3, <3>4
         DEF TurnStep, Starts, Runs, StartTurn, OpenTurn, RunRevoked, RunTurn, PublishGit, FinishCommit
  <2> QED BY <2>1, <2>2 DEF LastInv
<1>3. CASE LifeStep
  <2>0. Activated.tracked /\ Activated.last = remembered
    BY <1>0 DEF Activated, Restored, Untracked, LastInv, Entry
  <2>1. CASE SyncNow \/ Start \/ Activate
    <3>1. entry' = Activated /\ remembered' = remembered /\ turn' = turn
          /\ (life' = "starting" => life = "starting" /\ status' = status)
      BY <2>1 DEF SyncNow, Start, Activate, told
    <3> QED BY <1>0, <2>0, <3>1 DEF LastInv
  <2>2. CASE Republish \/ Edit \/ Enable
    <3>1. UNCHANGED <<entry, remembered>> /\ life' \notin {"starting", "republishing"}
      BY <2>2 DEF Republish, Edit, Enable
    <3> QED BY <1>0, <3>1 DEF LastInv
  <2>3. CASE Disable
    <3>1. entry' = Untracked /\ life' = "waiting" BY <2>3 DEF Disable, Deactivated
    <3> QED BY <3>1 DEF LastInv, Untracked
  <2>4. CASE Restart
    <3>1. entry' = Untracked /\ life' # "republishing" /\ turn' = NoTurn /\ status' = "pending"
      BY <2>4 DEF Restart
    <3> QED BY <3>1 DEF LastInv, Untracked, NoTurn
  <2> QED BY <1>3, <2>1, <2>2, <2>3, <2>4 DEF LifeStep
<1>4. CASE Outside \/ UNCHANGED vars
  <2>1. UNCHANGED <<turn, entry, remembered, status, life>>
    BY <1>4 DEF Outside, OutsideTakes, OutsideReleases, vars, queue, told
  <2> QED BY <1>0, <2>1 DEF LastInv, NoTurn
<1> QED BY <1>1, <1>2, <1>3, <1>4, Steps

LEMMA KeepsRemoteInv == IInv /\ [Next]_vars => RemoteInv'
<1> SUFFICES ASSUME IInv, [Next]_vars PROVE RemoteInv' OBVIOUS
<1>0. /\ RemoteInv /\ LastInv /\ QuietInv /\ TurnInv /\ entry \in Entry /\ turn \in Turn
      /\ unresolved \in BOOLEAN /\ masked \in BOOLEAN
  BY TypeParts DEF IInv, Queued, Scheduled, Recorded
<1>1. CASE /\ UNCHANGED <<remembered, status, unresolved, masked, block>>
           /\ turn'.stage = "published" => turn.stage = "published"
           /\ life' \in {"asking", "idle"} =>
                life \in {"asking", "idle"} \/ status # "pending" \/ block = 0
  BY <1>0, <1>1 DEF RemoteInv
<1>2. CASE Aside
  <2>1. UNCHANGED <<block, turn, remembered, status, unresolved, masked>> BY <1>2, AsideLeaves
  <2>2. life' = life \/ life = "asking" \/ (life' = "idle" => block = 0)
    BY <1>2 DEF Aside, TickReads, TickAsks, CheckControl, IntervalEnds, BackoffEnds, Write,
       ForwardIntent, WindowEnds, ReminderReads, ReminderAsks, Settle, AskIfDue
  <2>3. life' # "asking" \/ life' = life
    BY <1>2 DEF Aside, TickReads, TickAsks, CheckControl, IntervalEnds, BackoffEnds, Write,
       ForwardIntent, WindowEnds, ReminderReads, ReminderAsks, Settle, AskIfDue
  <2> QED BY <1>1, <2>1, <2>2, <2>3
<1>3. CASE TurnStep
  <2>0. UNCHANGED <<block, life>>
    BY <1>3 DEF TurnStep, Starts, Runs, StartTurn, OpenRetired, OpenTurn, TakeLease, RunRevoked,
       RunTurn, KeepLease, PublishGit, RecordOutcome, FinishCommit
  <2>1. CASE PublishGit
    <3>1. /\ turn.result \in Result /\ remembered' = remembered
          /\ status' = IF turn.on = block THEN StatusOf(turn.result) ELSE status
          /\ unresolved' = IF turn.result = "ok" THEN FALSE
                           ELSE unresolved \/ turn.result \in RemoteOnly
          /\ masked' = IF turn.on # block THEN TRUE
                       ELSE IF turn.result \in Failure \ RemoteOnly THEN masked \/ unresolved
                       ELSE FALSE
      BY <1>0, <2>1 DEF PublishGit, TurnInv
    <3>2. CASE turn.on # block BY <3>1, <3>2 DEF RemoteInv
    <3>3. CASE turn.on = block /\ turn.result = "ok"
      <4>1. status' = "ready" /\ ~unresolved' BY <3>1, <3>3 DEF StatusOf
      <4> QED BY <4>1 DEF RemoteInv
    <3>4. CASE turn.on = block /\ turn.result \in RemoteOnly
      <4>1. status' = "remote" /\ unresolved' BY <3>1, <3>4 DEF StatusOf, RemoteOnly
      <4> QED BY <4>1 DEF RemoteInv
    <3>5. CASE turn.on = block /\ turn.result \in Failure \ RemoteOnly
      <4>1. turn.result # "ok" BY <3>5 DEF Failure
      <4>2. status' = "local" /\ masked' = (masked \/ unresolved) /\ unresolved' = unresolved
        BY <1>0, <3>1, <3>5, <4>1 DEF StatusOf
      <4> QED BY <4>2 DEF RemoteInv
    <3> QED BY <3>1, <3>2, <3>3, <3>4, <3>5 DEF Result
  <2>2. CASE FinishCommit
    <3>1. turn'.stage = "none" /\ UNCHANGED <<remembered, unresolved>> BY <2>2 DEF FinishCommit, NoTurn
    <3>2. CASE turn.result = "ok"
      <4>1. /\ status' \in {status, AfterCommit}
            /\ masked' = (masked \/ (status = "pending" /\ unresolved))
        BY <2>2, <3>2 DEF FinishCommit
      <4> QED BY <1>0, <2>0, <3>1, <4>1 DEF RemoteInv, AfterCommit
    <3>3. CASE turn.result # "ok"
      <4>1. status' \in {status, "local"} /\ masked' = (masked \/ unresolved)
        BY <2>2, <3>3 DEF FinishCommit
      <4> QED BY <1>0, <2>0, <3>1, <4>1 DEF RemoteInv
    <3> QED BY <3>2, <3>3
  <2>3. CASE RecordOutcome
    <3>1. turn.stage = "published" /\ turn'.stage = "none" /\ UNCHANGED <<status, unresolved, masked>>
      BY <2>3 DEF RecordOutcome, NoTurn, told
    <3> QED BY <1>0, <2>0, <3>1 DEF RemoteInv
  <2>4. CASE Starts \/ OpenRetired \/ OpenTurn \/ TakeLease \/ RunRevoked \/ Runs \/ KeepLease
    <3>1. UNCHANGED <<remembered, status, unresolved, masked>>
      BY <2>4 DEF Starts, StartTurn, OpenRetired, OpenTurn, TakeLease, RunRevoked, Runs, RunTurn,
         KeepLease, told
    <3>2. turn'.stage # "published"
      <4>1. CASE Starts BY <4>1 DEF Starts, StartTurn, NoTurn
      <4>2. CASE OpenRetired BY <4>2 DEF OpenRetired, NoTurn
      <4>3. CASE OpenTurn BY <1>0, <4>3 DEF OpenTurn, Turn
      <4>4. CASE TakeLease \/ RunRevoked BY <1>0, <4>4 DEF TakeLease, RunRevoked, Turn
      <4>5. CASE Runs BY <1>0, <4>5 DEF Runs, RunTurn, Turn
      <4>6. CASE KeepLease BY <1>0, <4>6 DEF KeepLease, Turn
      <4> QED BY <2>4, <4>1, <4>2, <4>3, <4>4, <4>5, <4>6
    <3> QED BY <1>1, <2>0, <3>1, <3>2
  <2> QED BY <1>3, <2>1, <2>2, <2>3, <2>4 DEF TurnStep
<1>4. CASE LifeStep
  <2>0. Activated.last = remembered BY <1>0 DEF Activated, Restored, Untracked, LastInv, Entry
  <2>1. CASE Start
    <3>1. /\ life = "starting" /\ entry' = Activated
          /\ status' = IF entry'.last = "none" THEN status ELSE entry'.last
          /\ UNCHANGED <<turn, remembered, unresolved, masked>>
      BY <2>1 DEF Start
    <3>2. turn.stage = "none" /\ status = "pending" BY <1>0, <3>1 DEF LastInv, NoTurn
    <3>3. status' = IF remembered = "none" THEN "pending" ELSE remembered BY <2>0, <3>1, <3>2
    <3>4. remembered # "pending" BY TypeParts DEF IInv, Scheduled
    <3> QED BY <1>0, <3>1, <3>2, <3>3, <3>4 DEF RemoteInv
  <2>2. CASE Republish
    <3>1. life = "republishing" /\ UNCHANGED <<block, turn, remembered, unresolved>>
      BY <2>2 DEF Republish, queue
    <3>2. entry.last = remembered /\ remembered # "pending"
      BY <1>0, <3>1, TypeParts DEF LastInv, IInv, Scheduled
    <3>3. CASE remembered = "none"
      <4>1. UNCHANGED <<status, masked>> BY <2>2, <3>2, <3>3 DEF Republish
      <4> QED BY <1>0, <3>1, <3>3, <4>1 DEF RemoteInv
    <3>4. CASE remembered # "none"
      <4>1. status' = remembered /\ masked' = (masked \/ status # "pending")
        BY <2>2, <3>2, <3>4 DEF Republish
      <4> QED BY <1>0, <3>1, <3>2, <4>1 DEF RemoteInv
    <3> QED BY <3>3, <3>4
  <2>3. CASE SyncNow \/ Activate
    <3>1. UNCHANGED <<block, turn, remembered, status, unresolved, masked>>
          /\ (life' = life \/ life' = "republishing" \/ status # "pending")
      BY <2>3 DEF SyncNow, Activate, told
    <3> QED BY <1>1, <3>1
  <2>4. CASE Edit \/ Disable
    <3>1. UNCHANGED <<turn, remembered, status, unresolved, masked>> /\ life' = "waiting"
      BY <2>4 DEF Edit, Disable, told
    <3> QED BY <1>0, <3>1 DEF RemoteInv
  <2>5. CASE Enable
    <3>1. /\ life = "idle" /\ block = 0 /\ UNCHANGED <<turn, remembered>> /\ life' = "activating"
          /\ status' = "pending" /\ unresolved' = (remembered = "remote") /\ ~masked'
      BY <2>5 DEF Enable, queue
    <3>2. turn.stage = "none" BY <1>0, <3>1 DEF QuietInv, NoTurn
    <3> QED BY <3>1, <3>2 DEF RemoteInv
  <2>6. CASE Restart
    <3>1. /\ turn'.stage = "none" /\ remembered' = remembered
          /\ status' = "pending" /\ unresolved' = (remembered = "remote") /\ ~masked'
          /\ life' \in {"idle", "starting"} /\ (life' = "idle" => block' = 0)
      BY <2>6 DEF Restart, NoTurn
    <3> QED BY <3>1 DEF RemoteInv
  <2> QED BY <1>4, <2>1, <2>2, <2>3, <2>4, <2>5, <2>6 DEF LifeStep
<1>5. CASE Outside \/ UNCHANGED vars
  <2>1. UNCHANGED <<block, turn, life, remembered, status, unresolved, masked>>
    BY <1>5 DEF Outside, OutsideTakes, OutsideReleases, vars, queue, told
  <2> QED BY <1>1, <2>1
<1> QED BY <1>2, <1>3, <1>4, <1>5, Steps

(***************************************************************************)
(* The theorems                                                            *)
(***************************************************************************)
LEMMA IInvStep == IInv /\ [Next]_vars => IInv'
<1> SUFFICES ASSUME IInv, [Next]_vars PROVE IInv' OBVIOUS
<1>1. TypeOK' BY Steps, AsideTypes, TurnTypes, LifeTypes DEF IInv
<1>2. TurnInv' /\ LeaseInv' /\ CommitInv' /\ AskedInv' /\ QuietInv' /\ LastInv' /\ RemoteInv'
  BY KeepsTurnInv, KeepsLeaseInv, KeepsCommitInv, KeepsAskedInv, KeepsQuietInv, KeepsLastInv, KeepsRemoteInv
<1> QED BY <1>1, <1>2 DEF IInv

LEMMA Inductive == Spec => []IInv
<1>1. Init => IInv BY InitIInv
<1>2. IInv /\ [Next]_vars => IInv' BY IInvStep
<1> QED BY <1>1, <1>2, PTL DEF Spec

\* The state keeps its shape, and the checkout's lock is held for exactly one
\* owner, a tracked entry or the turn under way, however a turn's end
\* (keep_checkout_lease) and a disable (deactivate) fall.
THEOREM LeaseIsOwned == Spec => []LeaseHasOwner
<1>1. IInv => LeaseHasOwner BY DEF IInv, LeaseInv, LeaseHasOwner
<1> QED BY <1>1, Inductive, PTL

\* A saved note that is not in the history is owed a Commit turn (by an intent,
\* the cooldown, its reminder, the queue or the turn under way), or its debt was
\* dropped where the code drops it.
THEOREM CommitsAreOwed == Spec => []CommitOwed
<1>1. IInv => CommitOwed BY DEF IInv, CommitInv
<1> QED BY <1>1, Inductive, PTL

\* A remote failure is in the Vault's Git status exactly until a sync succeeds,
\* through commits, edits, disables and restarts, unless it is masked.
THEOREM RemoteFailureStands == Spec => []RemoteFailureShown
<1>1. IInv => RemoteFailureShown BY DEF IInv, RemoteInv, RemoteFailureShown
<1> QED BY <1>1, Inductive, PTL

\* When record_outcome arms a backoff, no turn of the tick or of an activation
\* waits that would run at once.
THEOREM BackoffHolds == Spec => BackoffIsHonoured
<1> DEFINE Honoured == entry'.wait = "backoff" /\ entry' # entry /\ turn.stage = "published"
                       => "tick" \notin asked' /\ "activation" \notin asked'
<1>1. ASSUME IInv, Next, entry'.wait = "backoff", entry' # entry, turn.stage = "published"
      PROVE  "tick" \notin asked' /\ "activation" \notin asked'
  <2>0. turn.kind = "Git" /\ asked \subseteq {"user"} BY <1>1 DEF IInv, TurnInv, AskedInv
  <2>1. ~Aside /\ ~Outside
    <3>1. Aside => UNCHANGED entry BY AsideLeaves
    <3>2. Outside => UNCHANGED entry BY DEF Outside, OutsideTakes, OutsideReleases
    <3> QED BY <1>1, <3>1, <3>2
  <2>2. CASE TurnStep
    <3>1. UNCHANGED asked
      BY <1>1, <2>2 DEF TurnStep, Starts, Runs, StartTurn, OpenRetired, OpenTurn, TakeLease, RunRevoked,
         RunTurn, KeepLease, PublishGit, RecordOutcome, FinishCommit
    <3> QED BY <2>0, <3>1
  <2>3. CASE LifeStep
    <3>1. entry' \in {entry, Activated, Untracked}
      BY <2>3 DEF LifeStep, SyncNow, Start, Activate, Republish, Edit, Disable, Enable, Restart, Deactivated
    <3>2. Activated = entry \/ Activated.wait # "backoff"
      BY DEF Activated, Restored, Untracked
    <3> QED BY <1>1, <3>1, <3>2 DEF Untracked
  <2>4. CASE UNCHANGED vars BY <1>1, <2>4 DEF vars
  <2> QED BY <1>1, <2>1, <2>2, <2>3, <2>4, Steps
<1>2. IInv /\ [Next]_vars => [Honoured]_vars BY <1>1
<1> HIDE DEF Honoured
<1>3. Spec => [][Honoured]_vars BY <1>2, Inductive, PTL DEF Spec
<1> QED BY <1>3 DEF BackoffIsHonoured, Honoured

-----------------------------------------------------------------------------
(***************************************************************************)
(* ManagedSync: the inductive invariant                                    *)
(***************************************************************************)
Quiet == {"prepare", "fetch", "reprepare", "integrate", "checkout", "forward", "merge",
          "settle", "offer", "push"}
Merge == {"merge_files", "merge_commit", "merge_clean", "abort", "abort_reset", "abort_hard"}

Id == 1 .. Len(commits)
AnyCommit == [tree : [File -> Content], anc : SUBSET Nat]
AnyTurn == [kind : TurnKind, step : Quiet \cup Merge, attempt : {1, 2}, offer : Nat,
            index : [File -> Content] \cup {<<>>}]

\* The commits and the branches; the files; the turn.
CommitShape ==
  /\ commits \in Seq(AnyCommit)
  /\ head \in Id /\ tracking \in Id /\ remote \in Id /\ recovery \in {0} \cup Id
FileShape ==
  /\ disk \in [File -> Content] /\ saved \in [File -> Content] /\ trampled \in SUBSET File
  /\ saves \in 0 .. MaxSaves /\ others \in 0 .. MaxOthers
TurnShape ==
  /\ mode \in {"PullOnly", "TwoWay"} /\ merging \in BOOLEAN /\ conflicted \in BOOLEAN
  /\ running \in AnyTurn \cup {NotRunning}
  /\ running.offer \in {0} \cup Id
  /\ running.step \in Merge => running.index \in [File -> Content]

\* A commit is reached from itself, and from whatever its ancestors are.
GraphInv ==
  \A c \in Id : /\ Anc(c) \in SUBSET Id /\ c \in Anc(c)
                /\ \A p \in Anc(c) : Anc(p) \subseteq Anc(c)

Shape == CommitShape /\ FileShape /\ TurnShape /\ GraphInv

\* The branches are behind one another as the steps rely on.
RefInv ==
  /\ tracking \in Anc(remote)
  /\ running.step \in {"checkout", "forward"} => head \in Anc(tracking)
  /\ running.step = "push" => running.offer = 0 \/ running.offer \in Anc(head)
  /\ running # NotRunning => result = "none"

\* Where the repository says that it merges, and where the files may say so.
Marked == \E f \in File : disk[f] = Markers
FenceInv ==
  /\ running.step \in Quiet => ~merging
  /\ running.step \in Merge => merging
  /\ running.step \in {"merge_files", "merge_commit", "merge_clean", "abort_reset"} => ~Marked
  /\ running.step = "merge_commit" => Conflicts = {}
  /\ running.step = "abort" => \A f \in File : disk[f] = Markers => f \in MergeWrites
  /\ Marked => merging
  /\ \A c \in Id : \A f \in File : Tree(c)[f] # Markers

\* What was written before the next save: in every commit, in the files and in a
\* merge's index.
Old == {v \in Content : v[1] = "ours" => v[2] <= saves}
OldInv ==
  /\ \A f \in File : disk[f] \in Old
  /\ \A c \in Id : \A f \in File : Tree(c)[f] \in Old
  /\ running.step \in Merge => \A f \in File : running.index[f] \in Old

Kept(f) == \E c \in Anc(head) : saved[f] = Tree(c)[f]
SaveInv ==
  /\ SavesSurvive
  /\ running.step = "abort" =>
       \A f \in MergeWrites \ trampled : disk[f] = running.index[f] => Kept(f)

(***************************************************************************)
(* Contents                                                                *)
(***************************************************************************)
LEMMA Contents ==
  /\ Original \in Content /\ Markers \in Content /\ Original # Markers
  /\ \A n \in 1 .. MaxSaves : <<"ours", n>> \in Content /\ <<"ours", n>> # Markers
  /\ \A n \in 1 .. MaxOthers : <<"theirs", n>> \in Content /\ <<"theirs", n>> # Markers
BY DEF Content, Original, Markers

LEMMA NextSave ==
  ASSUME FileShape, saves < MaxSaves
  PROVE  <<"ours", saves + 1>> \in Content /\ <<"ours", saves + 1>> # Markers
<1>1. saves + 1 \in 1 .. MaxSaves
  BY SyncAssumption DEF FileShape
<1>. QED  BY <1>1, Contents

LEMMA NextPush ==
  ASSUME FileShape, others < MaxOthers
  PROVE  <<"theirs", others + 1>> \in Content /\ <<"theirs", others + 1>> # Markers
<1>1. others + 1 \in 1 .. MaxOthers
  BY SyncAssumption DEF FileShape
<1>. QED  BY <1>1, Contents

(***************************************************************************)
(* A commit                                                                *)
(***************************************************************************)
LEMMA Committed ==
  ASSUME Shape,
         NEW tree \in [File -> Content], NEW parents \in SUBSET Id,
         commits' = NewCommit(tree, parents)
  PROVE  /\ NewId \in Nat /\ NewId \notin Id /\ NewId # 0
         /\ Id' = Id \cup {NewId}
         /\ \A c \in Id : commits'[c] = commits[c]
         /\ commits'[NewId].tree = tree
         /\ commits'[NewId].anc = {NewId} \cup UNION {Anc(p) : p \in parents}
         /\ commits' \in Seq(AnyCommit)
         /\ GraphInv'
<1>. DEFINE above == UNION {Anc(p) : p \in parents}
            a == {Len(commits) + 1} \cup above
            c0 == [tree |-> tree, anc |-> a]
<1>1. commits \in Seq(AnyCommit) /\ Len(commits) \in Nat
  BY DEF Shape, CommitShape
<1>2. \A p \in parents : Anc(p) \in SUBSET Id
  BY DEF Shape, GraphInv
<1>a. \A x : x \in above <=> \E p \in parents : x \in Anc(p)
  OBVIOUS
<1>. HIDE DEF above
<1>b. \A x : x \in a <=> x = Len(commits) + 1 \/ \E p \in parents : x \in Anc(p)
  BY <1>a
<1>. HIDE DEF a
<1>3. a \in SUBSET (1 .. Len(commits) + 1) /\ a \in SUBSET Nat
  <2>1. ASSUME NEW x \in a
        PROVE  x \in 1 .. Len(commits) + 1 /\ x \in Nat
    BY <1>1, <1>2, <1>b DEF Id
  <2>. QED  BY <2>1
<1>4. c0 \in AnyCommit
  BY <1>3 DEF AnyCommit
<1>5. commits' = Append(commits, c0)
  BY DEF NewCommit, c0, a, above
<1>. HIDE DEF c0
<1>6. /\ commits' \in Seq(AnyCommit) /\ Len(commits') = Len(commits) + 1
      /\ \A c \in 1 .. Len(commits) : commits'[c] = commits[c]
      /\ commits'[Len(commits) + 1] = c0
  BY <1>1, <1>4, <1>5
<1>7. Id' = Id \cup {NewId} /\ NewId \notin Id /\ NewId \in Nat /\ NewId # 0
  BY <1>1, <1>6 DEF Id, NewId
<1>8. c0.tree = tree /\ c0.anc = a
  BY DEF c0
<1>9. \A c \in Id : commits'[c] = commits[c] /\ c # 0
  BY <1>6, <1>1 DEF Id
<1>10. commits'[NewId].tree = tree /\ commits'[NewId].anc = a
  BY <1>6, <1>8 DEF NewId
<1>11. ASSUME NEW c \in Id
       PROVE  commits'[c].anc = Anc(c) /\ Anc(c) \in SUBSET Id /\ c \in Anc(c)
              /\ (\A p \in Anc(c) : Anc(p) \subseteq Anc(c))
  BY <1>9 DEF Anc, Shape, GraphInv
<1>. DEFINE next(c) == IF c = 0 THEN {} ELSE commits'[c].anc
<1>12. \A c \in Id : next(c) = Anc(c)
  BY <1>9, <1>11
<1>13. /\ next(NewId) = a
       /\ \A x : x \in a <=> x = NewId \/ \E p \in parents : x \in Anc(p)
       /\ a = {NewId} \cup UNION {Anc(p) : p \in parents}
  BY <1>7, <1>10, <1>b DEF NewId, a, above
<1>. HIDE DEF next
<1>14. ASSUME NEW c \in Id
       PROVE  next(c) \in SUBSET Id' /\ c \in next(c) /\ (\A p \in next(c) : next(p) \subseteq next(c))
  BY <1>7, <1>11, <1>12
<1>15. next(NewId) \in SUBSET Id' /\ NewId \in next(NewId)
  BY <1>2, <1>7, <1>13
<1>16. ASSUME NEW p \in next(NewId)
       PROVE  next(p) \subseteq next(NewId)
  <2>1. CASE p = NewId
    BY <2>1
  <2>2. CASE p # NewId
    <3>1. PICK q \in parents : p \in Anc(q)
      BY <1>13, <2>2
    <3>2. p \in Id /\ Anc(p) \subseteq Anc(q)
      BY <3>1, <1>11
    <3>. QED  BY <3>1, <3>2, <1>12, <1>13
  <2>. QED  BY <2>1, <2>2
<1>17. GraphInv'
  <2>1. \A c \in Id' : /\ next(c) \in SUBSET Id' /\ c \in next(c)
                       /\ \A p \in next(c) : next(p) \subseteq next(c)
    BY <1>7, <1>14, <1>15, <1>16
  <2>. QED  BY <2>1 DEF next, GraphInv, Anc
<1>. QED  BY <1>6, <1>7, <1>9, <1>10, <1>13, <1>17

(***************************************************************************)
(* The turn's record                                                       *)
(***************************************************************************)
LEMMA Stopped ==
  /\ NotRunning.kind = "none" /\ NotRunning.step = "none" /\ NotRunning.offer = 0
  /\ NotRunning.attempt = 0 /\ NotRunning.index = <<>>
  /\ NotRunning.step \notin Quiet \cup Merge
BY DEF NotRunning, Quiet, Merge

LEMMA AtWork ==
  ASSUME TurnShape
  PROVE  /\ running.step # "none" => running \in AnyTurn
         /\ running # NotRunning => running \in AnyTurn
         /\ running \in AnyTurn => /\ running.step \in Quiet \cup Merge /\ running # NotRunning
                                   /\ running.kind \in TurnKind /\ running.attempt \in {1, 2}
                                   /\ running.offer \in Nat
BY Stopped DEF TurnShape, AnyTurn

LEMMA Goes ==
  ASSUME running \in AnyTurn, NEW s \in Quiet \cup Merge,
         running' = [running EXCEPT !.step = s]
  PROVE  /\ running' \in AnyTurn /\ running'.step = s
         /\ running'.kind = running.kind /\ running'.attempt = running.attempt
         /\ running'.offer = running.offer /\ running'.index = running.index
BY DEF AnyTurn

LEMMA Apart == Quiet \cap Merge = {}
BY DEF Quiet, Merge

LEMMA GoesOn ==
  ASSUME TurnShape, Id \subseteq Id', mode' = mode, merging' \in BOOLEAN,
         NEW s \in Quiet \cup Merge, running.step # "none",
         s \in Merge => running.step \in Merge,
         GoTo(s)
  PROVE  TurnShape' /\ running'.step = s /\ running \in AnyTurn /\ running' \in AnyTurn
<1>1. running \in AnyTurn
  BY AtWork
<1>2. /\ running' = [running EXCEPT !.step = s] /\ conflicted' = conflicted
  BY DEF GoTo
<1>3. /\ running' \in AnyTurn /\ running'.step = s
      /\ running'.offer = running.offer /\ running'.index = running.index
  BY <1>1, <1>2, Goes
<1>. QED  BY <1>1, <1>2, <1>3 DEF TurnShape

LEMMA Ends ==
  ASSUME TurnShape, mode' \in {"PullOnly", "TwoWay"}, merging' \in BOOLEAN, NEW r, End(r)
  PROVE  TurnShape' /\ running' = NotRunning /\ result' = r
<1>1. running' = NotRunning /\ result' = r /\ conflicted' \in BOOLEAN
  BY DEF End, TurnShape
<1>2. running'.offer = 0 /\ running'.step \notin Merge
  BY <1>1, Stopped
<1>. QED  BY <1>1, <1>2 DEF TurnShape

LEMMA SameTurn ==
  ASSUME TurnShape, Id \subseteq Id', mode' \in {"PullOnly", "TwoWay"},
         UNCHANGED <<merging, conflicted, running>>
  PROVE  TurnShape'
BY DEF TurnShape

\* What follows the worktree's preparation.
LEMMA Prepared ==
  ASSUME TurnShape, Id \subseteq Id', mode' = mode, merging' = merging, running.step = "prepare",
         AfterPrepare
  PROVE  /\ TurnShape'
         /\ \/ running' = NotRunning /\ result' = "committed"
            \/ running'.step \in {"offer", "fetch"} /\ result' = result /\ running' \in AnyTurn
<1>1. merging' \in BOOLEAN /\ mode' \in {"PullOnly", "TwoWay"} /\ running.step # "none"
  BY DEF TurnShape
<1>2. CASE End("committed")
  BY <1>1, <1>2, Ends
<1>3. ASSUME NEW s \in {"offer", "fetch"}, GoTo(s)
      PROVE  TurnShape' /\ running'.step = s /\ result' = result /\ running' \in AnyTurn
  <2>1. s \in Quiet \cup Merge /\ s \notin Merge
    BY DEF Quiet, Merge
  <2>2. TurnShape' /\ running'.step = s /\ running' \in AnyTurn
    BY <1>1, <1>3, <2>1, GoesOn
  <2>. QED  BY <1>3, <2>2 DEF GoTo
<1>. QED  BY <1>2, <1>3 DEF AfterPrepare

(***************************************************************************)
(* What a step may do to the commits                                       *)
(***************************************************************************)
Makes == \E tree \in [File -> Content] : \E parents \in SUBSET Id :
           commits' = NewCommit(tree, parents)
More == /\ commits' \in Seq(AnyCommit) /\ GraphInv' /\ Id \subseteq Id'
        /\ \A c \in Id : Tree(c)' = Tree(c) /\ Anc(c)' = Anc(c)

LEMMA Growth ==
  ASSUME Shape, UNCHANGED commits \/ Makes
  PROVE  More
<1>1. CASE UNCHANGED commits
  BY <1>1 DEF More, Shape, CommitShape, GraphInv, Id, Tree, Anc
<1>2. CASE Makes
  <2>1. PICK tree \in [File -> Content] : \E parents \in SUBSET Id :
               commits' = NewCommit(tree, parents)
    BY <1>2 DEF Makes
  <2>2. PICK parents \in SUBSET Id : commits' = NewCommit(tree, parents)
    BY <2>1
  <2>3. /\ Id \subseteq Id' /\ commits' \in Seq(AnyCommit) /\ GraphInv'
        /\ \A c \in Id : commits'[c] = commits[c]
    BY <2>2, Committed
  <2>. QED  BY <2>3 DEF More, Tree, Anc
<1>. QED  BY <1>1, <1>2

LEMMA Trees ==
  ASSUME Shape, NEW c \in Id
  PROVE  Tree(c) \in [File -> Content] /\ c # 0 /\ Anc(c) = commits[c].anc
<1>1. commits[c] \in AnyCommit
  BY DEF Shape, CommitShape, Id
<1>2. c # 0
  BY DEF Shape, CommitShape, Id
<1>. QED  BY <1>1, <1>2 DEF AnyCommit, Tree, Anc

LEMMA Ancestry ==
  ASSUME Shape, NEW c \in Id
  PROVE  /\ Anc(c) \in SUBSET Id /\ c \in Anc(c)
         /\ \A p \in Anc(c) : p \in Id /\ Anc(p) \subseteq Anc(c)
BY DEF Shape, GraphInv

LEMMA Merges ==
  ASSUME Shape, NEW b \in Id
  PROVE  /\ MergeFrom(b) \in [File -> Content]
         /\ \A f \in File : MergeFrom(b)[f] \in {Tree(head)[f], Tree(tracking)[f], Markers}
<1>1. head \in Id /\ tracking \in Id
  BY DEF Shape, CommitShape
<1>2. Tree(head) \in [File -> Content] /\ Tree(tracking) \in [File -> Content]
  BY <1>1, Trees
<1>. QED  BY <1>2, Contents DEF MergeFrom

LEMMA BaseIsKnown == Shape => Bases \in SUBSET Id
<1>. SUFFICES ASSUME Shape
              PROVE  Bases \in SUBSET Id
  OBVIOUS
<1>1. head \in Id
  BY DEF Shape, CommitShape
<1>2. Anc(head) \in SUBSET Id
  BY <1>1, Ancestry
<1>. QED  BY <1>2 DEF Bases

LEMMA MakesOrNot == Shape /\ [SyncNext]_syncVars => UNCHANGED commits \/ Makes
<1>. SUFFICES ASSUME Shape, [SyncNext]_syncVars
              PROVE  UNCHANGED commits \/ Makes
  OBVIOUS
<1>r. /\ head \in Id /\ tracking \in Id /\ remote \in Id
      /\ recovery \in {0} \cup Id /\ disk \in [File -> Content]
  BY DEF Shape, CommitShape, FileShape
<1>1. ASSUME Prepare \/ Reprepare
      PROVE  UNCHANGED commits \/ Makes
  <2>1. UNCHANGED commits \/ commits' = NewCommit(disk, {head})
    BY <1>1 DEF Prepare, Reprepare
  <2>2. {head} \in SUBSET Id
    BY <1>r
  <2>. QED  BY <1>r, <2>1, <2>2 DEF Makes
<1>2. CASE CommitMerge
  <2>1. commits' = NewCommit(running.index, {head, tracking})
    BY <1>2 DEF CommitMerge
  <2>2. running.index \in [File -> Content]
    BY <1>2 DEF CommitMerge, Shape, TurnShape, Merge
  <2>3. {head, tracking} \in SUBSET Id
    BY <1>r
  <2>. QED  BY <2>1, <2>2, <2>3 DEF Makes
<1>3. ASSUME NEW f \in File, OthersPush(f)
      PROVE  UNCHANGED commits \/ Makes
  <2>. DEFINE tree == [Tree(remote) EXCEPT ![f] = <<"theirs", others + 1>>]
  <2>1. commits' = NewCommit(tree, {remote}) /\ others < MaxOthers
    BY <1>3 DEF OthersPush, Others
  <2>2. tree \in [File -> Content]
    BY <2>1, <1>r, Trees, NextPush DEF Shape
  <2>3. {remote} \in SUBSET Id
    BY <1>r
  <2>. HIDE DEF tree
  <2>. QED  BY <2>1, <2>2, <2>3 DEF Makes
<1>4. ASSUME NEW f \in File, OthersResolve(f)
      PROVE  UNCHANGED commits \/ Makes
  <2>1. recovery \in Id /\ others < MaxOthers /\ <<"theirs", others + 1>> \in Content
    BY <1>4, <1>r, NextPush DEF OthersResolve, Others, Shape
  <2>2. Tree(remote) \in [File -> Content] /\ Tree(recovery) \in [File -> Content]
    BY <1>r, <2>1, Trees
  <2>. DEFINE adds == [Tree(recovery) EXCEPT ![f] = <<"theirs", others + 1>>]
              joins == [g \in File |-> IF Tree(remote)[g] = Tree(recovery)[g]
                                       THEN Tree(remote)[g] ELSE <<"theirs", others + 1>>]
  <2>3. commits' = NewCommit(adds, {recovery}) \/ commits' = NewCommit(joins, {remote, recovery})
    BY <1>4 DEF OthersResolve
  <2>4. adds \in [File -> Content] /\ joins \in [File -> Content]
    BY <2>1, <2>2
  <2>5. {recovery} \in SUBSET Id /\ {remote, recovery} \in SUBSET Id
    BY <1>r, <2>1
  <2>. HIDE DEF adds, joins
  <2>. QED  BY <2>3, <2>4, <2>5 DEF Makes
<1>5. ASSUME \/ Fetch \/ Compare \/ Checkout \/ MoveBranch \/ BeginMerge \/ WriteMerge
             \/ CleanMerge \/ RestoreFiles \/ ResetIndex \/ ResetHard \/ CompareAgain \/ Offer
             \/ Push \/ SwitchMode \/ Crash \/ UNCHANGED syncVars
      PROVE  UNCHANGED commits
  BY <1>5 DEF Fetch, Compare, Checkout, MoveBranch, BeginMerge, WriteMerge, CleanMerge,
    RestoreFiles, ResetIndex, ResetHard, CompareAgain, Offer, Push, SwitchMode, Crash,
    syncVars, refs
<1>6. ASSUME \/ \E f \in File : Save(f)
             \/ \E kind \in TurnKind : BeginTurn(kind)
      PROVE  UNCHANGED commits
  BY <1>6 DEF Save, BeginTurn, refs
<1>. QED  BY <1>1, <1>2, <1>3, <1>4, <1>5, <1>6 DEF SyncNext, Turning, Foreign

\* A commit on `parents': what it is reached from and where the others stay.
LEMMA Lands ==
  ASSUME Shape, NEW tree \in [File -> Content], NEW parents \in SUBSET Id,
         commits' = NewCommit(tree, parents)
  PROVE  /\ NewId \in Id' /\ NewId \notin Id /\ NewId # 0
         /\ commits'[NewId].tree = tree
         /\ NewId \in commits'[NewId].anc
         /\ \A p \in parents : Anc(p) \subseteq commits'[NewId].anc
         /\ \A x \in commits'[NewId].anc : x = NewId \/ \E p \in parents : x \in Anc(p)
         /\ Id' = Id \cup {NewId}
BY Committed

\* The commit of a worktree that is prepared, or none.
LEMMA Drifts ==
  ASSUME Shape, Prepare \/ Reprepare
  PROVE  \/ UNCHANGED <<commits, head>>
         \/ /\ commits' = NewCommit(disk, {head}) /\ head' = NewId
            /\ disk \in [File -> Content] /\ {head} \in SUBSET Id
            /\ mode = "TwoWay"
<1>1. mode \in {"PullOnly", "TwoWay"} /\ head \in Id /\ disk \in [File -> Content]
  BY DEF Shape, CommitShape, FileShape, TurnShape
<1>2. CASE Prepare
  BY <1>1, <1>2 DEF Prepare
<1>3. CASE Reprepare
  BY <1>1, <1>3 DEF Reprepare
<1>. QED  BY <1>2, <1>3

LEMMA KeepsCommits == Shape /\ [SyncNext]_syncVars => CommitShape' /\ More
<1>. SUFFICES ASSUME Shape, [SyncNext]_syncVars
              PROVE  CommitShape' /\ More
  OBVIOUS
<1>m. /\ More /\ Id \subseteq Id' /\ commits' \in Seq(AnyCommit)
  BY MakesOrNot, Growth DEF More
<1>r. /\ head \in Id /\ tracking \in Id /\ remote \in Id
      /\ recovery \in {0} \cup Id /\ disk \in [File -> Content]
  BY DEF Shape, CommitShape, FileShape
<1>. SUFFICES head' \in Id' /\ tracking' \in Id' /\ remote' \in Id' /\ recovery' \in {0} \cup Id'
  BY <1>m DEF CommitShape
<1>1. ASSUME Prepare \/ Reprepare
      PROVE  head' \in Id' /\ UNCHANGED <<tracking, remote, recovery>>
  <2>1. head' = head \/ (head' = NewId /\ NewId \in Id')
    BY <1>1, Drifts, Lands
  <2>2. UNCHANGED <<tracking, remote, recovery>>
    BY <1>1 DEF Prepare, Reprepare
  <2>. QED  BY <2>1, <2>2, <1>r, <1>m
<1>2. ASSUME CommitMerge
      PROVE  head' \in Id' /\ UNCHANGED <<tracking, remote, recovery>>
  <2>1. /\ commits' = NewCommit(running.index, {head, tracking}) /\ head' = NewId
        /\ UNCHANGED <<tracking, remote, recovery>>
    BY <1>2 DEF CommitMerge
  <2>2. running.index \in [File -> Content]
    BY <1>2 DEF CommitMerge, Shape, TurnShape, Merge
  <2>3. {head, tracking} \in SUBSET Id
    BY <1>r
  <2>. QED  BY <2>1, <2>2, <2>3, Lands
<1>3. ASSUME NEW f \in File, OthersPush(f) \/ OthersResolve(f)
      PROVE  /\ remote' \in {remote, NewId} /\ recovery' \in {recovery, NewId} /\ NewId \in Id'
             /\ UNCHANGED <<head, tracking>>
  <2>1. /\ remote' \in {remote, NewId} /\ recovery' \in {recovery, NewId}
        /\ UNCHANGED <<head, tracking>>
        /\ \E tree, parents : commits' = NewCommit(tree, parents)
    BY <1>3 DEF OthersPush, OthersResolve
  <2>2. Len(commits') = Len(commits) + 1 /\ Len(commits) \in Nat
    BY <2>1 DEF NewCommit, Shape, CommitShape
  <2>3. NewId \in Id'
    BY <2>2 DEF NewId, Id
  <2>. QED  BY <2>1, <2>3
<1>4. CASE Fetch
  BY <1>4, <1>r, <1>m DEF Fetch
<1>5. CASE MoveBranch
  BY <1>5, <1>r, <1>m DEF MoveBranch
<1>6. CASE Push
  BY <1>6, <1>r, <1>m DEF Push, Landed
<1>7. ASSUME \/ Compare \/ Checkout \/ BeginMerge \/ WriteMerge
             \/ CleanMerge \/ RestoreFiles \/ ResetIndex \/ ResetHard \/ CompareAgain \/ Offer
             \/ SwitchMode \/ Crash \/ UNCHANGED syncVars
      PROVE  UNCHANGED <<head, tracking, remote, recovery>>
  BY <1>7 DEF Compare, Checkout, BeginMerge, WriteMerge, CleanMerge,
    RestoreFiles, ResetIndex, ResetHard, CompareAgain, Offer, SwitchMode, Crash, syncVars, refs
<1>8. ASSUME \/ \E f \in File : Save(f)
             \/ \E kind \in TurnKind : BeginTurn(kind)
      PROVE  UNCHANGED <<head, tracking, remote, recovery>>
  BY <1>8 DEF Save, BeginTurn, refs
<1>. QED
  BY <1>r, <1>m, <1>1, <1>2, <1>3, <1>4, <1>5, <1>6, <1>7, <1>8 DEF SyncNext, Turning, Foreign

(***************************************************************************)
(* Types                                                                   *)
(***************************************************************************)
LEMMA WritesTree ==
  ASSUME Shape, NEW files \in SUBSET File, NEW tree \in [File -> Content]
  PROVE  /\ Written(files, tree) \in [File -> Content]
         /\ \A f \in File : Written(files, tree)[f] = IF f \in files THEN tree[f] ELSE disk[f]
BY DEF Written, Shape, FileShape

\* What a process that dies may have been writing.
LEMMA Dying ==
  ASSUME Shape, running # NotRunning
  PROVE  BeingWritten \in [File -> Content] /\ Unwritten \in SUBSET File
<1>1. Tree(tracking) \in [File -> Content] /\ Tree(head) \in [File -> Content]
  BY Trees DEF Shape, CommitShape
<1>2. running.step = "merge_files" => running.index \in [File -> Content]
  BY DEF Shape, TurnShape, Merge
<1>3. Differing(tracking) \in SUBSET File /\ MergeWrites \in SUBSET File
  BY DEF Differing, MergeWrites
<1>. QED  BY <1>1, <1>2, <1>3 DEF BeingWritten, Unwritten, PutBack

LEMMA KeepsFiles == Shape /\ [SyncNext]_syncVars => FileShape'
<1>. SUFFICES ASSUME Shape, [SyncNext]_syncVars
              PROVE  FileShape'
  OBVIOUS
<1>f. FileShape
  BY DEF Shape
<1>r. /\ head \in Id /\ tracking \in Id
      /\ Tree(head) \in [File -> Content] /\ Tree(tracking) \in [File -> Content]
  BY Trees DEF Shape, CommitShape
<1>1. CASE Checkout
  <2>1. Differing(tracking) \in SUBSET File
    BY DEF Differing
  <2>2. /\ disk' = disk \/ disk' = Written(Differing(tracking), Tree(tracking))
        /\ UNCHANGED <<saved, trampled, saves, others>>
    BY <1>1 DEF Checkout, history, counts
  <2>3. disk' \in [File -> Content]
    BY <2>1, <2>2, <1>f, <1>r, WritesTree DEF FileShape
  <2>. QED  BY <2>2, <2>3, <1>f DEF FileShape
<1>2. CASE WriteMerge
  <2>1. MergeWrites \in SUBSET File /\ running.index \in [File -> Content]
    BY <1>2 DEF MergeWrites, WriteMerge, Shape, TurnShape, Merge
  <2>2. /\ disk' = disk \/ disk' = Written(MergeWrites, running.index)
        /\ UNCHANGED <<saved, trampled, saves, others>>
    BY <1>2 DEF WriteMerge, history, counts
  <2>3. disk' \in [File -> Content]
    BY <2>1, <2>2, <1>f, WritesTree DEF FileShape
  <2>. QED  BY <2>2, <2>3, <1>f DEF FileShape
<1>3. CASE RestoreFiles
  <2>1. MergeWrites \in SUBSET File
    BY DEF MergeWrites
  <2>2. /\ \/ /\ disk' = Written(MergeWrites, Tree(head))
              /\ trampled' = trampled \cup {f \in MergeWrites : disk[f] # running.index[f]}
           \/ UNCHANGED <<disk, trampled>>
        /\ UNCHANGED <<saved, saves, others>>
    BY <1>3 DEF RestoreFiles, PutBack, Faulty, counts
  <2>3. disk' \in [File -> Content]
    BY <2>1, <2>2, <1>f, <1>r, WritesTree DEF FileShape
  <2>4. trampled' \in SUBSET File
    BY <2>1, <2>2, <1>f DEF FileShape
  <2>. QED  BY <2>2, <2>3, <2>4, <1>f DEF FileShape
<1>4. CASE ResetHard
  <2>1. /\ UNCHANGED <<disk, trampled>> \/ (disk' = Tree(head) /\ trampled' = trampled \cup Dirty)
        /\ UNCHANGED <<saved, saves, others>>
    BY <1>4 DEF ResetHard, Faulty, counts
  <2>2. disk' \in [File -> Content] /\ trampled' \in SUBSET File
    BY <2>1, <1>f, <1>r DEF Dirty, FileShape
  <2>. QED  BY <2>1, <2>2, <1>f DEF FileShape
<1>5. CASE Crash
  <2>1. running # NotRunning
    BY <1>5 DEF Crash
  <2>2. PICK files \in SUBSET Unwritten :
          /\ disk' = Written(files, BeingWritten)
          /\ trampled' = IF running.step # "abort" THEN trampled
                         ELSE trampled \cup {f \in files : disk[f] # running.index[f]}
    BY <1>5 DEF Crash
  <2>3. files \in SUBSET File /\ BeingWritten \in [File -> Content]
    BY <2>1, Dying
  <2>4. disk' \in [File -> Content]
    BY <2>2, <2>3, WritesTree
  <2>5. trampled' \in SUBSET File
    BY <2>2, <2>3, <1>f DEF FileShape
  <2>6. UNCHANGED <<saved, saves, others>>
    BY <1>5 DEF Crash, Faulty
  <2>. QED  BY <2>4, <2>5, <2>6, <1>f DEF FileShape
<1>6. ASSUME NEW f \in File, Save(f)
      PROVE  FileShape'
  <2>1. /\ saves < MaxSaves /\ saves' = saves + 1 /\ others' = others
        /\ disk' = [disk EXCEPT ![f] = <<"ours", saves + 1>>]
        /\ saved' = [saved EXCEPT ![f] = <<"ours", saves + 1>>]
        /\ trampled' = trampled \ {f}
    BY <1>6 DEF Save
  <2>2. <<"ours", saves + 1>> \in Content
    BY <2>1, <1>f, NextSave
  <2>3. saves' \in 0 .. MaxSaves
    BY <2>1, <1>f, SyncAssumption DEF FileShape
  <2>. QED  BY <2>1, <2>2, <2>3, <1>f DEF FileShape
<1>7. ASSUME Others, UNCHANGED <<disk, saved, trampled>>
      PROVE  FileShape'
  <2>1. others' \in 0 .. MaxOthers /\ saves' = saves
    BY <1>7, <1>f, SyncAssumption DEF FileShape, Others
  <2>. QED  BY <1>7, <2>1, <1>f DEF FileShape
<1>8. ASSUME SwitchMode \/ \E f \in File : OthersPush(f) \/ OthersResolve(f)
      PROVE  FileShape'
  <2>1. Others /\ UNCHANGED <<disk, saved, trampled>>
    BY <1>8 DEF SwitchMode, OthersPush, OthersResolve, history
  <2>. QED  BY <2>1, <1>7
<1>9. ASSUME \/ Prepare \/ Reprepare \/ Compare \/ MoveBranch \/ BeginMerge \/ CommitMerge
             \/ CleanMerge \/ ResetIndex \/ CompareAgain \/ UNCHANGED syncVars
             \/ \E kind \in TurnKind : BeginTurn(kind)
      PROVE  UNCHANGED <<disk, saved, trampled, saves, others>>
  BY <1>9 DEF Prepare, Reprepare, Compare, MoveBranch, BeginMerge, CommitMerge, CleanMerge,
    ResetIndex, Faulty, CompareAgain, BeginTurn, syncVars, refs, history, counts
<1>10. ASSUME Fetch \/ Offer \/ Push
       PROVE  UNCHANGED <<disk, saved, trampled, saves, others>>
  BY <1>10 DEF Fetch, Offer, Push, Faulty, history, counts
<1>11. UNCHANGED <<disk, saved, trampled, saves, others>> => FileShape'
  BY <1>f DEF FileShape
<1>. QED
  BY <1>1, <1>2, <1>3, <1>4, <1>5, <1>6, <1>8, <1>9, <1>10, <1>11 DEF SyncNext, Turning, Foreign

LEMMA KeepsTurn == Shape /\ [SyncNext]_syncVars => TurnShape'
<1>. SUFFICES ASSUME Shape, [SyncNext]_syncVars
              PROVE  TurnShape'
  OBVIOUS
<1>t. TurnShape /\ merging \in BOOLEAN /\ mode \in {"PullOnly", "TwoWay"}
  BY DEF Shape, TurnShape
<1>m. Id \subseteq Id'
  BY KeepsCommits DEF More
<1>s. \A s \in Quiet : s \in Quiet \cup Merge /\ s \notin Merge
  BY Apart
<1>0. ASSUME NEW s \in Quiet, running.step # "none", GoTo(s), UNCHANGED <<mode, merging>>
      PROVE  TurnShape'
  BY <1>0, <1>t, <1>m, <1>s, GoesOn
<1>00. ASSUME NEW r, End(r), mode' = mode, merging' \in BOOLEAN
       PROVE  TurnShape'
  BY <1>00, <1>t, Ends
<1>1. CASE Prepare
  <2>1. UNCHANGED <<mode, merging>> /\ running.step = "prepare" /\ (AfterPrepare \/ End("dirty"))
    BY <1>1 DEF Prepare
  <2>. QED  BY <2>1, <1>t, <1>m, <1>00, Prepared
<1>2. CASE Reprepare
  <2>1. /\ UNCHANGED <<mode, merging>> /\ running.step # "none"
        /\ GoTo("integrate") \/ End("dirty")
    BY <1>2 DEF Reprepare
  <2>2. "integrate" \in Quiet
    BY DEF Quiet
  <2>. QED  BY <2>1, <2>2, <1>0, <1>00, <1>t
<1>3. CASE Fetch
  <2>1. /\ UNCHANGED <<mode, merging>> /\ running.step # "none"
        /\ GoTo("reprepare") \/ End("unreachable")
    BY <1>3 DEF Fetch
  <2>2. "reprepare" \in Quiet
    BY DEF Quiet
  <2>. QED  BY <2>1, <2>2, <1>0, <1>00, <1>t
<1>4. CASE Compare
  <2>1. /\ UNCHANGED <<mode, merging>> /\ running.step # "none"
        /\ \/ End("local_commits") \/ End("synced")
           \/ GoTo("checkout") \/ GoTo("merge") \/ GoTo("settle")
    BY <1>4 DEF Compare
  <2>2. "checkout" \in Quiet /\ "merge" \in Quiet /\ "settle" \in Quiet
    BY DEF Quiet
  <2>. QED  BY <2>1, <2>2, <1>0, <1>00, <1>t
<1>5. CASE Checkout
  <2>1. /\ UNCHANGED <<mode, merging>> /\ running.step # "none"
        /\ GoTo("forward") \/ End("dirty")
    BY <1>5 DEF Checkout
  <2>2. "forward" \in Quiet
    BY DEF Quiet
  <2>. QED  BY <2>1, <2>2, <1>0, <1>00, <1>t
<1>6. CASE MoveBranch
  <2>1. /\ UNCHANGED <<mode, merging>> /\ running.step # "none"
        /\ GoTo("settle") \/ End("synced")
    BY <1>6 DEF MoveBranch
  <2>2. "settle" \in Quiet
    BY DEF Quiet
  <2>. QED  BY <2>1, <2>2, <1>0, <1>00, <1>t
<1>7. CASE BeginMerge
  <2>1. running.step = "merge" /\ merging' = TRUE /\ UNCHANGED <<mode, conflicted>>
    BY <1>7 DEF BeginMerge
  <2>2. PICK b \in Bases :
          running' = [running EXCEPT !.step = "merge_files", !.index = MergeFrom(b)]
    BY <1>7 DEF BeginMerge
  <2>3. MergeFrom(b) \in [File -> Content]
    BY BaseIsKnown, Merges
  <2>4. running \in AnyTurn
    BY <2>1, <1>t, AtWork
  <2>5. "merge_files" \in Quiet \cup Merge
    BY DEF Merge
  <2>6. running' \in AnyTurn /\ running'.index = MergeFrom(b) /\ running'.offer = running.offer
    BY <2>2, <2>3, <2>4, <2>5 DEF AnyTurn
  <2>. QED  BY <2>1, <2>3, <2>6, <1>t, <1>m DEF TurnShape
<1>8. CASE WriteMerge
  <2>1. /\ mode' = mode /\ running.step = "merge_files"
        /\ \/ End("refused") /\ merging' = FALSE
           \/ (GoTo("merge_commit") \/ GoTo("abort")) /\ merging' = merging
    BY <1>8 DEF WriteMerge
  <2>2. /\ "merge_commit" \in Quiet \cup Merge /\ "abort" \in Quiet \cup Merge
        /\ running.step \in Merge
    BY <2>1 DEF Merge
  <2>3. ASSUME NEW s \in Quiet \cup Merge, GoTo(s), merging' = merging
        PROVE  TurnShape'
    BY <2>1, <2>2, <2>3, <1>t, <1>m, GoesOn
  <2>. QED  BY <2>1, <2>2, <2>3, <1>00
<1>9. CASE CommitMerge
  <2>1. UNCHANGED <<mode, merging>> /\ running.step = "merge_commit" /\ GoTo("merge_clean")
    BY <1>9 DEF CommitMerge
  <2>2. "merge_clean" \in Quiet \cup Merge /\ running.step \in Merge
    BY <2>1 DEF Merge
  <2>. QED  BY <2>1, <2>2, <1>t, <1>m, GoesOn
<1>10. CASE CleanMerge
  <2>1. mode' = mode /\ merging' = FALSE /\ running.step # "none" /\ GoTo("settle")
    BY <1>10 DEF CleanMerge
  <2>2. "settle" \in Quiet
    BY DEF Quiet
  <2>. QED  BY <2>1, <2>2, <1>t, <1>m, <1>s, GoesOn
<1>11. CASE RestoreFiles
  <2>1. /\ UNCHANGED <<mode, merging>> /\ running.step = "abort"
        /\ GoTo("abort_reset") \/ GoTo("abort_hard")
    BY <1>11 DEF RestoreFiles
  <2>2. /\ "abort_reset" \in Quiet \cup Merge /\ "abort_hard" \in Quiet \cup Merge
        /\ running.step \in Merge
    BY <2>1 DEF Merge
  <2>. QED  BY <2>1, <2>2, <1>t, <1>m, GoesOn
<1>12. ASSUME ResetIndex \/ ResetHard
       PROVE  TurnShape'
  <2>1. mode' = mode /\ merging' \in BOOLEAN /\ (End("conflict") \/ End("unfinished"))
    BY <1>12, <1>t DEF ResetIndex, ResetHard
  <2>. QED  BY <2>1, <1>00
<1>13. CASE CompareAgain
  <2>1. UNCHANGED <<mode, merging>> /\ running.step # "none" /\ (GoTo("offer") \/ End("synced"))
    BY <1>13 DEF CompareAgain
  <2>2. "offer" \in Quiet
    BY DEF Quiet
  <2>. QED  BY <2>1, <2>2, <1>0, <1>00, <1>t
<1>14. CASE Offer
  <2>1. UNCHANGED <<mode, merging>> /\ running.step = "offer"
    BY <1>14 DEF Offer
  <2>2. running \in AnyTurn
    BY <2>1, <1>t, AtWork
  <2>3. \/ \E r : End(r)
        \/ /\ conflicted' = conflicted
           /\ \/ running' = [running EXCEPT !.step = "push", !.offer = Target]
              \/ running' = [running EXCEPT !.step = "fetch", !.attempt = 2]
    BY <1>14 DEF Offer, Raced
  <2>4. Target \in {0} \cup Id /\ Target \in Nat
    BY DEF Target, Shape, CommitShape, Id
  <2>5. "push" \in Quiet \cup Merge /\ "fetch" \in Quiet \cup Merge
        /\ "push" \notin Merge /\ "fetch" \notin Merge
    BY DEF Quiet, Merge
  <2>6. ASSUME running' = [running EXCEPT !.step = "push", !.offer = Target]
        PROVE  running' \in AnyTurn /\ running'.step = "push" /\ running'.offer = Target
    BY <2>2, <2>4, <2>5, <2>6 DEF AnyTurn
  <2>7. ASSUME running' = [running EXCEPT !.step = "fetch", !.attempt = 2]
        PROVE  running' \in AnyTurn /\ running'.step = "fetch" /\ running'.offer = running.offer
    BY <2>2, <2>5, <2>7 DEF AnyTurn
  <2>. QED  BY <2>1, <2>3, <2>4, <2>5, <2>6, <2>7, <1>00, <1>t, <1>m DEF TurnShape
<1>15. CASE Push
  <2>1. UNCHANGED <<mode, merging>> /\ \E r : End(r)
    BY <1>15 DEF Push
  <2>. QED  BY <2>1, <1>00, <1>t
<1>16. ASSUME NEW kind \in TurnKind, BeginTurn(kind)
       PROVE  TurnShape'
  <2>1. UNCHANGED <<mode, merging>> /\ conflicted' \in BOOLEAN
    BY <1>16, <1>t DEF BeginTurn, TurnShape
  <2>2. \/ UNCHANGED running
        \/ running' = [NotRunning EXCEPT !.kind = kind, !.step = "prepare", !.attempt = 1]
    BY <1>16 DEF BeginTurn
  <2>3. ASSUME running' = [NotRunning EXCEPT !.kind = kind, !.step = "prepare", !.attempt = 1]
        PROVE  running' \in AnyTurn /\ running'.step = "prepare" /\ running'.offer = 0
    BY <2>3 DEF NotRunning, AnyTurn, Quiet
  <2>4. "prepare" \notin Merge
    BY DEF Merge
  <2>. QED  BY <2>1, <2>2, <2>3, <2>4, <1>t, <1>m DEF TurnShape
<1>17. CASE Crash
  <2>1. running' = NotRunning /\ UNCHANGED <<mode, merging, conflicted>>
    BY <1>17 DEF Crash
  <2>. QED  BY <2>1, <1>t, Stopped DEF TurnShape
<1>18. ASSUME \/ SwitchMode \/ UNCHANGED syncVars
              \/ \E f \in File : Save(f) \/ OthersPush(f) \/ OthersResolve(f)
       PROVE  mode' \in {"PullOnly", "TwoWay"} /\ UNCHANGED <<merging, conflicted, running>>
  BY <1>18, <1>t DEF SwitchMode, syncVars, Save, OthersPush, OthersResolve
<1>19. (mode' \in {"PullOnly", "TwoWay"} /\ UNCHANGED <<merging, conflicted, running>>)
         => TurnShape'
  BY <1>t, <1>m, SameTurn
<1>. QED
  BY <1>1, <1>2, <1>3, <1>4, <1>5, <1>6, <1>7, <1>8, <1>9, <1>10, <1>11, <1>12, <1>13, <1>14,
     <1>15, <1>16, <1>17, <1>18, <1>19 DEF SyncNext, Turning, Foreign

LEMMA InitShape == SyncInit => Shape
<1>. SUFFICES ASSUME SyncInit
              PROVE  Shape
  OBVIOUS
<1>. DEFINE c0 == [tree |-> [f \in File |-> Original], anc |-> {1}]
<1>1. c0 \in AnyCommit
  BY Contents DEF AnyCommit
<1>2. commits = <<c0>>
  BY DEF SyncInit
<1>3. c0.anc = {1}
  OBVIOUS
<1>. HIDE DEF c0
<1>4. commits \in Seq(AnyCommit) /\ Len(commits) = 1 /\ commits[1] = c0
  BY <1>1, <1>2
<1>5. Id = {1}
  BY <1>4 DEF Id
<1>6. CommitShape
  BY <1>4, <1>5 DEF CommitShape, SyncInit
<1>7. FileShape
  BY Contents, SyncAssumption DEF FileShape, SyncInit
<1>8. TurnShape
  BY Stopped DEF TurnShape, SyncInit
<1>9. GraphInv
  BY <1>3, <1>4, <1>5 DEF GraphInv, Anc
<1>. QED  BY <1>6, <1>7, <1>8, <1>9 DEF Shape

LEMMA KeepsShape == Shape /\ [SyncNext]_syncVars => Shape' /\ More
BY KeepsCommits, KeepsFiles, KeepsTurn DEF Shape, More

(***************************************************************************)
(* Where each step of a turn leads                                         *)
(***************************************************************************)
Moves(steps) ==
  /\ running \in AnyTurn
  /\ \/ running' = NotRunning
     \/ /\ running' \in AnyTurn /\ running'.step \in steps
        /\ running'.index = running.index /\ result' = result

LEMMA MovesOn ==
  ASSUME TurnShape, NEW s \in Quiet \cup Merge, running.step # "none", GoTo(s)
  PROVE  Moves({s})
<1>1. running \in AnyTurn
  BY AtWork
<1>2. /\ running' \in AnyTurn /\ running'.step = s /\ running'.index = running.index
  BY <1>1, Goes DEF GoTo
<1>. QED  BY <1>1, <1>2 DEF Moves, GoTo

LEMMA MovesOut ==
  ASSUME TurnShape, running.step # "none", NEW r, End(r)
  PROVE  Moves({})
BY AtWork DEF Moves, End

LEMMA MovesMore ==
  ASSUME NEW S, NEW T, S \subseteq T, Moves(S)
  PROVE  Moves(T)
BY DEF Moves

LEMMA Table ==
  ASSUME Shape
  PROVE  /\ Prepare => Moves({"offer", "fetch"})
         /\ Reprepare => Moves({"integrate"})
         /\ Fetch => Moves({"reprepare"})
         /\ Compare => Moves({"checkout", "merge", "settle"})
         /\ Checkout => Moves({"forward"})
         /\ MoveBranch => Moves({"settle"})
         /\ WriteMerge => Moves({"merge_commit", "abort"})
         /\ CommitMerge => Moves({"merge_clean"})
         /\ CleanMerge => Moves({"settle"})
         /\ RestoreFiles => Moves({"abort_reset", "abort_hard"})
         /\ ResetIndex \/ ResetHard => Moves({})
         /\ CompareAgain => Moves({"offer"})
         /\ Offer => Moves({"push", "fetch"})
         /\ Push => Moves({})
<1>t. TurnShape
  BY DEF Shape
<1>0. ASSUME NEW s \in Quiet \cup Merge, running.step # "none", GoTo(s)
      PROVE  Moves({s})
  BY <1>0, <1>t, MovesOn
<1>00. ASSUME NEW S, running.step # "none", NEW r, End(r)
       PROVE  Moves(S)
  <2>1. Moves({})
    BY <1>00, <1>t, MovesOut
  <2>. QED  BY <2>1, MovesMore
<1>s. /\ "offer" \in Quiet /\ "fetch" \in Quiet /\ "integrate" \in Quiet /\ "reprepare" \in Quiet
      /\ "checkout" \in Quiet /\ "merge" \in Quiet /\ "settle" \in Quiet /\ "forward" \in Quiet
      /\ "merge_commit" \in Merge /\ "abort" \in Merge /\ "merge_clean" \in Merge
      /\ "abort_reset" \in Merge /\ "abort_hard" \in Merge
  BY DEF Quiet, Merge
<1>1. Prepare => Moves({"offer", "fetch"})
  <2>. SUFFICES ASSUME Prepare
                PROVE  Moves({"offer", "fetch"})
    OBVIOUS
  <2>1. /\ running.step # "none"
        /\ \/ End("committed") \/ End("dirty") \/ GoTo("offer") \/ GoTo("fetch")
    BY DEF Prepare, AfterPrepare
  <2>2. GoTo("offer") => Moves({"offer", "fetch"})
    BY <2>1, <1>0, <1>s, MovesMore
  <2>3. GoTo("fetch") => Moves({"offer", "fetch"})
    BY <2>1, <1>0, <1>s, MovesMore
  <2>. QED  BY <2>1, <2>2, <2>3, <1>00
<1>2. Reprepare => Moves({"integrate"})
  <2>. SUFFICES ASSUME Reprepare
                PROVE  Moves({"integrate"})
    OBVIOUS
  <2>1. running.step # "none" /\ (End("dirty") \/ GoTo("integrate"))
    BY DEF Reprepare
  <2>. QED  BY <2>1, <1>0, <1>00, <1>s
<1>3. Fetch => Moves({"reprepare"})
  <2>. SUFFICES ASSUME Fetch
                PROVE  Moves({"reprepare"})
    OBVIOUS
  <2>1. running.step # "none" /\ (End("unreachable") \/ GoTo("reprepare"))
    BY DEF Fetch
  <2>. QED  BY <2>1, <1>0, <1>00, <1>s
<1>4. Compare => Moves({"checkout", "merge", "settle"})
  <2>. DEFINE T == {"checkout", "merge", "settle"}
  <2>. SUFFICES ASSUME Compare
                PROVE  Moves(T)
    OBVIOUS
  <2>1. /\ running.step # "none"
        /\ \/ End("local_commits") \/ End("synced")
           \/ GoTo("checkout") \/ GoTo("merge") \/ GoTo("settle")
    BY DEF Compare
  <2>2. \A s \in T : s \in Quiet \cup Merge /\ {s} \subseteq T
    BY <1>s
  <2>3. "checkout" \in T /\ "merge" \in T /\ "settle" \in T
    OBVIOUS
  <2>. HIDE DEF T
  <2>4. GoTo("checkout") => Moves(T)
    BY <2>1, <2>2, <2>3, <1>0, MovesMore
  <2>5. GoTo("merge") => Moves(T)
    BY <2>1, <2>2, <2>3, <1>0, MovesMore
  <2>6. GoTo("settle") => Moves(T)
    BY <2>1, <2>2, <2>3, <1>0, MovesMore
  <2>. QED  BY <2>1, <2>4, <2>5, <2>6, <1>00
<1>5. Checkout => Moves({"forward"})
  <2>. SUFFICES ASSUME Checkout
                PROVE  Moves({"forward"})
    OBVIOUS
  <2>1. running.step # "none" /\ (End("dirty") \/ GoTo("forward"))
    BY DEF Checkout
  <2>. QED  BY <2>1, <1>0, <1>00, <1>s
<1>6. MoveBranch => Moves({"settle"})
  <2>. SUFFICES ASSUME MoveBranch
                PROVE  Moves({"settle"})
    OBVIOUS
  <2>1. running.step # "none" /\ (End("synced") \/ GoTo("settle"))
    BY DEF MoveBranch
  <2>. QED  BY <2>1, <1>0, <1>00, <1>s
<1>7. WriteMerge => Moves({"merge_commit", "abort"})
  <2>. SUFFICES ASSUME WriteMerge
                PROVE  Moves({"merge_commit", "abort"})
    OBVIOUS
  <2>1. /\ running.step # "none"
        /\ \/ End("refused") \/ GoTo("merge_commit") \/ GoTo("abort")
    BY DEF WriteMerge
  <2>2. GoTo("merge_commit") => Moves({"merge_commit", "abort"})
    BY <2>1, <1>0, <1>s, MovesMore
  <2>3. GoTo("abort") => Moves({"merge_commit", "abort"})
    BY <2>1, <1>0, <1>s, MovesMore
  <2>. QED  BY <2>1, <2>2, <2>3, <1>00
<1>8. CommitMerge => Moves({"merge_clean"})
  BY <1>0, <1>s DEF CommitMerge
<1>9. CleanMerge => Moves({"settle"})
  BY <1>0, <1>s DEF CleanMerge
<1>10. RestoreFiles => Moves({"abort_reset", "abort_hard"})
  <2>. SUFFICES ASSUME RestoreFiles
                PROVE  Moves({"abort_reset", "abort_hard"})
    OBVIOUS
  <2>1. running.step # "none" /\ (GoTo("abort_reset") \/ GoTo("abort_hard"))
    BY DEF RestoreFiles
  <2>2. GoTo("abort_reset") => Moves({"abort_reset", "abort_hard"})
    BY <2>1, <1>0, <1>s, MovesMore
  <2>3. GoTo("abort_hard") => Moves({"abort_reset", "abort_hard"})
    BY <2>1, <1>0, <1>s, MovesMore
  <2>. QED  BY <2>1, <2>2, <2>3
<1>11. ResetIndex \/ ResetHard => Moves({})
  <2>. SUFFICES ASSUME ResetIndex \/ ResetHard
                PROVE  Moves({})
    OBVIOUS
  <2>1. running.step # "none" /\ (End("conflict") \/ End("unfinished"))
    BY DEF ResetIndex, ResetHard
  <2>. QED  BY <2>1, <1>00
<1>12. CompareAgain => Moves({"offer"})
  <2>. SUFFICES ASSUME CompareAgain
                PROVE  Moves({"offer"})
    OBVIOUS
  <2>1. running.step # "none" /\ (End("synced") \/ GoTo("offer"))
    BY DEF CompareAgain
  <2>. QED  BY <2>1, <1>0, <1>00, <1>s
<1>13. Offer => Moves({"push", "fetch"})
  <2>. SUFFICES ASSUME Offer
                PROVE  Moves({"push", "fetch"})
    OBVIOUS
  <2>1. /\ running.step # "none"
        /\ \/ \E r : End(r)
           \/ running' = [running EXCEPT !.step = "push", !.offer = Target] /\ result' = result
           \/ running' = [running EXCEPT !.step = "fetch", !.attempt = 2] /\ result' = result
    BY DEF Offer, Raced
  <2>2. running \in AnyTurn
    BY <2>1, <1>t, AtWork
  <2>3. Target \in Nat
    BY DEF Target, Shape, CommitShape, Id
  <2>4. "push" \in Quiet
    BY DEF Quiet
  <2>5. ASSUME running' = [running EXCEPT !.step = "push", !.offer = Target]
        PROVE  running' \in AnyTurn /\ running'.step = "push" /\ running'.index = running.index
    BY <2>2, <2>3, <2>4, <2>5 DEF AnyTurn
  <2>6. ASSUME running' = [running EXCEPT !.step = "fetch", !.attempt = 2]
        PROVE  running' \in AnyTurn /\ running'.step = "fetch" /\ running'.index = running.index
    BY <2>2, <1>s, <2>6 DEF AnyTurn
  <2>. QED  BY <2>1, <2>2, <2>5, <2>6, <1>00 DEF Moves
<1>14. Push => Moves({})
  <2>. SUFFICES ASSUME Push
                PROVE  Moves({})
    OBVIOUS
  <2>1. running.step # "none" /\ \E r : End(r)
    BY DEF Push
  <2>. QED  BY <2>1, <1>00
<1>. QED
  BY <1>1, <1>2, <1>3, <1>4, <1>5, <1>6, <1>7, <1>8, <1>9, <1>10, <1>11, <1>12, <1>13, <1>14

\* The steps of the others, and the ones by which a turn begins and breaks off.
Beside == SwitchMode \/ \E f \in File : Save(f) \/ OthersPush(f) \/ OthersResolve(f)
Begins == \E kind \in TurnKind : BeginTurn(kind)

LEMMA BesideLeaves ==
  Beside => UNCHANGED <<head, tracking, running, result, conflicted, merging>>
BY DEF Beside, SwitchMode, Save, OthersPush, OthersResolve, refs

LEMMA BeginsLeaves ==
  Begins => /\ UNCHANGED <<mode, refs, disk, merging, history, counts>>
            /\ \/ UNCHANGED running /\ result' = "unfinished" /\ running = NotRunning
               \/ /\ running = NotRunning /\ running' \in AnyTurn /\ running'.step = "prepare"
                  /\ result' = "none" /\ ~merging
<1>. SUFFICES ASSUME NEW kind \in TurnKind, BeginTurn(kind)
              PROVE  /\ UNCHANGED <<mode, refs, disk, merging, history, counts>>
                     /\ \/ UNCHANGED running /\ result' = "unfinished" /\ running = NotRunning
                        \/ /\ running = NotRunning /\ running' \in AnyTurn
                           /\ running'.step = "prepare" /\ result' = "none" /\ ~merging
  BY DEF Begins
<1>1. [NotRunning EXCEPT !.kind = kind, !.step = "prepare", !.attempt = 1] \in AnyTurn
  BY DEF NotRunning, AnyTurn, Quiet
<1>2. [NotRunning EXCEPT !.kind = kind, !.step = "prepare", !.attempt = 1].step = "prepare"
  BY DEF NotRunning
<1>. QED  BY <1>1, <1>2 DEF BeginTurn, Unfinished

LEMMA SyncSteps ==
  [SyncNext]_syncVars => Turning \/ Beside \/ Begins \/ Crash \/ UNCHANGED syncVars
BY DEF SyncNext, Foreign, Beside, Begins

(***************************************************************************)
(* Branches                                                                *)
(***************************************************************************)
Grown == /\ Anc(head) \subseteq Anc(head)'
         /\ Anc(remote) \subseteq Anc(remote)'
         /\ Anc(recovery) \subseteq Anc(recovery)'

LEMMA Located ==
  ASSUME Shape
  PROVE  /\ head \in Id /\ tracking \in Id /\ remote \in Id /\ recovery \in {0} \cup Id
         /\ head # 0 /\ tracking # 0 /\ remote # 0 /\ 0 \notin Id
         /\ disk \in [File -> Content] /\ mode \in {"PullOnly", "TwoWay"}
BY DEF Shape, CommitShape, FileShape, TurnShape, Id

\* The commits that were there are reached from what they were.
LEMMA StayPut ==
  ASSUME Shape, More, NEW c \in {0} \cup Id
  PROVE  c # 0 => commits'[c].anc = Anc(c)
BY Located DEF More, Anc

LEMMA MergeCommits ==
  ASSUME Shape, CommitMerge
  PROVE  /\ commits' = NewCommit(running.index, {head, tracking}) /\ head' = NewId
         /\ running.index \in [File -> Content] /\ {head, tracking} \in SUBSET Id
BY Located DEF CommitMerge, Shape, TurnShape, Merge

LEMMA OthersMake ==
  ASSUME Shape, NEW f \in File, OthersPush(f) \/ OthersResolve(f)
  PROVE  \E tree \in [File -> Content] : \E parents \in SUBSET Id :
           /\ commits' = NewCommit(tree, parents)
           /\ \/ remote' = NewId /\ recovery' = recovery /\ remote \in parents
              \/ remote' = remote /\ recovery' = NewId /\ recovery \in parents
           /\ \A g \in File : \/ tree[g] = <<"theirs", others + 1>>
                              \/ \E p \in parents : tree[g] = Tree(p)[g]
           /\ others < MaxOthers
<1>r. /\ remote \in Id /\ recovery \in {0} \cup Id
  BY Located
<1>1. CASE OthersPush(f)
  <2>. DEFINE tree == [Tree(remote) EXCEPT ![f] = <<"theirs", others + 1>>]
  <2>1. commits' = NewCommit(tree, {remote}) /\ others < MaxOthers
        /\ remote' = NewId /\ recovery' = recovery
    BY <1>1 DEF OthersPush, Others
  <2>2. Tree(remote) \in [File -> Content] /\ <<"theirs", others + 1>> \in Content
    BY <2>1, <1>r, Trees, NextPush DEF Shape
  <2>3. tree \in [File -> Content]
        /\ \A g \in File : tree[g] = <<"theirs", others + 1>> \/ tree[g] = Tree(remote)[g]
    BY <2>2
  <2>4. {remote} \in SUBSET Id /\ remote \in {remote}
    BY <1>r
  <2>. HIDE DEF tree
  <2>. QED  BY <2>1, <2>3, <2>4
<1>2. CASE OthersResolve(f)
  <2>1. recovery \in Id /\ others < MaxOthers /\ <<"theirs", others + 1>> \in Content
    BY <1>2, <1>r, NextPush DEF OthersResolve, Others, Shape
  <2>2. Tree(remote) \in [File -> Content] /\ Tree(recovery) \in [File -> Content]
    BY <1>r, <2>1, Trees
  <2>. DEFINE adds == [Tree(recovery) EXCEPT ![f] = <<"theirs", others + 1>>]
              joins == [g \in File |-> IF Tree(remote)[g] = Tree(recovery)[g]
                                       THEN Tree(remote)[g] ELSE <<"theirs", others + 1>>]
  <2>3. \/ commits' = NewCommit(adds, {recovery}) /\ recovery' = NewId /\ remote' = remote
        \/ /\ commits' = NewCommit(joins, {remote, recovery})
           /\ remote' = NewId /\ recovery' = recovery
    BY <1>2 DEF OthersResolve
  <2>4. adds \in [File -> Content] /\ joins \in [File -> Content]
        /\ (\A g \in File : adds[g] = <<"theirs", others + 1>> \/ adds[g] = Tree(recovery)[g])
        /\ (\A g \in File : joins[g] = <<"theirs", others + 1>> \/ joins[g] = Tree(remote)[g])
    BY <2>1, <2>2
  <2>5. {recovery} \in SUBSET Id /\ {remote, recovery} \in SUBSET Id
        /\ recovery \in {recovery} /\ remote \in {remote, recovery}
    BY <1>r, <2>1
  <2>. HIDE DEF adds, joins
  <2>. QED  BY <2>1, <2>3, <2>4, <2>5
<1>. QED  BY <1>1, <1>2

LEMMA BranchesGrow ==
  ASSUME Shape, RefInv, [SyncNext]_syncVars
  PROVE  Grown
<1>m. Shape' /\ More
  BY KeepsShape
<1>r. /\ head \in Id /\ tracking \in Id /\ remote \in Id /\ recovery \in {0} \cup Id
      /\ head # 0 /\ tracking # 0 /\ remote # 0
  BY Located
<1>h. head' = head => Anc(head) \subseteq Anc(head)'
  BY <1>m, <1>r DEF More
<1>o. remote' = remote => Anc(remote) \subseteq Anc(remote)'
  BY <1>m, <1>r DEF More
<1>c. recovery' = recovery => Anc(recovery) \subseteq Anc(recovery)'
  <2>1. CASE recovery = 0
    BY <2>1 DEF Anc
  <2>2. CASE recovery \in Id
    BY <2>2, <1>m DEF More
  <2>. QED  BY <1>r, <2>1, <2>2
<1>1. ASSUME Prepare \/ Reprepare
      PROVE  Grown
  <2>1. UNCHANGED <<remote, recovery>>
    BY <1>1 DEF Prepare, Reprepare
  <2>2. CASE head' = head
    BY <2>1, <2>2, <1>h, <1>o, <1>c DEF Grown
  <2>3. CASE head' # head
    <3>1. /\ commits' = NewCommit(disk, {head}) /\ head' = NewId
          /\ disk \in [File -> Content] /\ {head} \in SUBSET Id
      BY <1>1, <2>3, Drifts
    <3>2. Anc(head) \subseteq commits'[NewId].anc /\ NewId # 0
      BY <3>1, Lands
    <3>. QED  BY <3>1, <3>2, <2>1, <1>o, <1>c DEF Grown, Anc
  <2>. QED  BY <2>2, <2>3
<1>2. CASE CommitMerge
  <2>1. /\ commits' = NewCommit(running.index, {head, tracking}) /\ head' = NewId
        /\ running.index \in [File -> Content] /\ {head, tracking} \in SUBSET Id
    BY <1>2, MergeCommits
  <2>2. Anc(head) \subseteq commits'[NewId].anc /\ NewId # 0
    BY <2>1, Lands
  <2>3. UNCHANGED <<remote, recovery>>
    BY <1>2 DEF CommitMerge
  <2>. QED  BY <2>1, <2>2, <2>3, <1>o, <1>c DEF Grown, Anc
<1>3. CASE MoveBranch
  <2>1. head' = tracking /\ head \in Anc(tracking) /\ UNCHANGED <<remote, recovery>>
    BY <1>3 DEF MoveBranch, RefInv
  <2>2. Anc(head) \subseteq Anc(tracking)
    BY <2>1, <1>r, Ancestry
  <2>3. Anc(head)' = commits'[tracking].anc /\ Anc(tracking) = commits'[tracking].anc
    BY <2>1, <1>r, <1>m, StayPut DEF Anc
  <2>. QED  BY <2>1, <2>2, <2>3, <1>o, <1>c DEF Grown
<1>4. CASE Push
  <2>1. /\ UNCHANGED <<commits, head>> /\ running.step = "push"
        /\ \/ UNCHANGED <<remote, recovery>>
           \/ running.offer = Target /\ Landed
    BY <1>4 DEF Push
  <2>2. Anc(head)' = Anc(head)
    BY <2>1 DEF Anc
  <2>3. CASE UNCHANGED <<remote, recovery>>
    BY <2>2, <2>3, <1>o, <1>c DEF Grown
  <2>4. CASE running.offer = Target /\ Landed
    <3>1. Target = 0 \/ Target \in Anc(head)
      BY <2>1, <2>4 DEF RefInv
    <3>2. Anc(Target) \subseteq Anc(head)
      BY <3>1, <1>r, Ancestry DEF Anc
    <3>3. CASE running.kind = "recovery"
      <4>1. recovery' = head /\ remote' = remote /\ Target = recovery
        BY <2>4, <3>3 DEF Landed, Target
      <4>2. Anc(recovery)' = Anc(head)
        BY <2>1, <4>1 DEF Anc
      <4>. QED  BY <2>2, <3>2, <4>1, <4>2, <1>o DEF Grown
    <3>4. CASE running.kind # "recovery"
      <4>1. remote' = head /\ recovery' = recovery /\ Target = remote
        BY <2>4, <3>4 DEF Landed, Target
      <4>2. Anc(remote)' = Anc(head)
        BY <2>1, <4>1 DEF Anc
      <4>. QED  BY <2>2, <3>2, <4>1, <4>2, <1>c DEF Grown
    <3>. QED  BY <3>3, <3>4
  <2>. QED  BY <2>1, <2>3, <2>4
<1>5. ASSUME NEW f \in File, OthersPush(f) \/ OthersResolve(f)
      PROVE  Grown
  <2>1. head' = head
    BY <1>5 DEF OthersPush, OthersResolve
  <2>2. PICK tree \in [File -> Content] : \E parents \in SUBSET Id :
           /\ commits' = NewCommit(tree, parents)
           /\ \/ remote' = NewId /\ recovery' = recovery /\ remote \in parents
              \/ remote' = remote /\ recovery' = NewId /\ recovery \in parents
    BY <1>5, OthersMake
  <2>3. PICK parents \in SUBSET Id :
           /\ commits' = NewCommit(tree, parents)
           /\ \/ remote' = NewId /\ recovery' = recovery /\ remote \in parents
              \/ remote' = remote /\ recovery' = NewId /\ recovery \in parents
    BY <2>2
  <2>4. NewId # 0 /\ \A p \in parents : Anc(p) \subseteq commits'[NewId].anc
    BY <2>3, Lands
  <2>5. CASE remote' = NewId /\ recovery' = recovery /\ remote \in parents
    <3>1. Anc(remote)' = commits'[NewId].anc
      BY <2>4, <2>5 DEF Anc
    <3>. QED  BY <3>1, <2>1, <2>4, <2>5, <1>h, <1>c DEF Grown
  <2>6. CASE remote' = remote /\ recovery' = NewId /\ recovery \in parents
    <3>1. Anc(recovery)' = commits'[NewId].anc
      BY <2>4, <2>6 DEF Anc
    <3>. QED  BY <3>1, <2>1, <2>4, <2>6, <1>h, <1>o DEF Grown
  <2>. QED  BY <2>3, <2>5, <2>6
<1>6. ASSUME UNCHANGED <<head, remote, recovery>>
      PROVE  Grown
  BY <1>6, <1>h, <1>o, <1>c DEF Grown
<1>7. ASSUME \/ Fetch \/ Compare \/ Checkout \/ BeginMerge \/ WriteMerge
             \/ CleanMerge \/ RestoreFiles \/ ResetIndex \/ ResetHard \/ CompareAgain \/ Offer
             \/ SwitchMode \/ Crash \/ UNCHANGED syncVars
      PROVE  UNCHANGED <<head, remote, recovery>>
  BY <1>7 DEF Fetch, Compare, Checkout, BeginMerge, WriteMerge, CleanMerge,
    RestoreFiles, ResetIndex, ResetHard, CompareAgain, Offer, SwitchMode, Crash, syncVars, refs
<1>8. ASSUME \/ \E f \in File : Save(f)
             \/ \E kind \in TurnKind : BeginTurn(kind)
      PROVE  UNCHANGED <<head, remote, recovery>>
  BY <1>8 DEF Save, BeginTurn, refs
<1>. QED
  BY <1>1, <1>2, <1>3, <1>4, <1>5, <1>6, <1>7, <1>8 DEF SyncNext, Turning, Foreign

LEMMA KeepsTracking ==
  ASSUME Shape, RefInv, [SyncNext]_syncVars
  PROVE  (tracking \in Anc(remote))'
<1>m. Shape' /\ More /\ Grown
  BY KeepsShape, BranchesGrow
<1>r. /\ head \in Id /\ tracking \in Id /\ remote \in Id /\ tracking \in Anc(remote)
      /\ head # 0 /\ tracking # 0 /\ remote # 0
  BY Located DEF RefInv
<1>1. CASE Fetch
  <2>1. /\ tracking' = remote \/ tracking' = tracking
        /\ remote' = remote /\ commits' = commits
    BY <1>1 DEF Fetch
  <2>. QED  BY <2>1, <1>r, Ancestry DEF Anc
<1>2. CASE Push
  <2>1. /\ UNCHANGED commits /\ running.step = "push"
        /\ \/ UNCHANGED <<remote, tracking>>
           \/ /\ running.offer = Target /\ running.kind # "recovery" /\ remote' = head
              /\ tracking' \in {head, tracking}
    BY <1>2 DEF Push, Landed
  <2>2. CASE UNCHANGED <<remote, tracking>>
    BY <2>1, <2>2, <1>r DEF Anc
  <2>3. CASE /\ running.offer = Target /\ running.kind # "recovery" /\ remote' = head
             /\ tracking' \in {head, tracking}
    <3>1. Target = remote
      BY <2>3 DEF Target
    <3>2. remote \in Anc(head)
      BY <2>1, <2>3, <3>1, <1>r DEF RefInv
    <3>3. Anc(remote) \subseteq Anc(head) /\ head \in Anc(head)
      BY <3>2, <1>r, Ancestry
    <3>4. Anc(remote)' = Anc(head)
      BY <2>1, <2>3 DEF Anc
    <3>. QED  BY <2>3, <3>3, <3>4, <1>r
  <2>. QED  BY <2>1, <2>2, <2>3
<1>3. ASSUME UNCHANGED tracking
      PROVE  (tracking \in Anc(remote))'
  BY <1>3, <1>m, <1>r DEF Grown
<1>4. ASSUME \/ Prepare \/ Reprepare \/ Compare \/ Checkout \/ MoveBranch \/ BeginMerge
             \/ WriteMerge \/ CommitMerge \/ CleanMerge \/ RestoreFiles \/ ResetIndex
             \/ ResetHard \/ CompareAgain \/ Offer \/ Crash \/ UNCHANGED syncVars
      PROVE  UNCHANGED tracking
  BY <1>4 DEF Prepare, Reprepare, Compare, Checkout, MoveBranch, BeginMerge, WriteMerge,
    CommitMerge, CleanMerge, RestoreFiles, ResetIndex, ResetHard, CompareAgain, Offer, Crash,
    syncVars, refs
<1>5. Beside \/ Begins => UNCHANGED tracking
  BY BesideLeaves, BeginsLeaves DEF refs
<1>. QED  BY <1>1, <1>2, <1>3, <1>4, <1>5, SyncSteps DEF Turning

\* The local branch is behind the one it is about to be moved to.
LEMMA KeepsForward ==
  ASSUME Shape, RefInv, [SyncNext]_syncVars
  PROVE  (running.step \in {"checkout", "forward"} => head \in Anc(tracking))'
<1>. DEFINE Owed == (running.step \in {"checkout", "forward"} => head \in Anc(tracking))'
<1>. SUFFICES Owed
  OBVIOUS
<1>m. Shape' /\ More
  BY KeepsShape
<1>r. head \in Id /\ tracking \in Id /\ head # 0 /\ tracking # 0
  BY Located
<1>n. ASSUME running'.step \notin {"checkout", "forward"}
      PROVE  Owed
  BY <1>n
<1>0. running' = NotRunning => Owed
  BY <1>n, Stopped
<1>2. CASE Compare
  <2>1. UNCHANGED refs /\ Moves({"checkout", "merge", "settle"})
        /\ \/ \E r : End(r)
           \/ GoTo("checkout") /\ Ahead = {}
           \/ GoTo("merge")
           \/ GoTo("settle")
    BY <1>2, Table DEF Compare
  <2>2. CASE running'.step = "checkout"
    <3>1. Ahead = {} \/ running' = NotRunning
      <4>1. running \in AnyTurn
        BY <2>1 DEF Moves
      <4>2. GoTo("merge") => running'.step = "merge"
        BY <4>1 DEF GoTo, AnyTurn
      <4>3. GoTo("settle") => running'.step = "settle"
        BY <4>1 DEF GoTo, AnyTurn
      <4>4. (\E r : End(r)) => running' = NotRunning
        BY DEF End
      <4>. QED  BY <2>1, <2>2, <4>2, <4>3, <4>4
    <3>2. running' # NotRunning
      BY <2>2, Stopped
    <3>3. head \in Anc(head) /\ Ahead = {}
      BY <3>1, <3>2, <1>r, Ancestry
    <3>4. head \in Anc(tracking)
      BY <3>3 DEF Ahead
    <3>. QED  BY <2>1, <3>4 DEF refs, Anc
  <2>3. CASE running'.step # "checkout"
    BY <2>1, <2>3, <1>n, <1>0 DEF Moves
  <2>. QED  BY <2>2, <2>3
<1>3. CASE Checkout
  <2>1. running.step = "checkout" /\ UNCHANGED refs
    BY <1>3 DEF Checkout
  <2>. QED  BY <2>1 DEF RefInv, refs, Anc
<1>4. ASSUME UNCHANGED <<running, head, tracking>>
      PROVE  Owed
  BY <1>4, <1>m, <1>r DEF RefInv, More
<1>5. ASSUME Beside \/ UNCHANGED syncVars
      PROVE  Owed
  <2>1. UNCHANGED <<running, head, tracking>>
    BY <1>5, BesideLeaves DEF syncVars, refs
  <2>. QED  BY <2>1, <1>4
<1>6. CASE Begins
  <2>1. UNCHANGED <<head, tracking>>
    BY <1>6, BeginsLeaves DEF refs
  <2>. QED  BY <1>6, <2>1, <1>4, <1>n, BeginsLeaves
<1>7. CASE Crash
  BY <1>7, <1>0 DEF Crash
<1>8. CASE BeginMerge
  <2>1. running.step = "merge" /\ \E i : running' = [running EXCEPT !.step = "merge_files", !.index = i]
    BY <1>8 DEF BeginMerge
  <2>2. running \in AnyTurn
    BY <2>1, AtWork DEF Shape
  <2>3. running'.step = "merge_files"
    BY <2>1, <2>2 DEF AnyTurn
  <2>. QED  BY <2>3, <1>n
<1>9. ASSUME \/ Prepare \/ Reprepare \/ Fetch \/ MoveBranch
             \/ WriteMerge \/ CommitMerge \/ CleanMerge \/ RestoreFiles \/ ResetIndex
             \/ ResetHard \/ CompareAgain \/ Offer \/ Push
      PROVE  Owed
  <2>1. \/ Moves({"offer", "fetch"}) \/ Moves({"integrate"}) \/ Moves({"reprepare"})
        \/ Moves({"settle"}) \/ Moves({"merge_commit", "abort"}) \/ Moves({"merge_clean"})
        \/ Moves({"abort_reset", "abort_hard"}) \/ Moves({}) \/ Moves({"offer"})
        \/ Moves({"push", "fetch"})
    BY <1>9, Table
  <2>2. running' = NotRunning \/ running'.step \notin {"checkout", "forward"}
    BY <2>1 DEF Moves
  <2>3. running'.step \notin {"checkout", "forward"}
    BY <2>2, Stopped
  <2>. QED  BY <2>3
<1>. HIDE DEF Owed
<1>. QED
  BY <1>2, <1>3, <1>5, <1>6, <1>7, <1>8, <1>9, SyncSteps DEF Turning

\* A push is of a head that holds what the remote offered.
LEMMA KeepsOffer ==
  ASSUME Shape, RefInv, [SyncNext]_syncVars
  PROVE  (running.step = "push" => running.offer = 0 \/ running.offer \in Anc(head))'
<1>. DEFINE Owed == (running.step = "push" => running.offer = 0 \/ running.offer \in Anc(head))'
<1>. SUFFICES Owed
  OBVIOUS
<1>m. Shape' /\ More
  BY KeepsShape
<1>r. head \in Id /\ head # 0
  BY Located
<1>0. running' = NotRunning \/ running'.step # "push" => Owed
  BY Stopped
<1>1. CASE Offer
  <2>1. /\ running.step = "offer" /\ UNCHANGED <<commits, head>>
        /\ \/ \E r : End(r)
           \/ /\ running' = [running EXCEPT !.step = "push", !.offer = Target]
              /\ FastForwards(Target)
           \/ running' = [running EXCEPT !.step = "fetch", !.attempt = 2]
    BY <1>1 DEF Offer, Raced, refs
  <2>2. running \in AnyTurn
    BY <2>1, AtWork DEF Shape
  <2>3. CASE \E r : End(r)
    BY <2>3, <1>0 DEF End
  <2>4. CASE /\ running' = [running EXCEPT !.step = "push", !.offer = Target]
             /\ FastForwards(Target)
    <3>1. running'.offer = Target
      BY <2>2, <2>4 DEF AnyTurn
    <3>2. Target = 0 \/ Target \in Anc(head)
      BY <2>4 DEF FastForwards
    <3>. QED  BY <2>1, <3>1, <3>2 DEF Anc
  <2>5. CASE running' = [running EXCEPT !.step = "fetch", !.attempt = 2]
    <3>1. running'.step # "push"
      BY <2>2, <2>5 DEF AnyTurn
    <3>. QED  BY <3>1
  <2>. QED  BY <2>1, <2>3, <2>4, <2>5
<1>2. ASSUME UNCHANGED <<running, head>>
      PROVE  Owed
  <2>1. Anc(head)' = Anc(head)
    BY <1>2, <1>m, <1>r DEF More
  <2>. QED  BY <1>2, <2>1 DEF RefInv
<1>3. CASE Beside \/ UNCHANGED syncVars
  <2>1. UNCHANGED <<running, head>>
    BY <1>3, BesideLeaves DEF syncVars, refs
  <2>. QED  BY <2>1, <1>2
<1>4. CASE Begins
  <2>1. head' = head
    BY <1>4, BeginsLeaves DEF refs
  <2>. QED  BY <1>4, <2>1, <1>2, <1>0, BeginsLeaves
<1>5. CASE Crash
  BY <1>5, <1>0 DEF Crash
<1>6. CASE BeginMerge
  <2>1. running.step = "merge" /\ \E i : running' = [running EXCEPT !.step = "merge_files", !.index = i]
    BY <1>6 DEF BeginMerge
  <2>2. running \in AnyTurn
    BY <2>1, AtWork DEF Shape
  <2>3. running'.step = "merge_files"
    BY <2>1, <2>2 DEF AnyTurn
  <2>. QED  BY <2>3, <1>0
<1>7. ASSUME \/ Prepare \/ Reprepare \/ Fetch \/ Compare \/ Checkout \/ MoveBranch
             \/ WriteMerge \/ CommitMerge \/ CleanMerge \/ RestoreFiles \/ ResetIndex
             \/ ResetHard \/ CompareAgain \/ Push
      PROVE  Owed
  <2>1. \/ Moves({"offer", "fetch"}) \/ Moves({"integrate"}) \/ Moves({"reprepare"})
        \/ Moves({"checkout", "merge", "settle"}) \/ Moves({"forward"})
        \/ Moves({"settle"}) \/ Moves({"merge_commit", "abort"}) \/ Moves({"merge_clean"})
        \/ Moves({"abort_reset", "abort_hard"}) \/ Moves({}) \/ Moves({"offer"})
    BY <1>7, Table
  <2>2. running' = NotRunning \/ running'.step # "push"
    BY <2>1 DEF Moves
  <2>. QED  BY <2>2, <1>0
<1>. QED
  BY <1>1, <1>3, <1>4, <1>5, <1>6, <1>7, SyncSteps DEF Turning

\* No result stands while a turn runs.
LEMMA KeepsResult ==
  ASSUME Shape, RefInv, [SyncNext]_syncVars
  PROVE  (running # NotRunning => result = "none")'
<1>. SUFFICES ASSUME running' # NotRunning
              PROVE  result' = "none"
  OBVIOUS
<1>0. running # NotRunning => result = "none"
  BY DEF RefInv
<1>1. CASE Turning /\ ~BeginMerge
  <2>1. \E S : Moves(S)
    BY <1>1, Table DEF Turning
  <2>2. running \in AnyTurn /\ result' = result
    BY <2>1 DEF Moves
  <2>3. running # NotRunning
    BY <2>2, Stopped DEF AnyTurn
  <2>. QED  BY <2>2, <2>3, <1>0
<1>2. CASE BeginMerge
  <2>1. running.step # "none" /\ result' = result
    BY <1>2 DEF BeginMerge
  <2>. QED  BY <2>1, <1>0, Stopped
<1>3. CASE Beside \/ UNCHANGED syncVars
  <2>1. UNCHANGED <<running, result>>
    BY <1>3, BesideLeaves DEF syncVars
  <2>. QED  BY <2>1, <1>0
<1>4. CASE Begins
  BY <1>4, BeginsLeaves
<1>5. CASE Crash
  BY <1>5 DEF Crash
<1>. QED
  BY <1>1, <1>2, <1>3, <1>4, <1>5, SyncSteps

\* A sync or a publication that succeeded left the head on the remote.
LEMMA KeepsSuccess ==
  ASSUME Shape, RefInv, SuccessIsOnRemote, [SyncNext]_syncVars
  PROVE  SuccessIsOnRemote'
<1>m. Shape' /\ More /\ Grown
  BY KeepsShape, BranchesGrow
<1>r. /\ head \in Id /\ tracking \in Id /\ remote \in Id
      /\ head # 0 /\ tracking # 0 /\ remote # 0
  BY Located
<1>0. result' \notin {"synced", "published"} => SuccessIsOnRemote'
  BY DEF SuccessIsOnRemote
<1>a. ASSUME NEW r, End(r), r \notin {"synced", "published"}
      PROVE  SuccessIsOnRemote'
  BY <1>a, <1>0 DEF End
<1>b. running # NotRunning => result = "none"
  BY DEF RefInv
<1>c. ASSUME running.step # "none", result' = result
      PROVE  SuccessIsOnRemote'
  <2>1. result' = "none"
    BY <1>c, <1>b, Stopped
  <2>. QED  BY <2>1, <1>0
<1>d. ASSUME NEW s, running.step # "none", GoTo(s)
      PROVE  SuccessIsOnRemote'
  BY <1>d, <1>c DEF GoTo
<1>e. ASSUME End("synced"), UNCHANGED refs, Ahead = {}
      PROVE  SuccessIsOnRemote'
  <2>1. head \in Anc(tracking)
    BY <1>e, <1>r, Ancestry DEF Ahead
  <2>2. head \in Anc(remote)
    BY <2>1, <1>r, Ancestry DEF RefInv
  <2>3. result' = "synced" /\ head' = head
    BY <1>e DEF End, refs
  <2>. QED  BY <2>2, <2>3, <1>m DEF SuccessIsOnRemote, Grown
<1>1. CASE Prepare
  <2>1. /\ running.step # "none"
        /\ \/ End("committed") \/ End("dirty") \/ GoTo("offer") \/ GoTo("fetch")
    BY <1>1 DEF Prepare, AfterPrepare
  <2>. QED  BY <2>1, <1>a, <1>d
<1>2. CASE Reprepare
  <2>1. running.step # "none" /\ (End("dirty") \/ GoTo("integrate"))
    BY <1>2 DEF Reprepare
  <2>. QED  BY <2>1, <1>a, <1>d
<1>3. CASE Fetch
  <2>1. running.step # "none" /\ (End("unreachable") \/ GoTo("reprepare"))
    BY <1>3 DEF Fetch
  <2>. QED  BY <2>1, <1>a, <1>d
<1>4. CASE Compare
  <2>1. /\ running.step # "none" /\ UNCHANGED refs
        /\ \/ End("local_commits")
           \/ End("synced") /\ Ahead = {}
           \/ GoTo("checkout") \/ GoTo("merge") \/ GoTo("settle")
    BY <1>4 DEF Compare
  <2>. QED  BY <2>1, <1>a, <1>d, <1>e
<1>5. CASE Checkout
  <2>1. running.step # "none" /\ (End("dirty") \/ GoTo("forward"))
    BY <1>5 DEF Checkout
  <2>. QED  BY <2>1, <1>a, <1>d
<1>6. CASE MoveBranch
  <2>1. /\ running.step # "none" /\ head' = tracking
        /\ End("synced") \/ GoTo("settle")
    BY <1>6 DEF MoveBranch
  <2>2. ASSUME End("synced")
        PROVE  SuccessIsOnRemote'
    <3>1. result' = "synced"
      BY <2>2 DEF End
    <3>2. tracking \in Anc(remote)'
      BY <1>m DEF Grown, RefInv
    <3>. QED  BY <2>1, <3>1, <3>2 DEF SuccessIsOnRemote
  <2>. QED  BY <2>1, <2>2, <1>d
<1>7. CASE BeginMerge
  BY <1>7, <1>c DEF BeginMerge
<1>8. CASE WriteMerge
  <2>1. /\ running.step # "none"
        /\ \/ End("refused") \/ GoTo("merge_commit") \/ GoTo("abort")
    BY <1>8 DEF WriteMerge
  <2>. QED  BY <2>1, <1>a, <1>d
<1>9. ASSUME CommitMerge \/ CleanMerge \/ RestoreFiles
      PROVE  SuccessIsOnRemote'
  <2>1. running.step # "none" /\ \E s : GoTo(s)
    BY <1>9 DEF CommitMerge, CleanMerge, RestoreFiles
  <2>. QED  BY <2>1, <1>d
<1>10. ASSUME ResetIndex \/ ResetHard
       PROVE  SuccessIsOnRemote'
  <2>1. running.step # "none" /\ (End("conflict") \/ End("unfinished"))
    BY <1>10 DEF ResetIndex, ResetHard
  <2>. QED  BY <2>1, <1>a
<1>11. CASE CompareAgain
  <2>1. /\ running.step # "none" /\ UNCHANGED refs
        /\ \/ End("synced") /\ Ahead = {}
           \/ GoTo("offer")
    BY <1>11 DEF CompareAgain
  <2>. QED  BY <2>1, <1>d, <1>e
<1>12. CASE Offer
  <2>1. /\ running.step # "none"
        /\ \/ End("diverged") \/ End("race") \/ End("unreachable")
           \/ result' = result
    BY <1>12 DEF Offer, Raced
  <2>. QED  BY <2>1, <1>a, <1>c
<1>13. CASE Push
  <2>1. /\ UNCHANGED <<commits, head>>
        /\ \/ End("unreachable") \/ End("rejected")
           \/ Landed /\ running.kind = "recovery" /\ End("published")
           \/ Landed /\ running.kind # "recovery" /\ End("synced")
    BY <1>13 DEF Push, Refusal
  <2>2. head \in Anc(head) /\ Anc(head) = commits'[head].anc
    BY <2>1, <1>r, Ancestry DEF Anc
  <2>3. ASSUME Landed, running.kind = "recovery", End("published")
        PROVE  SuccessIsOnRemote'
    <3>1. recovery' = head /\ result' = "published"
      BY <2>3 DEF Landed, End
    <3>. QED  BY <2>1, <2>2, <3>1, <1>r DEF SuccessIsOnRemote, Anc
  <2>4. ASSUME Landed, running.kind # "recovery", End("synced")
        PROVE  SuccessIsOnRemote'
    <3>1. remote' = head /\ result' = "synced"
      BY <2>4 DEF Landed, End
    <3>. QED  BY <2>1, <2>2, <3>1, <1>r DEF SuccessIsOnRemote, Anc
  <2>. QED  BY <2>1, <2>3, <2>4, <1>a
<1>14. CASE Beside \/ UNCHANGED syncVars
  <2>1. UNCHANGED <<head, result>>
    BY <1>14, BesideLeaves DEF syncVars, refs
  <2>. QED  BY <2>1, <1>m DEF SuccessIsOnRemote, Grown
<1>15. CASE Begins
  BY <1>15, <1>0, BeginsLeaves
<1>16. CASE Crash
  BY <1>16, <1>0 DEF Crash
<1>. QED
  BY <1>1, <1>2, <1>3, <1>4, <1>5, <1>6, <1>7, <1>8, <1>9, <1>10, <1>11, <1>12, <1>13, <1>14,
     <1>15, <1>16, SyncSteps DEF Turning

(***************************************************************************)
(* Conflict markers                                                        *)
(***************************************************************************)
Fenced == /\ running.step \in Quiet => ~merging
          /\ running.step \in Merge => merging
Unmarked == \A c \in Id : \A f \in File : Tree(c)[f] # Markers

LEMMA KeepsFenced ==
  ASSUME Shape, FenceInv, [SyncNext]_syncVars
  PROVE  Fenced'
<1>0. running' = NotRunning => Fenced'
  BY Stopped DEF Fenced
<1>q. \A s \in Quiet : s \notin Merge
  BY Apart
<1>a. ASSUME NEW S \in SUBSET Quiet, Moves(S), merging' = FALSE
      PROVE  Fenced'
  BY <1>a, <1>0, <1>q DEF Moves, Fenced
<1>b. ASSUME NEW S \in SUBSET Merge, Moves(S), merging' = TRUE
      PROVE  Fenced'
  BY <1>b, <1>0, <1>q DEF Moves, Fenced
<1>s. /\ {"offer", "fetch"} \in SUBSET Quiet /\ {"integrate"} \in SUBSET Quiet
      /\ {"reprepare"} \in SUBSET Quiet /\ {"checkout", "merge", "settle"} \in SUBSET Quiet
      /\ {"forward"} \in SUBSET Quiet /\ {"settle"} \in SUBSET Quiet
      /\ {"offer"} \in SUBSET Quiet /\ {"push", "fetch"} \in SUBSET Quiet
      /\ {} \in SUBSET Quiet
      /\ {"merge_commit", "abort"} \in SUBSET Merge /\ {"merge_clean"} \in SUBSET Merge
      /\ {"abort_reset", "abort_hard"} \in SUBSET Merge
  BY DEF Quiet, Merge
<1>1. ASSUME \/ Prepare \/ Reprepare \/ Fetch \/ Compare \/ Checkout \/ MoveBranch
             \/ CompareAgain \/ Offer \/ Push
      PROVE  Fenced'
  <2>1. running.step \in Quiet /\ merging' = merging
    BY <1>1 DEF Prepare, Reprepare, Fetch, Compare, Checkout, MoveBranch, CompareAgain, Offer,
      Push, Quiet
  <2>2. merging \in BOOLEAN
    BY DEF Shape, TurnShape
  <2>3. merging' = FALSE
    BY <2>1, <2>2 DEF FenceInv
  <2>4. \E S \in SUBSET Quiet : Moves(S)
    BY <1>1, <1>s, Table
  <2>. QED  BY <2>3, <2>4, <1>a
<1>2. CASE BeginMerge
  <2>1. /\ running.step = "merge" /\ merging' = TRUE
        /\ \E i : running' = [running EXCEPT !.step = "merge_files", !.index = i]
    BY <1>2 DEF BeginMerge
  <2>2. running \in AnyTurn
    BY <2>1, AtWork DEF Shape
  <2>3. running'.step = "merge_files"
    BY <2>1, <2>2 DEF AnyTurn
  <2>. QED  BY <2>1, <2>3 DEF Fenced, Quiet, Merge
<1>3. ASSUME WriteMerge \/ CommitMerge \/ RestoreFiles
      PROVE  Fenced'
  <2>1. running.step \in Merge /\ (merging' = merging \/ running' = NotRunning)
    BY <1>3 DEF WriteMerge, CommitMerge, RestoreFiles, Merge, End
  <2>2. merging \in BOOLEAN
    BY DEF Shape, TurnShape
  <2>3. merging' = TRUE \/ running' = NotRunning
    BY <2>1, <2>2 DEF FenceInv
  <2>4. \E S \in SUBSET Merge : Moves(S)
    BY <1>3, <1>s, Table
  <2>. QED  BY <2>3, <2>4, <1>b, <1>0
<1>4. CASE CleanMerge
  <2>1. Moves({"settle"}) /\ merging' = FALSE
    BY <1>4, Table DEF CleanMerge
  <2>. QED  BY <2>1, <1>a, <1>s
<1>5. ASSUME ResetIndex \/ ResetHard
      PROVE  Fenced'
  BY <1>5, <1>0, Table DEF Moves
<1>6. CASE Beside \/ UNCHANGED syncVars
  <2>1. UNCHANGED <<running, merging>>
    BY <1>6, BesideLeaves DEF syncVars
  <2>. QED  BY <2>1 DEF Fenced, FenceInv
<1>7. CASE Begins
  <2>1. UNCHANGED <<running, merging>> \/ (running'.step = "prepare" /\ ~merging')
    BY <1>7, BeginsLeaves
  <2>2. "prepare" \notin Merge
    BY DEF Merge
  <2>. QED  BY <2>1, <2>2 DEF Fenced, FenceInv
<1>8. CASE Crash
  BY <1>8, <1>0 DEF Crash
<1>. QED
  BY <1>1, <1>2, <1>3, <1>4, <1>5, <1>6, <1>7, <1>8, SyncSteps DEF Turning

\* No turn commits a marker.
LEMMA KeepsUnmarked ==
  ASSUME Shape, FenceInv, [SyncNext]_syncVars
  PROVE  Unmarked'
<1>u. Unmarked
  BY DEF FenceInv, Unmarked
<1>m. More
  BY KeepsShape
<1>0. ASSUME UNCHANGED commits
      PROVE  Unmarked'
  BY <1>0, <1>u DEF Unmarked, Id, Tree
<1>1. ASSUME NEW tree \in [File -> Content], NEW parents \in SUBSET Id,
             commits' = NewCommit(tree, parents), \A f \in File : tree[f] # Markers
      PROVE  Unmarked'
  <2>1. Id' = Id \cup {NewId} /\ commits'[NewId].tree = tree
    BY <1>1, Lands
  <2>2. \A c \in Id : Tree(c)' = Tree(c)
    BY <1>m DEF More
  <2>3. ASSUME NEW c \in Id', NEW f \in File
        PROVE  Tree(c)'[f] # Markers
    <3>1. CASE c \in Id
      BY <3>1, <2>2, <1>u DEF Unmarked
    <3>2. CASE c = NewId
      BY <3>2, <2>1, <1>1 DEF Tree
    <3>. QED  BY <2>1, <3>1, <3>2
  <2>. QED  BY <2>3 DEF Unmarked
<1>2. ASSUME Prepare \/ Reprepare
      PROVE  Unmarked'
  <2>1. running.step \in Quiet
    BY <1>2 DEF Prepare, Reprepare, Quiet
  <2>2. \A f \in File : disk[f] # Markers
    BY <2>1 DEF FenceInv, Marked
  <2>. QED  BY <1>2, <2>2, Drifts, <1>0, <1>1
<1>3. CASE CommitMerge
  <2>1. \A f \in File : running.index[f] # Markers
    BY <1>3 DEF CommitMerge, FenceInv, Conflicts
  <2>. QED  BY <1>3, <2>1, MergeCommits, <1>1
<1>4. ASSUME NEW f \in File, OthersPush(f) \/ OthersResolve(f)
      PROVE  Unmarked'
  <2>1. PICK tree \in [File -> Content] : \E parents \in SUBSET Id :
           /\ commits' = NewCommit(tree, parents)
           /\ \A g \in File : \/ tree[g] = <<"theirs", others + 1>>
                              \/ \E p \in parents : tree[g] = Tree(p)[g]
           /\ others < MaxOthers
    BY <1>4, OthersMake
  <2>2. PICK parents \in SUBSET Id :
           /\ commits' = NewCommit(tree, parents)
           /\ \A g \in File : \/ tree[g] = <<"theirs", others + 1>>
                              \/ \E p \in parents : tree[g] = Tree(p)[g]
           /\ others < MaxOthers
    BY <2>1
  <2>3. <<"theirs", others + 1>> # Markers
    BY <2>2, NextPush DEF Shape
  <2>4. \A g \in File : tree[g] # Markers
    BY <2>2, <2>3, <1>u DEF Unmarked
  <2>. QED  BY <2>2, <2>4, <1>1
<1>5. ASSUME \/ Fetch \/ Compare \/ Checkout \/ MoveBranch \/ BeginMerge \/ WriteMerge
             \/ CleanMerge \/ RestoreFiles \/ ResetIndex \/ ResetHard \/ CompareAgain \/ Offer
             \/ Push \/ SwitchMode \/ Crash \/ UNCHANGED syncVars
      PROVE  UNCHANGED commits
  BY <1>5 DEF Fetch, Compare, Checkout, MoveBranch, BeginMerge, WriteMerge, CleanMerge,
    RestoreFiles, ResetIndex, ResetHard, CompareAgain, Offer, Push, SwitchMode, Crash,
    syncVars, refs
<1>6. ASSUME \/ \E f \in File : Save(f)
             \/ \E kind \in TurnKind : BeginTurn(kind)
      PROVE  UNCHANGED commits
  BY <1>6 DEF Save, BeginTurn, refs
<1>. QED  BY <1>0, <1>2, <1>3, <1>4, <1>5, <1>6 DEF SyncNext, Turning, Foreign

\* What is marked in the files, by the step the turn is at.
FilesFenced ==
  /\ running.step \in {"merge_files", "merge_commit", "merge_clean", "abort_reset"} => ~Marked
  /\ running.step = "merge_commit" => Conflicts = {}
  /\ running.step = "abort" => \A f \in File : disk[f] = Markers => f \in MergeWrites
  /\ Marked => merging

\* What a merge has to write stays the same while the head and the index do.
LEMMA SameMerge ==
  ASSUME Shape, More, head' = head, running'.index = running.index
  PROVE  MergeWrites' = MergeWrites /\ Conflicts' = Conflicts /\ Tree(head)' = Tree(head)
<1>1. Tree(head)' = Tree(head)
  BY Located DEF More
<1>. QED  BY <1>1 DEF MergeWrites, Conflicts

LEMMA Whole ==
  ASSUME Shape, FenceInv
  PROVE  /\ \A f \in File : Tree(head)[f] # Markers /\ Tree(tracking)[f] # Markers
         /\ Tree(head) \in [File -> Content] /\ Tree(tracking) \in [File -> Content]
BY Located, Trees DEF FenceInv

LEMMA KeepsFilesFenced ==
  ASSUME Shape, FenceInv, [SyncNext]_syncVars
  PROVE  FilesFenced'
<1>m. Shape' /\ More
  BY KeepsShape
<1>i. /\ running.step \in Quiet => ~merging
      /\ running.step \in Merge => merging
      /\ Marked => merging
  BY DEF FenceInv
<1>0. ASSUME running' = NotRunning \/ running'.step \in Quiet, Marked' => merging'
      PROVE  FilesFenced'
  <2>1. running'.step \notin Merge
    BY <1>0, Stopped, Apart
  <2>. QED  BY <1>0, <2>1 DEF FilesFenced, Merge
<1>d. disk' = disk => Marked' = Marked
  BY DEF Marked
<1>1. ASSUME \/ Prepare \/ Reprepare \/ Fetch \/ Compare \/ MoveBranch
             \/ CompareAgain \/ Offer \/ Push
      PROVE  FilesFenced'
  <2>1. UNCHANGED <<disk, merging>>
    BY <1>1 DEF Prepare, Reprepare, Fetch, Compare, MoveBranch, CompareAgain, Offer, Push
  <2>2. \/ Moves({"offer", "fetch"}) \/ Moves({"integrate"}) \/ Moves({"reprepare"})
        \/ Moves({"checkout", "merge", "settle"}) \/ Moves({"settle"})
        \/ Moves({"offer"}) \/ Moves({"push", "fetch"}) \/ Moves({})
    BY <1>1, Table
  <2>3. running' = NotRunning \/ running'.step \in Quiet
    BY <2>2 DEF Moves, Quiet
  <2>. QED  BY <2>1, <2>3, <1>0, <1>d, <1>i
<1>2. CASE Checkout
  <2>1. running.step \in Quiet /\ merging' = merging
        /\ (disk' = disk \/ disk' = Written(Differing(tracking), Tree(tracking)))
    BY <1>2 DEF Checkout, Quiet
  <2>2. running' = NotRunning \/ running'.step \in Quiet
    BY <1>2, Table DEF Moves, Quiet
  <2>3. ~Marked
    BY <2>1, <1>i
  <2>4. Differing(tracking) \in SUBSET File
    BY DEF Differing
  <2>5. \A f \in File : disk'[f] # Markers
    BY <2>1, <2>3, <2>4, Whole, WritesTree DEF Marked
  <2>6. ~Marked'
    BY <2>5 DEF Marked
  <2>. QED  BY <2>2, <2>6, <1>0
<1>3. CASE BeginMerge
  <2>1. /\ running.step = "merge" /\ disk' = disk /\ merging' = TRUE
        /\ \E i : running' = [running EXCEPT !.step = "merge_files", !.index = i]
    BY <1>3 DEF BeginMerge
  <2>2. running \in AnyTurn
    BY <2>1, AtWork DEF Shape
  <2>3. running'.step = "merge_files"
    BY <2>1, <2>2 DEF AnyTurn
  <2>4. ~Marked'
    BY <2>1, <1>d, <1>i DEF Quiet
  <2>. QED  BY <2>3, <2>4 DEF FilesFenced
<1>4. CASE WriteMerge
  <2>1. /\ running.step = "merge_files" /\ head' = head
        /\ \/ End("refused") /\ merging' = FALSE /\ disk' = disk
           \/ /\ disk' = Written(MergeWrites, running.index) /\ merging' = merging
              /\ \/ Conflicts = {} /\ GoTo("merge_commit")
                 \/ Conflicts # {} /\ GoTo("abort")
    BY <1>4 DEF WriteMerge, refs
  <2>2. ~Marked /\ merging
    BY <2>1, <1>i DEF FenceInv, Merge
  <2>3. CASE End("refused") /\ merging' = FALSE /\ disk' = disk
    BY <2>2, <2>3, <1>0, <1>d DEF End
  <2>4. CASE /\ disk' = Written(MergeWrites, running.index) /\ merging' = merging
             /\ \/ Conflicts = {} /\ GoTo("merge_commit")
                \/ Conflicts # {} /\ GoTo("abort")
    <3>1. running \in AnyTurn /\ MergeWrites \in SUBSET File
          /\ running.index \in [File -> Content]
      BY <2>1, AtWork DEF Shape, TurnShape, MergeWrites, Merge
    <3>2. \A f \in File : disk'[f] = IF f \in MergeWrites THEN running.index[f] ELSE disk[f]
      BY <2>4, <3>1, WritesTree
    <3>3. "merge_commit" \in Quiet \cup Merge /\ "abort" \in Quiet \cup Merge
      BY DEF Merge
    <3>4. CASE Conflicts = {} /\ GoTo("merge_commit")
      <4>1. running'.step = "merge_commit" /\ running'.index = running.index
        BY <3>1, <3>3, <3>4, Goes DEF GoTo
      <4>2. \A f \in File : disk'[f] # Markers
        BY <2>2, <3>2, <3>4 DEF Marked, Conflicts
      <4>3. ~Marked' /\ Conflicts' = {}
        BY <2>1, <3>4, <4>1, <4>2, <1>m, SameMerge DEF Marked
      <4>. QED  BY <4>1, <4>3 DEF FilesFenced
    <3>5. CASE Conflicts # {} /\ GoTo("abort")
      <4>1. running'.step = "abort" /\ running'.index = running.index
        BY <3>1, <3>3, <3>5, Goes DEF GoTo
      <4>2. \A f \in File : disk'[f] = Markers => f \in MergeWrites'
        BY <2>1, <2>2, <3>2, <4>1, <1>m, SameMerge DEF Marked
      <4>. QED  BY <2>2, <2>4, <4>1, <4>2 DEF FilesFenced
    <3>. QED  BY <2>4, <3>4, <3>5
  <2>. QED  BY <2>1, <2>3, <2>4
<1>5. CASE CommitMerge
  <2>1. running.step = "merge_commit" /\ disk' = disk /\ Moves({"merge_clean"})
    BY <1>5, Table DEF CommitMerge
  <2>2. ~Marked'
    BY <2>1, <1>d DEF FenceInv
  <2>3. running' = NotRunning \/ running'.step = "merge_clean"
    BY <2>1 DEF Moves
  <2>. QED  BY <2>2, <2>3, <1>0 DEF FilesFenced
<1>6. CASE CleanMerge
  <2>1. running.step = "merge_clean" /\ disk' = disk /\ Moves({"settle"})
    BY <1>6, Table DEF CleanMerge
  <2>2. ~Marked'
    BY <2>1, <1>d DEF FenceInv
  <2>3. running' = NotRunning \/ running'.step \in Quiet
    BY <2>1 DEF Moves, Quiet
  <2>. QED  BY <2>2, <2>3, <1>0
<1>7. CASE RestoreFiles
  <2>1. /\ running.step = "abort" /\ merging' = merging
        /\ \/ disk' = Written(MergeWrites, Tree(head)) /\ GoTo("abort_reset")
           \/ disk' = disk /\ GoTo("abort_hard")
    BY <1>7 DEF RestoreFiles, PutBack
  <2>2. /\ merging /\ \A f \in File : disk[f] = Markers => f \in MergeWrites
    BY <2>1, <1>i DEF FenceInv, Merge
  <2>3. running \in AnyTurn
    BY <2>1, AtWork DEF Shape
  <2>4. CASE disk' = Written(MergeWrites, Tree(head)) /\ GoTo("abort_reset")
    <3>1. MergeWrites \in SUBSET File
      BY DEF MergeWrites
    <3>2. \A f \in File : disk'[f] # Markers
      BY <2>2, <2>4, <3>1, Whole, WritesTree
    <3>3. running'.step = "abort_reset"
      BY <2>3, <2>4, Goes DEF GoTo, Merge
    <3>. QED  BY <3>2, <3>3 DEF FilesFenced, Marked
  <2>5. CASE disk' = disk /\ GoTo("abort_hard")
    <3>1. running'.step = "abort_hard"
      BY <2>3, <2>5, Goes DEF GoTo, Merge
    <3>. QED  BY <2>1, <2>2, <3>1 DEF FilesFenced
  <2>. QED  BY <2>1, <2>4, <2>5
<1>8. CASE ResetIndex
  <2>1. running.step = "abort_reset" /\ disk' = disk /\ running' = NotRunning
    BY <1>8 DEF ResetIndex, End
  <2>2. ~Marked'
    BY <2>1, <1>d DEF FenceInv
  <2>. QED  BY <2>1, <2>2, <1>0
<1>9. CASE ResetHard
  <2>1. /\ running' = NotRunning
        /\ disk' = Tree(head) \/ UNCHANGED <<disk, merging>>
    BY <1>9 DEF ResetHard, End
  <2>2. disk' = Tree(head) => ~Marked'
    BY Whole DEF Marked
  <2>. QED  BY <2>1, <2>2, <1>0, <1>d, <1>i
<1>10. ASSUME NEW f \in File, Save(f)
       PROVE  FilesFenced'
  <2>1. /\ disk' = [disk EXCEPT ![f] = <<"ours", saves + 1>>] /\ saves < MaxSaves
        /\ UNCHANGED <<commits, head, merging, running>>
    BY <1>10 DEF Save, refs
  <2>2. <<"ours", saves + 1>> # Markers
    BY <2>1, NextSave DEF Shape
  <2>3. \A g \in File : disk'[g] = Markers => disk[g] = Markers
    BY <2>1, <2>2, Located
  <2>4. Marked' => Marked
    BY <2>3 DEF Marked
  <2>5. MergeWrites' = MergeWrites /\ Conflicts' = Conflicts
    BY <2>1, <1>m, SameMerge
  <2>. QED  BY <2>1, <2>3, <2>4, <2>5 DEF FilesFenced, FenceInv
<1>11. ASSUME UNCHANGED <<disk, head, merging, running>>
       PROVE  FilesFenced'
  <2>1. MergeWrites' = MergeWrites /\ Conflicts' = Conflicts
    BY <1>11, <1>m, SameMerge
  <2>. QED  BY <1>11, <2>1, <1>d DEF FilesFenced, FenceInv
<1>12. ASSUME SwitchMode \/ UNCHANGED syncVars \/ \E f \in File : OthersPush(f) \/ OthersResolve(f)
       PROVE  UNCHANGED <<disk, head, merging, running>>
  BY <1>12 DEF SwitchMode, OthersPush, OthersResolve, syncVars, refs
<1>13. CASE Begins
  <2>1. UNCHANGED <<disk, head, merging>>
        /\ (UNCHANGED running \/ running'.step = "prepare")
    BY <1>13, BeginsLeaves DEF refs
  <2>2. "prepare" \in Quiet
    BY DEF Quiet
  <2>3. CASE UNCHANGED running
    BY <2>1, <2>3, <1>11
  <2>4. CASE running'.step = "prepare"
    BY <2>1, <2>2, <2>4, <1>0, <1>d, <1>i
  <2>. QED  BY <2>1, <2>3, <2>4
<1>14. CASE Crash
  <2>1. running' = NotRunning /\ merging' = merging /\ running # NotRunning
    BY <1>14 DEF Crash
  <2>2. CASE merging
    BY <2>1, <2>2, <1>0
  <2>3. CASE ~merging
    <3>1. running.step \notin {"merge_files", "abort"}
      BY <2>3, <1>i DEF Merge
    <3>2. Unwritten \in SUBSET File /\ BeingWritten \in [File -> Content]
      BY <2>1, Dying
    <3>3. \A f \in Unwritten : BeingWritten[f] # Markers
      BY <3>1, <3>2, Whole DEF BeingWritten
    <3>4. PICK files \in SUBSET Unwritten : disk' = Written(files, BeingWritten)
      BY <1>14 DEF Crash
    <3>5. files \in SUBSET File
      BY <3>2
    <3>6. \A f \in File : disk'[f] = IF f \in files THEN BeingWritten[f] ELSE disk[f]
      BY <3>2, <3>4, <3>5, WritesTree
    <3>7. \A f \in File : disk'[f] # Markers
      BY <2>3, <3>3, <3>6, <1>i DEF Marked
    <3>. QED  BY <2>1, <3>7, <1>0 DEF Marked
  <2>. QED  BY <2>2, <2>3
<1>. QED
  BY <1>1, <1>2, <1>3, <1>4, <1>5, <1>6, <1>7, <1>8, <1>9, <1>10, <1>11, <1>12, <1>13, <1>14
  DEF SyncNext, Turning, Foreign, Begins

LEMMA KeepsFence ==
  ASSUME Shape, FenceInv, [SyncNext]_syncVars
  PROVE  FenceInv'
BY KeepsFenced, KeepsUnmarked, KeepsFilesFenced DEF Fenced, Unmarked, FilesFenced, FenceInv

(***************************************************************************)
(* Saves                                                                   *)
(***************************************************************************)
LEMMA Fresh ==
  ASSUME Shape
  PROVE  /\ Original \in Old /\ Markers \in Old
         /\ saves < MaxSaves => <<"ours", saves + 1>> \notin Old
         /\ others < MaxOthers => <<"theirs", others + 1>> \in Old
<1>1. saves \in Nat
  BY DEF Shape, FileShape
<1>2. Original \in Old /\ Markers \in Old
  BY Contents DEF Old, Original, Markers
<1>3. <<"ours", saves + 1>> \notin Old
  <2>. DEFINE v == <<"ours", saves + 1>>
  <2>1. v[1] = "ours" /\ v[2] = saves + 1
    OBVIOUS
  <2>2. ~(saves + 1 <= saves)
    BY <1>1
  <2>. HIDE DEF v
  <2>3. v \notin Old
    BY <2>1, <2>2 DEF Old
  <2>. QED  BY <2>3 DEF v
<1>4. others < MaxOthers => <<"theirs", others + 1>> \in Old
  BY NextPush DEF Shape, Old
<1>. QED  BY <1>2, <1>3, <1>4

LEMMA OldGrows ==
  ASSUME Shape, [SyncNext]_syncVars
  PROVE  Old \subseteq Old'
<1>1. saves' = saves \/ saves' = saves + 1
  <2>1. ASSUME \/ Prepare \/ Fetch \/ Reprepare \/ Compare \/ Checkout \/ MoveBranch \/ BeginMerge
               \/ WriteMerge \/ CommitMerge \/ CleanMerge \/ RestoreFiles \/ ResetIndex
               \/ ResetHard \/ CompareAgain \/ Offer \/ Push \/ SwitchMode \/ Crash
        PROVE  saves' = saves
    BY <2>1 DEF Prepare, Fetch, Reprepare, Compare, Checkout, MoveBranch, BeginMerge, WriteMerge,
      CommitMerge, CleanMerge, RestoreFiles, ResetIndex, ResetHard, CompareAgain, Offer, Push,
      SwitchMode, Crash, Faulty, Others, counts
  <2>2. ASSUME \E f \in File : Save(f) \/ OthersPush(f) \/ OthersResolve(f)
        PROVE  saves' = saves \/ saves' = saves + 1
    BY <2>2 DEF Save, OthersPush, OthersResolve, Others
  <2>3. ASSUME UNCHANGED syncVars \/ Begins
        PROVE  saves' = saves
    BY <2>3, BeginsLeaves DEF syncVars, counts
  <2>. QED  BY <2>1, <2>2, <2>3, SyncSteps DEF Turning, Beside
<1>2. saves \in Nat
  BY DEF Shape, FileShape
<1>3. ASSUME NEW v \in Old
      PROVE  v \in Old'
  <2>1. v \in Content /\ (v[1] = "ours" => v[2] <= saves)
    BY <1>3 DEF Old
  <2>2. v[1] = "ours" => v[2] \in Nat
    BY <2>1 DEF Content, Original, Markers
  <2>3. ASSUME v[1] = "ours"
        PROVE  v[2] <= saves'
    <3>. DEFINE n == v[2]
    <3>1. n \in Nat /\ n <= saves
      BY <2>1, <2>2, <2>3
    <3>. HIDE DEF n
    <3>2. n <= saves'
      BY <3>1, <1>1, <1>2
    <3>. QED  BY <3>2 DEF n
  <2>. QED  BY <2>1, <2>3 DEF Old
<1>. QED  BY <1>3

OldTrees == \A c \in Id : \A f \in File : Tree(c)[f] \in Old
OldFiles == \A f \in File : disk[f] \in Old
OldIndex == running.step \in Merge => \A f \in File : running.index[f] \in Old

LEMMA KeepsOldTrees ==
  ASSUME Shape, OldInv, [SyncNext]_syncVars
  PROVE  OldTrees'
<1>u. OldTrees /\ OldFiles /\ OldIndex /\ Old \subseteq Old'
  BY OldGrows DEF OldInv, OldTrees, OldFiles, OldIndex
<1>m. More
  BY KeepsShape
<1>0. ASSUME UNCHANGED commits
      PROVE  OldTrees'
  <2>1. Id' = Id /\ \A c \in Id : Tree(c)' = Tree(c)
    BY <1>0 DEF Id, Tree
  <2>. QED  BY <2>1, <1>u DEF OldTrees
<1>1. ASSUME NEW tree \in [File -> Content], NEW parents \in SUBSET Id,
             commits' = NewCommit(tree, parents), \A f \in File : tree[f] \in Old
      PROVE  OldTrees'
  <2>1. Id' = Id \cup {NewId} /\ commits'[NewId].tree = tree
    BY <1>1, Lands
  <2>2. \A c \in Id : Tree(c)' = Tree(c)
    BY <1>m DEF More
  <2>3. ASSUME NEW c \in Id', NEW f \in File
        PROVE  Tree(c)'[f] \in Old'
    <3>1. CASE c \in Id
      BY <3>1, <2>2, <1>u DEF OldTrees
    <3>2. CASE c = NewId
      BY <3>2, <2>1, <1>1, <1>u DEF Tree
    <3>. QED  BY <2>1, <3>1, <3>2
  <2>. QED  BY <2>3 DEF OldTrees
<1>2. ASSUME Prepare \/ Reprepare
      PROVE  OldTrees'
  BY <1>2, <1>u, Drifts, <1>0, <1>1 DEF OldFiles
<1>3. CASE CommitMerge
  <2>1. \A f \in File : running.index[f] \in Old
    BY <1>3, <1>u DEF CommitMerge, OldIndex, Merge
  <2>. QED  BY <1>3, <2>1, MergeCommits, <1>1
<1>4. ASSUME NEW f \in File, OthersPush(f) \/ OthersResolve(f)
      PROVE  OldTrees'
  <2>1. PICK tree \in [File -> Content] : \E parents \in SUBSET Id :
           /\ commits' = NewCommit(tree, parents)
           /\ \A g \in File : \/ tree[g] = <<"theirs", others + 1>>
                              \/ \E p \in parents : tree[g] = Tree(p)[g]
           /\ others < MaxOthers
    BY <1>4, OthersMake
  <2>2. PICK parents \in SUBSET Id :
           /\ commits' = NewCommit(tree, parents)
           /\ \A g \in File : \/ tree[g] = <<"theirs", others + 1>>
                              \/ \E p \in parents : tree[g] = Tree(p)[g]
           /\ others < MaxOthers
    BY <2>1
  <2>3. <<"theirs", others + 1>> \in Old
    BY <2>2, Fresh
  <2>4. \A g \in File : tree[g] \in Old
    BY <2>2, <2>3, <1>u DEF OldTrees
  <2>. QED  BY <2>2, <2>4, <1>1
<1>5. ASSUME \/ Fetch \/ Compare \/ Checkout \/ MoveBranch \/ BeginMerge \/ WriteMerge
             \/ CleanMerge \/ RestoreFiles \/ ResetIndex \/ ResetHard \/ CompareAgain \/ Offer
             \/ Push \/ SwitchMode \/ Crash \/ UNCHANGED syncVars
      PROVE  UNCHANGED commits
  BY <1>5 DEF Fetch, Compare, Checkout, MoveBranch, BeginMerge, WriteMerge, CleanMerge,
    RestoreFiles, ResetIndex, ResetHard, CompareAgain, Offer, Push, SwitchMode, Crash,
    syncVars, refs
<1>6. ASSUME \/ \E f \in File : Save(f)
             \/ \E kind \in TurnKind : BeginTurn(kind)
      PROVE  UNCHANGED commits
  BY <1>6 DEF Save, BeginTurn, refs
<1>. QED  BY <1>0, <1>2, <1>3, <1>4, <1>5, <1>6 DEF SyncNext, Turning, Foreign

LEMMA KeepsOldFiles ==
  ASSUME Shape, OldInv, [SyncNext]_syncVars
  PROVE  OldFiles'
<1>u. OldTrees /\ OldFiles /\ OldIndex /\ Old \subseteq Old'
  BY OldGrows DEF OldInv, OldTrees, OldFiles, OldIndex
<1>r. /\ Tree(head) \in [File -> Content] /\ Tree(tracking) \in [File -> Content]
      /\ \A f \in File : Tree(head)[f] \in Old /\ Tree(tracking)[f] \in Old
  BY <1>u, Located, Trees DEF OldTrees
<1>0. ASSUME NEW files \in SUBSET File, NEW tree \in [File -> Content],
             \A f \in files : tree[f] \in Old, disk' = Written(files, tree)
      PROVE  OldFiles'
  <2>1. \A f \in File : disk'[f] = IF f \in files THEN tree[f] ELSE disk[f]
    BY <1>0, WritesTree
  <2>. QED  BY <2>1, <1>0, <1>u DEF OldFiles
<1>00. disk' = disk => OldFiles'
  BY <1>u DEF OldFiles
<1>1. CASE Checkout
  <2>1. disk' = disk \/ disk' = Written(Differing(tracking), Tree(tracking))
    BY <1>1 DEF Checkout
  <2>2. Differing(tracking) \in SUBSET File
    BY DEF Differing
  <2>. QED  BY <2>1, <2>2, <1>0, <1>00, <1>r
<1>2. CASE WriteMerge
  <2>1. running.step = "merge_files" /\ (disk' = disk \/ disk' = Written(MergeWrites, running.index))
    BY <1>2 DEF WriteMerge
  <2>2. /\ MergeWrites \in SUBSET File /\ running.index \in [File -> Content]
        /\ \A f \in File : running.index[f] \in Old
    BY <2>1, <1>u DEF MergeWrites, Shape, TurnShape, Merge, OldIndex
  <2>. QED  BY <2>1, <2>2, <1>0, <1>00
<1>3. CASE RestoreFiles
  <2>1. disk' = disk \/ disk' = Written(MergeWrites, Tree(head))
    BY <1>3 DEF RestoreFiles, PutBack
  <2>2. MergeWrites \in SUBSET File
    BY DEF MergeWrites
  <2>. QED  BY <2>1, <2>2, <1>0, <1>00, <1>r
<1>4. CASE ResetHard
  <2>1. disk' = disk \/ disk' = Tree(head)
    BY <1>4 DEF ResetHard
  <2>. QED  BY <2>1, <1>00, <1>r, <1>u DEF OldFiles
<1>5. CASE Crash
  <2>1. PICK files \in SUBSET Unwritten : disk' = Written(files, BeingWritten)
    BY <1>5 DEF Crash
  <2>2. Unwritten \in SUBSET File /\ BeingWritten \in [File -> Content]
    BY <1>5, Dying DEF Crash
  <2>3. \A f \in File : BeingWritten[f] \in Old
    BY <1>r, <1>u DEF BeingWritten, OldIndex, Merge
  <2>4. files \in SUBSET File
    BY <2>2
  <2>. QED  BY <2>1, <2>2, <2>3, <2>4, <1>0
<1>6. ASSUME NEW f \in File, Save(f)
      PROVE  OldFiles'
  <2>1. /\ disk' = [disk EXCEPT ![f] = <<"ours", saves + 1>>] /\ saves < MaxSaves
        /\ saves' = saves + 1
    BY <1>6 DEF Save
  <2>2. <<"ours", saves + 1>> \in Content
    BY <2>1, NextSave DEF Shape
  <2>3. saves + 1 <= saves'
    BY <2>1 DEF Shape, FileShape
  <2>4. <<"ours", saves + 1>> \in Old'
    <3>. DEFINE v == <<"ours", saves + 1>>
    <3>1. v[2] = saves + 1 /\ v \in Content
      BY <2>2
    <3>2. v[2] <= saves'
      BY <3>1, <2>3
    <3>. HIDE DEF v
    <3>3. v \in Old'
      BY <3>1, <3>2 DEF Old
    <3>. QED  BY <3>3 DEF v
  <2>5. \A g \in File : disk'[g] = IF g = f THEN <<"ours", saves + 1>> ELSE disk[g]
    BY <2>1, Located
  <2>. QED  BY <2>4, <2>5, <1>u DEF OldFiles
<1>7. ASSUME \/ Prepare \/ Reprepare \/ Fetch \/ Compare \/ MoveBranch \/ BeginMerge
             \/ CommitMerge \/ CleanMerge \/ ResetIndex \/ CompareAgain \/ Offer \/ Push
             \/ SwitchMode \/ UNCHANGED syncVars
             \/ \E f \in File : OthersPush(f) \/ OthersResolve(f)
      PROVE  disk' = disk
  BY <1>7 DEF Prepare, Reprepare, Fetch, Compare, MoveBranch, BeginMerge, CommitMerge, CleanMerge,
    ResetIndex, CompareAgain, Offer, Push, SwitchMode, OthersPush, OthersResolve, syncVars
<1>8. Begins => disk' = disk
  BY BeginsLeaves
<1>. QED
  BY <1>00, <1>1, <1>2, <1>3, <1>4, <1>5, <1>6, <1>7, <1>8 DEF SyncNext, Turning, Foreign, Begins

LEMMA KeepsOldIndex ==
  ASSUME Shape, OldInv, [SyncNext]_syncVars
  PROVE  OldIndex'
<1>u. OldTrees /\ OldFiles /\ OldIndex /\ Old \subseteq Old'
  BY OldGrows DEF OldInv, OldTrees, OldFiles, OldIndex
<1>0. ASSUME running' = NotRunning \/ running'.step \in Quiet
      PROVE  OldIndex'
  BY <1>0, Stopped, Apart DEF OldIndex
<1>1. ASSUME \/ Prepare \/ Reprepare \/ Fetch \/ Compare \/ Checkout \/ MoveBranch
             \/ CleanMerge \/ ResetIndex \/ ResetHard \/ CompareAgain \/ Offer \/ Push
      PROVE  OldIndex'
  <2>1. \/ Moves({"offer", "fetch"}) \/ Moves({"integrate"}) \/ Moves({"reprepare"})
        \/ Moves({"checkout", "merge", "settle"}) \/ Moves({"forward"}) \/ Moves({"settle"})
        \/ Moves({"offer"}) \/ Moves({"push", "fetch"}) \/ Moves({})
    BY <1>1, Table
  <2>2. running' = NotRunning \/ running'.step \in Quiet
    BY <2>1 DEF Moves, Quiet
  <2>. QED  BY <2>2, <1>0
<1>2. CASE BeginMerge
  <2>1. running.step = "merge"
        /\ \E b \in Bases : running' = [running EXCEPT !.step = "merge_files", !.index = MergeFrom(b)]
    BY <1>2 DEF BeginMerge
  <2>2. PICK b \in Bases : running' = [running EXCEPT !.step = "merge_files", !.index = MergeFrom(b)]
    BY <2>1
  <2>3. running \in AnyTurn
    BY <2>1, AtWork DEF Shape
  <2>4. running'.index = MergeFrom(b)
    BY <2>2, <2>3 DEF AnyTurn
  <2>5. \A f \in File : MergeFrom(b)[f] \in Old
    BY BaseIsKnown, Merges, Fresh, Located, <1>u DEF OldTrees
  <2>. QED  BY <2>4, <2>5, <1>u DEF OldIndex
<1>3. ASSUME WriteMerge \/ CommitMerge \/ RestoreFiles
      PROVE  OldIndex'
  <2>1. running.step \in Merge
    BY <1>3 DEF WriteMerge, CommitMerge, RestoreFiles, Merge
  <2>2. \E S : Moves(S)
    BY <1>3, Table
  <2>3. running' = NotRunning \/ running'.index = running.index
    BY <2>2 DEF Moves
  <2>. QED  BY <2>1, <2>3, <1>u, <1>0 DEF OldIndex
<1>4. CASE Beside \/ UNCHANGED syncVars
  <2>1. UNCHANGED running
    BY <1>4, BesideLeaves DEF syncVars
  <2>. QED  BY <2>1, <1>u DEF OldIndex
<1>5. CASE Begins
  <2>1. UNCHANGED running \/ running'.step = "prepare"
    BY <1>5, BeginsLeaves
  <2>2. "prepare" \in Quiet
    BY DEF Quiet
  <2>. QED  BY <2>1, <2>2, <1>0, <1>u DEF OldIndex
<1>6. CASE Crash
  BY <1>6, <1>0 DEF Crash
<1>. QED
  BY <1>1, <1>2, <1>3, <1>4, <1>5, <1>6, SyncSteps DEF Turning

LEMMA KeepsOld ==
  ASSUME Shape, OldInv, [SyncNext]_syncVars
  PROVE  OldInv'
BY KeepsOldTrees, KeepsOldFiles, KeepsOldIndex DEF OldTrees, OldFiles, OldIndex, OldInv

\* What is in the history stays there, and the head's tree is in the history.
LEMMA KeptStays ==
  ASSUME Shape, RefInv, [SyncNext]_syncVars, NEW f \in File, saved'[f] = saved[f], Kept(f)
  PROVE  Kept(f)'
<1>m. More /\ Grown /\ Anc(head) \in SUBSET Id
  BY KeepsShape, BranchesGrow, Located, Ancestry
<1>1. PICK c \in Anc(head) : saved[f] = Tree(c)[f]
  BY DEF Kept
<1>2. c \in Anc(head)' /\ Tree(c)' = Tree(c)
  BY <1>m DEF More, Grown
<1>. QED  BY <1>1, <1>2 DEF Kept

LEMMA HeadIsKept ==
  ASSUME Shape, NEW f \in File, saved[f] = Tree(head)[f]
  PROVE  Kept(f)
BY Located, Ancestry DEF Kept

Safe(f) == saved[f] = disk[f] \/ Kept(f)

LEMMA KeepsSaves ==
  ASSUME Shape, RefInv, OldInv, SaveInv, [SyncNext]_syncVars
  PROVE  SaveInv'
<1>m. Shape' /\ More
  BY KeepsShape
<1>s. \A f \in File \ trampled : Safe(f)
  BY DEF SaveInv, SavesSurvive, Safe, Kept
<1>0. ASSUME running' = NotRunning \/ running'.step # "abort",
             \A f \in File \ trampled' : Safe(f)'
      PROVE  SaveInv'
  <2>1. running'.step # "abort"
    BY <1>0, Stopped DEF Merge
  <2>. QED  BY <1>0, <2>1 DEF SaveInv, SavesSurvive, Safe, Kept
<1>k. \A f \in File : saved'[f] = saved[f] /\ Kept(f) => Kept(f)'
  BY KeptStays
<1>d. ASSUME UNCHANGED <<disk, saved, trampled>>
      PROVE  \A f \in File \ trampled' : Safe(f)'
  BY <1>d, <1>s, <1>k DEF Safe
<1>1. ASSUME \/ Prepare \/ Reprepare \/ Fetch \/ Compare \/ MoveBranch
             \/ CommitMerge \/ CleanMerge \/ ResetIndex \/ CompareAgain \/ Offer \/ Push
      PROVE  SaveInv'
  <2>1. UNCHANGED <<disk, saved, trampled>>
    BY <1>1 DEF Prepare, Reprepare, Fetch, Compare, MoveBranch, CommitMerge, CleanMerge,
      ResetIndex, CompareAgain, Offer, Push, history
  <2>2. \/ Moves({"offer", "fetch"}) \/ Moves({"integrate"}) \/ Moves({"reprepare"})
        \/ Moves({"checkout", "merge", "settle"}) \/ Moves({"settle"}) \/ Moves({"merge_clean"})
        \/ Moves({"offer"}) \/ Moves({"push", "fetch"}) \/ Moves({})
    BY <1>1, Table
  <2>3. running' = NotRunning \/ running'.step # "abort"
    BY <2>2 DEF Moves
  <2>. QED  BY <2>1, <2>3, <1>0, <1>d
<1>2. CASE BeginMerge
  <2>1. /\ running.step = "merge" /\ UNCHANGED <<disk, saved, trampled>>
        /\ \E i : running' = [running EXCEPT !.step = "merge_files", !.index = i]
    BY <1>2 DEF BeginMerge, history
  <2>2. running \in AnyTurn
    BY <2>1, AtWork DEF Shape
  <2>3. running'.step = "merge_files"
    BY <2>1, <2>2 DEF AnyTurn
  <2>. QED  BY <2>1, <2>3, <1>0, <1>d
<1>3. CASE Checkout
  <2>1. /\ UNCHANGED <<saved, trampled>> /\ Moves({"forward"})
        /\ \/ disk' = disk
           \/ Overwrites(tracking) = {} /\ disk' = Written(Differing(tracking), Tree(tracking))
    BY <1>3, Table DEF Checkout, history
  <2>2. running' = NotRunning \/ running'.step # "abort"
    BY <2>1 DEF Moves
  <2>3. CASE disk' = disk
    BY <2>1, <2>2, <2>3, <1>0, <1>d
  <2>4. CASE Overwrites(tracking) = {} /\ disk' = Written(Differing(tracking), Tree(tracking))
    <3>1. Differing(tracking) \in SUBSET File /\ Tree(tracking) \in [File -> Content]
      BY Located, Trees DEF Differing
    <3>2. ASSUME NEW f \in File \ trampled'
          PROVE  Safe(f)'
      <4>1. disk'[f] = IF f \in Differing(tracking) THEN Tree(tracking)[f] ELSE disk[f]
        BY <2>4, <3>1, WritesTree
      <4>2. f \in Differing(tracking) => disk[f] \in {Tree(head)[f], Tree(tracking)[f]}
        BY <2>4 DEF Overwrites
      <4>3. Safe(f) /\ saved'[f] = saved[f]
        BY <2>1, <1>s
      <4>4. CASE Kept(f)
        BY <4>3, <4>4, <1>k DEF Safe
      <4>5. CASE saved[f] = disk[f] /\ f \in Differing(tracking) /\ disk[f] = Tree(head)[f]
        <5>1. Kept(f)
          BY <4>5, HeadIsKept
        <5>. QED  BY <5>1, <4>3, <1>k DEF Safe
      <4>6. CASE saved[f] = disk[f] /\ disk'[f] = disk[f]
        BY <4>3, <4>6 DEF Safe
      <4>. QED  BY <4>1, <4>2, <4>3, <4>4, <4>5, <4>6 DEF Safe
    <3>. QED  BY <3>2, <2>2, <1>0
  <2>. QED  BY <2>1, <2>3, <2>4
<1>4. CASE WriteMerge
  <2>1. /\ UNCHANGED <<saved, trampled, head>> /\ running.step = "merge_files"
        /\ \/ disk' = disk /\ running' = NotRunning
           \/ /\ MergeWrites \cap Dirty = {} /\ disk' = Written(MergeWrites, running.index)
              /\ GoTo("merge_commit") \/ GoTo("abort")
    BY <1>4 DEF WriteMerge, history, End, refs
  <2>2. CASE disk' = disk /\ running' = NotRunning
    BY <2>1, <2>2, <1>0, <1>d
  <2>3. CASE /\ MergeWrites \cap Dirty = {} /\ disk' = Written(MergeWrites, running.index)
             /\ GoTo("merge_commit") \/ GoTo("abort")
    <3>1. /\ running \in AnyTurn /\ MergeWrites \in SUBSET File
          /\ running.index \in [File -> Content]
      BY <2>1, AtWork DEF Shape, TurnShape, MergeWrites, Merge
    <3>2. running'.index = running.index
      BY <2>3, <3>1 DEF GoTo, AnyTurn
    <3>3. \A f \in File : disk'[f] = IF f \in MergeWrites THEN running.index[f] ELSE disk[f]
      BY <2>3, <3>1, WritesTree
    <3>4. \A f \in MergeWrites : disk[f] = Tree(head)[f]
      BY <2>3, <3>1 DEF Dirty
    <3>5. \A f \in MergeWrites \ trampled : Kept(f)
      BY <3>1, <3>4, <1>s, HeadIsKept DEF Safe
    <3>6. \A f \in MergeWrites \ trampled : Kept(f)'
      BY <3>1, <3>5, <2>1, <1>k
    <3>7. \A f \in File \ trampled' : Safe(f)'
      BY <2>1, <3>3, <3>6, <1>s, <1>k DEF Safe
    <3>8. MergeWrites' = MergeWrites
      BY <2>1, <3>2, <1>m, SameMerge
    <3>. QED  BY <2>1, <3>6, <3>7, <3>8 DEF SaveInv, SavesSurvive, Safe, Kept
  <2>. QED  BY <2>1, <2>2, <2>3
<1>5. CASE RestoreFiles
  <2>1. /\ running.step = "abort" /\ saved' = saved
        /\ \/ /\ disk' = Written(MergeWrites, Tree(head))
              /\ trampled' = trampled \cup {f \in MergeWrites : disk[f] # running.index[f]}
           \/ UNCHANGED <<disk, trampled>>
    BY <1>5 DEF RestoreFiles, PutBack
  <2>2. running' = NotRunning \/ running'.step # "abort"
    BY <1>5, Table DEF Moves
  <2>3. CASE UNCHANGED <<disk, trampled>>
    BY <2>1, <2>2, <2>3, <1>0, <1>d
  <2>4. CASE /\ disk' = Written(MergeWrites, Tree(head))
             /\ trampled' = trampled \cup {f \in MergeWrites : disk[f] # running.index[f]}
    <3>1. MergeWrites \in SUBSET File /\ Tree(head) \in [File -> Content]
      BY Located, Trees DEF MergeWrites
    <3>2. \A f \in File : disk'[f] = IF f \in MergeWrites THEN Tree(head)[f] ELSE disk[f]
      BY <2>4, <3>1, WritesTree
    <3>3. \A f \in MergeWrites \ trampled' : Kept(f)
      BY <2>1, <2>4 DEF SaveInv
    <3>4. \A f \in File \ trampled' : Safe(f)'
      BY <2>1, <2>4, <3>2, <3>3, <1>s, <1>k DEF Safe
    <3>. QED  BY <2>2, <3>4, <1>0
  <2>. QED  BY <2>1, <2>3, <2>4
<1>6. CASE ResetHard
  <2>1. /\ running' = NotRunning /\ saved' = saved
        /\ \/ disk' = Tree(head) /\ trampled' = trampled \cup Dirty
           \/ UNCHANGED <<disk, trampled>>
    BY <1>6 DEF ResetHard, End
  <2>2. CASE UNCHANGED <<disk, trampled>>
    BY <2>1, <2>2, <1>0, <1>d
  <2>3. CASE disk' = Tree(head) /\ trampled' = trampled \cup Dirty
    <3>1. \A f \in File \ trampled' : disk'[f] = disk[f] /\ f \notin trampled
      BY <2>3 DEF Dirty
    <3>2. \A f \in File \ trampled' : Safe(f)'
      BY <2>1, <3>1, <1>s, <1>k DEF Safe
    <3>. QED  BY <2>1, <3>2, <1>0
  <2>. QED  BY <2>1, <2>2, <2>3
<1>7. ASSUME NEW f \in File, Save(f)
      PROVE  SaveInv'
  <2>. DEFINE v == <<"ours", saves + 1>>
  <2>1. /\ disk' = [disk EXCEPT ![f] = v] /\ saved' = [saved EXCEPT ![f] = v]
        /\ trampled' = trampled \ {f} /\ UNCHANGED <<running, head>> /\ saves < MaxSaves
    BY <1>7 DEF Save, refs
  <2>2. v \notin Old
    BY <2>1, Fresh
  <2>. HIDE DEF v
  <2>3. \A g \in File : /\ disk'[g] = IF g = f THEN v ELSE disk[g]
                        /\ saved'[g] = IF g = f THEN v ELSE saved[g]
    BY <2>1, Located DEF Shape, FileShape
  <2>4. \A g \in File \ trampled' : Safe(g)'
    BY <2>1, <2>3, <1>s, <1>k DEF Safe
  <2>5. ASSUME running.step = "abort"
        PROVE  \A g \in MergeWrites' \ trampled' : disk'[g] = running'.index[g] => Kept(g)'
    <3>1. MergeWrites' = MergeWrites /\ MergeWrites \in SUBSET File
      BY <2>1, <1>m, SameMerge DEF MergeWrites
    <3>2. \A g \in File : running.index[g] \in Old
      BY <2>5 DEF OldInv, Merge
    <3>3. ASSUME NEW g \in MergeWrites \ trampled', disk'[g] = running'.index[g]
          PROVE  Kept(g)'
      <4>1. g # f
        BY <2>1, <2>2, <2>3, <3>1, <3>2, <3>3
      <4>2. disk[g] = running.index[g] /\ saved'[g] = saved[g] /\ g \notin trampled
        BY <2>1, <2>3, <3>1, <3>3, <4>1
      <4>3. Kept(g)
        BY <2>5, <3>3, <4>2 DEF SaveInv
      <4>. QED  BY <3>1, <4>2, <4>3, <1>k
    <3>. QED  BY <3>1, <3>3
  <2>. QED  BY <2>1, <2>4, <2>5 DEF SaveInv, SavesSurvive, Safe, Kept
<1>8. ASSUME UNCHANGED <<disk, saved, trampled, head, running>>
      PROVE  SaveInv'
  <2>1. \A f \in File \ trampled' : Safe(f)'
    BY <1>8, <1>d
  <2>2. MergeWrites' = MergeWrites /\ MergeWrites \in SUBSET File
    BY <1>8, <1>m, SameMerge DEF MergeWrites
  <2>3. ASSUME running.step = "abort"
        PROVE  \A g \in MergeWrites' \ trampled' : disk'[g] = running'.index[g] => Kept(g)'
    BY <1>8, <2>2, <2>3, <1>k DEF SaveInv
  <2>. QED  BY <1>8, <2>1, <2>3 DEF SaveInv, SavesSurvive, Safe, Kept
<1>9. ASSUME SwitchMode \/ UNCHANGED syncVars \/ \E f \in File : OthersPush(f) \/ OthersResolve(f)
      PROVE  SaveInv'
  <2>1. UNCHANGED <<disk, saved, trampled, head, running>>
    BY <1>9 DEF SwitchMode, OthersPush, OthersResolve, syncVars, refs, history
  <2>. QED  BY <2>1, <1>8
<1>10. CASE Begins
  <2>1. UNCHANGED <<disk, saved, trampled, head>> /\ (UNCHANGED running \/ running'.step = "prepare")
    BY <1>10, BeginsLeaves DEF refs, history
  <2>2. CASE UNCHANGED running
    BY <2>1, <2>2, <1>8
  <2>3. CASE running'.step = "prepare"
    BY <2>1, <2>3, <1>0, <1>d
  <2>. QED  BY <2>1, <2>2, <2>3
<1>11. CASE Crash
  <2>1. running # NotRunning /\ running' = NotRunning /\ saved' = saved /\ head' = head
    BY <1>11 DEF Crash, refs
  <2>2. PICK files \in SUBSET Unwritten :
          /\ disk' = Written(files, BeingWritten)
          /\ trampled' = IF running.step # "abort" THEN trampled
                         ELSE trampled \cup {f \in files : disk[f] # running.index[f]}
    BY <1>11 DEF Crash
  <2>3. Unwritten \in SUBSET File /\ BeingWritten \in [File -> Content] /\ files \in SUBSET File
    BY <2>1, Dying
  <2>4. \A f \in File : disk'[f] = IF f \in files THEN BeingWritten[f] ELSE disk[f]
    BY <2>2, <2>3, WritesTree
  <2>5. ASSUME NEW f \in File \ trampled'
        PROVE  Safe(f)'
    <3>1. f \notin trampled /\ Safe(f) /\ saved'[f] = saved[f]
      BY <2>1, <2>2, <1>s
    <3>2. CASE f \notin files
      BY <3>1, <3>2, <2>4, <1>k DEF Safe
    <3>3. CASE f \in files /\ running.step = "checkout"
      <4>1. f \in Differing(tracking) /\ Overwrites(tracking) = {}
        BY <3>3 DEF Unwritten
      <4>2. disk[f] \in {Tree(head)[f], Tree(tracking)[f]}
        BY <4>1 DEF Overwrites
      <4>3. disk'[f] = Tree(tracking)[f]
        BY <2>4, <3>3 DEF BeingWritten
      <4>4. Kept(f) => Kept(f)'
        BY <3>1, <1>k
      <4>5. CASE saved[f] = disk[f] /\ disk[f] = Tree(head)[f]
        BY <4>4, <4>5, HeadIsKept DEF Safe
      <4>6. CASE saved[f] = disk[f] /\ disk[f] = Tree(tracking)[f]
        BY <3>1, <4>3, <4>6 DEF Safe
      <4>. QED  BY <3>1, <4>2, <4>4, <4>5, <4>6 DEF Safe
    <3>4. CASE f \in files /\ running.step = "merge_files"
      <4>1. f \in MergeWrites /\ MergeWrites \cap Dirty = {}
        BY <3>4 DEF Unwritten
      <4>2. disk[f] = Tree(head)[f]
        BY <4>1 DEF Dirty
      <4>3. Kept(f)
        BY <3>1, <4>2, HeadIsKept DEF Safe
      <4>. QED  BY <3>1, <4>3, <1>k DEF Safe
    <3>5. CASE f \in files /\ running.step = "abort"
      <4>1. f \in MergeWrites /\ disk[f] = running.index[f]
        BY <2>2, <3>5 DEF Unwritten, PutBack
      <4>2. Kept(f)
        BY <3>1, <3>5, <4>1 DEF SaveInv
      <4>. QED  BY <3>1, <4>2, <1>k DEF Safe
    <3>. QED  BY <3>2, <3>3, <3>4, <3>5 DEF Unwritten
  <2>. QED  BY <2>1, <2>5, <1>0
<1>. QED
  BY <1>1, <1>2, <1>3, <1>4, <1>5, <1>6, <1>7, <1>9, <1>10, <1>11
  DEF SyncNext, Turning, Foreign, Begins

(***************************************************************************)
(* The invariant, and what it gives                                        *)
(***************************************************************************)
SyncInv == Shape /\ RefInv /\ SuccessIsOnRemote /\ FenceInv /\ OldInv /\ SaveInv

LEMMA InitSyncInv == SyncInit => SyncInv
<1>. SUFFICES ASSUME SyncInit
              PROVE  SyncInv
  OBVIOUS
<1>1. Shape
  BY InitShape
<1>2. /\ head = 1 /\ tracking = 1 /\ remote = 1 /\ running = NotRunning /\ result = "none"
      /\ merging = FALSE /\ disk = [f \in File |-> Original] /\ saved = [f \in File |-> Original]
      /\ commits = <<[tree |-> [f \in File |-> Original], anc |-> {1}]>>
  BY DEF SyncInit
<1>3. Id = {1} /\ Tree(1) = [f \in File |-> Original]
  <2>. DEFINE c0 == [tree |-> [f \in File |-> Original], anc |-> {1}]
  <2>1. commits = <<c0>> /\ c0.tree = [f \in File |-> Original]
    BY <1>2
  <2>. HIDE DEF c0
  <2>2. Len(commits) = 1 /\ commits[1] = c0
    BY <2>1
  <2>. QED  BY <2>1, <2>2 DEF Id, Tree
<1>4. RefInv
  BY <1>1, <1>2, Located, Ancestry, Stopped DEF RefInv
<1>5. SuccessIsOnRemote
  BY <1>2 DEF SuccessIsOnRemote
<1>6. \A f \in File : disk[f] = Original /\ Tree(1)[f] = Original /\ saved[f] = disk[f]
  BY <1>2, <1>3
<1>7. running.step \notin Quiet \cup Merge
  BY <1>2, Stopped
<1>8. FenceInv
  BY <1>3, <1>6, <1>7, Contents DEF FenceInv, Marked, Merge
<1>9. OldInv
  BY <1>1, <1>3, <1>6, <1>7, Fresh DEF OldInv
<1>10. SaveInv
  BY <1>6, <1>7 DEF SaveInv, SavesSurvive, Merge
<1>. QED  BY <1>1, <1>4, <1>5, <1>8, <1>9, <1>10 DEF SyncInv

LEMMA StepSyncInv == SyncInv /\ [SyncNext]_syncVars => SyncInv'
<1>. SUFFICES ASSUME SyncInv, [SyncNext]_syncVars
              PROVE  SyncInv'
  OBVIOUS
<1>0. Shape /\ RefInv /\ SuccessIsOnRemote /\ FenceInv /\ OldInv /\ SaveInv
  BY DEF SyncInv
<1>1. Shape'
  BY <1>0, KeepsShape
<1>2. RefInv'
  BY <1>0, KeepsTracking, KeepsForward, KeepsOffer, KeepsResult DEF RefInv
<1>3. SuccessIsOnRemote' /\ FenceInv' /\ OldInv' /\ SaveInv'
  BY <1>0, KeepsSuccess, KeepsFence, KeepsOld, KeepsSaves
<1>. QED  BY <1>1, <1>2, <1>3 DEF SyncInv

LEMMA SyncInductive == SyncSpec => []SyncInv
BY InitSyncInv, StepSyncInv, PTL DEF SyncSpec

LEMMA ShapeIsTyped == Shape => SyncTypeOK
<1>. SUFFICES ASSUME Shape
              PROVE  SyncTypeOK
  OBVIOUS
<1>1. commits \in Seq(AnyCommit) /\ Len(commits) \in Nat /\ DOMAIN commits = Id
  BY DEF Shape, CommitShape, Id
<1>. DEFINE Commit == [tree : [File -> Content], anc : SUBSET (1 .. Len(commits))]
<1>2. ASSUME NEW c \in Id
      PROVE  commits[c] \in Commit
  <2>1. commits[c] \in AnyCommit
    BY <1>1
  <2>2. commits[c].anc \in SUBSET (1 .. Len(commits))
    BY Trees, Ancestry DEF Id
  <2>. QED  BY <2>1, <2>2 DEF AnyCommit
<1>. HIDE DEF Commit
<1>3. commits \in [1 .. Len(commits) -> Commit]
  BY <1>1, <1>2 DEF Id
<1>4. commits \in Seq(Commit)
  BY <1>1, <1>3
<1>5. /\ head \in DOMAIN commits /\ tracking \in DOMAIN commits /\ remote \in DOMAIN commits
      /\ recovery \in {0} \cup DOMAIN commits /\ running.offer \in {0} \cup DOMAIN commits
  BY <1>1 DEF Shape, CommitShape, TurnShape
<1>6. /\ running.kind \in TurnKind \cup {"none"} /\ running.attempt \in 0 .. 2
      /\ running.index \in [File -> Content] \cup {<<>>}
  <2>1. CASE running = NotRunning
    BY <2>1, Stopped
  <2>2. CASE running \in AnyTurn
    BY <2>2 DEF AnyTurn
  <2>. QED  BY <2>1, <2>2 DEF Shape, TurnShape
<1>. QED
  BY <1>4, <1>5, <1>6 DEF Commit, SyncTypeOK, Shape, FileShape, TurnShape

\* Whatever the remote, the network, the editors and the crashes do, a turn that
\* reads as synchronized or published left the local head on the remote.
THEOREM SuccessReachesRemote == SyncSpec => []SuccessIsOnRemote
<1>1. SyncInv => SuccessIsOnRemote
  BY DEF SyncInv
<1>. QED  BY <1>1, SyncInductive, PTL

\* The types, and that no commit holds a conflict marker and no file does while
\* the repository does not say that it merges.
THEOREM MarkersStayFenced == SyncSpec => []MarkersAreFenced
<1>1. SyncInv => MarkersAreFenced
  <2>. SUFFICES ASSUME SyncInv
                PROVE  MarkersAreFenced
    OBVIOUS
  <2>1. Shape /\ FenceInv /\ DOMAIN commits = Id
    BY DEF SyncInv, Shape, CommitShape, Id
  <2>. QED  BY <2>1, ShapeIsTyped DEF MarkersAreFenced, FenceInv, Marked
<1>. QED  BY <1>1, SyncInductive, PTL

\* What an editor saved last in a file is in the checkout or in the history of
\* the local branch, unless an aborted merge wrote over it.
THEOREM EditsSurvive == SyncSpec => []SavesSurvive
<1>1. SyncInv => SavesSurvive
  BY DEF SyncInv, SaveInv
<1>. QED  BY <1>1, SyncInductive, PTL

\* Neither the local branch, nor the remote's, nor the recovery branch ever
\* loses a commit.
THEOREM BranchesOnlyGrow == SyncSpec => HistoryOnlyGrows
<1>1. SyncInv /\ [SyncNext]_syncVars => [Grown]_syncVars
  BY BranchesGrow DEF SyncInv
<1>2. [Grown]_syncVars => [/\ Anc(head) \subseteq Anc(head)'
                           /\ Anc(remote) \subseteq Anc(remote)'
                           /\ Anc(recovery) \subseteq Anc(recovery)']_syncVars
  BY DEF Grown
<1>. QED  BY <1>1, <1>2, SyncInductive, PTL DEF SyncSpec, HistoryOnlyGrows
=============================================================================

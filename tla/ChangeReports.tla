---------------------------- MODULE ChangeReports ----------------------------
(***************************************************************************)
(* How a change of one Vault's folder comes to be known: the watcher with  *)
(* its kernel events and its rescan (src/src/vault_watcher.rs), the        *)
(* bounded channel that carries its reports and those of writes, and the   *)
(* two who listen: the forwarder, which asks for an Index turn, and the    *)
(* graph of links a control block keeps between reads (LinkGraphCache of   *)
(* src/src/vault_runtime.rs).                                              *)
(*                                                                         *)
(* The Vault is a managed one, whose folder a Git turn may take away and   *)
(* bring back.  Its content is a version number: a walk or a build that    *)
(* takes long is the moment at which it reads the note in question.  A     *)
(* change that is filtered as noise is none.  Time is not counted: a       *)
(* debounce ends, the next round of the rescan comes.  Nor are reports: of *)
(* each receiver of the channel only matters whether a report of this      *)
(* Vault is unread, and whether it lost some because others filled it up.  *)
(***************************************************************************)
EXTENDS Integers

CONSTANTS
  Reader,    \* those who ask for links at the same time
  MaxChange  \* bound on changes of the folder

ASSUME ReportsAssumption == MaxChange \in Nat

None == -1
Version == 0 .. MaxChange
Receiver == {"forwarder", "graph"}

VARIABLES
  disk,      \* the version of the folder
  dir,       \* the folder is there
  delivers,  \* its file system delivers kernel events
  active,    \* VaultActivationStatus::Active
  revoked,   \* how far the block's revocation is
  watcher,   \* the watcher's two tasks
  epoch,     \* watcher_epoch
  channel,   \* what each receiver has yet to read: nothing, "ours", that it "lagged"
  built,     \* LinkGraphCache::built
  reader,    \* the links reads
  wanted,    \* an Index turn is pending in the coordinator
  git,       \* how far the Git turn is
  write,     \* a write through Hatchdoor has landed and is not reported yet
  due,       \* history: the newest version that somebody was there to notice
  owed       \* history: no Index turn has read the folder since, which is there

folder == <<disk, dir, delivers>>
block == <<active, revoked, epoch>>
graph == <<built, reader>>
history == <<due, owed>>
vars == <<folder, block, watcher, channel, graph, wanted, git, write, history>>

Accepting == revoked = "no"

\* A watcher just started; `hears` until the folder it watches is gone.
Started == [live |-> TRUE, hears |-> delivers, events |-> FALSE, before |-> None]
\* None was started, or it was cancelled: its tasks are aborted where they are.
Stopped == [live |-> FALSE, hears |-> FALSE, events |-> FALSE, before |-> None]

NoGraph == [version |-> None, epoch |-> 0, straddled |-> FALSE]
Idle == [at |-> "idle", epoch |-> 0, straddled |-> FALSE, got |-> None]

\* The control block is activated: over a folder that is there it starts a
\* watcher, which may fail, and the lifecycle asks for an Index turn.
Init ==
  /\ disk = 0 /\ dir \in BOOLEAN /\ delivers \in BOOLEAN
  /\ active = dir /\ revoked = "no" /\ epoch = 0
  /\ watcher \in {Started, Stopped} /\ (~dir => watcher = Stopped)
  /\ channel = [r \in Receiver |-> "nothing"]
  /\ built = NoGraph /\ reader = [r \in Reader |-> Idle]
  /\ wanted = dir /\ git = "idle" /\ write = FALSE
  /\ due = 0 /\ owed = FALSE

(***************************************************************************)
(* The channel                                                             *)
(***************************************************************************)
\* After a lag a receiver reads on with what is left, and does again what the lag
\* made it do.
Report == channel' = [r \in Receiver |-> IF channel[r] = "lagged" THEN "lagged" ELSE "ours"]

\* Reports of other Vaults fill the channel, and push ours out.
Overflow(r) ==
  /\ channel[r] = "ours"
  /\ channel' = [channel EXCEPT ![r] = "lagged"]
  /\ UNCHANGED <<folder, block, watcher, graph, wanted, git, write, history>>

\* Mutant: a lag is one warning in the log.
MutAfterLag == wanted
AfterLag == wanted \/ Accepting

\* forward_vault_change_intent: after a lag it asks for every Vault in the
\* collection.
ForwardIntent ==
  /\ channel["forwarder"] # "nothing"
  /\ channel' = [channel EXCEPT !["forwarder"] = "nothing"]
  /\ wanted' = (channel["forwarder"] = "ours" \/ AfterLag)
  /\ UNCHANGED <<folder, block, watcher, graph, git, write, history>>

(***************************************************************************)
(* Changes of the folder                                                   *)
(***************************************************************************)
Heard == [watcher EXCEPT !.events = @ \/ (watcher.live /\ watcher.hears)]

\* Somebody will see that the folder changes: the kernel, or the next round of
\* a rescan that has a round to compare it with.
Noticed == watcher.live /\ (watcher.hears \/ watcher.before # None)

Note(noticed) ==
  /\ due' = IF noticed THEN disk + 1 ELSE due
  /\ owed' = (owed \/ noticed)

\* An editor, or a sync tool, outside Hatchdoor.  What it does after the block is
\* retired is for the next one to notice.
OutsideEdit ==
  /\ dir /\ Accepting /\ disk < MaxChange
  /\ disk' = disk + 1 /\ watcher' = Heard
  /\ Note(Noticed)
  /\ UNCHANGED <<dir, delivers, block, channel, graph, wanted, git, write>>

\* A write through Hatchdoor lands, and reports itself before it is answered.  One that
\* was admitted may land after the block withdrew admission.
WriteLands ==
  /\ dir /\ ~write /\ disk < MaxChange
  /\ disk' = disk + 1 /\ watcher' = Heard
  /\ write' = TRUE /\ Note(TRUE)
  /\ UNCHANGED <<dir, delivers, block, channel, graph, wanted, git>>

ReportWrite ==
  /\ write /\ write' = FALSE /\ Report
  /\ UNCHANGED <<folder, block, watcher, graph, wanted, git, history>>

(***************************************************************************)
(* The watcher                                                             *)
(***************************************************************************)
\* The burst goes quiet, or its ceiling comes; an event after that opens another.
ReportEvents ==
  /\ watcher.events /\ Report
  /\ watcher' = [watcher EXCEPT !.events = FALSE]
  /\ UNCHANGED <<folder, block, graph, wanted, git, write, history>>

\* A round of the rescan that can read the folder; one that cannot leaves everything as
\* it is.  The first that can reports nothing.
Rescan ==
  /\ watcher.live /\ dir
  /\ watcher.before # disk
  /\ watcher' = [watcher EXCEPT !.before = disk]
  /\ IF watcher.before = None THEN UNCHANGED channel ELSE Report
  /\ UNCHANGED <<folder, block, graph, wanted, git, write, history>>

(***************************************************************************)
(* A Git turn, and the watcher started again                               *)
(***************************************************************************)
\* What the sync did to the folder, under the mutation lock.  A turn that ends in an
\* error may have done it too, and says nothing of the folder; it asks for another Index
\* turn if one is admitted, such as one that has read the folder and not ended yet.
RunGit ==
  /\ git = "idle" /\ Accepting /\ ~write
  /\ \/ git' = "done" /\ UNCHANGED wanted
     \/ git' = "idle" /\ wanted' \in {wanted, TRUE}
  /\ \/ UNCHANGED <<folder, watcher, history>>
     \/ /\ dir /\ dir' = FALSE
        /\ watcher' = [Heard EXCEPT !.hears = FALSE]
        /\ owed' = FALSE
        /\ UNCHANGED <<disk, delivers, due>>
     \/ /\ disk < MaxChange /\ disk' = disk + 1 /\ dir' = TRUE
        /\ watcher' = Heard
        /\ Note(Noticed)
        /\ UNCHANGED delivers
  /\ UNCHANGED <<block, channel, graph, write>>

\* publish_local_content_after_git_success: it looks at the folder, and
\* set_local_content_status first asks whether the block still accepts.
StatFolder ==
  /\ git = "done"
  /\ git' = IF Accepting THEN "publishing" ELSE "idle"
  /\ UNCHANGED <<folder, block, watcher, channel, graph, wanted, write, history>>

\* finish_git_turn asks for an Index turn of a Vault that can be read.
Wanted == wanted \/ (Accepting /\ active')

\* set_local_content_status; a Vault that becomes active starts its watcher
\* again (rearm_watcher), under the locks of the status and of the watcher.
Publish ==
  /\ git = "publishing"
  /\ IF dir /\ ~active /\ Accepting
     THEN /\ watcher' = Stopped /\ epoch' = epoch + 1 /\ git' = "arming"
          /\ UNCHANGED <<active, wanted>>
     ELSE /\ active' = dir /\ git' = "idle" /\ wanted' = Wanted
          /\ UNCHANGED <<epoch, watcher>>
  /\ UNCHANGED <<folder, revoked, channel, graph, write, history>>

StartWatcher ==
  /\ git = "arming" /\ git' = "idle"
  /\ watcher' \in IF dir THEN {Started, Stopped} ELSE {Stopped}
  /\ active' = TRUE /\ wanted' = Wanted
  /\ UNCHANGED <<folder, revoked, epoch, channel, graph, write, history>>

(***************************************************************************)
(* The end of the block: VaultControlBlock::revoke                         *)
(***************************************************************************)
WithdrawAdmission ==
  /\ revoked = "no" /\ revoked' = "withdrawn"
  /\ UNCHANGED <<folder, active, epoch, watcher, channel, graph, wanted, git, write, history>>

CancelWatcher ==
  /\ revoked = "withdrawn" /\ git # "arming"
  /\ revoked' = "revoked" /\ watcher' = Stopped
  /\ UNCHANGED <<folder, active, epoch, channel, graph, wanted, git, write, history>>

(***************************************************************************)
(* The Index turn                                                          *)
(***************************************************************************)
\* It reads the folder under the mutation lock.  What changes after that is asked for
\* again.
RunIndex ==
  /\ wanted /\ Accepting /\ ~write
  /\ wanted' = FALSE /\ owed' = (owed /\ ~dir)
  /\ UNCHANGED <<folder, block, watcher, channel, graph, git, write, due>>

(***************************************************************************)
(* Links reads: linked_index                                               *)
(***************************************************************************)
WatcherRunning == active /\ watcher.live

\* watcher_running takes the lock of the status, which an arming Vault holds.
\* Without a watcher a read builds a graph of its own and keeps nothing.
Ask(r) ==
  /\ reader[r].at = "idle" /\ Accepting /\ git # "arming" /\ WatcherRunning
  /\ reader' = [reader EXCEPT ![r] = [Idle EXCEPT !.at = "watched", !.epoch = epoch]]
  /\ UNCHANGED <<folder, block, watcher, channel, built, wanted, git, write, history>>

LoadEpoch(r) ==
  /\ reader[r].at = "watched"
  /\ reader' = [reader EXCEPT ![r].at = "waiting", ![r].epoch = epoch,
                              ![r].straddled = (epoch # reader[r].epoch)]
  /\ UNCHANGED <<folder, block, watcher, channel, built, wanted, git, write, history>>

Unread == channel["graph"] # "nothing"

\* Mutant: a lag leaves the graph as it is.
MutKeeps == built # NoGraph /\ channel["graph"] # "ours"
\* take_changes: no report of this Vault has come since the graph was built.
Keeps == built # NoGraph /\ ~Unread

LockFree == \A r \in Reader : reader[r].at \notin {"building", "built"}

\* The graph's lock: take what was reported, use the graph or build another.
EnterGraph(r) ==
  /\ reader[r].at = "waiting" /\ LockFree
  /\ channel' = [channel EXCEPT !["graph"] = "nothing"]
  /\ \/ /\ Keeps /\ built.epoch = reader[r].epoch
        /\ reader' = [reader EXCEPT ![r] = Idle] /\ UNCHANGED built
     \/ /\ ~(Keeps /\ built.epoch = reader[r].epoch)
        /\ built' = NoGraph
        /\ reader' = [reader EXCEPT ![r] = IF Accepting THEN [@ EXCEPT !.at = "building"] ELSE Idle]
  /\ UNCHANGED <<folder, block, watcher, wanted, git, write, history>>

\* authoritative_index reads the folder, under the graph's lock.
Build(r) ==
  /\ reader[r].at = "building"
  /\ reader' = [reader EXCEPT ![r] = IF dir THEN [@ EXCEPT !.at = "built", !.got = disk] ELSE Idle]
  /\ UNCHANGED <<folder, block, watcher, channel, built, wanted, git, write, history>>

Keep(r) ==
  /\ reader[r].at = "built"
  /\ built' = [version |-> reader[r].got, epoch |-> reader[r].epoch,
               straddled |-> reader[r].straddled]
  /\ reader' = [reader EXCEPT ![r] = Idle]
  /\ UNCHANGED <<folder, block, watcher, channel, wanted, git, write, history>>

Next ==
  \/ ForwardIntent \/ \E r \in Receiver : Overflow(r)
  \/ OutsideEdit \/ WriteLands \/ ReportWrite
  \/ ReportEvents \/ Rescan
  \/ RunGit \/ StatFolder \/ Publish \/ StartWatcher
  \/ WithdrawAdmission \/ CancelWatcher
  \/ RunIndex
  \/ \E r \in Reader : Ask(r) \/ LoadEpoch(r) \/ EnterGraph(r) \/ Build(r) \/ Keep(r)

Spec == Init /\ [][Next]_vars

\* Tasks go on, and a folder that is there can be read in the end.
Fairness ==
  /\ WF_vars(ForwardIntent) /\ WF_vars(ReportWrite)
  /\ WF_vars(ReportEvents) /\ WF_vars(Rescan)
  /\ WF_vars(StatFolder) /\ WF_vars(Publish) /\ WF_vars(StartWatcher)
  /\ WF_vars(RunIndex)

FairSpec == Spec /\ Fairness

(***************************************************************************)
(* Properties                                                              *)
(***************************************************************************)
Watcher == [live : BOOLEAN, hears : BOOLEAN, events : BOOLEAN, before : Version \cup {None}]

\* The state keeps its shape, and a block that was revoked leaves no watcher behind,
\* although a Git turn may be starting one at that moment (see rearm_watcher).
TypeOK ==
  /\ disk \in Version /\ dir \in BOOLEAN /\ delivers \in BOOLEAN
  /\ active \in BOOLEAN /\ revoked \in {"no", "withdrawn", "revoked"} /\ epoch \in Nat
  /\ watcher \in Watcher
  /\ channel \in [Receiver -> {"nothing", "ours", "lagged"}]
  /\ built \in [version : Version \cup {None}, epoch : Nat, straddled : BOOLEAN]
  /\ reader \in [Reader -> [at : {"idle", "watched", "waiting", "building", "built"},
                            epoch : Nat, straddled : BOOLEAN, got : Version \cup {None}]]
  /\ wanted \in BOOLEAN /\ write \in BOOLEAN
  /\ git \in {"idle", "done", "publishing", "arming"}
  /\ due \in Version /\ owed \in BOOLEAN
  /\ revoked = "revoked" => ~watcher.live

\* Somebody has yet to report what changed.
Coming ==
  \/ watcher.events \/ write
  \/ watcher.live /\ watcher.before # None /\ watcher.before < disk

\* The graph that the next links read would answer with lacks nothing it could hold: no
\* write that was answered, no change that was reported, nor, where the file system
\* delivers events, any change that is not about to be reported; unless the read that
\* built it looked at the watcher before it was started again and at the epoch after.
\* Where it delivers none, no change that a rescan was there to notice.
GraphIsVouched ==
  /\ TypeOK
  /\ (built # NoGraph /\ built.epoch = epoch /\ WatcherRunning /\ git # "arming" /\ dir)
     => \/ built.version >= IF watcher.hears /\ ~built.straddled THEN disk ELSE due
        \/ Unread \/ Coming

\* Every change that somebody was there to notice is read by an Index turn, unless the
\* block is retired or its folder goes.
NoticedIsIndexed == owed ~> (~owed \/ ~Accepting)
=============================================================================

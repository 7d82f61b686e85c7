------------------------- MODULE ChangeReportsProofs -------------------------
(***************************************************************************)
(* ChangeReports for any number of readers and changes: the graph of links *)
(* that the next read would use is vouched for.                            *)
(***************************************************************************)
EXTENDS ChangeReports, TLAPS

Building == {"building", "built"}

(***************************************************************************)
(* The inductive invariant                                                 *)
(***************************************************************************)
Bounds ==
  /\ due <= disk /\ watcher.before <= disk
  /\ built.epoch <= epoch /\ \A r \in Reader : reader[r].epoch <= epoch

\* The graph's lock.
OneBuilds ==
  \A r, q \in Reader : reader[r].at \in Building /\ reader[q].at \in Building => r = q

\* While a watcher is being started there is none, and whoever holds the new epoch
\* had looked for a watcher before.
Arming ==
  git = "arming" =>
    /\ watcher = Stopped
    /\ \A r \in Reader :
         /\ reader[r].at = "watched" => reader[r].epoch < epoch
         /\ reader[r].at \in Building \cup {"waiting"} /\ reader[r].epoch = epoch
            => reader[r].straddled

\* What vouches for a graph of a version that was built under an epoch.
Vouches(version, ep, straddled) ==
  ep = epoch =>
    /\ watcher.live => \/ version >= IF watcher.hears /\ ~straddled THEN disk ELSE due
                       \/ Unread \/ Coming
    /\ git = "arming" => straddled /\ (version >= due \/ Unread \/ write)

KeptInv == built # NoGraph => Vouches(built.version, built.epoch, built.straddled)

\* The graph about to be kept: nobody takes the reports that came while it was built.
NextInv ==
  \A r \in Reader : reader[r].at = "built"
                    => Vouches(reader[r].got, reader[r].epoch, reader[r].straddled)

(***************************************************************************)
(* Types                                                                   *)
(***************************************************************************)
ReaderState == [at : {"idle", "watched", "waiting", "building", "built"},
                epoch : Nat, straddled : BOOLEAN, got : Version \cup {None}]
Graph == [version : Version \cup {None}, epoch : Nat, straddled : BOOLEAN]
Reports == [Receiver -> {"nothing", "ours", "lagged"}]

Flags ==
  /\ dir \in BOOLEAN /\ delivers \in BOOLEAN /\ active \in BOOLEAN
  /\ wanted \in BOOLEAN /\ write \in BOOLEAN /\ owed \in BOOLEAN
Labels ==
  /\ revoked \in {"no", "withdrawn", "revoked"}
  /\ git \in {"idle", "done", "publishing", "arming"}
Numbers == disk \in Version /\ due \in Version /\ epoch \in Nat
Reading == built \in Graph /\ reader \in [Reader -> ReaderState]
Silent == revoked = "revoked" => ~watcher.live /\ git # "arming"

Types == Flags /\ Labels /\ Numbers /\ watcher \in Watcher /\ channel \in Reports /\ Reading /\ Silent

IInv == Types /\ Bounds /\ OneBuilds /\ Arming /\ KeptInv /\ NextInv

LEMMA TypesAreTypeOK == Types => TypeOK
  BY DEF Types, TypeOK, Flags, Labels, Numbers, Reading, Reports, ReaderState, Graph, Silent

LEMMA NewWatchers ==
  ASSUME delivers \in BOOLEAN PROVE Started \in Watcher /\ Stopped \in Watcher
  BY DEF Started, Stopped, Watcher

LEMMA InitTypes == Init => Types
<1> SUFFICES ASSUME Init PROVE Types OBVIOUS
<1> USE DEF Init
<1>1. Flags /\ Labels BY DEF Flags, Labels
<1>2. Numbers BY ReportsAssumption DEF Numbers, Version
<1>3. watcher \in Watcher BY NewWatchers
<1>4. channel \in Reports BY DEF Reports
<1>5. Reading BY ReportsAssumption DEF Reading, Graph, ReaderState, NoGraph, Idle, Version
<1>6. Silent BY DEF Silent
<1> QED BY <1>1, <1>2, <1>3, <1>4, <1>5, <1>6 DEF Types

LEMMA HeardTypes == ASSUME watcher \in Watcher PROVE Heard \in Watcher
  BY DEF Heard, Watcher

LEMMA StepTypes == Types /\ [Next]_vars => Types'
<1> SUFFICES ASSUME Types, [Next]_vars PROVE Types' OBVIOUS
<1> USE DEF Types
<1>1. CASE OutsideEdit \/ WriteLands
  <2> USE <1>1, HeardTypes DEF OutsideEdit, WriteLands, Note, folder, block, graph
  <2>1. Flags' /\ Labels' BY DEF Flags, Labels, Noticed
  <2>2. Numbers' BY ReportsAssumption DEF Numbers, Version
  <2>3. watcher' \in Watcher /\ channel' \in Reports OBVIOUS
  <2>4. Reading' BY DEF Reading
  <2>5. Silent' BY DEF Silent, Labels, Heard, Watcher
  <2> QED BY <2>1, <2>2, <2>3, <2>4, <2>5
<1>2. CASE RunGit
  <2> USE <1>2, HeardTypes DEF RunGit, Note, block, graph, folder, history
  <2>1. Flags' /\ Labels' BY DEF Flags, Labels, Noticed
  <2>2. Numbers' BY ReportsAssumption DEF Numbers, Version
  <2>3. watcher' \in Watcher BY DEF Watcher
  <2>4. channel' \in Reports /\ Reading' BY DEF Reading
  <2>5. Silent' BY DEF Silent, Accepting
  <2> QED BY <2>1, <2>2, <2>3, <2>4, <2>5
<1>3. CASE ReportWrite \/ ReportEvents \/ Rescan
  <2> USE <1>3 DEF ReportWrite, ReportEvents, Rescan, Report, folder, block, graph, history
  <2>1. Flags' /\ Labels' /\ Numbers' BY DEF Flags, Labels, Numbers
  <2>2. watcher' \in Watcher BY DEF Watcher, Numbers
  <2>3. channel' \in Reports BY DEF Reports
  <2>4. Reading' BY DEF Reading
  <2>5. Silent' BY DEF Silent, Watcher
  <2> QED BY <2>1, <2>2, <2>3, <2>4, <2>5
<1>4. CASE ForwardIntent \/ (\E r \in Receiver : Overflow(r))
  <2> USE <1>4 DEF ForwardIntent, Overflow, folder, block, graph, history
  <2>1. Flags' BY DEF Flags, AfterLag, Accepting
  <2>2. Labels' /\ Numbers' /\ watcher' \in Watcher BY DEF Labels, Numbers
  <2>3. channel' \in Reports BY DEF Reports
  <2>4. Reading' /\ Silent' BY DEF Reading, Silent
  <2> QED BY <2>1, <2>2, <2>3, <2>4
<1>5. CASE StatFolder \/ Publish \/ StartWatcher
  <2> USE <1>5 DEF StatFolder, Publish, StartWatcher, folder, block, graph, history
  <2>1. Flags' BY DEF Flags, Wanted, Accepting
  <2>2. Labels' /\ Numbers' BY DEF Labels, Numbers
  <2>3. watcher' \in Watcher BY NewWatchers DEF Flags
  <2>4. channel' \in Reports /\ Reading' BY DEF Reading
  <2>5. Silent'
    BY DEF Silent, Stopped, Accepting
  <2> QED BY <2>1, <2>2, <2>3, <2>4, <2>5
<1>6. CASE WithdrawAdmission \/ CancelWatcher
  <2> USE <1>6 DEF WithdrawAdmission, CancelWatcher, folder, graph, history
  <2>1. Flags' /\ Labels' /\ Numbers' BY DEF Flags, Labels, Numbers
  <2>2. watcher' \in Watcher BY NewWatchers DEF Flags
  <2>3. channel' \in Reports /\ Reading' BY DEF Reading
  <2>4. Silent' BY DEF Silent, Stopped
  <2> QED BY <2>1, <2>2, <2>3, <2>4
<1>7. CASE RunIndex
  <2> USE <1>7 DEF RunIndex, folder, block, graph
  <2>1. Flags' /\ Labels' /\ Numbers' BY DEF Flags, Labels, Numbers
  <2>2. channel' \in Reports /\ watcher' \in Watcher /\ Reading' /\ Silent' BY DEF Reading, Silent
  <2> QED BY <2>1, <2>2
<1>8. CASE \E r \in Reader : Ask(r) \/ LoadEpoch(r) \/ EnterGraph(r) \/ Build(r) \/ Keep(r)
  <2> SUFFICES ASSUME NEW r \in Reader,
                      Ask(r) \/ LoadEpoch(r) \/ EnterGraph(r) \/ Build(r) \/ Keep(r)
               PROVE  Types'
    BY <1>8
  <2> USE DEF Ask, LoadEpoch, EnterGraph, Build, Keep, folder, block, history
  <2>1. Flags' /\ Labels' /\ Numbers' /\ watcher' \in Watcher /\ Silent'
    BY DEF Flags, Labels, Numbers, Silent
  <2>2. channel' \in Reports BY DEF Reports
  <2>3. reader' \in [Reader -> ReaderState]
    <3>1. Idle \in ReaderState /\ reader[r] \in ReaderState /\ epoch \in Nat /\ disk \in Version
      BY DEF Reading, ReaderState, Idle, Numbers
    <3>2. reader \in [Reader -> ReaderState] BY DEF Reading
    <3>3. CASE Ask(r)
      <4>1. [Idle EXCEPT !.at = "watched", !.epoch = epoch] \in ReaderState
        BY <3>1 DEF ReaderState
      <4> QED BY <3>2, <3>3, <4>1
    <3>4. CASE LoadEpoch(r)
      <4>1. [reader[r] EXCEPT !.at = "waiting", !.epoch = epoch,
                              !.straddled = (epoch # reader[r].epoch)] \in ReaderState
        BY <3>1 DEF ReaderState
      <4>2. reader' = [reader EXCEPT ![r] = [reader[r] EXCEPT !.at = "waiting", !.epoch = epoch,
                              !.straddled = (epoch # reader[r].epoch)]]
        BY <3>1, <3>2, <3>4 DEF ReaderState
      <4> QED BY <3>2, <4>1, <4>2
    <3>5. CASE EnterGraph(r)
      <4>1. [reader[r] EXCEPT !.at = "building"] \in ReaderState BY <3>1 DEF ReaderState
      <4> QED BY <3>1, <3>2, <3>5, <4>1
    <3>6. CASE Build(r)
      <4>1. [reader[r] EXCEPT !.at = "built", !.got = disk] \in ReaderState
        BY <3>1 DEF ReaderState
      <4> QED BY <3>1, <3>2, <3>6, <4>1
    <3>7. CASE Keep(r) BY <3>1, <3>2, <3>7
    <3> QED BY <3>3, <3>4, <3>5, <3>6, <3>7
  <2>4. built' \in Graph
    <3>1. NoGraph \in Graph /\ built \in Graph /\ reader[r] \in ReaderState
      BY DEF Reading, NoGraph, Graph
    <3>2. CASE Keep(r)
      <4>1. [version |-> reader[r].got, epoch |-> reader[r].epoch,
             straddled |-> reader[r].straddled] \in Graph
        BY <3>1 DEF ReaderState, Graph
      <4> QED BY <3>2, <4>1
    <3>3. CASE EnterGraph(r) BY <3>1, <3>3
    <3>4. CASE ~(EnterGraph(r) \/ Keep(r)) BY <3>1, <3>4
    <3> QED BY <3>2, <3>3, <3>4
  <2> QED BY <2>1, <2>2, <2>3, <2>4 DEF Reading
<1>9. CASE UNCHANGED vars
  BY <1>9 DEF vars, folder, block, graph, history, Flags, Labels, Numbers, Reading, Silent
<1> QED BY <1>1, <1>2, <1>3, <1>4, <1>5, <1>6, <1>7, <1>8, <1>9 DEF Next

(***************************************************************************)
(* The world around the graph                                              *)
(***************************************************************************)
\* Every step but a links read's.
World ==
  \/ ForwardIntent \/ \E r \in Receiver : Overflow(r)
  \/ OutsideEdit \/ WriteLands \/ ReportWrite
  \/ ReportEvents \/ Rescan
  \/ RunGit \/ StatFolder \/ Publish \/ StartWatcher
  \/ WithdrawAdmission \/ CancelWatcher
  \/ RunIndex \/ UNCHANGED vars

LEMMA WorldLeavesReads == World => UNCHANGED graph
  BY DEF World, ForwardIntent, Overflow, OutsideEdit, WriteLands, ReportWrite, ReportEvents,
         Rescan, RunGit, StatFolder, Publish, StartWatcher, WithdrawAdmission, CancelWatcher,
         RunIndex, vars, graph

LEMMA WorldBounds ==
  ASSUME Types, Bounds, World PROVE Bounds' /\ epoch <= epoch'
<1> UNCHANGED graph BY WorldLeavesReads
<1> USE DEF Types, Bounds, graph
<1>1. epoch' \in {epoch, epoch + 1}
  BY DEF World, ForwardIntent, Overflow, OutsideEdit, WriteLands, ReportWrite, ReportEvents,
         Rescan, RunGit, StatFolder, Publish, StartWatcher, WithdrawAdmission, CancelWatcher,
         RunIndex, vars, block
<1>2. epoch \in Nat /\ disk \in Version /\ due \in Version /\ watcher.before \in Version \cup {None}
      /\ watcher \in Watcher
  BY DEF Numbers, Watcher
<1>3. disk' \in {disk, disk + 1} /\ due' \in {due, disk'}
  BY <1>2 DEF World, ForwardIntent, Overflow, OutsideEdit, WriteLands, ReportWrite, ReportEvents,
         Rescan, RunGit, StatFolder, Publish, StartWatcher, WithdrawAdmission, CancelWatcher,
         RunIndex, vars, block, folder, history, Note
<1>4. watcher'.before \in {watcher.before, None, disk}
  <2>1. CASE OutsideEdit \/ WriteLands
    BY <1>2, <2>1 DEF OutsideEdit, WriteLands, Heard, Watcher
  <2>2. CASE RunGit BY <1>2, <2>2 DEF RunGit, Heard, Watcher
  <2>3. CASE ReportEvents \/ Rescan BY <1>2, <2>3 DEF ReportEvents, Rescan, Watcher
  <2>4. CASE Publish \/ StartWatcher \/ CancelWatcher
    BY <2>4 DEF Publish, StartWatcher, CancelWatcher, Started, Stopped
  <2>5. CASE UNCHANGED watcher BY <2>5
  <2>6. OutsideEdit \/ WriteLands \/ RunGit \/ ReportEvents \/ Rescan \/ Publish \/ StartWatcher
        \/ CancelWatcher \/ UNCHANGED watcher
    BY DEF World, ForwardIntent, Overflow, ReportWrite, StatFolder, WithdrawAdmission, RunIndex, vars
  <2> QED BY <2>1, <2>2, <2>3, <2>4, <2>5, <2>6
<1>5. epoch <= epoch' BY <1>1, <1>2
<1>6. due' <= disk' BY <1>2, <1>3 DEF Version
<1>7. watcher'.before <= disk' BY <1>2, <1>3, <1>4 DEF Version, None
<1>8. built'.epoch <= epoch' BY <1>1, <1>2 DEF Reading, Graph
<1>9. \A r \in Reader : reader'[r].epoch <= epoch' BY <1>1, <1>2 DEF Reading, ReaderState
<1> QED BY <1>5, <1>6, <1>7, <1>8, <1>9

LEMMA WorldArming ==
  ASSUME Types, Bounds, Arming, World PROVE Arming'
<1> UNCHANGED graph BY WorldLeavesReads
<1>1. CASE Publish
  <2> SUFFICES ASSUME git' = "arming" PROVE Arming' BY DEF Arming
  <2>1. watcher' = Stopped /\ epoch' = epoch + 1 BY <1>1 DEF Publish
  <2>2. \A r \in Reader : reader[r].epoch \in Nat /\ reader[r].epoch <= epoch /\ epoch \in Nat
    BY DEF Types, Reading, ReaderState, Numbers, Bounds
  <2>3. \A r \in Reader : reader'[r].epoch < epoch' /\ reader'[r].epoch # epoch'
    BY <2>1, <2>2 DEF graph
  <2>4. Stopped' = Stopped BY DEF Stopped
  <2> QED BY <2>1, <2>3, <2>4 DEF Arming
<1>2. CASE ~Publish
  <2> SUFFICES ASSUME git' = "arming" PROVE Arming' BY DEF Arming
  <2>1. git = "arming" /\ UNCHANGED epoch
    BY <1>2 DEF World, ForwardIntent, Overflow, OutsideEdit, WriteLands, ReportWrite,
         ReportEvents, Rescan, RunGit, StatFolder, StartWatcher, WithdrawAdmission,
         CancelWatcher, RunIndex, vars, block
  <2>2. watcher = Stopped BY <2>1 DEF Arming
  <2>3. watcher' = Stopped
    BY <2>1, <2>2, <1>2 DEF World, ForwardIntent, Overflow, OutsideEdit, WriteLands, ReportWrite,
         ReportEvents, Rescan, RunGit, StatFolder, StartWatcher, WithdrawAdmission,
         CancelWatcher, RunIndex, vars, Heard, Stopped
  <2>4. Stopped' = Stopped BY DEF Stopped
  <2> QED BY <2>1, <2>3, <2>4 DEF Arming, graph
<1> QED BY <1>1, <1>2

\* Whatever happens in the world, a version that is vouched for stays so.
LEMMA WorldVouches ==
  ASSUME Types, Bounds, Arming, World
  PROVE  \A v \in Version \cup {None}, e \in Nat, s \in BOOLEAN :
           e <= epoch /\ Vouches(v, e, s) => Vouches(v, e, s)'
<1> TAKE v \in Version \cup {None}, e \in Nat, s \in BOOLEAN
<1> HAVE e <= epoch /\ Vouches(v, e, s)
<1> USE DEF Types
<1>0. /\ epoch \in Nat /\ disk \in Version /\ due \in Version /\ watcher \in Watcher
      /\ due <= disk /\ watcher.before <= disk /\ watcher.before \in Version \cup {None}
      /\ v \in Int /\ disk \in Int /\ due \in Int /\ write \in BOOLEAN
      /\ (watcher.before # None => watcher.before \in Int)
  BY DEF Numbers, Bounds, Watcher, Flags, Version, None
<1>a. CASE disk' = disk + 1 /\ due' = due /\ ~watcher.hears /\ watcher.before = None
          /\ watcher' = Heard /\ UNCHANGED <<channel, write, epoch, git>>
  <2>1. watcher' = watcher BY <1>a DEF Heard, Watcher
  <2> QED BY <1>0, <1>a, <2>1 DEF Vouches, Unread, Coming
<1>b. CASE disk' = disk + 1 /\ watcher.live /\ (watcher.hears \/ watcher.before # None)
          /\ watcher' = Heard /\ UNCHANGED <<channel, write, epoch>> /\ git' # "arming"
  <2>1. watcher'.live /\ watcher'.before = watcher.before /\ (watcher.hears => watcher'.events)
    BY <1>b DEF Heard, Watcher
  <2>2. watcher.before # None => watcher'.before # None /\ watcher'.before < disk'
    BY <1>0, <1>b, <2>1
  <2>3. Coming' BY <1>b, <2>1, <2>2 DEF Coming
  <2> QED BY <1>b, <2>3 DEF Vouches
<1>c. CASE watcher' = Heard /\ UNCHANGED <<epoch, git>> /\ write'
  BY <1>c DEF Vouches, Coming
<1>d. CASE ~watcher.live /\ git' # "arming" /\ watcher' = Heard /\ UNCHANGED epoch
  <2>1. ~watcher'.live BY <1>d DEF Heard, Watcher
  <2> QED BY <1>d, <2>1 DEF Vouches
<1>e. git = "arming" => ~watcher.live /\ ~watcher.hears /\ watcher.before = None
  BY DEF Arming, Stopped
<1>1. CASE OutsideEdit \/ WriteLands
  <2>1. CASE WriteLands BY <1>c, <2>1 DEF WriteLands, block
  <2>2. CASE OutsideEdit
    <3>1. /\ disk' = disk + 1 /\ watcher' = Heard /\ UNCHANGED <<channel, write, epoch, git>>
          /\ due' = IF Noticed THEN disk + 1 ELSE due
      BY <2>2 DEF OutsideEdit, Note, block
    <3>2. CASE Noticed
      <4>1. git' # "arming" BY <1>e, <3>1, <3>2 DEF Noticed
      <4> QED BY <1>b, <3>1, <3>2, <4>1 DEF Noticed
    <3>3. CASE ~Noticed /\ watcher.live BY <1>a, <3>1, <3>3 DEF Noticed
    <3>4. CASE ~watcher.live
      <4>1. CASE git = "arming" BY <1>a, <1>e, <3>1, <3>4, <4>1 DEF Noticed
      <4> QED BY <1>d, <3>1, <3>4, <4>1
    <3> QED BY <3>2, <3>3, <3>4
  <2> QED BY <1>1, <2>1, <2>2
<1>2. CASE RunGit
  <2>1. git' # "arming" /\ UNCHANGED <<epoch, channel, write>> BY <1>2 DEF RunGit, block
  <2>2. CASE UNCHANGED <<folder, watcher, history>>
    BY <2>1, <2>2 DEF Vouches, Unread, Coming, folder, history
  <2>3. CASE watcher' = [Heard EXCEPT !.hears = FALSE] /\ UNCHANGED <<disk, due>>
    <3>1. /\ watcher'.live = watcher.live /\ ~watcher'.hears /\ watcher'.before = watcher.before
          /\ watcher.events => watcher'.events
      BY <2>3 DEF Heard, Watcher
    <3> QED BY <1>0, <2>1, <2>3, <3>1 DEF Vouches, Unread, Coming
  <2>4. CASE disk' = disk + 1 /\ watcher' = Heard /\ Note(Noticed)
    <3>1. CASE Noticed BY <1>b, <2>1, <2>4, <3>1 DEF Noticed
    <3>2. CASE ~Noticed /\ watcher.live
      <4>1. git = "idle" /\ git # "arming" BY <1>2 DEF RunGit
      <4>2. due' = due BY <2>4, <3>2 DEF Note
      <4>3. watcher' = watcher BY <2>4, <3>2 DEF Noticed, Heard, Watcher
      <4> QED BY <1>0, <2>1, <2>4, <3>2, <4>2, <4>3 DEF Vouches, Unread, Coming, Noticed
    <3>3. CASE ~watcher.live BY <1>d, <2>1, <2>4, <3>3
    <3> QED BY <3>1, <3>2, <3>3
  <2> QED BY <1>2, <2>2, <2>3, <2>4 DEF RunGit
<1>3. CASE ReportWrite \/ ReportEvents \/ Rescan
  <2>1. UNCHANGED <<epoch, git>> BY <1>3 DEF ReportWrite, ReportEvents, Rescan, block
  <2>2. CASE Report
    <3>1. Unread' BY <2>2 DEF Report, Unread, Receiver
    <3> QED BY <2>1, <3>1 DEF Vouches
  <2>3. CASE Rescan /\ watcher.before = None
    <3>1. /\ UNCHANGED <<disk, due, write, channel>> /\ git # "arming"
          /\ watcher' = [watcher EXCEPT !.before = disk]
      BY <1>e, <2>3 DEF Rescan, folder, history
    <3>2. watcher'.live = watcher.live /\ watcher'.hears = watcher.hears
          /\ watcher'.events = watcher.events
      BY <3>1 DEF Watcher
    <3> QED BY <2>1, <2>3, <3>1, <3>2 DEF Vouches, Unread, Coming
  <2> QED BY <1>3, <2>2, <2>3 DEF ReportWrite, ReportEvents, Rescan
<1>4. CASE ForwardIntent \/ (\E r \in Receiver : Overflow(r))
  BY <1>0, <1>4 DEF ForwardIntent, Overflow, Reports, Receiver, folder, block, graph, history,
     Vouches, Unread, Coming
<1>5. CASE Publish
  BY <1>0, <1>5 DEF Publish, folder, graph, history, Stopped, Vouches, Unread, Coming
<1>6. CASE StartWatcher
  <2>1. /\ git = "arming" /\ git' # "arming"
        /\ UNCHANGED <<folder, epoch, channel, write, due>>
    BY <1>6 DEF StartWatcher, history
  <2> SUFFICES ASSUME e = epoch, watcher'.live PROVE Vouches(v, e, s)'
    BY <2>1 DEF Vouches
  <2>2. s /\ (v >= due \/ Unread \/ write) BY <2>1 DEF Vouches
  <2> QED BY <1>0, <2>1, <2>2 DEF Vouches, Unread, Coming, folder
<1>7. CASE StatFolder \/ WithdrawAdmission \/ CancelWatcher \/ RunIndex \/ UNCHANGED vars
  <2>1. /\ git' = git \/ git' # "arming"
        /\ UNCHANGED <<folder, epoch, channel, write, due>>
        /\ watcher' = watcher \/ ~watcher'.live
    BY <1>7 DEF StatFolder, WithdrawAdmission, CancelWatcher, RunIndex, vars, block, history, Stopped
  <2> QED BY <2>1 DEF Vouches, Unread, Coming, folder
<1> QED BY <1>1, <1>2, <1>3, <1>4, <1>5, <1>6, <1>7 DEF World

LEMMA WorldKept ==
  ASSUME Types, Bounds, Arming, KeptInv, NextInv, World
  PROVE  KeptInv' /\ NextInv'
<1>0. built' = built /\ reader' = reader BY WorldLeavesReads DEF graph
<1>1. KeptInv'
  <2> SUFFICES ASSUME built' # NoGraph' PROVE Vouches(built.version, built.epoch, built.straddled)'
    BY DEF KeptInv
  <2>1. NoGraph' = NoGraph BY DEF NoGraph
  <2>2. Vouches(built.version, built.epoch, built.straddled) BY <1>0, <2>1 DEF KeptInv
  <2>3. /\ built.version \in Version \cup {None} /\ built.epoch \in Nat
        /\ built.straddled \in BOOLEAN /\ built.epoch <= epoch
    BY DEF Types, Reading, Graph, Bounds
  <2> QED BY <1>0, <2>2, <2>3, WorldVouches DEF Vouches
<1>2. NextInv'
  <2> SUFFICES ASSUME NEW r \in Reader, reader'[r].at = "built"
               PROVE  Vouches(reader[r].got, reader[r].epoch, reader[r].straddled)'
    BY DEF NextInv
  <2>1. Vouches(reader[r].got, reader[r].epoch, reader[r].straddled) BY <1>0 DEF NextInv
  <2>2. /\ reader[r].got \in Version \cup {None} /\ reader[r].epoch \in Nat
        /\ reader[r].straddled \in BOOLEAN /\ reader[r].epoch <= epoch
    BY DEF Types, Reading, ReaderState, Bounds
  <2> QED BY <1>0, <2>1, <2>2, WorldVouches DEF Vouches
<1> QED BY <1>1, <1>2

(***************************************************************************)
(* Links reads                                                             *)
(***************************************************************************)
Reads(r) == Ask(r) \/ LoadEpoch(r) \/ EnterGraph(r) \/ Build(r) \/ Keep(r)

\* What a step of one reader leaves alone, and where the reader comes from.
LEMMA ReadsLeave ==
  ASSUME Types, NEW r \in Reader, Reads(r)
  PROVE  /\ UNCHANGED <<folder, block, watcher, wanted, git, write, history>>
         /\ \A q \in Reader : q # r => reader'[q] = reader[q]
<1>1. reader \in [Reader -> ReaderState] BY DEF Types, Reading
<1>2. UNCHANGED <<folder, block, watcher, wanted, git, write, history>>
  BY DEF Reads, Ask, LoadEpoch, EnterGraph, Build, Keep
<1>3. \A q \in Reader : q # r => reader'[q] = reader[q]
  BY <1>1 DEF Reads, Ask, LoadEpoch, EnterGraph, Build, Keep
<1> QED BY <1>2, <1>3

LEMMA ReadsBounds ==
  ASSUME Types, Bounds, NEW r \in Reader, Reads(r) PROVE Bounds'
<1>1. /\ UNCHANGED <<disk, due, watcher, epoch>> /\ epoch \in Nat
      /\ \A q \in Reader : q # r => reader'[q] = reader[q]
  BY ReadsLeave DEF folder, block, history, Types, Numbers
<1>2. reader \in [Reader -> ReaderState] /\ reader[r].epoch <= epoch /\ built.epoch <= epoch
  BY DEF Types, Reading, Bounds
<1>3. reader'[r].epoch \in {0, epoch, reader[r].epoch}
  <2>1. CASE Ask(r) BY <1>2, <2>1 DEF Ask, Idle, ReaderState
  <2>2. CASE LoadEpoch(r) BY <1>2, <2>2 DEF LoadEpoch, ReaderState
  <2>3. CASE EnterGraph(r) BY <1>2, <2>3 DEF EnterGraph, Idle, ReaderState
  <2>4. CASE Build(r) BY <1>2, <2>4 DEF Build, Idle, ReaderState
  <2>5. CASE Keep(r) BY <1>2, <2>5 DEF Keep, Idle
  <2> QED BY <2>1, <2>2, <2>3, <2>4, <2>5 DEF Reads
<1>4. built'.epoch \in {0, built.epoch, reader[r].epoch}
  BY DEF Reads, Ask, LoadEpoch, EnterGraph, Build, Keep, NoGraph
<1> QED BY <1>1, <1>2, <1>3, <1>4 DEF Bounds

LEMMA ReadsOneBuilds ==
  ASSUME Types, OneBuilds, NEW r \in Reader, Reads(r) PROVE OneBuilds'
<1>1. \A q \in Reader : q # r => reader'[q] = reader[q] BY ReadsLeave
<1>2. reader \in [Reader -> ReaderState] BY DEF Types, Reading
<1>3. CASE reader[r].at \in Building \/ reader'[r].at \notin Building
  BY <1>1, <1>3 DEF OneBuilds
<1>4. CASE reader[r].at \notin Building /\ reader'[r].at \in Building
  <2>1. LockFree
    <3>1. CASE Ask(r) BY <1>2, <1>4, <3>1 DEF Ask, Idle, Building
    <3>2. CASE LoadEpoch(r) BY <1>2, <1>4, <3>2 DEF LoadEpoch, ReaderState, Building
    <3>3. CASE EnterGraph(r) BY <3>3 DEF EnterGraph
    <3>4. CASE Build(r) \/ Keep(r) BY <1>4, <3>4 DEF Build, Keep, Building
    <3> QED BY <3>1, <3>2, <3>3, <3>4 DEF Reads
  <2> QED BY <1>1, <2>1 DEF LockFree, OneBuilds, Building
<1> QED BY <1>3, <1>4

LEMMA ReadsArming ==
  ASSUME Types, Bounds, Arming, NEW r \in Reader, Reads(r) PROVE Arming'
<1> SUFFICES ASSUME git' = "arming" PROVE Arming' BY DEF Arming
<1>1. /\ UNCHANGED <<epoch, watcher, git>> /\ epoch \in Nat
      /\ \A q \in Reader : q # r => reader'[q] = reader[q]
  BY ReadsLeave DEF block, Types, Numbers
<1>2. /\ watcher = Stopped
      /\ reader[r].at = "watched" => reader[r].epoch < epoch
      /\ reader[r].at \in Building \cup {"waiting"} /\ reader[r].epoch = epoch => reader[r].straddled
  BY <1>1 DEF Arming
<1>3. reader \in [Reader -> ReaderState] /\ reader[r] \in ReaderState BY DEF Types, Reading
<1>4. reader'[r].at # "watched"
      /\ (reader'[r].at \in Building \cup {"waiting"} /\ reader'[r].epoch = epoch
          => reader'[r].straddled)
  <2>1. CASE Ask(r) BY <1>1, <2>1 DEF Ask
  <2>2. CASE LoadEpoch(r)
    <3>1. reader[r].epoch # epoch BY <1>1, <1>2, <1>3, <2>2 DEF LoadEpoch, ReaderState
    <3> QED BY <1>3, <2>2, <3>1 DEF LoadEpoch, ReaderState
  <2>3. CASE EnterGraph(r) BY <1>2, <1>3, <2>3 DEF EnterGraph, Idle, ReaderState, Building
  <2>4. CASE Build(r) BY <1>2, <1>3, <2>4 DEF Build, Idle, ReaderState, Building
  <2>5. CASE Keep(r) BY <1>2, <1>3, <2>5 DEF Keep, Idle, ReaderState, Building
  <2> QED BY <2>1, <2>2, <2>3, <2>4, <2>5 DEF Reads
<1>5. Stopped' = Stopped BY DEF Stopped
<1> QED BY <1>1, <1>2, <1>4, <1>5 DEF Arming

\* A graph that was just read from the folder lacks nothing.
LEMMA FreshIsVouched ==
  ASSUME Types, Bounds, NEW e, NEW s \in BOOLEAN, e = epoch /\ git = "arming" => s
  PROVE  Vouches(disk, e, s)
<1> disk \in Int /\ due \in Int /\ due <= disk BY DEF Types, Numbers, Version, Bounds
<1> QED BY DEF Vouches

LEMMA ReadsKept ==
  ASSUME IInv, Types, NEW r \in Reader, Reads(r)
  PROVE  KeptInv' /\ NextInv'
<1> USE DEF IInv
<1>1. /\ UNCHANGED <<disk, due, watcher, epoch, git, write>>
      /\ \A q \in Reader : q # r => reader'[q] = reader[q]
  BY ReadsLeave DEF folder, block, history
<1>2. reader \in [Reader -> ReaderState] /\ reader[r] \in ReaderState BY DEF Types, Reading
<1>3. NoGraph' = NoGraph BY DEF NoGraph
<1>4. CASE EnterGraph(r)
  <2>1. channel'["graph"] = "nothing" BY <1>4 DEF EnterGraph, Types, Reports, Receiver
  <2>2. CASE Keeps /\ UNCHANGED built
    <3>1. channel' = channel BY <1>4, <2>2 DEF EnterGraph, Keeps, Unread, Types, Reports, Receiver
    <3>2. KeptInv'
      BY <1>1, <1>3, <2>2, <3>1 DEF KeptInv, Vouches, Unread, Coming
    <3>3. \A q \in Reader : reader'[q].at = "built" => reader'[q] = reader[q]
      BY <1>1, <1>2, <1>4 DEF EnterGraph, Idle, ReaderState
    <3> QED BY <1>1, <3>1, <3>2, <3>3 DEF NextInv, Vouches, Unread, Coming
  <2>3. CASE built' = NoGraph
    <3>1. \A q \in Reader : reader[q].at # "built" BY <1>4 DEF EnterGraph, LockFree
    <3>2. \A q \in Reader : reader'[q].at # "built"
      BY <1>1, <1>2, <1>4, <3>1 DEF EnterGraph, Idle, ReaderState
    <3> QED BY <1>3, <2>3, <3>2 DEF KeptInv, NextInv
  <2> QED BY <1>4, <2>2, <2>3 DEF EnterGraph
<1>5. CASE Ask(r) \/ LoadEpoch(r) \/ Build(r) \/ Keep(r)
  <2>1. channel' = channel BY <1>5 DEF Ask, LoadEpoch, Build, Keep
  <2>2. \A q \in Reader : reader'[q].at = "built" =>
            \/ reader'[q] = reader[q]
            \/ q = r /\ Build(r) /\ dir
    <3>1. reader'[r].at = "built" => Build(r) /\ dir
      <4>1. CASE Ask(r) BY <1>2, <4>1 DEF Ask, Idle
      <4>2. CASE LoadEpoch(r) BY <1>2, <4>2 DEF LoadEpoch, ReaderState
      <4>3. CASE Build(r) BY <1>2, <4>3 DEF Build, Idle
      <4>4. CASE Keep(r) BY <1>2, <4>4 DEF Keep, Idle
      <4> QED BY <1>5, <4>1, <4>2, <4>3, <4>4
    <3> QED BY <1>1, <3>1
  <2>3. \A q \in Reader : reader'[q].at = "built" =>
            Vouches(reader'[q].got, reader'[q].epoch, reader'[q].straddled)
    <3> TAKE q \in Reader
    <3> HAVE reader'[q].at = "built"
    <3>1. CASE reader'[q] = reader[q] BY <3>1 DEF NextInv
    <3>2. CASE q = r /\ Build(r) /\ dir
      <4>1. /\ reader[r].at = "building" /\ reader'[r].got = disk
            /\ reader'[r].epoch = reader[r].epoch /\ reader'[r].straddled = reader[r].straddled
        BY <1>2, <3>2 DEF Build, ReaderState
      <4>2. reader[r].epoch = epoch /\ git = "arming" => reader[r].straddled
        BY <4>1 DEF Arming, Building
      <4>3. reader[r].straddled \in BOOLEAN BY <1>2 DEF ReaderState
      <4>4. Vouches(disk, reader[r].epoch, reader[r].straddled)
        BY <4>2, <4>3, FreshIsVouched
      <4> QED BY <3>2, <4>1, <4>4
    <3> QED BY <2>2, <3>1, <3>2
  <2>4. NextInv' BY <1>1, <2>1, <2>3 DEF NextInv, Vouches, Unread, Coming
  <2>5. built' # NoGraph => Vouches(built'.version, built'.epoch, built'.straddled)
    <3>1. CASE UNCHANGED built BY <3>1 DEF KeptInv
    <3>2. CASE Keep(r)
      <4>1. /\ reader[r].at = "built" /\ built'.version = reader[r].got
            /\ built'.epoch = reader[r].epoch /\ built'.straddled = reader[r].straddled
        BY <3>2 DEF Keep
      <4> QED BY <4>1 DEF NextInv
    <3> QED BY <1>5, <3>1, <3>2 DEF Ask, LoadEpoch, Build
  <2>6. KeptInv' BY <1>1, <1>3, <2>1, <2>5 DEF KeptInv, Vouches, Unread, Coming
  <2> QED BY <2>4, <2>6
<1> QED BY <1>4, <1>5 DEF Reads

(***************************************************************************)
(* The theorem                                                             *)
(***************************************************************************)
LEMMA InitIInv == Init => IInv
<1> SUFFICES ASSUME Init PROVE IInv OBVIOUS
<1>1. Types BY InitTypes
<1>2. Bounds
  BY DEF Init, Bounds, Started, Stopped, None, NoGraph, Idle
<1>3. OneBuilds /\ Arming /\ KeptInv /\ NextInv
  BY DEF Init, OneBuilds, Arming, KeptInv, NextInv, Building, Idle
<1> QED BY <1>1, <1>2, <1>3, TypesAreTypeOK DEF IInv

LEMMA StepIInv == IInv /\ [Next]_vars => IInv'
<1> SUFFICES ASSUME IInv, [Next]_vars PROVE IInv' OBVIOUS
<1> USE DEF IInv
<1>1. Types' BY StepTypes
<1>2. CASE World
  <2>1. OneBuilds' BY <1>2, WorldLeavesReads DEF OneBuilds, graph
  <2> QED BY <1>1, <1>2, <2>1, WorldBounds, WorldArming, WorldKept
<1>3. CASE \E r \in Reader : Reads(r)
  <2>1. PICK r \in Reader : Reads(r) BY <1>3
  <2> QED BY <1>1, <2>1, ReadsBounds, ReadsOneBuilds, ReadsArming, ReadsKept
<1>4. World \/ \E r \in Reader : Reads(r) BY DEF Next, World, Reads
<1> QED BY <1>2, <1>3, <1>4

LEMMA IInvVouches == IInv => GraphIsVouched
<1> SUFFICES ASSUME IInv, built # NoGraph, built.epoch = epoch, WatcherRunning
             PROVE  \/ built.version >= IF watcher.hears /\ ~built.straddled THEN disk ELSE due
                    \/ Unread \/ Coming
  BY TypesAreTypeOK DEF GraphIsVouched, IInv
<1> QED BY DEF IInv, KeptInv, Vouches, WatcherRunning

\* The types of the state: in particular no watcher outlives the revocation of its block
\* (VaultControlBlock::revoke), though a Git turn may be starting one (rearm_watcher).
THEOREM TypeCorrect == Spec => []TypeOK
<1> QED BY InitIInv, StepIInv, TypesAreTypeOK, PTL DEF Spec, IInv

\* The graph of links that the next read answers with (linked_index) lacks no write that
\* was answered and no change that was reported, whatever the watcher lost or was
\* started again.
THEOREM LinksAreVouched == Spec => []GraphIsVouched
<1> QED BY InitIInv, StepIInv, IInvVouches, PTL DEF Spec

=============================================================================

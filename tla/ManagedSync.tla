----------------------------- MODULE ManagedSync -----------------------------
(***************************************************************************)
(* What a Git turn does to a checkout and its remote                       *)
(* (src/src/git/managed_sync.rs): a sync in either mode, a commit, and the *)
(* publication of a recovery branch, step by step, against editors who     *)
(* save files in the checkout at any time, other people's pushes, failing  *)
(* networks, refusing remotes and a process that dies between two steps.   *)
(*                                                                         *)
(* A commit is its tree and the set of commits it is reached from.  A file *)
(* is atomic: both sides changing one is a conflict.  libgit2 is modelled  *)
(* by its contract as the code relies on it: a safe checkout writes        *)
(* nothing when it would overwrite a change, a merge records its state     *)
(* before it writes, a push fast-forwards or says why not.                 *)
(***************************************************************************)
EXTENDS Naturals, Sequences, FiniteSets

CONSTANTS File,      \* the files of the checkout
          Inside,    \* those in the Vault's folder
          MaxSaves,  \* bound on what editors save
          MaxOthers, \* bound on what others do: pushes, and switches of the mode
          MaxFaults  \* bound on failing networks, refusals and crashes

ASSUME SyncAssumption ==
  /\ IsFiniteSet(File) /\ Inside \subseteq File
  /\ MaxSaves \in Nat /\ MaxOthers \in Nat /\ MaxFaults \in Nat

\* Contents: every save and every push of others makes one of its own.
Original == <<"original", 0>>
Markers == <<"markers", 0>>   \* what a conflicted merge writes into a file
Content == {Original, Markers} \cup ({"ours"} \X (1 .. MaxSaves))
           \cup ({"theirs"} \X (1 .. MaxOthers))

TurnKind == {"sync", "commit", "recovery"}

VARIABLES
  mode,       \* PullOnly or TwoWay
  commits,    \* every commit there is, ours and theirs
  head,       \* the local branch
  tracking,   \* the remote branch as last fetched
  remote,     \* the branch on the remote
  recovery,   \* the recovery branch on the remote, 0 for none
  disk,       \* the checkout's files
  merging,    \* the repository is mid-merge (MERGE_HEAD, index conflicts)
  running,    \* the turn under way: its kind, next step, attempt, what the
              \* remote offered, the index of its merge
  result,     \* the last turn's result, "none" while one runs
  conflicted, \* the Vault's Git status reports a conflict
  saved,      \* history: the last save of each file by an editor
  trampled,   \* history: files whose save an abort overwrote
  saves, others, faults

refs == <<commits, head, tracking, remote, recovery>>
counts == <<saves, others, faults>>
history == <<saved, trampled>>
syncVars == <<mode, refs, disk, merging, running, result, conflicted, history, counts>>

NotRunning == [kind |-> "none", step |-> "none", attempt |-> 0, offer |-> 0, index |-> <<>>]

Tree(c) == commits[c].tree
Anc(c) == IF c = 0 THEN {} ELSE commits[c].anc

SyncInit ==
  /\ mode \in {"PullOnly", "TwoWay"}
  /\ commits = <<[tree |-> [f \in File |-> Original], anc |-> {1}]>>
  /\ head = 1 /\ tracking = 1 /\ remote = 1 /\ recovery = 0
  /\ disk = [f \in File |-> Original]
  /\ merging = FALSE
  /\ running = NotRunning /\ result = "none" /\ conflicted = FALSE
  /\ saved = [f \in File |-> Original] /\ trampled = {}
  /\ saves = 0 /\ others = 0 /\ faults = 0

Ahead == Anc(head) \ Anc(tracking)
Behind == Anc(tracking) \ Anc(head)
Dirty == {f \in File : disk[f] # Tree(head)[f]}
Differing(c) == {f \in File : Tree(c)[f] # Tree(head)[f]}

\* A commit of `tree' on `parents', and the number it gets.
NewCommit(tree, parents) ==
  Append(commits, [tree |-> tree,
                   anc |-> {Len(commits) + 1} \cup UNION {Anc(p) : p \in parents}])
NewId == Len(commits) + 1

Faulty == faults < MaxFaults /\ faults' = faults + 1 /\ UNCHANGED <<saves, others>>

-----------------------------------------------------------------------------
(* The turn.                                                               *)

GoTo(step) == running' = [running EXCEPT !.step = step] /\ UNCHANGED <<result, conflicted>>

\* The turn is over.  A sync's result, and any local failure, is the status; a
\* recovery branch has a status of its own.
End(r) ==
  /\ running' = NotRunning /\ result' = r
  /\ conflicted' = IF running.kind = "recovery" \/ (running.kind = "commit" /\ r = "committed")
                   THEN conflicted ELSE r = "conflict"

\* reject_unfinished_operation.  Mutant: the check is left out.
MutUnfinished == FALSE
Unfinished == merging

\* open_validated_repository, open_commit_repository.  A recovery branch is only
\* published for a Vault in conflict.
BeginTurn(kind) ==
  /\ running = NotRunning
  /\ mode = "TwoWay" \/ kind = "sync"
  /\ kind = "recovery" => conflicted
  /\ IF Unfinished
     THEN /\ result' = "unfinished"
          /\ conflicted' = (conflicted /\ kind = "recovery")
          /\ UNCHANGED running
     ELSE /\ running' = [NotRunning EXCEPT !.kind = kind, !.step = "prepare", !.attempt = 1]
          /\ result' = "none"
          /\ UNCHANGED conflicted
  /\ UNCHANGED <<mode, refs, disk, merging, history, counts>>

\* Where a turn goes from a worktree that is committed or clean.  Mutant: with
\* nothing to push by what was fetched last, a sync asks the remote nothing.
MutAfterPrepare ==
  CASE running.kind = "commit" -> End("committed")
    [] running.kind = "recovery" -> GoTo("offer")
    [] running.kind = "sync" /\ Ahead = {} /\ Dirty = {} -> End("synced")
    [] OTHER -> GoTo("fetch")
AfterPrepare ==
  CASE running.kind = "commit" -> End("committed")
    [] running.kind = "recovery" -> GoTo("offer")
    [] OTHER -> GoTo("fetch")

\* prepare_two_way_worktree, commit_vault_drift: outside drift is refused, drift
\* in the Vault's folder is committed.  reject_dirty_worktree in Pull-only.
Prepare ==
  /\ running.step = "prepare"
  /\ CASE Dirty = {} -> AfterPrepare /\ UNCHANGED <<commits, head>>
       [] Dirty # {} /\ (mode = "PullOnly" \/ ~(Dirty \subseteq Inside)) ->
            End("dirty") /\ UNCHANGED <<commits, head>>
       [] OTHER -> /\ commits' = NewCommit(disk, {head})
                   /\ head' = NewId
                   /\ AfterPrepare
  /\ UNCHANGED <<mode, tracking, remote, recovery, disk, merging, history, counts>>

\* Every attempt fetches, and then prepares again what was saved meanwhile.
Fetch ==
  /\ running.step = "fetch"
  /\ \/ tracking' = remote /\ GoTo("reprepare") /\ UNCHANGED counts
     \/ Faulty /\ End("unreachable") /\ UNCHANGED tracking
  /\ UNCHANGED <<mode, commits, head, remote, recovery, disk, merging, history>>

Reprepare ==
  /\ running.step = "reprepare"
  /\ CASE Dirty = {} -> GoTo("integrate") /\ UNCHANGED <<commits, head>>
       [] Dirty # {} /\ (mode = "PullOnly" \/ ~(Dirty \subseteq Inside)) ->
            End("dirty") /\ UNCHANGED <<commits, head>>
       [] OTHER -> /\ commits' = NewCommit(disk, {head})
                   /\ head' = NewId
                   /\ GoTo("integrate")
  /\ UNCHANGED <<mode, tracking, remote, recovery, disk, merging, history, counts>>

\* graph: what there is to integrate, and to push.
Compare ==
  /\ running.step = "integrate"
  /\ CASE mode = "PullOnly" /\ Ahead # {} -> End("local_commits")
       [] mode = "PullOnly" /\ Ahead = {} /\ Behind = {} -> End("synced")
       [] Behind # {} /\ Ahead = {} -> GoTo("checkout")
       [] Behind # {} /\ Ahead # {} /\ mode = "TwoWay" -> GoTo("merge")
       [] OTHER -> GoTo("settle")
  /\ UNCHANGED <<mode, refs, disk, merging, history, counts>>

\* fast_forward: the remote's files are checked out, then the branch moves.
Overwrites(c) == {f \in Differing(c) : disk[f] \notin {Tree(head)[f], Tree(c)[f]}}
Written(files, tree) == [f \in File |-> IF f \in files THEN tree[f] ELSE disk[f]]
Checkout ==
  /\ running.step = "checkout"
  /\ IF Overwrites(tracking) # {}
     THEN End("dirty") /\ UNCHANGED disk
     ELSE /\ disk' = Written(Differing(tracking), Tree(tracking))
          /\ GoTo("forward")
  /\ UNCHANGED <<mode, refs, merging, history, counts>>

MoveBranch ==
  /\ running.step = "forward"
  /\ head' = tracking
  /\ IF mode = "PullOnly" THEN End("synced") ELSE GoTo("settle")
  /\ UNCHANGED <<mode, commits, tracking, remote, recovery, disk, merging, history, counts>>

\* The base of a three-way merge: a best common ancestor.
Bases == LET common == Anc(head) \cap Anc(tracking)
         IN  {b \in common : \A c \in common : b \in Anc(c) => c = b}
MergeFrom(b) ==
  [f \in File |-> LET ours == Tree(head)[f]
                      theirs == Tree(tracking)[f]
                  IN  IF ours = theirs \/ theirs = Tree(b)[f] THEN ours
                      ELSE IF ours = Tree(b)[f] THEN theirs
                      ELSE Markers]

\* merge_remote: git_merge records that it merges before it writes a file.
BeginMerge ==
  /\ running.step = "merge"
  /\ merging' = TRUE
  /\ \E b \in Bases : running' = [running EXCEPT !.step = "merge_files", !.index = MergeFrom(b)]
  /\ UNCHANGED <<mode, refs, disk, result, conflicted, history, counts>>

\* What the merge has to write, with the index at `index'.
MergeWrites == {f \in File : running.index[f] # Tree(head)[f]}
Conflicts == {f \in File : running.index[f] = Markers}

WriteMerge ==
  /\ running.step = "merge_files"
  /\ IF MergeWrites \cap Dirty # {}
     THEN End("refused") /\ merging' = FALSE /\ UNCHANGED disk
     ELSE /\ disk' = Written(MergeWrites, running.index)
          /\ GoTo(IF Conflicts = {} THEN "merge_commit" ELSE "abort")
          /\ UNCHANGED merging
  /\ UNCHANGED <<mode, refs, history, counts>>

CommitMerge ==
  /\ running.step = "merge_commit"
  /\ commits' = NewCommit(running.index, {head, tracking})
  /\ head' = NewId
  /\ GoTo("merge_clean")
  /\ UNCHANGED <<mode, tracking, remote, recovery, disk, merging, history, counts>>

\* cleanup_state, and a checkout of the new head that finds nothing to write.
CleanMerge ==
  /\ running.step = "merge_clean"
  /\ merging' = FALSE
  /\ GoTo("settle")
  /\ UNCHANGED <<mode, refs, disk, history, counts>>

\* abort_merge: what the merge wrote is put back.  Mutant: everything is.
MutPutBack == File
PutBack == MergeWrites
RestoreFiles ==
  /\ running.step = "abort"
  /\ \/ /\ disk' = Written(PutBack, Tree(head))
        /\ trampled' = trampled \cup {f \in MergeWrites : disk[f] # running.index[f]}
        /\ GoTo("abort_reset")
        /\ UNCHANGED counts
     \/ Faulty /\ GoTo("abort_hard") /\ UNCHANGED <<disk, trampled>>
  /\ UNCHANGED <<mode, refs, merging, saved>>

\* The mixed reset and cleanup_state.  The hard reset, when the files could not
\* be restored one by one, puts everything back.  Either may fail, and leaves the
\* repository merging.
ResetIndex ==
  /\ running.step = "abort_reset"
  /\ \/ merging' = FALSE /\ End("conflict") /\ UNCHANGED counts
     \/ Faulty /\ End("unfinished") /\ UNCHANGED merging
  /\ UNCHANGED <<mode, refs, disk, history>>
ResetHard ==
  /\ running.step = "abort_hard"
  /\ \/ /\ disk' = Tree(head)
        /\ trampled' = trampled \cup Dirty
        /\ merging' = FALSE
        /\ End("conflict")
        /\ UNCHANGED counts
     \/ Faulty /\ End("unfinished") /\ UNCHANGED <<disk, merging, trampled>>
  /\ UNCHANGED <<mode, refs, saved>>

\* The second graph: nothing of ours that the remote lacks.
CompareAgain ==
  /\ running.step = "settle"
  /\ IF Ahead = {} THEN End("synced") ELSE GoTo("offer")
  /\ UNCHANGED <<mode, refs, disk, merging, history, counts>>

\* push_refspec.  The remote says where its branch is; one that the push would
\* not fast-forward is a race, for a recovery branch a divergence.
\* Mutant: any push does.
Target == IF running.kind = "recovery" THEN recovery ELSE remote
MutFastForwards(tip) == TRUE
FastForwards(tip) == tip = 0 \/ tip \in Anc(head)
\* The race is retried once.
Raced ==
  IF running.kind = "recovery" THEN End("diverged")
  ELSE IF running.attempt < 2
       THEN /\ running' = [running EXCEPT !.step = "fetch", !.attempt = 2]
            /\ UNCHANGED <<result, conflicted>>
       ELSE End("race")
Offer ==
  /\ running.step = "offer"
  /\ \/ /\ UNCHANGED counts
        /\ IF FastForwards(Target)
           THEN /\ running' = [running EXCEPT !.step = "push", !.offer = Target]
                /\ UNCHANGED <<result, conflicted>>
           ELSE Raced
     \/ Faulty /\ End("unreachable")
  /\ UNCHANGED <<mode, refs, disk, merging, history>>

\* The remote takes the push unless its branch has moved since.
Landed == IF running.kind = "recovery"
          THEN recovery' = head /\ UNCHANGED <<remote, tracking>>
          ELSE remote' = head /\ UNCHANGED recovery

\* The answer a push that the remote refused ends with.  Mutant: the callback
\* that reports the refusal is not installed, so the push looks fine.
MutRefusal == IF running.kind = "recovery" THEN "published" ELSE "synced"
Refusal == "rejected"

Push ==
  /\ running.step = "push"
  /\ \/ /\ running.offer = Target
        /\ Landed
        /\ IF running.kind = "recovery" THEN End("published")
           ELSE tracking' = head /\ End("synced")
        /\ UNCHANGED counts
     \/ \* it landed and the answer was lost
        running.offer = Target /\ Landed /\ UNCHANGED tracking /\ Faulty /\ End("unreachable")
     \/ running.offer # Target /\ End(Refusal) /\ UNCHANGED <<remote, recovery, tracking, counts>>
     \/ \* a hook or a protected branch says no
        Faulty /\ End(Refusal) /\ UNCHANGED <<remote, recovery, tracking>>
  /\ UNCHANGED <<mode, commits, head, disk, merging, history>>

-----------------------------------------------------------------------------
(* Everybody else.                                                         *)

\* An editor saves a file in the checkout, whatever the turn is doing.
Save(f) ==
  /\ saves < MaxSaves /\ saves' = saves + 1
  /\ disk' = [disk EXCEPT ![f] = <<"ours", saves + 1>>]
  /\ saved' = [saved EXCEPT ![f] = <<"ours", saves + 1>>]
  /\ trampled' = trampled \ {f}
  /\ UNCHANGED <<mode, refs, merging, running, result, conflicted, others, faults>>

Others == others < MaxOthers /\ others' = others + 1 /\ UNCHANGED <<saves, faults>>

\* Somebody pushes a commit to the remote's branch.
OthersPush(f) ==
  /\ Others
  /\ commits' = NewCommit([Tree(remote) EXCEPT ![f] = <<"theirs", others + 1>>], {remote})
  /\ remote' = NewId
  /\ UNCHANGED <<mode, head, tracking, recovery, disk, merging, running, result, conflicted,
                 history>>

\* Somebody adds to the recovery branch, or merges it into the remote's branch,
\* settling what the two sides disagree about.
OthersResolve(f) ==
  /\ Others /\ recovery # 0
  /\ \/ /\ commits' = NewCommit([Tree(recovery) EXCEPT ![f] = <<"theirs", others + 1>>],
                                {recovery})
        /\ recovery' = NewId /\ UNCHANGED remote
     \/ /\ commits' = NewCommit([g \in File |-> IF Tree(remote)[g] = Tree(recovery)[g]
                                                THEN Tree(remote)[g]
                                                ELSE <<"theirs", others + 1>>],
                                {remote, recovery})
        /\ remote' = NewId /\ UNCHANGED recovery
  /\ UNCHANGED <<mode, head, tracking, disk, merging, running, result, conflicted, history>>

\* An edit of the Vault switches its mode, between turns.
SwitchMode ==
  /\ running = NotRunning /\ Others
  /\ mode' = IF mode = "TwoWay" THEN "PullOnly" ELSE "TwoWay"
  /\ UNCHANGED <<refs, disk, merging, running, result, conflicted, history>>

\* The process dies.  A checkout or a merge may have written some of its files.
Unwritten == CASE running.step = "checkout" /\ Overwrites(tracking) = {} -> Differing(tracking)
               [] running.step = "merge_files" /\ MergeWrites \cap Dirty = {} -> MergeWrites
               [] running.step = "abort" -> PutBack
               [] OTHER -> {}
BeingWritten == CASE running.step = "checkout" -> Tree(tracking)
                  [] running.step = "merge_files" -> running.index
                  [] OTHER -> Tree(head)
Crash ==
  /\ running # NotRunning /\ Faulty
  /\ \E files \in SUBSET Unwritten :
       /\ disk' = Written(files, BeingWritten)
       /\ trampled' = IF running.step # "abort" THEN trampled
                      ELSE trampled \cup {f \in files : disk[f] # running.index[f]}
  /\ running' = NotRunning /\ result' = "crashed"
  /\ UNCHANGED <<mode, refs, merging, conflicted, saved>>

-----------------------------------------------------------------------------
Turning == Prepare \/ Fetch \/ Reprepare \/ Compare \/ Checkout \/ MoveBranch \/ BeginMerge
           \/ WriteMerge \/ CommitMerge \/ CleanMerge \/ RestoreFiles \/ ResetIndex
           \/ ResetHard \/ CompareAgain \/ Offer \/ Push
Foreign == SwitchMode \/ Crash \/ \E f \in File : Save(f) \/ OthersPush(f) \/ OthersResolve(f)

SyncNext == Turning \/ Foreign \/ \E kind \in TurnKind : BeginTurn(kind)
SyncSpec == SyncInit /\ [][SyncNext]_syncVars

\* A turn that runs goes on, and a sync gets its turn between commits.
FairSyncSpec == SyncSpec /\ WF_syncVars(Turning) /\ SF_syncVars(BeginTurn("sync"))

-----------------------------------------------------------------------------
(* Properties.                                                             *)

SyncTypeOK ==
  /\ mode \in {"PullOnly", "TwoWay"}
  /\ commits \in Seq([tree : [File -> Content], anc : SUBSET (1 .. Len(commits))])
  /\ head \in DOMAIN commits /\ tracking \in DOMAIN commits /\ remote \in DOMAIN commits
  /\ recovery \in {0} \cup DOMAIN commits
  /\ disk \in [File -> Content]
  /\ merging \in BOOLEAN
  /\ running.kind \in TurnKind \cup {"none"} /\ running.attempt \in 0 .. 2
  /\ running.offer \in {0} \cup DOMAIN commits
  /\ running.index \in [File -> Content] \cup {<<>>}
  /\ conflicted \in BOOLEAN
  /\ saved \in [File -> Content] /\ trampled \subseteq File

\* What an editor last saved in a file is there, or in the history, through any
\* merge, abort, fast-forward and crash: except on a path the aborted merge had
\* written, or under the hard reset that is its fallback.
SavesSurvive ==
  \A f \in File \ trampled :
    saved[f] = disk[f] \/ \E c \in Anc(head) : saved[f] = Tree(c)[f]

\* The state keeps its shape.  Conflict markers stay where no turn commits them:
\* they are in no commit, and in the files only of a repository that says it is
\* mid-merge (#323).
MarkersAreFenced ==
  /\ SyncTypeOK
  /\ \A c \in DOMAIN commits : \A f \in File : Tree(c)[f] # Markers
  /\ (\E f \in File : disk[f] = Markers) => merging

\* A turn that reads as synchronized left nothing of ours unpushed, and one that
\* reads as published has put our head on the recovery branch.
SuccessIsOnRemote ==
  /\ result = "synced" => head \in Anc(remote)
  /\ result = "published" => head \in Anc(recovery)

\* No branch ever loses a commit, whoever races with the push.
HistoryOnlyGrows ==
  [][/\ Anc(head) \subseteq Anc(head)'
     /\ Anc(remote) \subseteq Anc(remote)'
     /\ Anc(recovery) \subseteq Anc(recovery)']_syncVars

\* What only a person can settle: an interrupted merge, a real conflict, drift
\* that must not be committed, local commits in Pull-only mode.
Clashes(x, y) ==
  \E b \in Anc(x) \cap Anc(y) : \E f \in File :
    /\ \A c \in Anc(x) \cap Anc(y) : b \in Anc(c) => c = b
    /\ Tree(x)[f] # Tree(b)[f] /\ Tree(y)[f] # Tree(b)[f] /\ Tree(x)[f] # Tree(y)[f]
NeedsPerson ==
  \/ merging \/ Clashes(head, remote)
  \/ ~(Dirty \subseteq Inside)
  \/ mode = "PullOnly" /\ (Dirty # {} \/ ~(head \in Anc(remote)))

\* Once nobody saves, pushes or fails any more, the checkout and the remote come
\* to the same commit and files, unless a person is needed.
EventuallyInSync == <>[](NeedsPerson \/ (Dirty = {} /\ Anc(head) = Anc(remote)))
=============================================================================

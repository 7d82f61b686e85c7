--------------------------- MODULE IndexPublication ---------------------------
(***************************************************************************)
(* How one Vault's search index follows its Markdown: the Index turn of    *)
(* src/src/vault_executor.rs, which reads the Vault under its write        *)
(* exclusion, embeds without it and publishes under it again; the          *)
(* foreground writes, Git turns and outside edits that change the Markdown *)
(* meanwhile; and everything that asks for the turn that catches up.       *)
(*                                                                         *)
(* The Vault's Markdown is a version number.  The Vault stays active on    *)
(* one control block (CollectionLifecycle has its replacement), SQLite     *)
(* serves every status write, and the search model does not change.        *)
(* Changes on the intent channel and requests in the coordinator coalesce: *)
(* each is there or not.                                                   *)
(***************************************************************************)
EXTENDS Naturals

CONSTANTS
  MaxChange,  \* bound on changes of the Markdown
  MaxRefused, \* bound on writes refused under the exclusion; they count as changes
  MaxGit,     \* bound on Git turns
  MaxFailure, \* bound on failing Index turns
  RetryLimit  \* INDEX_RETRY_LIMIT

ASSUME IndexAssumption ==
  /\ MaxChange \in Nat /\ MaxRefused \in Nat /\ MaxGit \in Nat
  /\ MaxFailure \in Nat /\ RetryLimit \in Nat

Version == 0 .. MaxChange
SearchStatus == {"unavailable", "indexing", "browsable", "stale", "ready"}

VARIABLES
  disk,      \* the version of the Vault's Markdown
  holder,    \* who holds the write exclusion: "nobody", "write", "git", "index"
  moved,     \* mutations_taken is not what the Index turn read
  row,       \* the Vault's row of vault_snapshots, and the version it was built from
  status,    \* VaultRuntimeSnapshot::search
  turn,      \* the Index turn
  pending,   \* an Index turn is pending in the coordinator
  write,     \* how far the foreground write is
  refused,   \* refused writes so far
  git,       \* how far the Git turn is, and what came of it
  gitTurns,  \* Git turns so far
  intent,    \* a change intent is on the channel
  event,     \* the watcher has a kernel event to report
  model,     \* the search model is installed
  timers,    \* retries that sleep
  failures,  \* IndexRetries' count for the Vault
  failed,    \* failing Index turns so far
  landed,    \* history: the last version a foreground write reported stale
  guarded,   \* history: the last version a write or a sync made
  excused    \* history: why nobody owes the catch-up of the last Index turn

changes == <<disk, landed, guarded, event>>
retries == <<timers, failures, failed>>
writing == <<write, refused>>
vars == <<changes, holder, moved, row, status, turn, pending, writing, git, gitTurns,
          intent, model, retries, excused>>

\* No row reads as one that does not participate.
Row == [participating : BOOLEAN, fresh : BOOLEAN, searchable : BOOLEAN,
        version : Version]
Turn == [stage : {"none", "deferred", "waiting", "guarded", "marked", "opened", "scanned",
                  "read", "embedding", "publishing", "published", "published stale",
                  "failed"},
         read : Version, rebuilds : BOOLEAN, retry : BOOLEAN]
NoTurn == [stage |-> "none", read |-> 0, rebuilds |-> FALSE, retry |-> FALSE]

\* retained_search_status: what the row supports with no Index turn running.
Retained(r) ==
  IF r.participating /\ r.searchable THEN "stale"
  ELSE IF r.participating THEN "browsable"
  ELSE "unavailable"

\* retained_snapshot_search_status, what a process starts on.
AtStart(r) == IF Retained(r) = "stale" /\ r.fresh THEN "ready" ELSE Retained(r)

\* A process starts on the row an earlier one left, behind the Markdown or not.
\* The lifecycle has asked for an Index turn; the search model may still load.
Init ==
  /\ disk \in {0, 1} \cap Version /\ landed = 0 /\ guarded = 0 /\ event = FALSE
  /\ row \in [participating : BOOLEAN, fresh : BOOLEAN, searchable : BOOLEAN,
             version : {0}]
  /\ status = AtStart(row)
  /\ holder = "nobody" /\ moved = FALSE
  /\ turn = NoTurn /\ pending = TRUE
  /\ write = "none" /\ refused = 0 /\ git = "none" /\ gitTurns = 0
  /\ intent = FALSE
  /\ model \in BOOLEAN
  /\ timers = 0 /\ failures = 0 /\ failed = 0
  /\ excused = "no"

\* A Vault whose row is stale, if it has one.
Stale(r) == [r EXCEPT !.fresh = FALSE]

\* The Index turn is active or pending.
HasIndex == pending \/ turn.stage # "none"

-----------------------------------------------------------------------------
(* Changes of the Markdown.                                                *)

Change ==
  /\ disk < MaxChange
  /\ disk' = disk + 1
  /\ event' = TRUE

\* acquire_mutation: the generation moves as the exclusion is taken.
\* Mutant: it does not.
MutTakeWriteGuard ==
  /\ write = "none" /\ holder = "nobody"
  /\ holder' = "write" /\ write' = "admitted"
  /\ UNCHANGED <<changes, moved, row, status, turn, pending, git, gitTurns, intent,
                 model, retries, excused, refused>>
TakeWriteGuard ==
  /\ write = "none" /\ holder = "nobody"
  /\ disk + refused < MaxChange
  /\ holder' = "write" /\ write' = "admitted"
  /\ moved' = TRUE
  /\ UNCHANGED <<changes, row, status, turn, pending, git, gitTurns, intent, model,
                 retries, excused, refused>>

WriteLands ==
  /\ write = "admitted"
  /\ Change
  /\ guarded' = disk'
  /\ write' = "landed"
  /\ UNCHANGED <<landed, holder, moved, row, status, turn, pending, git, gitTurns,
                 intent, model, retries, excused, refused>>

\* mark_snapshot_behind_write, still under the exclusion.
MarkBehindWrite ==
  /\ write = "landed"
  /\ row' = Stale(row)
  /\ landed' = disk
  /\ write' = "marked"
  /\ UNCHANGED <<disk, guarded, event, holder, moved, status, turn, pending, git,
                 gitTurns, intent, model, retries, excused, refused>>

\* report_write; the exclusion goes with the request.
FinishWrite ==
  /\ write = "marked"
  /\ intent' = TRUE
  /\ holder' = "nobody" /\ write' = "none"
  /\ UNCHANGED <<changes, moved, row, status, turn, pending, git, gitTurns, model,
                 retries, excused, refused>>

\* A write whose precondition fails changed nothing and reports nothing.
RefuseWrite ==
  /\ write = "admitted" /\ refused < MaxRefused
  /\ refused' = refused + 1
  /\ holder' = "nobody" /\ write' = "none"
  /\ excused' = IF turn.stage = "embedding" THEN "refused" ELSE excused
  /\ UNCHANGED <<changes, moved, row, status, turn, pending, git, gitTurns, intent,
                 model, retries>>

\* An editor outside the server; it takes no exclusion.  A write under way keeps
\* its share of the bound.
OutsideEdit ==
  /\ write = "admitted" => disk + 1 < MaxChange
  /\ Change
  /\ UNCHANGED <<landed, guarded, holder, moved, row, status, turn, pending, writing,
                 git, gitTurns, intent, model, retries, excused>>

-----------------------------------------------------------------------------
(* Git turns: run_planned_turn and finish_git_turn.                        *)

TakeGitGuard ==
  /\ git = "none" /\ gitTurns < MaxGit /\ holder = "nobody"
  /\ gitTurns' = gitTurns + 1
  /\ holder' = "git" /\ git' = "working"
  /\ UNCHANGED <<changes, moved, row, status, turn, pending, writing, intent, model,
                 retries, excused>>

\* The sync pulls, finds nothing, or fails, in which case a merge may have
\* landed before.  A sync that panics leaves what it did unrecorded.
RunGit ==
  /\ git = "working"
  /\ \/ /\ git' \in {"quiet", "failed", "panicked"}
        /\ UNCHANGED changes
     \/ /\ Change
        /\ git' \in {"pulled", "failed", "panicked"}
        /\ guarded' = IF git' = "panicked" THEN guarded ELSE disk'
        /\ UNCHANGED landed
  /\ UNCHANGED <<holder, moved, row, status, turn, pending, writing, gitTurns, intent,
                 model, retries, excused>>

\* sync_rewrote_markdown: a pull counts; a failure counts while an Index turn is
\* admitted, which it then follows with a rerun.  Mutant: a failure never counts.
MutRewrote == git = "pulled"
Rewrote == git = "pulled" \/ (git = "failed" /\ HasIndex)

\* request_rerun_if_admitted.  Mutant: it is left out.
MutRerun == FALSE
Rerun == git = "failed" /\ HasIndex

\* Under the exclusion, which goes with it.
RecordGit ==
  /\ git \in {"quiet", "pulled", "failed", "panicked"}
  /\ moved' = (moved \/ Rewrote)
  /\ pending' = (pending \/ Rerun)
  /\ holder' = "nobody"
  /\ git' = IF git \in {"quiet", "pulled"} THEN "synced" ELSE "none"
  /\ UNCHANGED <<changes, row, status, turn, writing, gitTurns, intent, model,
                 retries, excused>>

\* A success asks for an Index turn; what else a turn's end tells is Git status.
FinishGit ==
  /\ git = "synced"
  /\ pending' = TRUE
  /\ git' = "none"
  /\ UNCHANGED <<changes, holder, moved, row, status, turn, writing, gitTurns, intent,
                 model, retries, excused>>

-----------------------------------------------------------------------------
(* Asking for the turn that catches up.                                    *)

\* The watcher, its debounce over.
ReportEvent ==
  /\ event
  /\ event' = FALSE /\ intent' = TRUE
  /\ UNCHANGED <<disk, landed, guarded, holder, moved, row, status, turn, pending,
                 writing, git, gitTurns, model, retries, excused>>

\* forward_vault_change_intent; a receiver that lagged asks for every Vault.
ForwardIntent ==
  /\ intent
  /\ intent' = FALSE /\ pending' = TRUE
  /\ UNCHANGED <<changes, holder, moved, row, status, turn, writing, git, gitTurns,
                 model, retries, excused>>

\* finish_model_setup, after the embedder was installed.  Mutant: the turns it
\* deferred are not asked for again.
MutAfterSetup == pending
AfterSetup == TRUE
InstallModel ==
  /\ ~model
  /\ model' = TRUE /\ pending' = AfterSetup
  /\ UNCHANGED <<changes, holder, moved, row, status, turn, writing, git, gitTurns,
                 intent, retries, excused>>

\* schedule_index_retry's task, which must not add a rerun.
WakeRetry ==
  /\ timers > 0
  /\ timers' = timers - 1
  /\ pending' = (pending \/ ~HasIndex)
  /\ UNCHANGED <<changes, holder, moved, row, status, turn, writing, git, gitTurns,
                 intent, model, failures, failed, excused>>

-----------------------------------------------------------------------------
(* The Index turn: dispatch_vault_index_turn_with_progress.                *)

NotIndex == <<changes, writing, git, gitTurns, intent, model>>

\* Without a model it is deferred.
StartIndex ==
  /\ pending /\ turn.stage = "none"
  /\ pending' = FALSE
  /\ turn' = [NoTurn EXCEPT !.stage = IF model THEN "waiting" ELSE "deferred"]
  /\ UNCHANGED <<NotIndex, holder, moved, row, status, retries, excused>>

EndDeferred ==
  /\ turn.stage = "deferred"
  /\ turn' = NoTurn
  /\ UNCHANGED <<NotIndex, holder, moved, row, status, pending, retries, excused>>

\* acquire_mutation_for_index_reads remembers the generation.
TakeReadGuard ==
  /\ turn.stage = "waiting" /\ holder = "nobody"
  /\ holder' = "index" /\ moved' = FALSE
  /\ excused' = "no"
  /\ turn' = [turn EXCEPT !.stage = "guarded"]
  /\ UNCHANGED <<NotIndex, row, status, pending, retries>>

\* The retained row is marked stale, and only then the status leaves ready.
MarkOpening ==
  /\ turn.stage = "guarded"
  /\ row' = Stale(row)
  /\ turn' = [turn EXCEPT !.stage = "marked"]
  /\ UNCHANGED <<NotIndex, holder, moved, status, pending, retries, excused>>

OpenStatus ==
  /\ turn.stage = "marked"
  /\ status' = IF Retained(row) = "stale" THEN "stale" ELSE "indexing"
  /\ turn' = [turn EXCEPT !.stage = "opened", !.rebuilds = Retained(row) = "stale"]
  /\ UNCHANGED <<NotIndex, holder, moved, row, pending, retries, excused>>

Scan ==
  /\ turn.stage = "opened"
  /\ turn' = [turn EXCEPT !.stage = "scanned", !.read = disk]
  /\ UNCHANGED <<NotIndex, holder, moved, row, status, pending, retries, excused>>

\* publish_vault_structure_snapshot, unless a searchable row is there to keep.
\* Its failure does not end the turn.
PublishStructure ==
  /\ turn.stage = "scanned"
  /\ turn' = [turn EXCEPT !.stage = "read"]
  /\ \/ /\ ~row.searchable
        /\ row' = [participating |-> TRUE, fresh |-> TRUE,
                   searchable |-> FALSE, version |-> turn.read]
        /\ status' = "browsable"
     \/ UNCHANGED <<row, status>>
  /\ UNCHANGED <<NotIndex, holder, moved, pending, retries, excused>>

\* The exclusion is released at the boundary of reading and embedding.
ReleaseReads ==
  /\ turn.stage = "read"
  /\ holder' = "nobody"
  /\ turn' = [turn EXCEPT !.stage = "embedding"]
  /\ UNCHANGED <<NotIndex, moved, row, status, pending, retries, excused>>

\* freshness_at_publication: a rebuild says ready ahead of its row.
\* Mutant: it waits for the end of the turn.
MutReadyAhead == status
ReadyAhead == IF turn.rebuilds /\ ~moved THEN "ready" ELSE status
RetakeGuard ==
  /\ turn.stage = "embedding" /\ holder = "nobody"
  /\ holder' = "index"
  /\ status' = ReadyAhead
  /\ turn' = [turn EXCEPT !.stage = "publishing"]
  /\ UNCHANGED <<NotIndex, moved, row, pending, retries, excused>>

\* publish_vault_candidate; the exclusion goes with it.
PublishRow ==
  /\ turn.stage = "publishing"
  /\ row' = [participating |-> TRUE, fresh |-> ~moved,
             searchable |-> TRUE, version |-> turn.read]
  /\ holder' = "nobody"
  /\ turn' = [turn EXCEPT !.stage = IF moved THEN "published stale" ELSE "published"]
  /\ UNCHANGED <<NotIndex, moved, status, pending, retries, excused>>

\* The status a published turn ends on, and IndexRetries::clear.
FinishIndex ==
  /\ turn.stage \in {"published", "published stale"}
  /\ status' = IF turn.stage = "published" THEN "ready" ELSE "stale"
  /\ turn' = NoTurn
  /\ failures' = 0
  /\ UNCHANGED <<NotIndex, holder, moved, row, pending, timers, failed, excused>>

\* IndexYield: the build stops for another Vault, and its Vault is put back.
PauseIndex ==
  /\ turn.stage = "embedding"
  /\ pending' = TRUE
  /\ status' = Retained(row)
  /\ turn' = NoTurn
  /\ failures' = 0
  /\ UNCHANGED <<NotIndex, holder, moved, row, timers, failed, excused>>

\* The scan, reading, the build or the publication fails, or the task panics, which is
\* not retried: the row is marked stale, and the exclusion is let go.
FailIndex ==
  /\ turn.stage \in {"opened", "read", "embedding", "publishing"}
  /\ failed < MaxFailure
  /\ failed' = failed + 1
  /\ row' = Stale(row)
  /\ holder' = IF turn.stage = "embedding" THEN holder ELSE "nobody"
  /\ \E retryable \in BOOLEAN :
       turn' = [turn EXCEPT !.stage = "failed", !.retry = retryable]
  /\ UNCHANGED <<NotIndex, moved, status, pending, timers, failures, excused>>

\* publish_index_failure, then schedule_index_retry.
Retries == turn.retry /\ failures < RetryLimit
EndFailed ==
  /\ turn.stage = "failed"
  /\ status' = Retained(row)
  /\ turn' = NoTurn
  /\ IF Retries
     THEN failures' = failures + 1 /\ timers' = timers + 1
     ELSE UNCHANGED <<failures, timers>>
  /\ excused' = IF Retries THEN excused ELSE "gave up"
  /\ UNCHANGED <<NotIndex, holder, moved, row, pending, failed>>

-----------------------------------------------------------------------------
WriteStep == TakeWriteGuard \/ WriteLands \/ MarkBehindWrite \/ FinishWrite \/ RefuseWrite
GitStep == TakeGitGuard \/ RunGit \/ RecordGit \/ FinishGit
AskStep == ReportEvent \/ ForwardIntent \/ InstallModel \/ WakeRetry
IndexStep ==
  \/ StartIndex \/ EndDeferred \/ TakeReadGuard \/ MarkOpening \/ OpenStatus \/ Scan
  \/ PublishStructure \/ ReleaseReads \/ RetakeGuard \/ PublishRow \/ FinishIndex
  \/ PauseIndex \/ FailIndex \/ EndFailed

Next == OutsideEdit \/ WriteStep \/ GitStep \/ AskStep \/ IndexStep
Spec == Init /\ [][Next]_vars

\* What was started goes on; nobody has to write, sync, fail or pause.  The write
\* exclusion is a fair mutex, and a turn that is paused resumes from the progress
\* it saved, so its pauses come to an end.
TurnGoesOn ==
  \/ StartIndex \/ EndDeferred \/ MarkOpening \/ OpenStatus \/ Scan
  \/ PublishStructure \/ ReleaseReads \/ PublishRow \/ FinishIndex \/ EndFailed
WriteGoesOn == WriteLands \/ RefuseWrite \/ MarkBehindWrite \/ FinishWrite
GitGoesOn == RunGit \/ RecordGit \/ FinishGit
Fairness ==
  /\ WF_vars(WriteGoesOn) /\ WF_vars(GitGoesOn) /\ WF_vars(AskStep)
  /\ WF_vars(TurnGoesOn)
  /\ SF_vars(TakeReadGuard) /\ SF_vars(RetakeGuard)
FairSpec == Spec /\ Fairness

-----------------------------------------------------------------------------
CountsOK ==
  /\ disk \in Version /\ landed \in Version /\ guarded \in Version
  /\ refused \in 0 .. MaxRefused /\ gitTurns \in 0 .. MaxGit
  /\ timers \in Nat /\ failed \in Nat /\ failures \in 0 .. RetryLimit

FlagsOK ==
  /\ moved \in BOOLEAN /\ pending \in BOOLEAN /\ model \in BOOLEAN
  /\ intent \in BOOLEAN /\ event \in BOOLEAN

LabelsOK ==
  /\ status \in SearchStatus
  /\ holder \in {"nobody", "write", "git", "index"}
  /\ write \in {"none", "admitted", "landed", "marked"}
  /\ git \in {"none", "working", "quiet", "pulled", "failed", "panicked", "synced"}
  /\ excused \in {"no", "refused", "gave up"}

\* Who holds the exclusion is at a step that is made under it.
HolderActs ==
  /\ holder = "write" <=> write # "none"
  /\ holder = "git" <=> git \notin {"none", "synced"}
  /\ holder = "index" <=> turn.stage \in {"guarded", "marked", "opened", "scanned",
                                           "read", "publishing"}

\* Every variable has its type, and the exclusion has one holder who acts under it.
TypeOK ==
  CountsOK /\ FlagsOK /\ LabelsOK /\ row \in Row /\ turn \in Turn /\ HolderActs

\* A row that reads fresh holds every write that was reported stale (#324): an Index
\* turn that read before the write cannot publish over its mark, whichever of the
\* two takes the exclusion first.
FreshHasEveryWrite == row.fresh => row.version >= landed

\* A turn publishes fresh only what holds every write and every recorded sync up to
\* the publication, those whose mark or report is still to come included (#223, #549).
FreshWhenPublished ==
  [][row' # row /\ row'.fresh => row'.version >= guarded]_vars

\* A Vault claims the search capability only while its row answers a search,
\* through every opening, failure, pause and publication of a turn.
SearchIsBacked ==
  status \in {"stale", "ready"} => row.participating /\ row.searchable

\* No reader finds a fresh row on a Vault that reports itself stale, nor does the
\* status leave ready while the row still reads fresh (#483); and it never claims a
\* search the row cannot answer.
StatusFollowsRow ==
  /\ []((status = "stale" => ~row.fresh) /\ SearchIsBacked)
  /\ [][status = "ready" /\ status' # "ready" => ~row'.fresh]_vars

Current == row.fresh /\ row.participating /\ row.searchable /\ row.version = disk

\* Nothing is under way, and nothing will ask for an Index turn.
Quiescent ==
  /\ turn.stage = "none" /\ write = "none" /\ git = "none"
  /\ ~pending /\ ~intent /\ ~event /\ timers = 0 /\ model

\* Whatever overtook the last Index turn, the row is current once nothing is left
\* that asks for another: a write, a pull, a failed sync, an edit, a pause, a failure
\* and the missing model each leave somebody who asks.  A turn that spent its retries
\* gave up; and a refused write that overtook the embedding moved the generation,
\* so the turn published stale, though it rewrote nothing that anybody would answer.
CatchUpOwed == Quiescent => Current \/ excused # "no"

\* Once the changes end, the index becomes current and stays so.
EventuallyCurrent == <>[](Current \/ excused # "no")
=============================================================================

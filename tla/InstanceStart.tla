---------------------------- MODULE InstanceStart ----------------------------
(***************************************************************************)
(* How an instance becomes ready (src/src/startup.rs, and the parts of     *)
(* server.rs and vault_executor.rs that drive it): setups of the search    *)
(* model under one claim, the Index turns of the active Vaults, and        *)
(* settle_startup, which whoever may have brought the last missing piece   *)
(* calls and which latches the phase Ready.                                *)
(*                                                                         *)
(* A Vault is pending until its first Index turn answers, then searchable  *)
(* or failed.  An Index turn here is a turn with all its slices.           *)
(***************************************************************************)
EXTENDS Naturals, FiniteSets

CONSTANTS Vault,
          MaxSetups,  \* bound on the model setups of a run
          MaxChanges  \* bound on what an operator or an editor does

ASSUME StartAssumption ==
  IsFiniteSet(Vault) /\ MaxSetups \in Nat \ {0} /\ MaxChanges \in Nat

Setup == 1 .. MaxSetups
\* Who calls settle_startup: a finished setup, the end of an Index turn (0), the
\* task that follows the collection's revisions.
Watch == MaxSetups + 1
Settler == 0 .. Watch

VARIABLES
  phase,     \* VaultPhase of the startup tracker
  claim,     \* model_setup_started
  model,     \* the runtime embedder holds a model
  selected,  \* selection.json names a model
  setup,     \* stage of each setup
  settle,    \* stage of each settler
  loaded,    \* the registry was read and needs no operator
  active,    \* Vaults with an active control block
  local,     \* Vaults whose directory is there
  status,    \* search status of each active Vault
  queued,    \* Vaults with a pending Index request
  turn,      \* the Index turn under way
  lifecycle, \* a Vault whose management request is not answered yet
  changed,   \* the revision channel has an event for the watching task
  overwritten, \* history: a phase that belonged to a running setup was replaced
  changes

vaults == <<loaded, active, local, status, queued, turn, lifecycle, changed>>
vars == <<phase, claim, model, selected, setup, settle, vaults, overwritten, changes>>

NoTurn == [vault |-> {}, stage |-> "none", revoked |-> FALSE]

\* Mutant: the phase starts as if nothing but the Vaults were missing (#453).
MutBootPhase == IF selected THEN "scanning" ELSE "terms"
BootPhase == IF selected THEN "downloading" ELSE "terms"

\* The server starts: it reconciles the registry, and sets a selected model up.
Init ==
  /\ loaded \in BOOLEAN /\ active \in SUBSET Vault /\ (~loaded => active = {})
  /\ local \in {Vault, {}} /\ status = [v \in Vault |-> "pending"]
  /\ queued = active \cap local /\ turn = NoTurn /\ lifecycle = {} /\ changed = FALSE
  /\ selected \in BOOLEAN /\ model = FALSE
  /\ phase = BootPhase /\ claim = selected
  /\ setup = [i \in Setup |-> IF i = 1 /\ selected THEN "claimed" ELSE "none"]
  /\ settle = [s \in Settler |-> "idle"]
  /\ overwritten = FALSE /\ changes = 0

SetupPending == phase \in {"terms", "downloading", "failed"}
Running(i) == setup[i] = "loading"

Change == changes < MaxChanges /\ changes' = changes + 1

-----------------------------------------------------------------------------
(* Model setup.                                                            *)

Fresh(i) == setup[i] = "none" /\ \A j \in Setup : j < i => setup[j] # "none"
To(i, stage) == setup' = [setup EXCEPT ![i] = stage]
Elsewhere == UNCHANGED <<model, selected, settle, vaults, changes>>

\* A choice is claimed and then persisted; one that cannot be persisted gives the
\* claim back and leaves nothing.
Choose(i) ==
  /\ Fresh(i) /\ ~claim
  /\ claim' = TRUE /\ selected' = TRUE /\ To(i, "claimed")
  /\ UNCHANGED <<phase, model, settle, vaults, overwritten, changes>>

\* retry_model_setup_handler: any selected model, ready or not.
RetrySetup(i) ==
  /\ Fresh(i) /\ selected /\ ~claim
  /\ claim' = TRUE /\ To(i, "claimed")
  /\ UNCHANGED <<phase, model, selected, settle, vaults, overwritten, changes>>

BeginDownload(i) ==
  /\ setup[i] = "claimed"
  /\ phase' = "downloading" /\ To(i, "loading")
  /\ UNCHANGED <<claim, overwritten>> /\ Elsewhere

\* The progress of Gemma's files; Nomic has none.
ReportDownload(i) ==
  /\ setup[i] = "loading"
  /\ phase' = "downloading"
  /\ UNCHANGED <<claim, setup, overwritten>> /\ Elsewhere

Install(i) ==
  /\ setup[i] = "loading"
  /\ model' = TRUE /\ To(i, "installed")
  /\ UNCHANGED <<phase, claim, selected, settle, vaults, overwritten, changes>>

\* finish_model_setup: every active Vault is asked for an Index turn, the phase
\* leaves setup, and startup is settled if there is nothing to index.
RequestAll(i) ==
  /\ setup[i] = "installed"
  /\ queued' = queued \cup (active \ lifecycle) /\ To(i, "requested")
  /\ UNCHANGED <<phase, claim, model, selected, settle, overwritten>>
  /\ UNCHANGED <<loaded, active, local, status, turn, lifecycle, changed, changes>>

\* Mutant: startup is not settled here (#453).
MutFinish(i) ==
  /\ setup[i] = "requested"
  /\ phase' = "scanning" /\ To(i, "over")
  /\ UNCHANGED <<claim, overwritten>> /\ Elsewhere
Finish(i) ==
  /\ setup[i] = "requested"
  /\ phase' = "scanning" /\ To(i, "over")
  /\ settle' = [settle EXCEPT ![i] = "judge"]
  /\ UNCHANGED <<claim, model, selected, vaults, overwritten, changes>>

\* A second failed attempt, or a panic: the claim is given back, then the failure
\* is shown.
Fail(i) ==
  /\ setup[i] = "loading"
  /\ claim' = FALSE /\ To(i, "failing")
  /\ UNCHANGED <<phase, overwritten>> /\ Elsewhere
ShowFailure(i) ==
  /\ setup[i] = "failing"
  /\ phase' = "failed" /\ To(i, "over")
  /\ overwritten' = (overwritten \/ \E j \in Setup : j > i /\ setup[j] # "none")
  /\ UNCHANGED claim /\ Elsewhere

-----------------------------------------------------------------------------
(* settle_startup: judging the collection, latching, freeing the claim.    *)

At(s, stage) == settle' = [settle EXCEPT ![s] = stage]
Stop(s) == At(s, "idle")
Unmoved == UNCHANGED <<model, selected, setup, vaults, overwritten, changes>>

\* index_settled: a Vault that failed, or has no directory, has settled.
Settled(v) == status[v] # "pending" \/ v \notin local

\* What it judges the collection by, as if looked at all at once; no active Vault is an answer only of a registry
\* that loaded.
Judge(s) ==
  /\ settle[s] = "judge"
  /\ IF /\ phase # "ready" /\ ~SetupPending
        /\ \A v \in active : Settled(v)
        /\ active # {} \/ loaded
     THEN At(s, "latch") ELSE Stop(s)
  /\ UNCHANGED <<phase, claim>> /\ Unmoved

\* settle_ready decides again, under the phase's lock.  Mutant: a download does not keep it from latching.
MutMayLatch == phase # "ready"
MayLatch == phase # "ready" /\ ~SetupPending
Latch(s) ==
  /\ settle[s] = "latch"
  /\ IF MayLatch THEN phase' = "ready" /\ At(s, "free") ELSE UNCHANGED phase /\ Stop(s)
  /\ UNCHANGED claim /\ Unmoved

\* Whoever moved the phase gives the claim back.
FreeClaim(s) ==
  /\ settle[s] = "free"
  /\ claim' = FALSE /\ Stop(s)
  /\ UNCHANGED phase /\ Unmoved

\* settle_startup_on_collection_changes
WatchChanges ==
  /\ changed /\ settle[Watch] = "idle"
  /\ changed' = FALSE /\ At(Watch, "judge")
  /\ UNCHANGED <<phase, claim, model, selected, setup, overwritten>>
  /\ UNCHANGED <<loaded, active, local, status, queued, turn, lifecycle, changes>>

-----------------------------------------------------------------------------
(* Index turns, one at a time.                                             *)

Steady == UNCHANGED <<claim, model, selected, setup, loaded, active, local, lifecycle, changes>>

StartTurn(v) ==
  /\ turn.stage = "none" /\ v \in queued
  /\ queued' = queued \ {v} /\ turn' = [vault |-> {v}, stage |-> "start", revoked |-> FALSE]
  /\ Steady /\ UNCHANGED <<phase, settle, status, changed, overwritten>>

\* A turn without a model is deferred, one of a revoked block refused; both still
\* publish their outcome.
EndPublishing == turn' = [turn EXCEPT !.stage = "published"] /\ At(0, "judge")
OpenTurn ==
  /\ turn.stage = "start"
  /\ \/ /\ model /\ ~turn.revoked /\ turn.vault \subseteq active
        /\ turn' = [turn EXCEPT !.stage = "embedding"]
        /\ status' = [v \in Vault |-> IF v \in turn.vault /\ status[v] = "failed"
                                      THEN "pending" ELSE status[v]]
        /\ changed' = (changed \/ status' # status)
        /\ UNCHANGED settle
     \/ /\ ~model \/ turn.revoked \/ ~(turn.vault \subseteq active)
        /\ EndPublishing
        /\ UNCHANGED <<status, changed>>
  /\ Steady /\ UNCHANGED <<phase, queued, overwritten>>

\* report_indexing_progress with set_indexing_unless_ready, which replaces any phase
\* but Ready.
Report ==
  /\ turn.stage = "embedding" /\ phase # "ready"
  /\ phase' = "indexing"
  /\ overwritten' = (overwritten \/ phase \in {"downloading", "failed"})
  /\ Steady /\ UNCHANGED <<settle, status, queued, turn, changed>>

\* publish_outcome asks before the turn gives its lane back.
EndTurn ==
  /\ turn.stage = "embedding"
  /\ \E answer \in {"searchable", "failed"} :
       status' = [v \in Vault |-> IF v \in turn.vault /\ ~turn.revoked /\ status[v] # "searchable"
                                  THEN answer ELSE status[v]]
  /\ changed' = (changed \/ status' # status)
  /\ EndPublishing
  /\ Steady /\ UNCHANGED <<phase, queued, overwritten>>
DropTurn ==
  /\ turn.stage = "published" /\ settle[0] = "idle"
  /\ turn' = NoTurn
  /\ Steady /\ UNCHANGED <<phase, settle, status, queued, changed, overwritten>>

-----------------------------------------------------------------------------
(* What happens to the collection meanwhile.                               *)

Untouched == UNCHANGED <<phase, claim, model, selected, setup, settle, loaded, overwritten>>

\* A retry's timer, a write or a refresh.
Request(v) ==
  /\ Change /\ v \in active /\ lifecycle # {v}
  /\ queued' = queued \cup {v}
  /\ Untouched /\ UNCHANGED <<active, local, status, turn, lifecycle, changed>>

\* enable, disable and edit install a new collection, drain the Vault, and ask for
\* its Index turn, if there is a directory, once what was under way has returned.
Drained(v) == queued \ {v}
Mutate(v, next) ==
  /\ Change /\ loaded /\ lifecycle = {}
  /\ next = active \cup {v} \/ next = active \ {v}
  /\ active' = next /\ lifecycle' = {v}
  /\ status' = [status EXCEPT ![v] = IF v \in active \cap next /\ @ = "searchable"
                                     THEN @ ELSE "pending"]
  /\ queued' = Drained(v)
  /\ turn' = [turn EXCEPT !.revoked = @ \/ v \in turn.vault]
  /\ changed' = TRUE
  /\ Untouched /\ UNCHANGED local
AnswerLifecycle ==
  /\ lifecycle # {} /\ turn.vault \cap lifecycle = {}
  /\ lifecycle' = {} /\ queued' = queued \cup (lifecycle \cap active \cap local)
  /\ Untouched /\ UNCHANGED <<active, local, status, turn, changed, changes>>

\* set_local_content_status: a checkout lands, and is indexed, or is lost.
Appear(v) ==
  /\ Change /\ v \in active \ local /\ lifecycle # {v}
  /\ local' = local \cup {v} /\ queued' = queued \cup {v} /\ changed' = TRUE
  /\ Untouched /\ UNCHANGED <<active, status, turn, lifecycle>>
Vanish(v) ==
  /\ Change /\ v \in active \cap local
  /\ local' = local \ {v} /\ changed' = TRUE
  /\ Untouched /\ UNCHANGED <<active, status, queued, turn, lifecycle>>

-----------------------------------------------------------------------------
SetupStep(i) ==
  BeginDownload(i) \/ Install(i) \/ RequestAll(i) \/ Finish(i)
  \/ Fail(i) \/ ShowFailure(i)
SettleStep(s) == Judge(s) \/ Latch(s) \/ FreeClaim(s)
TurnStep == OpenTurn \/ EndTurn \/ DropTurn
Operator ==
  \/ \E i \in Setup : Choose(i) \/ RetrySetup(i)
  \/ \E v \in Vault : Request(v) \/ Appear(v) \/ Vanish(v)
  \/ \E v \in Vault, next \in SUBSET Vault : Mutate(v, next)

Next ==
  \/ \E i \in Setup : SetupStep(i) \/ ReportDownload(i)
  \/ \E s \in Settler : SettleStep(s)
  \/ WatchChanges \/ TurnStep \/ Report \/ AnswerLifecycle
  \/ \E v \in Vault : StartTurn(v)
  \/ Operator

\* Tasks go on, turns and lifecycles return, and no queued Vault is passed over for
\* ever (VaultWork!EveryTurnRuns).  Nobody has to choose, retry or change anything.
Fairness ==
  /\ \A i \in Setup : WF_vars(SetupStep(i))
  /\ \A s \in Settler : WF_vars(SettleStep(s))
  /\ WF_vars(WatchChanges) /\ WF_vars(TurnStep) /\ WF_vars(AnswerLifecycle)
  /\ \A v \in Vault : SF_vars(StartTurn(v))

Spec == Init /\ [][Next]_vars
FairSpec == Spec /\ Fairness

-----------------------------------------------------------------------------
\* Every variable has its type, and only whoever is at a step of its own has state.
TypeOK ==
  /\ phase \in {"terms", "downloading", "scanning", "indexing", "ready", "failed"}
  /\ {claim, model, selected, loaded, changed, overwritten} \subseteq BOOLEAN
  /\ \A i \in Setup : setup[i] \in {"none", "claimed", "loading", "installed",
                                   "requested", "failing", "over"}
  /\ \A s \in Settler : settle[s] \in {"idle", "judge", "latch", "free"}
  /\ active \subseteq Vault /\ local \subseteq Vault /\ queued \subseteq active
  /\ \A v \in Vault : status[v] \in {"pending", "searchable", "failed"}
  /\ turn.stage = "none" <=> turn.vault = {}
  /\ settle[0] # "idle" => turn.stage = "published"

\* The state keeps its shape.  The instance reads as past its model setup, and serves as ready, only with a
\* search model in place, though with no Vault to index nothing else is in the way
\* (#453).
ReadyHasModel == TypeOK /\ (phase \in {"scanning", "indexing", "ready"} => model)

\* A setup that runs holds the claim, so no second one works in its directory or
\* replaces its model; whatever settles meanwhile on what it read before the setup
\* began.  Two races of the code are named in `overwritten'.
SetupKeepsClaim == overwritten \/ \A i \in Setup : Running(i) => claim

\* An instance whose model is set up does not stay in startup: whatever was the last
\* piece, a first index, a failure, a disable, a lost directory or the model itself,
\* somebody asks after it (#326, #453).
EventuallyReady ==
  (loaded /\ phase \in {"scanning", "indexing"}) ~> phase \notin {"scanning", "indexing"}
=============================================================================

-------------------------- MODULE CollectionLifecycle --------------------------
(***************************************************************************)
(* How the Vault collection follows its registry (src/src/vault_runtime.rs *)
(* and vault_management.rs).  Each registry mutation spawns one lifecycle  *)
(* task; the tasks share the reconcile phase lock but drop it while they   *)
(* wait for the safe boundaries of what they retired, so a later           *)
(* revision's lifecycle may run in between.  Around them run the           *)
(* Vault's foreground writes and its background Index and Git turns, each  *)
(* on the control block it opened.                                         *)
(*                                                                         *)
(* A control block is the revision that built it (`made'), the edition of  *)
(* the definition it was built from, and its write exclusion, named by the *)
(* revision that made that fresh.  A block accepts operations exactly      *)
(* while it is its Vault's block of the collection: reconcile revokes      *)
(* every other.  Vault directories are readable and the cache does not     *)
(* fail; the coordinator's queue is kept as sets (VaultWork has its order),*)
(* and a write's requests reach it at once.  A Git turn is a sync or a     *)
(* commit; the scheduler's tick is GitSchedule's.                          *)
(***************************************************************************)
EXTENDS Naturals, FiniteSets

CONSTANTS
  Vault,
  Versioned,    \* the Vaults whose source is a Git repository
  Managed,      \* of these, the ones the managed-Git scheduler tracks while active
  Writer,       \* foreground mutations that may be under way at a time
  MaxLifecycle, \* bound on lifecycle tasks, hence on registry revisions
  Overlap       \* may a client commit before the previous response arrived?

ASSUME LifecycleAssumption ==
  /\ IsFiniteSet(Vault) /\ Versioned \subseteq Vault /\ Managed \subseteq Versioned
  /\ MaxLifecycle \in Nat \ {0}
  /\ Overlap \in BOOLEAN

Task == 1 .. MaxLifecycle
Revision == 1 .. MaxLifecycle
TurnKind == {"Index", "Git"}
Status == {"new", "disabled", "enabled", "gone"}
Definition == [status : Status, edition : 0 .. MaxLifecycle]

NoBlock == [made |-> 0, edition |-> 0, exclusion |-> 0]
Block == [made : 0 .. MaxLifecycle, edition : 0 .. MaxLifecycle,
          exclusion : 0 .. MaxLifecycle]

VARIABLES
  revision,   \* the registry's committed revision
  registry,   \* the definitions each revision committed, which its lifecycle carries
  installed,  \* CollectionState::registry_revision
  block,      \* the collection's active control blocks
  phase,      \* who holds reconcile_phase_lock, 0 for nobody
  spawned,    \* how many lifecycle tasks were spawned
  life,       \* the lifecycle tasks, each with the revision it carries
  drained,    \* the coordinator's drained_vaults
  pending,    \* the coordinator's pending <<vault, kind>>
  turn,       \* the running turn of each <<vault, kind>>
  tracked,    \* the Vaults in the managed-Git scheduler
  control,    \* Git controls past their enabled check: <<vault, task awaited>>
  row,        \* vault_snapshots: no row, or whether it participates
  writer      \* foreground mutations

collection == <<revision, registry, installed, block, phase, spawned, life>>
background == <<drained, pending, turn, tracked, control>>
vars == <<collection, background, row, writer>>

NoLife == [stage |-> "none", revision |-> 0, from |-> 0, before |-> [v \in Vault |-> NoBlock],
           after |-> [v \in Vault |-> NoBlock], writes |-> {}, turns |-> {}]
Spawned(r) == [NoLife EXCEPT !.stage = "spawned", !.revision = r]
Over == [NoLife EXCEPT !.stage = "done"]
NoTurn == [stage |-> "none", on |-> NoBlock, current |-> FALSE]
NoWrite == [stage |-> "none"]

\* A process starts on a registry of some Vaults and on cache rows an earlier
\* process left; only the startup lifecycle runs.
Init ==
  /\ revision = 1
  /\ \E statuses \in [Vault -> {"new", "disabled", "enabled"}] :
       registry = [r \in Revision |->
         [v \in Vault |-> [status |-> IF r = 1 THEN statuses[v] ELSE "new",
                           edition |-> 0]]]
  /\ installed = 0
  /\ block = [v \in Vault |-> NoBlock]
  /\ phase = 0
  /\ spawned = 1
  /\ life = [t \in Task |-> IF t = 1 THEN Spawned(1) ELSE NoLife]
  /\ drained = {}
  /\ pending = {}
  /\ turn = [p \in Vault \X TurnKind |-> NoTurn]
  /\ tracked = {}
  /\ control = {}
  /\ row \in [Vault -> {"none", "on"}]
  /\ \A v \in Vault : registry[1][v].status = "new" => row[v] = "none"
  /\ writer = [w \in Writer |-> NoWrite]

-----------------------------------------------------------------------------
(* Reading the state.                                                      *)

Enabled(r) == {v \in Vault : registry[r][v].status = "enabled"}
Disabled(r) == {v \in Vault : registry[r][v].status = "disabled"}
Present(r) == Enabled(r) \cup Disabled(r)

\* Whom the lifecycle retires: active before it, and not on the same block
\* after it.  An edited Vault that stays enabled is among them.
Retired(t) ==
  {v \in Vault : /\ life[t].before[v] # NoBlock
                 /\ life[t].before[v] # life[t].after[v]}

\* ensure_accepting_operations
Accepting(v, b) == block[v] = b /\ b # NoBlock

\* Who holds a write exclusion of the Vault: a foreground mutation, a Git turn,
\* or an Index turn in its read phase.
HoldingTurns(v) == {k \in TurnKind : turn[<<v, k>>].stage \in {"reading", "working"}}
HoldingWrites(v) == {w \in Writer : writer[w].stage = "writing" /\ writer[w].vault = v}
ExclusionFree(v, x) ==
  /\ \A k \in HoldingTurns(v) : turn[<<v, k>>].on.exclusion # x
  /\ \A w \in HoldingWrites(v) : writer[w].on.exclusion # x

\* The Vault's key is in the coordinator's queue.
HasTurns(v) == \E k \in TurnKind : <<v, k>> \in pending \/ turn[<<v, k>>] # NoTurn

\* VaultWorkCoordinator::request.  Mutant: a drained Vault is let in.
MutRequested(v, k) == pending \cup {<<v, k>>}
Requested(v, k) == IF v \in drained THEN pending ELSE pending \cup {<<v, k>>}

-----------------------------------------------------------------------------
(* The management core commits a revision and spawns its lifecycle.        *)

\* The lifecycle's client has its answer.
Answered(t) == life[t].stage \in {"done", "converged"}

Spawn(r) ==
  /\ life[1].stage = "done"      \* the server starts after the first lifecycle
  /\ spawned < MaxLifecycle
  /\ Overlap \/ (control = {} /\ \A t \in 1 .. spawned : Answered(t))
  /\ spawned' = spawned + 1
  /\ life' = [life EXCEPT ![spawned + 1] = Spawned(r)]
  /\ UNCHANGED <<installed, block, phase, drained, pending, turn, tracked, row, writer>>

Commit(v, definition) ==
  /\ Spawn(revision + 1)
  /\ revision' = revision + 1
  /\ registry' = [registry EXCEPT ![revision + 1] =
                    [registry[revision] EXCEPT ![v] = definition]]

Create(v, status) ==
  /\ registry[revision][v].status = "new"
  /\ Commit(v, [status |-> status, edition |-> 0])
  /\ UNCHANGED control

Edit(v) ==
  /\ v \in Present(revision)
  /\ Commit(v, [registry[revision][v] EXCEPT !.edition = revision + 1])
  /\ UNCHANGED control

\* A credential leaves the definition equal; once answered, the edit asks for a
\* Git turn if its own revision has the Vault enabled.
EditCredentials(v) ==
  /\ v \in Present(revision)
  /\ Commit(v, registry[revision][v])
  /\ control' = IF v \in Managed \cap Enabled(revision)
                THEN control \cup {<<v, spawned + 1>>} ELSE control

SetEnabled(v) ==
  /\ \/ /\ v \in Disabled(revision)
        /\ Commit(v, [registry[revision][v] EXCEPT !.status = "enabled"])
     \/ /\ v \in Enabled(revision)
        /\ Commit(v, [registry[revision][v] EXCEPT !.status = "disabled"])
  /\ UNCHANGED control

\* Enabling an enabled Vault, or disabling a disabled one, commits nothing and
\* runs the current revision's lifecycle again.
Retry ==
  /\ Present(revision) # {}
  /\ Spawn(revision)
  /\ UNCHANGED <<revision, registry, control>>

Disconnect(v) ==
  /\ v \in Present(revision)
  /\ Commit(v, [registry[revision][v] EXCEPT !.status = "gone"])
  /\ UNCHANGED control

\* managed_git_control: the registry is read first, the scheduler called after.
CheckControl(v) ==
  /\ life[1].stage = "done"
  /\ v \in Managed \cap Enabled(revision)
  /\ Overlap \/ \A t \in 1 .. spawned : Answered(t)
  /\ control' = control \cup {<<v, 0>>}
  /\ UNCHANGED <<collection, drained, pending, turn, tracked, row, writer>>

\* sync_now and retry_now register the Vault themselves.
SyncNow(v, t) ==
  /\ <<v, t>> \in control
  /\ t # 0 => Answered(t)
  /\ control' = control \ {<<v, t>>}
  /\ tracked' = tracked \cup {v}
  /\ pending' = Requested(v, "Git")
  /\ UNCHANGED <<collection, drained, turn, row, writer>>

-----------------------------------------------------------------------------
(* One lifecycle: reconcile_and_reconstruct_with_mutation_boundary.        *)

\* CarriedOverState: an edit of an active Vault carries the exclusion over,
\* anything else starts a fresh one.  Mutant: an edit starts one too.
MutExclusion(r, v) == r
Exclusion(r, v) == IF block[v] # NoBlock THEN block[v].exclusion ELSE r

\* next_entries: retained while the definition is unchanged.
NextBlock(r, v) ==
  IF v \notin Enabled(r) THEN NoBlock
  ELSE IF block[v] # NoBlock /\ block[v].edition = registry[r][v].edition
  THEN block[v]
  ELSE [made |-> r, edition |-> registry[r][v].edition,
        exclusion |-> Exclusion(r, v)]

\* The collection already holds a newer snapshot.  Mutant: nobody asks.
MutSuperseded(r) == FALSE
Superseded(r) == r < installed

\* Takes the phase lock and installs a snapshot newer than the collection's; a
\* superseded one ends here.
Reconcile(t) ==
  LET r == life[t].revision IN
  /\ life[t].stage = "spawned"
  /\ phase = 0
  /\ IF Superseded(r)
     THEN /\ life' = [life EXCEPT ![t] = Over]
          /\ UNCHANGED <<installed, block, phase>>
     ELSE /\ phase' = t
          /\ installed' = r
          /\ block' = IF r = installed THEN block
                      ELSE [v \in Vault |-> NextBlock(r, v)]
          /\ life' = [life EXCEPT ![t].stage = "installed", ![t].from = installed,
                                  ![t].before = block, ![t].after = block']
  /\ UNCHANGED <<revision, registry, spawned, background, row, writer>>

\* Whom it takes out of the Git schedule.  Mutant: nobody.
MutDescheduled(t) == {}
Descheduled(t) == {v \in Retired(t) : life[t].after[v] = NoBlock}

\* Drains what it retired and drops the phase lock.
Retire(t) ==
  LET retired == Retired(t) IN
  /\ life[t].stage = "installed"
  /\ phase' = 0
  /\ drained' = drained \cup retired
  /\ pending' = {p \in pending : p[1] \notin retired}
  /\ tracked' = tracked \ Descheduled(t)
  /\ life' = [life EXCEPT ![t].stage = "waiting", ![t].writes = retired,
                          ![t].turns = retired]
  /\ UNCHANGED <<revision, registry, installed, block, spawned, turn, control, row, writer>>

\* wait_for_mutation_safe_boundary of one retired block.  Mutant: no wait.
MutPassWrites(t, v) ==
  /\ life[t].stage = "waiting" /\ v \in life[t].writes
  /\ life' = [life EXCEPT ![t].writes = @ \ {v}]
  /\ UNCHANGED <<revision, registry, installed, block, phase, spawned, background, row, writer>>

PassWrites(t, v) ==
  /\ life[t].stage = "waiting" /\ v \in life[t].writes
  /\ ExclusionFree(v, life[t].before[v].exclusion)
  /\ life' = [life EXCEPT ![t].writes = @ \ {v}]
  /\ UNCHANGED <<revision, registry, installed, block, phase, spawned, background, row, writer>>

\* wait_for_vault_safe_boundary of one retired Vault.  Mutant: no wait.
MutPassTurns(t, v) ==
  /\ life[t].stage = "waiting" /\ life[t].writes = {} /\ v \in life[t].turns
  /\ life' = [life EXCEPT ![t].turns = @ \ {v}]
  /\ UNCHANGED <<revision, registry, installed, block, phase, spawned, background, row, writer>>

PassTurns(t, v) ==
  /\ life[t].stage = "waiting" /\ life[t].writes = {} /\ v \in life[t].turns
  /\ ~HasTurns(v)
  /\ life' = [life EXCEPT ![t].turns = @ \ {v}]
  /\ UNCHANGED <<revision, registry, installed, block, phase, spawned, background, row, writer>>

\* Takes the phase lock again; a lifecycle superseded meanwhile returns.
Fence(t) ==
  /\ life[t].stage = "waiting" /\ life[t].writes = {} /\ life[t].turns = {}
  /\ phase = 0
  /\ IF installed # life[t].revision
     THEN life' = [life EXCEPT ![t] = Over] /\ UNCHANGED phase
     ELSE life' = [life EXCEPT ![t].stage = "fenced"] /\ phase' = t
  /\ UNCHANGED <<revision, registry, installed, block, spawned, background, row, writer>>

\* Whose rows the lifecycle deletes: of Vaults that left the collection, and of
\* any other the registry does not know.
Disconnected(t) ==
  LET f == life[t].from IN
  {v \in Vault \ Present(life[t].revision) :
     row[v] # "none" \/ (f # 0 /\ v \in Present(f))}

\* Whose rows it takes out of participation: disabled now, or enabled again.
Withdrawn(t) ==
  LET f == life[t].from IN
  {v \in Present(life[t].revision) :
     v \in Disabled(life[t].revision) \/ (f # 0 /\ v \in Disabled(f))}

\* Retires cache rows, and answers the client.  A disconnect also begins a
\* snapshot attempt, so a build under way can no longer publish.
Converge(t) ==
  /\ life[t].stage = "fenced"
  /\ row' = [v \in Vault |-> IF v \in Disconnected(t) THEN "none"
                             ELSE IF v \in Withdrawn(t) /\ row[v] = "on" THEN "off"
                             ELSE row[v]]
  /\ turn' = [p \in Vault \X TurnKind |->
       IF p[1] \in Disconnected(t) THEN [turn[p] EXCEPT !.current = FALSE] ELSE turn[p]]
  /\ life' = [life EXCEPT ![t].stage = "converged"]
  /\ UNCHANGED <<revision, registry, installed, block, phase, spawned, drained, pending,
                 tracked, control, writer>>

\* The Vaults it built a block for.  Mutant: only those that had none.
MutBuilt(t) == {v \in Vault : life[t].after[v] # NoBlock /\ life[t].before[v] = NoBlock}
Built(t) == {v \in Vault : /\ life[t].after[v] # NoBlock
                           /\ life[t].after[v] # life[t].before[v]}

\* Reactivates every active Vault, and asks for the work of those it built a
\* block for.  Which of the scheduled ones are due depends on their clocks; one that
\* no schedule tracks gets a Commit turn if it has Git and no status of it yet.
Activate(t) ==
  LET active == {v \in Vault : life[t].after[v] # NoBlock}
      built == Built(t) IN
  /\ life[t].stage = "converged"
  /\ drained' = drained \ active
  /\ tracked' = tracked \cup (built \cap Managed)
  /\ \E due \in SUBSET (built \cap Versioned) :
       pending' = pending \cup (built \X {"Index"}) \cup (due \X {"Git"})
  /\ phase' = 0
  /\ life' = [life EXCEPT ![t] = Over]
  /\ UNCHANGED <<revision, registry, installed, block, spawned, turn, control, row, writer>>

-----------------------------------------------------------------------------
(* Background turns and foreground writes.                                 *)

\* A turn resolves the Vault's control block, or has nothing to do; a Git turn
\* then takes the Vault out of the Git schedule.
StartTurn(v, k) ==
  /\ <<v, k>> \in pending /\ turn[<<v, k>>] = NoTurn
  /\ pending' = pending \ {<<v, k>>}
  /\ turn' = [turn EXCEPT ![<<v, k>>] =
       IF block[v] = NoBlock THEN NoTurn
       ELSE [stage |-> "opened", on |-> block[v], current |-> FALSE]]
  /\ tracked' = IF block[v] = NoBlock /\ k = "Git" THEN tracked \ {v} ELSE tracked
  /\ UNCHANGED <<collection, drained, control, row, writer>>

\* acquire_mutation_exclusion, which rechecks admission under the lock.
TurnTakesGuard(v, k) ==
  LET now == turn[<<v, k>>] IN
  /\ now.stage = "opened"
  /\ ExclusionFree(v, now.on.exclusion)
  /\ turn' = [turn EXCEPT ![<<v, k>>] =
       IF ~Accepting(v, now.on) THEN NoTurn
       ELSE [now EXCEPT !.stage = IF k = "Index" THEN "reading" ELSE "working"]]
  /\ UNCHANGED <<collection, drained, pending, tracked, control, row, writer>>

\* The Index turn begins its snapshot attempt and releases the guard to embed.
ReleaseReads(v) ==
  /\ turn[<<v, "Index">>].stage = "reading"
  /\ turn' = [turn EXCEPT ![<<v, "Index">>].stage = "embedding",
                          ![<<v, "Index">>].current = TRUE]
  /\ UNCHANGED <<collection, drained, pending, tracked, control, row, writer>>

\* It retakes the guard, whether or not its block was revoked, and publishes
\* unless a newer attempt began.
Publish(v) ==
  LET now == turn[<<v, "Index">>] IN
  /\ now.stage = "embedding"
  /\ ExclusionFree(v, now.on.exclusion)
  /\ row' = IF now.current THEN [row EXCEPT ![v] = "on"] ELSE row
  /\ turn' = [turn EXCEPT ![<<v, "Index">>] = NoTurn]
  /\ UNCHANGED <<collection, drained, pending, tracked, control, writer>>

\* A Git turn asks for an Index turn if it succeeded on a block that still
\* accepts operations, or if it failed while an Index turn was under way.
FinishGitTurn(v) ==
  /\ turn[<<v, "Git">>].stage = "working"
  /\ turn' = [turn EXCEPT ![<<v, "Git">>] = NoTurn]
  /\ pending' \in {pending} \cup
       IF Accepting(v, turn[<<v, "Git">>].on) \/ turn[<<v, "Index">>] # NoTurn
       THEN {Requested(v, "Index")} ELSE {}
  /\ UNCHANGED <<collection, drained, tracked, control, row, writer>>

OpenWrite(w, v) ==
  /\ writer[w] = NoWrite /\ block[v] # NoBlock
  /\ writer' = [writer EXCEPT ![w] = [stage |-> "opened", on |-> block[v], vault |-> v]]
  /\ UNCHANGED <<collection, background, row>>

TakeWriteGuard(w) ==
  LET m == writer[w] IN
  /\ m.stage = "opened"
  /\ ExclusionFree(m.vault, m.on.exclusion)
  /\ writer' = [writer EXCEPT ![w] =
       IF Accepting(m.vault, m.on) THEN [m EXCEPT !.stage = "writing"] ELSE NoWrite]
  /\ UNCHANGED <<collection, background, row>>

\* Its report asks for an Index turn; and for a Commit turn, if the source it has by
\* then makes commits and the cooldown admits one.
FinishWrite(w) ==
  LET v == writer[w].vault IN
  /\ writer[w].stage = "writing"
  /\ writer' = [writer EXCEPT ![w] = NoWrite]
  /\ \/ pending' = Requested(v, "Index")
     \/ /\ v \in Versioned /\ block[v] # NoBlock
        /\ pending' = Requested(v, "Index") \cup Requested(v, "Git")
  /\ UNCHANGED <<collection, drained, turn, tracked, control, row>>

-----------------------------------------------------------------------------
Manage(v) ==
  \/ \E s \in {"enabled", "disabled"} : Create(v, s)
  \/ Edit(v) \/ EditCredentials(v) \/ SetEnabled(v) \/ Disconnect(v)
  \/ CheckControl(v)

LifecycleStep(t) ==
  \/ Reconcile(t) \/ Retire(t) \/ Fence(t) \/ Converge(t) \/ Activate(t)
  \/ \E v \in Vault : PassWrites(t, v) \/ PassTurns(t, v)

TurnStep(v, k) ==
  \/ StartTurn(v, k) \/ TurnTakesGuard(v, k)
  \/ k = "Index" /\ (ReleaseReads(v) \/ Publish(v))
  \/ k = "Git" /\ FinishGitTurn(v)

WriteStep(w) == TakeWriteGuard(w) \/ FinishWrite(w)

Next ==
  \/ Retry
  \/ \E v \in Vault : \/ Manage(v)
                      \/ \E t \in 0 .. spawned : SyncNow(v, t)
                      \/ \E k \in TurnKind : TurnStep(v, k)
                      \/ \E w \in Writer : OpenWrite(w, v)
  \/ \E t \in Task : LifecycleStep(t)
  \/ \E w \in Writer : WriteStep(w)

Spec == Init /\ [][Next]_vars

\* Spawned tasks run, turns and writes return.  Tokio's mutexes are fair, so a
\* wait for an exclusion that keeps becoming free ends; the phase lock is taken
\* twice by each of finitely many tasks.
Fairness ==
  /\ \A t \in Task : /\ WF_vars(LifecycleStep(t))
                     /\ \A v \in Vault : SF_vars(PassWrites(t, v))
  /\ \A v \in Vault :
       /\ \A k \in TurnKind : WF_vars(TurnStep(v, k)) /\ SF_vars(TurnTakesGuard(v, k))
       /\ SF_vars(Publish(v))
  /\ \A w \in Writer : WF_vars(WriteStep(w))

FairSpec == Spec /\ Fairness

-----------------------------------------------------------------------------
(* Properties.                                                             *)

\* The shape of the state: who holds the phase lock is in a section that needs it.
TypeOK ==
  /\ revision \in Revision
  /\ registry \in [Revision -> [Vault -> Definition]]
  /\ installed \in 0 .. revision
  /\ block \in [Vault -> Block]
  /\ phase \in 0 .. spawned
  /\ spawned \in Task
  /\ \A t \in Task :
       /\ life[t].stage \in {"none", "spawned", "installed", "waiting", "fenced",
                             "converged", "done"}
       /\ life[t].stage \in {"installed", "fenced", "converged"} <=> phase = t
  /\ drained \subseteq Vault
  /\ pending \subseteq Vault \X TurnKind
  /\ tracked \subseteq Managed
  /\ row \in [Vault -> {"none", "off", "on"}]

\* No lifecycle and no control is under way.
Settled == control = {} /\ \A t \in 1 .. spawned : life[t].stage = "done"

\* When every lifecycle is over, the collection is the registry's newest
\* revision, whatever order the tasks ran in: its blocks are those of the
\* enabled Vaults, on their newest definitions, and work is admitted for these
\* and queued for no other.
ConvergesOnNewest ==
  Settled =>
    /\ installed = revision
    /\ \A v \in Vault : block[v] # NoBlock <=> v \in Enabled(revision)
    /\ \A v \in Enabled(revision) : block[v].edition = registry[revision][v].edition
    /\ drained \cap Enabled(revision) = {}
    /\ \A p \in pending : p[1] \in Enabled(revision)

\* The state keeps its shape.  A lifecycle that retires a Vault for good, and is past its fence, has left
\* the block behind: no turn of the Vault is queued or running, and nothing
\* holds the exclusion it waited on.
BoundaryHolds ==
  /\ TypeOK
  /\ \A t \in Task : life[t].stage \in {"fenced", "converged"} =>
       \A v \in Retired(t) : life[t].after[v] = NoBlock =>
         ~HasTurns(v) /\ ExclusionFree(v, life[t].before[v].exclusion)

\* One write, Git turn or Index scan at a time in a Vault's directory.
OneHolder ==
  \A v \in Vault : Cardinality(HoldingTurns(v)) + Cardinality(HoldingWrites(v)) <= 1

\* The scheduler polls no Vault that is not enabled.
ScheduleFollowsCollection == Settled => tracked \subseteq Enabled(revision)

\* Disable and disconnect are the final writers of a Vault's cache rows.
RetiredStaysOut ==
  Settled => \A v \in Vault : ~HasTurns(v) =>
    /\ v \in Disabled(revision) => row[v] # "on"
    /\ v \notin Present(revision) => row[v] = "none"

\* An enabled Vault takes part in the collection, or an Index turn that makes
\* it take part is under way; a managed one is on the Git schedule.
ActivationIsComplete ==
  Settled => \A v \in Enabled(revision) :
    /\ row[v] = "on" \/ HasTurns(v)
    /\ v \in Managed => v \in tracked

\* Every lifecycle ends: no wait for a safe boundary, and no order in which the
\* locks are taken, leaves a management request without its answer.
EveryLifecycleEnds ==
  \A t \in Task : (life[t].stage = "spawned") ~> (life[t].stage = "done")
=============================================================================

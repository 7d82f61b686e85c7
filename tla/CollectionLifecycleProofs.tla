---------------------- MODULE CollectionLifecycleProofs ----------------------
(***************************************************************************)
(* CollectionLifecycle for any number of Vaults, writers and lifecycles,   *)
(* in order or overlapping: a passed boundary is one, and the collection   *)
(* ends on the registry's newest revision.                                 *)
(***************************************************************************)
EXTENDS CollectionLifecycle, FiniteSetTheorems, TLAPS

(***************************************************************************)
(* Types                                                                   *)
(***************************************************************************)
Stage == {"none", "spawned", "installed", "waiting", "fenced", "converged", "done"}
Upto == 0 .. MaxLifecycle
Blocks == [Vault -> Block]
Life == [stage : Stage, revision : Upto, from : Upto, before : Blocks, after : Blocks,
         writes : SUBSET Vault, turns : SUBSET Vault]
Turn == [stage : {"none", "opened", "reading", "working", "embedding"}, on : Block,
         current : BOOLEAN]
Write == [stage : {"opened", "writing"}, on : Block, vault : Vault]
Registry == [Revision -> [Vault -> Definition]]

Counters ==
  /\ revision \in Revision /\ spawned \in Task /\ revision <= spawned
  /\ installed \in 0 .. revision /\ phase \in 0 .. spawned
Collected == registry \in Registry /\ block \in Blocks /\ life \in [Task -> Life]
Worked ==
  /\ drained \subseteq Vault /\ pending \subseteq Vault \X TurnKind
  /\ tracked \subseteq Managed /\ control \subseteq Managed \X Upto
Around ==
  /\ turn \in [Vault \X TurnKind -> Turn]
  /\ row \in [Vault -> {"none", "off", "on"}]
  /\ writer \in [Writer -> Write \cup {NoWrite}]

Types == Counters /\ Collected /\ Worked /\ Around

(***************************************************************************)
(* The inductive invariant                                                 *)
(***************************************************************************)
Locked == {"installed", "fenced", "converged"}
Acting == Locked \cup {"waiting"}

\* The phase lock, and what a lifecycle knows of the collection: as long as its
\* revision is the installed one, the blocks it left are there.
LifeInv ==
  \A t \in Task :
    /\ life[t].stage # "none" => t <= spawned
    /\ life[t].stage \in Locked <=> phase = t
    /\ life[t].stage = "spawned" => life[t].revision \in 1 .. revision
    /\ life[t].stage \in Acting => life[t].revision <= installed /\ life[t].revision # 0
    /\ life[t].stage \in Locked => life[t].revision = installed
    /\ life[t].stage \in Acting /\ life[t].revision = installed => life[t].after = block
    /\ life[t].stage \in {"fenced", "converged"} => life[t].writes = {} /\ life[t].turns = {}

\* A Vault the lifecycle retired for good.
Leaves(t, v) == v \in Retired(t) /\ life[t].after[v] = NoBlock

\* What a lifecycle that is not superseded has waited for stays so.
WaitInv ==
  \A t \in Task :
    life[t].stage \in {"waiting", "fenced", "converged"} /\ life[t].revision = installed =>
      \A v \in Vault : Leaves(t, v) =>
        /\ v \in drained
        /\ v \notin life[t].writes => ExclusionFree(v, life[t].before[v].exclusion)
        /\ v \notin life[t].turns => ~HasTurns(v)

\* The newest revision is installed, or its lifecycle is still to come.
NewestInv ==
  installed = revision \/ \E t \in Task : life[t].stage = "spawned" /\ life[t].revision = revision

\* The blocks are those of the installed revision.
BlockInv ==
  \A v \in Vault :
    /\ block[v] # NoBlock <=> installed # 0 /\ v \in Enabled(installed)
    /\ block[v] # NoBlock => block[v].edition = registry[installed][v].edition

\* Somebody will admit a drained Vault that has a block.
DrainInv ==
  (\E v \in drained : block[v] # NoBlock)
    => \E t \in Task : life[t].stage \in Acting /\ life[t].revision = installed

IInv == Types /\ LifeInv /\ WaitInv /\ NewestInv /\ BlockInv /\ DrainInv

\* Nobody asks for the work of a Vault without a block, if none is managed.
Unasked(v) ==
  /\ \A k \in TurnKind : <<v, k>> \notin pending
  /\ v \in drained \/ /\ \A k \in TurnKind : turn[<<v, k>>] = NoTurn
                      /\ \A w \in Writer : writer[w] # NoWrite => writer[w].vault # v
QueueInv ==
  \A v \in Vault : block[v] = NoBlock =>
    Unasked(v) \/ \E t \in Task : life[t].stage = "installed" /\ Leaves(t, v)

(***************************************************************************)
(* Types                                                                   *)
(***************************************************************************)
LEMMA Constants ==
  /\ MaxLifecycle \in Nat \ {0} /\ 1 \in Task /\ Task = Revision
  /\ \A t \in Task : t \in Nat /\ t # 0 /\ t \in Upto
  /\ \A n \in Upto : n \in Nat
  /\ NoBlock \in Block /\ NoTurn \in Turn /\ 0 \in Upto
<1>1. MaxLifecycle \in Nat \ {0} BY LifecycleAssumption
<1>2. 1 \in Task /\ Task = Revision /\ 0 \in Upto BY <1>1 DEF Task, Revision, Upto
<1>3. \A t \in Task : t \in Nat /\ t # 0 /\ t \in Upto BY <1>1 DEF Task, Upto
<1>4. NoBlock \in Block BY <1>2 DEF NoBlock, Block, Upto
<1>5. NoTurn \in Turn BY <1>4 DEF NoTurn, Turn
<1> QED BY <1>1, <1>2, <1>3, <1>4, <1>5 DEF Upto

LEMMA LifeTypes ==
  /\ NoLife \in Life /\ Over \in Life /\ \A r \in Revision : Spawned(r) \in Life
  /\ NoLife.stage = "none" /\ Over.stage = "done" /\ Over.revision = 0
  /\ \A r : Spawned(r).stage = "spawned" /\ Spawned(r).revision = r
<1>1. [v \in Vault |-> NoBlock] \in Blocks BY Constants DEF Blocks
<1>2. NoLife \in Life BY <1>1, Constants DEF NoLife, Life, Stage
<1>3. Over \in Life BY <1>2 DEF Over, Life, Stage
<1>4. \A r \in Revision : r \in Upto BY Constants
<1>5. \A r \in Revision : Spawned(r) \in Life BY <1>2, <1>4 DEF Spawned, Life, Stage
<1> QED BY <1>2, <1>3, <1>5 DEF NoLife, Over, Spawned

LEMMA InitTypes == Init => Types
<1> SUFFICES ASSUME Init PROVE Types OBVIOUS
<1> USE DEF Init
<1>1. Counters BY Constants DEF Counters, Task, Revision
<1>2. registry \in Registry
  <2>1. PICK statuses \in [Vault -> {"new", "disabled", "enabled"}] :
          registry = [r \in Revision |->
            [v \in Vault |-> [status |-> IF r = 1 THEN statuses[v] ELSE "new", edition |-> 0]]]
    OBVIOUS
  <2>2. \A r \in Revision : \A v \in Vault :
          [status |-> IF r = 1 THEN statuses[v] ELSE "new", edition |-> 0] \in Definition
    BY Constants DEF Definition, Status, Upto
  <2> QED BY <2>1, <2>2 DEF Registry
<1>3. block \in Blocks BY Constants DEF Blocks
<1>4. life \in [Task -> Life] BY LifeTypes, Constants
<1>5. Worked BY DEF Worked
<1>6. Around BY Constants DEF Around
<1> QED BY <1>1, <1>2, <1>3, <1>4, <1>5, <1>6 DEF Types, Collected

\* The requests that commit a revision.
Mutates(v) ==
  \/ \E s \in {"enabled", "disabled"} : Create(v, s)
  \/ Edit(v) \/ EditCredentials(v) \/ SetEnabled(v) \/ Disconnect(v)

\* What they all do, and a retry too.
Spawns ==
  /\ life[1].stage = "done"
  /\ spawned' = spawned + 1 /\ spawned' \in Task
  /\ revision' \in Revision /\ revision' \in {revision, revision + 1}
  /\ life' = [life EXCEPT ![spawned'] = Spawned(revision')]
  /\ registry' \in Registry /\ \A r \in 1 .. revision : registry'[r] = registry[r]
  /\ control' \subseteq Managed \X Upto
  /\ UNCHANGED <<installed, block, phase, drained, pending, turn, tracked, row, writer>>

LEMMA SpawnEffect ==
  ASSUME Types, Retry \/ \E v \in Vault : Mutates(v)
  PROVE  Spawns
<1>0. /\ revision \in Nat /\ spawned \in Nat /\ revision <= spawned
      /\ revision \in Revision /\ registry \in Registry /\ control \subseteq Managed \X Upto
  BY Constants DEF Types, Counters, Collected, Worked
<1>1. CASE Retry
  <2>1. spawned + 1 \in Task BY <1>0, <1>1, Constants DEF Retry, Spawn, Task
  <2> QED BY <1>0, <1>1, <2>1 DEF Retry, Spawn, Spawns
<1>2. CASE \E v \in Vault : Mutates(v)
  <2>1. PICK v \in Vault : Mutates(v) BY <1>2
  <2>2. PICK d : Commit(v, d) /\ (revision + 1 \in Upto => d \in Definition)
    <3> DEFINE now == registry[revision][v]
    <3>1. now \in Definition BY <1>0 DEF Registry
    <3>2. CASE \E s \in {"enabled", "disabled"} : Create(v, s)
      BY <3>2, Constants DEF Create, Definition, Status, Upto
    <3>3. CASE Edit(v)
      <4>1. revision + 1 \in Upto => [now EXCEPT !.edition = revision + 1] \in Definition
        BY <3>1 DEF Definition, Upto
      <4> QED BY <3>3, <4>1 DEF Edit
    <3>4. CASE EditCredentials(v) BY <3>1, <3>4 DEF EditCredentials
    <3>5. CASE SetEnabled(v) \/ Disconnect(v)
      <4>1. \A s \in {"enabled", "disabled", "gone"} : [now EXCEPT !.status = s] \in Definition
        BY <3>1 DEF Definition, Status
      <4> QED BY <3>5, <4>1 DEF SetEnabled, Disconnect
    <3> QED BY <2>1, <3>2, <3>3, <3>4, <3>5 DEF Mutates
  <2>3. spawned + 1 \in Task /\ revision + 1 \in Revision
    BY <1>0, <2>2, Constants DEF Commit, Spawn, Task, Revision
  <2>4. revision + 1 \in Upto /\ spawned + 1 \in Upto BY <2>3, Constants
  <2>5. registry' \in Registry
    <3>1. [registry[revision] EXCEPT ![v] = d] \in [Vault -> Definition]
      BY <1>0, <2>2, <2>4 DEF Registry
    <3> QED BY <1>0, <2>2, <2>3, <3>1 DEF Commit, Registry
  <2>6. \A r \in 1 .. revision : registry'[r] = registry[r]
    BY <1>0, <2>2 DEF Commit, Registry
  <2>7. control' \subseteq Managed \X Upto
    BY <1>0, <2>1, <2>4 DEF Mutates, Create, Edit, EditCredentials, SetEnabled, Disconnect
  <2> QED BY <1>0, <2>2, <2>3, <2>5, <2>6, <2>7 DEF Commit, Spawn, Spawns
<1> QED BY <1>1, <1>2

LEMMA SpawnTypes == Types /\ Spawns => Types'
<1> SUFFICES ASSUME Types, Spawns PROVE Types' OBVIOUS
<1>1. Counters' BY Constants DEF Types, Counters, Spawns, Task, Revision
<1>2. life' \in [Task -> Life] BY LifeTypes DEF Types, Collected, Spawns
<1>3. Collected' BY <1>2 DEF Types, Collected, Spawns
<1> QED BY <1>1, <1>3 DEF Types, Worked, Around, Spawns

LEMMA BlockTypes ==
  ASSUME Types, NEW r \in Revision, NEW v \in Vault
  PROVE  NextBlock(r, v) \in Block
<1>1. block[v] \in Block /\ registry[r][v] \in Definition
  BY DEF Types, Collected, Blocks, Registry
<1>2. Exclusion(r, v) \in Upto BY <1>1, Constants DEF Exclusion, Block, Upto
<1>3. [made |-> r, edition |-> registry[r][v].edition, exclusion |-> Exclusion(r, v)] \in Block
  BY <1>1, <1>2, Constants DEF Block, Definition, Upto
<1> QED BY <1>1, <1>3, Constants DEF NextBlock

LEMMA ReconcileTypes ==
  ASSUME Types, LifeInv, NEW t \in Task, Reconcile(t)
  PROVE  Types'
<1> DEFINE r == life[t].revision
<1>1. /\ life[t].stage = "spawned" /\ r \in 1 .. revision /\ r \in Revision /\ t <= spawned
      /\ spawned \in Task /\ revision \in Nat /\ installed \in Nat
  BY Constants DEF Types, Counters, LifeInv, Reconcile, Task, Revision
<1>2. life \in [Task -> Life] /\ block \in Blocks BY DEF Types, Collected
<1>3. installed \in Upto BY <1>1, Constants DEF Types, Counters, Task, Revision, Upto
<1>4. CASE Superseded(r)
  <2>1. life' \in [Task -> Life] BY <1>2, <1>4, LifeTypes DEF Reconcile
  <2> QED BY <1>4, <2>1 DEF Types, Counters, Collected, Worked, Around, Reconcile, background
<1>5. CASE ~Superseded(r)
  <2>1. block' \in Blocks BY <1>1, <1>2, <1>5, BlockTypes DEF Reconcile, Blocks
  <2>2. [life[t] EXCEPT !.stage = "installed", !.from = installed, !.before = block,
                        !.after = block'] \in Life
    BY <1>2, <1>3, <2>1 DEF Life, Stage
  <2>3. life' = [life EXCEPT ![t] = [life[t] EXCEPT !.stage = "installed", !.from = installed,
                                     !.before = block, !.after = block']]
    BY <1>2, <1>5 DEF Reconcile
  <2>4. life' \in [Task -> Life] BY <1>2, <2>2, <2>3
  <2>5. Counters'
    <3>1. installed' = r /\ phase' = t /\ UNCHANGED <<revision, spawned>>
      BY <1>5 DEF Reconcile
    <3> QED BY <1>1, <3>1, Constants DEF Types, Counters
  <2> QED BY <2>1, <2>4, <2>5 DEF Types, Collected, Worked, Around, Reconcile, background
<1> QED BY <1>4, <1>5

\* The lifecycle's other steps.
Continues(t) ==
  \/ Retire(t) \/ Fence(t) \/ Converge(t) \/ Activate(t)
  \/ \E v \in Vault : PassWrites(t, v) \/ PassTurns(t, v)

\* What they do to the lifecycle: one stage after the other, under the lock or not.
LEMMA ContinuesEffect ==
  ASSUME Types, LifeInv, NEW t \in Task, Continues(t)
  PROVE  /\ UNCHANGED <<revision, registry, installed, block, spawned, control, writer>>
         /\ life[t].stage \in Acting /\ t <= spawned
         /\ life' \in [Task -> Life]
         /\ \A q \in Task \ {t} : life'[q] = life[q]
         /\ \/ life'[t] = Over
            \/ /\ life'[t].stage \in Acting \ {"installed"}
               /\ \A f \in {"revision", "from", "before", "after"} : life'[t][f] = life[t][f]
         /\ phase' \in {0, t, phase}
         /\ life'[t].stage \in Locked <=> phase' = t
         /\ \A q \in Task \ {t} : phase' = q <=> phase = q
<1>1. life \in [Task -> Life] /\ life[t] \in Life BY DEF Types, Collected
<1>2. /\ UNCHANGED <<revision, registry, installed, block, spawned, control, writer>>
      /\ life[t].stage \in Acting
  BY DEF Continues, Retire, Fence, Converge, Activate, PassWrites, PassTurns, background, Acting, Locked
<1>3. t <= spawned BY <1>2 DEF LifeInv, Acting, Locked
<1>4. life[t].stage \in Locked <=> phase = t BY DEF LifeInv
<1>6. PICK m \in Life : /\ life' = [life EXCEPT ![t] = m]
                        /\ \/ m = Over
                           \/ /\ m.stage \in Acting \ {"installed"}
                              /\ \A f \in {"revision", "from", "before", "after"} : m[f] = life[t][f]
                        /\ m.stage \in Locked <=> phase' = t
                        /\ phase = phase' \/ {phase, phase'} = {0, t}
  <2>1. CASE Retire(t)
    <3> DEFINE m == [life[t] EXCEPT !.stage = "waiting", !.writes = Retired(t), !.turns = Retired(t)]
    <3>1. m \in Life BY <1>1 DEF Life, Stage, Retired
    <3>2. life' = [life EXCEPT ![t] = m] BY <1>1, <2>1 DEF Retire
    <3>3. m.stage = "waiting" /\ \A f \in {"revision", "from", "before", "after"} : m[f] = life[t][f]
      BY <1>1 DEF Life
    <3>4. phase = t /\ phase' = 0 /\ t # 0 BY <1>4, <2>1, Constants DEF Retire, Locked
    <3> QED BY <3>1, <3>2, <3>3, <3>4 DEF Acting, Locked
  <2>2. CASE \E v \in Vault : PassWrites(t, v)
    <3>1. PICK v \in Vault : PassWrites(t, v) BY <2>2
    <3> DEFINE m == [life[t] EXCEPT !.writes = @ \ {v}]
    <3>2. m \in Life BY <1>1 DEF Life
    <3>3. life' = [life EXCEPT ![t] = m] BY <1>1, <3>1 DEF PassWrites
    <3>4. m.stage = "waiting" /\ \A f \in {"revision", "from", "before", "after"} : m[f] = life[t][f]
      BY <1>1, <3>1 DEF Life, PassWrites
    <3>5. phase' = phase /\ phase # t BY <1>4, <3>1 DEF PassWrites, background, Locked
    <3> QED BY <3>2, <3>3, <3>4, <3>5 DEF Acting, Locked
  <2>3. CASE \E v \in Vault : PassTurns(t, v)
    <3>1. PICK v \in Vault : PassTurns(t, v) BY <2>3
    <3> DEFINE m == [life[t] EXCEPT !.turns = @ \ {v}]
    <3>2. m \in Life BY <1>1 DEF Life
    <3>3. life' = [life EXCEPT ![t] = m] BY <1>1, <3>1 DEF PassTurns
    <3>4. m.stage = "waiting" /\ \A f \in {"revision", "from", "before", "after"} : m[f] = life[t][f]
      BY <1>1, <3>1 DEF Life, PassTurns
    <3>5. phase' = phase /\ phase # t BY <1>4, <3>1 DEF PassTurns, background, Locked
    <3> QED BY <3>2, <3>3, <3>4, <3>5 DEF Acting, Locked
  <2>4. CASE Fence(t) /\ installed # life[t].revision
    <3>1. phase = 0 /\ phase' = 0 /\ t # 0 BY <2>4, Constants DEF Fence
    <3>2. life' = [life EXCEPT ![t] = Over] BY <2>4 DEF Fence
    <3> QED BY <3>1, <3>2, LifeTypes DEF Locked
  <2>5. CASE Fence(t) /\ installed = life[t].revision
    <3> DEFINE m == [life[t] EXCEPT !.stage = "fenced"]
    <3>1. m \in Life BY <1>1 DEF Life, Stage
    <3>2. life' = [life EXCEPT ![t] = m] /\ phase = 0 /\ phase' = t BY <1>1, <2>5 DEF Fence
    <3>3. m.stage = "fenced" /\ \A f \in {"revision", "from", "before", "after"} : m[f] = life[t][f]
      BY <1>1 DEF Life
    <3> QED BY <3>1, <3>2, <3>3 DEF Acting, Locked
  <2>6. CASE Converge(t)
    <3> DEFINE m == [life[t] EXCEPT !.stage = "converged"]
    <3>1. m \in Life BY <1>1 DEF Life, Stage
    <3>2. life' = [life EXCEPT ![t] = m] /\ phase = t /\ phase' = t
      BY <1>1, <1>4, <2>6 DEF Converge, Locked
    <3>3. m.stage = "converged" /\ \A f \in {"revision", "from", "before", "after"} : m[f] = life[t][f]
      BY <1>1 DEF Life
    <3> QED BY <3>1, <3>2, <3>3 DEF Acting, Locked
  <2>7. CASE Activate(t)
    <3>1. phase = t /\ phase' = 0 /\ t # 0 BY <1>4, <2>7, Constants DEF Activate, Locked
    <3>2. life' = [life EXCEPT ![t] = Over] BY <2>7 DEF Activate
    <3> QED BY <3>1, <3>2, LifeTypes DEF Locked
  <2> QED BY <2>1, <2>2, <2>3, <2>4, <2>5, <2>6, <2>7 DEF Continues
<1>7. life'[t] = m /\ life' \in [Task -> Life] /\ \A q \in Task \ {t} : life'[q] = life[q]
  BY <1>1, <1>6
<1>8. phase' \in {0, t, phase} /\ \A q \in Task \ {t} : phase' = q <=> phase = q
  BY <1>6, Constants
<1> QED BY <1>2, <1>3, <1>6, <1>7, <1>8

LEMMA ContinuesTypes ==
  ASSUME Types, LifeInv, NEW t \in Task, Continues(t)
  PROVE  Types'
<1>1. Counters' /\ Collected' BY ContinuesEffect, Constants DEF Types, Counters, Collected
<1>2. Worked'
  <2>1. control' = control BY ContinuesEffect
  <2>2. drained' \subseteq Vault
    BY DEF Types, Worked, Continues, Retire, Fence, Converge, Activate, PassWrites, PassTurns,
       background, Retired
  <2>3. pending' \subseteq Vault \X TurnKind
    BY DEF Types, Worked, Continues, Retire, Fence, Converge, Activate, PassWrites, PassTurns,
       background, Built, TurnKind
  <2>4. tracked' \subseteq Managed
    BY DEF Types, Worked, Continues, Retire, Fence, Converge, Activate, PassWrites, PassTurns,
       background
  <2> QED BY <2>1, <2>2, <2>3, <2>4 DEF Types, Worked
<1>3. Around'
  <2>1. CASE Converge(t)
    <3>1. row' \in [Vault -> {"none", "off", "on"}]
      BY <2>1 DEF Converge, Types, Around
    <3>2. turn' \in [Vault \X TurnKind -> Turn]
      <4>1. \A p \in Vault \X TurnKind : turn[p] \in Turn BY DEF Types, Around
      <4>2. \A p \in Vault \X TurnKind : [turn[p] EXCEPT !.current = FALSE] \in Turn
        BY <4>1 DEF Turn
      <4> QED BY <2>1, <4>1, <4>2 DEF Converge
    <3> QED BY <2>1, <3>1, <3>2 DEF Converge, Types, Around
  <2>2. CASE ~Converge(t)
    BY <2>2 DEF Types, Around, Continues, Retire, Fence, Activate, PassWrites, PassTurns, background
  <2> QED BY <2>1, <2>2
<1> QED BY <1>1, <1>2, <1>3 DEF Types

\* Turns, writes and controls leave the collection alone.
WorkOf(v) ==
  \/ CheckControl(v) \/ \E t \in 0 .. spawned : SyncNow(v, t)
  \/ \E k \in TurnKind : TurnStep(v, k)
  \/ \E w \in Writer : OpenWrite(w, v)
WorkStep == (\E v \in Vault : WorkOf(v)) \/ (\E w \in Writer : WriteStep(w)) \/ UNCHANGED vars

LEMMA WorkLeaves == WorkStep => UNCHANGED <<collection, drained>>
<1> USE DEF background
<1>1. ASSUME NEW v \in Vault, CheckControl(v) \/ \E t \in 0 .. spawned : SyncNow(v, t)
      PROVE  UNCHANGED <<collection, drained>>
  BY <1>1 DEF CheckControl, SyncNow
<1>2. ASSUME NEW v \in Vault, NEW k \in TurnKind, TurnStep(v, k)
      PROVE  UNCHANGED <<collection, drained>>
  BY <1>2 DEF TurnStep, StartTurn, TurnTakesGuard, ReleaseReads, Publish, FinishGitTurn
<1>3. ASSUME NEW v \in Vault, NEW w \in Writer, OpenWrite(w, v) \/ WriteStep(w)
      PROVE  UNCHANGED <<collection, drained>>
  BY <1>3 DEF OpenWrite, WriteStep, TakeWriteGuard, FinishWrite
<1>4. ASSUME NEW w \in Writer, WriteStep(w) PROVE UNCHANGED <<collection, drained>>
  BY <1>4 DEF WriteStep, TakeWriteGuard, FinishWrite
<1> QED BY <1>1, <1>2, <1>3, <1>4 DEF WorkStep, WorkOf, vars

LEMMA TurnRecords ==
  ASSUME Types
  PROVE  /\ \A p \in Vault \X TurnKind : turn[p] \in Turn
         /\ \A v \in Vault, k \in TurnKind : <<v, k>> \in Vault \X TurnKind
         /\ \A w \in Writer : writer[w] = NoWrite \/ writer[w] \in Write
         /\ \A w \in Writer : writer[w].stage # "none" => writer[w] \in Write
         /\ {"Index", "Git"} = TurnKind
<1>1. \A w \in Writer : writer[w] \in Write \cup {NoWrite} BY DEF Types, Around
<1>2. NoWrite.stage = "none" BY DEF NoWrite
<1> QED BY <1>1, <1>2 DEF Types, Around, TurnKind

LEMMA WorkTypes == Types /\ WorkStep => Types'
<1> SUFFICES ASSUME Types, WorkStep PROVE Types' OBVIOUS
<1>0. UNCHANGED <<collection, drained>> BY WorkLeaves
<1>1. Counters' /\ Collected' /\ drained' \subseteq Vault
  BY <1>0 DEF collection, Types, Counters, Collected, Worked
<1>2. /\ pending \subseteq Vault \X TurnKind /\ tracked \subseteq Managed
      /\ control \subseteq Managed \X Upto /\ row \in [Vault -> {"none", "off", "on"}]
      /\ turn \in [Vault \X TurnKind -> Turn] /\ writer \in [Writer -> Write \cup {NoWrite}]
      /\ Managed \subseteq Vault /\ block \in Blocks /\ TurnKind = {"Index", "Git"}
  BY LifecycleAssumption DEF Types, Worked, Around, Collected, TurnKind
<1>3. \A v \in Vault, k \in TurnKind : Requested(v, k) \subseteq Vault \X TurnKind
  BY <1>2 DEF Requested
<1> SUFFICES /\ pending' \subseteq Vault \X TurnKind /\ tracked' \subseteq Managed
             /\ control' \subseteq Managed \X Upto /\ row' \in [Vault -> {"none", "off", "on"}]
             /\ turn' \in [Vault \X TurnKind -> Turn]
             /\ writer' \in [Writer -> Write \cup {NoWrite}]
  BY <1>1 DEF Types, Worked, Around
<1>4. ASSUME NEW v \in Vault, CheckControl(v)
      PROVE  /\ control' \subseteq Managed \X Upto
             /\ UNCHANGED <<pending, tracked, row, turn, writer>>
  BY <1>2, <1>4, Constants DEF CheckControl
<1>5. ASSUME NEW v \in Vault, \E t \in 0 .. spawned : SyncNow(v, t)
      PROVE  /\ control' \subseteq Managed \X Upto /\ tracked' \subseteq Managed
             /\ pending' \subseteq Vault \X TurnKind
             /\ UNCHANGED <<row, turn, writer>>
  <2>1. PICK t \in 0 .. spawned : SyncNow(v, t) BY <1>5
  <2>2. <<v, t>> \in Managed \X Upto /\ pending' = Requested(v, "Git") BY <1>2, <2>1 DEF SyncNow
  <2>3. pending' \subseteq Vault \X TurnKind BY <1>2, <1>3, <2>2
  <2> QED BY <1>2, <2>1, <2>2, <2>3 DEF SyncNow
<1>6. ASSUME NEW v \in Vault, NEW k \in TurnKind, TurnStep(v, k)
      PROVE  /\ turn' \in [Vault \X TurnKind -> Turn] /\ tracked' \subseteq Managed
             /\ pending' \subseteq Vault \X TurnKind /\ row' \in [Vault -> {"none", "off", "on"}]
             /\ UNCHANGED <<control, writer>>
  <2>1. <<v, k>> \in Vault \X TurnKind /\ turn[<<v, k>>] \in Turn BY <1>2
  <2>2. CASE StartTurn(v, k)
    <3>1. [stage |-> "opened", on |-> block[v], current |-> FALSE] \in Turn
      BY <1>2 DEF Turn, Blocks
    <3> QED BY <1>2, <2>2, <3>1, Constants DEF StartTurn
  <2>3. CASE TurnTakesGuard(v, k)
    <3>1. \A s \in {"reading", "working"} : [turn[<<v, k>>] EXCEPT !.stage = s] \in Turn
      BY <2>1 DEF Turn
    <3> QED BY <1>2, <2>3, <3>1, Constants DEF TurnTakesGuard
  <2>4. CASE k = "Index" /\ ReleaseReads(v)
    <3>1. [turn[<<v, k>>] EXCEPT !.stage = "embedding", !.current = TRUE] \in Turn
      BY <2>1 DEF Turn
    <3>2. turn' = [turn EXCEPT ![<<v, k>>] = [turn[<<v, k>>] EXCEPT !.stage = "embedding",
                                                                   !.current = TRUE]]
      BY <1>2, <2>1, <2>4 DEF ReleaseReads
    <3> QED BY <1>2, <2>4, <3>1, <3>2 DEF ReleaseReads
  <2>5. CASE k = "Index" /\ Publish(v)
    BY <1>2, <2>1, <2>5, Constants DEF Publish
  <2>6. CASE k = "Git" /\ FinishGitTurn(v)
    <3>1. Requested(v, "Index") \subseteq Vault \X TurnKind BY <1>2, <1>3
    <3>2. pending' \in {pending, Requested(v, "Index")} BY <2>6 DEF FinishGitTurn
    <3> QED BY <1>2, <2>1, <2>6, <3>1, <3>2, Constants DEF FinishGitTurn
  <2> QED BY <1>6, <2>2, <2>3, <2>4, <2>5, <2>6 DEF TurnStep
<1>7. ASSUME NEW v \in Vault, NEW w \in Writer, OpenWrite(w, v)
      PROVE  /\ writer' \in [Writer -> Write \cup {NoWrite}]
             /\ UNCHANGED <<background, row>>
  <2>1. [stage |-> "opened", on |-> block[v], vault |-> v] \in Write BY <1>2 DEF Write, Blocks
  <2> QED BY <1>2, <1>7, <2>1 DEF OpenWrite
<1>8. ASSUME NEW w \in Writer, WriteStep(w)
      PROVE  /\ writer' \in [Writer -> Write \cup {NoWrite}] /\ pending' \subseteq Vault \X TurnKind
             /\ UNCHANGED <<control, tracked, row, turn>>
  <2>1. writer[w] \in Write /\ writer[w].vault \in Vault
    BY <1>8, TurnRecords DEF WriteStep, TakeWriteGuard, FinishWrite, Write
  <2>2. [writer[w] EXCEPT !.stage = "writing"] \in Write BY <2>1 DEF Write
  <2>3. \A k \in TurnKind : Requested(writer[w].vault, k) \subseteq Vault \X TurnKind
    BY <1>3, <2>1
  <2>4. CASE TakeWriteGuard(w) BY <1>2, <2>2, <2>4 DEF TakeWriteGuard, background
  <2>5. CASE FinishWrite(w)
    <3>1. pending' \subseteq Requested(writer[w].vault, "Index") \cup Requested(writer[w].vault, "Git")
      BY <2>5 DEF FinishWrite
    <3>2. pending' \subseteq Vault \X TurnKind BY <1>2, <2>3, <3>1
    <3> QED BY <1>2, <2>5, <3>2 DEF FinishWrite
  <2> QED BY <1>8, <2>4, <2>5 DEF WriteStep
<1> QED BY <1>2, <1>4, <1>5, <1>6, <1>7, <1>8 DEF WorkStep, WorkOf, background, vars

(***************************************************************************)
(* Nothing begins on a Vault that was retired                              *)
(***************************************************************************)
LEMMA Pairs ==
  \A v, u \in Vault, k, l \in TurnKind : <<v, k>> = <<u, l>> <=> v = u /\ k = l
  OBVIOUS

LEMMA NothingNewQueued ==
  ASSUME Types, WorkStep, NEW v \in Vault, v \in drained, NEW k \in TurnKind, <<v, k>> \in pending'
  PROVE  <<v, k>> \in pending
<1>1. \A u, l : <<v, k>> \in Requested(u, l) => <<v, k>> \in pending BY DEF Requested
<1>2. ASSUME NEW u \in Vault, CheckControl(u) \/ \E t \in 0 .. spawned : SyncNow(u, t)
      PROVE  <<v, k>> \in pending
  <2>1. pending' = pending \/ pending' = Requested(u, "Git") BY <1>2 DEF CheckControl, SyncNow
  <2> QED BY <1>1, <2>1
<1>3. ASSUME NEW u \in Vault, NEW l \in TurnKind, TurnStep(u, l)
      PROVE  <<v, k>> \in pending
  BY <1>1, <1>3 DEF TurnStep, StartTurn, TurnTakesGuard, ReleaseReads, Publish, FinishGitTurn
<1>4. ASSUME NEW u \in Vault, NEW w \in Writer, OpenWrite(w, u) PROVE <<v, k>> \in pending
  BY <1>4 DEF OpenWrite, background
<1>5. ASSUME NEW w \in Writer, WriteStep(w) PROVE <<v, k>> \in pending
  BY <1>1, <1>5 DEF WriteStep, TakeWriteGuard, FinishWrite, background
<1> QED BY <1>2, <1>3, <1>4, <1>5 DEF WorkStep, WorkOf, vars, background

\* A turn comes out of the queue; on a block that is gone it does not get to work.
LEMMA NoTurnBegins ==
  ASSUME Types, WorkStep, NEW v \in Vault, block[v] = NoBlock, NEW k \in TurnKind
  PROVE  /\ turn'[<<v, k>>] # NoTurn => turn[<<v, k>>] # NoTurn
         /\ turn'[<<v, k>>].stage \in {"reading", "working"} =>
              /\ turn[<<v, k>>].stage \in {"reading", "working"}
              /\ turn'[<<v, k>>].on = turn[<<v, k>>].on
<1>0. /\ turn \in [Vault \X TurnKind -> Turn] /\ <<v, k>> \in Vault \X TurnKind
      /\ NoTurn.stage = "none" /\ \A u \in Vault, l \in TurnKind : <<u, l>> \in Vault \X TurnKind
      /\ turn[<<v, k>>] \in Turn /\ "Index" \in TurnKind /\ "Git" \in TurnKind
  BY DEF Types, Around, NoTurn, TurnKind
<1>1. CASE UNCHANGED turn BY <1>1
<1>2. ASSUME NEW u \in Vault, NEW l \in TurnKind, TurnStep(u, l), <<u, l>> # <<v, k>>
      PROVE  turn'[<<v, k>>] = turn[<<v, k>>]
  <2>1. \A p \in Vault \X TurnKind : p # <<u, l>> => turn'[p] = turn[p]
    BY <1>0, <1>2 DEF TurnStep, StartTurn, TurnTakesGuard, ReleaseReads, Publish, FinishGitTurn
  <2> QED BY <1>0, <1>2, <2>1
<1>3. ASSUME TurnStep(v, k)
      PROVE  \/ turn'[<<v, k>>] = NoTurn
             \/ turn[<<v, k>>].stage = "reading" /\ turn'[<<v, k>>].stage = "embedding"
  <2>1. CASE StartTurn(v, k) BY <1>0, <2>1 DEF StartTurn
  <2>2. CASE TurnTakesGuard(v, k) BY <1>0, <2>2 DEF TurnTakesGuard, Accepting
  <2>3. CASE k = "Index" /\ ReleaseReads(v) BY <1>0, <2>3 DEF ReleaseReads, Turn
  <2>4. CASE k = "Index" /\ Publish(v) BY <1>0, <2>4 DEF Publish
  <2>5. CASE k = "Git" /\ FinishGitTurn(v) BY <1>0, <2>5 DEF FinishGitTurn
  <2> QED BY <1>3, <2>1, <2>2, <2>3, <2>4, <2>5 DEF TurnStep
<1>4. CASE \E u \in Vault, l \in TurnKind : TurnStep(u, l)
  BY <1>0, <1>2, <1>3, <1>4, Pairs
<1>5. UNCHANGED turn \/ \E u \in Vault, l \in TurnKind : TurnStep(u, l)
  BY DEF WorkStep, WorkOf, CheckControl, SyncNow, OpenWrite, WriteStep, TakeWriteGuard,
     FinishWrite, vars, background
<1> QED BY <1>1, <1>4, <1>5

LEMMA NoWriteBegins ==
  ASSUME Types, WorkStep, NEW v \in Vault, block[v] = NoBlock, NEW w \in Writer,
         writer'[w] # NoWrite, writer'[w].vault = v
  PROVE  writer[w] = writer'[w]
<1>0. writer \in [Writer -> Write \cup {NoWrite}] BY DEF Types, Around
<1>1. ASSUME NEW u \in Vault, NEW x \in Writer, OpenWrite(x, u)
      PROVE  writer[w] = writer'[w]
  BY <1>0, <1>1 DEF OpenWrite
<1>2. ASSUME NEW x \in Writer, WriteStep(x)
      PROVE  writer[w] = writer'[w]
  <2>1. CASE x # w BY <1>0, <1>2, <2>1 DEF WriteStep, TakeWriteGuard, FinishWrite
  <2>2. CASE x = w /\ TakeWriteGuard(x)
    <3>1. writer[w] \in Write BY <2>2, TurnRecords DEF TakeWriteGuard
    <3>2. [writer[w] EXCEPT !.stage = "writing"].vault = writer[w].vault BY <3>1 DEF Write
    <3> QED BY <1>0, <2>2, <3>1, <3>2 DEF TakeWriteGuard, Accepting
  <2>3. CASE x = w /\ FinishWrite(x) BY <1>0, <2>3 DEF FinishWrite
  <2> QED BY <1>2, <2>1, <2>2, <2>3 DEF WriteStep
<1>3. \/ UNCHANGED writer
      \/ \E u \in Vault, x \in Writer : OpenWrite(x, u)
      \/ \E x \in Writer : WriteStep(x)
  BY DEF WorkStep, WorkOf, CheckControl, SyncNow, TurnStep, StartTurn, TurnTakesGuard,
     ReleaseReads, Publish, FinishGitTurn, vars, background
<1> QED BY <1>1, <1>2, <1>3

\* A boundary that was free, or a Vault without turns, stays so.
Stays(v) ==
  /\ ~HasTurns(v) => ~HasTurns(v)'
  /\ \A x : ExclusionFree(v, x) => ExclusionFree(v, x)'

LEMMA Idle ==
  ASSUME NEW v,
         \A k \in TurnKind :
           /\ <<v, k>> \in pending' => <<v, k>> \in pending
           /\ turn'[<<v, k>>] # NoTurn => turn[<<v, k>>] # NoTurn
           /\ turn'[<<v, k>>].stage \in {"reading", "working"} =>
                /\ turn[<<v, k>>].stage \in {"reading", "working"}
                /\ turn'[<<v, k>>].on = turn[<<v, k>>].on,
         \A w \in Writer :
           writer'[w] # NoWrite /\ writer'[w].vault = v => writer[w] = writer'[w]
  PROVE  Stays(v)
<1>1. ~HasTurns(v) => ~HasTurns(v)' BY DEF HasTurns
<1>2. ASSUME NEW x, ExclusionFree(v, x) PROVE ExclusionFree(v, x)'
  <2>1. ASSUME NEW k \in TurnKind, turn'[<<v, k>>].stage \in {"reading", "working"}
        PROVE  turn'[<<v, k>>].on.exclusion # x
    BY <1>2, <2>1 DEF ExclusionFree, HoldingTurns
  <2>2. ASSUME NEW w \in Writer, writer'[w].stage = "writing", writer'[w].vault = v
        PROVE  writer'[w].on.exclusion # x
    <3>1. writer'[w] # NoWrite BY <2>2 DEF NoWrite
    <3> QED BY <1>2, <2>2, <3>1 DEF ExclusionFree, HoldingWrites
  <2> QED BY <2>1, <2>2 DEF ExclusionFree, HoldingTurns, HoldingWrites
<1> QED BY <1>1, <1>2 DEF Stays

LEMMA StaysFree ==
  ASSUME NEW q, NEW v, Stays(v), life'[q].before = life[q].before,
         ExclusionFree(v, life[q].before[v].exclusion)
  PROVE  ExclusionFree(v, life[q].before[v].exclusion)'
<1> DEFINE x == life[q].before[v].exclusion
<1>1. x' = x OBVIOUS
<1>2. ASSUME NEW y, y = x, ExclusionFree(v, y) PROVE ExclusionFree(v, x)'
  <2>1. ExclusionFree(v, y)' BY <1>2 DEF Stays
  <2> QED BY <1>1, <1>2, <2>1 DEF ExclusionFree
<1> QED BY <1>2

LEMMA NothingBegins ==
  ASSUME Types, WorkStep, NEW v \in Vault, v \in drained, block[v] = NoBlock
  PROVE  Stays(v)
BY Idle, NothingNewQueued, NoTurnBegins, NoWriteBegins

(***************************************************************************)
(* The initial state, and the steps                                        *)
(***************************************************************************)
LEMMA InitIInv == Init => IInv
<1> SUFFICES ASSUME Init PROVE IInv OBVIOUS
<1>1. /\ \A t \in Task : life[t] = IF t = 1 THEN Spawned(1) ELSE NoLife
      /\ revision = 1 /\ spawned = 1 /\ installed = 0 /\ phase = 0 /\ drained = {}
      /\ \A v \in Vault : block[v] = NoBlock
  BY DEF Init
<1>2. \A t \in Task : /\ life[t].stage = "none" \/ (t = 1 /\ life[t].stage = "spawned")
                      /\ t = 1 => life[t].revision = 1
  BY <1>1, LifeTypes
<1>3. LifeInv BY <1>1, <1>2, Constants DEF LifeInv, Locked, Acting
<1>4. WaitInv BY <1>2 DEF WaitInv
<1>5. NewestInv
  <2>1. life[1].stage = "spawned" /\ life[1].revision = revision BY <1>1, Constants, LifeTypes
  <2> QED BY <2>1, Constants DEF NewestInv
<1>6. BlockInv BY <1>1 DEF BlockInv
<1>7. DrainInv BY <1>1 DEF DrainInv
<1> QED BY InitTypes, <1>3, <1>4, <1>5, <1>6, <1>7 DEF IInv

LEMMA Steps ==
  [Next]_vars => \/ Retry \/ \E v \in Vault : Mutates(v)
                 \/ \E t \in Task : Reconcile(t) \/ Continues(t)
                 \/ WorkStep
<1>1. ASSUME NEW v \in Vault, Manage(v)
      PROVE  Mutates(v) \/ CheckControl(v)
  BY <1>1 DEF Manage, Mutates
<1>2. ASSUME NEW t \in Task, LifecycleStep(t) PROVE Reconcile(t) \/ Continues(t)
  BY <1>2 DEF LifecycleStep, Continues
<1> QED BY <1>1, <1>2 DEF Next, WorkStep, WorkOf

(***************************************************************************)
(* A commit or a retry                                                     *)
(***************************************************************************)
LEMMA SpawnKeeps ==
  ASSUME IInv, Spawns
  PROVE  LifeInv' /\ WaitInv' /\ NewestInv' /\ BlockInv' /\ DrainInv'
<1>0. /\ life \in [Task -> Life] /\ spawned \in Nat /\ revision \in Nat /\ installed \in Nat
      /\ installed <= revision
  BY Constants DEF IInv, Types, Counters, Collected
<1>1. /\ life'[spawned'] = Spawned(revision') /\ spawned' \in Task
      /\ \A q \in Task : q # spawned' => life'[q] = life[q]
      /\ life[spawned'].stage = "none" /\ spawned' = spawned + 1
  <2>1. life[spawned'].stage = "none" BY <1>0 DEF IInv, LifeInv, Spawns
  <2> QED BY <1>0, <2>1 DEF Spawns
<1>2. /\ life'[spawned'].stage = "spawned" /\ life'[spawned'].revision = revision'
      /\ revision' >= revision /\ revision' \in 1 .. revision' /\ revision' \in Nat
  BY <1>0, <1>1, LifeTypes, Constants DEF Spawns, Revision
<1>3. LifeInv'
  <2>1. ASSUME NEW q \in Task, q # spawned'
        PROVE  /\ life'[q] = life[q] /\ q \in Nat
               /\ life'[q].stage # "none" => q <= spawned'
               /\ life'[q].stage = "spawned" => life'[q].revision \in 1 .. revision'
    <3>1. /\ life[q].stage # "none" => q <= spawned
          /\ life[q].stage = "spawned" => life[q].revision \in 1 .. revision
      BY DEF IInv, LifeInv
    <3> QED BY <1>0, <1>1, <1>2, <2>1, <3>1, Constants
  <2>2. phase # spawned' BY <1>1 DEF IInv, LifeInv, Locked
  <2> QED BY <1>1, <1>2, <2>1, <2>2 DEF IInv, LifeInv, Spawns, Locked, Acting
<1>4. WaitInv'
  <2> SUFFICES ASSUME NEW q \in Task, life'[q].stage \in {"waiting", "fenced", "converged"},
                      life'[q].revision = installed', NEW v \in Vault, Leaves(q, v)'
               PROVE  /\ v \in drained'
                      /\ v \notin life'[q].writes => ExclusionFree(v, life[q].before[v].exclusion)'
                      /\ v \notin life'[q].turns => ~HasTurns(v)'
    BY DEF WaitInv
  <2>1. life'[q] = life[q] BY <1>1, <1>2
  <2>2. Leaves(q, v) BY <2>1 DEF Leaves, Retired
  <2>3. /\ v \in drained
        /\ v \notin life[q].writes => ExclusionFree(v, life[q].before[v].exclusion)
        /\ v \notin life[q].turns => ~HasTurns(v)
    BY <2>1, <2>2 DEF IInv, WaitInv, Spawns
  <2> QED BY <2>1, <2>3 DEF Spawns, ExclusionFree, HoldingTurns, HoldingWrites, HasTurns
<1>5. NewestInv' BY <1>1, <1>2 DEF NewestInv
<1>6. BlockInv'
  <2>1. installed # 0 => registry'[installed] = registry[installed]
    BY <1>0 DEF Spawns
  <2> QED BY <2>1 DEF IInv, BlockInv, Spawns, Enabled
<1>7. DrainInv'
  BY <1>1 DEF IInv, DrainInv, Spawns, Acting, Locked
<1> QED BY <1>3, <1>4, <1>5, <1>6, <1>7

(***************************************************************************)
(* A lifecycle installs its revision                                       *)
(***************************************************************************)
LEMMA ReconcileEffect ==
  ASSUME IInv, NEW t \in Task, Reconcile(t)
  PROVE  /\ UNCHANGED <<revision, registry, spawned, background, row, writer>>
         /\ life[t].stage = "spawned" /\ life[t].revision \in 1 .. revision /\ t <= spawned
         /\ \A q \in Task : life[q].stage \notin Locked
         /\ \A q \in Task \ {t} : life'[q] = life[q]
         /\ \/ life[t].revision < installed /\ life'[t] = Over /\ UNCHANGED <<installed, block, phase>>
            \/ /\ installed <= life[t].revision
               /\ installed' = life[t].revision /\ phase' = t
               /\ block' = IF life[t].revision = installed THEN block
                           ELSE [v \in Vault |-> NextBlock(life[t].revision, v)]
               /\ life'[t].stage = "installed" /\ life'[t].revision = life[t].revision
               /\ life'[t].before = block /\ life'[t].after = block'
<1>0. life \in [Task -> Life] /\ life[t] \in Life BY DEF IInv, Types, Collected
<1>1. /\ life[t].stage = "spawned" /\ life[t].revision \in 1 .. revision /\ t <= spawned
      /\ \A q \in Task : life[q].stage \notin Locked
      /\ installed \in Nat
  BY Constants DEF IInv, Types, Counters, LifeInv, Reconcile
<1>2. CASE Superseded(life[t].revision)
  BY <1>0, <1>1, <1>2 DEF Reconcile, Superseded
<1>3. CASE ~Superseded(life[t].revision)
  <2>1. life' = [life EXCEPT ![t] = [life[t] EXCEPT !.stage = "installed", !.from = installed,
                                     !.before = block, !.after = block']]
    BY <1>0, <1>3 DEF Reconcile
  <2>2. \A q \in Task \ {t} : life'[q] = life[q] BY <1>0, <2>1
  <2>3. /\ life'[t].stage = "installed" /\ life'[t].revision = life[t].revision
        /\ life'[t].before = block /\ life'[t].after = block'
    BY <1>0, <2>1 DEF Life
  <2>4. installed <= life[t].revision BY <1>1, <1>3 DEF Superseded
  <2>5. /\ installed' = life[t].revision /\ phase' = t
        /\ block' = IF life[t].revision = installed THEN block
                    ELSE [v \in Vault |-> NextBlock(life[t].revision, v)]
        /\ UNCHANGED <<revision, registry, spawned, background, row, writer>>
    BY <1>3 DEF Reconcile
  <2> QED BY <1>1, <2>2, <2>3, <2>4, <2>5
<1> QED BY <1>2, <1>3

LEMMA ReconcileKeeps ==
  ASSUME IInv, NEW t \in Task, Reconcile(t)
  PROVE  LifeInv' /\ WaitInv' /\ NewestInv' /\ BlockInv' /\ DrainInv'
<1> DEFINE r == life[t].revision
<1>0. /\ installed \in Nat /\ revision \in Nat /\ installed <= revision /\ r \in 1 .. revision
      /\ block \in Blocks /\ Over.stage = "done" /\ Over.revision = 0
      /\ \A q \in Task : life[q].revision \in Nat /\ q \in Nat /\ q # 0
  <2>1. r \in 1 .. revision BY ReconcileEffect
  <2>2. \A q \in Task : life[q].revision \in Nat
    BY Constants DEF IInv, Types, Collected, Life
  <2> QED BY <2>1, <2>2, LifeTypes, Constants DEF IInv, Types, Counters, Collected
<1>1. CASE /\ life'[t] = Over /\ r < installed
           /\ UNCHANGED <<installed, block, phase, revision, registry, spawned, background, row, writer>>
  <2>1. /\ \A q \in Task \ {t} : life'[q] = life[q]
        /\ life[t].stage = "spawned" /\ t <= spawned
    BY ReconcileEffect
  <2>2. LifeInv' BY <1>0, <1>1, <2>1 DEF IInv, LifeInv, Locked, Acting
  <2>3. WaitInv'
    BY <1>0, <1>1, <2>1 DEF IInv, WaitInv, Leaves, Retired, ExclusionFree, HoldingTurns,
       HoldingWrites, HasTurns, background
  <2>4. NewestInv' BY <1>0, <1>1, <2>1 DEF IInv, NewestInv
  <2>5. BlockInv' BY <1>1 DEF IInv, BlockInv, Enabled
  <2>6. DrainInv'
    BY <1>1, <2>1 DEF IInv, DrainInv, background, Acting, Locked
  <2> QED BY <2>2, <2>3, <2>4, <2>5, <2>6
<1>2. CASE /\ installed <= r /\ installed' = r /\ phase' = t
           /\ block' = IF r = installed THEN block ELSE [v \in Vault |-> NextBlock(r, v)]
           /\ life'[t].stage = "installed" /\ life'[t].revision = r /\ life'[t].after = block'
  <2>1. /\ \A q \in Task \ {t} : life'[q] = life[q]
        /\ \A q \in Task : life[q].stage \notin Locked
        /\ UNCHANGED <<revision, registry, spawned, background, row, writer>>
        /\ t <= spawned
    BY ReconcileEffect
  <2>2. ASSUME NEW q \in Task \ {t}, life[q].stage \in Acting, life[q].revision = r
        PROVE  r = installed
    <3>1. life[q].revision <= installed BY <2>2 DEF IInv, LifeInv
    <3> QED BY <1>0, <1>2, <2>2, <3>1
  <2>3. LifeInv'
    <3> SUFFICES ASSUME NEW q \in Task PROVE
           /\ life'[q].stage # "none" => q <= spawned'
           /\ life'[q].stage \in Locked <=> phase' = q
           /\ life'[q].stage = "spawned" => life'[q].revision \in 1 .. revision'
           /\ life'[q].stage \in Acting => life'[q].revision <= installed' /\ life'[q].revision # 0
           /\ life'[q].stage \in Locked => life'[q].revision = installed'
           /\ life'[q].stage \in Acting /\ life'[q].revision = installed' => life'[q].after = block'
           /\ life'[q].stage \in {"fenced", "converged"} => life'[q].writes = {} /\ life'[q].turns = {}
      BY DEF LifeInv
    <3>1. CASE q = t BY <1>0, <1>2, <2>1, <3>1 DEF Locked, Acting
    <3>2. CASE q # t
      <4>1. /\ life'[q] = life[q] /\ life[q].stage \notin Locked
            /\ life[q].stage # "none" => q <= spawned
            /\ life[q].stage = "spawned" => life[q].revision \in 1 .. revision
            /\ life[q].stage \in Acting => life[q].revision <= installed /\ life[q].revision # 0
            /\ life[q].stage \in Acting /\ life[q].revision = installed => life[q].after = block
        BY <2>1, <3>2 DEF IInv, LifeInv
      <4>2. life[q].stage \in Acting => life[q].revision <= r BY <1>0, <1>2, <4>1
      <4>3. life[q].stage \in Acting /\ life[q].revision = r => life[q].after = block'
        BY <1>2, <2>2, <3>2, <4>1
      <4>4. life[q].stage \notin {"fenced", "converged"} BY <4>1 DEF Locked
      <4> QED BY <1>2, <2>1, <3>2, <4>1, <4>2, <4>3, <4>4
    <3> QED BY <3>1, <3>2
  <2>4. WaitInv'
    <3> SUFFICES ASSUME NEW q \in Task, life'[q].stage \in {"waiting", "fenced", "converged"},
                        life'[q].revision = installed', NEW v \in Vault, Leaves(q, v)'
                 PROVE  /\ v \in drained'
                        /\ v \notin life'[q].writes => ExclusionFree(v, life[q].before[v].exclusion)'
                        /\ v \notin life'[q].turns => ~HasTurns(v)'
                        /\ life'[q] = life[q]
      BY DEF WaitInv
    <3>1. q # t /\ life'[q] = life[q] BY <1>2, <2>1
    <3>2. life[q].revision = installed BY <1>2, <2>2, <3>1 DEF Acting, Locked
    <3>3. Leaves(q, v) BY <3>1 DEF Leaves, Retired
    <3>4. /\ v \in drained
          /\ v \notin life[q].writes => ExclusionFree(v, life[q].before[v].exclusion)
          /\ v \notin life[q].turns => ~HasTurns(v)
      BY <3>1, <3>2, <3>3 DEF IInv, WaitInv
    <3> QED BY <2>1, <3>1, <3>4
         DEF background, ExclusionFree, HoldingTurns, HoldingWrites, HasTurns
  <2>5. NewestInv'
    <3>1. CASE installed = revision
      <4>1. r = revision BY <1>0, <1>2, <3>1
      <4> QED BY <1>2, <2>1, <4>1 DEF NewestInv
    <3>2. CASE installed # revision
      <4>1. PICK q \in Task : life[q].stage = "spawned" /\ life[q].revision = revision
        BY <3>2 DEF IInv, NewestInv
      <4> QED BY <1>2, <2>1, <4>1 DEF NewestInv
    <3> QED BY <3>1, <3>2
  <2>6. BlockInv'
    <3>1. CASE r = installed BY <1>2, <2>1, <3>1 DEF IInv, BlockInv, Enabled
    <3>2. CASE r # installed
      <4> SUFFICES ASSUME NEW v \in Vault
                   PROVE  /\ NextBlock(r, v) # NoBlock <=> v \in Enabled(r)
                          /\ NextBlock(r, v) # NoBlock => NextBlock(r, v).edition = registry[r][v].edition
        BY <1>0, <1>2, <2>1, <3>2 DEF BlockInv, Enabled
      <4>1. [made |-> r, edition |-> registry[r][v].edition, exclusion |-> Exclusion(r, v)] # NoBlock
        BY <1>0 DEF NoBlock
      <4> QED BY <4>1 DEF NextBlock
    <3> QED BY <3>1, <3>2
  <2>7. DrainInv' BY <1>2 DEF DrainInv, Acting, Locked
  <2> QED BY <2>3, <2>4, <2>5, <2>6, <2>7
<1> QED BY <1>1, <1>2, ReconcileEffect

(***************************************************************************)
(* Turns, writes and controls                                              *)
(***************************************************************************)
LEMMA WorkKeeps ==
  ASSUME IInv, WorkStep
  PROVE  LifeInv' /\ WaitInv' /\ NewestInv' /\ BlockInv' /\ DrainInv'
<1>0. UNCHANGED <<revision, registry, installed, block, phase, spawned, life, drained>>
  BY WorkLeaves DEF collection
<1>1. LifeInv' BY <1>0 DEF IInv, LifeInv
<1>2. WaitInv'
  <2> SUFFICES ASSUME NEW q \in Task, life[q].stage \in {"waiting", "fenced", "converged"},
                      life[q].revision = installed, NEW v \in Vault, Leaves(q, v)
               PROVE  /\ v \in drained
                      /\ v \notin life[q].writes => ExclusionFree(v, life[q].before[v].exclusion)'
                      /\ v \notin life[q].turns => ~HasTurns(v)'
    BY <1>0 DEF WaitInv, Leaves, Retired
  <2>1. /\ v \in drained
        /\ v \notin life[q].writes => ExclusionFree(v, life[q].before[v].exclusion)
        /\ v \notin life[q].turns => ~HasTurns(v)
    BY DEF IInv, WaitInv
  <2>2. block[v] = NoBlock
    <3>1. life[q].after = block BY DEF IInv, LifeInv, Acting, Locked
    <3> QED BY <3>1 DEF Leaves
  <2>3. Stays(v) BY <2>1, <2>2, NothingBegins DEF IInv
  <2>4. life'[q].before = life[q].before BY <1>0
  <2> QED BY <2>1, <2>3, <2>4, StaysFree DEF Stays
<1>3. NewestInv' BY <1>0 DEF IInv, NewestInv
<1>4. BlockInv' BY <1>0 DEF IInv, BlockInv, Enabled
<1>5. DrainInv' BY <1>0 DEF IInv, DrainInv
<1> QED BY <1>1, <1>2, <1>3, <1>4, <1>5

(***************************************************************************)
(* A lifecycle goes on                                                     *)
(***************************************************************************)
LEMMA ContinuesWait ==
  ASSUME IInv, NEW t \in Task, Continues(t)
  PROVE  WaitInv'
<1> SUFFICES ASSUME NEW q \in Task, life'[q].stage \in {"waiting", "fenced", "converged"},
                    life'[q].revision = installed', NEW v \in Vault, Leaves(q, v)'
             PROVE  /\ v \in drained'
                    /\ v \notin life'[q].writes => ExclusionFree(v, life[q].before[v].exclusion)'
                    /\ v \notin life'[q].turns => ~HasTurns(v)'
  BY DEF WaitInv
<1>0. /\ UNCHANGED <<installed, block, writer>> /\ life \in [Task -> Life]
      /\ \A p \in Task \ {t} : life'[p] = life[p]
      /\ life'[t] = Over \/ \A f \in {"revision", "from", "before", "after"} : life'[t][f] = life[t][f]
      /\ life[t].stage \in Acting
  BY ContinuesEffect DEF IInv, Types, Collected
<1>1. /\ life'[q].revision = life[q].revision /\ life'[q].before = life[q].before
      /\ life'[q].after = life[q].after /\ life[q].stage \in Acting
  <2>1. CASE q = t
    <3>1. life'[t] # Over BY <2>1, LifeTypes
    <3> QED BY <1>0, <2>1, <3>1
  <2>2. CASE q # t BY <1>0, <2>2 DEF Acting, Locked
  <2> QED BY <2>1, <2>2
<1>2. Leaves(q, v) /\ life[q].revision = installed BY <1>0, <1>1 DEF Leaves, Retired
<1>3. block[v] = NoBlock
  <2>1. life[q].after = block BY <1>1, <1>2 DEF IInv, LifeInv
  <2> QED BY <1>2, <2>1 DEF Leaves
<1>4. life[q].stage \in {"waiting", "fenced", "converged"} =>
        /\ v \in drained
        /\ v \notin life[q].writes => ExclusionFree(v, life[q].before[v].exclusion)
        /\ v \notin life[q].turns => ~HasTurns(v)
  BY <1>2 DEF IInv, WaitInv
<1>5. q # t => life[q].stage \in {"waiting", "fenced", "converged"} /\ life'[q] = life[q]
  BY <1>0
<1>6. CASE Retire(t)
  <2>1. CASE q = t
    <3>1. v \in Retired(t) BY <1>2, <2>1 DEF Leaves
    <3>2. life'[t].writes = Retired(t) /\ life'[t].turns = Retired(t) /\ v \in drained'
      BY <1>0, <1>6, <3>1 DEF Retire, Life
    <3> QED BY <2>1, <3>1, <3>2
  <2>2. CASE q # t
    <3>1. drained \subseteq drained' /\ pending' \subseteq pending /\ UNCHANGED <<turn, writer>>
      BY <1>6 DEF Retire
    <3>2. Stays(v) BY <3>1, Idle
    <3> QED BY <1>1, <1>4, <1>5, <2>2, <3>1, <3>2, StaysFree DEF Stays
  <2> QED BY <2>1, <2>2
<1>7. CASE (\E u \in Vault : PassWrites(t, u) \/ PassTurns(t, u)) \/ Fence(t)
  <2>1. UNCHANGED <<drained, pending, turn, writer>>
    BY <1>7 DEF PassWrites, PassTurns, Fence, background
  <2>2. life[t].stage = "waiting" BY <1>7 DEF PassWrites, PassTurns, Fence
  <2>3. v \in drained BY <1>4, <1>5, <2>2
  <2>4. v \notin life'[q].writes => v \notin life[q].writes \/ ExclusionFree(v, life[q].before[v].exclusion)
    BY <1>0, <1>5, <1>7, LifeTypes DEF PassWrites, PassTurns, Fence, Life
  <2>5. v \notin life'[q].turns => v \notin life[q].turns \/ ~HasTurns(v)
    BY <1>0, <1>5, <1>7, LifeTypes DEF PassWrites, PassTurns, Fence, Life
  <2>6. /\ v \notin life'[q].writes => ExclusionFree(v, life[q].before[v].exclusion)
        /\ v \notin life'[q].turns => ~HasTurns(v)
    BY <1>4, <1>5, <2>2, <2>4, <2>5
  <2>7. Stays(v) BY <2>1, Idle
  <2> QED BY <1>1, <2>1, <2>3, <2>6, <2>7, StaysFree DEF Stays
<1>8. CASE Converge(t)
  <2>1. UNCHANGED <<drained, pending, writer>> BY <1>8 DEF Converge
  <2>2. \A k \in TurnKind : /\ turn[<<v, k>>] = NoTurn => turn'[<<v, k>>] = NoTurn
                            /\ turn'[<<v, k>>].stage = turn[<<v, k>>].stage
                            /\ turn'[<<v, k>>].on = turn[<<v, k>>].on
    <3> SUFFICES ASSUME NEW k \in TurnKind
                 PROVE  /\ turn[<<v, k>>] = NoTurn => turn'[<<v, k>>] = NoTurn
                        /\ turn'[<<v, k>>].stage = turn[<<v, k>>].stage
                        /\ turn'[<<v, k>>].on = turn[<<v, k>>].on
      OBVIOUS
    <3>1. turn[<<v, k>>] \in Turn /\ <<v, k>> \in Vault \X TurnKind BY TurnRecords DEF IInv
    <3>2. turn'[<<v, k>>] \in {turn[<<v, k>>], [turn[<<v, k>>] EXCEPT !.current = FALSE]}
      BY <1>8, <3>1 DEF Converge
    <3>3. turn[<<v, k>>] = NoTurn => turn[<<v, k>>].current = FALSE BY DEF NoTurn
    <3> QED BY <3>1, <3>2, <3>3 DEF Turn
  <2>3. life'[q].writes = life[q].writes /\ life'[q].turns = life[q].turns
        /\ life[q].stage \in {"waiting", "fenced", "converged"}
    BY <1>0, <1>5, <1>8 DEF Converge, Life
  <2>4. Stays(v) BY <2>1, <2>2, Idle
  <2> QED BY <1>1, <1>4, <2>1, <2>3, <2>4, StaysFree DEF Stays
<1>9. CASE Activate(t)
  <2>1. q # t BY <1>0, <1>9, LifeTypes DEF Activate
  <2>2. life[t].after = block BY <1>9 DEF IInv, LifeInv, Activate, Acting, Locked
  <2>3. life[t].after[v] = NoBlock BY <1>3, <2>2
  <2>4. /\ v \in drained => v \in drained'
        /\ \A k \in TurnKind : <<v, k>> \in pending' => <<v, k>> \in pending
        /\ UNCHANGED <<turn, writer>>
    BY <1>9, <2>3 DEF Activate, Built
  <2>5. Stays(v) BY <2>4, Idle
  <2> QED BY <1>1, <1>4, <1>5, <2>1, <2>4, <2>5, StaysFree DEF Stays
<1> QED BY <1>6, <1>7, <1>8, <1>9 DEF Continues

LEMMA ContinuesKeeps ==
  ASSUME IInv, NEW t \in Task, Continues(t)
  PROVE  LifeInv' /\ NewestInv' /\ BlockInv' /\ DrainInv'
<1>0. /\ UNCHANGED <<revision, registry, installed, block, spawned>> /\ life \in [Task -> Life]
      /\ \A p \in Task \ {t} : life'[p] = life[p]
      /\ \/ life'[t] = Over
         \/ /\ life'[t].stage \in Acting \ {"installed"}
            /\ \A f \in {"revision", "from", "before", "after"} : life'[t][f] = life[t][f]
      /\ life[t].stage \in Acting /\ t <= spawned
      /\ life'[t].stage \in Locked <=> phase' = t
      /\ \A q \in Task \ {t} : phase' = q <=> phase = q
      /\ Over.stage = "done" /\ Over.revision = 0
  BY ContinuesEffect, LifeTypes DEF IInv, Types, Collected
<1>1. /\ life'[t].stage \in {"done", "waiting", "fenced", "converged"}
      /\ life'[t].stage # "done" =>
           life'[t].revision = life[t].revision /\ life'[t].after = life[t].after
  BY <1>0 DEF Acting, Locked
<1>2. /\ life[t].revision <= installed /\ life[t].revision # 0
      /\ life[t].stage \in Locked => life[t].revision = installed
      /\ life[t].revision = installed => life[t].after = block
      /\ life[t].stage \in {"fenced", "converged"} => life[t].writes = {} /\ life[t].turns = {}
  BY <1>0 DEF IInv, LifeInv
<1>3. /\ life'[t].stage \in Locked => life'[t].revision = installed
      /\ life'[t].stage \in {"fenced", "converged"} => life'[t].writes = {} /\ life'[t].turns = {}
  <2>1. CASE Retire(t) \/ \E v \in Vault : PassWrites(t, v) \/ PassTurns(t, v)
    <3>1. life'[t].stage = "waiting"
      BY <1>0, <2>1 DEF Retire, PassWrites, PassTurns, Life
    <3> QED BY <3>1 DEF Locked
  <2>2. CASE Fence(t)
    BY <1>0, <2>2, LifeTypes DEF Fence, Life, Locked
  <2>3. CASE Converge(t)
    BY <1>0, <1>2, <2>3 DEF Converge, Life, Locked
  <2>4. CASE Activate(t)
    BY <1>0, <2>4 DEF Activate, Locked
  <2> QED BY <2>1, <2>2, <2>3, <2>4 DEF Continues
<1>4. LifeInv'
  <2> SUFFICES ASSUME NEW q \in Task PROVE
         /\ life'[q].stage # "none" => q <= spawned'
         /\ life'[q].stage \in Locked <=> phase' = q
         /\ life'[q].stage = "spawned" => life'[q].revision \in 1 .. revision'
         /\ life'[q].stage \in Acting => life'[q].revision <= installed' /\ life'[q].revision # 0
         /\ life'[q].stage \in Locked => life'[q].revision = installed'
         /\ life'[q].stage \in Acting /\ life'[q].revision = installed' => life'[q].after = block'
         /\ life'[q].stage \in {"fenced", "converged"} => life'[q].writes = {} /\ life'[q].turns = {}
    BY DEF LifeInv
  <2>1. CASE q = t BY <1>0, <1>1, <1>2, <1>3, <2>1 DEF Acting, Locked
  <2>2. CASE q # t BY <1>0, <2>2 DEF IInv, LifeInv
  <2> QED BY <2>1, <2>2
<1>5. NewestInv' BY <1>0 DEF IInv, NewestInv, Acting, Locked
<1>6. BlockInv' BY <1>0 DEF IInv, BlockInv, Enabled
<1>7. DrainInv'
  <2>1. CASE life[t].revision = installed /\ ~Activate(t)
    <3>1. life'[t].stage \in Acting
      <4>1. life'[t] # Over
        BY <1>0, <2>1, LifeTypes
           DEF Continues, Retire, PassWrites, PassTurns, Fence, Converge, Life
      <4> QED BY <1>0, <4>1
    <3>2. life'[t].revision = installed BY <1>0, <1>1, <2>1, <3>1 DEF Acting, Locked
    <3> QED BY <1>0, <3>1, <3>2 DEF DrainInv
  <2>2. CASE Activate(t)
    <3>1. life[t].after = block BY <1>2, <2>2 DEF Activate, Locked
    <3>2. \A v \in Vault : v \in drained' => block[v] = NoBlock BY <2>2, <3>1 DEF Activate
    <3>3. drained' \subseteq Vault BY <2>2 DEF Activate, IInv, Types, Worked
    <3> QED BY <1>0, <3>2, <3>3 DEF DrainInv
  <2>3. CASE life[t].revision # installed
    <3>1. drained' = drained
      <4>1. life[t].stage \notin Locked BY <1>2, <2>3
      <4> QED BY <4>1 DEF Continues, Retire, PassWrites, PassTurns, Fence, Converge, Activate,
                          background, Locked
    <3> QED BY <1>0, <2>3, <3>1 DEF IInv, DrainInv
  <2> QED BY <2>1, <2>2, <2>3
<1> QED BY <1>4, <1>5, <1>6, <1>7

(***************************************************************************)
(* For every instance                                                      *)
(***************************************************************************)
LEMMA Inductive == Spec => []IInv
<1>1. IInv /\ [Next]_vars => IInv'
  <2> SUFFICES ASSUME IInv, [Next]_vars PROVE IInv' OBVIOUS
  <2>1. CASE Retry \/ \E v \in Vault : Mutates(v)
    <3>1. Spawns BY <2>1, SpawnEffect DEF IInv
    <3> QED BY <3>1, SpawnTypes, SpawnKeeps DEF IInv
  <2>2. CASE \E t \in Task : Reconcile(t)
    BY <2>2, ReconcileTypes, ReconcileKeeps DEF IInv
  <2>3. CASE \E t \in Task : Continues(t)
    BY <2>3, ContinuesTypes, ContinuesWait, ContinuesKeeps DEF IInv
  <2>4. CASE WorkStep BY <2>4, WorkTypes, WorkKeeps DEF IInv
  <2> QED BY <2>1, <2>2, <2>3, <2>4, Steps
<1> QED BY <1>1, InitIInv, PTL DEF Spec

LEMMA IInvIsTypeOK == IInv => TypeOK
<1> SUFFICES ASSUME IInv PROVE TypeOK OBVIOUS
<1>1. \A t \in Task : /\ life[t].stage \in Stage
                      /\ life[t].stage \in {"installed", "fenced", "converged"} <=> phase = t
  BY DEF IInv, Types, Collected, Life, LifeInv, Locked
<1> QED BY <1>1 DEF IInv, Types, Counters, Collected, Worked, Around, Registry, Blocks, Stage, TypeOK

\* BoundaryHolds holds in every behaviour: whatever overlaps, a lifecycle past its fence
\* (reconcile_and_reconstruct after reacquiring the phase lock) finds nothing queued, nothing running and
\* nobody in the exclusion of a Vault it retired, since it drained it and the
\* revoked block admits nobody after that.
THEOREM BoundariesHold == Spec => []BoundaryHolds
<1>1. IInv => BoundaryHolds
  <2> SUFFICES ASSUME IInv, NEW t \in Task, life[t].stage \in {"fenced", "converged"},
                      NEW v \in Retired(t), life[t].after[v] = NoBlock
               PROVE  ~HasTurns(v) /\ ExclusionFree(v, life[t].before[v].exclusion)
    BY IInvIsTypeOK DEF BoundaryHolds
  <2>1. Leaves(t, v) /\ v \in Vault BY DEF Leaves, Retired
  <2>2. life[t].revision = installed /\ life[t].writes = {} /\ life[t].turns = {}
    BY DEF IInv, LifeInv, Locked
  <2> QED BY <2>1, <2>2 DEF IInv, WaitInv
<1> QED BY <1>1, Inductive, PTL

\* What ConvergesOnNewest says, except of the queue.
CollectionConverges ==
  Settled =>
    /\ installed = revision
    /\ \A v \in Vault : block[v] # NoBlock <=> v \in Enabled(revision)
    /\ \A v \in Enabled(revision) : block[v].edition = registry[revision][v].edition
    /\ drained \cap Enabled(revision) = {}

LEMMA IInvConverges == IInv => CollectionConverges
<1> SUFFICES ASSUME IInv, Settled PROVE CollectionConverges BY DEF CollectionConverges
<1>1. \A t \in Task : life[t].stage \in {"none", "done"}
  <2> SUFFICES ASSUME NEW t \in Task, life[t].stage # "none" PROVE life[t].stage = "done" OBVIOUS
  <2>1. t <= spawned /\ spawned \in Nat /\ t \in 1 .. spawned
    BY Constants DEF IInv, LifeInv, Types, Counters, Task
  <2> QED BY <2>1 DEF Settled
<1>2. installed = revision BY <1>1 DEF IInv, NewestInv
<1>3. revision # 0 /\ Enabled(revision) \subseteq Vault
  BY Constants DEF IInv, Types, Counters, Enabled
<1>4. \A v \in drained : block[v] = NoBlock BY <1>1 DEF IInv, DrainInv, Acting, Locked
<1>5. \A v \in Vault : block[v] # NoBlock <=> v \in Enabled(revision)
  BY <1>2, <1>3 DEF IInv, BlockInv
<1>6. \A v \in Enabled(revision) : block[v].edition = registry[revision][v].edition
  BY <1>2, <1>3, <1>5 DEF IInv, BlockInv
<1> QED BY <1>2, <1>3, <1>4, <1>5, <1>6 DEF CollectionConverges

\* However many lifecycles overlap, and in whatever order they run: once they are over the
\* collection is the registry's newest revision, and no enabled Vault is left drained.
THEOREM CollectionFollows == Spec => []CollectionConverges
BY Inductive, IInvConverges, PTL

(***************************************************************************)
(* The queue, when no Vault is managed                                     *)
(***************************************************************************)
LEMMA WorkUnasked ==
  ASSUME Types, Managed = {}, WorkStep, NEW v \in Vault, block[v] = NoBlock, Unasked(v)
  PROVE  Unasked(v)'
<1>0. drained' = drained /\ control = {} BY WorkLeaves DEF Types, Worked
<1>1. CASE v \in drained
  BY <1>0, <1>1, NothingNewQueued DEF Unasked
<1>2. CASE v \notin drained
  <2>1. /\ \A k \in TurnKind : turn[<<v, k>>] = NoTurn /\ <<v, k>> \notin pending
        /\ \A w \in Writer : writer[w] # NoWrite => writer[w].vault # v
    BY <1>2 DEF Unasked
  <2>2. /\ \A k \in TurnKind : turn'[<<v, k>>] = NoTurn
        /\ \A w \in Writer : writer'[w] # NoWrite => writer'[w].vault # v
    BY <2>1, NoTurnBegins, NoWriteBegins
  <2>3. \A k \in TurnKind : <<v, k>> \notin pending'
    <3> SUFFICES ASSUME NEW k \in TurnKind, <<v, k>> \in pending' PROVE FALSE OBVIOUS
    <3>1. \A u, l : u # v => (<<v, k>> \in Requested(u, l) => <<v, k>> \in pending)
      BY DEF Requested
    <3>2. ASSUME NEW u \in Vault, CheckControl(u) \/ \E t \in 0 .. spawned : SyncNow(u, t)
          PROVE  FALSE
      BY <1>0, <3>2 DEF CheckControl, SyncNow
    <3>3. ASSUME NEW u \in Vault, NEW l \in TurnKind, TurnStep(u, l)
          PROVE  <<v, k>> \in pending
      <4>1. turn[<<v, "Git">>] = NoTurn /\ NoTurn.stage = "none"
        BY <2>1 DEF NoTurn, TurnKind
      <4>2. l = "Git" /\ FinishGitTurn(u) => u # v BY <4>1 DEF FinishGitTurn
      <4> QED BY <3>1, <3>3, <4>2
           DEF TurnStep, StartTurn, TurnTakesGuard, ReleaseReads, Publish, FinishGitTurn
    <3>4. ASSUME NEW u \in Vault, NEW w \in Writer, OpenWrite(w, u) PROVE <<v, k>> \in pending
      BY <3>4 DEF OpenWrite, background
    <3>5. ASSUME NEW w \in Writer, WriteStep(w) PROVE <<v, k>> \in pending
      <4>1. CASE TakeWriteGuard(w) BY <4>1 DEF TakeWriteGuard, background
      <4>2. CASE FinishWrite(w)
        <5>1. writer[w].vault # v BY <2>1, <4>2 DEF FinishWrite, NoWrite
        <5> QED BY <3>1, <4>2, <5>1 DEF FinishWrite
      <4> QED BY <3>5, <4>1, <4>2 DEF WriteStep
    <3> QED BY <2>1, <3>2, <3>3, <3>4, <3>5 DEF WorkStep, WorkOf, vars, background
  <2> QED BY <2>2, <2>3 DEF Unasked
<1> QED BY <1>1, <1>2

LEMMA QueueKept ==
  ASSUME IInv, QueueInv, Managed = {}, [Next]_vars
  PROVE  QueueInv'
<1> SUFFICES ASSUME NEW v \in Vault, block'[v] = NoBlock
             PROVE  Unasked(v)' \/ \E t \in Task : life'[t].stage = "installed" /\ Leaves(t, v)'
  BY DEF QueueInv
<1>1. ASSUME NEW q \in Task, life'[q] = life[q], life[q].stage = "installed", Leaves(q, v)
      PROVE  life'[q].stage = "installed" /\ Leaves(q, v)'
  BY <1>1 DEF Leaves, Retired
<1>2. CASE Retry \/ \E u \in Vault : Mutates(u)
  <2>1. Spawns BY <1>2, SpawnEffect DEF IInv
  <2>2. CASE Unasked(v) BY <2>1, <2>2 DEF Spawns, Unasked
  <2>3. CASE \E q \in Task : life[q].stage = "installed" /\ Leaves(q, v)
    <3>1. PICK q \in Task : life[q].stage = "installed" /\ Leaves(q, v) BY <2>3
    <3>2. life[spawned'].stage = "none"
      BY <2>1, Constants DEF Spawns, IInv, LifeInv, Types, Counters
    <3>3. life'[q] = life[q] BY <2>1, <3>1, <3>2 DEF Spawns, IInv, Types, Collected
    <3> QED BY <1>1, <3>1, <3>3
  <2> QED BY <2>1, <2>2, <2>3 DEF QueueInv, Spawns
<1>3. CASE \E t \in Task : Reconcile(t)
  <2>1. PICK t \in Task : Reconcile(t) BY <1>3
  <2>2. /\ UNCHANGED <<background, writer>> /\ \A q \in Task : life[q].stage \notin Locked
        /\ \/ UNCHANGED block
           \/ /\ life'[t].stage = "installed" /\ life'[t].before = block /\ life'[t].after = block'
    BY <2>1, ReconcileEffect
  <2>3. CASE block[v] = NoBlock
    <3>1. Unasked(v) BY <2>2, <2>3 DEF QueueInv, Locked
    <3> QED BY <2>2, <3>1 DEF Unasked, background
  <2>4. CASE block[v] # NoBlock
    <3>1. life'[t].stage = "installed" /\ Leaves(t, v)'
      BY <2>2, <2>4 DEF Leaves, Retired
    <3> QED BY <3>1
  <2> QED BY <2>3, <2>4
<1>4. CASE \E t \in Task : Continues(t)
  <2>1. PICK t \in Task : Continues(t) BY <1>4
  <2>2. /\ block' = block /\ writer' = writer /\ \A q \in Task \ {t} : life'[q] = life[q]
    BY <2>1, ContinuesEffect DEF IInv
  <2>3. CASE \E q \in Task \ {t} : life[q].stage = "installed" /\ Leaves(q, v)
    BY <1>1, <2>2, <2>3
  <2>4. CASE life[t].stage = "installed" /\ Leaves(t, v)
    <3>1. Retire(t)
      BY <2>1, <2>4 DEF Continues, Fence, Converge, Activate, PassWrites, PassTurns
    <3>2. v \in drained' /\ \A k \in TurnKind : <<v, k>> \notin pending'
      BY <2>4, <3>1 DEF Retire, Leaves
    <3> QED BY <3>2 DEF Unasked
  <2>5. CASE Unasked(v)
    <3>1. CASE Activate(t)
      <4>1. life[t].after[v] = NoBlock
        BY <2>2, <3>1 DEF IInv, LifeInv, Activate, Acting, Locked
      <4> QED BY <2>2, <2>5, <3>1, <4>1 DEF Activate, Built, Unasked
    <3>2. CASE Retire(t)
      BY <2>2, <2>5, <3>2 DEF Retire, Unasked
    <3>3. CASE Converge(t)
      <4>1. \A k \in TurnKind : turn[<<v, k>>] = NoTurn => turn'[<<v, k>>] = NoTurn
        <5> SUFFICES ASSUME NEW k \in TurnKind, turn[<<v, k>>] = NoTurn PROVE turn'[<<v, k>>] = NoTurn
          OBVIOUS
        <5>1. turn[<<v, k>>] \in Turn /\ <<v, k>> \in Vault \X TurnKind BY TurnRecords DEF IInv
        <5>2. turn'[<<v, k>>] \in {turn[<<v, k>>], [turn[<<v, k>>] EXCEPT !.current = FALSE]}
          BY <3>3, <5>1 DEF Converge
        <5>3. turn[<<v, k>>].current = FALSE BY DEF NoTurn
        <5>4. [turn[<<v, k>>] EXCEPT !.current = FALSE] = turn[<<v, k>>] BY <5>1, <5>3 DEF Turn
        <5> QED BY <5>2, <5>4
      <4> QED BY <2>2, <2>5, <3>3, <4>1 DEF Converge, Unasked
    <3>4. CASE Fence(t) \/ \E u \in Vault : PassWrites(t, u) \/ PassTurns(t, u)
      BY <2>2, <2>5, <3>4 DEF Fence, PassWrites, PassTurns, background, Unasked
    <3> QED BY <2>1, <3>1, <3>2, <3>3, <3>4 DEF Continues
  <2> QED BY <2>2, <2>3, <2>4, <2>5 DEF QueueInv
<1>5. CASE WorkStep
  <2>1. life' = life /\ block' = block BY <1>5, WorkLeaves DEF collection
  <2>2. CASE Unasked(v) BY <1>5, <2>1, <2>2, WorkUnasked DEF IInv
  <2>3. CASE \E q \in Task : life[q].stage = "installed" /\ Leaves(q, v)
    BY <1>1, <2>1, <2>3
  <2> QED BY <2>1, <2>2, <2>3 DEF QueueInv
<1> QED BY <1>2, <1>3, <1>4, <1>5, Steps

\* ConvergesOnNewest, when no Vault is managed (a manual sync asks for a turn without a look at the
\* collection): in the end nothing is queued for a Vault that the newest revision does not have enabled.
THEOREM Converges ==
  ASSUME Managed = {}
  PROVE  Spec => []ConvergesOnNewest
<1>1. Init => QueueInv
  BY DEF Init, QueueInv, Unasked, NoTurn, NoWrite
<1>2. IInv /\ QueueInv /\ [Next]_vars => QueueInv' BY QueueKept
<1>3. IInv /\ QueueInv => ConvergesOnNewest
  <2> SUFFICES ASSUME IInv, QueueInv, Settled, NEW p \in pending PROVE p[1] \in Enabled(revision)
    BY IInvConverges DEF ConvergesOnNewest, CollectionConverges
  <2>1. PICK v \in Vault, k \in TurnKind : p = <<v, k>> BY DEF IInv, Types, Worked
  <2>2. \A t \in Task : life[t].stage # "installed"
    <3> SUFFICES ASSUME NEW t \in Task, life[t].stage = "installed" PROVE FALSE OBVIOUS
    <3>1. t <= spawned /\ spawned \in Nat /\ t \in 1 .. spawned
      BY Constants DEF IInv, LifeInv, Types, Counters, Task
    <3> QED BY <3>1 DEF Settled
  <2>3. block[v] # NoBlock BY <2>1, <2>2 DEF QueueInv, Unasked
  <2> QED BY <2>1, <2>3, IInvConverges DEF CollectionConverges
<1> QED BY <1>1, <1>2, <1>3, Inductive, PTL DEF Spec

(***************************************************************************)
(* One request at a time: a client commits once the last one is answered   *)
(***************************************************************************)
Resting == {"none", "done", "converged"}
Retiring == {"installed", "waiting", "fenced"}
Quiet(t) == \A q \in Task \ {t} : life[q].stage \in Resting

\* One lifecycle at a time is unanswered, and it carries the newest revision.  A control past its
\* enabled check finds the Vault still enabled.
OrderInv ==
  /\ \A t \in Task : life[t].stage = "spawned" => Quiet(t) /\ life[t].revision = revision
  /\ \A t \in Task : life[t].stage \in Retiring =>
       life[t].revision = installed /\ \A q \in Task \ {t} : life[q].stage \in {"none", "done"}
  /\ \A c \in control : c[1] \in Enabled(revision) /\ Quiet(c[2])

LEMMA AllAnswered ==
  ASSUME IInv, \A t \in 1 .. spawned : Answered(t)
  PROVE  \A t \in Task : life[t].stage \in Resting
<1> SUFFICES ASSUME NEW t \in Task, life[t].stage # "none" PROVE life[t].stage \in Resting
  BY DEF Resting
<1>1. t \in 1 .. spawned BY Constants DEF IInv, LifeInv, Types, Counters
<1> QED BY <1>1 DEF Answered, Resting

LEMMA SpawnsInOrder ==
  ASSUME IInv, ~Overlap, Retry \/ \E v \in Vault : Mutates(v)
  PROVE  /\ control = {} /\ \A t \in Task : life[t].stage \in Resting
         /\ \A c \in control' : c[1] \in Enabled(revision)' /\ c[2] = spawned'
<1>0. /\ spawned \in Nat /\ revision \in Revision /\ registry \in Registry
      /\ \A n \in Task : n \in Nat
  BY Constants DEF IInv, Types, Counters, Collected
<1>1. CASE Retry
  BY <1>1, AllAnswered DEF Retry, Spawn
<1>2. CASE \E v \in Vault : Mutates(v)
  <2>1. PICK v \in Vault : Mutates(v) BY <1>2
  <2>2. PICK d : Commit(v, d)
    BY <2>1 DEF Mutates, Create, Edit, EditCredentials, SetEnabled, Disconnect
  <2>3. /\ control = {} /\ \A t \in Task : life[t].stage \in Resting
        /\ spawned' = spawned + 1 /\ revision' = revision + 1
    BY <2>2, AllAnswered DEF Commit, Spawn
  <2>4. ASSUME NEW c \in control' PROVE c[1] \in Enabled(revision)' /\ c[2] = spawned'
    <3>1. EditCredentials(v)
      BY <2>1, <2>3, <2>4 DEF Mutates, Create, Edit, SetEnabled, Disconnect
    <3>2. v \in Enabled(revision) /\ c = <<v, spawned + 1>> BY <2>3, <2>4, <3>1 DEF EditCredentials
    <3>3. /\ registry' = [registry EXCEPT ![revision + 1] =
                            [registry[revision] EXCEPT ![v] = registry[revision][v]]]
          /\ revision + 1 \in Revision
      <4>1. spawned + 1 \in Task
        <5>1. spawned < MaxLifecycle BY <2>2 DEF Commit, Spawn
        <5> QED BY <1>0, <5>1, Constants DEF Task
      <4>2. revision <= spawned BY DEF IInv, Types, Counters
      <4>3. revision + 1 \in Revision BY <1>0, <4>1, <4>2, Constants DEF Task, Revision
      <4> QED BY <3>1, <4>3 DEF EditCredentials, Commit
    <3>4. registry'[revision'][v] = registry[revision][v]
      BY <1>0, <2>3, <3>3 DEF Registry
    <3> QED BY <2>3, <3>2, <3>4 DEF Enabled
  <2> QED BY <2>3, <2>4
<1> QED BY <1>1, <1>2

LEMMA OrderKept ==
  ASSUME IInv, OrderInv, ~Overlap, [Next]_vars
  PROVE  OrderInv'
<1>0. life \in [Task -> Life] BY DEF IInv, Types, Collected
<1>1. CASE Retry \/ \E v \in Vault : Mutates(v)
  <2>1. Spawns BY <1>1, SpawnEffect DEF IInv
  <2>2. /\ control = {} /\ \A t \in Task : life[t].stage \in Resting
        /\ \A c \in control' : c[1] \in Enabled(revision)' /\ c[2] = spawned'
    BY <1>1, SpawnsInOrder
  <2>3. /\ life'[spawned'].stage = "spawned" /\ life'[spawned'].revision = revision'
        /\ \A q \in Task \ {spawned'} : life'[q] = life[q]
    BY <1>0, <2>1, LifeTypes DEF Spawns
  <2> QED BY <2>2, <2>3 DEF OrderInv, Quiet, Resting, Retiring
<1>2. CASE \E t \in Task : Reconcile(t)
  <2>1. PICK t \in Task : Reconcile(t) BY <1>2
  <2>2. /\ UNCHANGED <<revision, registry, control>> /\ life[t].stage = "spawned"
        /\ \A q \in Task : life[q].stage \notin Locked
        /\ \A q \in Task \ {t} : life'[q] = life[q]
        /\ \/ life[t].revision < installed
           \/ life'[t].stage = "installed" /\ life'[t].revision = installed'
    BY <2>1, ReconcileEffect DEF background
  <2>3. Quiet(t) /\ life[t].revision = revision BY <2>2 DEF OrderInv
  <2>4. life'[t].stage = "installed" /\ life'[t].revision = installed'
    <3>1. installed <= revision /\ revision \in Nat /\ installed \in Nat
      BY Constants DEF IInv, Types, Counters
    <3> QED BY <2>2, <2>3, <3>1
  <2>5. \A q \in Task \ {t} : life'[q].stage \in {"none", "done"}
    BY <2>2, <2>3 DEF Quiet, Resting, Locked
  <2>6. \A c \in control' : c[1] \in Enabled(revision)' /\ Quiet(c[2])'
    <3> SUFFICES ASSUME NEW c \in control PROVE c[1] \in Enabled(revision)' /\ Quiet(c[2])'
      BY <2>2
    <3>1. c[1] \in Enabled(revision) /\ Quiet(c[2]) BY DEF OrderInv
    <3>2. c[2] = t BY <2>2, <3>1 DEF Quiet, Resting
    <3> QED BY <2>2, <2>5, <3>1, <3>2 DEF Enabled, Quiet, Resting
  <2> QED BY <2>4, <2>5, <2>6 DEF OrderInv, Retiring
<1>3. CASE \E t \in Task : Continues(t)
  <2>1. PICK t \in Task : Continues(t) BY <1>3
  <2>2. /\ UNCHANGED <<revision, registry, installed, control>> /\ life[t].stage \in Acting
        /\ \A q \in Task \ {t} : life'[q] = life[q]
        /\ \/ life'[t] = Over
           \/ life'[t].stage \in Acting \ {"installed"} /\ life'[t].revision = life[t].revision
        /\ Over.stage = "done"
    BY <2>1, ContinuesEffect, LifeTypes DEF IInv
  <2>3. life[t].stage = "converged" => life'[t] = Over
    <3> SUFFICES ASSUME life[t].stage = "converged" PROVE Activate(t)
      BY <1>0 DEF Activate
    <3> QED BY <2>1 DEF Continues, Retire, Fence, Converge, PassWrites, PassTurns
  <2>4. Quiet(t) => \A q \in Task \ {t} : life'[q] = life[q] BY <2>2
  <2>5. ASSUME NEW q, q # t, Quiet(q) PROVE Quiet(q)'
    <3>1. life[t].stage \in Resting BY <2>5 DEF Quiet
    <3>2. life'[t].stage = "done" BY <2>2, <2>3, <3>1 DEF Resting, Acting, Locked
    <3> QED BY <2>2, <2>5, <3>2 DEF Quiet, Resting
  <2>6. Quiet(t) => Quiet(t)' BY <2>2 DEF Quiet
  <2>7. \A q \in Task : life'[q].stage = "spawned" => Quiet(q)' /\ life'[q].revision = revision'
    <3> SUFFICES ASSUME NEW q \in Task, life'[q].stage = "spawned"
                 PROVE  Quiet(q)' /\ life'[q].revision = revision'
      OBVIOUS
    <3>1. q # t BY <2>2 DEF Acting, Locked
    <3> QED BY <2>2, <2>5, <3>1 DEF OrderInv
  <2>8. \A q \in Task : life'[q].stage \in Retiring =>
          /\ life'[q].revision = installed'
          /\ \A p \in Task \ {q} : life'[p].stage \in {"none", "done"}
    <3> SUFFICES ASSUME NEW q \in Task, life'[q].stage \in Retiring
                 PROVE  /\ life'[q].revision = installed'
                        /\ \A p \in Task \ {q} : life'[p].stage \in {"none", "done"}
      OBVIOUS
    <3>1. CASE q = t
      <4>1. life[t].stage \in Retiring /\ life'[t].revision = life[t].revision
        BY <2>2, <2>3, <3>1 DEF Retiring, Acting, Locked
      <4> QED BY <2>2, <3>1, <4>1 DEF OrderInv
    <3>2. CASE q # t
      <4>1. life[t].stage \in {"none", "done"} BY <2>2, <3>2 DEF OrderInv
      <4> QED BY <2>2, <4>1 DEF Acting, Locked
    <3> QED BY <3>1, <3>2
  <2>9. \A c \in control' : c[1] \in Enabled(revision)' /\ Quiet(c[2])'
    <3> SUFFICES ASSUME NEW c \in control PROVE c[1] \in Enabled(revision)' /\ Quiet(c[2])'
      BY <2>2
    <3>1. c[1] \in Enabled(revision) /\ Quiet(c[2]) BY DEF OrderInv
    <3>2. Quiet(c[2])'
      <4>1. CASE c[2] = t BY <2>2, <3>1, <4>1 DEF Quiet
      <4>2. CASE c[2] # t
        <5>1. life[t].stage \in Resting BY <3>1, <4>2 DEF Quiet
        <5>2. life'[t].stage = "done" BY <2>2, <2>3, <5>1 DEF Resting, Acting, Locked
        <5> QED BY <2>2, <3>1, <5>2 DEF Quiet, Resting
      <4> QED BY <4>1, <4>2
    <3> QED BY <2>2, <3>1, <3>2 DEF Enabled
  <2> QED BY <2>7, <2>8, <2>9 DEF OrderInv
<1>4. CASE WorkStep
  <2>1. UNCHANGED <<revision, registry, installed, life, spawned>> BY <1>4, WorkLeaves DEF collection
  <2>2. \A c \in control' : c \in control \/ (c[1] \in Enabled(revision) /\ Quiet(c[2]))
    <3>1. ASSUME NEW v \in Vault, CheckControl(v), NEW c \in control', c \notin control
          PROVE  c[1] \in Enabled(revision) /\ Quiet(c[2])
      <4>1. c = <<v, 0>> /\ v \in Enabled(revision) /\ \A t \in 1 .. spawned : Answered(t)
        BY <3>1 DEF CheckControl
      <4> QED BY <4>1, AllAnswered DEF Quiet
    <3>2. (\A v \in Vault : ~CheckControl(v)) => control' \subseteq control
      BY <1>4 DEF WorkStep, WorkOf, SyncNow, TurnStep, StartTurn, TurnTakesGuard, ReleaseReads,
                  Publish, FinishGitTurn, OpenWrite, WriteStep, TakeWriteGuard, FinishWrite,
                  vars, background
    <3> QED BY <3>1, <3>2
  <2> QED BY <2>1, <2>2 DEF OrderInv, Quiet, Enabled
<1> QED BY <1>1, <1>2, <1>3, <1>4, Steps

(***************************************************************************)
(* One holder at a time                                                    *)
(***************************************************************************)
Held == {"reading", "working"}

\* At most one turn or write holds an exclusion of the Vault.
Alone(v) ==
  /\ \A k, l \in HoldingTurns(v) : k = l
  /\ \A a, b \in HoldingWrites(v) : a = b
  /\ HoldingTurns(v) = {} \/ HoldingWrites(v) = {}

\* Everybody who holds an exclusion of the Vault holds its block's, or that of the block that a
\* lifecycle has retired and still waits for.
Waits(t, v) ==
  /\ Leaves(t, v)
  /\ \/ life[t].stage = "installed"
     \/ life[t].stage = "waiting" /\ v \in life[t].writes
HeldInv ==
  \A v \in Vault :
    /\ Alone(v)
    /\ \A x \in Upto : ~ExclusionFree(v, x) =>
         \/ block[v] # NoBlock /\ x = block[v].exclusion
         \/ block[v] = NoBlock /\ \E t \in Task : Waits(t, v) /\ life[t].before[v].exclusion = x

\* Nobody takes an exclusion of the Vault.
NoneTakes(v) ==
  /\ \A k \in TurnKind : turn'[<<v, k>>].stage \in Held =>
       turn[<<v, k>>].stage \in Held /\ turn'[<<v, k>>].on = turn[<<v, k>>].on
  /\ \A w \in Writer : writer'[w].stage = "writing" /\ writer'[w].vault = v =>
       writer[w].stage = "writing" /\ writer[w].vault = v /\ writer'[w].on = writer[w].on

LEMMA NoneTakesKeeps ==
  ASSUME NEW v, NoneTakes(v)
  PROVE  /\ HoldingTurns(v)' \subseteq HoldingTurns(v)
         /\ HoldingWrites(v)' \subseteq HoldingWrites(v)
         /\ Alone(v) => Alone(v)'
         /\ \A x : ExclusionFree(v, x) => ExclusionFree(v, x)'
<1>1. /\ HoldingTurns(v)' \subseteq HoldingTurns(v)
      /\ HoldingWrites(v)' \subseteq HoldingWrites(v)
  BY DEF NoneTakes, HoldingTurns, HoldingWrites, Held
<1>2. Alone(v) => Alone(v)' BY <1>1 DEF Alone
<1>3. ASSUME NEW x, ExclusionFree(v, x) PROVE ExclusionFree(v, x)'
  <2>1. /\ \A k \in TurnKind : turn[<<v, k>>].stage \in Held => turn[<<v, k>>].on.exclusion # x
        /\ \A w \in Writer : writer[w].stage = "writing" /\ writer[w].vault = v =>
             writer[w].on.exclusion # x
    BY <1>3 DEF ExclusionFree, HoldingTurns, HoldingWrites, Held
  <2>2. /\ \A k \in TurnKind : turn'[<<v, k>>].stage \in Held => turn'[<<v, k>>].on.exclusion # x
        /\ \A w \in Writer : writer'[w].stage = "writing" /\ writer'[w].vault = v =>
             writer'[w].on.exclusion # x
    BY <2>1 DEF NoneTakes
  <2> QED BY <2>2 DEF ExclusionFree, HoldingTurns, HoldingWrites, Held
<1> QED BY <1>1, <1>2, <1>3

\* A turn or a write takes the exclusion of the Vault's block, which was free.
TurnTakes(v, k) ==
  /\ Accepting(v, turn'[<<v, k>>].on) /\ ExclusionFree(v, block[v].exclusion)
  /\ \A l \in TurnKind \ {k} : turn'[<<v, l>>] = turn[<<v, l>>]
  /\ writer' = writer
WriteTakes(v, w) ==
  /\ Accepting(v, writer'[w].on) /\ ExclusionFree(v, block[v].exclusion)
  /\ \A x \in Writer \ {w} : writer'[x] = writer[x]
  /\ turn' = turn

LEMMA TurnsTake ==
  ASSUME Types, NEW u \in Vault, NEW l \in TurnKind, TurnStep(u, l), NEW v \in Vault
  PROVE  NoneTakes(v) \/ \E k \in TurnKind : TurnTakes(v, k)
<1>0. /\ turn \in [Vault \X TurnKind -> Turn] /\ <<v, l>> \in Vault \X TurnKind
      /\ \A k \in TurnKind : <<v, k>> \in Vault \X TurnKind
      /\ NoTurn.stage = "none" /\ turn[<<v, l>>] \in Turn /\ {"Index", "Git"} = TurnKind
  BY TurnRecords DEF Types, Around, NoTurn
<1>1. writer' = writer
  BY DEF TurnStep, StartTurn, TurnTakesGuard, ReleaseReads, Publish, FinishGitTurn
<1>2. \A p \in Vault \X TurnKind : p # <<u, l>> => turn'[p] = turn[p]
  BY <1>0 DEF TurnStep, StartTurn, TurnTakesGuard, ReleaseReads, Publish, FinishGitTurn
<1>3. CASE u # v
  <2>1. \A k \in TurnKind : turn'[<<v, k>>] = turn[<<v, k>>] BY <1>0, <1>2, <1>3, Pairs
  <2> QED BY <1>1, <2>1 DEF NoneTakes
<1>4. CASE u = v
  <2>1. \A k \in TurnKind \ {l} : turn'[<<v, k>>] = turn[<<v, k>>] BY <1>0, <1>2, <1>4, Pairs
  <2>2. turn'[<<v, l>>].stage \notin Held => NoneTakes(v) BY <1>1, <2>1 DEF NoneTakes
  <2>3. CASE StartTurn(v, l)
    <3>1. turn'[<<v, l>>].stage \in {"none", "opened"} BY <1>0, <2>3 DEF StartTurn
    <3> QED BY <2>2, <3>1 DEF Held
  <2>4. CASE TurnTakesGuard(v, l)
    <3>1. CASE Accepting(v, turn[<<v, l>>].on)
      <4>1. turn'[<<v, l>>].on = turn[<<v, l>>].on BY <1>0, <2>4, <3>1 DEF TurnTakesGuard, Turn
      <4>2. ExclusionFree(v, block[v].exclusion) BY <2>4, <3>1 DEF TurnTakesGuard, Accepting
      <4> QED BY <1>1, <2>1, <3>1, <4>1, <4>2 DEF TurnTakes
    <3>2. CASE ~Accepting(v, turn[<<v, l>>].on)
      <4>1. turn'[<<v, l>>] = NoTurn BY <1>0, <2>4, <3>2 DEF TurnTakesGuard
      <4> QED BY <1>0, <2>2, <4>1 DEF Held
    <3> QED BY <3>1, <3>2
  <2>5. CASE l = "Index" /\ ReleaseReads(v)
    <3>1. turn'[<<v, l>>].stage = "embedding" BY <1>0, <2>5 DEF ReleaseReads, Turn
    <3> QED BY <2>2, <3>1 DEF Held
  <2>6. CASE (l = "Index" /\ Publish(v)) \/ (l = "Git" /\ FinishGitTurn(v))
    <3>1. turn'[<<v, l>>] = NoTurn BY <1>0, <2>6 DEF Publish, FinishGitTurn
    <3> QED BY <1>0, <2>2, <3>1 DEF Held
  <2> QED BY <1>4, <2>3, <2>4, <2>5, <2>6 DEF TurnStep
<1> QED BY <1>3, <1>4

LEMMA WritesTake ==
  ASSUME Types, NEW w \in Writer, WriteStep(w) \/ (\E u \in Vault : OpenWrite(w, u)), NEW v \in Vault
  PROVE  NoneTakes(v) \/ \E x \in Writer : WriteTakes(v, x)
<1>0. writer \in [Writer -> Write \cup {NoWrite}] /\ NoWrite.stage = "none"
  BY DEF Types, Around, NoWrite
<1>1. turn' = turn
  BY DEF OpenWrite, WriteStep, TakeWriteGuard, FinishWrite, background
<1>2. \A x \in Writer \ {w} : writer'[x] = writer[x]
  BY <1>0 DEF OpenWrite, WriteStep, TakeWriteGuard, FinishWrite
<1>3. writer'[w].stage # "writing" => NoneTakes(v) BY <1>1, <1>2 DEF NoneTakes
<1>4. CASE \E u \in Vault : OpenWrite(w, u)
  <2>1. writer'[w].stage = "opened" BY <1>0, <1>4 DEF OpenWrite
  <2> QED BY <1>3, <2>1
<1>5. CASE TakeWriteGuard(w)
  <2>1. writer[w] \in Write BY <1>5, TurnRecords DEF TakeWriteGuard
  <2>2. CASE ~Accepting(writer[w].vault, writer[w].on)
    <3>1. writer'[w] = NoWrite BY <1>0, <1>5, <2>2 DEF TakeWriteGuard
    <3> QED BY <1>0, <1>3, <3>1
  <2>3. CASE Accepting(writer[w].vault, writer[w].on)
    <3>1. writer'[w].vault = writer[w].vault /\ writer'[w].on = writer[w].on
      BY <1>0, <1>5, <2>1, <2>3 DEF TakeWriteGuard, Write
    <3>2. CASE writer[w].vault = v
      <4>1. ExclusionFree(v, block[v].exclusion) BY <1>5, <2>3, <3>2 DEF TakeWriteGuard, Accepting
      <4> QED BY <1>1, <1>2, <2>3, <3>1, <3>2, <4>1 DEF WriteTakes
    <3>3. CASE writer[w].vault # v
      BY <1>1, <1>2, <3>1, <3>3 DEF NoneTakes
    <3> QED BY <3>2, <3>3
  <2> QED BY <2>2, <2>3
<1>6. CASE FinishWrite(w)
  <2>1. writer'[w] = NoWrite BY <1>0, <1>6 DEF FinishWrite
  <2> QED BY <1>0, <1>3, <2>1
<1> QED BY <1>4, <1>5, <1>6 DEF WriteStep

LEMMA WorkTakes ==
  ASSUME Types, WorkStep, NEW v \in Vault
  PROVE  \/ NoneTakes(v)
         \/ \E k \in TurnKind : TurnTakes(v, k)
         \/ \E w \in Writer : WriteTakes(v, w)
<1>1. CASE \E u \in Vault, l \in TurnKind : TurnStep(u, l) BY <1>1, TurnsTake
<1>2. CASE \E w \in Writer : WriteStep(w) \/ (\E u \in Vault : OpenWrite(w, u))
  BY <1>2, WritesTake
<1>3. CASE UNCHANGED <<turn, writer>> BY <1>3 DEF NoneTakes
<1>4. \/ \E u \in Vault, l \in TurnKind : TurnStep(u, l)
      \/ \E w \in Writer : WriteStep(w) \/ (\E u \in Vault : OpenWrite(w, u))
      \/ UNCHANGED <<turn, writer>>
  BY DEF WorkStep, WorkOf, CheckControl, SyncNow, vars, background
<1> QED BY <1>1, <1>2, <1>3, <1>4

\* In order, a lifecycle that starts finds every other one over, and is never superseded.
LEMMA ReconcileInOrder ==
  ASSUME IInv, OrderInv, NEW t \in Task, Reconcile(t)
  PROVE  /\ \A q \in Task \ {t} : life[q].stage \in {"none", "done"} /\ life'[q] = life[q]
         /\ life[t].stage = "spawned" /\ life'[t].stage = "installed"
         /\ life[t].revision \in Revision /\ installed' = life[t].revision
         /\ life'[t].revision = installed'
         /\ life'[t].before = block /\ life'[t].after = block'
         /\ block' = block \/ \A v \in Vault : block'[v] = NextBlock(life[t].revision, v)
         /\ UNCHANGED <<revision, registry, spawned, background, row, writer>>
<1>1. /\ UNCHANGED <<revision, registry, spawned, background, row, writer>>
      /\ life[t].stage = "spawned" /\ life[t].revision \in 1 .. revision
      /\ \A q \in Task : life[q].stage \notin Locked
      /\ \A q \in Task \ {t} : life'[q] = life[q]
  BY ReconcileEffect
<1>2. Quiet(t) /\ life[t].revision = revision BY <1>1 DEF OrderInv
<1>3. \A q \in Task \ {t} : life[q].stage \in {"none", "done"}
  BY <1>1, <1>2 DEF Quiet, Resting, Locked
<1>4. installed <= revision /\ revision \in Nat /\ installed \in Nat /\ revision \in Revision
  BY Constants DEF IInv, Types, Counters
<1>5. ~(life[t].revision < installed) BY <1>2, <1>4
<1>6. /\ installed' = life[t].revision
      /\ block' = IF life[t].revision = installed THEN block
                  ELSE [v \in Vault |-> NextBlock(life[t].revision, v)]
      /\ life'[t].stage = "installed" /\ life'[t].revision = life[t].revision
      /\ life'[t].before = block /\ life'[t].after = block'
  BY <1>5, ReconcileEffect
<1> QED BY <1>1, <1>2, <1>3, <1>4, <1>6

LEMMA NextBlocks ==
  ASSUME Types, NEW r \in Revision, NEW v \in Vault
  PROVE  /\ NextBlock(r, v) # NoBlock <=> v \in Enabled(r)
         /\ block[v] # NoBlock /\ NextBlock(r, v) # NoBlock =>
              NextBlock(r, v).exclusion = block[v].exclusion
<1>1. [made |-> r, edition |-> registry[r][v].edition, exclusion |-> Exclusion(r, v)] # NoBlock
  BY Constants DEF NoBlock
<1> QED BY <1>1 DEF NextBlock, Exclusion

LEMMA ContinuesTakesNone ==
  ASSUME IInv, NEW t \in Task, Continues(t)
  PROVE  /\ writer' = writer /\ \A v \in Vault : NoneTakes(v)
         /\ \A v \in Vault, k \in TurnKind :
              /\ turn[<<v, k>>] = NoTurn => turn'[<<v, k>>] = NoTurn
              /\ turn'[<<v, k>>].stage = turn[<<v, k>>].stage
              /\ turn'[<<v, k>>].on = turn[<<v, k>>].on
<1>1. writer' = writer BY ContinuesEffect DEF IInv
<1>2. ASSUME NEW v \in Vault, NEW k \in TurnKind
      PROVE  /\ turn[<<v, k>>] = NoTurn => turn'[<<v, k>>] = NoTurn
             /\ turn'[<<v, k>>].stage = turn[<<v, k>>].stage
             /\ turn'[<<v, k>>].on = turn[<<v, k>>].on
  <2>1. turn[<<v, k>>] \in Turn /\ <<v, k>> \in Vault \X TurnKind BY TurnRecords DEF IInv
  <2>2. CASE Converge(t)
    <3>1. turn'[<<v, k>>] \in {turn[<<v, k>>], [turn[<<v, k>>] EXCEPT !.current = FALSE]}
      BY <2>1, <2>2 DEF Converge
    <3>2. turn[<<v, k>>] = NoTurn => turn[<<v, k>>].current = FALSE BY DEF NoTurn
    <3> QED BY <2>1, <3>1, <3>2 DEF Turn
  <2>3. CASE ~Converge(t)
    BY <2>3 DEF Continues, Retire, Fence, Activate, PassWrites, PassTurns, background
  <2> QED BY <2>2, <2>3
<1>3. \A v \in Vault : NoneTakes(v) BY <1>1, <1>2 DEF NoneTakes
<1> QED BY <1>1, <1>2, <1>3

LEMMA Nobody ==
  ASSUME Types, NEW v \in Vault, \A x \in Upto : ExclusionFree(v, x)
  PROVE  HoldingTurns(v) = {} /\ HoldingWrites(v) = {}
<1>1. ASSUME NEW k \in HoldingTurns(v) PROVE FALSE
  <2>1. k \in TurnKind /\ <<v, k>> \in Vault \X TurnKind BY DEF HoldingTurns
  <2>2. turn[<<v, k>>] \in Turn BY <2>1 DEF Types, Around
  <2>3. turn[<<v, k>>].on.exclusion \in Upto BY <2>2 DEF Turn, Block, Upto
  <2> QED BY <2>3 DEF ExclusionFree
<1>2. ASSUME NEW w \in HoldingWrites(v) PROVE FALSE
  <2>1. w \in Writer /\ writer[w].stage # "none" BY DEF HoldingWrites
  <2>2. writer[w] \in Write BY <2>1, TurnRecords
  <2>3. writer[w].on.exclusion \in Upto BY <2>2 DEF Write, Block, Upto
  <2> QED BY <2>3 DEF ExclusionFree
<1> QED BY <1>1, <1>2

LEMMA HeldKept ==
  ASSUME IInv, OrderInv, HeldInv, [Next]_vars
  PROVE  HeldInv'
<1> SUFFICES ASSUME NEW v \in Vault
             PROVE  /\ Alone(v)'
                    /\ \A x \in Upto : ~ExclusionFree(v, x)' =>
                         \/ block'[v] # NoBlock /\ x = block'[v].exclusion
                         \/ /\ block'[v] = NoBlock
                            /\ \E t \in Task : Waits(t, v)' /\ life'[t].before[v].exclusion = x
  BY DEF HeldInv, Upto
<1>0. Alone(v) /\ life \in [Task -> Life] BY DEF HeldInv, IInv, Types, Collected
<1>a. \A x \in Upto : ~ExclusionFree(v, x) =>
        \/ block[v] # NoBlock /\ x = block[v].exclusion
        \/ block[v] = NoBlock /\ \E t \in Task : Waits(t, v) /\ life[t].before[v].exclusion = x
  BY DEF HeldInv
<1>b. ASSUME NEW q \in Task, life'[q] = life[q], Waits(q, v) PROVE Waits(q, v)'
  BY <1>b DEF Waits, Leaves, Retired
<1>1. CASE Retry \/ \E u \in Vault : Mutates(u)
  <2>1. Spawns BY <1>1, SpawnEffect DEF IInv
  <2>2. NoneTakes(v) BY <2>1 DEF Spawns, NoneTakes
  <2>3. life[spawned'].stage = "none"
    BY <2>1, Constants DEF Spawns, IInv, LifeInv, Types, Counters
  <2>4. \A q \in Task : Waits(q, v) => life'[q] = life[q]
    BY <1>0, <2>1, <2>3 DEF Spawns, Waits
  <2>5. block' = block BY <2>1 DEF Spawns
  <2> QED BY <1>0, <1>a, <1>b, <2>2, <2>4, <2>5, NoneTakesKeeps
<1>2. CASE \E t \in Task : Reconcile(t)
  <2>1. PICK t \in Task : Reconcile(t) BY <1>2
  <2>2. /\ \A q \in Task : life[q].stage \in {"none", "done", "spawned"}
        /\ life'[t].stage = "installed" /\ life'[t].before = block /\ life'[t].after = block'
        /\ UNCHANGED <<turn, writer>>
    BY <2>1, ReconcileInOrder DEF background
  <2>3. NoneTakes(v) BY <2>2 DEF NoneTakes
  <2>4. ASSUME NEW x \in Upto, ~ExclusionFree(v, x)'
        PROVE  \/ block'[v] # NoBlock /\ x = block'[v].exclusion
               \/ /\ block'[v] = NoBlock
                  /\ \E q \in Task : Waits(q, v)' /\ life'[q].before[v].exclusion = x
    <3>1. ~ExclusionFree(v, x) BY <2>3, <2>4, NoneTakesKeeps
    <3>2. \A q \in Task : ~Waits(q, v) BY <2>2 DEF Waits
    <3>3. block[v] # NoBlock /\ x = block[v].exclusion BY <1>a, <3>1, <3>2
    <3>4. CASE block'[v] = NoBlock
      <4>1. Waits(t, v)' BY <2>2, <3>3, <3>4 DEF Waits, Leaves, Retired
      <4> QED BY <2>2, <3>3, <3>4, <4>1
    <3>5. CASE block'[v] # NoBlock
      <4>1. block'[v].exclusion = block[v].exclusion
        BY <2>1, <3>3, <3>5, ReconcileInOrder, NextBlocks DEF IInv
      <4> QED BY <3>3, <3>5, <4>1
    <3> QED BY <3>4, <3>5
  <2> QED BY <1>0, <2>3, <2>4, NoneTakesKeeps
<1>3. CASE \E t \in Task : Continues(t)
  <2>1. PICK t \in Task : Continues(t) BY <1>3
  <2>2. /\ NoneTakes(v) /\ block' = block /\ \A q \in Task \ {t} : life'[q] = life[q]
        /\ \/ life'[t] = Over
           \/ /\ life'[t].stage \in Acting \ {"installed"}
              /\ \A f \in {"revision", "from", "before", "after"} : life'[t][f] = life[t][f]
    BY <2>1, ContinuesTakesNone, ContinuesEffect DEF IInv
  <2>3. ASSUME NEW x \in Upto, ~ExclusionFree(v, x)', block[v] = NoBlock
        PROVE  \E q \in Task : Waits(q, v)' /\ life'[q].before[v].exclusion = x
    <3>1. ~ExclusionFree(v, x) BY <2>2, <2>3, NoneTakesKeeps
    <3>2. PICK q \in Task : Waits(q, v) /\ life[q].before[v].exclusion = x
      BY <1>a, <2>3, <3>1
    <3>3. CASE q # t BY <1>b, <2>2, <3>2, <3>3
    <3>4. CASE q = t
      <4>1. CASE Retire(t)
        <5>1. life'[t] = [life[t] EXCEPT !.stage = "waiting", !.writes = Retired(t), !.turns = Retired(t)]
          BY <1>0, <4>1 DEF Retire
        <5>2. /\ life'[t].stage = "waiting" /\ life'[t].writes = Retired(t)
              /\ life'[t].before = life[t].before /\ life'[t].after = life[t].after
          BY <1>0, <5>1 DEF Life
        <5> QED BY <3>2, <3>4, <5>2 DEF Waits, Leaves, Retired
      <4>2. CASE \E u \in Vault : PassWrites(t, u)
        <5>1. PICK u \in Vault : PassWrites(t, u) BY <4>2
        <5>2. u # v BY <3>1, <3>2, <3>4, <5>1 DEF PassWrites
        <5>3. life'[t] = [life[t] EXCEPT !.writes = @ \ {u}] BY <1>0, <5>1 DEF PassWrites
        <5>4. /\ life'[t].stage = life[t].stage /\ life'[t].writes = life[t].writes \ {u}
              /\ life'[t].before = life[t].before /\ life'[t].after = life[t].after
          BY <1>0, <5>3 DEF Life
        <5> QED BY <3>2, <3>4, <5>2, <5>4 DEF Waits, Leaves, Retired
      <4>3. CASE \E u \in Vault : PassTurns(t, u)
        <5>1. PICK u \in Vault : PassTurns(t, u) BY <4>3
        <5>2. life'[t] = [life[t] EXCEPT !.turns = @ \ {u}] BY <1>0, <5>1 DEF PassTurns
        <5>3. /\ life'[t].stage = life[t].stage /\ life'[t].writes = life[t].writes
              /\ life'[t].before = life[t].before /\ life'[t].after = life[t].after
          BY <1>0, <5>2 DEF Life
        <5> QED BY <3>2, <3>4, <5>3 DEF Waits, Leaves, Retired
      <4>4. CASE Fence(t) \/ Converge(t) \/ Activate(t)
        BY <3>2, <3>4, <4>4 DEF Waits, Fence, Converge, Activate
      <4> QED BY <2>1, <4>1, <4>2, <4>3, <4>4 DEF Continues
    <3> QED BY <3>3, <3>4
  <2> QED BY <1>0, <1>a, <2>2, <2>3, NoneTakesKeeps
<1>4. CASE WorkStep
  <2>1. block' = block /\ life' = life BY <1>4, WorkLeaves DEF collection
  <2>2. CASE NoneTakes(v)
    BY <1>0, <1>a, <1>b, <2>1, <2>2, NoneTakesKeeps
  <2>3. ASSUME block[v] # NoBlock, ExclusionFree(v, block[v].exclusion)
        PROVE  HoldingTurns(v) = {} /\ HoldingWrites(v) = {}
    BY <1>a, <2>3, Nobody DEF IInv
  <2>4. CASE \E k \in TurnKind : TurnTakes(v, k)
    <3>1. PICK k \in TurnKind : TurnTakes(v, k) BY <2>4
    <3>2. /\ turn'[<<v, k>>].on = block[v] /\ block[v] # NoBlock
          /\ HoldingTurns(v) = {} /\ HoldingWrites(v) = {}
      BY <2>3, <3>1 DEF TurnTakes, Accepting
    <3>3. HoldingTurns(v)' \subseteq {k} /\ HoldingWrites(v)' = {}
      BY <3>1, <3>2 DEF TurnTakes, HoldingTurns, HoldingWrites
    <3>4. \A x : ~ExclusionFree(v, x)' => x = block[v].exclusion
      BY <3>2, <3>3 DEF ExclusionFree
    <3> QED BY <2>1, <3>2, <3>3, <3>4 DEF Alone
  <2>5. CASE \E w \in Writer : WriteTakes(v, w)
    <3>1. PICK w \in Writer : WriteTakes(v, w) BY <2>5
    <3>2. /\ writer'[w].on = block[v] /\ block[v] # NoBlock
          /\ HoldingTurns(v) = {} /\ HoldingWrites(v) = {}
      BY <2>3, <3>1 DEF WriteTakes, Accepting
    <3>3. HoldingTurns(v)' = {} /\ HoldingWrites(v)' \subseteq {w}
      BY <3>1, <3>2 DEF WriteTakes, HoldingTurns, HoldingWrites
    <3>4. \A x : ~ExclusionFree(v, x)' => x = block[v].exclusion
      BY <3>2, <3>3 DEF ExclusionFree
    <3> QED BY <2>1, <3>2, <3>3, <3>4 DEF Alone
  <2> QED BY <1>4, <2>2, <2>4, <2>5, WorkTakes DEF IInv
<1> QED BY <1>1, <1>2, <1>3, <1>4, Steps

(***************************************************************************)
(* Nothing to do for a Vault without a block                               *)
(***************************************************************************)
TurnsWait(t, v) ==
  /\ Leaves(t, v)
  /\ \/ life[t].stage = "installed"
     \/ life[t].stage = "waiting" /\ v \in life[t].turns
IdleInv ==
  \A v \in Vault : block[v] = NoBlock => ~HasTurns(v) \/ \E t \in Task : TurnsWait(t, v)

LEMMA SyncsActive ==
  ASSUME IInv, OrderInv, NEW v \in Vault, NEW t \in 0 .. spawned, SyncNow(v, t)
  PROVE  block[v] # NoBlock
<1>1. <<v, t>> \in control /\ (t # 0 => Answered(t)) BY DEF SyncNow
<1>2. v \in Enabled(revision) /\ Quiet(t)
  <2>1. \A c \in control : c[1] \in Enabled(revision) /\ Quiet(c[2]) BY DEF OrderInv
  <2> QED BY <1>1, <2>1
<1>3. \A q \in Task : life[q].stage \in Resting
  BY <1>1, <1>2, Constants DEF Quiet, Answered, Resting
<1>4. installed = revision BY <1>3 DEF IInv, NewestInv, Resting
<1>5. installed # 0 BY <1>4, Constants DEF IInv, Types, Counters
<1> QED BY <1>2, <1>4, <1>5 DEF IInv, BlockInv

\* Work on a Vault is asked for by who has a turn or an exclusion of it, or sees its block.
LEMMA AsksForItself ==
  ASSUME IInv, OrderInv, WorkStep, NEW v \in Vault, NEW k \in TurnKind,
         <<v, k>> \in pending', <<v, k>> \notin pending
  PROVE  \/ block[v] # NoBlock \/ turn[<<v, "Git">>] # NoTurn
         \/ v \notin drained /\ HoldingWrites(v) # {}
<1>1. \A u, l : <<v, k>> \in Requested(u, l) => u = v /\ v \notin drained BY DEF Requested
<1>2. ASSUME NEW u \in Vault, CheckControl(u) \/ \E t \in 0 .. spawned : SyncNow(u, t)
      PROVE  block[v] # NoBlock
  <2>1. CASE CheckControl(u) BY <2>1 DEF CheckControl
  <2>2. CASE \E t \in 0 .. spawned : SyncNow(u, t)
    <3>1. u = v BY <1>1, <2>2 DEF SyncNow
    <3> QED BY <2>2, <3>1, SyncsActive
  <2> QED BY <1>2, <2>1, <2>2
<1>3. ASSUME NEW u \in Vault, NEW l \in TurnKind, TurnStep(u, l)
      PROVE  turn[<<v, "Git">>] # NoTurn
  <2>1. pending' \subseteq pending \/ FinishGitTurn(u)
    BY <1>3 DEF TurnStep, StartTurn, TurnTakesGuard, ReleaseReads, Publish
  <2>2. FinishGitTurn(u) /\ u = v BY <1>1, <2>1 DEF FinishGitTurn
  <2> QED BY <2>2 DEF FinishGitTurn, NoTurn
<1>4. ASSUME NEW w \in Writer, WriteStep(w)
      PROVE  v \notin drained /\ HoldingWrites(v) # {}
  <2>1. FinishWrite(w) BY <1>4 DEF WriteStep, TakeWriteGuard, background
  <2>2. writer[w].vault = v /\ v \notin drained BY <1>1, <2>1 DEF FinishWrite
  <2> QED BY <2>1, <2>2 DEF FinishWrite, HoldingWrites
<1>5. ~(\E u \in Vault, w \in Writer : OpenWrite(w, u)) /\ ~UNCHANGED vars
  BY DEF OpenWrite, vars, background
<1> QED BY <1>2, <1>3, <1>4, <1>5 DEF WorkStep, WorkOf

LEMMA HoldsInVain ==
  ASSUME IInv, OrderInv, HeldInv, NEW v \in Vault, block[v] = NoBlock, v \notin drained,
         HoldingWrites(v) # {}
  PROVE  \E t \in Task : life[t].stage = "installed" /\ Leaves(t, v)
<1>1. PICK x \in Upto : ~ExclusionFree(v, x) BY Nobody DEF IInv
<1>2. PICK t \in Task : Waits(t, v) BY <1>1 DEF HeldInv
<1>3. life[t].stage # "waiting"
  <2> SUFFICES ASSUME life[t].stage = "waiting" PROVE v \in drained OBVIOUS
  <2>1. life[t].revision = installed BY DEF OrderInv, Retiring
  <2> QED BY <1>2, <2>1 DEF IInv, WaitInv, Waits
<1> QED BY <1>2, <1>3 DEF Waits

LEMMA IdleKept ==
  ASSUME IInv, OrderInv, HeldInv, IdleInv, [Next]_vars
  PROVE  IdleInv'
<1> SUFFICES ASSUME NEW v \in Vault, block'[v] = NoBlock
             PROVE  ~HasTurns(v)' \/ \E t \in Task : TurnsWait(t, v)'
  BY DEF IdleInv
<1>0. life \in [Task -> Life] BY DEF IInv, Types, Collected
<1>a. block[v] = NoBlock => ~HasTurns(v) \/ \E t \in Task : TurnsWait(t, v) BY DEF IdleInv
<1>b. ASSUME NEW q \in Task, life'[q] = life[q], TurnsWait(q, v) PROVE TurnsWait(q, v)'
  BY <1>b DEF TurnsWait, Leaves, Retired
<1>1. CASE Retry \/ \E u \in Vault : Mutates(u)
  <2>1. Spawns BY <1>1, SpawnEffect DEF IInv
  <2>2. HasTurns(v)' = HasTurns(v) /\ block' = block BY <2>1 DEF Spawns, HasTurns
  <2>3. life[spawned'].stage = "none"
    BY <2>1, Constants DEF Spawns, IInv, LifeInv, Types, Counters
  <2>4. \A q \in Task : TurnsWait(q, v) => life'[q] = life[q]
    BY <1>0, <2>1, <2>3 DEF Spawns, TurnsWait
  <2> QED BY <1>a, <1>b, <2>2, <2>4
<1>2. CASE \E t \in Task : Reconcile(t)
  <2>1. PICK t \in Task : Reconcile(t) BY <1>2
  <2>2. /\ \A q \in Task : life[q].stage \in {"none", "done", "spawned"}
        /\ life'[t].stage = "installed" /\ life'[t].before = block /\ life'[t].after = block'
        /\ UNCHANGED <<turn, pending>>
    BY <2>1, ReconcileInOrder DEF background
  <2>3. CASE block[v] = NoBlock
    <3>1. ~HasTurns(v) BY <1>a, <2>2, <2>3 DEF TurnsWait
    <3> QED BY <2>2, <3>1 DEF HasTurns
  <2>4. CASE block[v] # NoBlock
    <3>1. TurnsWait(t, v)' BY <2>2, <2>4 DEF TurnsWait, Leaves, Retired
    <3> QED BY <3>1
  <2> QED BY <2>3, <2>4
<1>3. CASE \E t \in Task : Continues(t)
  <2>1. PICK t \in Task : Continues(t) BY <1>3
  <2>2. /\ block' = block /\ \A q \in Task \ {t} : life'[q] = life[q]
        /\ \A k \in TurnKind : turn[<<v, k>>] = NoTurn => turn'[<<v, k>>] = NoTurn
    BY <2>1, ContinuesTakesNone, ContinuesEffect DEF IInv
  <2>3. CASE ~HasTurns(v)
    <3>1. \A k \in TurnKind : <<v, k>> \in pending' => <<v, k>> \in pending
      <4>1. CASE Activate(t)
        <5>1. life[t].after = block BY <4>1 DEF IInv, LifeInv, Activate, Acting, Locked
        <5>2. v \notin Built(t) BY <2>2, <5>1 DEF Built
        <5> QED BY <4>1, <5>2 DEF Activate
      <4>2. CASE ~Activate(t)
        BY <2>1, <4>2 DEF Continues, Retire, Fence, Converge, PassWrites, PassTurns, background
      <4> QED BY <4>1, <4>2
    <3>2. ~HasTurns(v)' BY <2>2, <2>3, <3>1 DEF HasTurns
    <3> QED BY <3>2
  <2>4. CASE HasTurns(v)
    <3>1. PICK q \in Task : TurnsWait(q, v) BY <1>a, <2>2, <2>4
    <3>2. CASE q # t BY <1>b, <2>2, <3>1, <3>2
    <3>3. CASE q = t
      <4>1. CASE Retire(t)
        <5>1. life'[t] = [life[t] EXCEPT !.stage = "waiting", !.writes = Retired(t), !.turns = Retired(t)]
          BY <1>0, <4>1 DEF Retire
        <5>2. /\ life'[t].stage = "waiting" /\ life'[t].turns = Retired(t)
              /\ life'[t].before = life[t].before /\ life'[t].after = life[t].after
          BY <1>0, <5>1 DEF Life
        <5>3. TurnsWait(t, v)' BY <3>1, <3>3, <5>2 DEF TurnsWait, Leaves, Retired
        <5> QED BY <5>3
      <4>2. CASE \E u \in Vault : PassWrites(t, u)
        <5>1. PICK u \in Vault : PassWrites(t, u) BY <4>2
        <5>2. life'[t] = [life[t] EXCEPT !.writes = @ \ {u}] BY <1>0, <5>1 DEF PassWrites
        <5>3. /\ life'[t].stage = life[t].stage /\ life'[t].turns = life[t].turns
              /\ life'[t].before = life[t].before /\ life'[t].after = life[t].after
          BY <1>0, <5>2 DEF Life
        <5>4. TurnsWait(t, v)' BY <3>1, <3>3, <5>3 DEF TurnsWait, Leaves, Retired
        <5> QED BY <5>4
      <4>3. CASE \E u \in Vault : PassTurns(t, u)
        <5>1. PICK u \in Vault : PassTurns(t, u) BY <4>3
        <5>2. u # v BY <2>4, <5>1 DEF PassTurns
        <5>3. life'[t] = [life[t] EXCEPT !.turns = @ \ {u}] BY <1>0, <5>1 DEF PassTurns
        <5>4. /\ life'[t].stage = life[t].stage /\ life'[t].turns = life[t].turns \ {u}
              /\ life'[t].before = life[t].before /\ life'[t].after = life[t].after
          BY <1>0, <5>3 DEF Life
        <5>5. TurnsWait(t, v)' BY <3>1, <3>3, <5>2, <5>4 DEF TurnsWait, Leaves, Retired
        <5> QED BY <5>5
      <4>4. CASE Fence(t) \/ Converge(t) \/ Activate(t)
        BY <3>1, <3>3, <4>4 DEF TurnsWait, Fence, Converge, Activate
      <4> QED BY <2>1, <4>1, <4>2, <4>3, <4>4 DEF Continues
    <3> QED BY <3>2, <3>3
  <2> QED BY <2>3, <2>4
<1>4. CASE WorkStep
  <2>1. block' = block /\ life' = life BY <1>4, WorkLeaves DEF collection
  <2>2. CASE \E t \in Task : TurnsWait(t, v) BY <1>b, <2>1, <2>2
  <2>3. CASE ~HasTurns(v) /\ ~\E t \in Task : TurnsWait(t, v)
    <3>1. \A k \in TurnKind : turn[<<v, k>>] = NoTurn /\ <<v, k>> \notin pending
      BY <2>3 DEF HasTurns
    <3>2. \A k \in TurnKind : turn'[<<v, k>>] = NoTurn BY <1>4, <2>1, <3>1, NoTurnBegins DEF IInv
    <3>3. turn[<<v, "Git">>] = NoTurn BY <3>1 DEF TurnKind
    <3>4. \A k \in TurnKind : <<v, k>> \notin pending'
      <4> SUFFICES ASSUME NEW k \in TurnKind, <<v, k>> \in pending' PROVE FALSE OBVIOUS
      <4>1. v \notin drained /\ HoldingWrites(v) # {}
        BY <1>4, <2>1, <3>1, <3>3, AsksForItself
      <4>2. \E t \in Task : TurnsWait(t, v) BY <2>1, <4>1, HoldsInVain DEF TurnsWait
      <4> QED BY <2>3, <4>2
    <3> QED BY <3>2, <3>4 DEF HasTurns
  <2> QED BY <1>a, <2>1, <2>2, <2>3
<1> QED BY <1>1, <1>2, <1>3, <1>4, Steps

(***************************************************************************)
(* The rows of Vaults that left the collection                             *)
(***************************************************************************)
RowInv ==
  installed # 0 /\ (\A t \in Task : life[t].stage \notin Retiring) =>
    \A v \in Vault : /\ v \in Disabled(installed) => row[v] # "on"
                     /\ v \notin Present(installed) => row[v] = "none"

LEMMA RowKept ==
  ASSUME IInv, OrderInv, IdleInv, RowInv, [Next]_vars
  PROVE  RowInv'
<1>0. /\ life \in [Task -> Life] /\ row \in [Vault -> {"none", "off", "on"}]
      /\ installed \in 0 .. revision /\ revision \in Nat
  BY Constants DEF IInv, Types, Counters, Collected, Around
<1>1. CASE Retry \/ \E u \in Vault : Mutates(u)
  <2>1. Spawns BY <1>1, SpawnEffect DEF IInv
  <2>2. installed # 0 => registry'[installed] = registry[installed]
    BY <1>0, <2>1 DEF Spawns
  <2>3. life[spawned'].stage = "none"
    BY <2>1, Constants DEF Spawns, IInv, LifeInv, Types, Counters
  <2>4. \A q \in Task : life[q].stage \in Retiring => life'[q] = life[q]
    BY <1>0, <2>1, <2>3 DEF Spawns, Retiring
  <2>5. UNCHANGED <<installed, row>> BY <2>1 DEF Spawns
  <2> QED BY <2>2, <2>4, <2>5 DEF RowInv, Disabled, Enabled, Present
<1>2. CASE \E t \in Task : Reconcile(t)
  BY <1>2, ReconcileInOrder DEF RowInv, Retiring
<1>3. CASE \E t \in Task : Continues(t)
  <2>1. PICK t \in Task : Continues(t) BY <1>3
  <2>2. /\ UNCHANGED <<registry, installed>> /\ \A q \in Task \ {t} : life'[q] = life[q]
    BY <2>1, ContinuesEffect DEF IInv
  <2>3. CASE Converge(t)
    <3>1. life[t].revision = installed BY <2>3 DEF IInv, LifeInv, Converge, Locked
    <3>2. \A v \in Vault : /\ v \in Disabled(installed) => row'[v] # "on"
                           /\ v \notin Present(installed) => row'[v] = "none"
      <4> SUFFICES ASSUME NEW v \in Vault
                   PROVE  /\ v \in Disabled(installed) => row'[v] # "on"
                          /\ v \notin Present(installed) => row'[v] = "none"
        OBVIOUS
      <4>1. row'[v] = IF v \in Disconnected(t) THEN "none"
                      ELSE IF v \in Withdrawn(t) /\ row[v] = "on" THEN "off" ELSE row[v]
        BY <2>3 DEF Converge
      <4>2. v \in Disabled(installed) => v \in Withdrawn(t)
        BY <3>1 DEF Withdrawn, Present
      <4>3. v \notin Present(installed) => v \in Disconnected(t) \/ row[v] = "none"
        BY <3>1 DEF Disconnected
      <4>4. v \in Withdrawn(t) => v \in Present(installed) BY <3>1 DEF Withdrawn
      <4> QED BY <4>1, <4>2, <4>3, <4>4
    <3> QED BY <2>2, <3>2 DEF RowInv, Disabled, Enabled, Present
  <2>4. CASE Activate(t)
    <3>1. life[t].stage \notin Retiring BY <2>4 DEF Activate, Retiring
    <3>2. row' = row BY <2>4 DEF Activate
    <3>3. \A q \in Task : life[q].stage \in Retiring => life'[q].stage \in Retiring
      BY <2>2, <3>1
    <3> QED BY <2>2, <3>2, <3>3 DEF RowInv, Disabled, Enabled, Present
  <2>5. CASE Fence(t)
    <3>1. life[t].revision = installed BY <2>5 DEF Fence, OrderInv, Retiring
    <3>2. life'[t].stage = "fenced" BY <1>0, <2>5, <3>1 DEF Fence, Life
    <3> QED BY <3>2 DEF RowInv, Retiring
  <2>6. CASE Retire(t) \/ \E v \in Vault : PassWrites(t, v) \/ PassTurns(t, v)
    <3>1. life'[t].stage = "waiting" BY <1>0, <2>6 DEF Retire, PassWrites, PassTurns, Life
    <3> QED BY <3>1 DEF RowInv, Retiring
  <2> QED BY <2>1, <2>3, <2>4, <2>5, <2>6 DEF Continues
<1>4. CASE WorkStep
  <2>1. UNCHANGED <<registry, installed, block, life>> BY <1>4, WorkLeaves DEF collection
  <2>2. row' = row \/ \E v \in Vault : Publish(v)
    BY <1>4 DEF WorkStep, WorkOf, CheckControl, SyncNow, TurnStep, StartTurn, TurnTakesGuard,
                ReleaseReads, FinishGitTurn, OpenWrite, WriteStep, TakeWriteGuard, FinishWrite,
                vars, background
  <2>3. CASE row' = row BY <2>1, <2>3 DEF RowInv, Disabled, Enabled, Present
  <2>4. CASE \E v \in Vault : Publish(v)
    <3> SUFFICES ASSUME installed # 0, \A t \in Task : life[t].stage \notin Retiring, NEW u \in Vault
                 PROVE  /\ u \in Disabled(installed) => row'[u] # "on"
                        /\ u \notin Present(installed) => row'[u] = "none"
      BY <2>1 DEF RowInv, Disabled, Enabled, Present
    <3>1. PICK v \in Vault : Publish(v) BY <2>4
    <3>2. turn[<<v, "Index">>] # NoTurn BY <3>1 DEF Publish, NoTurn
    <3>3. HasTurns(v) BY <3>2 DEF HasTurns, TurnKind
    <3>4. block[v] # NoBlock BY <3>3 DEF IdleInv, TurnsWait, Retiring
    <3>5. v \in Enabled(installed) BY <3>4 DEF IInv, BlockInv
    <3>6. u # v => row'[u] = row[u] BY <1>0, <3>1 DEF Publish
    <3> QED BY <3>5, <3>6 DEF RowInv, Disabled, Enabled, Present
  <2> QED BY <2>2, <2>3, <2>4
<1> QED BY <1>1, <1>2, <1>3, <1>4, Steps

(***************************************************************************)
(* The Git schedule                                                        *)
(***************************************************************************)
TrackInv ==
  \A v \in tracked : block[v] = NoBlock =>
    \E t \in Task : life[t].stage = "installed" /\ Leaves(t, v)

LEMMA TrackKept ==
  ASSUME IInv, OrderInv, TrackInv, [Next]_vars
  PROVE  TrackInv'
<1> SUFFICES ASSUME NEW v \in tracked', block'[v] = NoBlock
             PROVE  \E t \in Task : life'[t].stage = "installed" /\ Leaves(t, v)'
  BY DEF TrackInv
<1>0. life \in [Task -> Life] /\ tracked \subseteq Vault
  BY LifecycleAssumption DEF IInv, Types, Collected, Worked
<1>b. ASSUME NEW q \in Task, life'[q] = life[q], life[q].stage = "installed", Leaves(q, v)
      PROVE  life'[q].stage = "installed" /\ Leaves(q, v)'
  BY <1>b DEF Leaves, Retired
<1>1. CASE Retry \/ \E u \in Vault : Mutates(u)
  <2>1. Spawns BY <1>1, SpawnEffect DEF IInv
  <2>2. PICK q \in Task : life[q].stage = "installed" /\ Leaves(q, v)
    BY <2>1 DEF Spawns, TrackInv
  <2>3. life[spawned'].stage = "none"
    BY <2>1, Constants DEF Spawns, IInv, LifeInv, Types, Counters
  <2>4. life'[q] = life[q] BY <1>0, <2>1, <2>2, <2>3 DEF Spawns
  <2> QED BY <1>b, <2>2, <2>4
<1>2. CASE \E t \in Task : Reconcile(t)
  <2>1. PICK t \in Task : Reconcile(t) BY <1>2
  <2>2. /\ \A q \in Task : life[q].stage \in {"none", "done", "spawned"}
        /\ life'[t].stage = "installed" /\ life'[t].before = block /\ life'[t].after = block'
        /\ tracked' = tracked
    BY <2>1, ReconcileInOrder DEF background
  <2>3. block[v] # NoBlock BY <2>2 DEF TrackInv
  <2> QED BY <1>0, <2>2, <2>3 DEF Leaves, Retired
<1>3. CASE \E t \in Task : Continues(t)
  <2>1. PICK t \in Task : Continues(t) BY <1>3
  <2>2. block' = block /\ \A q \in Task \ {t} : life'[q] = life[q]
    BY <2>1, ContinuesEffect DEF IInv
  <2>3. v \in tracked
    <3>1. CASE Activate(t)
      <4>1. life[t].after = block BY <3>1 DEF IInv, LifeInv, Activate, Acting, Locked
      <4>2. v \notin Built(t) BY <2>2, <4>1 DEF Built
      <4> QED BY <3>1, <4>2 DEF Activate
    <3>2. CASE ~Activate(t)
      BY <2>1, <3>2 DEF Continues, Retire, Fence, Converge, PassWrites, PassTurns, background
    <3> QED BY <3>1, <3>2
  <2>4. PICK q \in Task : life[q].stage = "installed" /\ Leaves(q, v) BY <2>2, <2>3 DEF TrackInv
  <2>5. q # t
    <3> SUFFICES ASSUME q = t PROVE FALSE OBVIOUS
    <3>1. Retire(t)
      BY <2>1, <2>4 DEF Continues, Fence, Converge, Activate, PassWrites, PassTurns
    <3>2. v \in Descheduled(t) BY <2>4 DEF Descheduled, Leaves
    <3> QED BY <3>1, <3>2 DEF Retire
  <2> QED BY <1>b, <2>2, <2>4, <2>5
<1>4. CASE WorkStep
  <2>1. block' = block /\ life' = life BY <1>4, WorkLeaves DEF collection
  <2>2. v \in tracked
    <3>1. tracked' \subseteq tracked \/ \E u \in Vault, t \in 0 .. spawned : SyncNow(u, t)
      BY <1>4 DEF WorkStep, WorkOf, CheckControl, TurnStep, StartTurn, TurnTakesGuard,
                  ReleaseReads, Publish, FinishGitTurn, OpenWrite, WriteStep, TakeWriteGuard,
                  FinishWrite, vars, background
    <3>2. ASSUME NEW u \in Vault, NEW t \in 0 .. spawned, SyncNow(u, t) PROVE v \in tracked
      <4>1. u # v BY <2>1, <3>2, SyncsActive
      <4> QED BY <3>2, <4>1 DEF SyncNow
    <3> QED BY <3>1, <3>2
  <2>3. PICK q \in Task : life[q].stage = "installed" /\ Leaves(q, v) BY <2>1, <2>2 DEF TrackInv
  <2> QED BY <1>b, <2>1, <2>3
<1> QED BY <1>1, <1>2, <1>3, <1>4, Steps

(***************************************************************************)
(* The work of the Vaults it has built a block for                         *)
(***************************************************************************)
\* The blocks a lifecycle found were those of the revision it took over from.
FromInv ==
  \A t \in Task : life[t].stage \in Acting =>
    \A v \in Vault : life[t].before[v] # NoBlock =>
      life[t].from \in 1 .. revision /\ v \in Enabled(life[t].from)

\* A lifecycle will ask for it when it activates the Vault.
Promised(v) == \E t \in Task : life[t].stage \in Acting /\ v \in Built(t)

\* An Index turn will publish the Vault.
Indexing(v) ==
  \/ <<v, "Index">> \in pending
  \/ turn[<<v, "Index">>].stage = "opened" /\ turn[<<v, "Index">>].on = block[v]
  \/ turn[<<v, "Index">>].stage = "reading"
  \/ turn[<<v, "Index">>].stage = "embedding" /\ turn[<<v, "Index">>].current

AskInv ==
  \A v \in Vault : block[v] # NoBlock =>
    /\ row[v] = "on" \/ Indexing(v) \/ Promised(v)
    /\ v \in Managed => v \in tracked \/ Promised(v)

LEMMA FromKept ==
  ASSUME IInv, OrderInv, FromInv, [Next]_vars
  PROVE  FromInv'
<1>0. /\ life \in [Task -> Life] /\ revision \in Nat /\ installed \in 0 .. revision
      /\ installed \in Nat
  BY Constants DEF IInv, Types, Counters, Collected
<1> SUFFICES ASSUME NEW t \in Task, life'[t].stage \in Acting,
                    NEW v \in Vault, life'[t].before[v] # NoBlock
             PROVE  life'[t].from \in 1 .. revision' /\ v \in Enabled(life[t].from)'
  BY DEF FromInv
<1>a. ASSUME life[t].stage \in Acting, life'[t].before = life[t].before, life'[t].from = life[t].from,
             revision' \in Nat, revision <= revision',
             \A r \in 1 .. revision : registry'[r] = registry[r]
      PROVE  life'[t].from \in 1 .. revision' /\ v \in Enabled(life[t].from)'
  <2>1. life[t].from \in 1 .. revision /\ v \in Enabled(life[t].from) BY <1>a DEF FromInv
  <2>2. life'[t].from \in 1 .. revision' BY <1>0, <1>a, <2>1
  <2> QED BY <1>a, <2>1, <2>2 DEF Enabled
<1>1. CASE Retry \/ \E u \in Vault : Mutates(u)
  <2>1. Spawns BY <1>1, SpawnEffect DEF IInv
  <2>2. t # spawned' BY <1>0, <2>1, LifeTypes DEF Spawns, Acting, Locked
  <2>3. life'[t] = life[t] BY <1>0, <2>1, <2>2 DEF Spawns
  <2>4. revision' \in Nat /\ revision <= revision' BY <1>0, <2>1 DEF Spawns
  <2> QED BY <1>a, <2>1, <2>3, <2>4 DEF Spawns
<1>2. CASE \E q \in Task : Reconcile(q)
  <2>1. PICK q \in Task : Reconcile(q) BY <1>2
  <2>2. /\ \A p \in Task \ {q} : life'[p] = life[p] /\ life[p].stage \in {"none", "done"}
        /\ life'[q].before = block /\ UNCHANGED <<revision, registry>>
    BY <2>1, ReconcileInOrder
  <2>3. t = q BY <2>2 DEF Acting, Locked
  <2>4. life'[t].from = installed
    <3>1. life'[t].stage = "installed" BY <2>1, <2>3, ReconcileInOrder
    <3>2. ~Superseded(life[t].revision)
      BY <1>0, <2>1, <2>3, <3>1, LifeTypes DEF Reconcile
    <3>3. life' = [life EXCEPT ![t] = [life[t] EXCEPT !.stage = "installed", !.from = installed,
                                       !.before = block, !.after = block']]
      BY <1>0, <2>1, <2>3, <3>2 DEF Reconcile
    <3>4. life[t] \in Life BY <1>0
    <3>5. [life[t] EXCEPT !.stage = "installed", !.from = installed, !.before = block,
                          !.after = block'].from = installed
      BY <3>4 DEF Life
    <3> QED BY <1>0, <3>3, <3>5
  <2>5. installed # 0 /\ v \in Enabled(installed) BY <2>2, <2>3 DEF IInv, BlockInv
  <2>6. installed \in 1 .. revision BY <1>0, <2>5
  <2> QED BY <2>2, <2>4, <2>5, <2>6 DEF Enabled
<1>3. CASE \E q \in Task : Continues(q)
  <2>1. PICK q \in Task : Continues(q) BY <1>3
  <2>2. /\ UNCHANGED <<revision, registry>> /\ \A p \in Task \ {q} : life'[p] = life[p]
        /\ life[q].stage \in Acting /\ Over.stage = "done"
        /\ \/ life'[q] = Over
           \/ \A f \in {"revision", "from", "before", "after"} : life'[q][f] = life[q][f]
    BY <2>1, ContinuesEffect, LifeTypes DEF IInv
  <2>3. life[t].stage \in Acting /\ life'[t].before = life[t].before /\ life'[t].from = life[t].from
    <3>1. CASE t # q BY <2>2, <3>1
    <3>2. CASE t = q BY <2>2, <3>2 DEF Acting, Locked
    <3> QED BY <3>1, <3>2
  <2> QED BY <1>0, <1>a, <2>2, <2>3
<1>4. CASE WorkStep
  BY <1>0, <1>4, <1>a, WorkLeaves DEF collection
<1> QED BY <1>1, <1>2, <1>3, <1>4, Steps

\* What a step of a lifecycle does to a Vault that has a block.
LEMMA ContinuesAsks ==
  ASSUME IInv, OrderInv, FromInv, AskInv, NEW t \in Task, Continues(t),
         NEW v \in Vault, block[v] # NoBlock
  PROVE  /\ row'[v] = "on" \/ Indexing(v)' \/ Promised(v)'
         /\ v \in Managed => v \in tracked' \/ Promised(v)'
<1>0. /\ UNCHANGED <<block, registry, installed>> /\ \A q \in Task \ {t} : life'[q] = life[q]
      /\ life \in [Task -> Life] /\ turn[<<v, "Index">>] \in Turn
      /\ <<v, "Index">> \in Vault \X TurnKind
      /\ life[t].revision = installed /\ life[t].after = block
      /\ v \in Enabled(installed) /\ installed # 0
  <2>1. life[t].stage \in Acting BY ContinuesEffect DEF IInv
  <2>2. life[t].revision = installed
    BY <2>1 DEF IInv, LifeInv, OrderInv, Acting, Locked, Retiring
  <2>3. life[t].after = block BY <2>1, <2>2 DEF IInv, LifeInv
  <2>4. /\ UNCHANGED <<block, registry, installed>> /\ \A q \in Task \ {t} : life'[q] = life[q]
        /\ life \in [Task -> Life]
    BY ContinuesEffect DEF IInv, Types, Collected
  <2>5. <<v, "Index">> \in Vault \X TurnKind /\ turn[<<v, "Index">>] \in Turn
    BY TurnRecords DEF IInv, TurnKind
  <2> QED BY <2>2, <2>3, <2>4, <2>5 DEF IInv, BlockInv
<1>1. CASE Activate(t)
  <2>1. CASE v \in Built(t)
    <3>1. <<v, "Index">> \in pending' BY <1>1, <2>1 DEF Activate
    <3>2. v \in Managed => v \in tracked' BY <1>1, <2>1 DEF Activate
    <3> QED BY <3>1, <3>2 DEF Indexing
  <2>2. CASE v \notin Built(t)
    <3>1. UNCHANGED <<turn, row>> /\ pending \subseteq pending' /\ tracked \subseteq tracked'
      BY <1>1 DEF Activate
    <3>2. Promised(v) => Promised(v)' BY <1>0, <2>2 DEF Promised, Built
    <3>3. Indexing(v) => Indexing(v)' BY <1>0, <3>1 DEF Indexing
    <3> QED BY <3>1, <3>2, <3>3 DEF AskInv
  <2> QED BY <2>1, <2>2
<1>2. CASE ~Activate(t)
  <2>1. /\ life'[t].stage \in Acting
        /\ life'[t].before = life[t].before /\ life'[t].after = life[t].after
    <3>1. life'[t] # Over
      <4>1. life'[t].stage # "done"
        BY <1>0, <1>2 DEF Continues, Retire, Fence, Converge, PassWrites, PassTurns, Life
      <4> QED BY <4>1, LifeTypes
    <3> QED BY <3>1, ContinuesEffect DEF IInv
  <2>2. Promised(v) => Promised(v)'
    <3> SUFFICES ASSUME NEW q \in Task, life[q].stage \in Acting, v \in Built(q) PROVE Promised(v)'
      BY DEF Promised
    <3>1. CASE q # t BY <1>0, <3>1 DEF Promised, Built
    <3>2. CASE q = t BY <2>1, <3>2 DEF Promised, Built
    <3> QED BY <3>1, <3>2
  <2>3. v \in Built(t) => Promised(v)' BY <2>1 DEF Promised, Built
  <2>4. CASE v \in Built(t) BY <2>3, <2>4
  <2>5. CASE v \notin Built(t)
    <3>1. life[t].before[v] = block[v] BY <1>0, <2>5 DEF Built
    <3>2. v \notin Retired(t) BY <1>0, <3>1 DEF Retired
    <3>3. \A k \in TurnKind : <<v, k>> \in pending => <<v, k>> \in pending'
      BY <1>2, <3>2 DEF Continues, Retire, Fence, Converge, PassWrites, PassTurns, background
    <3>4. v \in tracked => v \in tracked'
      BY <1>2, <3>2 DEF Continues, Retire, Fence, Converge, PassWrites, PassTurns, background,
                        Descheduled
    <3>5. turn'[<<v, "Index">>] = turn[<<v, "Index">>] /\ (row[v] = "on" => row'[v] = "on")
      <4>1. CASE Converge(t)
        <5>1. v \notin Disconnected(t) BY <1>0 DEF Disconnected, Present
        <5>2. v \notin Disabled(installed) BY <1>0 DEF Enabled, Disabled
        <5>3. life[t].from \in 1 .. revision /\ v \in Enabled(life[t].from)
          BY <3>1, <4>1 DEF FromInv, Converge, Acting, Locked
        <5>4. v \notin Disabled(life[t].from) BY <5>3 DEF Enabled, Disabled
        <5>5. v \notin Withdrawn(t) BY <1>0, <5>2, <5>4 DEF Withdrawn
        <5>6. row'[v] = row[v] BY <4>1, <5>1, <5>5 DEF Converge
        <5>7. turn'[<<v, "Index">>] = turn[<<v, "Index">>] BY <1>0, <4>1, <5>1 DEF Converge
        <5> QED BY <5>6, <5>7
      <4>2. CASE ~Converge(t)
        BY <1>2, <4>2 DEF Continues, Retire, Fence, PassWrites, PassTurns, background
      <4> QED BY <4>1, <4>2
    <3>6. Indexing(v) => Indexing(v)' BY <1>0, <3>3, <3>5 DEF Indexing, TurnKind
    <3> QED BY <2>2, <3>4, <3>5, <3>6 DEF AskInv
  <2> QED BY <2>4, <2>5
<1> QED BY <1>1, <1>2

\* What a turn or a write does to it.
LEMMA WorkAsks ==
  ASSUME IInv, WorkStep, NEW v \in Vault, block[v] # NoBlock
  PROVE  /\ row[v] = "on" \/ Indexing(v) => row'[v] = "on" \/ Indexing(v)'
         /\ v \in tracked => v \in tracked'
<1>0. /\ turn \in [Vault \X TurnKind -> Turn] /\ <<v, "Index">> \in Vault \X TurnKind
      /\ row \in [Vault -> {"none", "off", "on"}] /\ block' = block
      /\ turn[<<v, "Index">>] \in Turn /\ "Index" # "Git"
      /\ NoTurn.stage = "none"
  BY TurnRecords, WorkLeaves DEF IInv, Types, Around, TurnKind, collection, NoTurn
<1>1. ASSUME NEW u \in Vault, NEW l \in TurnKind, TurnStep(u, l)
      PROVE  /\ row[v] = "on" \/ Indexing(v) => row'[v] = "on" \/ Indexing(v)'
             /\ v \in tracked => v \in tracked'
  <2>1. row[v] = "on" => row'[v] = "on"
    BY <1>0, <1>1 DEF TurnStep, StartTurn, TurnTakesGuard, ReleaseReads, Publish, FinishGitTurn
  <2>2. v \in tracked => v \in tracked'
    BY <1>0, <1>1 DEF TurnStep, StartTurn, TurnTakesGuard, ReleaseReads, Publish, FinishGitTurn
  <2>3. \A p \in Vault \X TurnKind : p # <<u, l>> =>
          /\ turn'[p] = turn[p]
          /\ p \in pending => p \in pending'
    <3>1. \A w, k : pending \subseteq Requested(w, k) BY DEF Requested
    <3> QED BY <1>0, <1>1, <3>1 DEF TurnStep, StartTurn, TurnTakesGuard, ReleaseReads, Publish, FinishGitTurn
  <2>4. ASSUME <<v, "Index">> # <<u, l>> PROVE Indexing(v) => Indexing(v)'
    BY <1>0, <2>3, <2>4 DEF Indexing
  <2>5. ASSUME u = v, l = "Index", Indexing(v) PROVE row'[v] = "on" \/ Indexing(v)'
    <3>1. CASE StartTurn(v, "Index")
      <4>1. turn'[<<v, "Index">>] = [stage |-> "opened", on |-> block[v], current |-> FALSE]
        BY <1>0, <3>1 DEF StartTurn
      <4> QED BY <1>0, <4>1 DEF Indexing
    <3>2. CASE TurnTakesGuard(v, "Index")
      <4>1. turn[<<v, "Index">>].stage = "opened" /\ pending' = pending
        BY <3>2 DEF TurnTakesGuard
      <4>2. CASE <<v, "Index">> \in pending BY <4>1, <4>2 DEF Indexing
      <4>3. CASE turn[<<v, "Index">>].on = block[v]
        <5>1. Accepting(v, turn[<<v, "Index">>].on) BY <4>3 DEF Accepting
        <5>2. turn'[<<v, "Index">>] = [turn[<<v, "Index">>] EXCEPT !.stage = "reading"]
          BY <1>0, <3>2, <5>1 DEF TurnTakesGuard
        <5>3. turn'[<<v, "Index">>].stage = "reading" BY <1>0, <5>2 DEF Turn
        <5> QED BY <5>3 DEF Indexing
      <4> QED BY <2>5, <4>1, <4>2, <4>3 DEF Indexing
    <3>3. CASE ReleaseReads(v)
      <4>1. turn' = [turn EXCEPT ![<<v, "Index">>] = [turn[<<v, "Index">>] EXCEPT
                       !.stage = "embedding", !.current = TRUE]]
        BY <1>0, <3>3 DEF ReleaseReads
      <4>2. turn'[<<v, "Index">>].stage = "embedding" /\ turn'[<<v, "Index">>].current
        BY <1>0, <4>1 DEF Turn
      <4> QED BY <4>2 DEF Indexing
    <3>4. CASE Publish(v)
      <4>1. turn[<<v, "Index">>].stage = "embedding" /\ pending' = pending BY <3>4 DEF Publish
      <4>2. turn[<<v, "Index">>].current => row'[v] = "on" BY <1>0, <3>4 DEF Publish
      <4>3. <<v, "Index">> \in pending => Indexing(v)' BY <4>1 DEF Indexing
      <4> QED BY <2>5, <4>1, <4>2, <4>3 DEF Indexing
    <3> QED BY <1>0, <1>1, <2>5, <3>1, <3>2, <3>3, <3>4 DEF TurnStep
  <2>6. <<v, "Index">> = <<u, l>> => u = v /\ l = "Index" OBVIOUS
  <2> QED BY <2>1, <2>2, <2>4, <2>5, <2>6
<1>2. ASSUME UNCHANGED <<row, turn>>, pending \subseteq pending', tracked \subseteq tracked'
      PROVE  /\ row[v] = "on" \/ Indexing(v) => row'[v] = "on" \/ Indexing(v)'
             /\ v \in tracked => v \in tracked'
  BY <1>0, <1>2 DEF Indexing
<1>3. ASSUME NEW u \in Vault, CheckControl(u) \/ (\E t \in 0 .. spawned : SyncNow(u, t))
      PROVE  UNCHANGED <<row, turn>> /\ pending \subseteq pending' /\ tracked \subseteq tracked'
  BY <1>3 DEF CheckControl, SyncNow, Requested
<1>4. ASSUME NEW w \in Writer, WriteStep(w) \/ (\E u \in Vault : OpenWrite(w, u))
      PROVE  UNCHANGED <<row, turn>> /\ pending \subseteq pending' /\ tracked \subseteq tracked'
  BY <1>4 DEF WriteStep, TakeWriteGuard, FinishWrite, OpenWrite, background, Requested
<1>5. CASE UNCHANGED vars BY <1>2, <1>5 DEF vars, background
<1> QED BY <1>1, <1>2, <1>3, <1>4, <1>5 DEF WorkStep, WorkOf

LEMMA AskKept ==
  ASSUME IInv, OrderInv, FromInv, AskInv, [Next]_vars
  PROVE  AskInv'
<1> SUFFICES ASSUME NEW v \in Vault, block'[v] # NoBlock
             PROVE  /\ row'[v] = "on" \/ Indexing(v)' \/ Promised(v)'
                    /\ v \in Managed => v \in tracked' \/ Promised(v)'
  BY DEF AskInv
<1>0. life \in [Task -> Life] BY DEF IInv, Types, Collected
<1>a. block[v] # NoBlock => /\ row[v] = "on" \/ Indexing(v) \/ Promised(v)
                            /\ v \in Managed => v \in tracked \/ Promised(v)
  BY DEF AskInv
<1>1. CASE Retry \/ \E u \in Vault : Mutates(u)
  <2>1. Spawns BY <1>1, SpawnEffect DEF IInv
  <2>2. life[spawned'].stage = "none"
    BY <2>1, Constants DEF Spawns, IInv, LifeInv, Types, Counters
  <2>3. \A q \in Task : life[q].stage \in Acting => life'[q] = life[q]
    BY <1>0, <2>1, <2>2 DEF Spawns, Acting, Locked
  <2>4. Promised(v) => Promised(v)' BY <2>3 DEF Promised, Built
  <2>5. Indexing(v) => Indexing(v)' BY <2>1 DEF Spawns, Indexing
  <2> QED BY <1>a, <2>1, <2>4, <2>5 DEF Spawns
<1>2. CASE \E t \in Task : Reconcile(t)
  <2>1. PICK t \in Task : Reconcile(t) BY <1>2
  <2>2. /\ \A q \in Task : life[q].stage \in {"none", "done", "spawned"}
        /\ life'[t].stage = "installed" /\ life'[t].before = block /\ life'[t].after = block'
        /\ UNCHANGED <<turn, pending, tracked, row>>
    BY <2>1, ReconcileInOrder DEF background
  <2>3. CASE block'[v] # block[v]
    <3>1. Promised(v)' BY <2>2, <2>3 DEF Promised, Built, Acting, Locked
    <3> QED BY <3>1
  <2>4. CASE block'[v] = block[v]
    <3>1. ~Promised(v) BY <2>2 DEF Promised, Acting, Locked
    <3>2. Indexing(v) => Indexing(v)' BY <2>2, <2>4 DEF Indexing
    <3> QED BY <1>a, <2>2, <2>4, <3>1, <3>2
  <2> QED BY <2>3, <2>4
<1>3. CASE \E t \in Task : Continues(t)
  BY <1>3, ContinuesEffect, ContinuesAsks DEF IInv
<1>4. CASE WorkStep
  <2>1. block' = block /\ life' = life BY <1>4, WorkLeaves DEF collection
  <2>2. Promised(v) => Promised(v)' BY <2>1 DEF Promised, Built
  <2> QED BY <1>4, <1>a, <2>1, <2>2, WorkAsks
<1> QED BY <1>1, <1>2, <1>3, <1>4, Steps

(***************************************************************************)
(* In order: what holds once every request has its answer                  *)
(***************************************************************************)
InOrder ==
  OrderInv /\ HeldInv /\ IdleInv /\ RowInv /\ TrackInv /\ FromInv /\ AskInv

LEMMA InitInOrder == Init => InOrder
<1> SUFFICES ASSUME Init PROVE InOrder OBVIOUS
<1>1. /\ \A t \in Task : life[t] = IF t = 1 THEN Spawned(1) ELSE NoLife
      /\ revision = 1 /\ installed = 0 /\ control = {} /\ tracked = {} /\ pending = {}
      /\ \A v \in Vault : block[v] = NoBlock
      /\ \A v \in Vault, k \in TurnKind : turn[<<v, k>>] = NoTurn
      /\ \A w \in Writer : writer[w] = NoWrite
  BY DEF Init
<1>2. \A t \in Task : IF t = 1 THEN life[t].stage = "spawned" /\ life[t].revision = 1
                      ELSE life[t].stage = "none"
  BY <1>1, LifeTypes
<1>3. OrderInv BY <1>1, <1>2 DEF OrderInv, Quiet, Resting, Retiring
<1>4. HeldInv
  <2>1. \A v \in Vault : HoldingTurns(v) = {} /\ HoldingWrites(v) = {}
    BY <1>1 DEF HoldingTurns, HoldingWrites, NoTurn, NoWrite
  <2> QED BY <2>1 DEF HeldInv, Alone, ExclusionFree
<1>5. IdleInv BY <1>1 DEF IdleInv, HasTurns
<1>6. RowInv /\ TrackInv /\ AskInv BY <1>1 DEF RowInv, TrackInv, AskInv
<1>7. FromInv BY <1>2 DEF FromInv, Acting, Locked
<1> QED BY <1>3, <1>4, <1>5, <1>6, <1>7 DEF InOrder

LEMMA InOrderInductive ==
  ASSUME ~Overlap
  PROVE  Spec => [](IInv /\ InOrder)
<1>1. IInv /\ InOrder /\ [Next]_vars => InOrder'
  <2> SUFFICES ASSUME IInv, InOrder, [Next]_vars PROVE InOrder' OBVIOUS
  <2>1. OrderInv' BY OrderKept DEF InOrder
  <2>2. HeldInv' BY HeldKept DEF InOrder
  <2>3. IdleInv' BY IdleKept DEF InOrder
  <2>4. RowInv' BY RowKept DEF InOrder
  <2>5. TrackInv' BY TrackKept DEF InOrder
  <2>6. FromInv' BY FromKept DEF InOrder
  <2>7. AskInv' BY AskKept DEF InOrder
  <2> QED BY <2>1, <2>2, <2>3, <2>4, <2>5, <2>6, <2>7 DEF InOrder
<1> QED BY <1>1, InitInOrder, Inductive, PTL DEF Spec

\* In order a Vault's directory has one holder: the exclusion that a foreground write, a Git turn or an
\* Index scan took in acquire_mutation_exclusion is its block's, which an edit carries over, or that of
\* a block whose lifecycle is still waiting for it, before any other block can be built.
THEOREM HoldersExclude ==
  ASSUME ~Overlap
  PROVE  Spec => []OneHolder
<1>1. IInv /\ InOrder => OneHolder
  <2> SUFFICES ASSUME InOrder, NEW v \in Vault
               PROVE  Cardinality(HoldingTurns(v)) + Cardinality(HoldingWrites(v)) <= 1
    BY DEF OneHolder
  <2>1. Alone(v) BY DEF InOrder, HeldInv
  <2>2. ASSUME NEW S, \A a, b \in S : a = b PROVE S = {} \/ Cardinality(S) = 1
    <3>1. ASSUME NEW a \in S PROVE Cardinality(S) = 1
      <4>1. S = {a} BY <2>2, <3>1
      <4> QED BY <4>1, FS_Singleton
    <3> QED BY <3>1
  <2>3. Cardinality({}) = 0 BY FS_EmptySet
  <2>4. HoldingTurns(v) = {} \/ Cardinality(HoldingTurns(v)) = 1 BY <2>1, <2>2 DEF Alone
  <2>5. HoldingWrites(v) = {} \/ Cardinality(HoldingWrites(v)) = 1 BY <2>1, <2>2 DEF Alone
  <2>6. HoldingTurns(v) = {} \/ HoldingWrites(v) = {} BY <2>1 DEF Alone
  <2> QED BY <2>3, <2>4, <2>5, <2>6
<1> QED BY <1>1, InOrderInductive, PTL

\* What is settled is over, and the newest revision is the collection's.
LEMMA SettledIsOver ==
  ASSUME IInv, Settled
  PROVE  /\ \A t \in Task : life[t].stage \in {"none", "done"}
         /\ installed = revision /\ installed # 0
         /\ \A v \in Vault : block[v] # NoBlock <=> v \in Enabled(revision)
<1>1. \A t \in Task : life[t].stage \in {"none", "done"}
  <2> SUFFICES ASSUME NEW t \in Task, life[t].stage # "none" PROVE life[t].stage = "done" OBVIOUS
  <2>1. t \in 1 .. spawned BY Constants DEF IInv, LifeInv, Types, Counters
  <2> QED BY <2>1 DEF Settled
<1>2. installed = revision BY <1>1 DEF IInv, NewestInv
<1>3. installed # 0 BY <1>2, Constants DEF IInv, Types, Counters
<1> QED BY <1>1, <1>2, <1>3, IInvConverges DEF CollectionConverges

\* In order the scheduler polls no Vault that is not enabled: reconcile takes out whom it retires, and
\* sync_now, which registers a Vault itself, runs before the next request can disable it.
THEOREM SchedulesFollow ==
  ASSUME ~Overlap
  PROVE  Spec => []ScheduleFollowsCollection
<1>1. IInv /\ InOrder => ScheduleFollowsCollection
  <2> SUFFICES ASSUME IInv, InOrder, Settled, NEW v \in tracked PROVE v \in Enabled(revision)
    BY DEF ScheduleFollowsCollection
  <2>1. v \in Vault BY LifecycleAssumption DEF IInv, Types, Worked
  <2>2. block[v] # NoBlock BY SettledIsOver DEF InOrder, TrackInv
  <2> QED BY <2>1, <2>2, SettledIsOver
<1> QED BY <1>1, InOrderInductive, PTL

\* In order, disable and disconnect are the last writers of a Vault's cache rows: converge runs past
\* the safe boundaries, after which no turn of the Vault is left that could publish.
THEOREM RowsRetire ==
  ASSUME ~Overlap
  PROVE  Spec => []RetiredStaysOut
<1>1. IInv /\ InOrder => RetiredStaysOut
  <2> SUFFICES ASSUME IInv, InOrder, Settled, NEW v \in Vault
               PROVE  /\ v \in Disabled(revision) => row[v] # "on"
                      /\ v \notin Present(revision) => row[v] = "none"
    BY DEF RetiredStaysOut
  <2> QED BY SettledIsOver DEF InOrder, RowInv, Retiring
<1> QED BY <1>1, InOrderInductive, PTL

\* In order, an enabled Vault takes part, or an Index turn that makes it take part is queued or under
\* way, and the scheduler has it if it is managed: activate asks for whatever the lifecycle built.
THEOREM ActivationsComplete ==
  ASSUME ~Overlap
  PROVE  Spec => []ActivationIsComplete
<1>1. IInv /\ InOrder => ActivationIsComplete
  <2> SUFFICES ASSUME IInv, InOrder, Settled, NEW v \in Enabled(revision)
               PROVE  /\ row[v] = "on" \/ HasTurns(v)
                      /\ v \in Managed => v \in tracked
    BY DEF ActivationIsComplete
  <2>1. v \in Vault BY DEF Enabled
  <2>2. block[v] # NoBlock BY <2>1, SettledIsOver
  <2>3. ~Promised(v) BY SettledIsOver DEF Promised, Acting, Locked
  <2>4. Indexing(v) => HasTurns(v) BY DEF Indexing, HasTurns, NoTurn, TurnKind
  <2> QED BY <2>1, <2>2, <2>3, <2>4 DEF InOrder, AskInv
<1> QED BY <1>1, InOrderInductive, PTL

\* ConvergesOnNewest in order, whether Vaults are managed or not: with one request at a time, whoever
\* queues work for a Vault (a write, a Git turn, sync_now) sees a block of it that is not retired, or
\* finds it drained.
THEOREM ConvergesInOrder ==
  ASSUME ~Overlap
  PROVE  Spec => []ConvergesOnNewest
<1>1. IInv /\ InOrder => ConvergesOnNewest
  <2> SUFFICES ASSUME IInv, InOrder, Settled, NEW p \in pending PROVE p[1] \in Enabled(revision)
    BY IInvConverges DEF ConvergesOnNewest, CollectionConverges
  <2>1. PICK v \in Vault, k \in TurnKind : p = <<v, k>> BY DEF IInv, Types, Worked
  <2>2. HasTurns(v) BY <2>1 DEF HasTurns
  <2>3. block[v] # NoBlock BY <2>1, <2>2, SettledIsOver DEF InOrder, IdleInv, TurnsWait
  <2> QED BY <2>1, <2>3, SettledIsOver
<1> QED BY <1>1, InOrderInductive, PTL
=============================================================================

------------------------------ MODULE VaultWork ------------------------------
(***************************************************************************)
(* The background-work coordinator of src/src/vault_work.rs: one queue     *)
(* shared by every Vault, in which each Vault holds at most one FIFO       *)
(* position per lane, an Index lane of width one and a Git lane of width   *)
(* GitWidth (GIT_LANE_WIDTH).  Every action below is one critical section  *)
(* of the queue's mutex; the turns themselves run outside it, so a turn is *)
(* only a Vault's `active' kind between NextTurn and Complete.             *)
(*                                                                         *)
(* A position is a pair <<vault, lane>>.  pending, pendingKinds, queued    *)
(* and active are the fields of LaneQueue; present is the key set of       *)
(* QueueState.vaults.                                                      *)
(***************************************************************************)
EXTENDS Naturals, Sequences, FiniteSets, SequencesExt

CONSTANTS
  Vault,      \* VaultIds
  GitKind,    \* kinds of the Git lane: Git, Commit, Recovery
  IndexKind,  \* kinds of the Index lane: Index, Repair
  Idle,       \* the `None' of LaneQueue::active
  GitWidth    \* GIT_LANE_WIDTH

ASSUME VaultWorkAssumption ==
  /\ IsFiniteSet(Vault)
  /\ GitKind \cap IndexKind = {}
  /\ "Index" \in IndexKind
  /\ Idle \notin GitKind \cup IndexKind
  /\ GitWidth \in Nat \ {0}

Kind == GitKind \cup IndexKind
Lane == {"Index", "Git"}
Position == Vault \X Lane

LaneOf(k) == IF k \in IndexKind THEN "Index" ELSE "Git"
KindsOf(l) == IF l = "Index" THEN IndexKind ELSE GitKind
Width(l) == IF l = "Index" THEN 1 ELSE GitWidth

VARIABLES
  accepting,     \* QueueState::accepting_work
  drained,       \* QueueState::drained_vaults
  fifo,          \* QueueState::fifo
  running,       \* QueueState::running, a count per lane
  present,       \* the keys of QueueState::vaults
  active,        \* LaneQueue::active per position
  pending,       \* LaneQueue::pending per position
  pendingKinds,  \* LaneQueue::pending_kinds per position
  queued,        \* LaneQueue::queued per position
  pausing,       \* how far a Vault's running Index turn is in pausing
  announce,      \* Vaults with an index-lane observer call still to run
  shown,         \* VaultRuntimeSnapshot::index_turn, what a Vault's status says
  yieldedTo      \* history: who a paused Vault stepped behind and still waits on

queue == <<accepting, drained, fifo, running, present, active, pending,
           pendingKinds, queued>>
vars == <<queue, pausing, announce, shown, yieldedTo>>

Init ==
  /\ accepting = TRUE
  /\ drained = {}
  /\ fifo = <<>>
  /\ running = [l \in Lane |-> 0]
  /\ present = {}
  /\ active = [p \in Position |-> Idle]
  /\ pending = [p \in Position |-> <<>>]
  /\ pendingKinds = [p \in Position |-> {}]
  /\ queued = [p \in Position |-> FALSE]
  /\ pausing = [v \in Vault |-> "no"]
  /\ announce = {}
  /\ shown = [v \in Vault |-> "none"]
  /\ yieldedTo = [v \in Vault |-> {}]

-----------------------------------------------------------------------------
(* Reading the queue.                                                      *)

\* Mutant: a drained Vault is forgotten.
MutAdmitsDrained(v) == accepting
Admits(v) == accepting /\ v \notin drained

\* QueueState::vault_has_work
HasWork(v, k) ==
  active[<<v, LaneOf(k)>>] = k \/ k \in pendingKinds[<<v, LaneOf(k)>>]

\* VaultWorkCoordinator::index_lane_state
IndexLaneState(v) ==
  IF active[<<v, "Index">>] # Idle THEN "running"
  ELSE IF queued[<<v, "Index">>] THEN "waiting"
  ELSE "none"

\* VaultWorkCoordinator::another_vault_waits_to_index
AnotherVaultWaits(v) == \E u \in Vault \ {v} : <<u, "Index">> \in ToSet(fifo)

\* VecDeque::retain of the positions other than p.  Positions are distinct
\* (FifoExact), so there is at most one to drop.
Without(s, p) ==
  IF p \in ToSet(s) THEN RemoveAt(s, CHOOSE i \in DOMAIN s : s[i] = p) ELSE s

\* The position take_next would admit.  Mutant: a lane is full one turn early.
MutAdmissible(p) == running[p[2]] + 1 < Width(p[2]) /\ active[p] = Idle
Admissible(p) == running[p[2]] < Width(p[2]) /\ active[p] = Idle

\* lane_changed_for: only indexing work has an observer.
\* Mutant: only an idle lane's changes are announced.
MutAnnounce(v, l) ==
  announce' = IF l = "Index" /\ active[<<v, l>>] = Idle THEN announce \cup {v} ELSE announce
Announce(v, l) == announce' = IF l = "Index" THEN announce \cup {v} ELSE announce

-----------------------------------------------------------------------------
(* Admitting work.                                                         *)

\* A Vault takes a position in a lane only if it has none there.
TakingPosition(p) == IF queued[p] THEN fifo ELSE Append(fifo, p)

\* QueueState::enqueue
Enqueue(v, k) ==
  LET p == <<v, LaneOf(k)>> IN
  /\ present' = present \cup {v}
  /\ pending' = [pending EXCEPT ![p] = Append(@, k)]
  /\ pendingKinds' = [pendingKinds EXCEPT ![p] = @ \cup {k}]
  /\ queued' = [queued EXCEPT ![p] = TRUE]
  /\ fifo' = TakingPosition(p)
  /\ Announce(v, LaneOf(k))
  /\ UNCHANGED <<accepting, drained, running, active, pausing, shown, yieldedTo>>

\* request: a duplicate of active work adds one rerun, further ones coalesce.
Request(v, k) ==
  /\ Admits(v)
  /\ k \notin pendingKinds[<<v, LaneOf(k)>>]
  /\ Enqueue(v, k)

\* request_if_idle: never adds a rerun behind an active turn.
RequestIfIdle(v, k) ==
  /\ Admits(v)
  /\ ~HasWork(v, k)
  /\ Enqueue(v, k)

\* request_rerun_if_admitted: only ever adds a rerun.
\* Mutant: a rerun that is already pending is not looked for.
MutRequestRerunIfAdmitted(v, k) ==
  /\ Admits(v)
  /\ HasWork(v, k)
  /\ Enqueue(v, k)
RequestRerunIfAdmitted(v, k) ==
  /\ Admits(v)
  /\ HasWork(v, k)
  /\ k \notin pendingKinds[<<v, LaneOf(k)>>]
  /\ Enqueue(v, k)

-----------------------------------------------------------------------------
(* Running turns.                                                          *)

\* take_next and next_turn: the earliest admissible position starts its
\* oldest pending kind, and goes to the back if it has more.
TakeNext(i) ==
  LET p == fifo[i]
      rest == Tail(pending[p]) IN
  /\ Admissible(p)
  /\ \A j \in 1 .. (i - 1) : ~Admissible(fifo[j])
  /\ active' = [active EXCEPT ![p] = Head(pending[p])]
  /\ pending' = [pending EXCEPT ![p] = rest]
  /\ pendingKinds' = [pendingKinds EXCEPT ![p] = @ \ {Head(pending[p])}]
  /\ queued' = [queued EXCEPT ![p] = rest # <<>>]
  /\ fifo' = IF rest # <<>> THEN Append(RemoveAt(fifo, i), p) ELSE RemoveAt(fifo, i)
  /\ running' = [running EXCEPT ![p[2]] = @ + 1]
  /\ Announce(p[1], p[2])
  /\ yieldedTo' = IF p[2] = "Index"
                  THEN [u \in Vault |-> yieldedTo[u] \ {p[1]}]
                  ELSE yieldedTo
  /\ UNCHANGED <<accepting, drained, present, pausing, shown>>

NextTurn == \E i \in DOMAIN fifo : TakeNext(i)

\* VaultQueueState::is_idle once the turn in lane l has ended.  Mutant:
\* asked before the ending turn is cleared.
MutIdleTooEarly(v, l) == \A m \in Lane : ~queued[<<v, m>>] /\ active[<<v, m>>] = Idle
IdleWithout(v, l) ==
  \A m \in Lane : ~queued[<<v, m>>] /\ (m = l \/ active[<<v, m>>] = Idle)

\* complete, reached only by dropping a turn: its future returned, panicked or
\* was abandoned.
Complete(v, l) ==
  LET p == <<v, l>> IN
  /\ active[p] # Idle
  /\ active' = [active EXCEPT ![p] = Idle]
  /\ running' = [running EXCEPT ![l] = @ - 1]
  /\ present' = IF IdleWithout(v, l) THEN present \ {v} ELSE present
  /\ pausing' = IF l = "Index" THEN [pausing EXCEPT ![v] = "no"] ELSE pausing
  /\ Announce(v, l)
  /\ UNCHANGED <<accepting, drained, fifo, pending, pendingKinds, queued, shown,
                 yieldedTo>>

-----------------------------------------------------------------------------
(* Pausing an Index turn (ADR-35): it asks, and only later requeues itself. *)

AskToPause(v) ==
  /\ active[<<v, "Index">>] = "Index"
  /\ pausing[v] = "no"
  /\ AnotherVaultWaits(v)
  /\ pausing' = [pausing EXCEPT ![v] = "asked"]
  /\ UNCHANGED <<queue, announce, shown, yieldedTo>>

\* The back of the lane.  Mutant: a turn requested meanwhile keeps its position.
MutRequeued(p) == IF p \in ToSet(fifo) THEN fifo ELSE Append(fifo, p)
Requeued(p) == Append(Without(fifo, p), p)

\* requeue_paused_index_turn, called by the pausing turn before it returns.
RequeuePausedIndexTurn(v) ==
  LET p == <<v, "Index">> IN
  /\ pausing[v] = "asked"
  /\ pausing' = [pausing EXCEPT ![v] = "requeued"]
  /\ \/ /\ ~Admits(v)
        /\ UNCHANGED <<queue, announce, yieldedTo>>
     \/ /\ Admits(v)
        /\ fifo' = Requeued(p)
        /\ present' = present \cup {v}
        /\ IF "Index" \in pendingKinds[p]
           THEN UNCHANGED <<pending, pendingKinds>>
           ELSE /\ pending' = [pending EXCEPT ![p] = Append(@, "Index")]
                /\ pendingKinds' = [pendingKinds EXCEPT ![p] = @ \cup {"Index"}]
        /\ queued' = [queued EXCEPT ![p] = TRUE]
        /\ Announce(v, "Index")
        /\ yieldedTo' = [yieldedTo EXCEPT ![v] =
                           {u \in Vault \ {v} : queued[<<u, "Index">>]}]
        /\ UNCHANGED <<accepting, drained, running, active>>
  /\ UNCHANGED shown

-----------------------------------------------------------------------------
(* Opening and closing the queue.                                          *)

ActivateVault(v) ==
  /\ accepting
  /\ drained' = drained \ {v}
  /\ UNCHANGED <<accepting, fifo, running, present, active, pending, pendingKinds,
                 queued, pausing, announce, shown, yieldedTo>>

\* drain_vault with QueueState::discard_pending
DrainVault(v) ==
  /\ drained' = drained \cup {v}
  /\ fifo' = Without(Without(fifo, <<v, "Index">>), <<v, "Git">>)
  /\ pending' = [p \in Position |-> IF p[1] = v THEN <<>> ELSE pending[p]]
  /\ pendingKinds' = [p \in Position |-> IF p[1] = v THEN {} ELSE pendingKinds[p]]
  /\ queued' = [p \in Position |-> IF p[1] = v THEN FALSE ELSE queued[p]]
  /\ present' = IF \A l \in Lane : active[<<v, l>>] = Idle
                THEN present \ {v} ELSE present
  /\ announce' = announce \cup {v}
  /\ yieldedTo' = [u \in Vault |-> IF u = v THEN {} ELSE yieldedTo[u] \ {v}]
  /\ UNCHANGED <<accepting, running, active, pausing, shown>>

\* shutdown with QueueState::discard_all_pending
Shutdown ==
  /\ accepting
  /\ accepting' = FALSE
  /\ fifo' = <<>>
  /\ pending' = [p \in Position |-> <<>>]
  /\ pendingKinds' = [p \in Position |-> {}]
  /\ queued' = [p \in Position |-> FALSE]
  /\ present' = {v \in present : \E l \in Lane : active[<<v, l>>] # Idle}
  /\ announce' = announce \cup present
  /\ yieldedTo' = [v \in Vault |-> {}]
  /\ UNCHANGED <<drained, running, active, pausing, shown>>

\* The observer: index_lane_changed calls it after the queue's lock is
\* released, and refresh_index_turn reads the queue under the status lock.
PublishIndexTurn(v) ==
  /\ v \in announce
  /\ announce' = announce \ {v}
  /\ shown' = [shown EXCEPT ![v] = IndexLaneState(v)]
  /\ UNCHANGED <<queue, pausing, yieldedTo>>

-----------------------------------------------------------------------------
RequestAny(v, k) ==
  Request(v, k) \/ RequestIfIdle(v, k) \/ RequestRerunIfAdmitted(v, k)

Next ==
  \/ \E v \in Vault, k \in Kind : RequestAny(v, k)
  \/ NextTurn
  \/ \E v \in Vault, l \in Lane : Complete(v, l)
  \/ \E v \in Vault : \/ AskToPause(v)
                      \/ RequeuePausedIndexTurn(v)
                      \/ ActivateVault(v)
                      \/ DrainVault(v)
                      \/ PublishIndexTurn(v)
  \/ Shutdown

Spec == Init /\ [][Next]_vars

\* The worker loop keeps taking turns, every turn returns (a turn that decided
\* to pause may also fail before it requeues itself), an observer call runs.
Fairness ==
  /\ WF_vars(NextTurn)
  /\ \A v \in Vault :
       /\ \A l \in Lane : WF_vars(Complete(v, l))
       /\ WF_vars(PublishIndexTurn(v))

FairSpec == Spec /\ Fairness

-----------------------------------------------------------------------------
(* Properties.                                                             *)

\* The shape of the queue: every lane holds only the kinds that run in it.
TypeOK ==
  /\ accepting \in BOOLEAN
  /\ drained \subseteq Vault
  /\ fifo \in Seq(Position)
  /\ running \in [Lane -> Nat]
  /\ present \subseteq Vault
  /\ active \in [Position -> Kind \cup {Idle}]
  /\ \A p \in Position : active[p] \in KindsOf(p[2]) \cup {Idle}
  /\ pending \in [Position -> Seq(Kind)]
  /\ \A p \in Position : pending[p] \in Seq(KindsOf(p[2]))
  /\ pendingKinds \in [Position -> SUBSET Kind]
  /\ queued \in [Position -> BOOLEAN]
  /\ pausing \in [Vault -> {"no", "asked", "requeued"}]
  /\ announce \subseteq Vault
  /\ shown \in [Vault -> {"none", "waiting", "running"}]
  /\ yieldedTo \in [Vault -> SUBSET Vault]

\* Every Vault has exactly one FIFO position per lane in which it has pending
\* work, and none otherwise: no request is stranded outside the FIFO and no
\* position is empty when take_next pops it (its two `expect's).
FifoExact ==
  /\ IsInjective(fifo)
  /\ \A p \in Position : /\ p \in ToSet(fifo) <=> queued[p]
                         /\ queued[p] <=> pending[p] # <<>>

\* pending_kinds, what a request coalesces against, is exactly what is pending
\* and each kind is pending at most once, so coalescing neither loses a turn
\* nor piles up duplicates.
PendingExact ==
  \A p \in Position : /\ pendingKinds[p] = ToSet(pending[p])
                      /\ IsInjective(pending[p])

\* A Vault is in the queue's map exactly while it has a turn running or
\* pending: wait_for_vault_safe_boundary waits for no other thing, and ends
\* no earlier.
PresentExact ==
  \A v \in Vault : v \in present
    <=> \E l \in Lane : active[<<v, l>>] # Idle \/ queued[<<v, l>>]

\* A drained Vault, and after shutdown every Vault, has no pending work, also
\* when a paused turn of it requeues itself after the drain.
ClosedIsEmpty ==
  \A v \in Vault : ~Admits(v) => \A l \in Lane : ~queued[<<v, l>>]

RunningIn(l) == {v \in Vault : active[<<v, l>>] # Idle}

\* The counters of running turns, which every early drain, panic or completion
\* must leave right, equal the turns that hold a slot, and a lane never runs
\* more turns than its width.
LaneWidth ==
  \A l \in Lane : /\ running[l] = Cardinality(RunningIn(l))
                  /\ running[l] <= Width(l)

\* The FIFO, the pending lists, the sets that requests coalesce against, the
\* counters and the closed Vaults agree with one another after every step, though
\* each operation edits several of them.
QueueExact == FifoExact /\ PendingExact /\ ClosedIsEmpty /\ LaneWidth

\* What the coordinator shows of itself: work owed, turns running, Vaults closed.
Owed == {w \in Vault \X Kind : w[2] \in pendingKinds[<<w[1], LaneOf(w[2])>>]}
Closed == {v \in Vault : ~accepting \/ v \in drained}
Promise == INSTANCE WorkPromise WITH
             RunsIn <- [k \in Kind |-> LaneOf(k)],
             Fits <- [l \in Lane |-> {S \in SUBSET Vault : Cardinality(S) <= Width(l)}],
             owed <- Owed, busy <- active, closed <- Closed, over <- ~accepting

\* Seen that way it keeps its promise whatever the order of requests, pauses,
\* drains and activations: nothing is owed twice, lost or invented, and between a
\* drain and the next activation no turn of the Vault starts.
PromiseKept == Promise!Spec

\* ADR-35: an Index turn that paused resumes only after every Vault that was
\* waiting behind it has had its turn, whatever was requested meanwhile.
PausedTurnYields ==
  \A v \in Vault : active[<<v, "Index">>] # Idle /\ pausing[v] # "requeued"
                     => yieldedTo[v] = {}

\* The indexing state a Vault's status shows is the queue's, except while an
\* observer call is still to come: racing observers cannot leave an old one.
ShownMatchesQueue ==
  \A v \in Vault : v \in announce \/ shown[v] = IndexLaneState(v)

\* Every admitted turn eventually runs, unless its Vault is drained or the
\* coordinator shuts down: no order of other Vaults' requests and no pausing
\* turn starves it.
EveryTurnRuns ==
  \A v \in Vault, k \in Kind :
    (k \in pendingKinds[<<v, LaneOf(k)>>])
      ~> (active[<<v, LaneOf(k)>>] = k \/ ~Admits(v))

\* Whoever closed a Vault, a lifecycle by a drain or the shutdown of them all, and
\* waits for its safe boundary gets past it, unless the Vault is reactivated
\* first: every running turn returns and none follows it.
BoundaryReached ==
  \A v \in Vault : ~Admits(v) ~> (v \notin present \/ Admits(v))
=============================================================================

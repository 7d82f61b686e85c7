----------------------------- MODULE WorkPromise -----------------------------
(***************************************************************************)
(* What the background-work coordinator promises those who ask it for      *)
(* turns, without its FIFO, its counters or its map of Vaults: a kind of   *)
(* work is owed to a Vault at most once, a lane runs at most one turn of a *)
(* Vault and as many Vaults as it is wide, and a closed Vault is owed      *)
(* nothing.  VaultWork implements it (VaultWork!PromiseKept).              *)
(***************************************************************************)

CONSTANTS
  Vault, Kind, Lane, Idle,
  RunsIn,  \* the lane a kind of work runs in
  Fits     \* the sets of Vaults a lane may serve at once

VARIABLES
  owed,    \* the work asked for and not started, pairs of a Vault and a kind
  busy,    \* the kind a Vault's turn in a lane is of
  closed,  \* Vaults that are drained, or all of them
  over     \* the instance is shutting down

vars == <<owed, busy, closed, over>>

BusyIn(l) == {v \in Vault : busy[<<v, l>>] # Idle}

Init ==
  /\ owed = {} /\ closed = {} /\ over = FALSE
  /\ busy = [p \in Vault \X Lane |-> Idle]

\* Also how a paused turn comes back.
Ask(v, k) ==
  /\ v \notin closed
  /\ owed' = owed \cup {<<v, k>>}
  /\ UNCHANGED <<busy, closed, over>>

Start(v, k) ==
  /\ <<v, k>> \in owed /\ v \notin closed
  /\ busy[<<v, RunsIn[k]>>] = Idle
  /\ BusyIn(RunsIn[k]) \cup {v} \in Fits[RunsIn[k]]
  /\ owed' = owed \ {<<v, k>>}
  /\ busy' = [busy EXCEPT ![<<v, RunsIn[k]>>] = k]
  /\ UNCHANGED <<closed, over>>

End(v, l) ==
  /\ busy[<<v, l>>] # Idle
  /\ busy' = [busy EXCEPT ![<<v, l>>] = Idle]
  /\ UNCHANGED <<owed, closed, over>>

Close(v) ==
  /\ closed' = closed \cup {v}
  /\ owed' = {w \in owed : w[1] # v}
  /\ UNCHANGED <<busy, over>>

Reopen(v) ==
  /\ ~over /\ closed' = closed \ {v}
  /\ UNCHANGED <<owed, busy, over>>

CloseAll ==
  /\ over' = TRUE /\ closed' = Vault /\ owed' = {}
  /\ UNCHANGED busy

Next ==
  \/ \E v \in Vault : \/ Close(v)
                      \/ Reopen(v)
                      \/ \E k \in Kind : Ask(v, k) \/ Start(v, k)
                      \/ \E l \in Lane : End(v, l)
  \/ CloseAll

Spec == Init /\ [][Next]_vars
=============================================================================

-------------------------------- MODULE Registry --------------------------------
(***************************************************************************)
(* The Vault registry (src/src/vault_registry.rs): one file that holds     *)
(* every Vault's definition under a revision.  A management call reads it  *)
(* without the lock, checks and computes its change, takes the write lock, *)
(* reads the revision again, and replaces the file: a temporary file is    *)
(* written and synced, renamed over it, and the directory synced.  Any of  *)
(* these may fail, the process may be killed between any two, and a power  *)
(* loss may take back a rename whose directory was not synced.             *)
(*                                                                         *)
(* The file is kept as the line of revisions that led to it: the program   *)
(* sees the last one and their number.  Names, paths, sources and          *)
(* credentials are left out, with the refusals that look at them; writing  *)
(* and syncing the temporary file is one step, the lock and the second     *)
(* read another.                                                           *)
(***************************************************************************)
EXTENDS VaultDefinitions, Sequences

CONSTANTS
  Client,
  Nobody,       \* not a client
  Nonces,       \* the names a temporary file can have
  Predict,      \* may a client name a revision it has not been told of?
  MaxRevision,  \* bound on revisions
  MaxRestarts   \* bound on restarts

ASSUME RegistryAssumption ==
  /\ Nobody \notin Client
  /\ Nonces \in Nat \ {0} /\ Predict \in BOOLEAN
  /\ MaxRevision \in Nat /\ MaxRestarts \in Nat

VARIABLES
  file,      \* the revisions up to the one the file holds
  synced,    \* the revision a power loss cannot take back
  readable,  \* FALSE over a file this build cannot read
  leftover,  \* temporary files of killed processes
  lock,      \* who holds write_lock
  call,      \* the management call of each client
  answer,    \* its last answer
  promised,  \* the newest revision a client was told it made
  restarts

vars == <<file, synced, readable, leftover, lock, call, answer, promised, restarts>>
storage == <<file, synced, readable, leftover>>

NoCall == [stage |-> "idle", kind |-> "none", vault |-> NoVault, expected |-> 0,
           before |-> 0, base |-> 0, made |-> 0]
Asking(kind, v, revision) ==
  [stage |-> "asked", kind |-> kind, vault |-> v, expected |-> revision,
   before |-> 0, base |-> 0, made |-> 0]

Revision == Len(file)
At(n) == IF n = 0 THEN NoVaults ELSE file[n]

\* No registry yet, or one this build cannot read.
Init ==
  /\ file = <<>> /\ synced = 0 /\ readable \in BOOLEAN /\ leftover = 0
  /\ lock = Nobody
  /\ call = [c \in Client |-> NoCall]
  /\ answer = [c \in Client |-> NoAnswer]
  /\ promised = 0 /\ restarts = 0

Put(c, stage) == call' = [call EXCEPT ![c].stage = stage]

Say(c, result) ==
  /\ call' = [call EXCEPT ![c] = NoCall]
  /\ answer' = [answer EXCEPT ![c] = result]

-----------------------------------------------------------------------------
(* A management call, up to the lock.                                      *)

Ask(c, kind, v, revision) ==
  /\ call[c] = NoCall
  /\ call' = [call EXCEPT ![c] = Asking(kind, v, revision)]
  /\ answer' = [answer EXCEPT ![c] = NoAnswer]
  /\ UNCHANGED <<storage, lock, promised, restarts>>

\* create reads the IDs there are, to tell the new one afterwards.
ReadIds(c) ==
  /\ call[c].stage = "asked" /\ Adding(call[c].kind) /\ readable
  /\ call' = [call EXCEPT ![c].stage = "listed", ![c].before = Revision]
  /\ UNCHANGED <<storage, lock, answer, promised, restarts>>

\* ensure_revision, which add does not ask.
Ensured(c) == Adding(call[c].kind) \/ call[c].expected = Revision

\* About to read the registry for its own sake.
Loading(c) == call[c].stage = IF Adding(call[c].kind) THEN "listed" ELSE "asked"

\* The call goes on with the definitions it read.
Load(c) ==
  LET m == call[c] IN
  /\ Loading(c) /\ readable /\ Ensured(c)
  /\ Fits(m.kind, m.vault, At(Revision)) /\ ~Idle(m.kind, m.vault, At(Revision))
  /\ call' = [call EXCEPT ![c].stage = "loaded", ![c].base = Revision]
  /\ UNCHANGED <<storage, lock, answer, promised, restarts>>

LoadNothingToDo(c) ==
  LET m == call[c] IN
  /\ Loading(c) /\ readable /\ Ensured(c)
  /\ Fits(m.kind, m.vault, At(Revision)) /\ Idle(m.kind, m.vault, At(Revision))
  /\ Say(c, Success(m.vault))
  /\ UNCHANGED <<storage, lock, promised, restarts>>

\* The registry is in recovery, the revision is not the client's, or the Vault
\* is not there.
LoadRefused(c) ==
  /\ \/ call[c].stage = "asked" /\ ~readable
     \/ Loading(c) /\ ~(Ensured(c) /\ Fits(call[c].kind, call[c].vault, At(Revision)))
  /\ Say(c, Refused)
  /\ UNCHANGED <<storage, lock, promised, restarts>>

\* The file cannot be read, before the lock or under it.
ReadFails(c) ==
  /\ call[c].stage \in {"asked", "listed"} \/ (call[c].stage = "loaded" /\ lock = Nobody)
  /\ Say(c, Failed)
  /\ UNCHANGED <<storage, lock, promised, restarts>>

-----------------------------------------------------------------------------
(* commit, under the lock.                                                 *)

\* The revision read again under the lock.  Mutant: not compared.
MutCurrent(c) == TRUE
Current(c) == call[c].expected = Revision

Commit(c) ==
  /\ call[c].stage = "loaded" /\ lock = Nobody
  /\ IF readable /\ Current(c)
     THEN Put(c, "committing") /\ lock' = c /\ UNCHANGED answer
     ELSE Say(c, Refused) /\ UNCHANGED lock
  /\ UNCHANGED <<storage, promised, restarts>>

\* persist: the temporary file, written and synced.
WriteTemporary(c) ==
  /\ call[c].stage = "committing" /\ leftover < Nonces
  /\ Put(c, "written")
  /\ UNCHANGED <<storage, lock, answer, promised, restarts>>

Rename(c) ==
  LET m == call[c] IN
  /\ m.stage = "written" /\ Revision < MaxRevision
  /\ file' = Append(file, Effect(m.kind, m.vault, At(m.base), Revision + 1))
  /\ call' = [call EXCEPT ![c].stage = "renamed", ![c].made = Revision + 1]
  /\ UNCHANGED <<synced, readable, leftover, lock, answer, promised, restarts>>

\* A step of persist fails, before the rename or after it.
PersistFails(c) ==
  /\ call[c].stage \in {"committing", "written", "renamed"}
  /\ Say(c, Failed)
  /\ lock' = Nobody
  /\ UNCHANGED <<storage, promised, restarts>>

\* The new Vault's ID, as create tells it: one that was not there before.
CreatedIds(c) ==
  IF ~Adding(call[c].kind) THEN {call[c].vault}
  ELSE {v \in Vault : At(Revision)[v] # Absent /\ At(call[c].before)[v] = Absent}

\* What sync_directory makes durable.
Durable == Revision

\* sync_directory, and the answer.
SyncDirectory(c) ==
  /\ call[c].stage = "renamed"
  /\ synced' = Durable
  /\ promised' = call[c].made
  /\ lock' = Nobody
  /\ \E v \in CreatedIds(c) : Say(c, Success(v))
  /\ UNCHANGED <<file, readable, leftover, restarts>>

-----------------------------------------------------------------------------
\* The process ends at any point.  What it had renamed stays, unless the power
\* fails before the directory is synced; its temporary file stays, in the way of
\* the next process if that has the same number.
Restart ==
  /\ restarts < MaxRestarts
  /\ restarts' = restarts + 1
  /\ \E n \in synced .. Revision, powerLoss \in BOOLEAN :
       /\ ~powerLoss => n = Revision
       /\ file' = SubSeq(file, 1, n)
       /\ synced' = IF powerLoss THEN n ELSE synced
  /\ leftover' \in {0, leftover + IF \E c \in Client : call[c].stage = "written" THEN 1 ELSE 0}
  /\ lock' = Nobody
  /\ call' = [c \in Client |-> NoCall]
  /\ answer' = [c \in Client |-> NoAnswer]
  /\ UNCHANGED <<readable, promised>>

\* The revisions a client may name: one it was told of, or any.
Nameable == IF Predict THEN 0 .. MaxRevision ELSE 0 .. Revision

Step(c) ==
  \/ ReadIds(c) \/ Load(c) \/ LoadNothingToDo(c) \/ LoadRefused(c) \/ ReadFails(c)
  \/ Commit(c) \/ WriteTemporary(c) \/ Rename(c) \/ SyncDirectory(c) \/ PersistFails(c)

Next ==
  \/ \E c \in Client :
       \/ Step(c)
       \/ \E kind \in Kind, v \in Vault, r \in Nameable :
            Ask(c, kind, v, r)
  \/ Restart

Spec == Init /\ [][Next]_vars

-----------------------------------------------------------------------------
(* Properties.                                                             *)

Stage == {"idle", "asked", "listed", "loaded", "committing", "written", "renamed"}

Call == [stage : Stage, kind : Kind \cup {"none"}, vault : Vault \cup {NoVault},
         expected : Nat, before : Nat, base : Nat, made : Nat]

\* The shape of the state: only the lock's holder is past its second read, what
\* a client was told is durable and what is durable is in the file.
TypeOK ==
  /\ file \in Seq([Vault -> Definition])
  /\ synced \in 0 .. Revision /\ promised \in 0 .. synced
  /\ readable \in BOOLEAN /\ leftover \in 0 .. Nonces /\ restarts \in Nat
  /\ lock \in Client \cup {Nobody}
  /\ call \in [Client -> Call]
  /\ answer \in [Client -> Answer]
  /\ \A c \in Client : call[c].stage \in {"committing", "written", "renamed"} <=> lock = c

\* A call as its client sees it.
Asked(c) == [kind |-> call[c].kind, vault |-> call[c].vault, expected |-> call[c].expected,
             made |-> call[c].made]

Promise == INSTANCE RegistryPromise WITH
  Named <- 0 .. MaxRevision, history <- file, kept <- promised, call <- [c \in Client |-> Asked(c)]

\* The registry keeps RegistryPromise: no change is made on top of another than
\* the one its client saw, none that was answered with success is ever lost, no
\* refused one was made, and an unreadable file is left alone.
PromiseKept == Promise!Spec
=============================================================================

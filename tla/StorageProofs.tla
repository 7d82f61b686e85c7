----------------------------- MODULE StorageProofs -----------------------------
(***************************************************************************)
(* What is kept on disk: the registry of Vaults, and the notes of one.     *)
(*                                                                         *)
(* The registry keeps its promise, for any Vaults, clients and bounds, as  *)
(* long as clients name revisions they were told of.  Two facts carry the  *)
(* proof.  Only the lock's holder changes the file, so what it compared    *)
(* under the lock still holds when it renames.  And a call's definitions   *)
(* were read after it was asked, so they are no older than the revision it *)
(* names: when that is still the file's, they are the file's.              *)
(*                                                                         *)
(* A note that is written or moved loses nobody's text, and an operation   *)
(* on many notes is all done or all undone, for any notes and any number   *)
(* of saves, operations and faults.  WritesShape says what a task is and   *)
(* what each step has put where; TextInv where a text is while a write has *)
(* displaced it and may still put it back; PlanInv that the journal and    *)
(* the tasks are the plan, and MarkInv that the notes that bear the        *)
(* operation's mark, and the paths that are away, are those in the journal *)
(* going forward and those still to be undone going back.                  *)
(***************************************************************************)
EXTENDS Registry, NoteWrites, FiniteSetTheorems, SequenceTheorems, TLAPS


Line == Seq([Vault -> Definition])
Committing == {"committing", "written"}
Read == Committing \cup {"loaded"}

\* What a call under way knows of the file.
CallAgrees(c) ==
  LET m == call[c] IN
  /\ m.stage = "idle" => m = NoCall
  /\ m.stage # "idle" => m.kind \in Kind /\ m.vault \in Vault /\ m.expected <= Revision
  /\ m.stage # "renamed" => m.made = 0
  /\ m.stage = "listed" => Adding(m.kind)
  /\ m.stage = "written" => leftover < Nonces
  /\ Adding(m.kind) /\ m.stage \in Read \cup {"listed"} =>
       m.expected <= m.before /\ m.before <= Revision
  /\ m.stage \in Read =>
       /\ readable
       /\ m.expected <= m.base /\ m.base <= Revision
       /\ ~Adding(m.kind) => m.base = m.expected
       /\ Fits(m.kind, m.vault, At(m.base))
       /\ ~Idle(m.kind, m.vault, At(m.base))
  /\ m.stage \in Committing => m.expected = Revision
  /\ m.stage = "renamed" =>
       /\ m.made = Revision /\ Revision # 0
       /\ Adding(m.kind) => /\ m.before = Revision - 1
                            /\ At(m.before)[m.vault] = Absent
                            /\ file[Revision] = Effect(m.kind, m.vault, At(m.before), Revision)

CallsAgree == \A c \in Client : CallAgrees(c)
IInv == TypeOK /\ CallsAgree /\ Revision <= MaxRevision

-----------------------------------------------------------------------------
(* What a change makes of the definitions.                                 *)

LEMMA NoVaultsIsTyped == NoVaults \in [Vault -> Definition]
  BY DEF NoVaults, Absent, Definition

\* A change that fits leaves definitions.
LEMMA EffectIsTyped ==
  ASSUME NEW kind \in Kind, NEW v \in Vault, NEW d \in [Vault -> Definition], NEW r \in Nat,
         Fits(kind, v, d)
  PROVE  Effect(kind, v, d, r) \in [Vault -> Definition]
<1> DEFINE e == Effect(kind, v, d, r)
<1>1. CASE kind = "add"
  BY <1>1 DEF Effect, Definition
<1>2. CASE kind = "edit"
  BY <1>2 DEF Effect, Definition
<1>3. CASE kind = "enable"
  BY <1>3 DEF Effect, Definition
<1>4. CASE kind = "disable"
  BY <1>4 DEF Effect, Definition
<1>5. CASE kind = "disconnect"
  BY <1>5 DEF Effect, Definition, Absent
<1>6. CASE kind = "add_disabled"
  BY <1>6 DEF Effect, Definition
<1> QED BY <1>1, <1>2, <1>3, <1>4, <1>5, <1>6 DEF Kind

\* The only Vault an addition brings is the one it is about.
LEMMA AdditionBringsOne ==
  ASSUME NEW v \in Vault, NEW d \in [Vault -> Definition], NEW r \in Nat, d[v] = Absent,
         NEW kind, Adding(kind)
  PROVE  {w \in Vault : Effect(kind, v, d, r)[w] # Absent /\ d[w] = Absent} = {v}
  BY DEF Effect, Absent, Adding

\* The file's definitions, of a revision it has.
LEMMA AtIsTyped ==
  ASSUME file \in Line, NEW n \in 0 .. Revision
  PROVE  At(n) \in [Vault -> Definition]
  BY NoVaultsIsTyped DEF At, Revision, Line

\* A client's answer is one of those there are.
LEMMA AnswersAreTyped ==
  /\ NoAnswer \in Answer /\ Refused \in Answer /\ Failed \in Answer
  /\ \A v \in Vault : Success(v) \in Answer
  BY DEF Answer

-----------------------------------------------------------------------------
(* Steps.                                                                  *)

\* A step that leaves the file alone disturbs no other client's call.
LEMMA OthersAgree ==
  ASSUME CallsAgree, UNCHANGED <<file, readable, leftover>>, NEW c \in Client, CallAgrees(c)',
         \A d \in Client \ {c} : call'[d] = call[d]
  PROVE  CallsAgree'
<1> SUFFICES ASSUME NEW d \in Client \ {c} PROVE CallAgrees(d)'
  BY DEF CallsAgree
<1>1. CallAgrees(d) /\ call'[d] = call[d] /\ UNCHANGED <<file, readable, leftover>>
  BY DEF CallsAgree
<1>2. Revision' = Revision /\ \A n : At(n)' = At(n)
  BY <1>1 DEF Revision, At
<1> QED BY <1>1, <1>2 DEF CallAgrees

\* The start satisfies the invariant.
LEMMA InitAgrees == Init => IInv
<1> SUFFICES ASSUME Init PROVE IInv OBVIOUS
<1> USE AnswersAreTyped, RegistryAssumption
<1>1. TypeOK
  <2>1. NoCall \in Call
    BY DEF NoCall, Call, Stage
  <2>2. file \in Line /\ Revision = 0
    BY DEF Init, Line, Revision
  <2>3. \A d \in Client : call[d].stage = "idle"
    BY DEF Init, NoCall
  <2> QED BY <2>1, <2>2, <2>3 DEF Init, TypeOK, Line
<1>2. CallsAgree
  BY DEF Init, CallsAgree, CallAgrees, NoCall, Revision, Read, Committing
<1>3. Revision <= MaxRevision
  BY DEF Init, Revision
<1> QED BY <1>1, <1>2, <1>3 DEF IInv

\* A client asks, naming a revision it was told of.
LEMMA AskAgrees ==
  ASSUME IInv, NEW c \in Client, NEW kind \in Kind, NEW v \in Vault, NEW r \in 0 .. Revision,
         Ask(c, kind, v, r)
  PROVE  IInv'
<1> DEFINE asked == Asking(kind, v, r)
<1>a. /\ Revision \in Nat /\ call \in [Client -> Call] /\ CallsAgree
      /\ UNCHANGED <<file, synced, readable, leftover, lock, promised, restarts>>
  BY DEF IInv, TypeOK, Revision, Ask, storage
<1>b. asked \in Call
  BY <1>a DEF Asking, Call, Stage
<1>c. call' = [call EXCEPT ![c] = asked]
  BY DEF Ask
<1>d. call' \in [Client -> Call] /\ call'[c] = asked /\ \A d \in Client \ {c} : call'[d] = call[d]
  BY <1>a, <1>b, <1>c
<1>1. TypeOK'
  <2>1. answer' \in [Client -> Answer]
    BY AnswersAreTyped DEF Ask, IInv, TypeOK
  <2>2. \A d \in Client : call'[d].stage \in {"committing", "written", "renamed"} <=> lock' = d
    <3>1. call[c].stage = "idle"
      BY DEF Ask, NoCall
    <3> QED BY <1>a, <1>d, <3>1 DEF IInv, TypeOK, Asking
  <2> QED BY <1>a, <1>d, <2>1, <2>2 DEF IInv, TypeOK, Revision
<1>2. CallAgrees(c)'
  BY <1>a, <1>d DEF CallAgrees, Asking, Read, Committing, Revision
<1> QED BY <1>1, <1>2, <1>a, <1>d, OthersAgree DEF IInv, Revision

\* What every proof of a step starts from.
LEMMA Shape ==
  ASSUME IInv
  PROVE  /\ Revision \in Nat /\ file \in Line /\ call \in [Client -> Call]
         /\ answer \in [Client -> Answer] /\ lock \in Client \cup {Nobody}
         /\ synced \in 0 .. Revision /\ promised \in 0 .. synced
         /\ \A d \in Client : call[d].stage \in Committing \cup {"renamed"} <=> lock = d
  BY DEF IInv, TypeOK, Revision, Line, Committing

\* A call ends, and gives back the lock if it held it.
LEMMA SayAgrees ==
  ASSUME IInv, NEW c \in Client, NEW result \in Answer, Say(c, result),
         UNCHANGED <<file, readable, leftover, restarts>>,
         lock' = IF lock = c THEN Nobody ELSE lock,
         synced' \in 0 .. Revision, promised' \in 0 .. synced'
  PROVE  IInv'
<1>a. /\ call' = [call EXCEPT ![c] = NoCall] /\ NoCall \in Call /\ NoCall.stage = "idle"
      /\ answer' = [answer EXCEPT ![c] = result]
  BY DEF Say, NoCall, Call, Stage
<1>b. /\ call' \in [Client -> Call] /\ call'[c] = NoCall /\ answer' \in [Client -> Answer]
      /\ \A d \in Client \ {c} : call'[d] = call[d]
  BY <1>a, Shape
<1>1. \A d \in Client : call'[d].stage \in Committing \cup {"renamed"} <=> lock' = d
  BY <1>a, <1>b, Shape, RegistryAssumption DEF Committing
<1>2. TypeOK'
  BY <1>b, <1>1, Shape, RegistryAssumption DEF IInv, TypeOK, Committing, Revision
<1>3. CallAgrees(c)'
  BY <1>b DEF CallAgrees, NoCall, Read, Committing
<1> QED BY <1>2, <1>3, <1>b, OthersAgree DEF IInv, Revision

\* A call moves on to a stage on the same side of the lock.
LEMMA MoveAgrees ==
  ASSUME IInv, NEW c \in Client, NEW m \in Call, call' = [call EXCEPT ![c] = m],
         UNCHANGED <<storage, lock, answer, promised, restarts>>,
         m.stage \in Committing \cup {"renamed"} <=> call[c].stage \in Committing \cup {"renamed"},
         CallAgrees(c)'
  PROVE  IInv'
<1>a. /\ call' \in [Client -> Call] /\ call'[c] = m
      /\ \A d \in Client \ {c} : call'[d] = call[d]
  BY Shape
<1>1. \A d \in Client : call'[d].stage \in Committing \cup {"renamed"} <=> lock' = d
  BY <1>a, Shape
<1>2. TypeOK'
  BY <1>a, <1>1, Shape DEF IInv, TypeOK, Committing, Revision, storage
<1> QED BY <1>2, <1>a, OthersAgree DEF IInv, storage, Revision

LEMMA ReadIdsAgrees ==
  ASSUME IInv, NEW c \in Client, ReadIds(c)
  PROVE  IInv'
<1> DEFINE m == [call[c] EXCEPT !.stage = "listed", !.before = Revision]
<1>a. CallAgrees(c) /\ call[c].stage = "asked" /\ Adding(call[c].kind) /\ call[c] \in Call
  BY Shape DEF IInv, CallsAgree, ReadIds
<1>b. m \in Call /\ call' = [call EXCEPT ![c] = m] /\ call'[c] = m /\ Revision' = Revision
  BY <1>a, Shape DEF ReadIds, Call, Stage, storage, Revision
<1>1. CallAgrees(c)'
  BY <1>a, <1>b, Shape DEF CallAgrees, Call, Read, Committing
<1>2. /\ UNCHANGED <<storage, lock, answer, promised, restarts>>
      /\ m.stage \in Committing \cup {"renamed"} <=> call[c].stage \in Committing \cup {"renamed"}
  BY <1>a DEF ReadIds, Committing
<1> HIDE DEF m
<1> QED BY <1>b, <1>1, <1>2, MoveAgrees

LEMMA LoadAgrees ==
  ASSUME IInv, NEW c \in Client, Load(c)
  PROVE  IInv'
<1> DEFINE m == [call[c] EXCEPT !.stage = "loaded", !.base = Revision]
<1>a. /\ CallAgrees(c) /\ Loading(c) /\ Ensured(c) /\ call[c] \in Call
      /\ Fits(call[c].kind, call[c].vault, At(Revision)) /\ ~Idle(call[c].kind, call[c].vault, At(Revision))
  BY Shape DEF IInv, CallsAgree, Load
<1>b. m \in Call /\ call' = [call EXCEPT ![c] = m] /\ call'[c] = m
  BY <1>a, Shape DEF Load, Call, Stage
<1>c. Revision' = Revision /\ (\A n : At(n)' = At(n)) /\ readable'
  BY DEF Load, storage, Revision, At
<1>d. call[c].stage \in {"asked", "listed"} /\ (Adding(call[c].kind) => call[c].stage = "listed")
  BY <1>a DEF Loading
<1>1. CallAgrees(c)'
  BY <1>a, <1>b, <1>c, <1>d, Shape DEF CallAgrees, Call, Read, Committing, Ensured
<1>2. /\ UNCHANGED <<storage, lock, answer, promised, restarts>>
      /\ m.stage \in Committing \cup {"renamed"} <=> call[c].stage \in Committing \cup {"renamed"}
  BY <1>a, <1>d DEF Load, Committing
<1> HIDE DEF m
<1> QED BY <1>b, <1>1, <1>2, MoveAgrees

LEMMA WriteTemporaryAgrees ==
  ASSUME IInv, NEW c \in Client, WriteTemporary(c)
  PROVE  IInv'
<1> DEFINE m == [call[c] EXCEPT !.stage = "written"]
<1>a. /\ CallAgrees(c) /\ call[c].stage = "committing" /\ call[c] \in Call
      /\ leftover' = leftover /\ leftover < Nonces
  BY Shape DEF IInv, CallsAgree, WriteTemporary, storage
<1>b. m \in Call /\ call' = [call EXCEPT ![c] = m] /\ call'[c] = m
  BY <1>a, Shape DEF WriteTemporary, Put, Call, Stage
<1>c. Revision' = Revision /\ (\A n : At(n)' = At(n)) /\ readable' = readable
  BY DEF WriteTemporary, storage, Revision, At
<1>1. CallAgrees(c)'
  BY <1>a, <1>b, <1>c DEF CallAgrees, Call, Read, Committing
<1>2. /\ UNCHANGED <<storage, lock, answer, promised, restarts>>
      /\ m.stage \in Committing \cup {"renamed"} <=> call[c].stage \in Committing \cup {"renamed"}
  BY <1>a DEF WriteTemporary, Committing
<1> HIDE DEF m
<1> QED BY <1>b, <1>1, <1>2, MoveAgrees

\* Under the lock, a call whose revision is still the file's goes on.
LEMMA CommitAgrees ==
  ASSUME IInv, NEW c \in Client, Commit(c)
  PROVE  IInv'
<1>a. CallAgrees(c) /\ call[c].stage = "loaded" /\ call[c] \in Call /\ lock = Nobody
  BY Shape DEF IInv, CallsAgree, Commit
<1>b. readable
  BY <1>a DEF CallAgrees, Read
<1>1. CASE Current(c)
  <2> DEFINE m == [call[c] EXCEPT !.stage = "committing"]
  <2>a. m \in Call /\ call' = [call EXCEPT ![c] = m] /\ call'[c] = m /\ lock' = c
    BY <1>a, <1>b, <1>1, Shape DEF Commit, Put, Call, Stage
  <2>b. /\ \A d \in Client \ {c} : call'[d] = call[d]
        /\ call' \in [Client -> Call] /\ m.stage = "committing"
        /\ UNCHANGED <<storage, answer, promised, restarts>>
    BY <1>a, <1>b, <1>1, <2>a, Shape DEF Commit
  <2>c. Revision' = Revision /\ (\A n : At(n)' = At(n)) /\ readable' = readable
    BY <2>b DEF storage, Revision, At
  <2>1. CallAgrees(c)'
    BY <1>a, <1>1, <2>a, <2>c DEF CallAgrees, Current, Call, Read, Committing
  <2> HIDE DEF m
  <2>2. \A d \in Client : call'[d].stage \in Committing \cup {"renamed"} <=> lock' = d
    BY <1>a, <2>a, <2>b, Shape, RegistryAssumption DEF Committing
  <2>3. TypeOK'
    BY <2>a, <2>b, <2>2, Shape DEF IInv, TypeOK, storage, Committing, Revision
  <2> QED BY <2>1, <2>3, <2>b, OthersAgree DEF IInv, storage, Revision
<1>2. CASE ~Current(c)
  <2>1. /\ Say(c, Refused) /\ UNCHANGED <<file, readable, leftover, restarts, lock, synced, promised>>
        /\ Refused \in Answer /\ lock # c
    BY <1>a, <1>2, AnswersAreTyped, RegistryAssumption DEF Commit, storage
  <2> QED BY <2>1, SayAgrees, Shape
<1> QED BY <1>1, <1>2

\* The file is replaced.  Every other call is outside the lock, and what it read
\* is still there.
LEMMA RenameAgrees ==
  ASSUME IInv, NEW c \in Client, Rename(c)
  PROVE  IInv'
<1> DEFINE new == Effect(call[c].kind, call[c].vault, At(call[c].base), Revision + 1)
           m == [call[c] EXCEPT !.stage = "renamed", !.made = Revision + 1]
<1>a. /\ CallAgrees(c) /\ call[c].stage = "written" /\ call[c] \in Call /\ lock = c
      /\ Revision \in Nat /\ file \in Line
  BY Shape DEF IInv, CallsAgree, Rename, Committing
<1>b. /\ call[c].kind \in Kind /\ call[c].vault \in Vault /\ call[c].base = Revision
      /\ call[c].expected = Revision /\ Fits(call[c].kind, call[c].vault, At(Revision))
      /\ Adding(call[c].kind) => call[c].before = Revision
  BY <1>a DEF CallAgrees, Read, Committing, Call
<1>c. new \in [Vault -> Definition]
  <2>1. At(Revision) \in [Vault -> Definition] /\ Revision + 1 \in Nat
    BY <1>a, AtIsTyped
  <2> QED BY <1>b, <2>1, EffectIsTyped
<1>d. /\ file' = Append(file, new) /\ call' = [call EXCEPT ![c] = m]
      /\ UNCHANGED <<synced, readable, leftover, lock, answer, promised, restarts>>
  BY <1>a, Shape DEF Rename
<1>e. /\ m \in Call
      /\ m.stage = "renamed" /\ m.made = Revision + 1 /\ m.kind = call[c].kind
      /\ m.vault = call[c].vault /\ m.before = call[c].before /\ m.expected = call[c].expected
  <2>1. Revision + 1 \in Nat
    BY <1>a
  <2> HIDE DEF new
  <2>2. /\ m.stage = "renamed" /\ m.made = Revision + 1 /\ m.kind = call[c].kind
        /\ m.vault = call[c].vault /\ m.before = call[c].before /\ m.expected = call[c].expected
    BY <1>a DEF Call
  <2>3. m \in Call
    BY <1>a, <2>1 DEF Call, Stage
  <2> QED BY <2>2, <2>3
<1> HIDE DEF new, m
<1>f. /\ file' \in Line /\ Revision' = Revision + 1 /\ file'[Revision + 1] = new
      /\ \A n \in 1 .. Revision : file'[n] = file[n]
  BY <1>a, <1>c, <1>d DEF Line, Revision
<1>g. \A n \in 0 .. Revision : At(n)' = At(n)
  BY <1>a, <1>f DEF At
<1>h. /\ call' \in [Client -> Call] /\ call'[c] = m
      /\ \A d \in Client \ {c} : call'[d] = call[d]
  BY <1>d, <1>e, Shape
<1>1. TypeOK'
  <2>1. \A d \in Client : call'[d].stage \in Committing \cup {"renamed"} <=> lock' = d
    BY <1>a, <1>d, <1>e, <1>h, Shape
  <2>2. synced \in 0 .. Revision'
    BY <1>a, <1>f, Shape
  <2> QED BY <1>d, <1>f, <1>h, <2>1, <2>2, Shape DEF IInv, TypeOK, Line, Committing, Revision
<1>2. CallAgrees(c)'
  <2>1. Adding(call[c].kind) =>
          /\ At(call[c].before)' = At(Revision) /\ At(Revision)[call[c].vault] = Absent
          /\ file'[Revision'] = Effect(call[c].kind, call[c].vault, At(Revision), Revision')
    <3>1. Adding(call[c].kind) => At(Revision)[call[c].vault] = Absent
      BY <1>b DEF Fits
    <3>2. Adding(call[c].kind) => new = Effect(call[c].kind, call[c].vault, At(Revision), Revision + 1)
      BY <1>b DEF new
    <3>3. Adding(call[c].kind) => call'[c].before = Revision /\ At(call[c].before)' = At(Revision)
      <4>1. Adding(call[c].kind) => call'[c].before = Revision
        BY <1>b, <1>e, <1>h
      <4> QED BY <1>a, <1>g, <4>1
    <3> QED BY <1>f, <3>1, <3>2, <3>3
  <2> QED BY <1>a, <1>b, <1>e, <1>f, <1>h, <2>1 DEF CallAgrees, Read, Committing
<1>i. leftover' = leftover /\ Revision' <= MaxRevision
  BY <1>a, <1>d, <1>f, RegistryAssumption DEF Rename
<1>3. ASSUME NEW d \in Client \ {c} PROVE CallAgrees(d)'
  <2>1. /\ CallAgrees(d) /\ call'[d] = call[d] /\ call[d] \in Call
        /\ call[d].stage \notin Committing \cup {"renamed"}
    BY <1>a, <1>h, Shape DEF IInv, CallsAgree
  <2>2. call[d].stage \in Read => At(call[d].base)' = At(call[d].base)
    <3>1. call[d].stage \in Read => call[d].base \in 0 .. Revision
      BY <1>a, <2>1 DEF CallAgrees, Call
    <3> QED BY <1>a, <1>g, <2>1, <3>1
  <2>3. Revision \in Nat /\ Revision' = Revision + 1
    BY <1>a, <1>f
  <2>4. /\ call[d].stage \in {"idle", "asked", "listed", "loaded"} /\ readable' = readable
        /\ call[d].expected \in Nat /\ call[d].before \in Nat /\ call[d].base \in Nat
    BY <1>d, <2>1 DEF Call, Stage, Committing
  <2> QED BY <2>1, <2>2, <2>3, <2>4 DEF CallAgrees, Read, Committing
<1> QED BY <1>1, <1>2, <1>3, <1>i DEF IInv, CallsAgree

\* A new Vault's client is told the ID of its Vault.
LEMMA CreatedIsNamed ==
  ASSUME IInv, NEW c \in Client, call[c].stage = "renamed"
  PROVE  CreatedIds(c) = {call[c].vault}
<1>a. CallAgrees(c) /\ call[c] \in Call /\ Revision \in Nat /\ file \in Line
  BY Shape DEF IInv, CallsAgree
<1>1. CASE ~Adding(call[c].kind)
  BY <1>1 DEF CreatedIds
<1>2. CASE Adding(call[c].kind)
  <2>1. /\ Revision # 0 /\ call[c].before = Revision - 1 /\ At(call[c].before)[call[c].vault] = Absent
        /\ At(Revision) = Effect(call[c].kind, call[c].vault, At(call[c].before), Revision)
    BY <1>a, <1>2 DEF CallAgrees, At
  <2>2. At(call[c].before) \in [Vault -> Definition] /\ call[c].vault \in Vault
    BY <1>a, <1>2, <2>1, AtIsTyped DEF Call, CallAgrees
  <2> QED BY <1>a, <1>2, <2>1, <2>2, AdditionBringsOne DEF CreatedIds
<1> QED BY <1>1, <1>2

LEMMA SyncDirectoryAgrees ==
  ASSUME IInv, NEW c \in Client, SyncDirectory(c)
  PROVE  IInv'
<1>a. CallAgrees(c) /\ call[c].stage = "renamed" /\ lock = c /\ call[c] \in Call
  BY Shape DEF IInv, CallsAgree, SyncDirectory
<1>1. Say(c, Success(call[c].vault)) /\ Success(call[c].vault) \in Answer
  BY <1>a, CreatedIsNamed, AnswersAreTyped DEF SyncDirectory, CallAgrees
<1>2. synced' \in 0 .. Revision /\ promised' \in 0 .. synced'
  BY <1>a, Shape DEF SyncDirectory, CallAgrees, Durable
<1> QED BY <1>a, <1>1, <1>2, SayAgrees DEF SyncDirectory

LEMMA RestartAgrees ==
  ASSUME IInv, Restart
  PROVE  IInv'
<1>a. call' = [c \in Client |-> NoCall] /\ NoCall \in Call /\ NoCall.stage = "idle"
  BY DEF Restart, NoCall, Call, Stage
<1>b. PICK n \in synced .. Revision, powerLoss \in BOOLEAN :
        /\ ~powerLoss => n = Revision
        /\ file' = SubSeq(file, 1, n)
        /\ synced' = IF powerLoss THEN n ELSE synced
  BY DEF Restart
<1>c. n \in 0 .. Revision /\ file' \in Line /\ Revision' = n
  BY <1>b, Shape DEF Line, Revision
<1>1. synced' \in 0 .. Revision' /\ promised' \in 0 .. synced'
  BY <1>b, <1>c, Shape DEF Restart
<1>2. \A c \in Client : call'[c].stage \notin Committing \cup {"renamed"} /\ lock' # c
  BY <1>a, RegistryAssumption DEF Restart, Committing
<1>3. leftover' \in 0 .. Nonces
  <2>1. CASE \E c \in Client : call[c].stage = "written"
    <3>1. leftover < Nonces
      BY <2>1, Shape DEF IInv, CallsAgree, CallAgrees
    <3> QED BY <2>1, <3>1, RegistryAssumption DEF Restart, IInv, TypeOK
  <2>2. CASE ~\E c \in Client : call[c].stage = "written"
    BY <2>2, RegistryAssumption DEF Restart, IInv, TypeOK
  <2> QED BY <2>1, <2>2
<1>4. TypeOK'
  BY <1>a, <1>c, <1>1, <1>2, <1>3, AnswersAreTyped, RegistryAssumption
  DEF Restart, IInv, TypeOK, Line, Committing, Revision
<1>5. CallsAgree'
  BY <1>a DEF CallsAgree, CallAgrees, NoCall, Read, Committing
<1>6. Revision' <= MaxRevision
  BY <1>b, <1>c, Shape, RegistryAssumption DEF IInv
<1> QED BY <1>4, <1>5, <1>6 DEF IInv

\* A call that had nothing to do, or was refused, never had the lock.
LEMMA LoadNothingToDoAgrees ==
  ASSUME IInv, NEW c \in Client, LoadNothingToDo(c)
  PROVE  IInv'
<1>1. call[c] \in Call /\ call[c].stage \in {"asked", "listed"}
  BY Shape DEF LoadNothingToDo, Loading
<1>2. Success(call[c].vault) \in Answer /\ lock # c
  BY <1>1, AnswersAreTyped, Shape DEF IInv, CallsAgree, CallAgrees, Committing
<1> QED BY <1>2, SayAgrees, Shape DEF LoadNothingToDo, storage

LEMMA LoadRefusedAgrees ==
  ASSUME IInv, NEW c \in Client, LoadRefused(c)
  PROVE  IInv'
<1>1. call[c].stage \in {"asked", "listed"}
  BY DEF LoadRefused, Loading
<1>2. lock # c
  BY <1>1, Shape DEF Committing
<1> QED BY <1>2, AnswersAreTyped, SayAgrees, Shape DEF LoadRefused, storage

LEMMA ReadFailsAgrees ==
  ASSUME IInv, NEW c \in Client, ReadFails(c)
  PROVE  IInv'
<1>1. lock # c
  BY Shape DEF ReadFails, Committing
<1> QED BY <1>1, AnswersAreTyped, SayAgrees, Shape DEF ReadFails, storage

LEMMA PersistFailsAgrees ==
  ASSUME IInv, NEW c \in Client, PersistFails(c)
  PROVE  IInv'
<1>1. lock = c
  BY Shape DEF PersistFails, Committing
<1> QED BY <1>1, AnswersAreTyped, SayAgrees, Shape DEF PersistFails, storage

LEMMA NextAgrees ==
  ASSUME ~Predict, IInv, [Next]_vars
  PROVE  IInv'
<1>1. ASSUME NEW c \in Client, Step(c) PROVE IInv'
  <2>1. CASE ReadIds(c)          BY <2>1, ReadIdsAgrees
  <2>2. CASE Load(c)             BY <2>2, LoadAgrees
  <2>3. CASE LoadNothingToDo(c)  BY <2>3, LoadNothingToDoAgrees
  <2>4. CASE LoadRefused(c)      BY <2>4, LoadRefusedAgrees
  <2>5. CASE Commit(c)           BY <2>5, CommitAgrees
  <2>6. CASE WriteTemporary(c)   BY <2>6, WriteTemporaryAgrees
  <2>7. CASE Rename(c)           BY <2>7, RenameAgrees
  <2>8. CASE SyncDirectory(c)    BY <2>8, SyncDirectoryAgrees
  <2>9. CASE PersistFails(c)     BY <2>9, PersistFailsAgrees
  <2>10. CASE ReadFails(c)       BY <2>10, ReadFailsAgrees
  <2> QED BY <1>1, <2>1, <2>2, <2>3, <2>4, <2>5, <2>6, <2>7, <2>8, <2>9, <2>10 DEF Step
<1>2. ASSUME NEW c \in Client, NEW kind \in Kind, NEW v \in Vault, NEW r \in Nameable,
             Ask(c, kind, v, r)
      PROVE  IInv'
  <2>1. r \in 0 .. Revision
    BY DEF Nameable
  <2> QED BY <1>2, <2>1, AskAgrees
<1>3. CASE Restart
  BY <1>3, RestartAgrees
<1>4. CASE UNCHANGED vars
  BY <1>4 DEF IInv, TypeOK, CallsAgree, CallAgrees, vars, Revision, At
<1> QED BY <1>1, <1>2, <1>3, <1>4 DEF Next

\* The invariant of every behaviour.
LEMMA AlwaysAgrees == ~Predict => (Spec => []IInv)
<1> SUFFICES ASSUME ~Predict PROVE Spec => []IInv OBVIOUS
<1>1. Init => IInv
  BY InitAgrees
<1>2. IInv /\ [Next]_vars => IInv'
  BY NextAgrees
<1> QED BY <1>1, <1>2, PTL DEF Spec

\* Type correctness: what is promised is synced, what is synced is in the file,
\* and only the lock's holder is past the second read.
THEOREM TypeCorrect == ~Predict => (Spec => []TypeOK)
<1>1. IInv => TypeOK
  BY DEF IInv
<1> QED BY <1>1, AlwaysAgrees, PTL

-----------------------------------------------------------------------------
(* Each step is one of the promise's, or none.                             *)

\* A call as its client sees it, and one that is not under way.
SeenCalls == [c \in Client |-> Asked(c)]

LEMMA SameDefinitions ==
  /\ Promise!NoVault = NoVault /\ Promise!NoVaults = NoVaults /\ Promise!Absent = Absent
  /\ Promise!NoAnswer = NoAnswer /\ Promise!Refused = Refused /\ Promise!Failed = Failed
  /\ \A v : Promise!Success(v) = Success(v)
  BY DEF Promise!NoVault, NoVault, Promise!NoVaults, NoVaults, Promise!Absent, Absent,
         Promise!NoAnswer, NoAnswer, Promise!Refused, Refused, Promise!Failed, Failed,
         Promise!Success, Success

LEMMA SameFitsAndIdle ==
  /\ \A kind, v, d : Promise!Fits(kind, v, d) = Fits(kind, v, d)
  /\ \A kind, v, d : Promise!Idle(kind, v, d) = Idle(kind, v, d)
  BY DEF Promise!Fits, Fits, Promise!Adding, Adding, Promise!Absent, Absent, Promise!Idle, Idle

LEMMA SameEffect ==
  ASSUME NEW kind, NEW v, NEW d, NEW r
  PROVE  Promise!Effect(kind, v, d, r) = Effect(kind, v, d, r)
  BY DEF Promise!Effect, Effect, Promise!Absent, Absent

LEMMA SameLatest == IInv => Promise!Latest = At(Revision)
  BY Shape, SameDefinitions DEF Promise!Latest, At, Revision, Line

\* What a client sees of a call that moved, and of the others.
LEMMA SeenMoves ==
  ASSUME call \in [Client -> Call], NEW c \in Client, NEW m, call' = [call EXCEPT ![c] = m]
  PROVE  SeenCalls' = [SeenCalls EXCEPT ![c] =
           [kind |-> m.kind, vault |-> m.vault, expected |-> m.expected, made |-> m.made]]
<1>1. \A d \in Client : call'[d] = IF d = c THEN m ELSE call[d]
  OBVIOUS
<1> QED BY <1>1 DEF SeenCalls, Asked

\* A call under way is seen as one, and an idle one as none.
LEMMA SeenUnderWay ==
  ASSUME IInv, NEW c \in Client
  PROVE  /\ call[c].stage = "idle" => SeenCalls[c] = Promise!NoCall
         /\ call[c].stage # "idle" => SeenCalls[c] # Promise!NoCall
         /\ SeenCalls[c].kind = call[c].kind /\ SeenCalls[c].vault = call[c].vault
         /\ SeenCalls[c].expected = call[c].expected /\ SeenCalls[c].made = call[c].made
<1>1. CallAgrees(c)
  BY DEF IInv, CallsAgree
<1>2. SeenCalls[c] = Asked(c)
  BY DEF SeenCalls
<1>3. call[c].stage = "idle" => Asked(c) = Promise!NoCall
  BY <1>1, SameDefinitions DEF CallAgrees, Asked, NoCall, Promise!NoCall
<1>4. call[c].stage # "idle" => Asked(c) # Promise!NoCall
  BY <1>1 DEF CallAgrees, Asked, Promise!NoCall, Kind
<1> QED BY <1>2, <1>3, <1>4 DEF Asked

\* A call that ends is told its answer.
LEMMA SayTells ==
  ASSUME IInv, NEW c \in Client, NEW result, Say(c, result), call[c].stage # "idle",
         UNCHANGED <<file, readable>>
  PROVE  Promise!Tell(c, result)
<1>1. SeenCalls' = [SeenCalls EXCEPT ![c] = Promise!NoCall]
  <2>1. Promise!NoCall = [kind |-> NoCall.kind, vault |-> NoCall.vault,
                          expected |-> NoCall.expected, made |-> NoCall.made]
    BY SameDefinitions DEF NoCall, Promise!NoCall
  <2>2. call' = [call EXCEPT ![c] = NoCall]
    BY DEF Say
  <2> QED BY <2>1, <2>2, SeenMoves, Shape
<1> QED BY <1>1, SeenUnderWay DEF Promise!Tell, SeenCalls, Say

LEMMA AskIsPromised ==
  ASSUME IInv, NEW c \in Client, NEW kind \in Kind, NEW v \in Vault, NEW r \in 0 .. Revision,
         Ask(c, kind, v, r)
  PROVE  Promise!Next
<1>1. SeenCalls' = [SeenCalls EXCEPT ![c] =
        [kind |-> kind, vault |-> v, expected |-> r, made |-> 0]]
  <2>1. call' = [call EXCEPT ![c] = Asking(kind, v, r)]
    BY DEF Ask
  <2> QED BY <2>1, SeenMoves, Shape DEF Asking
<1>2. SeenCalls[c] = Promise!NoCall
  BY SeenUnderWay DEF Ask, NoCall
<1>3. kind \in Promise!Kind /\ r \in 0 .. MaxRevision
  BY Shape, RegistryAssumption DEF IInv, Kind, Promise!Kind
<1>4. Promise!Ask(c)
  BY <1>1, <1>2, <1>3, SameDefinitions DEF Promise!Ask, Ask, SeenCalls, storage
<1> QED BY <1>4 DEF Promise!Next

\* A step before the rename shows nothing.
LEMMA MoveIsHidden ==
  ASSUME IInv, NEW c \in Client, NEW m, call' = [call EXCEPT ![c] = m],
         m.kind = call[c].kind, m.vault = call[c].vault, m.expected = call[c].expected,
         m.made = call[c].made, UNCHANGED <<file, promised, readable, answer>>
  PROVE  UNCHANGED Promise!vars
<1>1. SeenCalls' = SeenCalls
  <2>1. \A d \in Client : Asked(d)' = Asked(d)
    <3>1. \A d \in Client : call'[d] = IF d = c THEN m ELSE call[d]
      BY Shape
    <3> QED BY <3>1 DEF Asked
  <2> QED BY <2>1 DEF SeenCalls
<1> QED BY <1>1 DEF Promise!vars, SeenCalls

\* The rename is the change, out of the revision the call named.
LEMMA RenameIsPromised ==
  ASSUME IInv, NEW c \in Client, Rename(c)
  PROVE  Promise!Apply(c)
<1> DEFINE m == [call[c] EXCEPT !.stage = "renamed", !.made = Revision + 1]
<1>a. /\ call[c].stage = "written" /\ call[c] \in Call /\ CallAgrees(c)
      /\ call' = [call EXCEPT ![c] = m]
      /\ file' = Append(file, Effect(call[c].kind, call[c].vault, At(call[c].base), Revision + 1))
      /\ UNCHANGED <<readable, promised, answer>>
  BY Shape DEF Rename, IInv, CallsAgree
<1>b. /\ call[c].base = Revision /\ call[c].expected = Revision /\ call[c].made = 0 /\ readable
      /\ Fits(call[c].kind, call[c].vault, At(Revision)) /\ ~Idle(call[c].kind, call[c].vault, At(Revision))
  BY <1>a, Shape DEF CallAgrees, Read, Committing, Call
<1>1. SeenCalls' = [SeenCalls EXCEPT ![c].made = Revision + 1]
  <2>1. SeenCalls' = [SeenCalls EXCEPT ![c] =
          [kind |-> m.kind, vault |-> m.vault, expected |-> m.expected, made |-> m.made]]
    <3> HIDE DEF m
    <3> QED BY <1>a, SeenMoves, Shape
  <2>2. [kind |-> m.kind, vault |-> m.vault, expected |-> m.expected, made |-> m.made]
          = [SeenCalls[c] EXCEPT !.made = Revision + 1]
    BY <1>a DEF SeenCalls, Asked, Call
  <2> QED BY <2>1, <2>2
<1> QED BY <1>a, <1>b, <1>1, SeenUnderWay, SameLatest, SameFitsAndIdle, SameEffect
    DEF Promise!Apply, SeenCalls, Revision

LEMMA LoadNothingToDoIsPromised ==
  ASSUME IInv, NEW c \in Client, LoadNothingToDo(c)
  PROVE  Promise!Confirm(c)
<1>1. /\ call[c].stage \in {"asked", "listed"} /\ Ensured(c) /\ readable
      /\ Idle(call[c].kind, call[c].vault, At(Revision))
      /\ Say(c, Success(call[c].vault)) /\ UNCHANGED <<file, readable, promised>>
  BY DEF LoadNothingToDo, Loading, storage
<1>2. ~Adding(call[c].kind) /\ call[c].made = 0
  BY <1>1 DEF Idle, Adding, IInv, CallsAgree, CallAgrees
<1>3. Promise!Tell(c, Success(call[c].vault))
  BY <1>1, SayTells
<1> QED BY <1>1, <1>2, <1>3, SeenUnderWay, SameDefinitions, SameFitsAndIdle, SameLatest
    DEF Promise!Confirm, Ensured, SeenCalls, Revision

\* A refused call changed nothing.
LEMMA RefusalIsPromised ==
  ASSUME IInv, NEW c \in Client, Say(c, Refused), call[c].stage \in {"asked", "listed", "loaded"},
         UNCHANGED <<file, readable, promised>>
  PROVE  Promise!Refuse(c)
<1>1. Promise!Tell(c, Refused) /\ call[c].made = 0
  BY SayTells DEF IInv, CallsAgree, CallAgrees
<1> QED BY <1>1, SeenUnderWay, SameDefinitions DEF Promise!Refuse, SeenCalls

\* A success names the Vault that was asked for, and a revision on the disk.
LEMMA SyncDirectoryIsPromised ==
  ASSUME IInv, NEW c \in Client, SyncDirectory(c)
  PROVE  Promise!Succeed(c)
<1>1. /\ CallAgrees(c) /\ call[c].stage = "renamed" /\ promised' = call[c].made
      /\ UNCHANGED <<file, readable>> /\ Say(c, Success(call[c].vault))
  BY CreatedIsNamed DEF IInv, CallsAgree, SyncDirectory
<1>2. call[c].made = Revision /\ Revision # 0
  BY <1>1 DEF CallAgrees
<1>3. Promise!Tell(c, Success(call[c].vault))
  BY <1>1, SayTells
<1>4. promised' = IF call[c].made > promised THEN call[c].made ELSE promised
  BY <1>1, <1>2, Shape
<1> QED BY <1>2, <1>3, <1>4, SeenUnderWay, SameDefinitions DEF Promise!Succeed, SeenCalls

LEMMA FailureIsPromised ==
  ASSUME IInv, NEW c \in Client, PersistFails(c) \/ ReadFails(c)
  PROVE  Promise!Fail(c)
<1>1. Promise!Tell(c, Failed) /\ promised' = promised
  BY SayTells DEF PersistFails, ReadFails, storage
<1> QED BY <1>1, SameDefinitions DEF Promise!Fail

\* What a restart takes back, nobody was told of.
LEMMA RestartIsPromised ==
  ASSUME IInv, Restart
  PROVE  Promise!Restart
<1>1. \E n \in promised .. Len(file) : file' = SubSeq(file, 1, n)
  <2>1. PICK n \in synced .. Revision : file' = SubSeq(file, 1, n)
    BY DEF Restart
  <2>2. n \in promised .. Len(file)
    BY <2>1, Shape DEF Revision
  <2> QED BY <2>1, <2>2
<1>2. SeenCalls' = [c \in Client |-> Promise!NoCall]
  <2>1. \A c \in Client : Asked(c)' = Promise!NoCall
    BY SameDefinitions DEF Restart, Asked, NoCall, Promise!NoCall
  <2> QED BY <2>1 DEF SeenCalls
<1>3. /\ answer' = [c \in Client |-> Promise!NoAnswer] /\ UNCHANGED <<readable, promised>>
  BY SameDefinitions DEF Restart
<1> QED BY <1>1, <1>2, <1>3 DEF Promise!Restart, SeenCalls

LEMMA StepIsPromised ==
  ASSUME IInv, NEW c \in Client, Step(c)
  PROVE  Promise!Next \/ UNCHANGED Promise!vars
<1>a. call[c] \in Call
  BY Shape
<1>1. CASE ReadIds(c)
  <2> DEFINE m == [call[c] EXCEPT !.stage = "listed", !.before = Revision]
  <2>1. /\ call' = [call EXCEPT ![c] = m] /\ UNCHANGED <<file, promised, readable, answer>>
        /\ m.kind = call[c].kind /\ m.vault = call[c].vault /\ m.expected = call[c].expected
        /\ m.made = call[c].made
    BY <1>1, <1>a, Shape DEF ReadIds, storage, Call
  <2> HIDE DEF m
  <2> QED BY <2>1, MoveIsHidden
<1>2. CASE Load(c)
  <2> DEFINE m == [call[c] EXCEPT !.stage = "loaded", !.base = Revision]
  <2>1. /\ call' = [call EXCEPT ![c] = m] /\ UNCHANGED <<file, promised, readable, answer>>
        /\ m.kind = call[c].kind /\ m.vault = call[c].vault /\ m.expected = call[c].expected
        /\ m.made = call[c].made
    BY <1>2, <1>a, Shape DEF Load, storage, Call
  <2> HIDE DEF m
  <2> QED BY <2>1, MoveIsHidden
<1>3. CASE LoadNothingToDo(c)
  BY <1>3, LoadNothingToDoIsPromised DEF Promise!Next
<1>4. CASE LoadRefused(c)
  BY <1>4, RefusalIsPromised DEF Promise!Next, LoadRefused, Loading, storage
<1>5. CASE Commit(c)
  <2>a. readable
    BY <1>5 DEF IInv, CallsAgree, CallAgrees, Commit, Read
  <2>1. CASE Current(c)
    <3> DEFINE m == [call[c] EXCEPT !.stage = "committing"]
    <3>1. /\ call' = [call EXCEPT ![c] = m] /\ UNCHANGED <<file, promised, readable, answer>>
          /\ m.kind = call[c].kind /\ m.vault = call[c].vault /\ m.expected = call[c].expected
          /\ m.made = call[c].made
      BY <1>5, <2>a, <2>1, <1>a, Shape DEF Commit, Put, storage, Call
    <3> HIDE DEF m
    <3> QED BY <3>1, MoveIsHidden
  <2>2. CASE ~Current(c)
    BY <1>5, <2>2, RefusalIsPromised DEF Promise!Next, Commit, storage
  <2> QED BY <2>1, <2>2
<1>6. CASE WriteTemporary(c)
  <2> DEFINE m == [call[c] EXCEPT !.stage = "written"]
  <2>1. /\ call' = [call EXCEPT ![c] = m] /\ UNCHANGED <<file, promised, readable, answer>>
        /\ m.kind = call[c].kind /\ m.vault = call[c].vault /\ m.expected = call[c].expected
        /\ m.made = call[c].made
    BY <1>6, <1>a, Shape DEF WriteTemporary, Put, storage, Call
  <2> HIDE DEF m
  <2> QED BY <2>1, MoveIsHidden
<1>7. CASE Rename(c)
  BY <1>7, RenameIsPromised DEF Promise!Next
<1>8. CASE SyncDirectory(c)
  BY <1>8, SyncDirectoryIsPromised DEF Promise!Next
<1>9. CASE PersistFails(c)
  BY <1>9, FailureIsPromised DEF Promise!Next
<1>10. CASE ReadFails(c)
  BY <1>10, FailureIsPromised DEF Promise!Next
<1> QED BY <1>1, <1>2, <1>3, <1>4, <1>5, <1>6, <1>7, <1>8, <1>9, <1>10 DEF Step

\* The registry keeps its promise (vault_registry.rs:1072-1205): every revision
\* is made by one call out of the revision that call named, a success is
\* forever, a refusal changed nothing, and an unreadable file is left alone.
THEOREM PromiseIsKept == ~Predict => (Spec => PromiseKept)
<1> SUFFICES ASSUME ~Predict PROVE Spec => PromiseKept OBVIOUS
<1>1. Init => Promise!Init
  <2> SUFFICES ASSUME Init PROVE Promise!Init OBVIOUS
  <2>1. \A c \in Client : Asked(c) = Promise!NoCall
    BY SameDefinitions DEF Init, Asked, NoCall, Promise!NoCall
  <2> QED BY <2>1, SameDefinitions DEF Init, Promise!Init
<1>2. IInv /\ [Next]_vars => [Promise!Next]_Promise!vars
  <2> SUFFICES ASSUME IInv, [Next]_vars PROVE Promise!Next \/ UNCHANGED Promise!vars OBVIOUS
  <2>1. ASSUME NEW c \in Client, NEW kind \in Kind, NEW v \in Vault, NEW r \in Nameable,
               Ask(c, kind, v, r)
        PROVE  Promise!Next
    <3>1. r \in 0 .. Revision
      BY DEF Nameable
    <3> QED BY <2>1, <3>1, AskIsPromised
  <2>2. CASE Restart
    BY <2>2, RestartIsPromised DEF Promise!Next
  <2>3. CASE UNCHANGED vars
    <3>1. SeenCalls' = SeenCalls
      BY <2>3 DEF vars, SeenCalls, Asked
    <3> QED BY <2>3, <3>1 DEF vars, Promise!vars, SeenCalls
  <2> QED BY <2>1, <2>2, <2>3, StepIsPromised DEF Next
<1> QED BY <1>1, <1>2, AlwaysAgrees, PTL DEF Spec, PromiseKept, Promise!Spec


-----------------------------------------------------------------------------
(***************************************************************************)
(* NoteWrites: what contents, tasks and operations are                     *)
(***************************************************************************)
\* What somebody may have written after s saves and n operations.
Known(s, n) == ({"orig"} \X Path) \cup ({"edit"} \X (1 .. s)) \cup ({"new"} \X (1 .. n))
Text(s, n) == {c \in Seq(Tags \cup Nat) : /\ c # <<>> /\ Head(c) \in Known(s, n)
                                          /\ ToSet(Tail(c)) \subseteq 1 .. n}
Content(s, n) == Text(s, n) \cup {Missing, Gate}

WriteTasks(s, n) ==
  {t \in [do : {"write"}, from : Path, to : Path, expect : Text(s, n), text : Text(s, n)] :
     Tag(t.expect) = Tag(t.text)}
MoveTasks(s, n) ==
  {t \in [do : {"move"}, from : Path, to : Path, expect : Content(s, n), text : {Missing}] :
     t.from # t.to}
PlaceTasks(s, n) ==
  [do : {"create", "replace", "import"}, from : Path, to : Path, expect : {Missing}, text : Text(s, n)]
Undoable(s, n) == WriteTasks(s, n) \cup MoveTasks(s, n)

CallStep == {"none", "begin", "commit", "verify", "undo", "rename", "swap", "check", "verify_move",
             "undo_move", "finish"}
Ops(s, n) ==
  [step : CallStep, tasks : Seq(Undoable(s, n) \cup PlaceTasks(s, n)), journal : Seq(Undoable(s, n)),
   alone : BOOLEAN, unwinding : BOOLEAN, broken : BOOLEAN,
   result : {"none", "ok", "refused", "recovery", "crashed"}]

\* An operation that places a file does nothing else.
Placing(o, s, n) ==
  /\ \E t \in PlaceTasks(s, n) : o.tasks = <<t>>
  /\ o.journal = <<>> /\ ~o.unwinding /\ o.step = "begin"
OpShape(o, s, n) ==
  /\ o \in Ops(s, n)
  /\ o.tasks \in Seq(Undoable(s, n)) \/ Placing(o, s, n)
  /\ o.step \in {"none", "finish"} <=> o.tasks = <<>>
  /\ o.step = "none" => o = NoOp(o.result)
  /\ o.step = "finish" => ~o.unwinding

FilesShape ==
  /\ disk \in [Path -> Content(saves, ops)]
  /\ side \in Content(saves, ops) /\ litter \subseteq Content(saves, ops)
  /\ live \cup trampled \subseteq Known(saves, ops)
  /\ moved \subseteq Path /\ touched \subseteq Path
  /\ saves \in 0 .. MaxSaves /\ ops \in 0 .. MaxOps /\ faults \in 0 .. MaxFaults

\* Which task each step is of, and what it has put where.
StepInv ==
  /\ op.step \in {"commit", "verify", "undo"} => Task.do = "write"
  /\ op.step \in {"swap", "check", "verify_move", "undo_move"} => Task.do = "move"
  /\ op.step = "commit" => side = Task.text
  /\ op.step = "rename" /\ Task.do = "write" => side = Task.text
  /\ op.step \in {"swap", "check"} => disk[Task.to] = Gate
  /\ op.step \in {"verify_move", "undo_move"} => disk[Task.from] = Gate

WritesShape == OpShape(op, saves, ops) /\ FilesShape /\ StepInv

(***************************************************************************)
(* Sequences                                                               *)
(***************************************************************************)
LEMMA ElementsOf ==
  ASSUME NEW S, NEW s \in Seq(S)
  PROVE  /\ ToSet(s) \subseteq S
         /\ s # <<>> => /\ Head(s) \in S /\ Tail(s) \in Seq(S)
                        /\ ToSet(s) = {Head(s)} \cup ToSet(Tail(s))
                        /\ Len(s) > 1 <=> Tail(s) # <<>>
         /\ \A x \in S : Append(s, x) \in Seq(S) /\ ToSet(Append(s, x)) = ToSet(s) \cup {x}
         /\ Reverse(s) \in Seq(S) /\ ToSet(Reverse(s)) = ToSet(s)
         /\ Reverse(s) = <<>> <=> s = <<>>
<1>1. ToSet(s) \subseteq S BY DEF ToSet
<1>2. ASSUME s # <<>>
      PROVE  /\ Head(s) \in S /\ Tail(s) \in Seq(S)
             /\ ToSet(s) = {Head(s)} \cup ToSet(Tail(s))
             /\ Len(s) > 1 <=> Tail(s) # <<>>
  <2>1. Len(s) \in Nat /\ Len(s) >= 1 BY <1>2
  <2>2. Head(s) \in S /\ Tail(s) \in Seq(S) BY <1>2
  <2>3. Len(s) > 1 <=> Tail(s) # <<>>
    <3>1. Tail(s) \in Seq(S) /\ Len(Tail(s)) = Len(s) - 1 BY <1>2
    <3>2. Tail(s) = <<>> <=> Len(Tail(s)) = 0 BY <3>1, EmptySeq
    <3> QED BY <2>1, <3>1, <3>2
  <2>4. ToSet(Tail(s)) = {s[i + 1] : i \in 1 .. Len(s) - 1} BY <1>2, <2>1 DEF ToSet
  <2>5. \A i \in 1 .. Len(s) : i = 1 \/ i - 1 \in 1 .. Len(s) - 1 BY <2>1
  <2>6. \A i \in 1 .. Len(s) - 1 : i + 1 \in 1 .. Len(s) BY <2>1
  <2>7. ToSet(s) = {s[i] : i \in 1 .. Len(s)} BY DEF ToSet
  <2>8. ToSet(s) \subseteq {Head(s)} \cup ToSet(Tail(s))
    <3> SUFFICES ASSUME NEW i \in 1 .. Len(s) PROVE s[i] \in {Head(s)} \cup ToSet(Tail(s)) BY <2>7
    <3>1. CASE i = 1
      <4>1. Head(s) = s[1] BY <1>2
      <4> QED BY <3>1, <4>1
    <3>2. CASE i # 1
      <4>1. i - 1 \in 1 .. Len(s) - 1 /\ s[i] = s[(i - 1) + 1] BY <3>2, <2>5, <2>1
      <4> QED BY <4>1, <2>4
    <3> QED BY <3>1, <3>2
  <2>9. {Head(s)} \cup ToSet(Tail(s)) \subseteq ToSet(s)
    <3>1. Head(s) = s[1] /\ 1 \in 1 .. Len(s) BY <1>2, <2>1
    <3> QED BY <3>1, <2>4, <2>6, <2>7
  <2> QED BY <2>2, <2>3, <2>8, <2>9
<1>3. ASSUME NEW x \in S
      PROVE Append(s, x) \in Seq(S) /\ ToSet(Append(s, x)) = ToSet(s) \cup {x}
  <2>1. Append(s, x) \in Seq(S) /\ Len(Append(s, x)) = Len(s) + 1 /\ Len(s) \in Nat OBVIOUS
  <2>2. \A i \in 1 .. Len(s) : Append(s, x)[i] = s[i] OBVIOUS
  <2>3. Append(s, x)[Len(s) + 1] = x OBVIOUS
  <2>4. 1 .. Len(s) + 1 = (1 .. Len(s)) \cup {Len(s) + 1} BY <2>1
  <2>5. DOMAIN s = 1 .. Len(s) /\ DOMAIN Append(s, x) = 1 .. Len(s) + 1 BY <2>1
  <2> QED BY <2>1, <2>2, <2>3, <2>4, <2>5 DEF ToSet
<1>4. Reverse(s) \in Seq(S) /\ ToSet(Reverse(s)) = ToSet(s) /\ (Reverse(s) = <<>> <=> s = <<>>)
  <2>1. Len(s) \in Nat /\ DOMAIN s = 1 .. Len(s) OBVIOUS
  <2>2. \A i \in 1 .. Len(s) : Len(s) - i + 1 \in 1 .. Len(s) BY <2>1
  <2>3. \A i \in 1 .. Len(s) : Len(s) - (Len(s) - i + 1) + 1 = i BY <2>1
  <2>4. Reverse(s) \in [1 .. Len(s) -> S] BY <2>1, <2>2 DEF Reverse
  <2>5. Reverse(s) \in Seq(S) /\ Len(Reverse(s)) = Len(s) BY <2>1, <2>4
  <2>6. \A i \in 1 .. Len(s) : Reverse(s)[i] = s[Len(s) - i + 1] BY DEF Reverse
  <2>7. ToSet(Reverse(s)) = ToSet(s)
    <3>1. ToSet(s) = {s[i] : i \in 1 .. Len(s)} BY <2>1 DEF ToSet
    <3>2. ToSet(Reverse(s)) = {s[Len(s) - i + 1] : i \in 1 .. Len(s)} BY <2>4, <2>6 DEF ToSet
    <3>3. ASSUME NEW i \in 1 .. Len(s) PROVE s[i] \in ToSet(Reverse(s))
      <4> DEFINE j == Len(s) - i + 1
      <4>1. j \in 1 .. Len(s) /\ s[Len(s) - j + 1] = s[i] BY <2>2, <2>3
      <4> HIDE DEF j
      <4> QED BY <4>1, <3>2
    <3> QED BY <2>2, <3>1, <3>2, <3>3
  <2>8. Reverse(s) = <<>> <=> s = <<>> BY <2>5
  <2> QED BY <2>5, <2>7, <2>8
<1> QED BY <1>1, <1>2, <1>3, <1>4

LEMMA Appended ==
  ASSUME NEW S, NEW s \in Seq(S), NEW x \in S, s # <<>>
  PROVE  /\ Append(s, x) \in Seq(S) /\ Append(s, x) # <<>>
         /\ Head(Append(s, x)) = Head(s)
         /\ ToSet(Tail(Append(s, x))) = ToSet(Tail(s)) \cup {x}
<1>1. Append(s, x) \in Seq(S) /\ Append(s, x) # <<>> /\ Tail(s) \in Seq(S) OBVIOUS
<1>2. Head(Append(s, x)) = Head(s) /\ Tail(Append(s, x)) = Append(Tail(s), x) BY HeadTailAppend
<1>3. ToSet(Append(Tail(s), x)) = ToSet(Tail(s)) \cup {x}
  <2>1. ASSUME NEW q \in Seq(S) PROVE ToSet(Append(q, x)) = ToSet(q) \cup {x} BY ElementsOf
  <2> QED BY <1>1, <2>1
<1> QED BY <1>1, <1>2, <1>3

(***************************************************************************)
(* Contents                                                                *)
(***************************************************************************)
LEMMA NoText == Tag(Missing) = {} /\ Tag(Gate) = {} /\ MarkedBy(Missing) = {} /\ MarkedBy(Gate) = {}
  BY DEF Tag, MarkedBy, IsFile

LEMMA Texts ==
  ASSUME NEW s \in Nat, NEW n \in Nat, NEW c \in Text(s, n)
  PROVE  /\ IsFile(c) /\ Tag(c) = {Head(c)} /\ Tag(c) \subseteq Known(s, n)
         /\ MarkedBy(c) = ToSet(Tail(c)) /\ MarkedBy(c) \subseteq 1 .. n
<1>1. c # Missing BY DEF Text, Missing
<1>2. c # Gate
  <2>1. Head(c) # <<"gate", 0>> BY DEF Text, Known
  <2>2. Head(Gate) = <<"gate", 0>> BY DEF Gate
  <2> QED BY <2>1, <2>2
<1>3. Head(c) = c[1] BY <1>1 DEF Text, Missing
<1> QED BY <1>1, <1>2, <1>3 DEF IsFile, Tag, MarkedBy, Text

LEMMA Files ==
  ASSUME NEW s \in Nat, NEW n \in Nat, NEW c \in Content(s, n)
  PROVE  /\ IsFile(c) <=> c \in Text(s, n)
         /\ Tag(c) \subseteq Known(s, n) /\ MarkedBy(c) \subseteq 1 .. n
  BY Texts, NoText DEF Content, IsFile

\* What was known stays known.
LEMMA KnowsMore ==
  ASSUME NEW s \in Nat, NEW n \in Nat, NEW u \in Nat, NEW m \in Nat, s <= u, n <= m
  PROVE  /\ Known(s, n) \subseteq Known(u, m) /\ Text(s, n) \subseteq Text(u, m)
         /\ Content(s, n) \subseteq Content(u, m)
         /\ WriteTasks(s, n) \subseteq WriteTasks(u, m) /\ MoveTasks(s, n) \subseteq MoveTasks(u, m)
         /\ PlaceTasks(s, n) \subseteq PlaceTasks(u, m) /\ Undoable(s, n) \subseteq Undoable(u, m)
<1>1. 1 .. s \subseteq 1 .. u /\ 1 .. n \subseteq 1 .. m OBVIOUS
<1>2. Known(s, n) \subseteq Known(u, m) BY <1>1 DEF Known
<1>3. Text(s, n) \subseteq Text(u, m) BY <1>1, <1>2 DEF Text
<1>4. Content(s, n) \subseteq Content(u, m) BY <1>3 DEF Content
<1>5. WriteTasks(s, n) \subseteq WriteTasks(u, m) BY <1>3 DEF WriteTasks
<1>6. MoveTasks(s, n) \subseteq MoveTasks(u, m) BY <1>4 DEF MoveTasks
<1>7. PlaceTasks(s, n) \subseteq PlaceTasks(u, m) BY <1>3 DEF PlaceTasks
<1> QED BY <1>2, <1>3, <1>4, <1>5, <1>6, <1>7 DEF Undoable

\* A rewrite of a text that was read is a text of the operation, and has its mark.
LEMMA Rewritten ==
  ASSUME NEW s \in Nat, NEW n \in Nat, NEW c \in Text(s, n)
  PROVE  /\ Append(c, n + 1) \in Text(s, n + 1) /\ c \in Text(s, n + 1)
         /\ Tag(Append(c, n + 1)) = Tag(c)
         /\ n + 1 \in MarkedBy(Append(c, n + 1)) /\ n + 1 \notin MarkedBy(c)
<1> DEFINE d == Append(c, n + 1)
           S == Tags \cup Nat
<1>1. c \in Seq(S) /\ c # <<>> /\ n + 1 \in S BY DEF Text
<1>2. c \in Text(s, n + 1) BY KnowsMore
<1>3. /\ d \in Seq(S) /\ d # <<>> /\ Head(d) = Head(c)
      /\ ToSet(Tail(d)) = ToSet(Tail(c)) \cup {n + 1}
  <2> HIDE DEF S
  <2> QED BY <1>1, Appended
<1>4. n + 1 \in Nat OBVIOUS
<1>5. d \in Text(s, n + 1)
  <2>1. Head(c) \in Known(s, n + 1) /\ ToSet(Tail(c)) \subseteq 1 .. n + 1 BY <1>2 DEF Text
  <2>2. n + 1 \in 1 .. n + 1 OBVIOUS
  <2> QED BY <2>1, <2>2, <1>3 DEF Text
<1>6. Tag(d) = Tag(c) /\ MarkedBy(d) = ToSet(Tail(d)) BY <1>2, <1>3, <1>4, <1>5, Texts
<1>7. n + 1 \notin MarkedBy(c)
  <2>1. MarkedBy(c) \subseteq 1 .. n BY Texts
  <2> QED BY <2>1
<1> QED BY <1>2, <1>3, <1>5, <1>6, <1>7

\* Text that nobody has rewritten.
LEMMA FreshText ==
  ASSUME NEW s \in 0 .. MaxSaves, NEW n \in 0 .. MaxOps, NEW t \in Known(s, n)
  PROVE  /\ Known(s, n) \subseteq Tags
         /\ <<t>> \in Text(s, n) /\ Tag(<<t>>) = {t} /\ MarkedBy(<<t>>) = {}
<1>1. Known(s, n) \subseteq Tags
  <2>1. 1 .. s \subseteq 1 .. MaxSaves /\ 1 .. n \subseteq 1 .. MaxOps BY WritesAssumption
  <2> QED BY <2>1 DEF Known, Tags
<1>2. /\ <<t>> \in Seq(Tags \cup Nat) /\ <<t>> # <<>> /\ Head(<<t>>) = t /\ Tail(<<t>>) = <<>>
  BY <1>1
<1>3. ToSet(<<>>) = {} BY DEF ToSet
<1>4. <<t>> \in Text(s, n) BY <1>2, <1>3 DEF Text
<1>5. s \in Nat /\ n \in Nat OBVIOUS
<1> QED BY <1>1, <1>2, <1>3, <1>4, <1>5, Texts

-----------------------------------------------------------------------------
(***************************************************************************)
(* NoteWrites: tasks and their outcome                                     *)
(***************************************************************************)
Resting == {"none", "begin", "finish"}

LEMMA UndoneTasks ==
  ASSUME NEW s, NEW n, NEW t \in Undoable(s, n)
  PROVE  /\ Undoing(t) \in Undoable(s, n) /\ Undoing(t).do = t.do
         /\ t.do = "move" => Undoing(t).to = t.from
         /\ t.do = "write" => Undoing(t).to = t.to /\ Undoing(t).text = t.expect
         /\ t.do \in {"write", "move"}
<1>1. CASE t \in WriteTasks(s, n)
  BY <1>1 DEF Undoing, Write, WriteTasks, Undoable
<1>2. CASE t \in MoveTasks(s, n)
  BY <1>2 DEF Undoing, MoveTask, MoveTasks, Undoable, Content
<1> QED BY <1>1, <1>2 DEF Undoable

\* The tasks of an operation that does not place a file.
LEMMA TaskIs ==
  ASSUME NEW s, NEW n, OpShape(op, s, n), op.tasks # <<>>, ~Placing(op, s, n)
  PROVE  /\ op.tasks \in Seq(Undoable(s, n)) /\ op.journal \in Seq(Undoable(s, n))
         /\ Task \in Undoable(s, n) /\ Undoing(Task) \in Undoable(s, n)
         /\ Task.do = "write" => Task \in WriteTasks(s, n)
         /\ Task.do = "move" => Task \in MoveTasks(s, n)
         /\ Task.from \in Path /\ Task.to \in Path
<1>1. op.tasks \in Seq(Undoable(s, n)) /\ op.journal \in Seq(Undoable(s, n))
  BY DEF OpShape, Ops
<1>2. Task \in Undoable(s, n) BY <1>1, ElementsOf DEF Task
<1> QED BY <1>1, <1>2, UndoneTasks DEF Undoable, WriteTasks, MoveTasks

LEMMA NotPlacing ==
  ASSUME NEW s, NEW n, OpShape(op, s, n), op.tasks # <<>>, Task.do \in {"write", "move"} \/ op.step # "begin"
  PROVE  ~Placing(op, s, n)
<1>1. ASSUME NEW t \in PlaceTasks(s, n), op.tasks = <<t>> PROVE Task.do \in {"create", "replace", "import"}
  BY <1>1 DEF Task, PlaceTasks
<1> QED BY <1>1 DEF Placing

\* The operation goes on to another step of its task.
LEMMA GoesOn ==
  ASSUME NEW s, NEW n, OpShape(op, s, n), op.tasks # <<>>, ~Placing(op, s, n),
         NEW x \in CallStep \ {"none", "finish"}, op' = [op EXCEPT !.step = x]
  PROVE  /\ OpShape(op', s, n) /\ op'.step = x /\ op'.tasks = op.tasks /\ op'.journal = op.journal
         /\ op'.unwinding = op.unwinding /\ op'.broken = op.broken /\ op'.result = op.result
         /\ Task' = Task /\ UNCHANGED <<op.tasks, op.journal>>
<1>1. op \in Ops(s, n) /\ op.tasks \in Seq(Undoable(s, n)) BY DEF OpShape
<1>2. /\ op'.step = x /\ op'.tasks = op.tasks /\ op'.journal = op.journal
      /\ op'.unwinding = op.unwinding /\ op'.broken = op.broken /\ op'.result = op.result
      /\ op' \in Ops(s, n)
  BY <1>1 DEF Ops
<1>3. Task' = Task BY <1>2 DEF Task
<1> QED BY <1>1, <1>2, <1>3 DEF OpShape

LEMMA NoOps ==
  ASSUME NEW s, NEW n, NEW r \in {"none", "ok", "refused", "recovery", "crashed"}
  PROVE  /\ OpShape(NoOp(r), s, n) /\ NoOp(r).step = "none" /\ NoOp(r).result = r
         /\ NoOp(r).tasks = <<>> /\ ~NoOp(r).unwinding
BY DEF NoOp, OpShape, Ops, CallStep

\* What a rollback has before it.
LEMMA RollsBack ==
  ASSUME NEW s, NEW n, op \in Ops(s, n), NEW r \in {"refused", "recovery"},
         NEW j \in Seq(Undoable(s, n)), NEW o, o = Rollback(r, j)
  PROVE  /\ OpShape(o, s, n) /\ o.step \in Resting /\ o.result = r
         /\ j = <<>> => o = NoOp(r)
         /\ j # <<>> => /\ o.step = "begin" /\ o.unwinding /\ o.tasks = Reverse(j)
                        /\ o.broken = op.broken
<1>1. CASE j = <<>> BY <1>1, NoOps DEF Rollback, Over, Resting
<1>2. CASE j # <<>>
  <2>1. Reverse(j) \in Seq(Undoable(s, n)) /\ Reverse(j) # <<>> BY <1>2, ElementsOf
  <2>2. Reverse(j) \in Seq(Undoable(s, n) \cup PlaceTasks(s, n)) BY <2>1
  <2>3. /\ o.step = "begin" /\ o.unwinding /\ o.tasks = Reverse(j) /\ o.broken = op.broken
        /\ o.result = r /\ o \in Ops(s, n)
    <3>1. o = [op EXCEPT !.tasks = Reverse(j), !.journal = <<>>, !.unwinding = TRUE,
                         !.step = "begin", !.result = r]
      BY <1>2 DEF Rollback
    <3>2. o = [step |-> "begin", tasks |-> Reverse(j), journal |-> <<>>, alone |-> op.alone,
               unwinding |-> TRUE, broken |-> op.broken, result |-> r]
      BY <3>1 DEF Ops
    <3>3. op.alone \in BOOLEAN /\ op.broken \in BOOLEAN /\ <<>> \in Seq(Undoable(s, n)) BY DEF Ops
    <3> HIDE DEF Undoable
    <3>4. o \in Ops(s, n)
      <4> HIDE <3>1
      <4> QED BY <2>2, <3>2, <3>3 DEF Ops, CallStep
    <3> QED BY <3>2, <3>4
  <2> QED BY <1>2, <2>1, <2>3 DEF OpShape, Resting
<1> QED BY <1>1, <1>2

\* What the rollback goes on with.
LEMMA NextIs ==
  ASSUME NEW s, NEW n, OpShape(op, s, n), op.tasks # <<>>, ~Placing(op, s, n), op.unwinding,
         NEW b \in BOOLEAN, NEW o, o = NextTask(b)
  PROVE  /\ OpShape(o, s, n) /\ o.step \in Resting
         /\ Tail(op.tasks) = <<>> => o = NoOp(IF b THEN "recovery" ELSE op.result)
         /\ Tail(op.tasks) # <<>> =>
              /\ o.step = "begin" /\ o.unwinding /\ o.tasks = Tail(op.tasks)
              /\ o.broken = b /\ o.result = op.result
<1>1. /\ op \in Ops(s, n) /\ op.tasks \in Seq(Undoable(s, n)) /\ Tail(op.tasks) \in Seq(Undoable(s, n))
      /\ Len(op.tasks) > 1 <=> Tail(op.tasks) # <<>>
  BY TaskIs, ElementsOf DEF OpShape
<1>2. CASE Tail(op.tasks) = <<>>
  <2>1. o = NoOp(IF b THEN "recovery" ELSE op.result) BY <1>1, <1>2 DEF NextTask, Over
  <2>2. op.result \in {"none", "ok", "refused", "recovery", "crashed"} BY <1>1 DEF Ops
  <2> QED BY <1>2, <2>1, <2>2, NoOps DEF Resting
<1>3. CASE Tail(op.tasks) # <<>>
  <2>1. o = [op EXCEPT !.tasks = Tail(@), !.step = "begin", !.broken = b]
    BY <1>1, <1>3 DEF NextTask
  <2>2. o = [step |-> "begin", tasks |-> Tail(op.tasks), journal |-> op.journal, alone |-> op.alone,
             unwinding |-> op.unwinding, broken |-> b, result |-> op.result]
    BY <1>1, <2>1 DEF Ops
  <2>3. /\ op.alone \in BOOLEAN /\ op.unwinding \in BOOLEAN /\ op.journal \in Seq(Undoable(s, n))
        /\ op.result \in {"none", "ok", "refused", "recovery", "crashed"}
    BY <1>1 DEF Ops
  <2>4. Tail(op.tasks) \in Seq(Undoable(s, n) \cup PlaceTasks(s, n)) BY <1>1
  <2>5. o \in Ops(s, n)
    <3> HIDE DEF Undoable, PlaceTasks
    <3> HIDE <2>1
    <3> QED BY <2>2, <2>3, <2>4 DEF Ops, CallStep
  <2> QED BY <1>1, <1>3, <2>2, <2>5 DEF OpShape, Resting
<1> QED BY <1>2, <1>3

\* What an operation goes on with that is not undoing itself.
LEMMA SucceededIs ==
  ASSUME NEW s, NEW n, OpShape(op, s, n), op.tasks # <<>>, ~Placing(op, s, n), ~op.unwinding,
         NEW o, o = Succeeded
  PROVE  /\ OpShape(o, s, n) /\ o.step \in {"begin", "finish"} /\ ~o.unwinding
         /\ o.tasks = Tail(op.tasks) /\ o.journal = Append(op.journal, Undoing(Task))
         /\ o.result = op.result
<1>1. /\ op \in Ops(s, n) /\ op.tasks \in Seq(Undoable(s, n)) /\ Tail(op.tasks) \in Seq(Undoable(s, n))
      /\ Len(op.tasks) > 1 <=> Tail(op.tasks) # <<>>
      /\ Append(op.journal, Undoing(Task)) \in Seq(Undoable(s, n))
  BY TaskIs, ElementsOf DEF OpShape
<1> DEFINE x == IF Len(op.tasks) > 1 THEN "begin" ELSE "finish"
<1>2. o = [op EXCEPT !.tasks = Tail(@), !.journal = Append(@, Undoing(Task)), !.step = x]
  BY DEF Succeeded
<1>3. o = [step |-> x, tasks |-> Tail(op.tasks), journal |-> Append(op.journal, Undoing(Task)),
           alone |-> op.alone, unwinding |-> op.unwinding, broken |-> op.broken, result |-> op.result]
  BY <1>1, <1>2 DEF Ops
<1>4. /\ op.alone \in BOOLEAN /\ op.unwinding \in BOOLEAN /\ op.broken \in BOOLEAN
      /\ op.result \in {"none", "ok", "refused", "recovery", "crashed"}
  BY <1>1 DEF Ops
<1>5. Tail(op.tasks) \in Seq(Undoable(s, n) \cup PlaceTasks(s, n)) BY <1>1
<1>6. x \in {"begin", "finish"} /\ (x = "finish" <=> Tail(op.tasks) = <<>>) BY <1>1
<1>7. o \in Ops(s, n)
  <2> HIDE DEF Undoable, PlaceTasks, x
  <2> HIDE <1>2
  <2> QED BY <1>1, <1>3, <1>4, <1>5, <1>6 DEF Ops, CallStep
<1>8. /\ o.step = x /\ o.unwinding = op.unwinding /\ o.tasks = Tail(op.tasks)
      /\ o.journal = Append(op.journal, Undoing(Task)) /\ o.result = op.result
  BY <1>3
<1> HIDE DEF x
<1> HIDE <1>2, <1>3
<1> QED BY <1>1, <1>6, <1>7, <1>8 DEF OpShape

LEMMA NextsAre ==
  ASSUME NEW b, op' = NextTask(b), op.tasks # <<>>
  PROVE  op'.tasks = <<>> \/ op'.tasks = Tail(op.tasks)
<1>1. CASE Len(op.tasks) > 1
  <2>1. op' = [op EXCEPT !.tasks = Tail(@), !.step = "begin", !.broken = b] BY <1>1 DEF NextTask
  <2> QED BY <2>1
<1>2. CASE ~(Len(op.tasks) > 1) BY <1>2 DEF NextTask, Over, NoOp
<1> QED BY <1>1, <1>2

\* Whatever came of a task, the next step of the operation is a beginning or an end.
LEMMA Outcomes ==
  ASSUME NEW s, NEW n, OpShape(op, s, n), op.tasks # <<>>, ~Placing(op, s, n),
         \/ op' = Succeeded \/ op' = FailedTask("refused")
         \/ op' = FailedLanded \/ op' = FailedUndone
  PROVE  OpShape(op', s, n) /\ op'.step \in Resting /\ op'.tasks \in Seq(Undoable(s, n))
<1>1. op \in Ops(s, n) /\ op.broken \in BOOLEAN BY DEF OpShape, Ops
<1>2. CASE op.unwinding
  <2>1. op' = NextTask(op.broken) \/ op' = NextTask(TRUE)
    BY <1>2 DEF Succeeded, FailedTask, FailedLanded, FailedUndone
  <2>2. OpShape(op', s, n) /\ op'.step \in Resting BY <1>1, <1>2, <2>1, NextIs
  <2>3. op'.tasks = <<>> \/ op'.tasks = Tail(op.tasks) BY <1>2, <2>1, NextsAre
  <2>4. Tail(op.tasks) \in Seq(Undoable(s, n)) BY TaskIs, ElementsOf
  <2>5. <<>> \in Seq(Undoable(s, n)) BY EmptySeq
  <2> QED BY <2>2, <2>3, <2>4, <2>5
<1>3. CASE ~op.unwinding
  <2>1. op.journal \in Seq(Undoable(s, n)) /\ Append(op.journal, Undoing(Task)) \in Seq(Undoable(s, n))
    BY TaskIs, ElementsOf
  <2>2. \/ op' = Succeeded \/ op' = Rollback("refused", op.journal)
        \/ op' = Rollback("recovery", op.journal)
        \/ op' = Rollback("refused", Append(op.journal, Undoing(Task)))
        \/ op' = Rollback("recovery", Append(op.journal, Undoing(Task)))
    BY <1>3 DEF FailedTask, FailedLanded, FailedUndone
  <2>3. ASSUME NEW r \in {"refused", "recovery"}, NEW j \in Seq(Undoable(s, n)), op' = Rollback(r, j)
        PROVE  OpShape(op', s, n) /\ op'.step \in Resting /\ op'.tasks \in Seq(Undoable(s, n))
    <3>1. OpShape(op', s, n) /\ op'.step \in Resting BY <1>1, <2>3, RollsBack
    <3>2. op'.tasks = <<>> \/ op'.tasks = Reverse(j) BY <1>1, <2>3, RollsBack DEF NoOp
    <3>3. Reverse(j) \in Seq(Undoable(s, n)) BY ElementsOf
    <3>4. <<>> \in Seq(Undoable(s, n)) BY EmptySeq
    <3> QED BY <3>1, <3>2, <3>3, <3>4
  <2>4. CASE op' = Succeeded
    <3>1. OpShape(op', s, n) /\ op'.step \in Resting /\ op'.tasks = Tail(op.tasks)
      BY <1>3, <2>4, SucceededIs DEF Resting
    <3> QED BY <3>1, TaskIs, ElementsOf
  <2> QED BY <2>1, <2>2, <2>3, <2>4
<1> QED BY <1>2, <1>3

(***************************************************************************)
(* What operations plan                                                    *)
(***************************************************************************)
WritesLast(q) == \A i, j \in DOMAIN q : i < j /\ q[i].do = "write" => q[j].do = "write"

\* A rewrite of operation n has its mark in what it writes and not in what it replaces.
Marking(t, n) == t.do = "write" => n \in MarkedBy(t.text) /\ n \notin MarkedBy(t.expect)
Plan(q, s, n) ==
  /\ q \in Seq(Undoable(s, n)) /\ WritesLast(q)
  /\ \A t \in ToSet(q) : Marking(t, n)
AllWrites(q) == \A i \in DOMAIN q : q[i].do = "write"

LEMMA Paths == Note \in Path /\ Moved \in Path /\ Asset \in Path /\ MovedAsset \in Path
               /\ Linking \subseteq Path /\ Note # Moved /\ Asset # MovedAsset
  BY DEF Path, Note, Moved, Asset, MovedAsset

LEMMA WriteIs ==
  ASSUME NEW s, NEW n, NEW p \in Path, NEW e \in Text(s, n), NEW x \in Text(s, n), Tag(x) = Tag(e)
  PROVE  /\ Write(p, e, x) \in WriteTasks(s, n)
         /\ Write(p, e, x).do = "write" /\ Write(p, e, x).expect = e /\ Write(p, e, x).text = x
BY DEF Write, WriteTasks

LEMMA RewritingIs ==
  ASSUME FilesShape, NEW p \in Path, NEW q \in Path, IsFile(disk[p])
  PROVE  /\ Rewriting(p, q) \in WriteTasks(saves, ops + 1) /\ Marking(Rewriting(p, q), ops + 1)
         /\ Rewriting(p, q).do = "write"
<1> DEFINE c == disk[p]
<1>1. saves \in Nat /\ ops \in Nat /\ c \in Content(saves, ops)
  BY WritesAssumption DEF FilesShape
<1>2. c \in Text(saves, ops) BY <1>1, Files
<1> HIDE DEF c
<1>3. /\ Append(c, ops + 1) \in Text(saves, ops + 1) /\ c \in Text(saves, ops + 1)
      /\ Tag(Append(c, ops + 1)) = Tag(c)
      /\ ops + 1 \in MarkedBy(Append(c, ops + 1)) /\ ops + 1 \notin MarkedBy(c)
  BY <1>1, <1>2, Rewritten
<1>4. Rewriting(p, q) = Write(q, c, Append(c, ops + 1))
  BY DEF Rewriting, c
<1> QED BY <1>3, <1>4, WriteIs DEF Marking

LEMMA SetOf ==
  ASSUME NEW S, NEW q \in Seq(S), NEW t \in ToSet(q)
  PROVE  \E i \in 1 .. Len(q) : t = q[i]
  BY DEF ToSet

LEMMA OrdersAre ==
  ASSUME NEW notes \in SUBSET Path, IsFiniteSet(notes), NEW order \in Orders(notes)
  PROVE  order \in Seq(Path)
<1>1. PICK S \in SUBSET notes : order \in SetToSeqs(S) BY DEF Orders, SetToAllKPermutations
<1>2. Cardinality(S) \in Nat
  <2>1. IsFiniteSet(S) BY <1>1, FS_Subset
  <2> QED BY <2>1, FS_CardinalityType
<1>3. order \in [1 .. Cardinality(S) -> S] BY <1>1 DEF SetToSeqs
<1> QED BY <1>2, <1>3

LEMMA RewritesAre ==
  ASSUME FilesShape, NEW order \in Seq(Path),
         \A i \in DOMAIN order : IsFile(disk[IF order[i] = Moved THEN Note ELSE order[i]])
  PROVE  /\ Plan(Rewrites(order), saves, ops + 1) /\ AllWrites(Rewrites(order))
         /\ order # <<>> => Rewrites(order) # <<>>
<1> DEFINE q == Rewrites(order)
           U == Undoable(saves, ops + 1)
<1>1. Len(order) \in Nat /\ DOMAIN order = 1 .. Len(order) OBVIOUS
<1>2. \A i \in 1 .. Len(order) : /\ q[i] \in WriteTasks(saves, ops + 1)
                                 /\ Marking(q[i], ops + 1) /\ q[i].do = "write"
  <2> SUFFICES ASSUME NEW i \in 1 .. Len(order)
               PROVE  /\ q[i] \in WriteTasks(saves, ops + 1)
                      /\ Marking(q[i], ops + 1) /\ q[i].do = "write"
    OBVIOUS
  <2>1. q[i] = Rewriting(IF order[i] = Moved THEN Note ELSE order[i], order[i])
    BY <1>1 DEF Rewrites
  <2>2. order[i] \in Path OBVIOUS
  <2>3. (IF order[i] = Moved THEN Note ELSE order[i]) \in Path BY <2>2, Paths
  <2> QED BY <1>1, <2>1, <2>2, <2>3, RewritingIs
<1>3. q \in [1 .. Len(order) -> U] BY <1>1, <1>2 DEF Rewrites, Undoable
<1>4. q \in Seq(U) /\ Len(q) = Len(order) BY <1>1, <1>3
<1>5. \A t \in ToSet(q) : Marking(t, ops + 1) BY <1>2, <1>4, SetOf
<1>6. DOMAIN q = 1 .. Len(order) BY <1>3
<1>7. order # <<>> => q # <<>> BY <1>1, <1>4
<1> HIDE DEF q
<1>8. WritesLast(q) /\ AllWrites(q) BY <1>2, <1>6 DEF WritesLast, AllWrites
<1> QED BY <1>4, <1>5, <1>7, <1>8 DEF Plan, q

\* A move before the rewrites.
LEMMA MovesFirst ==
  ASSUME NEW s, NEW n, NEW q, Plan(q, s, n), NEW t \in MoveTasks(s, n)
  PROVE  Plan(<<t>> \o q, s, n) /\ <<t>> \o q # <<>>
<1> DEFINE U == Undoable(s, n)
           r == <<t>> \o q
<1>1. t \in U /\ <<t>> \in Seq(U) /\ q \in Seq(U) /\ Len(<<t>>) = 1 /\ t.do = "move"
  BY DEF Plan, Undoable, MoveTasks
<1> HIDE DEF U
<1>2. /\ r \in Seq(U) /\ Len(r) = Len(q) + 1 /\ Len(q) \in Nat
      /\ \A i \in 1 .. Len(q) + 1 : r[i] = IF i <= 1 THEN t ELSE q[i - 1]
  BY <1>1, ConcatProperties
<1> HIDE DEF r
<1>3. DOMAIN r = 1 .. Len(q) + 1 /\ DOMAIN q = 1 .. Len(q) /\ r # <<>> BY <1>1, <1>2
<1>4. WritesLast(r)
  <2> SUFFICES ASSUME NEW i \in 1 .. Len(q) + 1, NEW j \in 1 .. Len(q) + 1, i < j,
                      r[i].do = "write"
               PROVE  r[j].do = "write"
    BY <1>3 DEF WritesLast
  <2>1. i # 1 BY <1>1, <1>2
  <2>2. i - 1 \in 1 .. Len(q) /\ j - 1 \in 1 .. Len(q) /\ i - 1 < j - 1 /\ ~(i <= 1) /\ ~(j <= 1)
    BY <1>2, <2>1
  <2>3. r[i] = q[i - 1] /\ r[j] = q[j - 1] BY <1>2, <2>2
  <2> QED BY <1>3, <2>2, <2>3 DEF Plan, WritesLast
<1>5. ASSUME NEW x \in ToSet(r) PROVE Marking(x, n)
  <2>1. PICK i \in 1 .. Len(q) + 1 : x = r[i] BY <1>2, SetOf
  <2>2. CASE i = 1 BY <1>1, <1>2, <2>1, <2>2 DEF Marking
  <2>3. CASE i # 1
    <3>1. i - 1 \in 1 .. Len(q) /\ ~(i <= 1) BY <1>2, <2>3
    <3>2. x = q[i - 1] BY <1>2, <2>1, <3>1
    <3>3. x \in ToSet(q) BY <1>3, <3>1, <3>2 DEF ToSet
    <3> QED BY <3>3 DEF Plan
  <2> QED BY <2>2, <2>3
<1> QED BY <1>2, <1>3, <1>4, <1>5 DEF Plan, U, r

LEMMA OnlyWrite ==
  ASSUME NEW s, NEW n, NEW t \in WriteTasks(s, n), Marking(t, n)
  PROVE  Plan(<<t>>, s, n)
<1>1. <<t>> \in Seq(Undoable(s, n)) /\ DOMAIN <<t>> = 1 .. 1 /\ <<t>>[1] = t BY DEF Undoable
<1>2. t.do = "write" BY DEF WriteTasks
<1>3. WritesLast(<<t>>) BY <1>1 DEF WritesLast
<1> QED BY <1>1, <1>3 DEF Plan, ToSet

\* What an operation begins with.
Planned(q) ==
  /\ q # <<>>
  /\ \/ Plan(q, saves, ops + 1)
     \/ \E t \in PlaceTasks(saves, ops + 1) :
          q = <<t>> /\ (t.do = "replace" \/ disk[t.to] = Missing)

LEMMA Operates ==
  ASSUME FilesShape, Operation
  PROVE  \E q, alone : alone \in BOOLEAN /\ Planned(q) /\ Begin(q, alone)
<1>0. saves \in Nat /\ ops \in Nat /\ saves \in 0 .. MaxSaves /\ ops \in 0 .. MaxOps
      /\ disk \in [Path -> Content(saves, ops)]
  BY WritesAssumption DEF FilesShape
<1>1. ASSUME NEW p \in Path, UpdateNote(p) PROVE \E q, alone : alone \in BOOLEAN /\ Planned(q) /\ Begin(q, alone)
  <2>1. Planned(<<Rewriting(p, p)>>)
    <3>1. IsFile(disk[p]) BY <1>1 DEF UpdateNote
    <3>2. /\ Rewriting(p, p) \in WriteTasks(saves, ops + 1)
          /\ Marking(Rewriting(p, p), ops + 1)
      BY <3>1, RewritingIs
    <3>3. Plan(<<Rewriting(p, p)>>, saves, ops + 1) BY <3>2, OnlyWrite
    <3> QED BY <3>3 DEF Planned
  <2> QED BY <1>1, <2>1 DEF UpdateNote
<1>2. ASSUME NEW p \in Path, NEW do \in {"create", "replace", "import"},
             do = "replace" \/ disk[p] = Missing, Begin(<<Place(do, p)>>, TRUE)
      PROVE \E q, alone : alone \in BOOLEAN /\ Planned(q) /\ Begin(q, alone)
  <2>1. Place(do, p) \in PlaceTasks(saves, ops + 1)
    <3>1. ops < MaxOps BY <1>2 DEF Begin
    <3>2. ops + 1 \in 0 .. MaxOps /\ ops + 1 \in 1 .. ops + 1 BY <1>0, <3>1, WritesAssumption
    <3>3. <<"new", ops + 1>> \in Known(saves, ops + 1) BY <3>2 DEF Known
    <3>4. << <<"new", ops + 1>> >> \in Text(saves, ops + 1) BY <1>0, <3>2, <3>3, FreshText
    <3> QED BY <3>4 DEF Place, PlaceTasks
  <2>2. Place(do, p).do = do /\ Place(do, p).to = p BY DEF Place
  <2>3. Planned(<<Place(do, p)>>) BY <1>2, <2>1, <2>2 DEF Planned
  <2> QED BY <1>2, <2>3
<1>3. ASSUME NEW order \in Seq(Path), NEW t \in MoveTasks(saves, ops + 1), NEW moves,
             moves = <<t>> \/ \E u \in MoveTasks(saves, ops + 1) : moves = <<t>> \o <<u>>,
             \A i \in DOMAIN order : IsFile(disk[IF order[i] = Moved THEN Note ELSE order[i]]),
             Begin(moves \o Rewrites(order), FALSE)
      PROVE \E q, alone : alone \in BOOLEAN /\ Planned(q) /\ Begin(q, alone)
  <2> DEFINE r == Rewrites(order)
  <2>1. Plan(r, saves, ops + 1) BY <1>3, RewritesAre
  <2> HIDE DEF r
  <2> DEFINE q == moves \o r
  <2>2. ASSUME moves = <<t>> PROVE Plan(q, saves, ops + 1) /\ q # <<>>
    <3>1. Plan(<<t>> \o r, saves, ops + 1) /\ <<t>> \o r # <<>> BY <2>1, MovesFirst
    <3> QED BY <2>2, <3>1
  <2>3. ASSUME NEW u \in MoveTasks(saves, ops + 1), moves = <<t>> \o <<u>>
        PROVE  Plan(q, saves, ops + 1) /\ q # <<>>
    <3> DEFINE U == Undoable(saves, ops + 1)
    <3>1. <<t>> \in Seq(U) /\ <<u>> \in Seq(U) BY DEF Undoable
    <3>2. r \in Seq(U) BY <2>1 DEF Plan
    <3> HIDE DEF U
    <3>3. moves \o r = <<t>> \o (<<u>> \o r) BY <2>3, <3>1, <3>2, ConcatAssociative
    <3>4. Plan(<<u>> \o r, saves, ops + 1) BY <2>1, MovesFirst
    <3>5. Plan(<<t>> \o (<<u>> \o r), saves, ops + 1) /\ <<t>> \o (<<u>> \o r) # <<>>
      BY <3>4, MovesFirst
    <3> QED BY <3>3, <3>5
  <2>4. Begin(q, FALSE) BY <1>3 DEF r
  <2> HIDE DEF q
  <2>5. Plan(q, saves, ops + 1) /\ q # <<>> BY <1>3, <2>2, <2>3
  <2> QED BY <2>4, <2>5 DEF Planned
<1>4. ASSUME NEW notes \in SUBSET Path, notes = Linking \/ notes = Linking \cup {Note}
                                          \/ notes = Linking \cup {Moved},
             NEW order \in Orders(notes)
      PROVE  order \in Seq(Path) /\ \A i \in DOMAIN order : order[i] \in notes
  <2>1. IsFiniteSet(notes) BY <1>4, WritesAssumption, FS_AddElement
  <2>2. order \in Seq(Path) BY <2>1, OrdersAre
  <2>3. PICK S \in SUBSET notes : order \in SetToSeqs(S) BY DEF Orders, SetToAllKPermutations
  <2>4. order \in [1 .. Cardinality(S) -> S] BY <2>3 DEF SetToSeqs
  <2> QED BY <2>2, <2>4
<1>5. ASSUME NEW p, NEW q, NEW c \in Content(saves, ops), p \in Path /\ q \in Path /\ p # q
      PROVE  MoveTask(p, q, c) \in MoveTasks(saves, ops + 1)
  <2>1. c \in Content(saves, ops + 1) BY <1>0, KnowsMore
  <2> QED BY <1>5, <2>1 DEF MoveTask, MoveTasks
<1>6. MoveTask(Asset, MovedAsset, Missing) \in MoveTasks(saves, ops + 1)
  BY <1>5, Paths DEF Content
<1>7. ASSUME NEW order \in Orders(Linking), MoveAttachment(order)
      PROVE \E q, alone : alone \in BOOLEAN /\ Planned(q) /\ Begin(q, alone)
  <2>1. order \in Seq(Path) /\ \A i \in DOMAIN order : order[i] \in Linking BY <1>4, Paths
  <2>2. \A i \in DOMAIN order : IsFile(disk[IF order[i] = Moved THEN Note ELSE order[i]])
    BY <1>7, <2>1, WritesAssumption DEF MoveAttachment
  <2>3. Begin(<<MoveTask(Asset, MovedAsset, Missing)>> \o Rewrites(order), FALSE)
    BY <1>7 DEF MoveAttachment
  <2> QED BY <1>3, <1>6, <2>1, <2>2, <2>3
<1>8. ASSUME NEW order \in Orders(Linking \cup {Note}), EditTags(order)
      PROVE \E q, alone : alone \in BOOLEAN /\ Planned(q) /\ Begin(q, alone)
  <2>1. order \in Seq(Path) /\ \A i \in DOMAIN order : order[i] \in Linking \cup {Note}
    BY <1>4, Paths
  <2>2. \A i \in DOMAIN order : IsFile(disk[IF order[i] = Moved THEN Note ELSE order[i]])
    BY <1>8, <2>1, WritesAssumption, Paths DEF EditTags
  <2>3. order # <<>> /\ Begin(Rewrites(order), FALSE) BY <1>8 DEF EditTags
  <2>4. Planned(Rewrites(order)) BY <2>1, <2>2, <2>3, RewritesAre DEF Planned
  <2> QED BY <2>3, <2>4
<1>9. ASSUME NEW order \in Orders(Linking \cup {Moved}), NEW withAsset \in BOOLEAN,
             MoveNote(withAsset, order)
      PROVE \E q, alone : alone \in BOOLEAN /\ Planned(q) /\ Begin(q, alone)
  <2>1. order \in Seq(Path) /\ \A i \in DOMAIN order : order[i] \in Linking \cup {Moved}
    BY <1>4, Paths
  <2>2. \A i \in DOMAIN order : IsFile(disk[IF order[i] = Moved THEN Note ELSE order[i]])
    BY <1>9 DEF MoveNote
  <2>3. MoveTask(Note, Moved, disk[Note]) \in MoveTasks(saves, ops + 1) BY <1>0, <1>5, Paths
  <2> DEFINE t == MoveTask(Note, Moved, disk[Note])
             u == MoveTask(Asset, MovedAsset, Missing)
             moves == <<t>> \o (IF withAsset THEN <<u>> ELSE <<>>)
  <2>4. Begin(moves \o Rewrites(order), FALSE) BY <1>9 DEF MoveNote
  <2>5. moves = <<t>> \/ moves = <<t>> \o <<u>>
    <3> HIDE DEF t, u
    <3>1. <<t>> \o <<>> = <<t>> OBVIOUS
    <3> QED BY <3>1
  <2> HIDE DEF t, u, moves
  <2>6. u \in MoveTasks(saves, ops + 1) /\ t \in MoveTasks(saves, ops + 1) BY <1>6, <2>3 DEF t, u
  <2> QED BY <1>3, <2>1, <2>2, <2>4, <2>5, <2>6
<1>10. CASE \E p \in {Note} \cup Linking : UpdateNote(p) BY <1>1, <1>10, Paths
<1>11. ASSUME NEW overwrite \in BOOLEAN, CreateNote(Moved, overwrite)
       PROVE \E q, alone : alone \in BOOLEAN /\ Planned(q) /\ Begin(q, alone)
  <2>1. CASE overwrite BY <1>2, <1>11, <2>1, Paths DEF CreateNote
  <2>2. CASE ~overwrite BY <1>2, <1>11, <2>2, Paths DEF CreateNote
  <2> QED BY <2>1, <2>2
<1>12. ASSUME NEW p \in {Asset, MovedAsset}, NEW overwrite \in BOOLEAN, ImportAttachment(p, overwrite)
       PROVE \E q, alone : alone \in BOOLEAN /\ Planned(q) /\ Begin(q, alone)
  <2>1. CASE overwrite BY <1>2, <1>12, <2>1, Paths DEF ImportAttachment
  <2>2. CASE ~overwrite BY <1>2, <1>12, <2>2, Paths DEF ImportAttachment
  <2> QED BY <2>1, <2>2
<1> QED BY <1>7, <1>8, <1>9, <1>10, <1>11, <1>12 DEF Operation

-----------------------------------------------------------------------------
(***************************************************************************)
(* NoteWrites: every step keeps the shape                                  *)
(***************************************************************************)
LEMMA Rests == op'.step \in Resting => StepInv'
  BY DEF StepInv, Resting

LEMMA Counted ==
  ASSUME WritesShape
  PROVE  /\ saves \in Nat /\ ops \in Nat /\ saves \in 0 .. MaxSaves /\ ops \in 0 .. MaxOps
         /\ NoFault \/ Fault => saves' = saves /\ ops' = ops /\ faults' \in 0 .. MaxFaults
  BY WritesAssumption DEF WritesShape, FilesShape, NoFault, Fault, counts

LEMMA AtTask ==
  ASSUME WritesShape, op.step \in CallStep \ {"none", "finish"},
         op.step # "begin" \/ Task.do \in {"write", "move"}
  PROVE  /\ op.tasks # <<>> /\ ~Placing(op, saves, ops)
         /\ Task \in Undoable(saves, ops) /\ Task.from \in Path /\ Task.to \in Path
         /\ Task.do = "write" => Task \in WriteTasks(saves, ops)
         /\ Task.do = "move" => Task \in MoveTasks(saves, ops)
         /\ Task.do \in {"write", "move"}
         /\ OpShape(op, saves, ops)
<1>1. op.tasks # <<>> /\ OpShape(op, saves, ops) BY DEF WritesShape, OpShape
<1>2. ~Placing(op, saves, ops) BY <1>1, NotPlacing
<1> QED BY <1>1, <1>2, TaskIs DEF Undoable, WriteTasks, MoveTasks

LEMMA Contained ==
  ASSUME WritesShape
  PROVE  /\ disk \in [Path -> Content(saves, ops)] /\ side \in Content(saves, ops)
         /\ Missing \in Content(saves, ops) /\ Gate \in Content(saves, ops)
         /\ \A p \in Path : disk[p] \in Content(saves, ops) /\ Tag(disk[p]) \subseteq Known(saves, ops)
         /\ Tag(side) \subseteq Known(saves, ops)
<1>1. disk \in [Path -> Content(saves, ops)] /\ side \in Content(saves, ops) BY DEF WritesShape, FilesShape
<1>2. saves \in Nat /\ ops \in Nat BY Counted
<1>3. Missing \in Content(saves, ops) /\ Gate \in Content(saves, ops) BY DEF Content
<1> QED BY <1>1, <1>2, <1>3, Files

LEMMA BeginWriteShape ==
  ASSUME WritesShape, BeginWrite
  PROVE  WritesShape'
<1>1. UNCHANGED <<saves, ops>> /\ faults' \in 0 .. MaxFaults BY Counted DEF BeginWrite
<1>2. /\ op.step = "begin" /\ Task.do = "write" /\ op.tasks # <<>> /\ ~Placing(op, saves, ops)
      /\ Task \in WriteTasks(saves, ops) /\ Task.to \in Path /\ OpShape(op, saves, ops)
  BY AtTask DEF BeginWrite, CallStep
<1>3. FilesShape'
  <2>1. side' \in Content(saves, ops)
    <3>1. Task.text \in Content(saves, ops) BY <1>2 DEF WriteTasks, Content
    <3> QED BY <3>1, Contained DEF BeginWrite
  <2> QED BY <1>1, <2>1, Counted DEF BeginWrite, WritesShape, FilesShape, history
<1>4. CASE op' = [op EXCEPT !.step = "commit"] /\ side' = Task.text
  <2>1. OpShape(op', saves, ops) /\ op'.step = "commit" /\ Task' = Task
    BY <1>2, <1>4, GoesOn DEF CallStep
  <2>2. StepInv' BY <1>2, <1>4, <2>1 DEF StepInv
  <2> QED BY <1>1, <1>3, <2>1, <2>2 DEF WritesShape
<1>5. CASE op' = FailedTask("refused")
  BY <1>1, <1>2, <1>3, <1>5, Outcomes, Rests DEF WritesShape
<1> QED BY <1>4, <1>5 DEF BeginWrite

LEMMA ExchangeShape ==
  ASSUME WritesShape, Exchange
  PROVE  WritesShape'
<1>1. UNCHANGED <<saves, ops>> /\ faults' \in 0 .. MaxFaults BY Counted DEF Exchange
<1>2. /\ op.step = "commit" /\ Task.do = "write" /\ op.tasks # <<>> /\ ~Placing(op, saves, ops)
      /\ Task \in WriteTasks(saves, ops) /\ Task.to \in Path /\ OpShape(op, saves, ops)
  BY AtTask DEF Exchange, CallStep, WritesShape, StepInv
<1>3. FilesShape'
  <2>1. disk' \in [Path -> Content(saves, ops)] /\ side' \in Content(saves, ops)
    BY <1>2, Contained DEF Exchange
  <2>2. litter' \subseteq Content(saves, ops) BY Contained DEF Exchange, WritesShape, FilesShape
  <2> QED BY <1>1, <2>1, <2>2, Counted DEF Exchange, WritesShape, FilesShape, history
<1>4. CASE op' = [op EXCEPT !.step = "verify"]
  <2>1. OpShape(op', saves, ops) /\ op'.step = "verify" /\ Task' = Task
    BY <1>2, <1>4, GoesOn DEF CallStep
  <2>2. StepInv' BY <1>2, <2>1 DEF StepInv
  <2> QED BY <1>1, <1>3, <2>1, <2>2 DEF WritesShape
<1>5. CASE op' = FailedTask("refused")
  BY <1>1, <1>2, <1>3, <1>5, Outcomes, Rests DEF WritesShape
<1> QED BY <1>4, <1>5 DEF Exchange

LEMMA VerifyShape ==
  ASSUME WritesShape, Verify
  PROVE  WritesShape'
<1>1. UNCHANGED <<saves, ops>> /\ faults' \in 0 .. MaxFaults BY Counted DEF Verify
<1>2. /\ op.step = "verify" /\ Task.do = "write" /\ op.tasks # <<>> /\ ~Placing(op, saves, ops)
      /\ OpShape(op, saves, ops)
  BY AtTask DEF Verify, CallStep, WritesShape, StepInv
<1>3. FilesShape'
  <2>1. side' \in Content(saves, ops) BY Contained DEF Verify
  <2> QED BY <1>1, <2>1, Counted DEF Verify, WritesShape, FilesShape, history
<1>4. CASE op' = [op EXCEPT !.step = "undo"]
  <2>1. OpShape(op', saves, ops) /\ op'.step = "undo" /\ Task' = Task
    BY <1>2, <1>4, GoesOn DEF CallStep
  <2>2. StepInv' BY <1>2, <2>1 DEF StepInv
  <2> QED BY <1>1, <1>3, <2>1, <2>2 DEF WritesShape
<1>5. CASE op' = Succeeded
  BY <1>1, <1>2, <1>3, <1>5, Outcomes, Rests DEF WritesShape
<1> QED BY <1>4, <1>5 DEF Verify

LEMMA UndoExchangeShape ==
  ASSUME WritesShape, UndoExchange
  PROVE  WritesShape'
<1>1. UNCHANGED <<saves, ops>> /\ faults' \in 0 .. MaxFaults BY Counted DEF UndoExchange
<1>2. /\ op.step = "undo" /\ Task.do = "write" /\ op.tasks # <<>> /\ ~Placing(op, saves, ops)
      /\ Task.to \in Path /\ OpShape(op, saves, ops)
  BY AtTask DEF UndoExchange, CallStep, WritesShape, StepInv
<1>3. FilesShape'
  <2>1. disk' \in [Path -> Content(saves, ops)] /\ side' \in Content(saves, ops)
    BY <1>2, Contained DEF UndoExchange
  <2>2. litter' \subseteq Content(saves, ops) BY Contained DEF UndoExchange, WritesShape, FilesShape
  <2>3. live' \cup trampled' \subseteq Known(saves, ops)
    BY <1>2, Contained DEF UndoExchange, WritesShape, FilesShape, Late
  <2> QED BY <1>1, <2>1, <2>2, <2>3, Counted DEF UndoExchange, WritesShape, FilesShape
<1> QED BY <1>1, <1>2, <1>3, Outcomes, Rests DEF WritesShape, UndoExchange

LEMMA CheckFirstShape ==
  ASSUME WritesShape, CheckFirst
  PROVE  WritesShape'
<1>1. UNCHANGED <<saves, ops>> /\ faults' \in 0 .. MaxFaults BY Counted DEF CheckFirst
<1>2. /\ op.step = "commit" /\ Task.do = "write" /\ op.tasks # <<>> /\ ~Placing(op, saves, ops)
      /\ OpShape(op, saves, ops) /\ side = Task.text
  BY AtTask DEF CheckFirst, CallStep, WritesShape, StepInv
<1>3. FilesShape'
  <2>1. side' \in Content(saves, ops) BY Contained DEF CheckFirst
  <2> QED BY <1>1, <2>1, Counted DEF CheckFirst, WritesShape, FilesShape, history
<1>4. CASE op' = [op EXCEPT !.step = "rename"] /\ UNCHANGED side
  <2>1. OpShape(op', saves, ops) /\ op'.step = "rename" /\ Task' = Task
    BY <1>2, <1>4, GoesOn DEF CallStep
  <2>2. StepInv' BY <1>2, <1>4, <2>1 DEF StepInv
  <2> QED BY <1>1, <1>3, <2>1, <2>2 DEF WritesShape
<1>5. CASE op' = FailedTask("refused")
  BY <1>1, <1>2, <1>3, <1>5, Outcomes, Rests DEF WritesShape
<1> QED BY <1>4, <1>5 DEF CheckFirst

LEMMA RenameOverShape ==
  ASSUME WritesShape, RenameOver
  PROVE  WritesShape'
<1>1. UNCHANGED <<saves, ops>> /\ faults' \in 0 .. MaxFaults BY Counted DEF RenameOver
<1>2. /\ Task.do = "write" /\ op.tasks # <<>> /\ ~Placing(op, saves, ops)
      /\ Task.to \in Path /\ OpShape(op, saves, ops)
  BY AtTask DEF RenameOver, CallStep
<1>3. FilesShape'
  <2>1. disk' \in [Path -> Content(saves, ops)] /\ side' \in Content(saves, ops)
    BY <1>2, Contained DEF RenameOver
  <2>2. live' \cup trampled' \subseteq Known(saves, ops)
    BY <1>2, Contained DEF RenameOver, WritesShape, FilesShape, Late
  <2> QED BY <1>1, <2>1, <2>2, Counted DEF RenameOver, WritesShape, FilesShape
<1> QED BY <1>1, <1>2, <1>3, Outcomes, Rests DEF WritesShape, RenameOver

LEMMA PlaceFileShape ==
  ASSUME WritesShape, PlaceFile
  PROVE  /\ WritesShape' /\ Placing(op, saves, ops) /\ Task \in PlaceTasks(saves, ops)
         /\ op' \in {NoOp("ok"), NoOp("refused")}
<1>1. UNCHANGED <<saves, ops>> /\ faults' \in 0 .. MaxFaults BY Counted DEF PlaceFile
<1>2. /\ op.step = "begin" /\ Task.do \in {"create", "replace", "import"} /\ OpShape(op, saves, ops)
      /\ op.tasks # <<>>
  BY DEF PlaceFile, WritesShape, OpShape
<1>3. Placing(op, saves, ops) BY <1>2, TaskIs DEF Undoable, WriteTasks, MoveTasks
<1>4. PICK t \in PlaceTasks(saves, ops) : op.tasks = <<t>> BY <1>3 DEF Placing
<1>5. Task = t BY <1>4 DEF Task
<1>6. /\ Task \in PlaceTasks(saves, ops) /\ Task.to \in Path /\ Task.text \in Text(saves, ops)
      /\ Tag(Task.text) \subseteq Known(saves, ops)
  BY <1>5, Counted, Texts DEF PlaceTasks
<1>7. FilesShape'
  <2>1. disk' \in [Path -> Content(saves, ops)]
    BY <1>6, Contained DEF PlaceFile, Content
  <2>2. live' \cup trampled' \subseteq Known(saves, ops)
    BY <1>6, Contained DEF PlaceFile, WritesShape, FilesShape, Late
  <2> QED BY <1>1, <2>1, <2>2, Counted DEF PlaceFile, WritesShape, FilesShape
<1>8. op' \in {NoOp("ok"), NoOp("refused")} BY DEF PlaceFile, Over
<1> QED BY <1>1, <1>3, <1>6, <1>7, <1>8, NoOps, Rests DEF WritesShape, Resting

LEMMA MakeGateShape ==
  ASSUME WritesShape, MakeGate
  PROVE  WritesShape'
<1>1. UNCHANGED <<saves, ops>> /\ faults' \in 0 .. MaxFaults BY Counted DEF MakeGate
<1>2. /\ Task.do = "move" /\ op.tasks # <<>> /\ ~Placing(op, saves, ops)
      /\ Task.to \in Path /\ OpShape(op, saves, ops)
  BY AtTask DEF MakeGate, CallStep
<1>3. FilesShape'
  <2>1. disk' \in [Path -> Content(saves, ops)] BY <1>2, Contained DEF MakeGate
  <2> QED BY <1>1, <2>1, Counted DEF MakeGate, WritesShape, FilesShape, history
<1>4. ASSUME NEW x \in {"swap", "check"}, op' = [op EXCEPT !.step = x],
             disk' = [disk EXCEPT ![Task.to] = Gate]
      PROVE  WritesShape'
  <2>1. OpShape(op', saves, ops) /\ op'.step = x /\ Task' = Task
    BY <1>2, <1>4, GoesOn DEF CallStep
  <2>2. disk'[Task.to] = Gate BY <1>2, <1>4, Contained
  <2>3. StepInv' BY <1>2, <2>1, <2>2 DEF StepInv
  <2> QED BY <1>1, <1>3, <2>1, <2>3 DEF WritesShape
<1>5. CASE op' = FailedTask("refused")
  BY <1>1, <1>2, <1>3, <1>5, Outcomes, Rests DEF WritesShape
<1> QED BY <1>4, <1>5 DEF MakeGate

LEMMA SwappedIs ==
  ASSUME WritesShape, Task.from \in Path, Task.to \in Path, Task.from # Task.to
  PROVE  /\ Swapped(disk) \in [Path -> Content(saves, ops)]
         /\ Swapped(disk)[Task.to] = disk[Task.from] /\ Swapped(disk)[Task.from] = disk[Task.to]
         /\ \A p \in Path \ {Task.from, Task.to} : Swapped(disk)[p] = disk[p]
  BY Contained DEF Swapped

LEMMA SwapShape ==
  ASSUME WritesShape, Swap
  PROVE  WritesShape'
<1>1. UNCHANGED <<saves, ops>> /\ faults' \in 0 .. MaxFaults BY Counted DEF Swap
<1>2. /\ op.step = "swap" /\ Task.do = "move" /\ op.tasks # <<>> /\ ~Placing(op, saves, ops)
      /\ Task.to \in Path /\ Task.from \in Path /\ OpShape(op, saves, ops)
      /\ disk[Task.to] = Gate /\ Task.from # Task.to
  BY AtTask DEF Swap, CallStep, WritesShape, StepInv, MoveTasks
<1>3. FilesShape'
  <2>1. disk' \in [Path -> Content(saves, ops)] BY <1>2, Contained, SwappedIs DEF Swap
  <2>2. moved' \subseteq Path BY <1>2 DEF Swap, Away, WritesShape, FilesShape
  <2> QED BY <1>1, <2>1, <2>2, Counted DEF Swap, WritesShape, FilesShape
<1>4. CASE op' = [op EXCEPT !.step = "verify_move"] /\ disk' = Swapped(disk)
  <2>1. OpShape(op', saves, ops) /\ op'.step = "verify_move" /\ Task' = Task
    BY <1>2, <1>4, GoesOn DEF CallStep
  <2>2. disk'[Task.from] = Gate BY <1>2, <1>4, SwappedIs
  <2>3. StepInv' BY <1>2, <2>1, <2>2 DEF StepInv
  <2> QED BY <1>1, <1>3, <2>1, <2>3 DEF WritesShape
<1>5. CASE op' = FailedTask("refused")
  BY <1>1, <1>2, <1>3, <1>5, Outcomes, Rests DEF WritesShape
<1> QED BY <1>4, <1>5 DEF Swap

LEMMA VerifyMoveShape ==
  ASSUME WritesShape, VerifyMove
  PROVE  WritesShape'
<1>1. UNCHANGED <<saves, ops>> /\ faults' \in 0 .. MaxFaults BY Counted DEF VerifyMove
<1>2. /\ op.step = "verify_move" /\ Task.do = "move" /\ op.tasks # <<>> /\ ~Placing(op, saves, ops)
      /\ Task.from \in Path /\ OpShape(op, saves, ops) /\ disk[Task.from] = Gate
  BY AtTask DEF VerifyMove, CallStep, WritesShape, StepInv
<1>3. FilesShape'
  <2>1. disk' \in [Path -> Content(saves, ops)] BY <1>2, Contained DEF VerifyMove
  <2> QED BY <1>1, <2>1, Counted DEF VerifyMove, WritesShape, FilesShape, history
<1>4. CASE op' = [op EXCEPT !.step = "undo_move"] /\ UNCHANGED disk
  <2>1. OpShape(op', saves, ops) /\ op'.step = "undo_move" /\ Task' = Task
    BY <1>2, <1>4, GoesOn DEF CallStep
  <2>2. StepInv' BY <1>2, <1>4, <2>1 DEF StepInv
  <2> QED BY <1>1, <1>3, <2>1, <2>2 DEF WritesShape
<1>5. CASE op' = Succeeded \/ op' = FailedLanded
  BY <1>1, <1>2, <1>3, <1>5, Outcomes, Rests DEF WritesShape
<1> QED BY <1>4, <1>5 DEF VerifyMove

LEMMA UndoMoveShape ==
  ASSUME WritesShape, UndoMove
  PROVE  WritesShape'
<1>1. UNCHANGED <<saves, ops>> /\ faults' \in 0 .. MaxFaults BY Counted DEF UndoMove
<1>2. /\ Task.do = "move" /\ op.tasks # <<>> /\ ~Placing(op, saves, ops) /\ OpShape(op, saves, ops)
      /\ Task.from \in Path /\ Task.to \in Path /\ Task.from # Task.to
  BY AtTask DEF UndoMove, CallStep, WritesShape, StepInv, MoveTasks
<1>3. FilesShape'
  <2>1. disk' \in [Path -> Content(saves, ops)] BY <1>2, Contained, SwappedIs DEF UndoMove
  <2>2. moved' \subseteq Path BY <1>2 DEF UndoMove, Back, WritesShape, FilesShape
  <2> QED BY <1>1, <2>1, <2>2, Counted DEF UndoMove, WritesShape, FilesShape
<1> QED BY <1>1, <1>2, <1>3, Outcomes, Rests DEF WritesShape, UndoMove

LEMMA CheckMoveShape ==
  ASSUME WritesShape, CheckMove
  PROVE  WritesShape'
<1>1. UNCHANGED <<saves, ops>> /\ faults' \in 0 .. MaxFaults BY Counted DEF CheckMove
<1>2. /\ Task.do = "move" /\ op.tasks # <<>> /\ ~Placing(op, saves, ops) /\ OpShape(op, saves, ops)
      /\ Task.to \in Path
  BY AtTask DEF CheckMove, CallStep, WritesShape, StepInv
<1>3. FilesShape'
  <2>1. disk' \in [Path -> Content(saves, ops)] BY <1>2, Contained DEF CheckMove
  <2> QED BY <1>1, <2>1, Counted DEF CheckMove, WritesShape, FilesShape, history
<1>4. CASE op' = [op EXCEPT !.step = "rename"]
  <2>1. OpShape(op', saves, ops) /\ op'.step = "rename" /\ Task' = Task
    BY <1>2, <1>4, GoesOn DEF CallStep
  <2>2. StepInv' BY <1>2, <2>1 DEF StepInv
  <2> QED BY <1>1, <1>3, <2>1, <2>2 DEF WritesShape
<1>5. CASE op' = FailedTask("refused")
  BY <1>1, <1>2, <1>3, <1>5, Outcomes, Rests DEF WritesShape
<1> QED BY <1>4, <1>5 DEF CheckMove

LEMMA RenameMoveShape ==
  ASSUME WritesShape, RenameMove
  PROVE  WritesShape'
<1>1. UNCHANGED <<saves, ops>> /\ faults' \in 0 .. MaxFaults BY Counted DEF RenameMove
<1>2. /\ op.tasks # <<>> /\ ~Placing(op, saves, ops) /\ OpShape(op, saves, ops)
      /\ Task.to \in Path /\ Task.from \in Path
  BY AtTask DEF RenameMove, CallStep
<1>3. FilesShape'
  <2>1. disk' \in [Path -> Content(saves, ops)] BY <1>2, Contained DEF RenameMove
  <2>2. moved' \subseteq Path BY <1>2 DEF RenameMove, Away, WritesShape, FilesShape
  <2>3. live' \cup trampled' \subseteq Known(saves, ops)
    BY <1>2, Contained DEF RenameMove, WritesShape, FilesShape, Late
  <2> QED BY <1>1, <2>1, <2>2, <2>3, Counted DEF RenameMove, WritesShape, FilesShape
<1> QED BY <1>1, <1>2, <1>3, Outcomes, Rests DEF WritesShape, RenameMove

LEMMA FinishShape ==
  ASSUME WritesShape, Finish
  PROVE  WritesShape'
<1>1. UNCHANGED <<saves, ops>> /\ faults' \in 0 .. MaxFaults BY Counted DEF Finish
<1>2. FilesShape' BY <1>1, Counted DEF Finish, WritesShape, FilesShape, history, files
<1>3. op \in Ops(saves, ops) /\ op.journal \in Seq(Undoable(saves, ops))
  BY DEF WritesShape, OpShape, Ops
<1>4. CASE op' = NoOp("ok")
  BY <1>1, <1>2, <1>4, NoOps, Rests DEF WritesShape, Resting
<1>5. CASE op' = Rollback("refused", op.journal)
  BY <1>1, <1>2, <1>3, <1>5, RollsBack, Rests DEF WritesShape
<1> QED BY <1>4, <1>5 DEF Finish, Over

LEMMA CrashShape ==
  ASSUME WritesShape, Crash
  PROVE  WritesShape'
<1>1. UNCHANGED <<saves, ops>> /\ faults' \in 0 .. MaxFaults BY Counted DEF Crash
<1>2. FilesShape'
  <2>1. side' \in Content(saves, ops) /\ litter' \subseteq Content(saves, ops)
    BY Contained DEF Crash, WritesShape, FilesShape
  <2> QED BY <1>1, <2>1, Counted DEF Crash, WritesShape, FilesShape
<1>3. op' = NoOp("crashed") BY DEF Crash, Over
<1> QED BY <1>1, <1>2, <1>3, NoOps, Rests DEF WritesShape, Resting

\* An editor leaves the operation alone, and the directories that reserve a name.
LEMMA EditorsLeave ==
  ASSUME WritesShape, NEW p \in Path, Save(p) \/ Delete(p)
  PROVE  /\ UNCHANGED <<side, litter, exchanges, op, planned, moved, trampled, hidden, ops, faults, Task>>
         /\ saves' = saves + 1 /\ saves' \in 0 .. MaxSaves /\ disk[p] # Gate
         /\ touched' = touched \cup {p}
         /\ \A q \in Path \ {p} : disk'[q] = disk[q]
         /\ live' \subseteq (live \ Tag(disk[p])) \cup Tag(disk'[p])
         /\ disk'[p] \in Content(saves', ops) /\ MarkedBy(disk'[p]) = {}
         /\ Tag(disk'[p]) \subseteq {<<"edit", saves'>>}
         /\ disk' \in [Path -> Content(saves', ops)]
<1>1. saves \in Nat /\ ops \in Nat /\ saves \in 0 .. MaxSaves /\ ops \in 0 .. MaxOps /\ saves < MaxSaves
  BY Counted DEF Save, Delete, Editing
<1>2. saves' = saves + 1 /\ saves' \in 0 .. MaxSaves /\ saves' \in 1 .. saves'
  BY <1>1, WritesAssumption DEF Save, Delete, Editing
<1>3. UNCHANGED <<side, litter, exchanges, op, planned, moved, trampled, hidden, ops, faults, Task>>
  BY DEF Save, Delete, Editing, Task
<1>4. Content(saves, ops) \subseteq Content(saves', ops) BY <1>1, <1>2, KnowsMore
<1> DEFINE t == <<"edit", saves'>>
<1>5. t \in Known(saves', ops) BY <1>2 DEF Known
<1>6. <<t>> \in Text(saves', ops) /\ Tag(<<t>>) = {t} /\ MarkedBy(<<t>>) = {}
  BY <1>1, <1>2, <1>5, FreshText
<1>7. CASE Save(p)
  <2>1. disk' = [disk EXCEPT ![p] = <<t>>] /\ live' = (live \ Tag(disk[p])) \cup {t} /\ disk[p] # Gate
        /\ touched' = touched \cup {p}
    BY <1>2, <1>7 DEF Save
  <2> HIDE DEF t
  <2>2. disk'[p] = <<t>> /\ \A q \in Path \ {p} : disk'[q] = disk[q] BY <2>1, Contained
  <2>3. disk' \in [Path -> Content(saves', ops)] BY <1>4, <1>6, <2>1, Contained DEF Content
  <2> QED BY <1>2, <1>3, <1>6, <2>1, <2>2, <2>3 DEF t, Content
<1>8. CASE Delete(p)
  <2>1. disk' = [disk EXCEPT ![p] = Missing] /\ live' = live \ Tag(disk[p]) /\ disk[p] # Gate
        /\ touched' = touched \cup {p}
    BY <1>8 DEF Delete, IsFile
  <2>2. disk'[p] = Missing /\ \A q \in Path \ {p} : disk'[q] = disk[q] BY <2>1, Contained
  <2>3. disk' \in [Path -> Content(saves', ops)] BY <1>4, <2>1, Contained
  <2> QED BY <1>2, <1>3, <2>1, <2>2, <2>3, NoText DEF Content
<1> QED BY <1>7, <1>8

LEMMA OpGrows ==
  ASSUME NEW s \in Nat, NEW n \in Nat, NEW u \in Nat, s <= u, OpShape(op, s, n)
  PROVE  OpShape(op, u, n)
<1>1. Undoable(s, n) \subseteq Undoable(u, n) /\ PlaceTasks(s, n) \subseteq PlaceTasks(u, n)
  BY KnowsMore
<1> HIDE DEF Undoable, PlaceTasks
<1>2. /\ Seq(Undoable(s, n)) \subseteq Seq(Undoable(u, n))
      /\ Seq(Undoable(s, n) \cup PlaceTasks(s, n)) \subseteq Seq(Undoable(u, n) \cup PlaceTasks(u, n))
  BY <1>1, SeqMonotonic
<1>3. op \in Ops(u, n) BY <1>2 DEF OpShape, Ops
<1> QED BY <1>1, <1>2, <1>3 DEF OpShape, Placing

LEMMA EditorsShape ==
  ASSUME WritesShape, Editors
  PROVE  WritesShape'
<1>1. PICK p \in Path : Save(p) \/ Delete(p) BY DEF Editors
<1>2. /\ UNCHANGED <<side, litter, exchanges, op, planned, moved, trampled, hidden, ops, faults, Task>>
      /\ saves' = saves + 1 /\ saves' \in 0 .. MaxSaves /\ disk[p] # Gate
      /\ touched' = touched \cup {p}
      /\ \A q \in Path \ {p} : disk'[q] = disk[q]
      /\ live' \subseteq (live \ Tag(disk[p])) \cup Tag(disk'[p])
      /\ disk'[p] \in Content(saves', ops)
      /\ disk' \in [Path -> Content(saves', ops)]
  BY <1>1, EditorsLeave
<1>3. saves \in Nat /\ ops \in Nat /\ saves' \in Nat /\ saves <= saves' BY <1>2, Counted
<1>4. Known(saves, ops) \subseteq Known(saves', ops) /\ Content(saves, ops) \subseteq Content(saves', ops)
  BY <1>3, KnowsMore
<1>5. Tag(disk'[p]) \subseteq Known(saves', ops) BY <1>2, <1>3, Files
<1>6. FilesShape'
  <2>1. side' \in Content(saves', ops) /\ litter' \subseteq Content(saves', ops)
        /\ live' \cup trampled' \subseteq Known(saves', ops)
        /\ moved' \subseteq Path /\ touched' \subseteq Path
        /\ ops \in 0 .. MaxOps /\ faults \in 0 .. MaxFaults
    BY <1>1, <1>2, <1>4, <1>5 DEF WritesShape, FilesShape
  <2> QED BY <1>2, <2>1 DEF FilesShape
<1>7. OpShape(op', saves', ops') BY <1>2, <1>3, OpGrows DEF WritesShape
<1>8. StepInv'
  <2>1. \A q \in Path : disk[q] = Gate => disk'[q] = Gate BY <1>2
  <2>2. op.step \in {"swap", "check", "verify_move", "undo_move"} => Task.to \in Path /\ Task.from \in Path
    BY AtTask DEF CallStep
  <2> QED BY <1>2, <2>1, <2>2 DEF WritesShape, StepInv
<1> QED BY <1>6, <1>7, <1>8 DEF WritesShape

LEMMA BeginsWith ==
  ASSUME WritesShape, NEW q, Planned(q), NEW alone \in BOOLEAN, Begin(q, alone)
  PROVE  /\ WritesShape' /\ op'.step = "begin" /\ op'.tasks = q /\ op'.journal = <<>>
         /\ ~op'.unwinding /\ op'.result = "none" /\ ops' = ops + 1 /\ ops < MaxOps
<1>1. /\ saves' = saves /\ ops' = ops + 1 /\ ops < MaxOps /\ faults' = faults
      /\ saves \in Nat /\ ops \in Nat /\ ops + 1 \in 0 .. MaxOps
  BY Counted, WritesAssumption DEF Begin
<1>2. op' = [NoOp("none") EXCEPT !.tasks = q, !.step = "begin", !.alone = alone] BY DEF Begin
<1>3. op' = [step |-> "begin", tasks |-> q, journal |-> <<>>, alone |-> alone,
             unwinding |-> FALSE, broken |-> FALSE, result |-> "none"]
  BY <1>2 DEF NoOp
<1> DEFINE n == ops + 1
<1>4. q \in Seq(Undoable(saves, n)) \/ \E t \in PlaceTasks(saves, n) : q = <<t>>
  BY DEF Planned, Plan
<1>5. q # <<>> BY DEF Planned
<1> HIDE DEF n
<1>a. q \in Seq(Undoable(saves, n) \cup PlaceTasks(saves, n))
  <2> HIDE DEF Undoable, PlaceTasks
  <2>1. CASE q \in Seq(Undoable(saves, n)) BY <2>1, SeqMonotonic
  <2>2. ASSUME NEW t \in PlaceTasks(saves, n), q = <<t>>
        PROVE  q \in Seq(Undoable(saves, n) \cup PlaceTasks(saves, n))
    BY <2>2
  <2> QED BY <1>4, <2>1, <2>2
<1> HIDE <1>2
<1>6. OpShape(op', saves, n)
  <2> HIDE DEF Undoable, PlaceTasks
  <2>1. op' \in Ops(saves, n) BY <1>3, <1>a DEF Ops, CallStep
  <2> QED BY <1>3, <1>4, <1>5, <2>1 DEF OpShape, Placing
<1>7. Known(saves, ops) \subseteq Known(saves, n) /\ Content(saves, ops) \subseteq Content(saves, n)
  BY <1>1, KnowsMore DEF n
<1>8. FilesShape'
  <2>1. UNCHANGED <<disk, side, litter, live, trampled>> /\ moved' = {} /\ touched' = {} /\ ops' = n
    BY <1>1 DEF Begin, files, n
  <2>2. n \in 0 .. MaxOps BY <1>1 DEF n
  <2>3. disk \in [Path -> Content(saves, n)] /\ side \in Content(saves, n)
        /\ litter \subseteq Content(saves, n) /\ live \cup trampled \subseteq Known(saves, n)
        /\ saves \in 0 .. MaxSaves /\ faults \in 0 .. MaxFaults
    BY <1>7 DEF WritesShape, FilesShape
  <2> QED BY <1>1, <2>1, <2>2, <2>3 DEF FilesShape
<1>9. StepInv' BY <1>3, Rests DEF Resting
<1> QED BY <1>1, <1>3, <1>6, <1>8, <1>9 DEF WritesShape, n

LEMMA InitWritesShape == WritesInit => WritesShape
<1> SUFFICES ASSUME WritesInit PROVE WritesShape OBVIOUS
<1>1. ops = 0 /\ saves = 0 /\ faults = 0 /\ 0 \in 0 .. MaxSaves /\ 0 \in 0 .. MaxOps /\ 0 \in 0 .. MaxFaults
  BY WritesAssumption DEF WritesInit
<1>2. \A p \in Path : <<"orig", p>> \in Known(0, 0) BY DEF Known
<1>3. \A p \in Path : << <<"orig", p>> >> \in Content(0, 0)
  BY <1>1, <1>2, FreshText DEF Content
<1>4. FilesShape
  <2>1. disk \in [Path -> Content(0, 0)] BY <1>3 DEF WritesInit, Content
  <2>2. side \in Content(0, 0) /\ litter \subseteq Content(0, 0) BY DEF WritesInit, Content
  <2>3. live \cup trampled \subseteq Known(0, 0) /\ moved \subseteq Path /\ touched \subseteq Path
    BY <1>2 DEF WritesInit
  <2> QED BY <1>1, <2>1, <2>2, <2>3 DEF FilesShape
<1>5. op = NoOp("none") BY DEF WritesInit
<1> QED BY <1>4, <1>5, NoOps DEF WritesShape, StepInv

LEMMA KeepsWritesShape == WritesShape /\ [WritesNext]_writesVars => WritesShape'
<1> SUFFICES ASSUME WritesShape, [WritesNext]_writesVars PROVE WritesShape' OBVIOUS
<1>1. CASE Operation
  <2>1. PICK q, alone : alone \in BOOLEAN /\ Planned(q) /\ Begin(q, alone)
    BY <1>1, Operates DEF WritesShape
  <2> QED BY <2>1, BeginsWith
<1>2. CASE FileStep
  BY <1>2, BeginWriteShape, ExchangeShape, VerifyShape, UndoExchangeShape, CheckFirstShape,
     RenameOverShape, PlaceFileShape, MakeGateShape, SwapShape, VerifyMoveShape, UndoMoveShape,
     CheckMoveShape, RenameMoveShape, FinishShape DEF FileStep
<1>3. CASE Crash BY <1>3, CrashShape
<1>4. CASE Editors BY <1>4, EditorsShape
<1>5. CASE UNCHANGED writesVars
  <2>1. UNCHANGED <<disk, side, litter, op, moved, touched, live, trampled, saves, ops, faults, Task>>
    BY <1>5 DEF writesVars, files, history, counts, Task
  <2>2. FilesShape' BY <2>1 DEF WritesShape, FilesShape
  <2>3. StepInv' BY <2>1 DEF WritesShape, StepInv
  <2> QED BY <2>1, <2>2, <2>3 DEF WritesShape
<1> QED BY <1>1, <1>2, <1>3, <1>4, <1>5 DEF WritesNext

-----------------------------------------------------------------------------
(***************************************************************************)
(* NoteWrites: what is saved inside a window                               *)
(***************************************************************************)
\* Until the operation overwrites what is in its window, nothing is there but what an editor saved
\* since the window opened, or what carries the tag of what the operation puts there.
LateInv == Window(Task.to) => Tag(disk[Task.to]) \subseteq late \cup Tag(Task.text)

LEMMA NextStep ==
  ASSUME WritesShape, op.step \in CallStep \ {"none", "finish"},
         op.step # "begin" \/ Task.do \in {"write", "move"}
  PROVE  /\ \/ op' = Succeeded \/ op' = FailedTask("refused")
            \/ op' = FailedLanded \/ op' = FailedUndone
            => op'.step \in Resting
         /\ \A x \in CallStep \ {"none", "finish"} :
              op' = [op EXCEPT !.step = x] => op'.step = x /\ UNCHANGED Task
<1>1. /\ op.tasks # <<>> /\ ~Placing(op, saves, ops) /\ OpShape(op, saves, ops) BY AtTask
<1>2. ASSUME NEW x \in CallStep \ {"none", "finish"}, op' = [op EXCEPT !.step = x]
      PROVE  op'.step = x /\ UNCHANGED Task
  BY <1>1, <1>2, GoesOn
<1> QED BY <1>1, <1>2, Outcomes

LEMMA AtWindow ==
  ASSUME WritesShape, LateInv,
         \/ op.step \in {"undo", "rename"}
         \/ op.step = "begin" /\ Task.do = "import"
         \/ op.step = "begin" /\ Task.do = "create" /\ ~exchanges
  PROVE  Tag(disk[Task.to]) \subseteq late \cup Tag(Task.text)
<1>1. op.tasks # <<>> BY DEF WritesShape, OpShape
<1> QED BY <1>1 DEF LateInv, Window

\* A step that ends a task, or goes on to one that overwrites nothing, leaves no window open.
LEMMA Shuts ==
  ASSUME WritesShape, op.step \in CallStep \ {"none", "finish"},
         op.step # "begin" \/ Task.do \in {"write", "move"},
         \/ op' = Succeeded \/ op' = FailedTask("refused")
         \/ op' = FailedLanded \/ op' = FailedUndone
         \/ \E x \in {"commit", "swap", "check", "verify_move", "undo_move"} : op' = [op EXCEPT !.step = x]
  PROVE  LateInv'
<1>1. /\ op.tasks # <<>> /\ ~Placing(op, saves, ops) /\ OpShape(op, saves, ops)
      /\ Task.do \in {"write", "move"}
  BY AtTask
<1>2. ASSUME op'.tasks \in Seq(Undoable(saves, ops)), op'.step \in Resting PROVE LateInv'
  <2>1. CASE op'.tasks = <<>> BY <2>1 DEF LateInv, Window
  <2>2. CASE op'.tasks # <<>>
    <3>1. Head(op'.tasks) \in Undoable(saves, ops) BY <1>2, <2>2, ElementsOf
    <3>2. Task'.do \in {"write", "move"} BY <3>1 DEF Task, Undoable, WriteTasks, MoveTasks
    <3> QED BY <1>2, <3>2 DEF LateInv, Window, Resting
  <2> QED BY <2>1, <2>2
<1>3. ASSUME NEW x \in {"commit", "swap", "check", "verify_move", "undo_move"}, op' = [op EXCEPT !.step = x]
      PROVE  LateInv'
  <2>1. op'.step = x /\ Task' = Task BY <1>1, <1>3, GoesOn DEF CallStep
  <2> QED BY <1>1, <1>3, <2>1 DEF LateInv, Window
<1> QED BY <1>1, <1>2, <1>3, Outcomes

\* A window opens on what the operation has looked at or put there itself.
LEMMA ExchangeLate ==
  ASSUME WritesShape, Exchange
  PROVE  LateInv'
<1>1. /\ op.step = "commit" /\ Task \in WriteTasks(saves, ops) /\ Task.to \in Path /\ side = Task.text
      /\ disk \in [Path -> Content(saves, ops)]
  BY AtTask, Contained DEF Exchange, CallStep, WritesShape, StepInv
<1>2. CASE disk' = [disk EXCEPT ![Task.to] = side] /\ op' = [op EXCEPT !.step = "verify"]
  <2>1. Task' = Task BY <1>1, <1>2, NextStep DEF CallStep
  <2>2. disk'[Task.to] = Task.text BY <1>1, <1>2
  <2> QED BY <2>1, <2>2 DEF LateInv
<1>3. CASE op' = FailedTask("refused") BY <1>1, <1>3, Shuts DEF CallStep
<1> QED BY <1>2, <1>3 DEF Exchange

LEMMA VerifyLate ==
  ASSUME WritesShape, LateInv, Verify
  PROVE  LateInv'
<1>1. op.step = "verify" /\ op.tasks # <<>> /\ UNCHANGED <<disk, late>>
  BY AtTask DEF Verify, CallStep, history
<1>2. CASE op' = [op EXCEPT !.step = "undo"]
  <2>1. Task' = Task BY <1>1, <1>2, NextStep DEF CallStep
  <2>2. Tag(disk[Task.to]) \subseteq late \cup Tag(Task.text) BY <1>1 DEF LateInv, Window
  <2> QED BY <1>1, <2>1, <2>2 DEF LateInv
<1>3. CASE op' = Succeeded BY <1>1, <1>3, Shuts DEF CallStep
<1> QED BY <1>2, <1>3 DEF Verify

LEMMA CheckFirstLate ==
  ASSUME WritesShape, CheckFirst
  PROVE  LateInv'
<1>1. op.step = "commit" /\ Task \in WriteTasks(saves, ops) /\ UNCHANGED <<disk, late>>
  BY AtTask DEF CheckFirst, CallStep, WritesShape, StepInv, history
<1>2. CASE op' = [op EXCEPT !.step = "rename"] /\ disk[Task.to] = Task.expect
  <2>1. Task' = Task BY <1>1, <1>2, NextStep DEF CallStep
  <2>2. Tag(Task.expect) = Tag(Task.text) BY <1>1 DEF WriteTasks
  <2> QED BY <1>1, <1>2, <2>1, <2>2 DEF LateInv
<1>3. CASE op' = FailedTask("refused") BY <1>1, <1>3, Shuts DEF CallStep
<1> QED BY <1>2, <1>3 DEF CheckFirst

LEMMA CheckMoveLate ==
  ASSUME WritesShape, CheckMove
  PROVE  LateInv'
<1>1. op.step = "check" /\ Task.to \in Path /\ disk \in [Path -> Content(saves, ops)]
  BY AtTask, Contained DEF CheckMove, CallStep
<1>2. CASE op' = [op EXCEPT !.step = "rename"] /\ disk' = [disk EXCEPT ![Task.to] = Missing]
  <2>1. Task' = Task BY <1>1, <1>2, NextStep DEF CallStep
  <2>2. disk'[Task.to] = Missing BY <1>1, <1>2
  <2> QED BY <2>1, <2>2, NoText DEF LateInv
<1>3. CASE op' = FailedTask("refused") BY <1>1, <1>3, Shuts DEF CallStep
<1> QED BY <1>2, <1>3 DEF CheckMove

LEMMA BeginsLate ==
  ASSUME WritesShape, NEW q, Planned(q), NEW alone \in BOOLEAN, Begin(q, alone)
  PROVE  LateInv'
<1>1. op'.step = "begin" /\ op'.tasks = q BY BeginsWith
<1>2. UNCHANGED disk BY DEF Begin, files
<1>3. ASSUME NEW t \in PlaceTasks(saves, ops + 1), q = <<t>>, t.do = "replace" \/ disk[t.to] = Missing
      PROVE  LateInv'
  <2>1. Task' = t BY <1>1, <1>3 DEF Task
  <2>2. CASE t.do = "replace" BY <1>1, <2>1, <2>2 DEF LateInv, Window
  <2>3. CASE disk[t.to] = Missing BY <1>2, <2>1, <2>3, NoText DEF LateInv
  <2> QED BY <1>3, <2>2, <2>3
<1>4. ASSUME Plan(q, saves, ops + 1), q # <<>> PROVE LateInv'
  <2>1. Head(q) \in Undoable(saves, ops + 1) BY <1>4, ElementsOf DEF Plan
  <2>2. Task'.do \in {"write", "move"} BY <1>1, <2>1 DEF Task, Undoable, WriteTasks, MoveTasks
  <2> QED BY <1>1, <2>2 DEF LateInv, Window
<1> QED BY <1>3, <1>4 DEF Planned

LEMMA EditorsLate ==
  ASSUME WritesShape, LateInv, Editors
  PROVE  LateInv'
<1>1. PICK p \in Path : Save(p) \/ Delete(p) BY DEF Editors
<1>2. /\ UNCHANGED <<op, exchanges, Task>> /\ saves' = saves + 1
      /\ \A q \in Path \ {p} : disk'[q] = disk[q]
      /\ Tag(disk'[p]) \subseteq {<<"edit", saves'>>}
  BY <1>1, EditorsLeave
<1>3. Window(Task.to)' = Window(Task.to) BY <1>2 DEF Window
<1>4. late \subseteq late' BY <1>1 DEF Save, Delete
<1>5. ASSUME Window(Task.to) PROVE Tag(disk'[Task.to]) \subseteq late' \cup Tag(Task.text)
  <2>1. CASE Task.to # p /\ Task.to \in Path BY <1>2, <1>4, <1>5, <2>1 DEF LateInv
  <2>2. CASE Task.to = p
    <3>1. CASE Save(p) BY <1>2, <1>5, <2>2, <3>1 DEF Save
    <3>2. CASE Delete(p)
      <4>1. disk'[p] = Missing BY <3>2, Contained DEF Delete
      <4> QED BY <2>2, <4>1, NoText
    <3> QED BY <1>1, <3>1, <3>2
  <2>3. Task.to \in Path
    <3>1. op.tasks # <<>> /\ OpShape(op, saves, ops) BY <1>5 DEF Window, WritesShape
    <3>2. CASE Placing(op, saves, ops) BY <3>2 DEF Placing, Task, PlaceTasks
    <3>3. CASE ~Placing(op, saves, ops) BY <3>1, <3>3, TaskIs
    <3> QED BY <3>2, <3>3
  <2> QED BY <2>1, <2>2, <2>3
<1> QED BY <1>2, <1>3, <1>5 DEF LateInv

LEMMA KeepsLate == WritesShape /\ LateInv /\ [WritesNext]_writesVars => LateInv'
<1> SUFFICES ASSUME WritesShape, LateInv, [WritesNext]_writesVars PROVE LateInv' OBVIOUS
<1>1. CASE Operation
  <2>1. PICK q, alone : alone \in BOOLEAN /\ Planned(q) /\ Begin(q, alone)
    BY <1>1, Operates DEF WritesShape
  <2> QED BY <2>1, BeginsLate
<1>2. CASE FileStep
  <2>1. CASE BeginWrite BY <2>1, Shuts DEF BeginWrite, CallStep
  <2>2. CASE UndoExchange BY <2>2, Shuts DEF UndoExchange, CallStep
  <2>3. CASE RenameOver BY <2>3, Shuts DEF RenameOver, CallStep
  <2>4. CASE PlaceFile BY <2>4 DEF PlaceFile, Over, NoOp, LateInv, Window
  <2>5. CASE MakeGate BY <2>5, Shuts DEF MakeGate, CallStep
  <2>6. CASE Swap BY <2>6, Shuts DEF Swap, CallStep
  <2>7. CASE VerifyMove BY <2>7, Shuts DEF VerifyMove, CallStep
  <2>8. CASE UndoMove BY <2>8, Shuts DEF UndoMove, CallStep
  <2>9. CASE RenameMove BY <2>9, Shuts DEF RenameMove, CallStep
  <2>10. CASE Finish
    <3>1. CASE op' = NoOp("ok") BY <3>1 DEF NoOp, LateInv, Window
    <3>2. CASE op' = Rollback("refused", op.journal)
      <4> DEFINE U == Undoable(saves, ops)
      <4>1. op \in Ops(saves, ops) /\ op.journal \in Seq(U) BY DEF WritesShape, OpShape, Ops
      <4>2. op'.tasks = <<>> \/ (op'.step = "begin" /\ op'.tasks = Reverse(op.journal))
        BY <3>2, <4>1, RollsBack DEF NoOp
      <4>3. op'.tasks # <<>> => Head(op'.tasks) \in U
        <5> HIDE DEF U
        <5> QED BY <4>1, <4>2, ElementsOf
      <4>4. op'.tasks # <<>> => Task'.do \in {"write", "move"}
        BY <4>3 DEF Task, Undoable, WriteTasks, MoveTasks
      <4> QED BY <4>2, <4>4 DEF LateInv, Window
    <3> QED BY <2>10, <3>1, <3>2 DEF Finish, Over
  <2> QED BY <1>2, <2>1, <2>2, <2>3, <2>4, <2>5, <2>6, <2>7, <2>8, <2>9, <2>10, ExchangeLate, VerifyLate,
             CheckFirstLate, CheckMoveLate DEF FileStep
<1>3. CASE Crash BY <1>3 DEF Crash, Over, NoOp, LateInv, Window
<1>4. CASE Editors BY <1>4, EditorsLate
<1>5. CASE UNCHANGED writesVars
  BY <1>5 DEF writesVars, files, history, LateInv, Window, Task
<1> QED BY <1>1, <1>2, <1>3, <1>4, <1>5 DEF WritesNext

-----------------------------------------------------------------------------
(***************************************************************************)
(* NoteWrites: where a text is                                             *)
(***************************************************************************)
Uncertain == {"verify", "undo"}
OnDisk(t) == \E p \in Path : t \in Tag(disk[p])
Beside(t) == \E p \in Path \ {Task.to} : t \in Tag(disk[p])
Parked(t) == hidden /\ \E c \in litter : t \in Tag(c)
Kept == live \ trampled

\* What nobody gave up is on disk, or displaced and about to be judged.  Until then nothing depends on
\* the bytes that displaced it: put back over them, it hides no other text.
TextInv ==
  /\ \A t \in Kept : OnDisk(t) \/ Parked(t) \/ (op.step \in Uncertain /\ t \in Tag(side))
  /\ op.step = "verify" => \A t \in Kept \cap Tag(Task.text) : OnDisk(t) \/ Parked(t)
  /\ op.step \in Uncertain =>
       \A t \in Kept \cap Tag(Task.text) : Beside(t) \/ t \in Tag(side) \/ Parked(t)

\* Nothing is displaced, before the step or after it.
LEMMA Carries ==
  ASSUME TextInv, op.step \notin Uncertain, op'.step \notin Uncertain,
         live' \subseteq live, trampled \subseteq trampled', litter \subseteq litter', hidden => hidden',
         \A t \in live \ trampled' : OnDisk(t) => OnDisk(t)'
  PROVE  TextInv'
<1>1. \A t \in Kept' : t \in Kept /\ (OnDisk(t) => OnDisk(t)') BY DEF Kept
<1>2. \A t : Parked(t) => Parked(t)' BY DEF Parked
<1> QED BY <1>1, <1>2 DEF TextInv

LEMMA SameDisk ==
  ASSUME UNCHANGED disk
  PROVE  \A t : OnDisk(t) => OnDisk(t)'
  BY DEF OnDisk

LEMMA BeginWriteTexts ==
  ASSUME WritesShape, TextInv, BeginWrite
  PROVE  TextInv'
<1>1. op.step = "begin" /\ Task.do = "write" /\ UNCHANGED <<disk, live, trampled, hidden, litter>>
  BY DEF BeginWrite, history
<1>2. op'.step \notin Uncertain
  BY <1>1, NextStep DEF BeginWrite, Uncertain, Resting, CallStep
<1> QED BY <1>1, <1>2, Carries, SameDisk DEF Uncertain

LEMMA ExchangeTexts ==
  ASSUME WritesShape, TextInv, Exchange
  PROVE  TextInv'
<1>1. /\ op.step = "commit" /\ Task.do = "write" /\ Task.to \in Path /\ side = Task.text
      /\ UNCHANGED <<live, trampled, hidden>>
      /\ disk \in [Path -> Content(saves, ops)]
  BY AtTask, Contained DEF Exchange, CallStep, WritesShape, StepInv, history
<1>2. \A t \in Kept : OnDisk(t) \/ Parked(t) BY <1>1 DEF TextInv, Uncertain
<1>3. CASE /\ disk' = [disk EXCEPT ![Task.to] = side] /\ side' = disk[Task.to]
           /\ op' = [op EXCEPT !.step = "verify"] /\ UNCHANGED litter
  <2>1. op'.step = "verify" /\ UNCHANGED Task BY <1>1, <1>3, NextStep DEF CallStep
  <2>2. /\ disk'[Task.to] = Task.text /\ side' = disk[Task.to]
        /\ \A q \in Path \ {Task.to} : disk'[q] = disk[q]
    BY <1>1, <1>3
  <2>3. Kept' = Kept BY <1>1 DEF Kept
  <2>4. \A t : Parked(t) => Parked(t)' BY <1>1, <1>3 DEF Parked
  <2>5. ASSUME NEW t, OnDisk(t) PROVE Beside(t)' \/ t \in Tag(side')
    <3>1. PICK p \in Path : t \in Tag(disk[p]) BY <2>5 DEF OnDisk
    <3> QED BY <2>1, <2>2, <3>1 DEF Beside
  <2>6. \A t \in Tag(Task.text) : OnDisk(t)' BY <1>1, <2>2 DEF OnDisk
  <2>7. \A t : Beside(t)' => OnDisk(t)' BY DEF Beside, OnDisk
  <2> QED BY <1>2, <2>1, <2>3, <2>4, <2>5, <2>6, <2>7 DEF TextInv, Uncertain
<1>4. CASE UNCHANGED disk /\ op' = FailedTask("refused") /\ litter \subseteq litter'
  <2>1. op'.step \notin Uncertain BY <1>1, <1>4, NextStep DEF Uncertain, Resting, CallStep
  <2> QED BY <1>1, <1>4, <2>1, Carries, SameDisk DEF Uncertain
<1> QED BY <1>3, <1>4 DEF Exchange

LEMMA VerifyTexts ==
  ASSUME WritesShape, TextInv, Verify
  PROVE  TextInv'
<1>1. /\ op.step = "verify" /\ Task \in WriteTasks(saves, ops)
      /\ UNCHANGED <<disk, live, trampled, hidden, litter>>
  BY AtTask DEF Verify, CallStep, WritesShape, StepInv, history
<1>2. Kept' = Kept /\ \A t : (OnDisk(t) => OnDisk(t)') /\ (Parked(t) => Parked(t)')
  BY <1>1 DEF Kept, OnDisk, Parked
<1>3. CASE Unchanged /\ op' = Succeeded
  <2>1. op'.step \notin Uncertain BY <1>1, <1>3, NextStep DEF Uncertain, Resting, CallStep
  <2>2. Tag(side) = Tag(Task.text) BY <1>1, <1>3 DEF Unchanged, WriteTasks
  <2>3. \A t \in Kept : OnDisk(t) \/ Parked(t) BY <1>1, <2>2 DEF TextInv
  <2> QED BY <1>2, <2>1, <2>3 DEF TextInv, Uncertain
<1>4. CASE op' = [op EXCEPT !.step = "undo"] /\ UNCHANGED side
  <2>1. op'.step = "undo" /\ UNCHANGED Task BY <1>1, <1>4, NextStep DEF CallStep
  <2>2. \A t : Beside(t) => Beside(t)' BY <1>1, <2>1 DEF Beside
  <2> QED BY <1>1, <1>2, <1>4, <2>1, <2>2 DEF TextInv, Uncertain
<1> QED BY <1>3, <1>4 DEF Verify

LEMMA UndoExchangeTexts ==
  ASSUME WritesShape, LateInv, TextInv, UndoExchange
  PROVE  TextInv'
<1>1. /\ op.step = "undo" /\ Task.do = "write" /\ Task.to \in Path /\ UNCHANGED live
      /\ disk \in [Path -> Content(saves, ops)]
  BY AtTask, Contained DEF UndoExchange, CallStep, WritesShape, StepInv
<1>2. op'.step \notin Uncertain
  BY <1>1, NextStep DEF UndoExchange, Uncertain, Resting, CallStep
<1>3. CASE /\ disk' = [disk EXCEPT ![Task.to] = side] /\ UNCHANGED <<litter, hidden>>
           /\ trampled' = trampled \cup Late(Task.to)
  <2>1. disk'[Task.to] = side /\ \A q \in Path \ {Task.to} : disk'[q] = disk[q] BY <1>1, <1>3
  <2>2. \A t : Parked(t) => Parked(t)' BY <1>3 DEF Parked
  <2>3. ASSUME NEW t \in Kept' PROVE OnDisk(t)' \/ Parked(t)'
    <3>1. t \in Kept /\ (t \in Tag(disk[Task.to]) => t \in Tag(Task.text))
      BY <1>1, <1>3, AtWindow DEF Kept, Late
    <3>2. Beside(t) \/ t \in Tag(side) => OnDisk(t)' BY <1>1, <2>1 DEF Beside, OnDisk
    <3>3. OnDisk(t) => Beside(t) \/ t \in Tag(disk[Task.to]) BY DEF OnDisk, Beside
    <3>4. t \in Tag(Task.text) => Beside(t) \/ t \in Tag(side) \/ Parked(t)
      BY <1>1, <3>1 DEF TextInv, Uncertain
    <3>5. OnDisk(t) \/ Parked(t) \/ t \in Tag(side) BY <1>1, <3>1 DEF TextInv
    <3> QED BY <2>2, <3>1, <3>2, <3>3, <3>4, <3>5
  <2> QED BY <1>2, <2>3 DEF TextInv, Uncertain
<1>4. CASE litter' = litter \cup {side} /\ hidden' = TRUE /\ UNCHANGED <<disk, trampled>>
  <2>1. \A t : (OnDisk(t) => OnDisk(t)') /\ (Parked(t) \/ t \in Tag(side) => Parked(t)')
    BY <1>4 DEF OnDisk, Parked
  <2>2. Kept' = Kept BY <1>1, <1>4 DEF Kept
  <2> QED BY <1>2, <2>1, <2>2 DEF TextInv, Uncertain
<1> QED BY <1>3, <1>4 DEF UndoExchange

LEMMA CheckFirstTexts ==
  ASSUME WritesShape, TextInv, CheckFirst
  PROVE  TextInv'
<1>1. op.step = "commit" /\ UNCHANGED <<disk, live, trampled, hidden, litter>>
  BY DEF CheckFirst, history
<1>2. op'.step \notin Uncertain
  BY <1>1, NextStep DEF CheckFirst, Uncertain, Resting, CallStep
<1> QED BY <1>1, <1>2, Carries, SameDisk DEF Uncertain

LEMMA RenameOverTexts ==
  ASSUME WritesShape, LateInv, TextInv, RenameOver
  PROVE  TextInv'
<1>1. /\ op.step = "rename" /\ Task \in WriteTasks(saves, ops) /\ Task.to \in Path /\ side = Task.text
      /\ UNCHANGED <<live, hidden, litter>> /\ disk \in [Path -> Content(saves, ops)]
  BY AtTask, Contained DEF RenameOver, CallStep, WritesShape, StepInv
<1>2. op'.step \notin Uncertain
  BY <1>1, NextStep DEF RenameOver, Uncertain, Resting, CallStep
<1>3. CASE /\ disk' = [disk EXCEPT ![Task.to] = side]
           /\ trampled' = trampled \cup Late(Task.to)
  <2>1. disk'[Task.to] = Task.text /\ \A q \in Path \ {Task.to} : disk'[q] = disk[q] BY <1>1, <1>3
  <2>3. ASSUME NEW t \in live \ trampled', OnDisk(t) PROVE OnDisk(t)'
    <3>1. CASE t \in Tag(disk[Task.to])
      <4>1. t \in Tag(disk'[Task.to]) BY <1>1, <1>3, <2>1, <2>3, <3>1, AtWindow DEF Late
      <4> QED BY <1>1, <4>1 DEF OnDisk
    <3>2. CASE t \notin Tag(disk[Task.to])
      BY <2>1, <2>3, <3>2 DEF OnDisk
    <3> QED BY <3>1, <3>2
  <2>4. trampled \subseteq trampled' BY <1>3
  <2> QED BY <1>1, <1>2, <2>3, <2>4, Carries DEF Uncertain
<1>4. CASE UNCHANGED <<disk, trampled>>
  BY <1>1, <1>2, <1>4, Carries, SameDisk DEF Uncertain
<1> QED BY <1>3, <1>4 DEF RenameOver

LEMMA PlaceFileTexts ==
  ASSUME WritesShape, LateInv, TextInv, PlaceFile
  PROVE  TextInv'
<1>1. /\ op.step = "begin" /\ Task.to \in Path /\ UNCHANGED <<hidden, litter>>
      /\ disk \in [Path -> Content(saves, ops)] /\ op'.step = "none"
      /\ Task.do \in {"create", "replace", "import"}
  BY PlaceFileShape, Contained DEF PlaceFile, PlaceTasks, NoOp
<1>2. CASE /\ disk' = [disk EXCEPT ![Task.to] = Task.text]
           /\ trampled' = trampled \cup (IF Task.do = "replace" THEN Tag(disk[Task.to]) ELSE Late(Task.to))
           /\ live' = live \cup Tag(Task.text)
           /\ Task.do = "create" /\ exchanges => disk[Task.to] = Missing
  <2>1. disk'[Task.to] = Task.text /\ \A q \in Path \ {Task.to} : disk'[q] = disk[q] BY <1>1, <1>2
  <2>2. ASSUME NEW t \in Kept' PROVE OnDisk(t)' \/ Parked(t)'
    <3>1. CASE t \in Tag(Task.text) BY <1>1, <2>1, <3>1 DEF OnDisk
    <3>2. CASE t \notin Tag(Task.text)
      <4>0. t \in Kept /\ (Task.do = "replace" => t \notin Tag(disk[Task.to])) BY <1>2, <3>2 DEF Kept
      <4>1. t \in Kept /\ t \notin Tag(disk[Task.to])
        <5>1. CASE Task.do = "replace" BY <4>0, <5>1
        <5>2. CASE Task.do = "create" /\ exchanges BY <1>2, <4>0, <5>2, NoText
        <5>3. CASE Task.do = "import" \/ (Task.do = "create" /\ ~exchanges)
          <6>1. t \notin Late(Task.to) BY <1>2, <3>2, <5>3 DEF Kept
          <6> QED BY <1>1, <3>2, <4>0, <5>3, <6>1, AtWindow DEF Late
        <5> QED BY <1>1, <5>1, <5>2, <5>3
      <4>2. OnDisk(t) \/ Parked(t) BY <1>1, <4>1 DEF TextInv, Uncertain
      <4>3. OnDisk(t) => OnDisk(t)' BY <2>1, <4>1 DEF OnDisk
      <4> QED BY <1>1, <4>2, <4>3 DEF Parked
    <3> QED BY <3>1, <3>2
  <2> QED BY <1>1, <2>2 DEF TextInv, Uncertain
<1>3. CASE UNCHANGED <<disk, trampled, live>>
  BY <1>1, <1>3, Carries, SameDisk DEF Uncertain
<1> QED BY <1>2, <1>3 DEF PlaceFile

LEMMA MakeGateTexts ==
  ASSUME WritesShape, TextInv, MakeGate
  PROVE  TextInv'
<1>1. /\ op.step = "begin" /\ Task.do = "move" /\ UNCHANGED <<live, trampled, hidden, litter>>
  BY DEF MakeGate, history
<1>2. op'.step \notin Uncertain
  BY <1>1, NextStep DEF MakeGate, Uncertain, Resting, CallStep
<1>3. ASSUME disk[Task.to] = Missing, disk' = [disk EXCEPT ![Task.to] = Gate], NEW t, OnDisk(t)
      PROVE  OnDisk(t)'
  <2>1. PICK p \in Path : t \in Tag(disk[p]) BY <1>3 DEF OnDisk
  <2>2. p # Task.to BY <1>3, <2>1, NoText
  <2>3. disk'[p] = disk[p] BY <1>3, <2>2, Contained
  <2> QED BY <2>1, <2>3 DEF OnDisk
<1>4. \A t : OnDisk(t) => OnDisk(t)' BY <1>3, SameDisk DEF MakeGate
<1> QED BY <1>1, <1>2, <1>4, Carries DEF Uncertain

\* What a move carries is on disk at either of its names; the directory is no text.
LEMMA Moves ==
  ASSUME WritesShape, Task.from \in Path, Task.to \in Path, Task.from # Task.to,
         \/ disk' = Swapped(disk)
         \/ Tag(disk[Task.from]) = {} /\ disk' = [Swapped(disk) EXCEPT ![Task.to] = Missing]
         \/ Tag(disk[Task.to]) = {} /\ disk' = [disk EXCEPT ![Task.to] = Missing]
         \/ Tag(disk[Task.from]) = {} /\ disk' = [disk EXCEPT ![Task.from] = Missing],
         NEW t, OnDisk(t)
  PROVE  OnDisk(t)'
<1>1. PICK p \in Path : t \in Tag(disk[p]) BY DEF OnDisk
<1>2. \A q \in Path \ {Task.from, Task.to} : disk'[q] = disk[q] BY Contained DEF Swapped
<1>3. CASE p \notin {Task.from, Task.to} BY <1>1, <1>2, <1>3 DEF OnDisk
<1>4. CASE disk' = Swapped(disk) /\ p \in {Task.from, Task.to}
  <2>1. disk'[Task.to] = disk[Task.from] /\ disk'[Task.from] = disk[Task.to] BY <1>4, SwappedIs
  <2> QED BY <1>1, <1>4, <2>1 DEF OnDisk
<1>5. CASE /\ Tag(disk[Task.from]) = {} /\ disk' = [Swapped(disk) EXCEPT ![Task.to] = Missing]
           /\ p = Task.to
  <2>1. disk'[Task.from] = disk[Task.to]
    <3> DEFINE d == Swapped(disk)
    <3>1. d \in [Path -> Content(saves, ops)] /\ d[Task.from] = disk[Task.to] BY SwappedIs
    <3> HIDE DEF d
    <3>2. disk' = [d EXCEPT ![Task.to] = Missing] BY <1>5 DEF d
    <3> QED BY <3>1, <3>2
  <2> QED BY <1>1, <1>5, <2>1 DEF OnDisk
<1>6. CASE /\ Tag(disk[Task.to]) = {} /\ disk' = [disk EXCEPT ![Task.to] = Missing]
           /\ p = Task.from
  <2>1. disk'[Task.from] = disk[Task.from] BY <1>6, Contained
  <2> QED BY <1>1, <1>6, <2>1 DEF OnDisk
<1>7. CASE /\ Tag(disk[Task.from]) = {} /\ disk' = [disk EXCEPT ![Task.from] = Missing]
           /\ p = Task.to
  <2>1. disk'[Task.to] = disk[Task.to] BY <1>7, Contained
  <2> QED BY <1>1, <1>7, <2>1 DEF OnDisk
<1> QED BY <1>1, <1>3, <1>4, <1>5, <1>6, <1>7

LEMMA AtMove ==
  ASSUME WritesShape, op.step \in {"swap", "check", "verify_move", "undo_move"}
  PROVE  /\ Task.do = "move" /\ Task.from \in Path /\ Task.to \in Path /\ Task.from # Task.to
         /\ op.step \in {"swap", "check"} => Tag(disk[Task.to]) = {}
         /\ op.step \in {"verify_move", "undo_move"} => Tag(disk[Task.from]) = {}
<1>1. Task.do = "move" BY DEF WritesShape, StepInv
<1>2. Task \in MoveTasks(saves, ops) /\ Task.from \in Path /\ Task.to \in Path
  BY <1>1, AtTask DEF CallStep
<1> QED BY <1>1, <1>2, NoText DEF MoveTasks, WritesShape, StepInv

LEMMA SwapTexts ==
  ASSUME WritesShape, TextInv, Swap
  PROVE  TextInv'
<1>1. op.step = "swap" /\ UNCHANGED <<live, trampled, hidden, litter>> BY DEF Swap
<1>2. op'.step \notin Uncertain BY <1>1, NextStep DEF Swap, Uncertain, Resting, CallStep
<1>3. disk' = Swapped(disk) \/ disk' = [disk EXCEPT ![Task.to] = Missing] BY DEF Swap
<1>4. \A t : OnDisk(t) => OnDisk(t)' BY <1>1, <1>3, AtMove, Moves
<1> QED BY <1>1, <1>2, <1>4, Carries DEF Uncertain

LEMMA VerifyMoveTexts ==
  ASSUME WritesShape, TextInv, VerifyMove
  PROVE  TextInv'
<1>1. op.step = "verify_move" /\ UNCHANGED <<live, trampled, hidden, litter>>
  BY DEF VerifyMove, history
<1>2. op'.step \notin Uncertain BY <1>1, NextStep DEF VerifyMove, Uncertain, Resting, CallStep
<1>3. UNCHANGED disk \/ disk' = [disk EXCEPT ![Task.from] = Missing] BY DEF VerifyMove
<1>4. \A t : OnDisk(t) => OnDisk(t)' BY <1>1, <1>3, AtMove, Moves, SameDisk
<1> QED BY <1>1, <1>2, <1>4, Carries DEF Uncertain

LEMMA UndoMoveTexts ==
  ASSUME WritesShape, TextInv, UndoMove
  PROVE  TextInv'
<1>1. op.step = "undo_move" /\ UNCHANGED <<live, trampled, hidden, litter>> BY DEF UndoMove
<1>2. op'.step \notin Uncertain BY <1>1, NextStep DEF UndoMove, Uncertain, Resting, CallStep
<1>3. \/ UNCHANGED disk \/ disk' = Swapped(disk)
      \/ disk' = [Swapped(disk) EXCEPT ![Task.to] = Missing]
  BY DEF UndoMove
<1>4. \A t : OnDisk(t) => OnDisk(t)' BY <1>1, <1>3, AtMove, Moves, SameDisk
<1> QED BY <1>1, <1>2, <1>4, Carries DEF Uncertain

LEMMA CheckMoveTexts ==
  ASSUME WritesShape, TextInv, CheckMove
  PROVE  TextInv'
<1>1. op.step = "check" /\ UNCHANGED <<live, trampled, hidden, litter>>
  BY DEF CheckMove, history
<1>2. op'.step \notin Uncertain BY <1>1, NextStep DEF CheckMove, Uncertain, Resting, CallStep
<1>3. UNCHANGED disk \/ disk' = [disk EXCEPT ![Task.to] = Missing] BY DEF CheckMove
<1>4. \A t : OnDisk(t) => OnDisk(t)' BY <1>1, <1>3, AtMove, Moves, SameDisk
<1> QED BY <1>1, <1>2, <1>4, Carries DEF Uncertain

LEMMA RenameMoveTexts ==
  ASSUME WritesShape, LateInv, TextInv, RenameMove
  PROVE  TextInv'
<1>1. /\ op.step = "rename" /\ Task \in MoveTasks(saves, ops) /\ UNCHANGED <<live, hidden, litter>>
      /\ Task.to \in Path /\ Task.from \in Path /\ Task.from # Task.to
      /\ disk \in [Path -> Content(saves, ops)]
  BY AtTask, Contained DEF RenameMove, CallStep, MoveTasks
<1>2. op'.step \notin Uncertain BY <1>1, NextStep DEF RenameMove, Uncertain, Resting, CallStep
<1>3. CASE /\ disk' = [disk EXCEPT ![Task.to] = disk[Task.from], ![Task.from] = Missing]
           /\ trampled' = trampled \cup Late(Task.to)
  <2>1. /\ disk'[Task.to] = disk[Task.from]
        /\ \A q \in Path \ {Task.from, Task.to} : disk'[q] = disk[q]
    BY <1>1, <1>3
  <2>2. ASSUME NEW t \in live \ trampled', OnDisk(t) PROVE OnDisk(t)'
    <3>1. PICK p \in Path : t \in Tag(disk[p]) BY <2>2 DEF OnDisk
    <3>2. p # Task.to BY <1>1, <1>3, <2>2, <3>1, AtWindow, NoText DEF Late, MoveTasks
    <3> QED BY <1>1, <2>1, <3>1, <3>2 DEF OnDisk
  <2> QED BY <1>1, <1>2, <1>3, <2>2, Carries DEF Uncertain
<1>4. CASE UNCHANGED <<disk, trampled>>
  BY <1>1, <1>2, <1>4, Carries, SameDisk DEF Uncertain
<1> QED BY <1>3, <1>4 DEF RenameMove

LEMMA FinishTexts ==
  ASSUME WritesShape, TextInv, Finish
  PROVE  TextInv'
<1>1. op.step = "finish" /\ UNCHANGED <<disk, live, trampled, hidden, litter>>
  BY DEF Finish, history, files
<1>2. op'.step \notin Uncertain
  <2>1. CASE op' = NoOp("ok") BY <2>1 DEF NoOp, Uncertain
  <2>2. CASE op' = Rollback("refused", op.journal)
    <3>1. op \in Ops(saves, ops) /\ op.journal \in Seq(Undoable(saves, ops))
      BY DEF WritesShape, OpShape, Ops
    <3>2. op'.step \in Resting BY <2>2, <3>1, RollsBack
    <3> QED BY <3>2 DEF Resting, Uncertain
  <2> QED BY <2>1, <2>2 DEF Finish, Over
<1> QED BY <1>1, <1>2, Carries, SameDisk DEF Uncertain

LEMMA CrashTexts ==
  ASSUME WritesShape, TextInv, Crash
  PROVE  TextInv'
<1>1. /\ UNCHANGED <<disk, live, trampled>> /\ hidden' = TRUE /\ op'.step = "none"
      /\ litter' = litter \cup (IF side = Missing THEN {} ELSE {side})
  BY DEF Crash, Over, NoOp
<1>2. Kept' = Kept /\ \A t : OnDisk(t) => OnDisk(t)' BY <1>1 DEF Kept, OnDisk
<1>3. \A t : Parked(t) \/ t \in Tag(side) => Parked(t)' BY <1>1, NoText DEF Parked
<1> QED BY <1>1, <1>2, <1>3 DEF TextInv, Uncertain

LEMMA EditorsTexts ==
  ASSUME WritesShape, TextInv, Editors
  PROVE  TextInv'
<1>1. PICK p \in Path : Save(p) \/ Delete(p) BY DEF Editors
<1>2. /\ UNCHANGED <<side, litter, op, trampled, hidden, Task>>
      /\ saves' = saves + 1
      /\ \A q \in Path \ {p} : disk'[q] = disk[q]
      /\ live' \subseteq (live \ Tag(disk[p])) \cup Tag(disk'[p])
      /\ Tag(disk'[p]) \subseteq {<<"edit", saves'>>}
  BY <1>1, EditorsLeave
<1>3. ASSUME NEW t \in Kept'
      PROVE  \/ t \in Tag(disk'[p]) /\ t \notin Tag(disk[p]) /\ t = <<"edit", saves'>>
             \/ t \in Kept /\ t \notin Tag(disk[p])
             \/ t \in Tag(disk'[p]) /\ t \in Tag(disk[p])
  BY <1>2, <1>3 DEF Kept
<1>4. <<"edit", saves'>> \notin Known(saves, ops)
  <2>1. saves \in Nat BY Counted
  <2>2. saves + 1 \notin 1 .. saves BY <2>1
  <2> QED BY <1>2, <2>2 DEF Known
<1>5. \A t \in Tag(disk'[p]) : t \notin Tag(disk[p]) /\ OnDisk(t)'
  BY <1>1, <1>2, <1>4, Contained DEF OnDisk
<1>6. \A t : t \notin Tag(disk[p]) => /\ OnDisk(t) => OnDisk(t)'
                                      /\ Beside(t) => Beside(t)'
  <2> SUFFICES ASSUME NEW t, t \notin Tag(disk[p])
               PROVE  (OnDisk(t) => OnDisk(t)') /\ (Beside(t) => Beside(t)')
    OBVIOUS
  <2>1. \A q \in Path : t \in Tag(disk[q]) => t \in Tag(disk'[q]) BY <1>2
  <2> QED BY <1>2, <2>1 DEF OnDisk, Beside
<1>7. \A t : Parked(t) => Parked(t)' BY <1>2 DEF Parked
<1>8. \A t \in Kept' : t \in Tag(disk'[p]) \/ (t \in Kept /\ t \notin Tag(disk[p])) BY <1>3
<1>9. op.step \in Uncertain => Tag(disk'[p]) \cap Tag(Task.text) = {}
  <2> SUFFICES ASSUME op.step \in Uncertain PROVE Tag(disk'[p]) \cap Tag(Task.text) = {} OBVIOUS
  <2>1. Task \in WriteTasks(saves, ops) BY AtTask DEF Uncertain, CallStep, WritesShape, StepInv
  <2>2. Tag(Task.text) \subseteq Known(saves, ops) BY <2>1, Counted, Texts DEF WriteTasks
  <2> QED BY <1>2, <1>4, <2>2
<1> QED
  <2>1. \A t \in Kept' : OnDisk(t)' \/ Parked(t)' \/ (op.step \in Uncertain /\ t \in Tag(side))
    BY <1>5, <1>6, <1>7, <1>8 DEF TextInv
  <2>2. op.step = "verify" => \A t \in Kept' \cap Tag(Task.text) : OnDisk(t)' \/ Parked(t)'
    BY <1>5, <1>6, <1>7, <1>8 DEF TextInv
  <2>3. op.step \in Uncertain =>
          \A t \in Kept' \cap Tag(Task.text) : Beside(t)' \/ t \in Tag(side) \/ Parked(t)'
    BY <1>6, <1>7, <1>8, <1>9 DEF TextInv
  <2> QED BY <1>2, <2>1, <2>2, <2>3 DEF TextInv

LEMMA KeepsTexts == WritesShape /\ LateInv /\ TextInv /\ [WritesNext]_writesVars => TextInv'
<1> SUFFICES ASSUME WritesShape, LateInv, TextInv, [WritesNext]_writesVars PROVE TextInv' OBVIOUS
<1>1. CASE Operation
  <2>1. PICK q, alone : alone \in BOOLEAN /\ Planned(q) /\ Begin(q, alone)
    BY <1>1, Operates DEF WritesShape
  <2>2. op'.step = "begin" BY <2>1, BeginsWith
  <2>3. op.step = "none" /\ UNCHANGED <<disk, live, trampled, hidden, litter>>
    BY <2>1 DEF Begin, files
  <2> QED BY <2>2, <2>3, Carries, SameDisk DEF Uncertain
<1>2. CASE FileStep
  BY <1>2, BeginWriteTexts, ExchangeTexts, VerifyTexts, UndoExchangeTexts, CheckFirstTexts,
     RenameOverTexts, PlaceFileTexts, MakeGateTexts, SwapTexts, VerifyMoveTexts, UndoMoveTexts,
     CheckMoveTexts, RenameMoveTexts, FinishTexts DEF FileStep
<1>3. CASE Crash BY <1>3, CrashTexts
<1>4. CASE Editors BY <1>4, EditorsTexts
<1>5. CASE UNCHANGED writesVars
  <2>1. UNCHANGED <<disk, side, litter, op, hidden, Kept, Task>>
    BY <1>5 DEF writesVars, files, history, Kept, Task
  <2>2. \A t : OnDisk(t)' = OnDisk(t) /\ Beside(t)' = Beside(t) /\ Parked(t)' = Parked(t)
    BY <2>1 DEF OnDisk, Beside, Parked
  <2> QED BY <2>1, <2>2 DEF TextInv
<1> QED BY <1>1, <1>2, <1>3, <1>4, <1>5 DEF WritesNext

LEMMA TextsInductive == WritesSpec => [](WritesShape /\ LateInv /\ TextInv)
<1>1. WritesInit => TextInv
  <2> SUFFICES ASSUME WritesInit PROVE TextInv OBVIOUS
  <2>1. op.step = "none" BY DEF WritesInit, NoOp
  <2>2. ASSUME NEW t \in live PROVE OnDisk(t)
    <3>1. PICK p \in Path \ {Moved, MovedAsset} : t = <<"orig", p>> BY <2>2 DEF WritesInit
    <3>2. disk[p] = << <<"orig", p>> >> BY <3>1 DEF WritesInit
    <3>3. 0 \in 0 .. MaxSaves /\ 0 \in 0 .. MaxOps /\ t \in Known(0, 0)
      BY <3>1, WritesAssumption DEF Known
    <3>4. Tag(<<t>>) = {t} BY <3>3, FreshText
    <3> QED BY <3>1, <3>2, <3>4 DEF OnDisk
  <2> QED BY <2>1, <2>2 DEF TextInv, Uncertain, Kept
<1>2. WritesInit => LateInv BY DEF WritesInit, LateInv, Window, NoOp
<1> QED BY <1>1, <1>2, InitWritesShape, KeepsWritesShape, KeepsLate, KeepsTexts, PTL DEF WritesSpec

\* Nothing that anybody wrote is lost (NoteWrites.tla): a text that no editor gave up and no caller
\* asked to overwrite is on disk, in the sidecar of a write that is deciding, or in one that was left
\* behind and reported; unless it was saved inside a window of the very operation that overwrote it,
\* which are ADR-26's check and rename, the undo of an exchange, and an import without `overwrite'.
THEOREM WritesKeepTexts == WritesSpec => []SavesSurvive
<1>1. WritesShape /\ TextInv => SavesSurvive BY DEF TextInv, SavesSurvive, Kept, OnDisk, Parked
<1> QED BY <1>1, TextsInductive, PTL

-----------------------------------------------------------------------------
(***************************************************************************)
(* NoteWrites: the plan, the journal and the rollback                      *)
(***************************************************************************)
MovesLast(q) == \A i, j \in DOMAIN q : i < j /\ q[i].do = "move" => q[j].do = "move"
Written(q) == {t.to : t \in {u \in ToSet(q) : u.do = "write"}}
Sources(q) == {t.from : t \in {u \in ToSet(q) : u.do = "move"}}
Targets(q) == {t.to : t \in {u \in ToSet(q) : u.do = "move"}}
Clean(q) == \A t \in ToSet(q) : t.do = "write" => ops \notin MarkedBy(t.text)

\* What is done is in the journal and what is not is still a task; moves come before writes, and
\* are undone after them.
Forward(o) ==
  /\ o.result = "none"
  /\ WritesLast(o.tasks) /\ WritesLast(o.journal)
  /\ o.tasks # <<>> /\ Head(o.tasks).do # "write" => Written(o.journal) = {}
  /\ planned.moves = Targets(o.journal) \cup Sources(o.tasks)
  /\ planned.writes = Written(o.journal) \cup Written(o.tasks)
  /\ \A t \in ToSet(o.tasks) : Marking(t, ops)
  /\ Clean(o.journal)
Backward(o) == o.result \in {"refused", "recovery"} /\ MovesLast(o.tasks) /\ Clean(o.tasks)

Going(o) == o.step # "none" /\ ~o.unwinding
PlanInv == (Going(op) => Forward(op)) /\ (op.unwinding => Backward(op))

LEMMA FirstOf ==
  ASSUME NEW S, NEW q \in Seq(S), q # <<>>
  PROVE  /\ Written(q) = Written(Tail(q)) \cup (IF Head(q).do = "write" THEN {Head(q).to} ELSE {})
         /\ Sources(q) = Sources(Tail(q)) \cup (IF Head(q).do = "move" THEN {Head(q).from} ELSE {})
         /\ Targets(q) = Targets(Tail(q)) \cup (IF Head(q).do = "move" THEN {Head(q).to} ELSE {})
         /\ WritesLast(q) => WritesLast(Tail(q))
         /\ MovesLast(q) => MovesLast(Tail(q))
<1>1. ToSet(q) = {Head(q)} \cup ToSet(Tail(q)) BY ElementsOf
<1>2. /\ Len(q) \in Nat /\ Len(q) >= 1 /\ DOMAIN q = 1 .. Len(q)
      /\ Tail(q) \in Seq(S) /\ Len(Tail(q)) = Len(q) - 1 /\ DOMAIN Tail(q) = 1 .. Len(q) - 1
      /\ \A i \in 1 .. Len(q) - 1 : Tail(q)[i] = q[i + 1]
  OBVIOUS
<1>3. \A i, j \in 1 .. Len(q) - 1 :
        i + 1 \in 1 .. Len(q) /\ j + 1 \in 1 .. Len(q) /\ (i < j => i + 1 < j + 1)
  BY <1>2
<1>4. WritesLast(q) => WritesLast(Tail(q)) BY <1>2, <1>3 DEF WritesLast
<1>5. MovesLast(q) => MovesLast(Tail(q)) BY <1>2, <1>3 DEF MovesLast
<1>6. Written(q) = Written(Tail(q)) \cup (IF Head(q).do = "write" THEN {Head(q).to} ELSE {})
  BY <1>1 DEF Written
<1>7. Sources(q) = Sources(Tail(q)) \cup (IF Head(q).do = "move" THEN {Head(q).from} ELSE {})
  BY <1>1 DEF Sources
<1>8. Targets(q) = Targets(Tail(q)) \cup (IF Head(q).do = "move" THEN {Head(q).to} ELSE {})
  BY <1>1 DEF Targets
<1> QED BY <1>4, <1>5, <1>6, <1>7, <1>8

LEMMA LastOf ==
  ASSUME NEW S, NEW q \in Seq(S), NEW x \in S
  PROVE  /\ Written(Append(q, x)) = Written(q) \cup (IF x.do = "write" THEN {x.to} ELSE {})
         /\ Targets(Append(q, x)) = Targets(q) \cup (IF x.do = "move" THEN {x.to} ELSE {})
         /\ Clean(q) /\ (x.do = "write" => ops \notin MarkedBy(x.text)) => Clean(Append(q, x))
         /\ WritesLast(q) /\ (x.do = "write" \/ Written(q) = {}) => WritesLast(Append(q, x))
<1>1. ToSet(Append(q, x)) = ToSet(q) \cup {x} BY ElementsOf
<1>2. Written(Append(q, x)) = Written(q) \cup (IF x.do = "write" THEN {x.to} ELSE {})
  BY <1>1 DEF Written
<1>3. Targets(Append(q, x)) = Targets(q) \cup (IF x.do = "move" THEN {x.to} ELSE {})
  BY <1>1 DEF Targets
<1>4. Clean(q) /\ (x.do = "write" => ops \notin MarkedBy(x.text)) => Clean(Append(q, x))
  BY <1>1 DEF Clean
<1>5. /\ Len(q) \in Nat /\ DOMAIN q = 1 .. Len(q) /\ DOMAIN Append(q, x) = 1 .. Len(q) + 1
      /\ \A i \in 1 .. Len(q) : Append(q, x)[i] = q[i]
      /\ Append(q, x)[Len(q) + 1] = x
  OBVIOUS
<1>6. ASSUME WritesLast(q), x.do = "write" \/ Written(q) = {} PROVE WritesLast(Append(q, x))
  <2> SUFFICES ASSUME NEW i \in 1 .. Len(q) + 1, NEW j \in 1 .. Len(q) + 1, i < j,
                      Append(q, x)[i].do = "write"
               PROVE  Append(q, x)[j].do = "write"
    BY <1>5 DEF WritesLast
  <2>1. i \in 1 .. Len(q) /\ (j \in 1 .. Len(q) \/ j = Len(q) + 1) BY <1>5
  <2>2. q[i].do = "write" BY <1>5, <2>1
  <2>3. q[i].to \in Written(q) BY <1>5, <2>1, <2>2 DEF Written, ToSet
  <2>4. CASE j \in 1 .. Len(q) BY <1>5, <1>6, <2>1, <2>2, <2>4 DEF WritesLast
  <2>5. CASE j = Len(q) + 1 BY <1>5, <1>6, <2>3, <2>5
  <2> QED BY <2>1, <2>4, <2>5
<1> QED BY <1>2, <1>3, <1>4, <1>6

LEMMA Reversed ==
  ASSUME NEW s, NEW n, NEW q \in Seq(Undoable(s, n)), WritesLast(q), Clean(q)
  PROVE  /\ Written(Reverse(q)) = Written(q) /\ Targets(Reverse(q)) = Targets(q)
         /\ Clean(Reverse(q)) /\ MovesLast(Reverse(q))
<1>1. ToSet(Reverse(q)) = ToSet(q) BY ElementsOf
<1>2. Written(Reverse(q)) = Written(q) /\ Targets(Reverse(q)) = Targets(q) /\ Clean(Reverse(q))
  BY <1>1 DEF Written, Targets, Clean
<1>3. Len(q) \in Nat /\ DOMAIN q = 1 .. Len(q) OBVIOUS
<1>4. DOMAIN Reverse(q) = 1 .. Len(q) /\ \A i \in 1 .. Len(q) : Reverse(q)[i] = q[Len(q) - i + 1]
  BY <1>3 DEF Reverse
<1>5. \A i \in 1 .. Len(q) : q[i].do \in {"write", "move"}
  BY <1>3 DEF Undoable, WriteTasks, MoveTasks
<1>6. MovesLast(Reverse(q))
  <2> SUFFICES ASSUME NEW i \in 1 .. Len(q), NEW j \in 1 .. Len(q), i < j,
                      Reverse(q)[i].do = "move"
               PROVE  Reverse(q)[j].do = "move"
    BY <1>4 DEF MovesLast
  <2> DEFINE a == Len(q) - j + 1
             b == Len(q) - i + 1
  <2>1. a \in 1 .. Len(q) /\ b \in 1 .. Len(q) /\ a < b BY <1>3
  <2>2. Reverse(q)[i] = q[b] /\ Reverse(q)[j] = q[a] BY <1>4
  <2> HIDE DEF a, b
  <2>3. q[a].do = "write" => q[b].do = "write" BY <1>3, <2>1 DEF WritesLast
  <2> QED BY <1>5, <2>1, <2>2, <2>3
<1> QED BY <1>2, <1>6

\* What is under way at a step: the task, and what the plan says of it.
LEMMA PlanAt ==
  ASSUME WritesShape, PlanInv, op.tasks # <<>>, ~Placing(op, saves, ops), ~op.unwinding
  PROVE  /\ Forward(op) /\ op.journal \in Seq(Undoable(saves, ops))
         /\ Append(op.journal, Undoing(Task)) \in Seq(Undoable(saves, ops))
         /\ Task.do \in {"write", "move"}
         /\ WritesLast(Append(op.journal, Undoing(Task))) /\ Clean(Append(op.journal, Undoing(Task)))
         /\ Written(Append(op.journal, Undoing(Task)))
              = Written(op.journal) \cup (IF Task.do = "write" THEN {Task.to} ELSE {})
         /\ Targets(Append(op.journal, Undoing(Task)))
              = Targets(op.journal) \cup (IF Task.do = "move" THEN {Task.from} ELSE {})
<1>1. Forward(op)
  <2>1. op.step # "none" BY DEF WritesShape, OpShape
  <2> QED BY <2>1 DEF PlanInv, Going
<1>2. /\ op.tasks \in Seq(Undoable(saves, ops)) /\ op.journal \in Seq(Undoable(saves, ops))
      /\ Task \in Undoable(saves, ops) /\ Undoing(Task) \in Undoable(saves, ops)
  BY TaskIs DEF WritesShape
<1>3. /\ Undoing(Task).do = Task.do
      /\ Task.do = "move" => Undoing(Task).to = Task.from
      /\ Task.do = "write" => Undoing(Task).to = Task.to /\ Undoing(Task).text = Task.expect
      /\ Task.do \in {"write", "move"}
  BY <1>2, UndoneTasks
<1>4. Task \in ToSet(op.tasks) BY <1>2, ElementsOf DEF Task
<1>5. /\ WritesLast(op.journal) /\ Clean(op.journal) /\ Marking(Task, ops)
      /\ Task.do # "write" => Written(op.journal) = {}
  BY <1>1, <1>4 DEF Forward, Task
<1>6. Undoing(Task).do = "write" => ops \notin MarkedBy(Undoing(Task).text)
  BY <1>3, <1>5 DEF Marking
<1> DEFINE x == Undoing(Task)
           U == Undoable(saves, ops)
<1>7. x \in U /\ op.journal \in Seq(U) BY <1>2
<1>8. /\ x.do = Task.do /\ (Task.do = "move" => x.to = Task.from)
      /\ (Task.do = "write" => x.to = Task.to)
      /\ (x.do = "write" => ops \notin MarkedBy(x.text))
  BY <1>3, <1>6
<1> HIDE DEF x, U
<1>9. /\ Append(op.journal, x) \in Seq(U)
      /\ Written(Append(op.journal, x)) = Written(op.journal) \cup (IF x.do = "write" THEN {x.to} ELSE {})
      /\ Targets(Append(op.journal, x)) = Targets(op.journal) \cup (IF x.do = "move" THEN {x.to} ELSE {})
      /\ Clean(Append(op.journal, x)) /\ WritesLast(Append(op.journal, x))
  BY <1>5, <1>7, <1>8, LastOf, ElementsOf
<1> QED BY <1>1, <1>2, <1>3, <1>8, <1>9 DEF x, U

\* A plan begins forward.
LEMMA BeginsPlan ==
  ASSUME WritesShape, NEW q, Planned(q), NEW alone \in BOOLEAN, Begin(q, alone)
  PROVE  PlanInv'
<1>1. /\ op'.step = "begin" /\ op'.tasks = q /\ op'.journal = <<>> /\ ~op'.unwinding
      /\ op'.result = "none" /\ ops' = ops + 1
  BY BeginsWith
<1>2. planned' = [moves |-> Sources(q), writes |-> Written(q)] BY DEF Begin, Sources, Written
<1>3. Written(<<>>) = {} /\ Targets(<<>>) = {} /\ ToSet(<<>>) = {} BY DEF Written, Targets, ToSet
<1>4. WritesLast(q) /\ \A t \in ToSet(q) : Marking(t, ops + 1)
  <2>1. ASSUME NEW t \in PlaceTasks(saves, ops + 1), q = <<t>>
        PROVE  WritesLast(q) /\ \A u \in ToSet(q) : Marking(u, ops + 1)
    <3>1. DOMAIN q = 1 .. 1 /\ ToSet(q) = {t} BY <2>1 DEF ToSet
    <3>2. t.do # "write" BY DEF PlaceTasks
    <3> QED BY <3>1, <3>2 DEF WritesLast, Marking
  <2> QED BY <2>1 DEF Planned, Plan
<1>5. /\ op'.journal = <<>> => WritesLast(<<>>)
      /\ planned'.moves = Sources(q) /\ planned'.writes = Written(q)
  BY <1>2 DEF WritesLast
<1>6. Forward(op)'
  BY <1>1, <1>3, <1>4, <1>5 DEF Forward, Clean, Written, Targets, Sources
<1> QED BY <1>1, <1>6 DEF PlanInv

-----------------------------------------------------------------------------
(***************************************************************************)
(* NoteWrites: what is marked and what is moved                            *)
(***************************************************************************)
\* Bounds on the notes that bear the operation's mark and on what is away.
AtMost(d, away, W, M) == (\A p \in Path : ops \in MarkedBy(d[p]) => p \in W) /\ away \subseteq M
AtLeast(d, away, edited, W, M) ==
  (\A p \in Path : p \in W \ edited => ops \in MarkedBy(d[p])) /\ M \subseteq away

\* The task counts as done from its commit point, and may still count as done until it is judged.
Only(steps, p) == IF op.step \in steps THEN {p} ELSE {}
Safe(o) == o.result = "refused" /\ ~o.broken
ForwardMarks ==
  /\ AtMost(disk, moved, Written(op.journal) \cup Only({"verify", "undo"}, Task.to),
            Targets(op.journal) \cup Only({"verify_move", "undo_move"}, Task.from))
  /\ op.step \notin {"undo", "undo_move"} =>
       AtLeast(disk, moved, touched, Written(op.journal) \cup Only({"verify"}, Task.to),
               Targets(op.journal) \cup Only({"verify_move"}, Task.from))
  /\ op.step \in {"verify", "undo"} /\ ops \in MarkedBy(side) => Task.to \in Written(op.journal)
BackwardMarks ==
  /\ AtMost(disk, moved, Written(op.tasks), Targets(op.tasks))
  /\ op.step = "verify" => ops \notin MarkedBy(disk[Task.to])
  /\ op.step = "verify_move" => Task.to \notin moved
Done ==
  /\ op.result = "refused" => AtMost(disk, moved, {}, {})
  /\ op.result = "ok" => /\ AtLeast(disk, moved, touched, planned.writes, {})
                         /\ moved = planned.moves /\ planned.writes \subseteq Path
MarkInv ==
  /\ Going(op) => ForwardMarks
  /\ op.unwinding /\ Safe(op) => BackwardMarks
  /\ op.step = "none" => Done

LEMMA NoTasks == Written(<<>>) = {} /\ Targets(<<>>) = {} /\ Sources(<<>>) = {}
  BY DEF Written, Targets, Sources, ToSet

\* A rollback begins, of what is in the journal.
LEMMA RollbackMarks ==
  ASSUME OpShape(op, saves, ops), UNCHANGED <<ops, planned>>,
         NEW r \in {"refused", "recovery"}, NEW j \in Seq(Undoable(saves, ops)),
         WritesLast(j), Clean(j), op' = Rollback(r, j),
         r = "refused" => AtMost(disk', moved', Written(j), Targets(j))
  PROVE  PlanInv' /\ MarkInv'
<1>1. op \in Ops(saves, ops) BY DEF OpShape
<1>2. /\ op'.result = r
      /\ j = <<>> => op' = NoOp(r)
      /\ j # <<>> => op'.step = "begin" /\ op'.unwinding /\ op'.tasks = Reverse(j)
  BY <1>1, RollsBack
<1>3. CASE j = <<>>
  <2>1. op'.step = "none" /\ ~op'.unwinding BY <1>2, <1>3 DEF NoOp
  <2>2. r = "refused" => AtMost(disk', moved', {}, {}) BY <1>3, NoTasks
  <2> QED BY <1>2, <2>1, <2>2 DEF PlanInv, MarkInv, Going, Done, AtMost
<1>4. CASE j # <<>>
  <2> DEFINE q == Reverse(j)
  <2>1. Written(q) = Written(j) /\ Targets(q) = Targets(j) /\ Clean(q) /\ MovesLast(q) BY Reversed
  <2>2. op'.step = "begin" /\ op'.unwinding /\ op'.tasks = q BY <1>2, <1>4
  <2> HIDE DEF q
  <2>3. Backward(op)' BY <1>2, <2>1, <2>2 DEF Backward, Clean
  <2>4. Safe(op)' => BackwardMarks' BY <1>2, <2>1, <2>2 DEF Safe, BackwardMarks, AtMost
  <2> QED BY <2>2, <2>3, <2>4 DEF PlanInv, MarkInv, Going
<1> QED BY <1>3, <1>4

\* A rollback goes on, when a task of it is done or has failed.
LEMMA NextMarks ==
  ASSUME WritesShape, PlanInv, op.tasks # <<>>, ~Placing(op, saves, ops), op.unwinding,
         UNCHANGED <<ops, planned>>, NEW b \in BOOLEAN, op' = NextTask(b),
         op.result = "refused" /\ ~b =>
           /\ AtMost(disk', moved', Written(op.tasks), Targets(op.tasks))
           /\ Task.do = "write" => ops \notin MarkedBy(disk'[Task.to])
           /\ Task.do = "move" => Task.to \notin moved'
  PROVE  PlanInv' /\ MarkInv'
<1> DEFINE q == Tail(op.tasks)
<1>1. /\ q = <<>> => op' = NoOp(IF b THEN "recovery" ELSE op.result)
      /\ q # <<>> => /\ op'.step = "begin" /\ op'.unwinding /\ op'.tasks = q
                     /\ op'.broken = b /\ op'.result = op.result
  BY NextIs DEF WritesShape
<1>2. op.tasks \in Seq(Undoable(saves, ops)) /\ Task.do \in {"write", "move"} /\ Task = Head(op.tasks)
  BY TaskIs, UndoneTasks DEF WritesShape, Task
<1>3. Backward(op) BY DEF PlanInv
<1>4. /\ Written(op.tasks) = Written(q) \cup (IF Task.do = "write" THEN {Task.to} ELSE {})
      /\ Targets(op.tasks) = Targets(q) \cup (IF Task.do = "move" THEN {Task.to} ELSE {})
      /\ MovesLast(q)
  BY <1>2, <1>3, FirstOf DEF Backward
<1>5. ToSet(q) \subseteq ToSet(op.tasks) BY <1>2, ElementsOf
<1>6. op.result = "refused" /\ ~b => AtMost(disk', moved', Written(q), Targets(q))
  BY <1>2, <1>4 DEF AtMost
<1>7. op.result \in {"refused", "recovery"} /\ Clean(q) BY <1>3, <1>5 DEF Backward, Clean
<1> HIDE DEF q
<1>8. CASE q = <<>>
  <2>1. op'.step = "none" /\ ~op'.unwinding
        /\ op'.result = (IF b THEN "recovery" ELSE op.result)
    BY <1>1, <1>8 DEF NoOp
  <2>2. op'.result = "refused" => AtMost(disk', moved', {}, {})
    BY <1>6, <1>8, <2>1, NoTasks
  <2> QED BY <1>7, <2>1, <2>2 DEF PlanInv, MarkInv, Going, Done, AtMost
<1>9. CASE q # <<>>
  <2>1. /\ op'.step = "begin" /\ op'.unwinding /\ op'.tasks = q
        /\ op'.broken = b /\ op'.result = op.result
    BY <1>1, <1>9
  <2>2. Backward(op)' BY <1>4, <1>7, <2>1 DEF Backward, Clean
  <2>3. Safe(op)' => BackwardMarks' BY <1>6, <2>1 DEF Safe, BackwardMarks, AtMost
  <2> QED BY <2>1, <2>2, <2>3 DEF PlanInv, MarkInv, Going
<1> QED BY <1>8, <1>9

\* A task of an operation that is not undoing itself is done.
LEMMA SucceededMarks ==
  ASSUME WritesShape, PlanInv, op.tasks # <<>>, ~Placing(op, saves, ops), ~op.unwinding,
         UNCHANGED <<ops, planned>>, op' = Succeeded,
         NEW W, W = Written(op.journal) \cup (IF Task.do = "write" THEN {Task.to} ELSE {}),
         NEW M, M = Targets(op.journal) \cup (IF Task.do = "move" THEN {Task.from} ELSE {}),
         AtMost(disk', moved', W, M), AtLeast(disk', moved', touched', W, M)
  PROVE  PlanInv' /\ MarkInv'
<1> DEFINE q == Tail(op.tasks)
           j == Append(op.journal, Undoing(Task))
<1>1. /\ op'.step \in {"begin", "finish"} /\ ~op'.unwinding /\ op'.tasks = q /\ op'.journal = j
      /\ op'.result = op.result
  BY SucceededIs DEF WritesShape
<1>2. /\ Forward(op) /\ Task.do \in {"write", "move"} /\ WritesLast(j) /\ Clean(j)
      /\ Written(j) = W /\ Targets(j) = M
  BY PlanAt
<1>3. op.tasks \in Seq(Undoable(saves, ops)) /\ Task = Head(op.tasks)
  BY TaskIs DEF WritesShape, Task
<1>4. /\ Written(op.tasks) = Written(q) \cup (IF Task.do = "write" THEN {Task.to} ELSE {})
      /\ Sources(op.tasks) = Sources(q) \cup (IF Task.do = "move" THEN {Task.from} ELSE {})
      /\ WritesLast(q)
  BY <1>2, <1>3, FirstOf DEF Forward
<1>5. ToSet(q) \subseteq ToSet(op.tasks) BY <1>3, ElementsOf
<1>6. q # <<>> /\ Head(q).do # "write" => Written(j) = {}
  <2> SUFFICES ASSUME q # <<>>, Head(q).do # "write" PROVE Written(j) = {} OBVIOUS
  <2>1. Len(op.tasks) \in Nat /\ Len(op.tasks) > 1 /\ Head(q) = op.tasks[2] /\ Head(op.tasks) = op.tasks[1]
        /\ DOMAIN op.tasks = 1 .. Len(op.tasks)
    BY <1>3
  <2>2. 1 \in DOMAIN op.tasks /\ 2 \in DOMAIN op.tasks BY <2>1
  <2>3. Task.do # "write" BY <1>2, <1>3, <2>1, <2>2 DEF Forward, WritesLast
  <2> QED BY <1>2, <1>3, <2>3 DEF Forward
<1> HIDE DEF q, j
<1>7. Forward(op)'
  <2>1. op'.result = "none" /\ WritesLast(op'.tasks) /\ WritesLast(op'.journal)
    BY <1>1, <1>2, <1>4 DEF Forward
  <2>2. op'.tasks # <<>> /\ Head(op'.tasks).do # "write" => Written(op'.journal) = {}
    BY <1>1, <1>6
  <2>3. /\ planned.moves = Targets(j) \cup Sources(q)
        /\ planned.writes = Written(j) \cup Written(q)
    BY <1>2, <1>4 DEF Forward
  <2>4. \A t \in ToSet(q) : Marking(t, ops) BY <1>2, <1>5 DEF Forward
  <2> QED BY <1>1, <1>2, <2>1, <2>2, <2>3, <2>4 DEF Forward, Clean
<1>8. ForwardMarks' BY <1>1, <1>2 DEF ForwardMarks, AtMost, AtLeast, Only
<1> QED BY <1>1, <1>7, <1>8 DEF PlanInv, MarkInv, Going

\* A task of a rollback is done.
LEMMA UndoneMarks ==
  ASSUME WritesShape, PlanInv, op.tasks # <<>>, ~Placing(op, saves, ops), op.unwinding,
         UNCHANGED <<ops, planned>>, op' = Succeeded,
         Safe(op) =>
           /\ AtMost(disk', moved', Written(op.tasks), Targets(op.tasks))
           /\ Task.do = "write" => ops \notin MarkedBy(disk'[Task.to])
           /\ Task.do = "move" => Task.to \notin moved'
  PROVE  PlanInv' /\ MarkInv'
<1>1. op' = NextTask(op.broken) BY DEF Succeeded
<1>2. op.broken \in BOOLEAN BY DEF WritesShape, OpShape, Ops
<1>3. op.result = "refused" /\ ~op.broken =>
           /\ AtMost(disk', moved', Written(op.tasks), Targets(op.tasks))
           /\ Task.do = "write" => ops \notin MarkedBy(disk'[Task.to])
           /\ Task.do = "move" => Task.to \notin moved'
  BY DEF Safe
<1> QED BY <1>1, <1>2, <1>3, NextMarks

\* A task has failed: what a refusal leaves is what the rollback has yet to undo, and when nothing
\* more can be said the caller is told so.
LEMMA FailureMarks ==
  ASSUME WritesShape, PlanInv, op.tasks # <<>>, ~Placing(op, saves, ops), UNCHANGED <<ops, planned>>,
         \/ /\ op' = FailedTask("refused")
            /\ ~op.unwinding => AtMost(disk', moved', Written(op.journal), Targets(op.journal))
         \/ /\ op' = FailedLanded /\ Task.do = "move"
            /\ ~op.unwinding => AtMost(disk', moved', Written(op.journal),
                                       Targets(op.journal) \cup {Task.from})
         \/ op' = FailedUndone
  PROVE  PlanInv' /\ MarkInv'
<1>1. CASE op.unwinding
  <2>1. op' = NextTask(TRUE) BY <1>1 DEF FailedTask, FailedLanded, FailedUndone
  <2> QED BY <1>1, <2>1, NextMarks
<1>2. CASE ~op.unwinding
  <2> DEFINE j == Append(op.journal, Undoing(Task))
  <2>1. /\ Forward(op) /\ op.journal \in Seq(Undoable(saves, ops)) /\ j \in Seq(Undoable(saves, ops))
        /\ WritesLast(j) /\ Clean(j) /\ Task.do \in {"write", "move"}
        /\ Task.do = "move" => Written(j) = Written(op.journal)
                               /\ Targets(j) = Targets(op.journal) \cup {Task.from}
    BY <1>2, PlanAt
  <2>2. WritesLast(op.journal) /\ Clean(op.journal) BY <2>1 DEF Forward
  <2> HIDE DEF j
  <2>3. OpShape(op, saves, ops) BY DEF WritesShape
  <2>4. CASE /\ op' = FailedTask("refused")
             /\ AtMost(disk', moved', Written(op.journal), Targets(op.journal))
    <3>1. op' = Rollback("refused", op.journal) BY <1>2, <2>4 DEF FailedTask
    <3> QED BY <2>1, <2>2, <2>3, <2>4, <3>1, RollbackMarks
  <2>5. CASE /\ op' = FailedLanded /\ Task.do = "move"
             /\ AtMost(disk', moved', Written(op.journal), Targets(op.journal) \cup {Task.from})
    <3>1. op' = Rollback("refused", j) BY <1>2, <2>5 DEF FailedLanded, j
    <3>2. AtMost(disk', moved', Written(j), Targets(j)) BY <2>1, <2>5
    <3> QED BY <2>1, <2>3, <3>1, <3>2, RollbackMarks
  <2>6. CASE op' = FailedUndone
    <3>1. op' = Rollback("recovery", op.journal) \/ op' = Rollback("recovery", j)
      BY <1>2, <2>6 DEF FailedUndone, j
    <3> QED BY <2>1, <2>2, <2>3, <3>1, RollbackMarks
  <2> QED BY <1>2, <2>4, <2>5, <2>6
<1> QED BY <1>1, <1>2

\* The operation goes on to another step of its task.
LEMMA GoesOnMarks ==
  ASSUME WritesShape, PlanInv, op.tasks # <<>>, ~Placing(op, saves, ops), UNCHANGED <<ops, planned>>,
         NEW x \in CallStep \ {"none", "finish"}, op' = [op EXCEPT !.step = x],
         op.unwinding => (Safe(op) => BackwardMarks'),
         ~op.unwinding => ForwardMarks'
  PROVE  PlanInv' /\ MarkInv'
<1>1. /\ op'.step = x /\ op'.tasks = op.tasks /\ op'.journal = op.journal
      /\ op'.unwinding = op.unwinding /\ op'.broken = op.broken /\ op'.result = op.result
  BY GoesOn DEF WritesShape
<1>2. Going(op) <=> ~op.unwinding BY DEF Going, WritesShape, OpShape
<1>3. PlanInv' BY <1>1, <1>2 DEF PlanInv, Going, Forward, Backward, Clean
<1> QED BY <1>1, <1>2, <1>3 DEF MarkInv, Going, Safe

\* What a step finds.
LEMMA MarksAt ==
  ASSUME WritesShape, PlanInv, MarkInv, op.tasks # <<>>, ~Placing(op, saves, ops)
  PROVE  /\ ~op.unwinding => ForwardMarks /\ Forward(op) /\ Marking(Task, ops)
         /\ op.unwinding => /\ Clean(op.tasks)
                            /\ Task.do = "write" => /\ ops \notin MarkedBy(Task.text)
                                                    /\ Task.to \in Written(op.tasks)
                            /\ Task.do = "move" => Task.to \in Targets(op.tasks)
                            /\ Safe(op) => BackwardMarks
<1>1. Going(op) <=> ~op.unwinding BY DEF Going, WritesShape, OpShape
<1>2. Task \in ToSet(op.tasks) BY TaskIs, ElementsOf DEF WritesShape, Task
<1> QED BY <1>1, <1>2 DEF MarkInv, PlanInv, Forward, Backward, Clean, Written, Targets

\* Nothing bears the mark when a note is about to move: rewrites come after, and are undone before.
LEMMA NoMarksYet ==
  ASSUME WritesShape, PlanInv, MarkInv, op.tasks # <<>>, ~Placing(op, saves, ops), Task.do = "move",
         op.unwinding => Safe(op)
  PROVE  /\ \A p \in Path : ops \notin MarkedBy(disk[p])
         /\ ~op.unwinding => Written(op.journal) = {}
<1>1. op.tasks \in Seq(Undoable(saves, ops)) /\ Task = Head(op.tasks)
  BY TaskIs DEF WritesShape, Task
<1>2. StepInv BY DEF WritesShape
<1>3. op.step \notin {"verify", "undo"} BY <1>2 DEF StepInv
<1>4. CASE ~op.unwinding
  <2>1. ForwardMarks /\ Forward(op) BY <1>4, MarksAt
  <2>2. Written(op.journal) = {} BY <1>1, <2>1 DEF Forward
  <2> QED BY <1>3, <1>4, <2>1, <2>2 DEF ForwardMarks, AtMost, Only
<1>5. CASE op.unwinding
  <2>1. BackwardMarks /\ MovesLast(op.tasks) BY <1>5, MarksAt DEF PlanInv, Backward
  <2>2. Written(op.tasks) = {}
    <3>1. /\ Len(op.tasks) \in Nat /\ Len(op.tasks) >= 1 /\ DOMAIN op.tasks = 1 .. Len(op.tasks)
          /\ Head(op.tasks) = op.tasks[1]
      BY <1>1
    <3>2. \A i \in DOMAIN op.tasks : op.tasks[i].do = "move"
      <4> SUFFICES ASSUME NEW i \in DOMAIN op.tasks PROVE op.tasks[i].do = "move" OBVIOUS
      <4>1. 1 \in DOMAIN op.tasks /\ (i = 1 \/ 1 < i) BY <3>1
      <4>2. op.tasks[1].do = "move" BY <1>1, <3>1
      <4> QED BY <2>1, <4>1, <4>2 DEF MovesLast
    <3> QED BY <3>2 DEF Written, ToSet
  <2> QED BY <1>5, <2>1, <2>2 DEF BackwardMarks, AtMost
<1> QED BY <1>4, <1>5

LEMMA BeginWriteMarks ==
  ASSUME WritesShape, PlanInv, MarkInv, BeginWrite
  PROVE  PlanInv' /\ MarkInv'
<1>1. /\ op.step = "begin" /\ Task.do = "write" /\ op.tasks # <<>> /\ ~Placing(op, saves, ops)
      /\ UNCHANGED <<disk, moved, touched, ops, planned>>
  BY AtTask, Counted DEF BeginWrite, CallStep, history
<1>2. /\ ~op.unwinding => ForwardMarks
      /\ op.unwinding /\ Safe(op) => BackwardMarks
  BY <1>1, MarksAt
<1>3. CASE op' = [op EXCEPT !.step = "commit"]
  <2>1. op'.step = "commit" /\ op'.tasks = op.tasks /\ op'.journal = op.journal
    BY <1>1, <1>3, GoesOn DEF WritesShape, CallStep
  <2>2. op.unwinding => (Safe(op) => BackwardMarks')
    BY <1>1, <1>2, <2>1 DEF BackwardMarks, AtMost
  <2>3. ~op.unwinding => ForwardMarks'
    BY <1>1, <1>2, <2>1 DEF ForwardMarks, AtMost, AtLeast, Only
  <2> QED BY <1>1, <1>3, <2>2, <2>3, GoesOnMarks DEF CallStep
<1>4. CASE op' = FailedTask("refused")
  <2>1. ~op.unwinding => AtMost(disk', moved', Written(op.journal), Targets(op.journal))
    BY <1>1, <1>2 DEF ForwardMarks, AtMost, Only
  <2> QED BY <1>1, <1>4, <2>1, FailureMarks
<1> QED BY <1>3, <1>4 DEF BeginWrite

LEMMA ExchangeMarks ==
  ASSUME WritesShape, PlanInv, MarkInv, Exchange
  PROVE  PlanInv' /\ MarkInv'
<1>1. /\ op.step = "commit" /\ Task.do = "write" /\ op.tasks # <<>> /\ ~Placing(op, saves, ops)
      /\ Task.to \in Path /\ side = Task.text
      /\ UNCHANGED <<moved, touched, ops, planned>>
  BY AtTask, Counted DEF Exchange, CallStep, history, WritesShape, StepInv
<1>2. /\ ~op.unwinding => ForwardMarks /\ ops \in MarkedBy(Task.text)
      /\ op.unwinding => ops \notin MarkedBy(Task.text) /\ Task.to \in Written(op.tasks)
      /\ op.unwinding /\ Safe(op) => BackwardMarks
  BY <1>1, MarksAt DEF Marking
<1>3. CASE /\ disk' = [disk EXCEPT ![Task.to] = side] /\ side' = disk[Task.to]
           /\ op' = [op EXCEPT !.step = "verify"]
  <2>1. op'.step = "verify" /\ op'.tasks = op.tasks /\ op'.journal = op.journal /\ Task' = Task
    BY <1>1, <1>3, GoesOn DEF WritesShape, CallStep
  <2>2. disk'[Task.to] = Task.text /\ \A q \in Path \ {Task.to} : disk'[q] = disk[q]
    BY <1>1, <1>3, Contained
  <2>3. op.unwinding => (Safe(op) => BackwardMarks')
    BY <1>1, <1>2, <2>1, <2>2 DEF BackwardMarks, AtMost
  <2>4. ASSUME ~op.unwinding PROVE ForwardMarks'
    <3>1. AtMost(disk', moved', Written(op.journal) \cup {Task.to}, Targets(op.journal))
      BY <1>1, <1>2, <2>2, <2>4 DEF ForwardMarks, AtMost, Only
    <3>2. AtLeast(disk', moved', touched', Written(op.journal) \cup {Task.to}, Targets(op.journal))
      BY <1>1, <1>2, <2>2, <2>4 DEF ForwardMarks, AtLeast, Only
    <3>3. ops \in MarkedBy(side') => Task.to \in Written(op.journal)
      BY <1>1, <1>2, <1>3, <2>4 DEF ForwardMarks, AtMost, Only
    <3> QED BY <1>1, <2>1, <3>1, <3>2, <3>3 DEF ForwardMarks, AtMost, AtLeast, Only
  <2> QED BY <1>1, <1>3, <2>3, <2>4, GoesOnMarks DEF CallStep
<1>4. CASE op' = FailedTask("refused") /\ UNCHANGED disk
  <2>1. ~op.unwinding => AtMost(disk', moved', Written(op.journal), Targets(op.journal))
    BY <1>1, <1>2, <1>4 DEF ForwardMarks, AtMost, Only
  <2> QED BY <1>1, <1>4, <2>1, FailureMarks
<1> QED BY <1>3, <1>4 DEF Exchange

LEMMA VerifyMarks ==
  ASSUME WritesShape, PlanInv, MarkInv, Verify
  PROVE  PlanInv' /\ MarkInv'
<1>1. /\ op.step = "verify" /\ Task.do = "write" /\ op.tasks # <<>> /\ ~Placing(op, saves, ops)
      /\ UNCHANGED <<disk, moved, touched, ops, planned>>
  BY AtTask, Counted DEF Verify, CallStep, history, WritesShape, StepInv
<1>2. /\ ~op.unwinding => ForwardMarks
      /\ op.unwinding /\ Safe(op) => BackwardMarks
  BY <1>1, MarksAt
<1>3. CASE op' = Succeeded
  <2>1. ASSUME op.unwinding PROVE PlanInv' /\ MarkInv'
    <3>1. Safe(op) => /\ AtMost(disk', moved', Written(op.tasks), Targets(op.tasks))
                      /\ Task.do = "write" => ops \notin MarkedBy(disk'[Task.to])
                      /\ Task.do = "move" => Task.to \notin moved'
      BY <1>1, <1>2, <2>1 DEF BackwardMarks, AtMost
    <3> QED BY <1>1, <1>3, <2>1, <3>1, UndoneMarks
  <2>2. ASSUME ~op.unwinding PROVE PlanInv' /\ MarkInv'
    <3> DEFINE W == Written(op.journal) \cup (IF Task.do = "write" THEN {Task.to} ELSE {})
               M == Targets(op.journal) \cup (IF Task.do = "move" THEN {Task.from} ELSE {})
    <3>1. AtMost(disk', moved', W, M) /\ AtLeast(disk', moved', touched', W, M)
      BY <1>1, <1>2, <2>2 DEF ForwardMarks, AtMost, AtLeast, Only
    <3> QED BY <1>1, <1>3, <2>2, <3>1, SucceededMarks
  <2> QED BY <2>1, <2>2
<1>4. CASE op' = [op EXCEPT !.step = "undo"] /\ UNCHANGED side
  <2>1. op'.step = "undo" /\ op'.tasks = op.tasks /\ op'.journal = op.journal /\ Task' = Task
    BY <1>1, <1>4, GoesOn DEF WritesShape, CallStep
  <2>2. op.unwinding => (Safe(op) => BackwardMarks')
    BY <1>1, <1>2, <2>1 DEF BackwardMarks, AtMost
  <2>3. ~op.unwinding => ForwardMarks'
    BY <1>1, <1>2, <1>4, <2>1 DEF ForwardMarks, AtMost, AtLeast, Only
  <2> QED BY <1>1, <1>4, <2>2, <2>3, GoesOnMarks DEF CallStep
<1> QED BY <1>3, <1>4 DEF Verify

LEMMA UndoExchangeMarks ==
  ASSUME WritesShape, PlanInv, MarkInv, UndoExchange
  PROVE  PlanInv' /\ MarkInv'
<1>1. /\ op.step = "undo" /\ Task.do = "write" /\ op.tasks # <<>> /\ ~Placing(op, saves, ops)
      /\ Task.to \in Path /\ UNCHANGED <<moved, touched, ops, planned>>
  BY AtTask, Counted DEF UndoExchange, CallStep, WritesShape, StepInv
<1>2. ~op.unwinding => ForwardMarks BY <1>1, MarksAt
<1>3. CASE op' = FailedTask("refused") /\ disk' = [disk EXCEPT ![Task.to] = side]
  <2>1. disk'[Task.to] = side /\ \A q \in Path \ {Task.to} : disk'[q] = disk[q]
    BY <1>1, <1>3, Contained
  <2>2. ~op.unwinding => AtMost(disk', moved', Written(op.journal), Targets(op.journal))
    BY <1>1, <1>2, <2>1 DEF ForwardMarks, AtMost, Only
  <2> QED BY <1>1, <1>3, <2>2, FailureMarks
<1>4. CASE op' = FailedUndone BY <1>1, <1>4, FailureMarks
<1> QED BY <1>3, <1>4 DEF UndoExchange

LEMMA CheckFirstMarks ==
  ASSUME WritesShape, PlanInv, MarkInv, CheckFirst
  PROVE  PlanInv' /\ MarkInv'
<1>1. /\ op.step = "commit" /\ Task.do = "write" /\ op.tasks # <<>> /\ ~Placing(op, saves, ops)
      /\ UNCHANGED <<disk, moved, touched, ops, planned>>
  BY AtTask, Counted DEF CheckFirst, CallStep, history, WritesShape, StepInv
<1>2. /\ ~op.unwinding => ForwardMarks
      /\ op.unwinding /\ Safe(op) => BackwardMarks
  BY <1>1, MarksAt
<1>3. CASE op' = [op EXCEPT !.step = "rename"]
  <2>1. op'.step = "rename" /\ op'.tasks = op.tasks /\ op'.journal = op.journal
    BY <1>1, <1>3, GoesOn DEF WritesShape, CallStep
  <2>2. op.unwinding => (Safe(op) => BackwardMarks')
    BY <1>1, <1>2, <2>1 DEF BackwardMarks, AtMost
  <2>3. ~op.unwinding => ForwardMarks'
    BY <1>1, <1>2, <2>1 DEF ForwardMarks, AtMost, AtLeast, Only
  <2> QED BY <1>1, <1>3, <2>2, <2>3, GoesOnMarks DEF CallStep
<1>4. CASE op' = FailedTask("refused")
  <2>1. ~op.unwinding => AtMost(disk', moved', Written(op.journal), Targets(op.journal))
    BY <1>1, <1>2 DEF ForwardMarks, AtMost, Only
  <2> QED BY <1>1, <1>4, <2>1, FailureMarks
<1> QED BY <1>3, <1>4 DEF CheckFirst

LEMMA RenameOverMarks ==
  ASSUME WritesShape, PlanInv, MarkInv, RenameOver
  PROVE  PlanInv' /\ MarkInv'
<1>1. /\ op.step = "rename" /\ Task.do = "write" /\ op.tasks # <<>> /\ ~Placing(op, saves, ops)
      /\ Task.to \in Path /\ side = Task.text /\ UNCHANGED <<moved, touched, ops, planned>>
  BY AtTask, Counted DEF RenameOver, CallStep, WritesShape, StepInv
<1>2. /\ ~op.unwinding => ForwardMarks /\ ops \in MarkedBy(Task.text)
      /\ op.unwinding => ops \notin MarkedBy(Task.text)
      /\ op.unwinding /\ Safe(op) => BackwardMarks
  BY <1>1, MarksAt DEF Marking
<1>3. CASE op' = Succeeded /\ disk' = [disk EXCEPT ![Task.to] = side]
  <2>1. disk'[Task.to] = Task.text /\ \A q \in Path \ {Task.to} : disk'[q] = disk[q]
    BY <1>1, <1>3, Contained
  <2>2. ASSUME op.unwinding PROVE PlanInv' /\ MarkInv'
    <3>1. Safe(op) => /\ AtMost(disk', moved', Written(op.tasks), Targets(op.tasks))
                      /\ Task.do = "write" => ops \notin MarkedBy(disk'[Task.to])
                      /\ Task.do = "move" => Task.to \notin moved'
      BY <1>1, <1>2, <2>1, <2>2 DEF BackwardMarks, AtMost
    <3> QED BY <1>1, <1>3, <2>2, <3>1, UndoneMarks
  <2>3. ASSUME ~op.unwinding PROVE PlanInv' /\ MarkInv'
    <3> DEFINE W == Written(op.journal) \cup (IF Task.do = "write" THEN {Task.to} ELSE {})
               M == Targets(op.journal) \cup (IF Task.do = "move" THEN {Task.from} ELSE {})
    <3>1. AtMost(disk', moved', W, M) /\ AtLeast(disk', moved', touched', W, M)
      BY <1>1, <1>2, <2>1, <2>3 DEF ForwardMarks, AtMost, AtLeast, Only
    <3> QED BY <1>1, <1>3, <2>3, <3>1, SucceededMarks
  <2> QED BY <2>2, <2>3
<1>4. CASE op' = FailedTask("refused") /\ UNCHANGED disk
  <2>1. ~op.unwinding => AtMost(disk', moved', Written(op.journal), Targets(op.journal))
    BY <1>1, <1>2, <1>4 DEF ForwardMarks, AtMost, Only
  <2> QED BY <1>1, <1>4, <2>1, FailureMarks
<1> QED BY <1>3, <1>4 DEF RenameOver

LEMMA PlaceFileMarks ==
  ASSUME WritesShape, PlanInv, MarkInv, PlaceFile
  PROVE  PlanInv' /\ MarkInv'
<1>1. /\ Placing(op, saves, ops) /\ op' \in {NoOp("ok"), NoOp("refused")} /\ op.step = "begin"
      /\ UNCHANGED <<moved, touched, ops, planned>>
      /\ op' = NoOp("refused") => UNCHANGED disk
  BY PlaceFileShape, Counted DEF PlaceFile, Over, NoOp
<1>2. op'.step = "none" /\ ~op'.unwinding BY <1>1 DEF NoOp
<1>3. PICK t \in PlaceTasks(saves, ops) : op.tasks = <<t>> BY <1>1 DEF Placing
<1>4. ForwardMarks /\ Forward(op) /\ op.journal = <<>> BY <1>1 DEF Placing, PlanInv, MarkInv, Going
<1>5. Written(op.tasks) = {} /\ Sources(op.tasks) = {}
  <2>1. ToSet(op.tasks) = {t} /\ t.do \notin {"write", "move"} BY <1>3 DEF ToSet, PlaceTasks
  <2> QED BY <2>1 DEF Written, Sources
<1>6. planned.moves = {} /\ planned.writes = {} BY <1>4, <1>5, NoTasks DEF Forward
<1>7. AtMost(disk, moved, {}, {}) BY <1>1, <1>4, NoTasks DEF ForwardMarks, AtMost, Only
<1>8. Done'
  <2>1. op'.result = "refused" => AtMost(disk, moved, {}, {}) /\ UNCHANGED disk
    BY <1>1, <1>7 DEF NoOp
  <2>2. moved = {} BY <1>7 DEF AtMost
  <2> QED BY <1>1, <1>6, <2>1, <2>2 DEF Done, AtMost, AtLeast
<1> QED BY <1>2, <1>8 DEF PlanInv, MarkInv, Going

\* No step of a move puts a marked text anywhere.
LEMMA StillNoMarks ==
  ASSUME WritesShape, Task.from \in Path, Task.to \in Path, Task.from # Task.to,
         \A p \in Path : ops \notin MarkedBy(disk[p]),
         \/ UNCHANGED disk
         \/ \E c \in {Missing, Gate} : disk' = [disk EXCEPT ![Task.to] = c]
         \/ disk' = [disk EXCEPT ![Task.from] = Missing]
         \/ disk' = Swapped(disk) \/ disk' = [Swapped(disk) EXCEPT ![Task.to] = Missing]
         \/ disk' = [disk EXCEPT ![Task.to] = disk[Task.from], ![Task.from] = Missing]
  PROVE  \A p \in Path : ops \notin MarkedBy(disk'[p])
<1>1. disk \in [Path -> Content(saves, ops)] BY Contained
<1>2. \A p \in Path : ops \notin MarkedBy(Swapped(disk)[p]) BY SwappedIs
<1>3. Swapped(disk) \in [Path -> Content(saves, ops)] BY SwappedIs
<1>4. ops \notin MarkedBy(Missing) /\ ops \notin MarkedBy(Gate) BY NoText
<1>5. ASSUME NEW c \in {Missing, Gate}, disk' = [disk EXCEPT ![Task.to] = c]
      PROVE  \A p \in Path : ops \notin MarkedBy(disk'[p])
  BY <1>1, <1>4, <1>5
<1>6. CASE disk' = [disk EXCEPT ![Task.from] = Missing] BY <1>1, <1>4, <1>6
<1>7. CASE disk' = [Swapped(disk) EXCEPT ![Task.to] = Missing]
  <2> DEFINE d == Swapped(disk)
  <2>1. /\ d \in [Path -> Content(saves, ops)] /\ disk' = [d EXCEPT ![Task.to] = Missing]
        /\ \A p \in Path : ops \notin MarkedBy(d[p])
    BY <1>2, <1>3, <1>7
  <2> HIDE DEF d
  <2> QED BY <1>4, <2>1
<1>8. CASE disk' = [disk EXCEPT ![Task.to] = disk[Task.from], ![Task.from] = Missing]
  BY <1>1, <1>4, <1>8
<1> QED BY <1>2, <1>5, <1>6, <1>7, <1>8

\* A step of a move that ends it.
LEMMA MoveEnds ==
  ASSUME WritesShape, PlanInv, MarkInv, op.tasks # <<>>, ~Placing(op, saves, ops), Task.do = "move",
         UNCHANGED <<ops, planned>>,
         ~op.unwinding \/ Safe(op) => \A p \in Path : ops \notin MarkedBy(disk'[p]),
         \/ /\ op' = Succeeded
            /\ ~op.unwinding => moved' = Targets(op.journal) \cup {Task.from}
            /\ op.unwinding /\ Safe(op) => moved' \subseteq Targets(op.tasks) \ {Task.to}
         \/ op' = FailedTask("refused") /\ (~op.unwinding => moved' \subseteq Targets(op.journal))
         \/ /\ op' = FailedLanded
            /\ ~op.unwinding => moved' \subseteq Targets(op.journal) \cup {Task.from}
  PROVE  PlanInv' /\ MarkInv'
<1>1. ~op.unwinding => Written(op.journal) = {} BY NoMarksYet
<1>2. CASE /\ op' = Succeeded
           /\ ~op.unwinding => moved' = Targets(op.journal) \cup {Task.from}
           /\ op.unwinding /\ Safe(op) => moved' \subseteq Targets(op.tasks) \ {Task.to}
  <2>1. ASSUME op.unwinding PROVE PlanInv' /\ MarkInv'
    <3>1. Safe(op) => /\ AtMost(disk', moved', Written(op.tasks), Targets(op.tasks))
                      /\ Task.do = "write" => ops \notin MarkedBy(disk'[Task.to])
                      /\ Task.do = "move" => Task.to \notin moved'
      BY <1>2, <2>1 DEF AtMost
    <3> QED BY <1>2, <2>1, <3>1, UndoneMarks
  <2>2. ASSUME ~op.unwinding PROVE PlanInv' /\ MarkInv'
    <3> DEFINE W == Written(op.journal) \cup (IF Task.do = "write" THEN {Task.to} ELSE {})
               M == Targets(op.journal) \cup (IF Task.do = "move" THEN {Task.from} ELSE {})
    <3>1. AtMost(disk', moved', W, M) /\ AtLeast(disk', moved', touched', W, M)
      BY <1>1, <1>2, <2>2 DEF AtMost, AtLeast
    <3> QED BY <1>2, <2>2, <3>1, SucceededMarks
  <2> QED BY <2>1, <2>2
<1>3. CASE op' = FailedTask("refused") /\ (~op.unwinding => moved' \subseteq Targets(op.journal))
  <2>1. ~op.unwinding => AtMost(disk', moved', Written(op.journal), Targets(op.journal))
    BY <1>3 DEF AtMost
  <2> QED BY <1>3, <2>1, FailureMarks
<1>4. CASE /\ op' = FailedLanded
           /\ ~op.unwinding => moved' \subseteq Targets(op.journal) \cup {Task.from}
  <2>1. ~op.unwinding => AtMost(disk', moved', Written(op.journal), Targets(op.journal) \cup {Task.from})
    BY <1>4 DEF AtMost
  <2> QED BY <1>4, <2>1, FailureMarks
<1> QED BY <1>2, <1>3, <1>4

\* A step of a move that goes on with it.
LEMMA MoveGoes ==
  ASSUME WritesShape, PlanInv, MarkInv, op.tasks # <<>>, ~Placing(op, saves, ops), Task.do = "move",
         UNCHANGED <<ops, planned>>,
         ~op.unwinding \/ Safe(op) => \A p \in Path : ops \notin MarkedBy(disk'[p]),
         NEW x \in {"swap", "check", "rename", "verify_move", "undo_move"},
         op' = [op EXCEPT !.step = x],
         NEW M, M = (IF x \in {"verify_move", "undo_move"} THEN {Task.from} ELSE {}),
         ~op.unwinding => /\ moved' \subseteq Targets(op.journal) \cup M
                          /\ x # "undo_move" => Targets(op.journal) \cup M \subseteq moved',
         op.unwinding /\ Safe(op) => /\ moved' \subseteq Targets(op.tasks)
                                     /\ x = "verify_move" => Task.to \notin moved'
  PROVE  PlanInv' /\ MarkInv'
<1>1. ~op.unwinding => Written(op.journal) = {} BY NoMarksYet
<1>2. op'.step = x /\ op'.tasks = op.tasks /\ op'.journal = op.journal /\ Task' = Task
  BY GoesOn DEF WritesShape, CallStep
<1>3. op.unwinding => (Safe(op) => BackwardMarks') BY <1>2 DEF BackwardMarks, AtMost
<1>4. ~op.unwinding => ForwardMarks'
  BY <1>1, <1>2 DEF ForwardMarks, AtMost, AtLeast, Only
<1> QED BY <1>3, <1>4, GoesOnMarks DEF CallStep

\* What a step of a move finds.
LEMMA MarksAtMove ==
  ASSUME WritesShape, PlanInv, MarkInv,
         op.step \in {"begin", "swap", "check", "rename", "verify_move", "undo_move"}, Task.do = "move"
  PROVE  /\ op.tasks # <<>> /\ ~Placing(op, saves, ops)
         /\ Task.from \in Path /\ Task.to \in Path /\ Task.from # Task.to
         /\ ~op.unwinding \/ Safe(op) => \A p \in Path : ops \notin MarkedBy(disk[p])
         /\ ~op.unwinding =>
              /\ op.step = "verify_move" => moved = Targets(op.journal) \cup {Task.from}
              /\ op.step = "undo_move" => moved \subseteq Targets(op.journal) \cup {Task.from}
              /\ op.step \notin {"verify_move", "undo_move"} => moved = Targets(op.journal)
         /\ op.unwinding /\ Safe(op) => /\ moved \subseteq Targets(op.tasks)
                                        /\ op.step = "verify_move" => Task.to \notin moved
<1>1. op.tasks # <<>> /\ ~Placing(op, saves, ops) /\ Task \in MoveTasks(saves, ops)
  BY AtTask DEF CallStep
<1>2. Task.from \in Path /\ Task.to \in Path /\ Task.from # Task.to BY <1>1 DEF MoveTasks
<1>3. ~op.unwinding \/ Safe(op) => \A p \in Path : ops \notin MarkedBy(disk[p])
  BY <1>1, NoMarksYet
<1>4. /\ ~op.unwinding => ForwardMarks
      /\ op.unwinding /\ Safe(op) => BackwardMarks
  BY <1>1, MarksAt
<1>5. op.unwinding /\ Safe(op) => /\ moved \subseteq Targets(op.tasks)
                                  /\ op.step = "verify_move" => Task.to \notin moved
  BY <1>4 DEF BackwardMarks, AtMost
<1>6. ~op.unwinding =>
        /\ moved \subseteq Targets(op.journal)
                             \cup (IF op.step \in {"verify_move", "undo_move"} THEN {Task.from} ELSE {})
        /\ op.step # "undo_move" =>
             Targets(op.journal) \cup (IF op.step = "verify_move" THEN {Task.from} ELSE {}) \subseteq moved
  BY <1>4 DEF ForwardMarks, AtMost, AtLeast, Only
<1> QED BY <1>1, <1>2, <1>3, <1>5, <1>6

LEMMA MakeGateMarks ==
  ASSUME WritesShape, PlanInv, MarkInv, MakeGate
  PROVE  PlanInv' /\ MarkInv'
<1>1. op.step = "begin" /\ Task.do = "move" /\ UNCHANGED <<moved, ops, planned>>
  BY Counted DEF MakeGate, history
<1>2. ~op.unwinding \/ Safe(op) => \A p \in Path : ops \notin MarkedBy(disk'[p])
  BY <1>1, MarksAtMove, StillNoMarks DEF MakeGate
<1>3. ASSUME NEW x \in {"swap", "check"}, op' = [op EXCEPT !.step = x] PROVE PlanInv' /\ MarkInv'
  <2>1. /\ op.tasks # <<>> /\ ~Placing(op, saves, ops)
        /\ ~op.unwinding => moved' = Targets(op.journal)
        /\ op.unwinding /\ Safe(op) => moved' \subseteq Targets(op.tasks)
    BY <1>1, MarksAtMove
  <2>2. x \in {"swap", "check", "rename", "verify_move", "undo_move"}
        /\ {} = (IF x \in {"verify_move", "undo_move"} THEN {Task.from} ELSE {})
    OBVIOUS
  <2> QED BY <1>1, <1>2, <1>3, <2>1, <2>2, MoveGoes
<1>4. CASE op' = FailedTask("refused") BY <1>1, <1>2, <1>4, MarksAtMove, MoveEnds
<1> QED BY <1>3, <1>4 DEF MakeGate

LEMMA SwapMarks ==
  ASSUME WritesShape, PlanInv, MarkInv, Swap
  PROVE  PlanInv' /\ MarkInv'
<1>1. op.step = "swap" /\ Task.do = "move" /\ UNCHANGED <<ops, planned>>
  BY Counted DEF Swap, WritesShape, StepInv
<1>2. ~op.unwinding \/ Safe(op) => \A p \in Path : ops \notin MarkedBy(disk'[p])
  BY <1>1, MarksAtMove, StillNoMarks DEF Swap
<1>3. CASE op' = [op EXCEPT !.step = "verify_move"] /\ moved' = Away
  BY <1>1, <1>2, <1>3, MarksAtMove, MoveGoes DEF Away
<1>4. CASE op' = FailedTask("refused") /\ UNCHANGED moved
  BY <1>1, <1>2, <1>4, MarksAtMove, MoveEnds
<1> QED BY <1>3, <1>4 DEF Swap

LEMMA VerifyMoveMarks ==
  ASSUME WritesShape, PlanInv, MarkInv, VerifyMove
  PROVE  PlanInv' /\ MarkInv'
<1>1. op.step = "verify_move" /\ Task.do = "move" /\ UNCHANGED <<moved, ops, planned>>
  BY Counted DEF VerifyMove, WritesShape, StepInv, history
<1>2. ~op.unwinding \/ Safe(op) => \A p \in Path : ops \notin MarkedBy(disk'[p])
  BY <1>1, MarksAtMove, StillNoMarks DEF VerifyMove
<1>3. CASE op' = Succeeded BY <1>1, <1>2, <1>3, MarksAtMove, MoveEnds
<1>4. CASE op' = FailedLanded BY <1>1, <1>2, <1>4, MarksAtMove, MoveEnds
<1>5. CASE op' = [op EXCEPT !.step = "undo_move"]
  BY <1>1, <1>2, <1>5, MarksAtMove, MoveGoes
<1> QED BY <1>3, <1>4, <1>5 DEF VerifyMove

LEMMA UndoMoveMarks ==
  ASSUME WritesShape, PlanInv, MarkInv, UndoMove
  PROVE  PlanInv' /\ MarkInv'
<1>1. op.step = "undo_move" /\ Task.do = "move" /\ UNCHANGED <<ops, planned>>
  BY Counted DEF UndoMove, WritesShape, StepInv
<1>2. ~op.unwinding \/ Safe(op) => \A p \in Path : ops \notin MarkedBy(disk'[p])
  BY <1>1, MarksAtMove, StillNoMarks DEF UndoMove
<1>3. CASE op' = FailedTask("refused") /\ moved' = Back
  BY <1>1, <1>2, <1>3, MarksAtMove, MoveEnds DEF Back
<1>4. CASE op' = FailedLanded /\ UNCHANGED moved
  BY <1>1, <1>2, <1>4, MarksAtMove, MoveEnds
<1> QED BY <1>3, <1>4 DEF UndoMove

LEMMA CheckMoveMarks ==
  ASSUME WritesShape, PlanInv, MarkInv, CheckMove
  PROVE  PlanInv' /\ MarkInv'
<1>1. op.step = "check" /\ Task.do = "move" /\ UNCHANGED <<moved, ops, planned>>
  BY Counted DEF CheckMove, WritesShape, StepInv, history
<1>2. ~op.unwinding \/ Safe(op) => \A p \in Path : ops \notin MarkedBy(disk'[p])
  BY <1>1, MarksAtMove, StillNoMarks DEF CheckMove
<1>3. CASE op' = [op EXCEPT !.step = "rename"]
  <2>1. /\ op.tasks # <<>> /\ ~Placing(op, saves, ops)
        /\ ~op.unwinding => moved' = Targets(op.journal)
        /\ op.unwinding /\ Safe(op) => moved' \subseteq Targets(op.tasks)
    BY <1>1, MarksAtMove
  <2>2. {} = (IF "rename" \in {"verify_move", "undo_move"} THEN {Task.from} ELSE {}) OBVIOUS
  <2> QED BY <1>1, <1>2, <1>3, <2>1, <2>2, MoveGoes
<1>4. CASE op' = FailedTask("refused") BY <1>1, <1>2, <1>4, MarksAtMove, MoveEnds
<1> QED BY <1>3, <1>4 DEF CheckMove

LEMMA RenameMoveMarks ==
  ASSUME WritesShape, PlanInv, MarkInv, RenameMove
  PROVE  PlanInv' /\ MarkInv'
<1>1. op.step = "rename" /\ Task.do = "move" /\ UNCHANGED <<ops, planned>>
  BY Counted DEF RenameMove
<1>2. ~op.unwinding \/ Safe(op) => \A p \in Path : ops \notin MarkedBy(disk'[p])
  BY <1>1, MarksAtMove, StillNoMarks DEF RenameMove
<1>3. CASE op' = Succeeded /\ moved' = Away
  BY <1>1, <1>2, <1>3, MarksAtMove, MoveEnds DEF Away
<1>4. CASE op' = FailedTask("refused") /\ UNCHANGED moved
  BY <1>1, <1>2, <1>4, MarksAtMove, MoveEnds
<1> QED BY <1>3, <1>4 DEF RenameMove

\* The operation is over, all of it, or the file it moved is not there and all is undone.
LEMMA FinishMarks ==
  ASSUME WritesShape, PlanInv, MarkInv, Finish
  PROVE  PlanInv' /\ MarkInv'
<1>1. /\ op.step = "finish" /\ op.tasks = <<>> /\ ~op.unwinding
      /\ UNCHANGED <<disk, moved, touched, ops, planned>>
  BY Counted DEF Finish, WritesShape, OpShape, files, history
<1>2. ForwardMarks /\ Forward(op) BY <1>1 DEF PlanInv, MarkInv, Going
<1>3. /\ AtMost(disk, moved, Written(op.journal), Targets(op.journal))
      /\ AtLeast(disk, moved, touched, Written(op.journal), Targets(op.journal))
  BY <1>1, <1>2 DEF ForwardMarks, AtMost, AtLeast, Only
<1>4. op.journal \in Seq(Undoable(saves, ops)) /\ OpShape(op, saves, ops)
      /\ WritesLast(op.journal) /\ Clean(op.journal)
  BY <1>2 DEF WritesShape, OpShape, Ops, Forward
<1>5. planned.moves = Targets(op.journal) /\ planned.writes = Written(op.journal)
  BY <1>1, <1>2, NoTasks DEF Forward
<1>6. CASE op' = Over("ok")
  <2>1. op'.step = "none" /\ ~op'.unwinding /\ op'.result = "ok" BY <1>6 DEF Over, NoOp
  <2>2. planned.writes \subseteq Path
    <3>1. \A t \in ToSet(op.journal) : t.to \in Path
      BY <1>4, ElementsOf DEF Undoable, WriteTasks, MoveTasks
    <3> QED BY <1>5, <3>1 DEF Written
  <2>3. moved = planned.moves BY <1>3, <1>5 DEF AtMost, AtLeast
  <2>4. Done' BY <1>1, <1>3, <1>5, <2>1, <2>2, <2>3 DEF Done, AtLeast
  <2> QED BY <2>1, <2>4 DEF PlanInv, MarkInv, Going
<1>7. CASE op' = Rollback("refused", op.journal)
  <2>1. AtMost(disk', moved', Written(op.journal), Targets(op.journal)) BY <1>1, <1>3
  <2> QED BY <1>1, <1>4, <1>7, <2>1, RollbackMarks
<1> QED BY <1>6, <1>7 DEF Finish

LEMMA CrashMarks ==
  ASSUME Crash
  PROVE  PlanInv' /\ MarkInv'
<1>1. op' = NoOp("crashed") BY DEF Crash, Over
<1>2. op'.step = "none" /\ ~op'.unwinding /\ op'.result = "crashed" BY <1>1 DEF NoOp
<1> QED BY <1>2 DEF PlanInv, MarkInv, Going, Done

\* An editor's text bears no mark, and the path it is saved at is touched.
LEMMA EditorsMarks ==
  ASSUME WritesShape, PlanInv, MarkInv, Editors
  PROVE  PlanInv' /\ MarkInv'
<1>1. PICK p \in Path : Save(p) \/ Delete(p) BY DEF Editors
<1>2. /\ UNCHANGED <<side, op, planned, moved, ops, Task>>
      /\ touched' = touched \cup {p} /\ \A q \in Path \ {p} : disk'[q] = disk[q]
      /\ MarkedBy(disk'[p]) = {}
  BY <1>1, EditorsLeave
<1>3. \A q \in Path : ops \in MarkedBy(disk'[q]) => ops \in MarkedBy(disk[q]) BY <1>2
<1>4. \A q \in Path : q \notin touched' => disk'[q] = disk[q] BY <1>2
<1>5. PlanInv' BY <1>2 DEF PlanInv, Going, Forward, Backward, Clean
<1>6. ForwardMarks => ForwardMarks'
  BY <1>2, <1>3, <1>4 DEF ForwardMarks, AtMost, AtLeast, Only
<1>7. BackwardMarks => BackwardMarks'
  <2>1. op.step = "verify" => Task.to \in Path BY AtTask DEF CallStep
  <2> QED BY <1>2, <1>3, <2>1 DEF BackwardMarks, AtMost
<1>8. Done => Done' BY <1>2, <1>3, <1>4 DEF Done, AtMost, AtLeast
<1> QED BY <1>2, <1>5, <1>6, <1>7, <1>8 DEF MarkInv, Going, Safe

\* A new operation has marked nothing yet, and moved nothing.
LEMMA BeginsMarks ==
  ASSUME WritesShape, NEW q, Planned(q), NEW alone \in BOOLEAN, Begin(q, alone)
  PROVE  PlanInv' /\ MarkInv'
<1>1. /\ op'.step = "begin" /\ op'.journal = <<>> /\ ~op'.unwinding /\ ops' = ops + 1
      /\ moved' = {} /\ UNCHANGED disk
  BY BeginsWith DEF Begin, files
<1>2. \A p \in Path : ops + 1 \notin MarkedBy(disk[p])
  <2>1. ASSUME NEW p \in Path PROVE MarkedBy(disk[p]) \subseteq 1 .. ops
    BY Contained, Counted, Files
  <2> QED BY <2>1, Counted
<1>3. ForwardMarks'
  BY <1>1, <1>2, NoTasks DEF ForwardMarks, AtMost, AtLeast, Only
<1> QED BY <1>1, <1>3, BeginsPlan DEF MarkInv, Going

LEMMA KeepsMarks == WritesShape /\ PlanInv /\ MarkInv /\ [WritesNext]_writesVars => PlanInv' /\ MarkInv'
<1> SUFFICES ASSUME WritesShape, PlanInv, MarkInv, [WritesNext]_writesVars
             PROVE  PlanInv' /\ MarkInv'
  OBVIOUS
<1>1. CASE Operation
  <2>1. PICK q, alone : alone \in BOOLEAN /\ Planned(q) /\ Begin(q, alone)
    BY <1>1, Operates DEF WritesShape
  <2> QED BY <2>1, BeginsMarks
<1>2. CASE FileStep
  BY <1>2, BeginWriteMarks, ExchangeMarks, VerifyMarks, UndoExchangeMarks, CheckFirstMarks,
     RenameOverMarks, PlaceFileMarks, MakeGateMarks, SwapMarks, VerifyMoveMarks, UndoMoveMarks,
     CheckMoveMarks, RenameMoveMarks, FinishMarks DEF FileStep
<1>3. CASE Crash BY <1>3, CrashMarks
<1>4. CASE Editors BY <1>4, EditorsMarks
<1>5. CASE UNCHANGED writesVars
  <2>1. UNCHANGED <<disk, side, op, planned, moved, touched, ops, Task>>
    BY <1>5 DEF writesVars, files, history, counts, Task
  <2>2. PlanInv' BY <2>1 DEF PlanInv, Going, Forward, Backward, Clean
  <2>3. MarkInv'
    BY <2>1 DEF MarkInv, Going, Safe, ForwardMarks, BackwardMarks, Done, AtMost, AtLeast, Only
  <2> QED BY <2>2, <2>3
<1> QED BY <1>1, <1>2, <1>3, <1>4, <1>5 DEF WritesNext

LEMMA TypesFromShape == WritesShape => WritesTypeOK
<1> SUFFICES ASSUME WritesShape PROVE WritesTypeOK OBVIOUS
<1>1. ASSUME NEW c \in Content(saves, ops) PROVE IsContent(c)
  <2>1. CASE c = Gate
    <3>1. Head(Gate) = <<"gate", 0>> /\ Tail(Gate) = <<>> BY DEF Gate
    <3>2. <<"gate", 0>> \in Tags BY DEF Tags
    <3>3. ToSet(<<>>) = {} BY DEF ToSet
    <3> HIDE DEF Gate, Tags
    <3> QED BY <2>1, <3>1, <3>2, <3>3 DEF IsContent
  <2>2. CASE c \in Text(saves, ops)
    <3>1. Head(c) \in Known(saves, ops) /\ ToSet(Tail(c)) \subseteq 1 .. ops BY <2>2 DEF Text
    <3>2. Known(saves, ops) \subseteq Tags BY <3>1, Counted, FreshText
    <3>3. 1 .. ops \subseteq 1 .. MaxOps BY Counted, WritesAssumption
    <3> QED BY <3>1, <3>2, <3>3 DEF IsContent
  <2> QED BY <1>1, <2>1, <2>2 DEF Content, IsContent
<1>2. live \cup trampled \subseteq Tags
  <2>1. \A t \in Known(saves, ops) : t \in Tags BY Counted, FreshText
  <2> QED BY <2>1 DEF WritesShape, FilesShape
<1>3. DOMAIN disk = Path /\ \A p \in Path : disk[p] \in Content(saves, ops) BY Contained
<1>4. op \in Ops(saves, ops) /\ (op.step \in {"none", "finish"} <=> op.tasks = <<>>)
  BY DEF WritesShape, OpShape
<1>5. op.step \in CallStep /\ op.result \in {"none", "ok", "refused", "recovery", "crashed"}
  BY <1>4 DEF Ops
<1>6. moved \cup touched \subseteq Path /\ side \in Content(saves, ops)
      /\ litter \subseteq Content(saves, ops)
  BY DEF WritesShape, FilesShape
<1> QED BY <1>1, <1>2, <1>3, <1>4, <1>5, <1>6 DEF WritesTypeOK, CallStep

\* A refused operation has left no mark and has moved nothing; one that succeeded has moved what it
\* planned, and what it planned to rewrite bears its mark unless an editor saved there since
\* (NoteWrites.tla, AllOrNothing).
THEOREM WritesAllOrNothing == WritesSpec => []AllOrNothing
<1>1. WritesInit => PlanInv /\ MarkInv
  <2>1. ASSUME WritesInit PROVE op.step = "none" /\ ~op.unwinding /\ op.result = "none"
    BY <2>1 DEF WritesInit, NoOp
  <2> QED BY <2>1 DEF PlanInv, MarkInv, Going, Done
<1>2. WritesShape /\ PlanInv /\ MarkInv => AllOrNothing
  <2> SUFFICES ASSUME WritesShape, PlanInv, MarkInv PROVE AllOrNothing OBVIOUS
  <2>1. op.result = "ok" => op.step = "none"
    BY DEF PlanInv, Going, Forward, Backward
  <2>2. op.result = "refused" /\ op.step = "none" =>
          moved = {} /\ \A p \in Path : ops \notin MarkedBy(disk[p])
    BY DEF MarkInv, Done, AtMost
  <2>3. op.result = "ok" =>
          moved = planned.moves /\ \A p \in planned.writes \ touched : ops \in MarkedBy(disk[p])
    BY <2>1 DEF MarkInv, Done, AtLeast
  <2> QED BY <2>2, <2>3, TypesFromShape DEF AllOrNothing
<1> QED BY <1>1, <1>2, InitWritesShape, KeepsWritesShape, KeepsMarks, PTL DEF WritesSpec
================================================================================

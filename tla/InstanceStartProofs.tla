------------------------- MODULE InstanceStartProofs -------------------------
(***************************************************************************)
(* InstanceStart for any number of Vaults, setups and changes: past model  *)
(* setup there is a model, and a setup that runs holds the claim.          *)
(***************************************************************************)
EXTENDS InstanceStart, TLAPS

(***************************************************************************)
(* Types                                                                   *)
(***************************************************************************)
Phase == {"terms", "downloading", "scanning", "indexing", "ready", "failed"}
Stage == {"none", "claimed", "loading", "installed", "requested", "failing", "over"}
Setups == [Setup -> Stage]
Settlers == [Settler -> {"idle", "judge", "latch", "free"}]
Statuses == [Vault -> {"pending", "searchable", "failed"}]
Turn == [vault : SUBSET Vault, stage : {"none", "start", "embedding", "published"},
         revoked : BOOLEAN]

Flags ==
  /\ claim \in BOOLEAN /\ model \in BOOLEAN /\ selected \in BOOLEAN
  /\ loaded \in BOOLEAN /\ changed \in BOOLEAN /\ overwritten \in BOOLEAN
Collection ==
  /\ active \subseteq Vault /\ local \subseteq Vault /\ queued \subseteq active
  /\ lifecycle \subseteq Vault
OneTurn ==
  /\ turn.stage = "none" <=> turn.vault = {}
  /\ settle[0] # "idle" => turn.stage = "published"
Types ==
  /\ phase \in Phase /\ Flags /\ Collection /\ OneTurn
  /\ setup \in Setups /\ settle \in Settlers /\ status \in Statuses /\ turn \in Turn

LEMMA TypesAreTypeOK == Types => TypeOK
<1> SUFFICES ASSUME Types PROVE TypeOK OBVIOUS
<1>1. {claim, model, selected, loaded, changed, overwritten} \subseteq BOOLEAN
  BY DEF Types, Flags
<1>2. \A i \in Setup : setup[i] \in Stage BY DEF Types, Setups
<1>3. \A s \in Settler : settle[s] \in {"idle", "judge", "latch", "free"} BY DEF Types, Settlers
<1>4. \A v \in Vault : status[v] \in {"pending", "searchable", "failed"} BY DEF Types, Statuses
<1> QED BY <1>1, <1>2, <1>3, <1>4 DEF Types, TypeOK, Phase, Stage, Collection, OneTurn

LEMMA Numbers == 0 \in Settler /\ Watch \in Settler /\ Watch # 0 /\ Setup \subseteq Settler
                 /\ \A i \in Setup : i \in Nat /\ i # 0
  BY StartAssumption DEF Settler, Watch, Setup

(***************************************************************************)
(* The inductive invariant                                                 *)
(***************************************************************************)
Claiming == {"claimed", "loading", "installed", "requested"}
Past == {"scanning", "indexing", "ready"}

\* Where the model is needed there is one.
ModelInv ==
  /\ phase \in Past => model
  /\ \A i \in Setup : setup[i] \in {"installed", "requested"} => model
  /\ turn.stage = "embedding" => model

\* Setups begin in the order of their numbers.
InOrder == \A i, j \in Setup : setup[j] # "none" /\ i < j => setup[i] # "none"

\* Whose claim it is, as long as nobody's phase was replaced: a failing setup has given
\* its claim back, and whoever took it after that came later.
ClaimInv ==
  /\ \A i \in Setup : setup[i] \in Claiming => claim
  /\ \A i, j \in Setup : setup[i] \in Claiming /\ setup[j] \in Claiming => i = j
  /\ \A i, j \in Setup : setup[i] \in Claiming /\ setup[j] = "failing" => j < i

\* What the phase says meanwhile: nobody latches over a setup.
PhaseInv ==
  /\ phase \in {"scanning", "indexing"} => claim
  /\ model => phase # "terms"
  /\ \A i \in Setup :
       /\ setup[i] = "claimed" => phase \notin {"scanning", "indexing"}
       /\ setup[i] \in {"loading", "installed", "requested"} => phase = "downloading"

\* Whoever latched frees the claim of no other: until it has, nobody can claim, nor
\* show a failure of the newest setup.
Freeing(s) == settle[s] = "free"
FreeInv ==
  /\ \A s \in Settler : Freeing(s) => /\ claim /\ phase = "ready"
                                      /\ \A i \in Setup : setup[i] \notin Claiming
  /\ \A s, q \in Settler : Freeing(s) /\ Freeing(q) => s = q
  /\ \A i \in Setup : setup[i] = "failing" =>
       phase = "downloading" \/ \E j \in Setup : j > i /\ setup[j] # "none"

IInv == Types /\ ModelInv /\ InOrder /\ (~overwritten => ClaimInv /\ PhaseInv /\ FreeInv)

(***************************************************************************)
(* The initial state                                                       *)
(***************************************************************************)
LEMMA InitIInv == Init => IInv
<1> SUFFICES ASSUME Init PROVE IInv OBVIOUS
<1> USE DEF Init
<1>1. phase \in Phase /\ Flags BY DEF Phase, Flags, BootPhase
<1>2. Collection BY DEF Collection
<1>3. setup \in Setups /\ settle \in Settlers /\ status \in Statuses /\ turn \in Turn
  BY DEF Setups, Settlers, Statuses, Turn, NoTurn, Stage
<1>4. OneTurn BY Numbers DEF OneTurn, NoTurn
<1>5. ModelInv BY DEF ModelInv, Past, BootPhase, NoTurn
<1>6. \A i \in Setup : setup[i] \in {"none", "claimed"} /\ (setup[i] = "claimed" => selected /\ i = 1)
  OBVIOUS
<1>7. ClaimInv BY <1>6 DEF ClaimInv, Claiming
<1>8. PhaseInv BY <1>6 DEF PhaseInv, BootPhase
<1>9. InOrder BY <1>6, Numbers DEF InOrder
<1>10. FreeInv BY <1>6 DEF FreeInv, Freeing
<1> QED BY <1>1, <1>2, <1>3, <1>4, <1>5, <1>7, <1>8, <1>9, <1>10 DEF IInv, Types

(***************************************************************************)
(* Steps keep the types                                                    *)
(***************************************************************************)
LEMMA SetupTypes ==
  ASSUME Types, NEW i \in Setup,
         SetupStep(i) \/ ReportDownload(i) \/ Choose(i) \/ RetrySetup(i)
  PROVE  Types'
<1> USE DEF Types, SetupStep, ReportDownload, Choose, RetrySetup, BeginDownload, Install,
            RequestAll, Finish, Fail, ShowFailure, To, Elsewhere, vaults
<1>1. phase' \in Phase BY DEF Phase
<1>2. Flags' BY DEF Flags
<1>3. setup' \in Setups BY DEF Setups, Stage
<1>4. settle' \in Settlers /\ settle'[0] = settle[0] BY Numbers DEF Settlers
<1>5. status' \in Statuses /\ turn' = turn OBVIOUS
<1>6. Collection' BY DEF Collection
<1>7. OneTurn' BY <1>4, <1>5 DEF OneTurn
<1> QED BY <1>1, <1>2, <1>3, <1>4, <1>5, <1>6, <1>7

LEMMA SettleTypes ==
  ASSUME Types, (\E s \in Settler : SettleStep(s)) \/ WatchChanges
  PROVE  Types'
<1> USE DEF Types
<1>1. CASE \E s \in Settler : SettleStep(s)
  <2>1. PICK s \in Settler : Judge(s) \/ Latch(s) \/ FreeClaim(s) BY <1>1 DEF SettleStep
  <2> USE <2>1 DEF Judge, Latch, FreeClaim, At, Stop, Unmoved, vaults
  <2>2. phase' \in Phase BY DEF Phase
  <2>3. Flags' BY DEF Flags
  <2>4. settle' \in Settlers BY DEF Settlers
  <2>5. settle[s] # "idle" /\ \A q \in Settler : q # s => settle'[q] = settle[q]
    BY DEF Settlers
  <2>6. OneTurn' BY <2>5, Numbers DEF OneTurn
  <2>7. Collection' BY DEF Collection
  <2> QED BY <2>2, <2>3, <2>4, <2>6, <2>7
<1>2. CASE WatchChanges
  <2> USE <1>2 DEF WatchChanges, At
  <2>1. Flags' /\ Collection' BY DEF Flags, Collection
  <2>2. settle' \in Settlers /\ settle'[0] = settle[0] BY Numbers DEF Settlers
  <2> QED BY <2>1, <2>2 DEF OneTurn
<1> QED BY <1>1, <1>2

LEMMA TurnTypes ==
  ASSUME Types, TurnStep \/ Report \/ (\E v \in Vault : StartTurn(v))
  PROVE  Types'
<1> USE DEF Types, Steady
<1>1. CASE OpenTurn \/ EndTurn
  <2> USE <1>1 DEF OpenTurn, EndTurn, EndPublishing, At
  <2>1. Flags'
    <3>1. changed' \in BOOLEAN BY DEF Flags
    <3> QED BY <3>1 DEF Flags
  <2>2. Collection' BY DEF Collection
  <2>3. settle' \in Settlers BY DEF Settlers
  <2>4. status' \in Statuses
    <3>1. CASE OpenTurn BY <3>1 DEF Statuses
    <3>2. CASE EndTurn BY <3>2 DEF Statuses
    <3> QED BY <3>1, <3>2
  <2>5. turn' \in Turn BY DEF Turn
  <2>6. turn.stage \in {"start", "embedding"} OBVIOUS
  <2>7. /\ turn'.vault = turn.vault /\ turn'.stage # "none"
        /\ turn'.stage = "published" \/ settle' = settle
    BY DEF Turn
  <2>8. OneTurn' BY <2>6, <2>7 DEF OneTurn
  <2> QED BY <2>1, <2>2, <2>3, <2>4, <2>5, <2>8
<1>2. CASE DropTurn
  <2> USE <1>2 DEF DropTurn, NoTurn
  <2>1. Flags' /\ Collection' BY DEF Flags, Collection
  <2>2. turn' \in Turn BY DEF Turn
  <2> QED BY <2>1, <2>2 DEF OneTurn
<1>3. CASE Report
  <2> USE <1>3 DEF Report
  <2>1. Flags' /\ Collection' BY DEF Flags, Collection
  <2> QED BY <2>1 DEF Phase, OneTurn
<1>4. CASE \E v \in Vault : StartTurn(v)
  <2>1. PICK v \in Vault : StartTurn(v) BY <1>4
  <2> USE <2>1 DEF StartTurn
  <2>2. Flags' /\ Collection' BY DEF Flags, Collection
  <2>3. turn' \in Turn BY DEF Turn
  <2>4. OneTurn' BY DEF OneTurn
  <2> QED BY <2>2, <2>3, <2>4
<1> QED BY <1>1, <1>2, <1>3, <1>4 DEF TurnStep

\* What an operator, an editor or a lifecycle does to the collection.
Outside ==
  \/ AnswerLifecycle
  \/ \E v \in Vault : Request(v) \/ Appear(v) \/ Vanish(v)
  \/ \E v \in Vault, next \in SUBSET Vault : Mutate(v, next)

LEMMA OutsideTypes ==
  ASSUME Types, Outside
  PROVE  Types' /\ UNCHANGED <<phase, claim, model, setup, settle, overwritten>> /\ turn'.stage = turn.stage
<1> USE DEF Types, Untouched
<1>1. CASE AnswerLifecycle
  <2> USE <1>1 DEF AnswerLifecycle
  <2>1. Flags' /\ Collection' BY DEF Flags, Collection
  <2> QED BY <2>1 DEF OneTurn
<1>2. CASE \E v \in Vault : Request(v) \/ Appear(v) \/ Vanish(v)
  <2>1. PICK v \in Vault : Request(v) \/ Appear(v) \/ Vanish(v) BY <1>2
  <2> USE <2>1 DEF Request, Appear, Vanish
  <2>2. Flags' BY DEF Flags
  <2>3. Collection' BY DEF Collection
  <2> QED BY <2>2, <2>3 DEF OneTurn
<1>3. CASE \E v \in Vault, next \in SUBSET Vault : Mutate(v, next)
  <2>1. PICK v \in Vault, next \in SUBSET Vault : Mutate(v, next) BY <1>3
  <2> USE <2>1 DEF Mutate
  <2>2. Flags' BY DEF Flags
  <2>3. Collection' BY DEF Collection, Drained
  <2>4. status' \in Statuses BY DEF Statuses
  <2>5. turn' \in Turn /\ turn'.stage = turn.stage /\ turn'.vault = turn.vault BY DEF Turn
  <2> QED BY <2>2, <2>3, <2>4, <2>5 DEF OneTurn
<1> QED BY <1>1, <1>2, <1>3 DEF Outside

(***************************************************************************)
(* Steps keep the claim and the phase                                      *)
(***************************************************************************)
LEMMA SetupKeeps ==
  ASSUME IInv, NEW i \in Setup,
         SetupStep(i) \/ ReportDownload(i) \/ Choose(i) \/ RetrySetup(i)
  PROVE  ModelInv' /\ InOrder' /\ (~overwritten' => ClaimInv' /\ PhaseInv' /\ FreeInv')
<1> USE DEF IInv
<1>0. /\ setup \in Setups /\ phase \in Phase /\ claim \in BOOLEAN /\ model \in BOOLEAN
      /\ overwritten \in BOOLEAN
      /\ \A j \in Setup : j \in Nat
  BY Numbers DEF Types, Flags
<1>1. CASE Choose(i) \/ RetrySetup(i)
  <2>1. /\ ~claim /\ claim' /\ setup[i] = "none" /\ \A j \in Setup : j < i => setup[j] # "none"
        /\ setup' = [setup EXCEPT ![i] = "claimed"]
        /\ UNCHANGED <<phase, model, overwritten, turn>>
    BY <1>1 DEF Choose, RetrySetup, Fresh, To, vaults
  <2>2. setup'[i] = "claimed" /\ \A j \in Setup : j # i => setup'[j] = setup[j]
    BY <1>0, <2>1 DEF Setups
  <2>3. ModelInv' BY <2>1, <2>2 DEF ModelInv
  <2>4. InOrder' BY <2>1, <2>2 DEF InOrder
  <2>5. ASSUME ~overwritten' PROVE ClaimInv' /\ PhaseInv' /\ FreeInv'
    <3>1. ClaimInv /\ PhaseInv /\ \A j \in Setup : setup[j] \notin Claiming
      BY <2>1, <2>5 DEF ClaimInv
    <3>2. \A j \in Setup : setup[j] = "failing" => j < i
      BY <1>0, <2>1 DEF InOrder
    <3>3. ClaimInv' BY <2>1, <2>2, <3>1, <3>2 DEF ClaimInv, Claiming
    <3>4. PhaseInv' BY <2>1, <2>2, <3>1 DEF PhaseInv
    <3>5. settle' = settle /\ \A s \in Settler : ~Freeing(s)
      BY <1>1, <2>1, <2>5 DEF Choose, RetrySetup, FreeInv
    <3>6. FreeInv' BY <2>1, <2>2, <2>5, <3>5 DEF FreeInv, Freeing
    <3> QED BY <3>3, <3>4, <3>6
  <2> QED BY <2>3, <2>4, <2>5
<1>2. CASE BeginDownload(i) \/ ReportDownload(i) \/ Install(i) \/ RequestAll(i) \/ Finish(i)
  <2>1. /\ setup[i] \in Claiming /\ setup'[i] \in Claiming \cup {"over"}
        /\ \A j \in Setup : j # i => setup'[j] = setup[j]
        /\ UNCHANGED <<claim, overwritten, turn>>
    BY <1>0, <1>2 DEF BeginDownload, ReportDownload, Install, RequestAll, Finish, To, Elsewhere,
       vaults, Setups, Claiming
  <2>2. \/ phase' = "downloading" /\ setup'[i] = "loading" /\ UNCHANGED model
        \/ phase' = phase /\ setup[i] \in {"loading", "installed"}
           /\ setup'[i] \in {"installed", "requested"} /\ model' /\ (setup[i] = "installed" => model)
        \/ phase' = "scanning" /\ setup[i] = "requested" /\ setup'[i] = "over" /\ UNCHANGED model
    BY <1>0, <1>2 DEF BeginDownload, ReportDownload, Install, RequestAll, Finish, To, Elsewhere,
       vaults, Setups, ModelInv
  <2>3. ModelInv' BY <2>1, <2>2 DEF ModelInv, Past
  <2>4. InOrder' BY <2>1 DEF InOrder, Claiming
  <2>7. \A s \in Settler : settle'[s] \in {settle[s], "judge"}
    BY <1>2 DEF BeginDownload, ReportDownload, Install, RequestAll, Finish, Elsewhere, Types, Settlers
  <2>5. ASSUME ~overwritten' PROVE ClaimInv' /\ PhaseInv' /\ FreeInv'
    <3>1. ClaimInv /\ PhaseInv /\ claim /\ \A j \in Setup : setup[j] \in Claiming => j = i
      BY <2>1, <2>5 DEF ClaimInv
    <3>2. ClaimInv' BY <2>1, <3>1 DEF ClaimInv, Claiming
    <3>3. \A j \in Setup : j # i => setup'[j] \notin Claiming BY <2>1, <3>1
    <3>4. PhaseInv' BY <2>1, <2>2, <3>1, <3>3 DEF PhaseInv, Claiming
    <3>5. \A s \in Settler : ~Freeing(s)' BY <2>1, <2>5, <2>7 DEF FreeInv, Freeing
    <3>6. \A j \in Setup : setup'[j] = "failing" => j < i /\ setup'[i] # "none"
      BY <2>1, <3>1 DEF ClaimInv, Claiming
    <3>7. FreeInv' BY <1>0, <3>5, <3>6 DEF FreeInv
    <3> QED BY <3>2, <3>4, <3>7
  <2> QED BY <2>3, <2>4, <2>5
<1>3. CASE Fail(i)
  <2>1. /\ setup[i] = "loading" /\ setup'[i] = "failing" /\ ~claim'
        /\ \A j \in Setup : j # i => setup'[j] = setup[j]
        /\ UNCHANGED <<phase, model, overwritten, turn>>
    BY <1>0, <1>3 DEF Fail, To, Elsewhere, vaults, Setups
  <2>2. ModelInv' BY <2>1 DEF ModelInv
  <2>3. InOrder' BY <2>1 DEF InOrder
  <2>4. ASSUME ~overwritten' PROVE ClaimInv' /\ PhaseInv' /\ FreeInv'
    <3>1. ClaimInv /\ PhaseInv /\ phase = "downloading"
          /\ \A j \in Setup : j # i => setup[j] \notin Claiming
      BY <2>1, <2>4 DEF ClaimInv, PhaseInv, Claiming
    <3>2. ClaimInv' BY <2>1, <3>1 DEF ClaimInv, Claiming
    <3>3. PhaseInv' BY <2>1, <3>1 DEF PhaseInv, Claiming
    <3>4. settle' = settle /\ \A s \in Settler : ~Freeing(s)
      BY <1>3, <2>1, <2>4 DEF Fail, Elsewhere, FreeInv, Claiming
    <3>5. FreeInv' BY <2>1, <2>4, <3>1, <3>4 DEF FreeInv, Freeing
    <3> QED BY <3>2, <3>3, <3>5
  <2> QED BY <2>2, <2>3, <2>4
<1>4. CASE ShowFailure(i)
  <2>1. /\ setup[i] = "failing" /\ setup'[i] = "over" /\ phase' = "failed"
        /\ \A j \in Setup : j # i => setup'[j] = setup[j]
        /\ overwritten' = (overwritten \/ \E j \in Setup : j > i /\ setup[j] # "none")
        /\ UNCHANGED <<claim, model, turn>>
    BY <1>0, <1>4 DEF ShowFailure, To, Elsewhere, vaults, Setups
  <2>2. ModelInv' BY <2>1 DEF ModelInv, Past
  <2>3. InOrder' BY <2>1 DEF InOrder
  <2>4. ASSUME ~overwritten' PROVE ClaimInv' /\ PhaseInv' /\ FreeInv'
    <3>1. ClaimInv /\ \A j \in Setup : j > i => setup[j] = "none" BY <2>1, <2>4
    <3>2. \A j \in Setup : setup[j] \notin Claiming
      BY <1>0, <2>1, <3>1 DEF ClaimInv, Claiming
    <3>3. \A j \in Setup : setup'[j] \notin Claiming BY <2>1, <3>2 DEF Claiming
    <3>4. ClaimInv' BY <3>3 DEF ClaimInv
    <3>5. PhaseInv' BY <2>1, <3>3 DEF PhaseInv, Claiming
    <3>6. phase = "downloading" BY <2>1, <2>4, <3>1 DEF FreeInv
    <3>7. settle' = settle /\ \A s \in Settler : ~Freeing(s)
      BY <1>4, <2>4, <2>1, <3>6 DEF ShowFailure, Elsewhere, FreeInv
    <3>8. \A j \in Setup : setup'[j] = "failing" => j < i /\ setup'[i] # "none"
      BY <1>0, <2>1, <3>1
    <3>9. FreeInv' BY <1>0, <3>7, <3>8 DEF FreeInv, Freeing
    <3> QED BY <3>4, <3>5, <3>9
  <2> QED BY <2>2, <2>3, <2>4
<1> QED BY <1>1, <1>2, <1>3, <1>4 DEF SetupStep

LEMMA OthersKeep ==
  ASSUME IInv, Types',
         \/ \E s \in Settler : SettleStep(s)
         \/ WatchChanges \/ TurnStep \/ Report \/ \E v \in Vault : StartTurn(v)
         \/ Outside \/ UNCHANGED vars
  PROVE  ModelInv' /\ InOrder' /\ (~overwritten' => ClaimInv' /\ PhaseInv' /\ FreeInv')
<1> USE DEF IInv
<1> DEFINE NoneAnew == \A s \in Settler : Freeing(s)' => Freeing(s)
<1>0. phase \in Phase /\ turn \in Turn BY DEF Types
<1>1. setup' = setup /\ model' = model
  BY OutsideTypes DEF SettleStep, Judge, Latch, FreeClaim, At, Stop, Unmoved, WatchChanges, TurnStep, Report,
     OpenTurn, EndTurn, DropTurn, StartTurn, Steady, vars
<1>2. turn'.stage = "embedding" => model
  <2>1. turn'.stage = "embedding" => turn.stage = "embedding" \/ model
    BY <1>0, OutsideTypes DEF SettleStep, Judge, Latch, FreeClaim, Unmoved, WatchChanges, TurnStep, Report,
       OpenTurn, EndTurn, EndPublishing, DropTurn, StartTurn, NoTurn, Steady, vars, vaults, Turn
  <2> QED BY <2>1 DEF ModelInv
<1>3. \/ UNCHANGED <<phase, claim, overwritten>> /\ NoneAnew
      \/ /\ MayLatch /\ phase' = "ready" /\ UNCHANGED <<claim, overwritten>>
         /\ \E s \in Settler : \A q \in Settler : Freeing(q)' => q = s \/ Freeing(q)
      \/ (\E s \in Settler : FreeClaim(s)) /\ ~claim' /\ UNCHANGED <<phase, overwritten>>
      \/ /\ turn.stage = "embedding" /\ phase # "ready" /\ phase' = "indexing" /\ UNCHANGED claim
         /\ overwritten' = (overwritten \/ phase \in {"downloading", "failed"})
         /\ NoneAnew
  <2> USE DEF Types, Settlers, Freeing
  <2>1. CASE \E s \in Settler : SettleStep(s)
    <3>1. PICK s \in Settler : Judge(s) \/ Latch(s) \/ FreeClaim(s) BY <2>1 DEF SettleStep
    <3>2. CASE Judge(s) BY <3>2 DEF Judge, At, Stop, Unmoved
    <3>3. CASE Latch(s) BY <3>3 DEF Latch, At, Stop, Unmoved
    <3>4. CASE FreeClaim(s) BY <3>4 DEF FreeClaim, Unmoved
    <3> QED BY <3>1, <3>2, <3>3, <3>4
  <2>2. CASE Report
    BY <2>2 DEF Report, Steady
  <2>3. CASE WatchChanges \/ TurnStep \/ \E v \in Vault : StartTurn(v)
    BY <2>3 DEF WatchChanges, TurnStep, OpenTurn, EndTurn, EndPublishing, DropTurn, StartTurn,
       Steady, At
  <2>4. CASE Outside \/ UNCHANGED vars
    BY <2>4, OutsideTypes DEF vars
  <2> QED BY <2>1, <2>2, <2>3, <2>4
<1>4. MayLatch => phase \in {"scanning", "indexing"}
  BY <1>0 DEF MayLatch, SetupPending, Phase
<1>5. ModelInv' BY <1>1, <1>2, <1>3, <1>4 DEF ModelInv, Past
<1>6. InOrder' BY <1>1 DEF InOrder
<1>7. ASSUME ~overwritten' PROVE ClaimInv' /\ PhaseInv' /\ FreeInv'
  <2>0. ClaimInv /\ PhaseInv /\ FreeInv BY <1>3, <1>7
  <2>1. CASE UNCHANGED <<phase, claim, overwritten>> /\ NoneAnew
    <3>1. ClaimInv' /\ PhaseInv' BY <1>1, <2>0, <2>1 DEF ClaimInv, PhaseInv
    <3>2. FreeInv' BY <1>1, <2>0, <2>1 DEF FreeInv
    <3> QED BY <3>1, <3>2
  <2>2. CASE /\ MayLatch /\ phase' = "ready" /\ UNCHANGED claim
             /\ \E s \in Settler : \A q \in Settler : Freeing(q)' => q = s \/ Freeing(q)
    <3>1. claim /\ phase # "ready" /\ \A i \in Setup : setup[i] \notin Claiming
      BY <1>4, <2>0, <2>2 DEF PhaseInv, Claiming
    <3>2. \A s \in Settler : ~Freeing(s) BY <2>0, <3>1 DEF FreeInv
    <3>3. \A s, q \in Settler : Freeing(s)' /\ Freeing(q)' => s = q BY <2>2, <3>2
    <3>4. \A i \in Setup : setup'[i] = "failing" => \E j \in Setup : j > i /\ setup'[j] # "none"
      BY <1>1, <1>4, <2>0, <2>2 DEF FreeInv
    <3>5. FreeInv' BY <1>1, <2>2, <3>1, <3>3, <3>4 DEF FreeInv
    <3> QED BY <1>1, <2>2, <3>1, <3>5 DEF ClaimInv, PhaseInv, Claiming
  <2>4. CASE (\E s \in Settler : FreeClaim(s)) /\ ~claim' /\ UNCHANGED <<phase, overwritten>>
    <3>1. PICK s \in Settler : FreeClaim(s) BY <2>4
    <3>2. /\ Freeing(s) /\ phase = "ready" /\ \A i \in Setup : setup[i] \notin Claiming
          /\ \A q \in Settler : Freeing(q) => q = s
      BY <2>0, <3>1 DEF FreeClaim, Freeing, FreeInv
    <3>3. \A q \in Settler : ~Freeing(q)'
      BY <3>1, <3>2 DEF FreeClaim, Stop, At, Freeing, Types, Settlers
    <3>4. FreeInv' BY <1>1, <2>0, <2>4, <3>3 DEF FreeInv
    <3> QED BY <1>1, <2>0, <2>4, <3>2, <3>4 DEF ClaimInv, PhaseInv, Claiming
  <2>3. CASE /\ turn.stage = "embedding" /\ phase # "ready" /\ phase' = "indexing"
             /\ UNCHANGED claim /\ phase \notin {"downloading", "failed"} /\ NoneAnew
    <3>1. phase \in {"scanning", "indexing"}
      BY <1>0, <2>0, <2>3 DEF ModelInv, PhaseInv, Phase
    <3>2. claim' /\ \A i \in Setup : setup[i] \notin Claiming
      BY <2>0, <2>3, <3>1 DEF PhaseInv, Claiming
    <3>3. \A s \in Settler : ~Freeing(s)
      BY <2>0, <2>3 DEF FreeInv
    <3>4. \A i \in Setup : setup'[i] = "failing" => \E j \in Setup : j > i /\ setup'[j] # "none"
      BY <1>1, <2>0, <3>1 DEF FreeInv
    <3>5. FreeInv' BY <2>3, <3>3, <3>4 DEF FreeInv
    <3> QED BY <1>1, <2>3, <3>2, <3>5 DEF ClaimInv, PhaseInv, Claiming
  <2> QED BY <1>3, <1>7, <2>1, <2>2, <2>3, <2>4
<1> QED BY <1>5, <1>6, <1>7

(***************************************************************************)
(* The theorems                                                            *)
(***************************************************************************)
LEMMA StepIInv == IInv /\ [Next]_vars => IInv'
<1> SUFFICES ASSUME IInv, [Next]_vars PROVE IInv' OBVIOUS
<1>1. Types BY DEF IInv
<1>2. CASE \E i \in Setup : SetupStep(i) \/ ReportDownload(i) \/ Choose(i) \/ RetrySetup(i)
  <2>1. PICK i \in Setup : SetupStep(i) \/ ReportDownload(i) \/ Choose(i) \/ RetrySetup(i)
    BY <1>2
  <2>2. Types' BY <1>1, <2>1, SetupTypes
  <2> QED BY <2>1, <2>2, SetupKeeps DEF IInv
<1>3. CASE \/ \E s \in Settler : SettleStep(s)
           \/ WatchChanges \/ TurnStep \/ Report \/ \E v \in Vault : StartTurn(v)
           \/ Outside \/ UNCHANGED vars
  <2>1. Types'
    <3>1. CASE UNCHANGED vars
      BY <1>1, <3>1 DEF vars, vaults, Types, Flags, Collection, OneTurn
    <3> QED BY <1>1, <1>3, <3>1, SettleTypes, TurnTypes, OutsideTypes
  <2> QED BY <1>3, <2>1, OthersKeep DEF IInv
<1> QED BY <1>2, <1>3 DEF Next, Operator, Outside

\* The instance reads as past its model setup, and serves as ready, only with a search
\* model in place (#453), whoever settles startup and whenever.
THEOREM ReadyMeansModel == Spec => []ReadyHasModel
<1>1. IInv => ReadyHasModel
  BY TypesAreTypeOK DEF IInv, ModelInv, Past, ReadyHasModel
<1> QED BY <1>1, InitIInv, StepIInv, PTL DEF Spec

\* A setup that runs holds the claim, unless a phase that belonged to a running setup was
\* replaced: set_indexing_unless_ready, and the failure shown after the claim is freed.
THEOREM ClaimIsKept == Spec => []SetupKeepsClaim
<1>1. IInv => SetupKeepsClaim
  BY DEF IInv, ClaimInv, Claiming, SetupKeepsClaim, Running
<1> QED BY <1>1, InitIInv, StepIInv, PTL DEF Spec
=============================================================================

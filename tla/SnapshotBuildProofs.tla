-------------------------- MODULE SnapshotBuildProofs --------------------------
(***************************************************************************)
(* The shared cache stays consistent, for any Vaults, notes, models and    *)
(* bounds: no mixed vector spaces, nothing of a removed Vault, and no      *)
(* searchable row that lacks a vector for good.                            *)
(***************************************************************************)
EXTENDS SnapshotBuild, TLAPS

USE SnapshotAssumption

-----------------------------------------------------------------------------
(* The inductive invariant, one part for each property.                    *)

\* A build only runs with a model in the slot.
Underway ==
  /\ build.stage # "none" =>
       /\ slot \in Model /\ build.under \in Model
       /\ build.kind \in {"structure", "search"}
  /\ build.stage \in {"embedding", "built"} => build.as \in Model
  /\ build.stage = "embedding" => \A n \in build.todo : build.notes[n].text \in Text
Typed == TypeOK /\ Underway

\* While no build has raced a model into the slot, a build, the cache's stamp and the
\* slot name one model, and all that the build holds is that model's.
RowsAgree == \A v \in Vault, n \in Note : By(row[v].notes[n].vectors, stamp)
SavedAgree == \A v \in Vault : \A s \in saved[v] : By({s.vector}, s.under)
BuildAgrees ==
  build.stage # "none" =>
    /\ build.under = slot /\ loading \in {NoModel, slot} /\ stamp \in {NoModel, slot}
    /\ build.stage # "reading" => build.as = slot
    /\ \A n \in Note : By(build.notes[n].vectors, slot)
    /\ By(build.unsaved, slot)
Agrees == ~raced => RowsAgree /\ SavedAgree /\ BuildAgrees

\* The build of a Vault that is being removed knows that it was superseded.
Superseded ==
  \A v \in Vault :
    leaving[v] \in {"begun", "gone"} /\ build.stage # "none" /\ build.vault = v => ~build.newest
Fenced == RemovedLeavesNothing /\ Superseded

\* What a build has left to embed is all that its candidate lacks.
NoteWhole(note, kind) ==
  /\ \A x \in note.vectors : x.of = note.text
  /\ kind = "search" /\ note.hashed => note.vectors # {}
RowsWhole == \A v \in Vault, n \in Note : NoteWhole(row[v].notes[n], row[v].kind)
BuildWhole ==
  build.stage # "none" =>
    /\ build.stage # "embedding" => build.todo = {}
    /\ \A n \in Note \ build.todo : NoteWhole(build.notes[n], build.kind)
    /\ build.kind = "structure" =>
         build.todo = {} /\ \A n \in Note : build.notes[n].vectors = {}
Whole == RowsWhole /\ BuildWhole

-----------------------------------------------------------------------------
(* What the model's constants and helpers are.                             *)

LEMMA NoNoteType == NoNote \in NoteRow
BY DEF NoNote, NoteRow

LEMMA NoRowType == NoRow \in VaultRow
BY NoNoteType DEF NoRow, VaultRow

LEMMA NoBuildType == NoBuild \in Build /\ NoBuild.stage = "none"
<1>1. (CHOOSE v \in Vault : TRUE) \in Vault
  OBVIOUS
<1>2. NoRow.notes \in [Note -> NoteRow]
  BY NoNoteType DEF NoRow
<1> QED
  BY <1>1, <1>2 DEF NoBuild, Build

LEMMA ResetType ==
  ASSUME TypeOK, NEW m \in Model, ResetFor(m)
  PROVE  row' \in [Vault -> VaultRow] /\ stamp' \in Model \cup {NoModel}
BY NoRowType DEF TypeOK, ResetFor

LEMMA MishapType == ASSUME TypeOK, Mishap PROVE mishaps' \in 0 .. MaxMishap
BY DEF TypeOK, Mishap

LEMMA ReusedType ==
  ASSUME TypeOK, NEW v \in Vault, NEW n \in Note PROVE Reused(v, n) \in SUBSET Vector
<1>1. build.notes[n].vectors \in SUBSET Vector
  BY DEF TypeOK, Build, NoteRow
<1>2. \A s \in saved[v] : s.vector \in Vector
  BY DEF TypeOK, Saved
<1> QED
  BY <1>1, <1>2 DEF Reused

LEMMA FlushedType ==
  ASSUME Typed, build.stage # "none" PROVE Flushed \in [Vault -> SUBSET Saved]
<1>1. saved \in [Vault -> SUBSET Saved] /\ build.vault \in Vault
  BY DEF Typed, TypeOK, Build
<1>2. \A x \in build.unsaved : [vector |-> x, under |-> build.under] \in Saved
  BY DEF Typed, Underway, TypeOK, Build, Saved
<1> QED
  BY <1>1, <1>2 DEF Flushed

LEMMA ReadNoteType ==
  ASSUME TypeOK, NEW v \in Vault, NEW n \in Note, NEW U, NEW P
  PROVE  ReadNote(v, n, U, P) \in NoteRow
<1>1. disk[v][n] \in 0 .. MaxText
  BY DEF TypeOK
<1>2. build.notes[n] \in NoteRow /\ build.notes[n].vectors \in SUBSET Vector
  BY DEF TypeOK, Build, NoteRow
<1>3. Invalid(disk[v][n]) \in NoteRow
  BY <1>1 DEF Invalid, NoteRow
<1>4. [text |-> disk[v][n], hashed |-> TRUE,
       vectors |-> IF Reused(v, n) = {} THEN build.notes[n].vectors ELSE Reused(v, n)]
      \in NoteRow
  BY <1>1, <1>2, ReusedType DEF NoteRow
<1> QED
  BY <1>2, <1>3, <1>4, NoNoteType DEF ReadNote

LEMMA InitTyped == Init => Typed
<1> SUFFICES ASSUME Init PROVE Typed
  OBVIOUS
<1>1. row \in [Vault -> VaultRow]
  BY NoRowType DEF Init
<1>2. mishaps \in 0 .. MaxMishap
  BY DEF Init
<1>3. build \in Build /\ build.stage = "none"
  BY NoBuildType DEF Init
<1>4. TypeOK
  BY <1>1, <1>2, <1>3 DEF Init, TypeOK
<1> QED
  BY <1>3, <1>4 DEF Typed, Underway

-----------------------------------------------------------------------------
(* Types.                                                                  *)

LEMMA StartTyped ==
  ASSUME Typed, NEW v \in Vault, NEW kind \in {"structure", "search"}, Start(v, kind)
  PROVE  Typed'
<1> USE DEF Typed
<1>1. slot \in Model /\ slot' = slot /\ loading' = loading /\ disk' = disk /\ mishaps' = mishaps
  BY DEF Start, TypeOK
<1>2. row' \in [Vault -> VaultRow] /\ stamp' \in Model \cup {NoModel}
  BY <1>1, ResetType DEF Start
<1>3. saved' \in [Vault -> SUBSET Saved]
  BY DEF Start, TypeOK, Usable
<1>4. Seed(v) \in [Note -> NoteRow] /\ NoRow.notes \in [Note -> NoteRow]
  BY <1>2, NoRowType DEF Seed, VaultRow
<1>5. build' \in Build /\ build'.stage = "reading" /\ build'.under = slot /\ build'.kind = kind
  BY <1>1, <1>4, NoBuildType DEF Start, Build
<1>6. leaving' \in [Vault -> {"no", "begun", "overtaken", "gone", "back"}]
  BY DEF Start, TypeOK
<1>7. raced' \in BOOLEAN
  BY DEF Start, TypeOK
<1>8. TypeOK'
  BY <1>1, <1>2, <1>3, <1>5, <1>6, <1>7 DEF TypeOK
<1> QED
  BY <1>1, <1>5, <1>8 DEF Underway

LEMMA ReadTyped == ASSUME Typed, Read PROVE Typed'
<1> USE DEF Typed
<1>1. build.vault \in Vault /\ slot \in Model /\ build \in Build
  BY DEF Read, TypeOK, Underway, Build
<1> DEFINE v == build.vault
           present == {n \in Note : disk[v][n] # 0}
<1>2. PICK U \in SUBSET present : \E P \in SUBSET (present \ U) :
        LET written == {n \in present \ (U \cup P) : ~Unchanged(v, n)}
            failing == U \cup P # {}
        IN /\ IF failing THEN Mishap ELSE UNCHANGED mishaps
           /\ build' = [build EXCEPT
                !.stage = "embedding", !.as = slot,
                !.notes = [n \in Note |-> ReadNote(v, n, U, P)],
                !.todo = IF build.kind = "structure" THEN {}
                         ELSE {n \in written : Reused(v, n) = {}}]
           /\ saved' = IF failing \/ build.kind = "structure" THEN saved
                       ELSE [saved EXCEPT ![v] = Retain(v, written)]
  BY DEF Read
<1>3. PICK P \in SUBSET (present \ U) :
        LET written == {n \in present \ (U \cup P) : ~Unchanged(v, n)}
            failing == U \cup P # {}
        IN /\ IF failing THEN Mishap ELSE UNCHANGED mishaps
           /\ build' = [build EXCEPT
                !.stage = "embedding", !.as = slot,
                !.notes = [n \in Note |-> ReadNote(v, n, U, P)],
                !.todo = IF build.kind = "structure" THEN {}
                         ELSE {n \in written : Reused(v, n) = {}}]
           /\ saved' = IF failing \/ build.kind = "structure" THEN saved
                       ELSE [saved EXCEPT ![v] = Retain(v, written)]
  BY <1>2
<1> DEFINE written == {n \in present \ (U \cup P) : ~Unchanged(v, n)}
           notes == [n \in Note |-> ReadNote(v, n, U, P)]
           todo == IF build.kind = "structure" THEN {} ELSE {n \in written : Reused(v, n) = {}}
<1>4. UNCHANGED <<disk, row, stamp, slot, loading, leaving, raced>>
  BY DEF Read
<1>5. build' = [build EXCEPT !.stage = "embedding", !.as = slot, !.notes = notes, !.todo = todo]
  BY <1>3
<1>6. notes \in [Note -> NoteRow]
  BY <1>1, ReadNoteType
<1>7. todo \in SUBSET Note
  OBVIOUS
<1>8. \A n \in todo : notes[n].text \in Text
  <2> SUFFICES ASSUME NEW n \in todo PROVE notes[n].text \in Text
    OBVIOUS
  <2>1. n \in Note /\ disk[v][n] # 0 /\ n \notin U /\ n \notin P /\ ~Unchanged(v, n)
    OBVIOUS
  <2>2. notes[n].text = disk[v][n]
    BY <2>1 DEF ReadNote
  <2>3. disk[v][n] \in 0 .. MaxText
    BY <1>1, <2>1 DEF TypeOK
  <2> QED
    BY <2>1, <2>2, <2>3 DEF Text
<1>9. build'.notes = notes /\ build'.todo = todo /\ build'.as = slot /\ build'.stage = "embedding"
      /\ build'.under = build.under /\ build'.kind = build.kind
  BY <1>1, <1>5 DEF Build
<1>10. build' \in Build
  <2> HIDE DEF notes, todo
  <2> QED
    BY <1>1, <1>5, <1>6, <1>7 DEF Build
<1>11. saved' \in [Vault -> SUBSET Saved]
  <2>1. Retain(v, written) \in SUBSET Saved
    BY <1>1 DEF Retain, TypeOK
  <2>2. saved' = saved \/ saved' = [saved EXCEPT ![v] = Retain(v, written)]
    BY <1>3
  <2> QED
    BY <1>1, <2>1, <2>2 DEF TypeOK
<1>12. mishaps' \in 0 .. MaxMishap
  <2>1. Mishap \/ mishaps' = mishaps
    BY <1>3
  <2> QED
    BY <2>1, MishapType DEF TypeOK
<1>13. TypeOK'
  BY <1>4, <1>10, <1>11, <1>12 DEF TypeOK
<1> HIDE DEF notes, todo
<1> QED
  BY <1>1, <1>4, <1>8, <1>9, <1>13, build.stage = "reading" DEF Underway, Read

LEMMA StepTyped == Typed /\ [Next]_vars => Typed'
<1> SUFFICES ASSUME Typed, [Next]_vars PROVE Typed'
  OBVIOUS
<1> USE DEF Typed
<1>1. ASSUME NEW v \in Vault, NEW n \in Note, Edit(v, n) PROVE Typed'
  <2>1. disk' \in [Vault -> [Note -> 0 .. MaxText]]
    BY <1>1 DEF Edit, TypeOK
  <2>2. mishaps' \in 0 .. MaxMishap
    BY <1>1, MishapType DEF Edit
  <2> QED
    BY <1>1, <2>1, <2>2 DEF Edit, TypeOK, Underway, cache
<1>2. ASSUME NEW m \in Model, Load(m) PROVE Typed'
  <2>2. row' \in [Vault -> VaultRow] /\ stamp' \in Model \cup {NoModel}
    BY <1>2, ResetType DEF Load
  <2>3. mishaps' \in 0 .. MaxMishap
    BY <1>2, MishapType DEF Load, TypeOK
  <2>4. saved' \in [Vault -> SUBSET Saved]
    BY <1>2 DEF Load, TypeOK
  <2>5. raced' \in BOOLEAN
    BY <1>2 DEF Load, TypeOK
  <2> QED
    BY <1>2, <2>2, <2>3, <2>4, <2>5 DEF Load, TypeOK, Underway
<1>3. CASE Install
  BY <1>3 DEF Install, TypeOK, Underway, cache
<1>4. ASSUME NEW v \in Vault, NEW kind \in {"structure", "search"}, Start(v, kind) PROVE Typed'
  BY <1>4, StartTyped
<1>5. CASE Read
  BY <1>5, ReadTyped
<1>6. ASSUME NEW n \in Note, Embed(n) PROVE Typed'
  <2> DEFINE x == [of |-> build.notes[n].text, as |-> build.as, by |-> slot]
  <2>1. x \in Vector
    BY <1>6 DEF Embed, Underway, TypeOK, Vector
  <2>2. build' = [build EXCEPT
          !.notes[n].vectors = {x}, !.todo = @ \ {n}, !.began = TRUE,
          !.unsaved = {y \in @ : ~SameInput(x, y)} \cup {x}]
    BY <1>6 DEF Embed
  <2> HIDE DEF x
  <2>3. build \in Build
    BY DEF TypeOK
  <2>4. [build.notes EXCEPT ![n].vectors = {x}] \in [Note -> NoteRow]
    BY <2>1, <2>3 DEF Build, NoteRow
  <2>5. {y \in build.unsaved : ~SameInput(x, y)} \cup {x} \in SUBSET Vector
    BY <2>1, <2>3 DEF Build
  <2>6. build.todo \ {n} \in SUBSET Note
    BY <2>3 DEF Build
  <2>7. build' \in Build
    BY <2>2, <2>3, <2>4, <2>5, <2>6 DEF Build
  <2>8. /\ build'.stage = build.stage /\ build'.under = build.under /\ build'.kind = build.kind
        /\ build'.as = build.as /\ build'.todo = build.todo \ {n}
        /\ \A k \in Note : build'.notes[k].text = build.notes[k].text
    BY <2>2, <2>3 DEF Build, NoteRow
  <2>9. \A k \in build.todo \ {n} : k \in Note
    BY <2>6
  <2> QED
    BY <1>6, <2>7, <2>8, <2>9 DEF Embed, TypeOK, Underway, cache
<1>7. ASSUME NEW n \in Note, EmbedFails(n) PROVE Typed'
  <2>1. build' = [build EXCEPT !.notes[n] = Invalid(@.text), !.todo = @ \ {n}]
    BY <1>7 DEF EmbedFails
  <2>2. build \in Build
    BY DEF TypeOK
  <2>3. build.notes[n] \in NoteRow /\ Invalid(build.notes[n].text) \in NoteRow
    BY <2>2 DEF Build, NoteRow, Invalid
  <2>4. build' \in Build
    BY <2>1, <2>2, <2>3 DEF Build
  <2>5. /\ build'.stage = build.stage /\ build'.under = build.under /\ build'.kind = build.kind
        /\ build'.as = build.as /\ build'.todo = build.todo \ {n}
        /\ \A k \in Note : build'.notes[k].text = build.notes[k].text
    BY <2>1, <2>2, <2>3 DEF Build, Invalid
  <2>6. \A k \in build.todo \ {n} : k \in Note
    BY <2>2 DEF Build
  <2>7. mishaps' \in 0 .. MaxMishap
    BY <1>7, MishapType DEF EmbedFails
  <2> QED
    BY <1>7, <2>4, <2>5, <2>6, <2>7 DEF EmbedFails, TypeOK, Underway, cache
<1>8. CASE SaveProgress
  <2>1. saved' \in [Vault -> SUBSET Saved]
    BY <1>8, FlushedType DEF SaveProgress
  <2>2. /\ build' \in Build /\ build'.stage = build.stage /\ build'.under = build.under
        /\ build'.kind = build.kind /\ build'.as = build.as /\ build'.todo = build.todo
        /\ build'.notes = build.notes
    BY <1>8 DEF SaveProgress, TypeOK, Build
  <2> QED
    BY <1>8, <2>1, <2>2 DEF SaveProgress, TypeOK, Underway
<1>9. CASE Pause
  <2>1. saved' \in [Vault -> SUBSET Saved]
    BY <1>9, FlushedType DEF Pause, Dropped
  <2> QED
    BY <1>9, <2>1, NoBuildType DEF Pause, TypeOK, Underway
<1>10. CASE Fail
  <2>1. saved' \in [Vault -> SUBSET Saved]
    BY <1>10, FlushedType DEF Fail, Dropped
  <2>2. mishaps' \in 0 .. MaxMishap
    BY <1>10, MishapType DEF Fail
  <2> QED
    BY <1>10, <2>1, <2>2, NoBuildType DEF Fail, TypeOK, Underway
<1>11. CASE Finish
  <2>1. saved' \in [Vault -> SUBSET Saved]
    BY <1>11, FlushedType DEF Finish, Dropped
  <2>2. /\ build' \in Build /\ build'.stage = "built" /\ build'.under = build.under
        /\ build'.kind = build.kind /\ build'.as = build.as
    BY <1>11 DEF Finish, TypeOK, Build
  <2> QED
    BY <1>11, <2>1, <2>2 DEF Finish, TypeOK, Underway
<1>12. CASE Publish
  <2>1. build \in Build /\ build.vault \in Vault
    BY DEF TypeOK, Build
  <2>2. [kind |-> build.kind, notes |-> build.notes] \in VaultRow
    BY <2>1 DEF Build, VaultRow
  <2>3. row' \in [Vault -> VaultRow]
    BY <1>12, <2>2 DEF Publish, TypeOK, cache
  <2>4. saved' \in [Vault -> SUBSET Saved]
    BY <1>12 DEF Publish, TypeOK, cache
  <2>5. stamp' \in Model \cup {NoModel}
    BY <1>12 DEF Publish, TypeOK, cache
  <2> QED
    BY <1>12, <2>3, <2>4, <2>5, NoBuildType DEF Publish, TypeOK, Underway
<1>13. CASE Kill
  <2>1. mishaps' \in 0 .. MaxMishap
    BY <1>13, MishapType DEF Kill
  <2> QED
    BY <1>13, <2>1, NoBuildType DEF Kill, TypeOK, Underway, cache
<1>14. ASSUME NEW v \in Vault, Disconnect(v) PROVE Typed'
  <2>1. mishaps' \in 0 .. MaxMishap
    BY <1>14, MishapType DEF Disconnect
  <2>2. leaving' \in [Vault -> {"no", "begun", "overtaken", "gone", "back"}]
    BY <1>14 DEF Disconnect, TypeOK
  <2>3. /\ build' \in Build /\ build'.stage = build.stage /\ build'.under = build.under
        /\ build'.kind = build.kind /\ build'.as = build.as /\ build'.todo = build.todo
        /\ build'.notes = build.notes
    BY <1>14 DEF Disconnect, TypeOK, Build
  <2> QED
    BY <1>14, <2>1, <2>2, <2>3 DEF Disconnect, TypeOK, Underway, cache
<1>15. ASSUME NEW v \in Vault, DeleteRows(v) PROVE Typed'
  <2>1. row' \in [Vault -> VaultRow]
    BY <1>15, NoRowType DEF DeleteRows, TypeOK
  <2>2. saved' \in [Vault -> SUBSET Saved]
    BY <1>15 DEF DeleteRows, TypeOK
  <2>3. leaving' \in [Vault -> {"no", "begun", "overtaken", "gone", "back"}]
    BY <1>15 DEF DeleteRows, TypeOK
  <2> QED
    BY <1>15, <2>1, <2>2, <2>3 DEF DeleteRows, TypeOK, Underway
<1>16. CASE UNCHANGED vars
  BY <1>16 DEF vars, cache, TypeOK, Underway
<1>17. ASSUME NEW m \in Model, LoadUnprepared(m) PROVE Typed'
  <2>1. mishaps' \in 0 .. MaxMishap
    BY <1>17, MishapType DEF LoadUnprepared
  <2> QED
    BY <1>17, <2>1 DEF LoadUnprepared, TypeOK, Underway, cache
<1> QED
  BY <1>1, <1>2, <1>3, <1>4, <1>5, <1>6, <1>7, <1>8, <1>9, <1>10, <1>11, <1>12, <1>13, <1>14,
     <1>15, <1>16, <1>17 DEF Next, BuildStep

-----------------------------------------------------------------------------
(* A removed Vault.                                                        *)

\* What is dropped or saved of a build changes its own Vault's progress alone, and
\* that only when nothing has superseded the build.
LEMMA FlushedFences ==
  ASSUME Typed, NEW v \in Vault, build.vault = v => ~build.newest
  PROVE  Flushed[v] = saved[v]
BY DEF Flushed, MaySave, Typed, TypeOK, Build

\* A reset or the discarding of other models' progress leaves nothing where there
\* was nothing.
LEMMA ResetFences ==
  ASSUME Typed, NEW m \in Model, ResetFor(m), NEW v \in Vault, row[v] = NoRow
  PROVE  row'[v] = NoRow
BY DEF ResetFor, Typed, TypeOK

LEMMA StepFenced == Typed /\ Fenced /\ [Next]_vars => Fenced'
<1> SUFFICES ASSUME Typed, Fenced, [Next]_vars, NEW v \in Vault
             PROVE  /\ leaving'[v] = "gone" => row'[v] = NoRow /\ saved'[v] = {}
                    /\ leaving'[v] \in {"begun", "gone"} /\ build'.stage # "none" /\ build'.vault = v
                         => ~build'.newest
  BY DEF Fenced, RemovedLeavesNothing, Superseded
<1> DEFINE Holds == /\ leaving'[v] = "gone" => row'[v] = NoRow /\ saved'[v] = {}
                    /\ leaving'[v] \in {"begun", "gone"} /\ build'.stage # "none" /\ build'.vault = v
                         => ~build'.newest
<1>a. leaving[v] = "gone" => row[v] = NoRow /\ saved[v] = {}
  BY DEF Fenced, RemovedLeavesNothing
<1>b. leaving[v] \in {"begun", "gone"} /\ build.stage # "none" /\ build.vault = v => ~build.newest
  BY DEF Fenced, Superseded
<1>c. build \in Build /\ leaving \in [Vault -> {"no", "begun", "overtaken", "gone", "back"}]
  BY DEF Typed, TypeOK
<1>d. saved \in [Vault -> SUBSET Saved] /\ row \in [Vault -> VaultRow]
  BY DEF Typed, TypeOK
<1>1. ASSUME NEW w \in Vault, NEW n \in Note, Edit(w, n) PROVE Holds
  BY <1>1, <1>a, <1>b DEF Edit, cache
<1>2. ASSUME NEW m \in Model, Load(m) PROVE Holds
  <2>1. leaving[v] = "gone" => row'[v] = NoRow
    BY <1>2, <1>a, ResetFences DEF Load
  <2> QED
    BY <1>2, <2>1, <1>a, <1>b DEF Load
<1>3. CASE Install
  BY <1>3, <1>a, <1>b DEF Install, cache
<1>4. ASSUME NEW w \in Vault, NEW kind \in {"structure", "search"}, Start(w, kind) PROVE Holds
  <2>1. slot \in Model /\ ResetFor(slot)
    BY <1>4 DEF Start, Typed, TypeOK
  <2>2. leaving[v] = "gone" => row'[v] = NoRow /\ saved'[v] = {}
    BY <1>4, <2>1, <1>a, ResetFences DEF Start, Usable
  <2>3. build'.vault = w
    BY <1>4, NoBuildType DEF Start, Build
  <2>4. leaving'[v] = IF v = w THEN (CASE leaving[v] = "begun" -> "overtaken"
                                       [] leaving[v] = "gone" -> "back" [] OTHER -> leaving[v])
                      ELSE leaving[v]
    BY <1>4, <1>c DEF Start
  <2> QED
    BY <2>2, <2>3, <2>4, <1>c
<1>5. CASE Read
  <2>1. build.vault \in Vault
    BY <1>c DEF Build
  <2>2. build'.stage = "embedding" /\ build'.vault = build.vault /\ build'.newest = build.newest
    BY <1>5, <1>c DEF Read, Build
  <2>3. \/ saved' = saved
        \/ \E W : saved' = [saved EXCEPT ![build.vault] = Retain(build.vault, W)]
    BY <1>5 DEF Read
  <2>4. saved[v] = {} => saved'[v] = {}
    BY <2>1, <2>3, <1>d DEF Retain
  <2> QED
    BY <1>5, <2>2, <2>4, <1>a, <1>b DEF Read
<1>6. ASSUME NEW n \in Note, Embed(n) PROVE Holds
  <2>1. build'.stage = build.stage /\ build'.vault = build.vault /\ build'.newest = build.newest
    BY <1>6, <1>c DEF Embed, Build
  <2> QED
    BY <1>6, <2>1, <1>a, <1>b DEF Embed, cache
<1>7. ASSUME NEW n \in Note, EmbedFails(n) PROVE Holds
  <2>1. build'.stage = build.stage /\ build'.vault = build.vault /\ build'.newest = build.newest
    BY <1>7, <1>c DEF EmbedFails, Build
  <2> QED
    BY <1>7, <2>1, <1>a, <1>b DEF EmbedFails, cache
<1>8. CASE SaveProgress
  <2>1. build'.stage = build.stage /\ build'.vault = build.vault /\ build'.newest = build.newest
    BY <1>8, <1>c DEF SaveProgress, Build
  <2>2. leaving[v] = "gone" => saved'[v] = {}
    BY <1>8, <1>a, <1>b, FlushedFences DEF SaveProgress
  <2> QED
    BY <1>8, <2>1, <2>2, <1>a, <1>b DEF SaveProgress
<1>9. CASE Pause
  <2>1. leaving[v] = "gone" => saved'[v] = {}
    BY <1>9, <1>a, <1>b, FlushedFences DEF Pause, Dropped
  <2> QED
    BY <1>9, <2>1, <1>a, NoBuildType DEF Pause
<1>10. CASE Fail
  <2>1. leaving[v] = "gone" => saved'[v] = {}
    BY <1>10, <1>a, <1>b, FlushedFences DEF Fail, Dropped
  <2> QED
    BY <1>10, <2>1, <1>a, NoBuildType DEF Fail
<1>11. CASE Finish
  <2>1. build'.stage = "built" /\ build'.vault = build.vault /\ build'.newest = build.newest
    BY <1>11, <1>c DEF Finish, Build
  <2>2. leaving[v] = "gone" => saved'[v] = {}
    BY <1>11, <1>a, <1>b, FlushedFences DEF Finish, Dropped
  <2> QED
    BY <1>11, <2>1, <2>2, <1>a, <1>b DEF Finish
<1>12. CASE Publish
  <2>1. leaving[v] = "gone" => row'[v] = NoRow /\ saved'[v] = {}
    BY <1>12, <1>a, <1>b, <1>c, <1>d DEF Publish, cache, Build
  <2> QED
    BY <1>12, <2>1, NoBuildType DEF Publish
<1>13. CASE Kill
  BY <1>13, <1>a, NoBuildType DEF Kill, cache
<1>14. ASSUME NEW w \in Vault, Disconnect(w) PROVE Holds
  <2>1. leaving'[v] = IF v = w THEN "begun" ELSE leaving[v]
    BY <1>14, <1>c DEF Disconnect
  <2>2. /\ build'.stage = build.stage /\ build'.vault = build.vault
        /\ build'.newest = IF build.vault = w THEN FALSE ELSE build.newest
    BY <1>14, <1>c DEF Disconnect, Build
  <2> QED
    BY <1>14, <2>1, <2>2, <1>a, <1>b DEF Disconnect, cache
<1>15. ASSUME NEW w \in Vault, DeleteRows(w) PROVE Holds
  <2>1. CASE v = w
    <3>1. row'[v] = NoRow /\ saved'[v] = {}
      BY <1>15, <2>1, <1>d DEF DeleteRows
    <3>2. leaving'[v] \in {"begun", "gone"} => leaving[v] = "begun"
      BY <1>15, <2>1, <1>c DEF DeleteRows
    <3> QED
      BY <1>15, <3>1, <3>2, <1>b DEF DeleteRows
  <2>2. CASE v # w
    BY <1>15, <2>2, <1>a, <1>b, <1>c, <1>d DEF DeleteRows
  <2> QED
    BY <2>1, <2>2
<1>16. CASE UNCHANGED vars
  BY <1>16, <1>a, <1>b DEF vars, cache
<1>17. ASSUME NEW m \in Model, LoadUnprepared(m) PROVE Holds
  BY <1>17, <1>a, <1>b DEF LoadUnprepared, cache
<1> QED
  BY <1>1, <1>2, <1>3, <1>4, <1>5, <1>6, <1>7, <1>8, <1>9, <1>10, <1>11, <1>12, <1>13, <1>14,
     <1>15, <1>16, <1>17 DEF Next, BuildStep

-----------------------------------------------------------------------------
(* Whole notes.                                                            *)

LEMMA NoRowWhole == \A kind : \A n \in Note : NoteWhole(NoRow.notes[n], kind)
BY DEF NoteWhole, NoRow, NoNote

LEMMA ResetWhole ==
  ASSUME Typed, RowsWhole, NEW m \in Model, ResetFor(m) PROVE RowsWhole'
<1>1. CASE row' = row
  BY <1>1 DEF RowsWhole
<1>2. CASE row' = [v \in Vault |-> NoRow]
  BY <1>2, NoRowWhole DEF RowsWhole
<1> QED
  BY <1>1, <1>2 DEF ResetFor

\* A note that was read is whole as it stands, or it is left to embed.
LEMMA ReadNoteWhole ==
  ASSUME Typed, NEW v \in Vault, NEW n \in Note, NEW U, NEW P,
         NoteWhole(build.notes[n], build.kind),
         build.kind = "structure" => build.notes[n].vectors = {},
         build.kind = "structure" \/ disk[v][n] = 0 \/ n \in U \/ n \in P
           \/ Unchanged(v, n) \/ Reused(v, n) # {}
  PROVE  /\ NoteWhole(ReadNote(v, n, U, P), build.kind)
         /\ build.kind = "structure" => ReadNote(v, n, U, P).vectors = {}
<1>1. CASE disk[v][n] = 0
  <2>1. ReadNote(v, n, U, P) = NoNote
    BY <1>1 DEF ReadNote
  <2>2. NoNote.vectors = {} /\ NoNote.hashed = FALSE
    BY DEF NoNote
  <2> QED
    BY <2>1, <2>2 DEF NoteWhole
<1>2. CASE disk[v][n] # 0 /\ (n \in U \/ Unchanged(v, n))
  <2>1. ReadNote(v, n, U, P) = build.notes[n]
    BY <1>2 DEF ReadNote
  <2> QED
    BY <2>1
<1>3. CASE disk[v][n] # 0 /\ n \notin U /\ ~Unchanged(v, n) /\ n \in P
  <2>1. ReadNote(v, n, U, P) = Invalid(disk[v][n])
    BY <1>3 DEF ReadNote
  <2>2. Invalid(disk[v][n]).vectors = {} /\ Invalid(disk[v][n]).hashed = FALSE
    BY DEF Invalid
  <2> QED
    BY <2>1, <2>2 DEF NoteWhole
<1>4. CASE disk[v][n] # 0 /\ n \notin U /\ ~Unchanged(v, n) /\ n \notin P
  <2>1. ReadNote(v, n, U, P) =
          [text |-> disk[v][n], hashed |-> TRUE,
           vectors |-> IF Reused(v, n) = {} THEN build.notes[n].vectors ELSE Reused(v, n)]
    BY <1>4 DEF ReadNote
  <2>2. CASE build.kind = "structure"
    <3>1. Reused(v, n) = {}
      BY <2>2 DEF Reused
    <3> QED
      BY <2>1, <2>2, <3>1 DEF NoteWhole
  <2>3. CASE build.kind # "structure"
    <3>1. Reused(v, n) # {}
      BY <1>4, <2>3
    <3>2. \A x \in Reused(v, n) : x.of = disk[v][n]
      BY DEF Reused, Kept
    <3> QED
      BY <2>1, <2>3, <3>1, <3>2 DEF NoteWhole
  <2> QED
    BY <2>2, <2>3
<1> QED
  BY <1>1, <1>2, <1>3, <1>4

LEMMA ReadWhole == ASSUME Typed, BuildWhole, Read PROVE BuildWhole'
<1>1. build.vault \in Vault /\ build \in Build
  BY DEF Typed, TypeOK, Build
<1> DEFINE v == build.vault
           present == {n \in Note : disk[v][n] # 0}
<1>2. PICK U \in SUBSET present, P \in SUBSET present :
        build' = [build EXCEPT
          !.stage = "embedding", !.as = slot,
          !.notes = [n \in Note |-> ReadNote(v, n, U, P)],
          !.todo = IF build.kind = "structure" THEN {}
                   ELSE {n \in {k \in present \ (U \cup P) : ~Unchanged(v, k)} :
                           Reused(v, n) = {}}]
  BY DEF Read
<1> DEFINE notes == [n \in Note |-> ReadNote(v, n, U, P)]
           todo == IF build.kind = "structure" THEN {}
                   ELSE {n \in {k \in present \ (U \cup P) : ~Unchanged(v, k)} :
                           Reused(v, n) = {}}
<1>3. build'.stage = "embedding" /\ build'.notes = notes /\ build'.todo = todo
      /\ build'.kind = build.kind
  BY <1>1, <1>2 DEF Build
<1>4. /\ build.todo = {}
      /\ \A n \in Note : NoteWhole(build.notes[n], build.kind)
      /\ build.kind = "structure" => \A n \in Note : build.notes[n].vectors = {}
  BY DEF Read, BuildWhole
<1>5. ASSUME NEW n \in Note \ todo
      PROVE  /\ NoteWhole(notes[n], build.kind)
             /\ build.kind = "structure" => notes[n].vectors = {}
  <2>1. build.kind = "structure" \/ disk[v][n] = 0 \/ n \in U \/ n \in P
        \/ Unchanged(v, n) \/ Reused(v, n) # {}
    OBVIOUS
  <2>2. notes[n] = ReadNote(v, n, U, P)
    OBVIOUS
  <2> QED
    BY <1>1, <1>4, <2>1, <2>2, ReadNoteWhole
<1>6. build.kind = "structure" => todo = {}
  OBVIOUS
<1> HIDE DEF notes, todo
<1> QED
  BY <1>3, <1>5, <1>6 DEF BuildWhole

LEMMA StepWhole == Typed /\ Whole /\ [Next]_vars => Whole'
<1> SUFFICES ASSUME Typed, RowsWhole, BuildWhole, [Next]_vars PROVE RowsWhole' /\ BuildWhole'
  BY DEF Whole
<1>c. build \in Build /\ row \in [Vault -> VaultRow]
  BY DEF Typed, TypeOK
<1>1. ASSUME NEW w \in Vault, NEW n \in Note, Edit(w, n) PROVE RowsWhole' /\ BuildWhole'
  BY <1>1 DEF Edit, cache, RowsWhole, BuildWhole
<1>2. ASSUME NEW m \in Model, Load(m) PROVE RowsWhole' /\ BuildWhole'
  BY <1>2, ResetWhole DEF Load, BuildWhole
<1>3. CASE Install
  BY <1>3 DEF Install, cache, RowsWhole, BuildWhole
<1>4. ASSUME NEW w \in Vault, NEW kind \in {"structure", "search"}, Start(w, kind)
      PROVE  RowsWhole' /\ BuildWhole'
  <2>1. slot \in Model /\ ResetFor(slot)
    BY <1>4 DEF Start, Typed, TypeOK
  <2>2. RowsWhole'
    BY <2>1, ResetWhole
  <2>3. build'.stage = "reading" /\ build'.kind = kind /\ build'.todo = {}
        /\ build'.notes = IF kind = "search" THEN Seed(w) ELSE NoRow.notes
    BY <1>4 DEF Start, NoBuild
  <2>4. kind = "search" => \A n \in Note : NoteWhole(Seed(w)[n], kind)
    BY <2>2, NoRowWhole DEF RowsWhole, Seed
  <2>5. \A n \in Note : NoRow.notes[n].vectors = {}
    BY DEF NoRow, NoNote
  <2> QED
    BY <2>2, <2>3, <2>4, <2>5, NoRowWhole DEF BuildWhole
<1>5. CASE Read
  BY <1>5, ReadWhole DEF Read, RowsWhole
<1>6. ASSUME NEW n \in Note, Embed(n) PROVE RowsWhole' /\ BuildWhole'
  <2> DEFINE x == [of |-> build.notes[n].text, as |-> build.as, by |-> slot]
  <2>1. build' = [build EXCEPT
          !.notes[n].vectors = {x}, !.todo = @ \ {n}, !.began = TRUE,
          !.unsaved = {y \in @ : ~SameInput(x, y)} \cup {x}]
    BY <1>6 DEF Embed
  <2>2. x.of = build.notes[n].text
    OBVIOUS
  <2> HIDE DEF x
  <2>a. build.stage = "embedding" /\ build.notes \in [Note -> NoteRow]
    BY <1>6, <1>c DEF Embed, Build
  <2>b. build'.notes = [build.notes EXCEPT ![n].vectors = {x}]
    BY <1>c, <2>1 DEF Build
  <2>c. /\ build'.stage = "embedding" /\ build'.kind = build.kind
        /\ build'.todo = build.todo \ {n}
    BY <1>c, <2>1, <2>a DEF Build
  <2>d. /\ \A k \in Note \ {n} : build'.notes[k] = build.notes[k]
        /\ build'.notes[n].text = build.notes[n].text /\ build'.notes[n].vectors = {x}
    BY <2>a, <2>b DEF NoteRow
  <2>3. /\ build'.stage = "embedding" /\ build'.kind = build.kind
        /\ build'.todo = build.todo \ {n}
        /\ \A k \in Note \ {n} : build'.notes[k] = build.notes[k]
        /\ build'.notes[n].text = build.notes[n].text /\ build'.notes[n].vectors = {x}
    BY <2>c, <2>d
  <2>4. NoteWhole(build'.notes[n], build.kind)
    BY <2>2, <2>3 DEF NoteWhole
  <2>5. build.kind # "structure"
    BY <1>6 DEF Embed, BuildWhole
  <2> QED
    BY <1>6, <2>3, <2>4, <2>5 DEF Embed, BuildWhole, RowsWhole, cache
<1>7. ASSUME NEW n \in Note, EmbedFails(n) PROVE RowsWhole' /\ BuildWhole'
  <2>1. /\ build'.stage = "embedding" /\ build'.kind = build.kind
        /\ build'.todo = build.todo \ {n}
        /\ \A k \in Note \ {n} : build'.notes[k] = build.notes[k]
        /\ build'.notes[n] = Invalid(build.notes[n].text)
    BY <1>7, <1>c DEF EmbedFails, Build
  <2>2. NoteWhole(build'.notes[n], build.kind)
    BY <2>1 DEF NoteWhole, Invalid
  <2>3. build.kind # "structure"
    BY <1>7 DEF EmbedFails, BuildWhole
  <2> QED
    BY <1>7, <2>1, <2>2, <2>3 DEF EmbedFails, BuildWhole, RowsWhole, cache
<1>8. CASE SaveProgress
  <2>1. /\ build'.stage = build.stage /\ build'.kind = build.kind
        /\ build'.todo = build.todo /\ build'.notes = build.notes
    BY <1>8, <1>c DEF SaveProgress, Build
  <2> QED
    BY <1>8, <2>1 DEF SaveProgress, BuildWhole, RowsWhole
<1>9. CASE Pause
  BY <1>9, NoBuildType DEF Pause, BuildWhole, RowsWhole
<1>10. CASE Fail
  BY <1>10, NoBuildType DEF Fail, BuildWhole, RowsWhole
<1>11. CASE Finish
  <2>1. /\ build'.stage = "built" /\ build'.kind = build.kind
        /\ build'.todo = {} /\ build'.notes = build.notes
    BY <1>11, <1>c DEF Finish, Build
  <2> QED
    BY <1>11, <2>1 DEF Finish, BuildWhole, RowsWhole
<1>12. CASE Publish
  <2>1. \A n \in Note : NoteWhole(build.notes[n], build.kind)
    BY <1>12 DEF Publish, BuildWhole
  <2>2. RowsWhole'
    <3>1. CASE row' = row
      BY <3>1 DEF RowsWhole
    <3>2. CASE row' = [row EXCEPT ![build.vault] = [kind |-> build.kind, notes |-> build.notes]]
      BY <2>1, <3>2, <1>c DEF RowsWhole
    <3> QED
      BY <1>12, <3>1, <3>2 DEF Publish, cache
  <2> QED
    BY <1>12, <2>2, NoBuildType DEF Publish, BuildWhole
<1>13. CASE Kill
  BY <1>13, NoBuildType DEF Kill, cache, BuildWhole, RowsWhole
<1>14. ASSUME NEW w \in Vault, Disconnect(w) PROVE RowsWhole' /\ BuildWhole'
  <2>1. /\ build'.stage = build.stage /\ build'.kind = build.kind
        /\ build'.todo = build.todo /\ build'.notes = build.notes
    BY <1>14, <1>c DEF Disconnect, Build
  <2> QED
    BY <1>14, <2>1 DEF Disconnect, cache, BuildWhole, RowsWhole
<1>15. ASSUME NEW w \in Vault, DeleteRows(w) PROVE RowsWhole' /\ BuildWhole'
  <2>1. row' = [row EXCEPT ![w] = NoRow]
    BY <1>15 DEF DeleteRows
  <2>2. RowsWhole'
    BY <2>1, <1>c, NoRowWhole DEF RowsWhole
  <2> QED
    BY <1>15, <2>2 DEF DeleteRows, BuildWhole
<1>16. CASE UNCHANGED vars
  BY <1>16 DEF vars, cache, RowsWhole, BuildWhole
<1>17. ASSUME NEW m \in Model, LoadUnprepared(m) PROVE RowsWhole' /\ BuildWhole'
  BY <1>17 DEF LoadUnprepared, cache, RowsWhole, BuildWhole
<1> QED
  BY <1>1, <1>2, <1>3, <1>4, <1>5, <1>6, <1>7, <1>8, <1>9, <1>10, <1>11, <1>12, <1>13, <1>14,
     <1>15, <1>16, <1>17 DEF Next, BuildStep

-----------------------------------------------------------------------------
(* One vector space.                                                       *)

LEMMA NoRowBy == \A m : \A n \in Note : By(NoRow.notes[n].vectors, m)
BY DEF By, NoRow, NoNote

\* Nothing is by no model: an unstamped cache has no vectors.
LEMMA UnstampedIsEmpty ==
  ASSUME NEW S \in SUBSET Vector, By(S, NoModel) PROVE S = {}
BY DEF By, Vector

LEMMA ResetAgrees ==
  ASSUME Typed, RowsAgree, NEW m \in Model, ResetFor(m)
  PROVE  RowsAgree' /\ stamp' \in {NoModel, m}
<1>1. CASE Wipes(m)
  BY <1>1, NoRowBy DEF ResetFor, RowsAgree
<1>2. CASE ~Wipes(m)
  BY <1>2 DEF ResetFor, RowsAgree, Wipes
<1> QED
  BY <1>1, <1>2

\* A wiped cache agrees with any model.
LEMMA WipedAgrees ==
  ASSUME NEW m \in Model, ResetFor(m), Wipes(m) PROVE RowsAgree' /\ stamp' = NoModel
BY NoRowBy DEF ResetFor, RowsAgree

LEMMA ReusedAgrees ==
  ASSUME Typed, NEW v \in Vault, NEW n \in Note, build.stage = "reading",
         By(build.notes[n].vectors, slot), SavedAgree
  PROVE  By(Reused(v, n), slot)
<1>1. \A s \in saved[v] : s.vector.as = s.under /\ s.vector.by = s.under
  BY DEF SavedAgree, By
<1>2. \A x \in {s.vector : s \in saved[v]} : x.as = x.by
  BY <1>1
<1> QED
  BY <1>2 DEF Reused, Kept, By

LEMMA FlushedAgrees ==
  ASSUME Typed, SavedAgree, By(build.unsaved, build.under), build.stage # "none"
  PROVE  \A v \in Vault : \A s \in Flushed[v] : By({s.vector}, s.under)
<1> SUFFICES ASSUME NEW v \in Vault, NEW s \in Flushed[v] PROVE By({s.vector}, s.under)
  OBVIOUS
<1>1. saved \in [Vault -> SUBSET Saved] /\ build.vault \in Vault
  BY DEF Typed, TypeOK, Build
<1>2. CASE s \in saved[v]
  BY <1>2 DEF SavedAgree
<1>3. CASE s \notin saved[v]
  <2>1. PICK x \in build.unsaved : s = [vector |-> x, under |-> build.under]
    BY <1>1, <1>3 DEF Flushed
  <2> QED
    BY <2>1 DEF By
<1> QED
  BY <1>2, <1>3

LEMMA StartAgrees ==
  ASSUME Typed, Agrees, NEW w \in Vault, NEW kind \in {"structure", "search"}, Start(w, kind)
  PROVE  Agrees'
<1> SUFFICES ASSUME ~raced' PROVE RowsAgree' /\ SavedAgree' /\ BuildAgrees'
  BY DEF Agrees
<1>1. slot \in Model /\ ResetFor(slot) /\ slot' = slot /\ loading' = loading
  BY DEF Start, Typed, TypeOK
<1>2. loading \in {NoModel, slot} /\ (Wipes(slot) \/ ~raced)
  BY DEF Start
<1>3. RowsAgree' /\ stamp' \in {NoModel, slot}
  BY <1>1, <1>2, ResetAgrees, WipedAgrees DEF Agrees
<1>4. SavedAgree'
  <2> SUFFICES ASSUME NEW v \in Vault, NEW s \in saved'[v] PROVE By({s.vector}, s.under)
    BY DEF SavedAgree
  <2>1. ~Wipes(slot) /\ s \in saved[v]
    BY DEF Start, Usable, Typed, TypeOK
  <2> QED
    BY <1>2, <2>1 DEF Agrees, SavedAgree
<1>5. /\ build'.stage = "reading" /\ build'.under = slot /\ build'.unsaved = {}
      /\ build'.notes = IF kind = "search" THEN Seed(w) ELSE NoRow.notes
  BY DEF Start, NoBuild
<1>6. ASSUME NEW n \in Note PROVE By(build'.notes[n].vectors, slot)
  <2>1. CASE kind = "search" /\ row'[w].kind = "search"
    <3>1. row' \in [Vault -> VaultRow]
      BY <1>1, ResetType DEF Typed
    <3>2. row'[w].notes[n].vectors \in SUBSET Vector
      BY <3>1 DEF VaultRow, NoteRow
    <3>3. By(row'[w].notes[n].vectors, stamp')
      BY <1>3 DEF RowsAgree
    <3>4. stamp' = NoModel => row'[w].notes[n].vectors = {}
      BY <3>2, <3>3, UnstampedIsEmpty
    <3>5. By(row'[w].notes[n].vectors, slot)
      BY <1>3, <3>3, <3>4 DEF By
    <3> QED
      BY <1>5, <2>1, <3>5 DEF Seed
  <2>2. CASE ~(kind = "search" /\ row'[w].kind = "search")
    BY <1>5, <2>2, NoRowBy DEF Seed
  <2> QED
    BY <2>1, <2>2
<1>7. By(build'.unsaved, slot)
  BY <1>5 DEF By
<1> QED
  BY <1>1, <1>2, <1>3, <1>4, <1>5, <1>6, <1>7 DEF BuildAgrees

LEMMA ReadAgrees ==
  ASSUME Typed, ~raced, RowsAgree, SavedAgree, BuildAgrees, Read
  PROVE  RowsAgree' /\ SavedAgree' /\ BuildAgrees'
<1>1. build.vault \in Vault /\ build \in Build /\ saved \in [Vault -> SUBSET Saved]
  BY DEF Typed, TypeOK, Build
<1> DEFINE v == build.vault
<1>2. UNCHANGED <<disk, row, stamp, slot, loading, leaving, raced>> /\ build.stage = "reading"
  BY DEF Read
<1>3. \/ saved' = saved
      \/ \E W : saved' = [saved EXCEPT ![v] = Retain(v, W)]
  BY DEF Read
<1>4. SavedAgree'
  <2> SUFFICES ASSUME NEW w \in Vault, NEW s \in saved'[w] PROVE By({s.vector}, s.under)
    BY DEF SavedAgree
  <2>1. s \in saved[w]
    BY <1>1, <1>3 DEF Retain
  <2> QED
    BY <2>1 DEF SavedAgree
<1> DEFINE present == {n \in Note : disk[v][n] # 0}
           todo(U, P) == IF build.kind = "structure" THEN {}
                         ELSE {n \in {k \in present \ (U \cup P) : ~Unchanged(v, k)} :
                                 Reused(v, n) = {}}
<1>5. PICK U \in SUBSET present, P \in SUBSET present :
        build' = [build EXCEPT !.stage = "embedding", !.as = slot,
                  !.notes = [n \in Note |-> ReadNote(v, n, U, P)], !.todo = todo(U, P)]
  BY DEF Read
<1>6. /\ build'.stage = "embedding" /\ build'.as = slot /\ build'.under = build.under
      /\ build'.unsaved = build.unsaved
      /\ build'.notes = [n \in Note |-> ReadNote(v, n, U, P)]
  BY <1>1, <1>5 DEF Build
<1>7. ASSUME NEW n \in Note PROVE By(ReadNote(v, n, U, P).vectors, slot)
  <2>1. By(build.notes[n].vectors, slot)
    BY <1>2 DEF BuildAgrees
  <2>2. By(Reused(v, n), slot)
    BY <1>1, <1>2, <2>1, ReusedAgrees
  <2>3. \/ ReadNote(v, n, U, P).vectors = {}
        \/ ReadNote(v, n, U, P).vectors = build.notes[n].vectors
        \/ ReadNote(v, n, U, P).vectors = Reused(v, n)
    <3>1. NoNote.vectors = {} /\ Invalid(disk[v][n]).vectors = {}
      BY DEF NoNote, Invalid
    <3> QED
      BY <3>1 DEF ReadNote
  <2> QED
    BY <2>1, <2>2, <2>3 DEF By
<1>8. \A n \in Note : By(build'.notes[n].vectors, slot)
  BY <1>6, <1>7
<1>9. RowsAgree'
  BY <1>2 DEF RowsAgree
<1> QED
  BY <1>2, <1>4, <1>6, <1>8, <1>9 DEF BuildAgrees

LEMMA StepAgrees == Typed /\ Agrees /\ [Next]_vars => Agrees'
<1> SUFFICES ASSUME Typed, Agrees, [Next]_vars, ~raced'
             PROVE  RowsAgree' /\ SavedAgree' /\ BuildAgrees'
  BY DEF Agrees
<1> DEFINE Goal == RowsAgree' /\ SavedAgree' /\ BuildAgrees'
<1>c. build \in Build /\ row \in [Vault -> VaultRow] /\ saved \in [Vault -> SUBSET Saved]
  BY DEF Typed, TypeOK
<1>1. ASSUME NEW w \in Vault, NEW n \in Note, Edit(w, n) PROVE Goal
  BY <1>1 DEF Edit, cache, Agrees, RowsAgree, SavedAgree, BuildAgrees
<1>2. ASSUME NEW m \in Model, Load(m) PROVE Goal
  <2>1. RowsAgree'
    BY <1>2, ResetAgrees, WipedAgrees DEF Load, Agrees
  <2>2. SavedAgree'
    <3>1. CASE Wipes(m)
      BY <1>2, <3>1 DEF Load, SavedAgree
    <3>2. CASE ~Wipes(m)
      BY <1>2, <3>2 DEF Load, SavedAgree, Agrees
    <3> QED
      BY <3>1, <3>2
  <2> QED
    BY <1>2, <2>1, <2>2 DEF Load, Prepares, Idle, BuildAgrees
<1>3. CASE Install
  <2>1. build.stage # "none" => slot' = slot
    BY <1>3 DEF Install, Agrees, BuildAgrees
  <2> QED
    BY <1>3, <2>1 DEF Install, cache, Agrees, RowsAgree, SavedAgree, BuildAgrees
<1>4. ASSUME NEW w \in Vault, NEW kind \in {"structure", "search"}, Start(w, kind) PROVE Goal
  BY <1>4, StartAgrees DEF Agrees
<1>5. CASE Read
  BY <1>5, ReadAgrees DEF Read, Agrees
<1>6. ASSUME NEW n \in Note, Embed(n) PROVE Goal
  <2> DEFINE x == [of |-> build.notes[n].text, as |-> build.as, by |-> slot]
  <2>0. UNCHANGED <<row, saved, stamp, slot, loading, raced>>
    BY <1>6 DEF Embed, cache
  <2>1. build' = [build EXCEPT
          !.notes[n].vectors = {x}, !.todo = @ \ {n}, !.began = TRUE,
          !.unsaved = {y \in @ : ~SameInput(x, y)} \cup {x}]
    BY <1>6 DEF Embed
  <2>2. BuildAgrees /\ build.stage = "embedding" /\ ~raced
    BY <1>6, <2>0 DEF Embed, Agrees
  <2>3. By({x}, slot)
    BY <2>2 DEF BuildAgrees, By
  <2> HIDE DEF x
  <2>4. build.notes \in [Note -> NoteRow]
    BY <1>c DEF Build
  <2>5. /\ build'.stage = "embedding" /\ build'.under = build.under /\ build'.as = build.as
        /\ build'.unsaved = {y \in build.unsaved : ~SameInput(x, y)} \cup {x}
        /\ build'.notes = [build.notes EXCEPT ![n].vectors = {x}]
    BY <1>c, <2>1, <2>2 DEF Build
  <2>6. ASSUME NEW k \in Note PROVE By(build'.notes[k].vectors, slot)
    <3>1. build'.notes[k].vectors = IF k = n THEN {x} ELSE build.notes[k].vectors
      BY <2>4, <2>5 DEF NoteRow
    <3>2. By(build.notes[k].vectors, slot)
      BY <2>2 DEF BuildAgrees
    <3> QED
      BY <2>3, <3>1, <3>2
  <2>7. By(build'.unsaved, slot)
    BY <2>2, <2>3, <2>5 DEF BuildAgrees, By
  <2> QED
    BY <2>0, <2>2, <2>5, <2>6, <2>7 DEF Agrees, RowsAgree, SavedAgree, BuildAgrees
<1>7. ASSUME NEW n \in Note, EmbedFails(n) PROVE Goal
  <2>0. UNCHANGED <<row, saved, stamp, slot, loading, raced>>
    BY <1>7 DEF EmbedFails, cache
  <2>1. BuildAgrees /\ build.stage = "embedding" /\ ~raced
    BY <1>7, <2>0 DEF EmbedFails, Agrees
  <2>2. /\ build'.stage = "embedding" /\ build'.under = build.under /\ build'.as = build.as
        /\ build'.unsaved = build.unsaved
        /\ build'.notes = [build.notes EXCEPT ![n] = Invalid(build.notes[n].text)]
    BY <1>7, <1>c, <2>1 DEF EmbedFails, Build
  <2>3. Invalid(build.notes[n].text).vectors = {}
    BY DEF Invalid
  <2>4. ASSUME NEW k \in Note PROVE By(build'.notes[k].vectors, slot)
    BY <1>c, <2>1, <2>2, <2>3 DEF BuildAgrees, Build, By
  <2> QED
    BY <2>0, <2>1, <2>2, <2>4 DEF Agrees, RowsAgree, SavedAgree, BuildAgrees
<1>8. CASE SaveProgress
  <2>1. BuildAgrees /\ SavedAgree /\ build.stage = "embedding" /\ By(build.unsaved, build.under)
    BY <1>8 DEF SaveProgress, Agrees, BuildAgrees
  <2>2. SavedAgree'
    BY <1>8, <2>1, FlushedAgrees DEF SaveProgress, SavedAgree
  <2>3. /\ build'.stage = "embedding" /\ build'.under = build.under /\ build'.as = build.as
        /\ build'.unsaved = {} /\ build'.notes = build.notes
    BY <1>8, <1>c, <2>1 DEF SaveProgress, Build
  <2>4. By({}, slot)
    BY DEF By
  <2> QED
    BY <1>8, <2>1, <2>2, <2>3, <2>4 DEF SaveProgress, Agrees, RowsAgree, BuildAgrees
<1>9. CASE Pause
  <2>1. SavedAgree /\ build.stage # "none" /\ By(build.unsaved, build.under)
    BY <1>9 DEF Pause, Agrees, BuildAgrees
  <2>2. SavedAgree'
    BY <1>9, <2>1, FlushedAgrees DEF Pause, Dropped, SavedAgree
  <2> QED
    BY <1>9, <2>2, NoBuildType DEF Pause, Agrees, RowsAgree, BuildAgrees
<1>10. CASE Fail
  <2>1. SavedAgree /\ build.stage # "none" /\ By(build.unsaved, build.under)
    BY <1>10 DEF Fail, Agrees, BuildAgrees
  <2>2. SavedAgree'
    BY <1>10, <2>1, FlushedAgrees DEF Fail, Dropped, SavedAgree
  <2> QED
    BY <1>10, <2>2, NoBuildType DEF Fail, Agrees, RowsAgree, BuildAgrees
<1>11. CASE Finish
  <2>1. BuildAgrees /\ SavedAgree /\ build.stage = "embedding" /\ By(build.unsaved, build.under)
    BY <1>11 DEF Finish, Agrees, BuildAgrees
  <2>2. SavedAgree'
    BY <1>11, <2>1, FlushedAgrees DEF Finish, Dropped, SavedAgree
  <2>3. /\ build'.stage = "built" /\ build'.under = build.under /\ build'.as = build.as
        /\ build'.unsaved = {} /\ build'.notes = build.notes
    BY <1>11, <1>c DEF Finish, Build
  <2>4. By({}, slot)
    BY DEF By
  <2> QED
    BY <1>11, <2>1, <2>2, <2>3, <2>4 DEF Finish, Agrees, RowsAgree, BuildAgrees
<1>12. CASE Publish
  <2>0. UNCHANGED <<slot, loading, raced>> /\ build' = NoBuild
    BY <1>12 DEF Publish
  <2>1. RowsAgree /\ SavedAgree /\ BuildAgrees /\ build.stage = "built"
    BY <1>12, <2>0 DEF Publish, Agrees
  <2>2. CASE ~build.newest
    BY <1>12, <2>0, <2>1, <2>2, NoBuildType
       DEF Publish, cache, RowsAgree, SavedAgree, BuildAgrees
  <2>3. CASE build.newest
    <3>1. /\ row' = [row EXCEPT ![build.vault] = [kind |-> build.kind, notes |-> build.notes]]
          /\ stamp' = slot
          /\ saved' = saved \/ saved' = [saved EXCEPT ![build.vault] = {}]
      BY <1>12, <2>3 DEF Publish
    <3>2. ASSUME NEW v \in Vault, NEW n \in Note PROVE By(row'[v].notes[n].vectors, slot)
      <4>1. CASE v = build.vault
        <5>1. row'[v].notes = build.notes
          BY <1>c, <3>1, <4>1
        <5> QED
          BY <2>1, <5>1 DEF BuildAgrees
      <4>2. CASE v # build.vault
        <5>1. row'[v] = row[v] /\ row[v].notes[n].vectors \in SUBSET Vector
          BY <1>c, <3>1, <4>2 DEF VaultRow, NoteRow
        <5>2. By(row[v].notes[n].vectors, stamp) /\ stamp \in {NoModel, slot}
          BY <2>1 DEF RowsAgree, BuildAgrees
        <5>3. stamp = NoModel => row[v].notes[n].vectors = {}
          BY <5>1, <5>2, UnstampedIsEmpty
        <5> QED
          BY <5>1, <5>2, <5>3 DEF By
      <4> QED
        BY <4>1, <4>2
    <3>3. RowsAgree'
      BY <3>1, <3>2 DEF RowsAgree
    <3>4. SavedAgree'
      BY <1>c, <2>1, <3>1 DEF SavedAgree
    <3> QED
      BY <2>0, <3>3, <3>4, NoBuildType DEF BuildAgrees
  <2> QED
    BY <2>2, <2>3
<1>13. CASE Kill
  BY <1>13, NoBuildType DEF Kill, cache, Agrees, RowsAgree, SavedAgree, BuildAgrees
<1>14. ASSUME NEW w \in Vault, Disconnect(w) PROVE Goal
  <2>1. /\ build'.stage = build.stage /\ build'.under = build.under /\ build'.as = build.as
        /\ build'.unsaved = build.unsaved /\ build'.notes = build.notes
    BY <1>14, <1>c DEF Disconnect, Build
  <2> QED
    BY <1>14, <2>1 DEF Disconnect, cache, Agrees, RowsAgree, SavedAgree, BuildAgrees
<1>15. ASSUME NEW w \in Vault, DeleteRows(w) PROVE Goal
  <2>1. /\ row' = [row EXCEPT ![w] = NoRow] /\ saved' = [saved EXCEPT ![w] = {}]
        /\ UNCHANGED <<stamp, slot, loading, build, raced>>
    BY <1>15 DEF DeleteRows
  <2>2. RowsAgree'
    BY <1>c, <2>1, NoRowBy DEF Agrees, RowsAgree
  <2>3. SavedAgree'
    BY <1>c, <2>1 DEF Agrees, SavedAgree
  <2> QED
    BY <2>1, <2>2, <2>3 DEF Agrees, BuildAgrees
<1>16. CASE UNCHANGED vars
  BY <1>16 DEF vars, cache, Agrees, RowsAgree, SavedAgree, BuildAgrees
<1>17. ASSUME NEW m \in Model, LoadUnprepared(m) PROVE Goal
  BY <1>17 DEF LoadUnprepared, cache, Prepares, Idle, Agrees, RowsAgree, SavedAgree, BuildAgrees
<1> QED
  BY <1>1, <1>2, <1>3, <1>4, <1>5, <1>6, <1>7, <1>8, <1>9, <1>10, <1>11, <1>12, <1>13, <1>14,
     <1>15, <1>16, <1>17 DEF Next, BuildStep

-----------------------------------------------------------------------------
(* The theorems.                                                           *)

LEMMA Inductive == Spec => [](Typed /\ Agrees /\ Fenced /\ Whole)
<1> DEFINE IInv == Typed /\ Agrees /\ Fenced /\ Whole
<1>1. Init => IInv
  <2> SUFFICES ASSUME Init PROVE IInv
    OBVIOUS
  <2>1. Typed
    BY InitTyped
  <2>2. \A v \in Vault : row[v] = NoRow /\ saved[v] = {} /\ leaving[v] = "no"
    BY DEF Init
  <2>3. build.stage = "none"
    BY NoBuildType DEF Init
  <2>4. Agrees
    BY <2>2, <2>3, NoRowBy DEF Agrees, RowsAgree, SavedAgree, BuildAgrees
  <2>5. Fenced
    BY <2>2, <2>3 DEF Fenced, RemovedLeavesNothing, Superseded
  <2>6. Whole
    BY <2>2, <2>3, NoRowWhole DEF Whole, RowsWhole, BuildWhole
  <2> QED
    BY <2>1, <2>4, <2>5, <2>6
<1>2. IInv /\ [Next]_vars => IInv'
  BY StepTyped, StepAgrees, StepFenced, StepWhole
<1> QED
  BY <1>1, <1>2, PTL DEF Spec

\* Whatever model replaces which, and however builds are interrupted, every vector a
\* search reads was computed by the model the shared cache is stamped with, unless a
\* build took the epoch between prepare_for_embedder and the change of the slot.
THEOREM OneSpaceOfVectors == Spec => []OneVectorSpace
<1>1. Typed /\ Agrees => OneVectorSpace
  BY DEF Typed, Agrees, OneVectorSpace, RowsAgree, SavedAgree
<1> QED
  BY <1>1, Inductive, PTL

\* disconnect_vault_snapshot and attempt_is_current: nothing of a disconnected Vault
\* comes back from a build that began before, however many builds there are.
THEOREM NothingOfTheRemoved == Spec => []RemovedLeavesNothing
<1>1. Fenced => RemovedLeavesNothing
  BY DEF Fenced
<1> QED
  BY <1>1, Inductive, PTL

\* publish_vault_candidate after any sequence of builds: a row has no vector of other
\* text, and a searchable row lacks one only for a note the next build writes again.
THEOREM WholeOrWrittenAgain == Spec => []SearchableIsComplete
<1>1. Whole => SearchableIsComplete
  BY DEF Whole, RowsWhole, NoteWhole, SearchableIsComplete
<1> QED
  BY <1>1, Inductive, PTL
=============================================================================

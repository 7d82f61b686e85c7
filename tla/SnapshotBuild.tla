----------------------------- MODULE SnapshotBuild -----------------------------
(***************************************************************************)
(* The shared cache of every Vault's search index, in                      *)
(* src/src/cache/vault_snapshots.rs and populate.rs: one build at a time   *)
(* reads a Vault, embeds what it cannot reuse, saves its progress and      *)
(* publishes, while the search model is replaced, a Vault is disconnected, *)
(* another Vault makes the build pause, and the process is killed.         *)
(*                                                                         *)
(* A note is one chunk, its content a number.  Builds are serial           *)
(* (snapshot_model_epoch).  Freshness and participation are in             *)
(* IndexPublication; layers and their policy are left out.                 *)
(***************************************************************************)
EXTENDS Naturals

CONSTANTS
  Vault, Note,
  Model,    \* the search models
  NoModel,  \* PENDING_IDENTITY, and the stamp of a cache nobody stamped
  MaxText,  \* the contents a note can have
  Markdown, \* what each Vault's notes hold at first; 0 is no note
  MaxMishap \* bound on edits, replaced models, failures, disconnections and kills together

ASSUME SnapshotAssumption ==
  /\ NoModel \notin Model /\ Vault # {}
  /\ MaxText \in Nat /\ MaxMishap \in Nat
  /\ Markdown \in [Vault -> [Note -> 0 .. MaxText]]

VARIABLES
  disk,     \* what each Vault's notes hold
  row,      \* vault_snapshots with the notes, chunks and vectors of a Vault
  saved,    \* vault_embedding_progress
  stamp,    \* metadata embedder_id
  slot,     \* RuntimeEmbedder
  loading,  \* the model prepare_for_embedder has run for and that is not in the slot yet
  build,    \* the build that holds the epoch
  leaving,  \* how far disconnect_vault_snapshot is
  mishaps,  \* edits, replaced models, failures, disconnections and kills so far
  raced     \* history: a build began between prepare_for_embedder and the slot's change

cache == <<row, saved, stamp>>
vars == <<disk, cache, slot, loading, build, leaving, mishaps, raced>>

Text == 1 .. MaxText
\* A vector: the content embedded, the model whose document format its reuse hash
\* is made with, and the model that computed it.
Vector == [of : Text, as : Model, by : Model]
\* A note's row; without its content hash it is written again whatever it holds.
NoteRow == [text : 0 .. MaxText, hashed : BOOLEAN, vectors : SUBSET Vector]
NoNote == [text |-> 0, hashed |-> FALSE, vectors |-> {}]
VaultRow == [kind : {"none", "structure", "search"}, notes : [Note -> NoteRow]]
NoRow == [kind |-> "none", notes |-> [n \in Note |-> NoNote]]
\* Saved under the model the build opened the store with.
Saved == [vector : Vector, under : Model]
Build ==
  [stage : {"none", "reading", "embedding", "built"}, vault : Vault,
   kind : {"none", "structure", "search"}, newest : BOOLEAN,
   under : Model \cup {NoModel}, as : Model \cup {NoModel},
   notes : [Note -> NoteRow], todo : SUBSET Note, unsaved : SUBSET Vector, began : BOOLEAN]
NoBuild ==
  [stage |-> "none", vault |-> CHOOSE v \in Vault : TRUE, kind |-> "none",
   newest |-> FALSE, under |-> NoModel, as |-> NoModel, notes |-> NoRow.notes,
   todo |-> {}, unsaved |-> {}, began |-> FALSE]

Idle == build.stage = "none"

Init ==
  /\ disk = Markdown
  /\ row = [v \in Vault |-> NoRow]
  /\ saved = [v \in Vault |-> {}]
  /\ stamp = NoModel /\ slot = NoModel /\ loading = NoModel
  /\ build = NoBuild
  /\ leaving = [v \in Vault |-> "no"]
  /\ mishaps = 0
  /\ raced = FALSE

Mishap == mishaps < MaxMishap /\ mishaps' = mishaps + 1

\* Anybody may edit, add or delete a note.
Edit(v, n) ==
  /\ Mishap
  /\ \E t \in 0 .. MaxText : t # disk[v][n] /\ disk' = [disk EXCEPT ![v][n] = t]
  /\ UNCHANGED <<cache, slot, loading, build, leaving, raced>>

-----------------------------------------------------------------------------
(* The search model.                                                       *)

\* reset_if_embedder_changed: a cache stamped by another model is wiped.
Wipes(m) == stamp \notin {NoModel, m}
ResetFor(m) ==
  /\ row' = IF Wipes(m) THEN [v \in Vault |-> NoRow] ELSE row
  /\ stamp' = IF Wipes(m) THEN NoModel ELSE stamp

\* prepare_for_embedder waits for the epoch.  Mutant: it does not.
MutPrepares == TRUE
Prepares == Idle

\* The first model of a process is loaded; a later one replaces it.
Load(m) ==
  /\ loading = NoModel /\ Prepares
  /\ IF slot = NoModel THEN UNCHANGED mishaps ELSE Mishap
  /\ ResetFor(m)
  /\ saved' = IF Wipes(m) THEN [v \in Vault |-> {}] ELSE saved
  /\ raced' = (raced /\ ~Wipes(m))
  /\ loading' = m
  /\ UNCHANGED <<disk, slot, build, leaving>>

\* A cache that cannot be prepared is a warning: the next build resets it.
LoadUnprepared(m) ==
  /\ loading = NoModel /\ Prepares /\ Mishap
  /\ loading' = m
  /\ UNCHANGED <<disk, cache, slot, build, leaving, raced>>

\* RuntimeEmbedder::set, after the epoch was released.
Install ==
  /\ loading # NoModel
  /\ slot' = loading /\ loading' = NoModel
  /\ UNCHANGED <<disk, cache, build, leaving, mishaps, raced>>

-----------------------------------------------------------------------------
(* A build: replace_vault_snapshot_with_embed_layers_and_progress for      *)
(* "search", publish_vault_structure_snapshot for "structure".             *)

\* SavedEmbeddings::open discards what another model saved, of any Vault.
Usable(S) == {s \in S : s.under = slot}

\* seed_candidate_from_snapshot: only a searchable row has vectors to reuse.
\* Mutant: whatever row there is.
MutSeed(v) == row'[v].notes
Seed(v) == IF row'[v].kind = "search" THEN row'[v].notes ELSE NoRow.notes

\* A build takes the epoch, resets the cache, begins an attempt, opens the saved
\* progress and seeds its candidate.
Start(v, kind) ==
  /\ Idle /\ slot # NoModel
  /\ ResetFor(slot)
  /\ kind = "structure" => row'[v].kind # "search"
  /\ LET kept == IF Wipes(slot) THEN [w \in Vault |-> {}] ELSE saved
     IN saved' = IF kind = "search" THEN [w \in Vault |-> Usable(kept[w])] ELSE kept
  /\ build' = [NoBuild EXCEPT
       !.stage = "reading", !.vault = v, !.kind = kind, !.newest = TRUE, !.under = slot,
       !.notes = IF kind = "search" THEN Seed(v) ELSE NoRow.notes]
  /\ leaving' = [leaving EXCEPT ![v] =
       CASE @ = "begun" -> "overtaken" [] @ = "gone" -> "back" [] OTHER -> @]
  /\ raced' = ((raced /\ ~Wipes(slot)) \/ loading \notin {NoModel, slot})
  /\ UNCHANGED <<disk, slot, loading, mishaps>>

Kept(x, text) == x.of = text /\ x.as = slot

\* The vectors a written note starts with: those of its own row, or of saved
\* progress.
Reused(v, n) ==
  LET own == {x \in build.notes[n].vectors : Kept(x, disk[v][n])}
      found == {x \in {s.vector : s \in saved[v]} : Kept(x, disk[v][n])}
  IN IF build.kind = "structure" THEN {} ELSE IF own # {} THEN own ELSE found

\* upsert_note_if_changed.
Unchanged(v, n) == build.notes[n].hashed /\ build.notes[n].text = disk[v][n]

\* invalidate_note_content_hash: the next build writes the note again.
Invalid(text) == [text |-> text, hashed |-> FALSE, vectors |-> {}]

\* A note that cannot be read keeps the row it has; a written one keeps its old
\* vectors until it is embedded.
ReadNote(v, n, unreadable, unprepared) ==
  IF disk[v][n] = 0 THEN NoNote
  ELSE IF n \in unreadable \/ Unchanged(v, n) THEN build.notes[n]
  ELSE IF n \in unprepared THEN Invalid(disk[v][n])
  ELSE [text |-> disk[v][n], hashed |-> TRUE,
        vectors |-> IF Reused(v, n) = {} THEN build.notes[n].vectors ELSE Reused(v, n)]

\* SavedEmbeddings::retain: every note was read and prepared, so what no written
\* note wants is of content that is gone.
Retain(v, written) ==
  {s \in saved[v] : \E n \in written : Kept(s.vector, disk[v][n])}

\* Every note is read under the write exclusion.
Read ==
  /\ build.stage = "reading"
  /\ LET v == build.vault
         present == {n \in Note : disk[v][n] # 0}
     IN \E unreadable \in SUBSET present : \E unprepared \in SUBSET (present \ unreadable) :
          LET written == {n \in present \ (unreadable \cup unprepared) : ~Unchanged(v, n)}
              failing == unreadable \cup unprepared # {}
          IN /\ IF failing THEN Mishap ELSE UNCHANGED mishaps
             /\ unprepared \cap {n \in Note : Unchanged(v, n)} = {}
             /\ present # {} => unreadable # present
             /\ build' = [build EXCEPT
                  !.stage = "embedding", !.as = slot,
                  !.notes = [n \in Note |-> ReadNote(v, n, unreadable, unprepared)],
                  !.todo = IF build.kind = "structure" THEN {}
                           ELSE {n \in written : Reused(v, n) = {}}]
             /\ saved' = IF failing \/ build.kind = "structure" THEN saved
                         ELSE [saved EXCEPT ![v] = Retain(v, written)]
  /\ UNCHANGED <<disk, row, stamp, slot, loading, leaving, raced>>

SameInput(x, y) == x.of = y.of /\ x.as = y.as

\* One chunk is embedded by the model in the slot now, and remembered.
Embed(n) ==
  /\ build.stage = "embedding" /\ n \in build.todo
  /\ LET x == [of |-> build.notes[n].text, as |-> build.as, by |-> slot]
     IN build' = [build EXCEPT
          !.notes[n].vectors = {x}, !.todo = @ \ {n}, !.began = TRUE,
          !.unsaved = {y \in @ : ~SameInput(x, y)} \cup {x}]
  /\ UNCHANGED <<disk, cache, slot, loading, leaving, mishaps, raced>>

\* A note that cannot be embedded is invalidated, and the build goes on.
EmbedFails(n) ==
  /\ build.stage = "embedding" /\ n \in build.todo
  /\ Mishap
  /\ build' = [build EXCEPT !.notes[n] = Invalid(@.text), !.todo = @ \ {n}]
  /\ UNCHANGED <<disk, cache, slot, loading, leaving, raced>>

\* SavedEmbeddings::save, unless a newer attempt superseded the build's.
\* Mutants: it does not ask; it is not called as a build ends.
MutMaySave == TRUE
MaySave == build.newest
Flushed ==
  LET new == build.unsaved
      older == {s \in saved[build.vault] : \A x \in new : ~SameInput(s.vector, x)}
  IN IF MaySave
     THEN [saved EXCEPT ![build.vault] =
            older \cup {[vector |-> x, under |-> build.under] : x \in new}]
     ELSE saved
MutDropped == saved
Dropped == Flushed

\* The save interval has passed.
SaveProgress ==
  /\ build.stage = "embedding" /\ build.unsaved # {}
  /\ saved' = Flushed
  /\ build' = [build EXCEPT !.unsaved = {}]
  /\ UNCHANGED <<disk, row, stamp, slot, loading, leaving, mishaps, raced>>

\* IndexYield::should_stop, asked before each chunk but the first.
Pause ==
  /\ build.stage = "embedding" /\ build.began /\ build.todo # {}
  /\ saved' = Dropped
  /\ build' = NoBuild
  /\ UNCHANGED <<disk, row, stamp, slot, loading, leaving, mishaps, raced>>

\* Whatever else ends a build: the database, the candidate, every note unreadable.
Fail ==
  /\ build.stage \in {"reading", "embedding", "built"}
  /\ Mishap
  /\ saved' = Dropped
  /\ build' = NoBuild
  /\ UNCHANGED <<disk, row, stamp, slot, loading, leaving, raced>>

\* The candidate is committed, and the saved progress goes out of scope.
Finish ==
  /\ build.stage = "embedding" /\ build.todo = {}
  /\ saved' = Dropped
  /\ build' = [build EXCEPT !.stage = "built", !.unsaved = {}]
  /\ UNCHANGED <<disk, row, stamp, slot, loading, leaving, mishaps, raced>>

\* publish_vault_candidate, stamped with the model in the slot now.
Publish ==
  /\ build.stage = "built"
  /\ IF build.newest
     THEN /\ row' = [row EXCEPT ![build.vault] =
                      [kind |-> build.kind, notes |-> build.notes]]
          /\ saved' = IF build.kind = "search" THEN [saved EXCEPT ![build.vault] = {}]
                      ELSE saved
          /\ stamp' = slot
     ELSE UNCHANGED cache
  /\ build' = NoBuild
  /\ UNCHANGED <<disk, slot, loading, leaving, mishaps, raced>>

-----------------------------------------------------------------------------
(* What else may happen.                                                   *)

\* disconnect_vault_snapshot begins an attempt, then deletes in one transaction.
\* The lifecycle's boundary, which keeps new builds out, is in CollectionLifecycle.
Disconnect(v) ==
  /\ leaving[v] = "no"
  /\ Mishap
  /\ leaving' = [leaving EXCEPT ![v] = "begun"]
  /\ build' = IF build.vault = v THEN [build EXCEPT !.newest = FALSE] ELSE build
  /\ UNCHANGED <<disk, cache, slot, loading, raced>>

DeleteRows(v) ==
  /\ leaving[v] \in {"begun", "overtaken"}
  /\ leaving' = [leaving EXCEPT ![v] = IF @ = "begun" THEN "gone" ELSE "back"]
  /\ row' = [row EXCEPT ![v] = NoRow]
  /\ saved' = [saved EXCEPT ![v] = {}]
  /\ UNCHANGED <<disk, stamp, slot, loading, build, mishaps, raced>>

\* The process is killed: nothing is dropped, and the cache is what it was.
Kill ==
  /\ slot # NoModel
  /\ Mishap
  /\ slot' = NoModel /\ loading' = NoModel /\ build' = NoBuild
  /\ UNCHANGED <<disk, cache, leaving, raced>>

BuildStep ==
  \/ Read \/ \E n \in Note : Embed(n) \/ EmbedFails(n)
  \/ SaveProgress \/ Finish \/ Publish
Next ==
  \/ \E v \in Vault, n \in Note : Edit(v, n)
  \/ \E m \in Model : Load(m) \/ LoadUnprepared(m)
  \/ Install
  \/ \E v \in Vault, kind \in {"structure", "search"} : Start(v, kind)
  \/ BuildStep \/ Pause \/ Fail \/ Kill
  \/ \E v \in Vault : Disconnect(v) \/ DeleteRows(v)
Spec == Init /\ [][Next]_vars

\* The process goes on, a model is loaded, and a Vault whose index is owed gets its
\* turn: a paused Vault is put back, a failed turn is retried, a new process and a
\* new model ask for every Vault (VaultWork!EveryTurnRuns).  Pauses may never end.
Owed(v) == leaving[v] = "no" /\ row[v].kind # "search"
Fairness ==
  /\ WF_vars(BuildStep) /\ WF_vars(Install)
  /\ WF_vars(slot = NoModel /\ \E m \in Model : Load(m))
  /\ \A v \in Vault : SF_vars(Owed(v) /\ Start(v, "search"))
FairSpec == Spec /\ Fairness

-----------------------------------------------------------------------------
TypeOK ==
  /\ disk \in [Vault -> [Note -> 0 .. MaxText]]
  /\ row \in [Vault -> VaultRow]
  /\ saved \in [Vault -> SUBSET Saved]
  /\ stamp \in Model \cup {NoModel} /\ slot \in Model \cup {NoModel}
  /\ loading \in Model \cup {NoModel}
  /\ build \in Build
  /\ leaving \in [Vault -> {"no", "begun", "overtaken", "gone", "back"}]
  /\ mishaps \in 0 .. MaxMishap /\ raced \in BOOLEAN

By(vectors, m) == \A x \in vectors : x.as = m /\ x.by = m

\* Every vector a search reads was computed by the model the cache is stamped with,
\* and every saved one by the model it is saved under, across Vaults, replaced
\* models, interrupted builds and kills.  The one way round it is a build that takes
\* the epoch in between prepare_for_embedder and the change of the slot.
OneVectorSpace ==
  /\ TypeOK
  /\ ~raced =>
       /\ \A v \in Vault, n \in Note : By(row[v].notes[n].vectors, stamp)
       /\ \A v \in Vault : \A s \in saved[v] : By({s.vector}, s.under)

\* A disconnected Vault leaves nothing behind, and no build that began before writes
\* its progress or its row back, however it ends.
RemovedLeavesNothing ==
  \A v \in Vault : leaving[v] = "gone" => row[v] = NoRow /\ saved[v] = {}

\* A row never pairs a note with the vectors of a text it no longer has, and a
\* searchable one has the vectors of every note that the next build takes for
\* unchanged: no failure, pause, or structure-only row leaves a note without for good.
SearchableIsComplete ==
  \A v \in Vault, n \in Note :
    LET note == row[v].notes[n]
    IN /\ \A x \in note.vectors : x.of = note.text
       /\ row[v].kind = "search" /\ note.hashed => note.vectors # {}

\* A Vault becomes searchable though every build of it may be paused for another
\* Vault as soon as it has embedded one chunk: each saves what it embedded.
EventuallySearchable ==
  <>[](\A v \in Vault : leaving[v] = "no" => row[v].kind = "search")
=============================================================================

------------------------------ MODULE NoteWrites ------------------------------
(***************************************************************************)
(* How a Vault's files change on disk (src/src/vault/write): notes written *)
(* on the condition of a content hash, created, replaced and moved, and a  *)
(* rename, a delete or a tag edit that rewrites several notes and undoes   *)
(* what it did when one of them fails.  The Vault's write exclusion lets   *)
(* one operation run at a time; editors outside the server are bound by    *)
(* nothing and save, create and delete files between any two system calls. *)
(*                                                                         *)
(* A content is the sequence of a tag, which says whose text it is, and    *)
(* the operations that rewrote it.  Equal contents have equal hashes.  A   *)
(* sidecar is the private name a write parks bytes at; editors do not see  *)
(* it, and the Vault excludes it as noise.                                 *)
(***************************************************************************)
EXTENDS Naturals, Sequences, FiniteSets, SequencesExt

CONSTANTS Linking,   \* notes with links to, or a tag of, what is renamed
          MaxSaves,  \* bound on what editors save or delete
          MaxOps,    \* bound on the operations
          MaxFaults  \* bound on failing system calls and crashes

\* The note that moves and the asset that travels with it, before and after.
Note == "note"
Moved == "moved"
Asset == "asset"
MovedAsset == "moved_asset"
Path == {Note, Moved, Asset, MovedAsset} \cup Linking

ASSUME WritesAssumption ==
  /\ IsFiniteSet(Linking) /\ Linking \cap {Note, Moved, Asset, MovedAsset} = {}
  /\ MaxSaves \in Nat /\ MaxOps \in Nat /\ MaxFaults \in Nat

Missing == <<>>
Gate == << <<"gate", 0>> >>  \* the empty directory that reserves a move's destination
IsFile(c) == c # Missing /\ c # Gate

VARIABLES
  disk,      \* what each path holds
  side,      \* the sidecar of the write under way
  litter,    \* sidecars that nothing will look at again
  exchanges, \* the filesystem can exchange two names (renameat2)
  op,        \* the operation under way, or the result of the last
  planned,   \* history: what the operation is to move and to rewrite
  moved,     \* history: paths it has moved away and not moved back
  touched,   \* history: paths an editor saved or deleted since it began
  live,      \* history: texts that no editor has replaced or deleted
  late,      \* history: texts saved inside a window of the operation
  trampled,  \* history: those that it overwrote, or was asked to overwrite
  hidden,    \* history: a crash, or a recovery that was asked for
  saves, ops, faults

files == <<disk, side, litter, exchanges>>
history == <<planned, moved, touched, live, late, trampled, hidden>>
counts == <<saves, ops, faults>>
writesVars == <<files, op, history, counts>>

NoOp(result) ==
  [step |-> "none", tasks |-> <<>>, journal |-> <<>>, alone |-> FALSE,
   unwinding |-> FALSE, broken |-> FALSE, result |-> result]

WritesInit ==
  /\ disk = [p \in Path |-> IF p \in {Moved, MovedAsset} THEN Missing ELSE << <<"orig", p>> >>]
  /\ side = Missing /\ litter = {} /\ exchanges \in BOOLEAN
  /\ op = NoOp("none")
  /\ planned = [moves |-> {}, writes |-> {}] /\ moved = {}
  /\ touched = {} /\ late = {} /\ trampled = {} /\ hidden = FALSE
  /\ live = {<<"orig", p>> : p \in Path \ {Moved, MovedAsset}}
  /\ saves = 0 /\ ops = 0 /\ faults = 0

Tag(c) == IF IsFile(c) THEN {c[1]} ELSE {}
MarkedBy(c) == IF IsFile(c) THEN ToSet(Tail(c)) ELSE {}

Fault == faults < MaxFaults /\ faults' = faults + 1 /\ UNCHANGED <<saves, ops>>
NoFault == UNCHANGED counts

-----------------------------------------------------------------------------
(* Tasks, the journal and the rollback (MutationJournal).                  *)

Write(p, expect, text) ==
  [do |-> "write", from |-> p, to |-> p, expect |-> expect, text |-> text]
MoveTask(p, q, expect) ==
  [do |-> "move", from |-> p, to |-> q, expect |-> expect, text |-> Missing]
Place(do, p) ==
  [do |-> do, from |-> p, to |-> p, expect |-> Missing, text |-> << <<"new", ops + 1>> >>]

Task == Head(op.tasks)

\* A file saved at p now is overwritten: between the exchange and its undo; between
\* check and rename where names cannot be exchanged, nor an occupied one refused
\* (ADR-26); and after an import found the name free (ensure_import_target_free).
Window(p) ==
  /\ op.tasks # <<>> /\ p = Task.to
  /\ \/ op.step \in {"verify", "undo", "rename"}
     \/ Task.do = "create" /\ ~exchanges
     \/ Task.do = "import"
Late(p) == Tag(disk[p]) \cap late

\* Compensation: what undoes a task that landed.  A move is undone whatever the
\* file now holds, a rewrite only while the note holds what was written.
Undoing(t) == IF t.do = "move" THEN MoveTask(t.to, t.from, Missing)
              ELSE Write(t.to, t.text, t.expect)

Over(result) == NoOp(result)
NextTask(broken) ==
  IF Len(op.tasks) > 1
  THEN [op EXCEPT !.tasks = Tail(@), !.step = "begin", !.broken = broken]
  ELSE Over(IF broken THEN "recovery" ELSE op.result)

Succeeded ==
  IF op.unwinding THEN NextTask(op.broken)
  ELSE [op EXCEPT !.tasks = Tail(@), !.journal = Append(@, Undoing(Task)),
                  !.step = IF Len(op.tasks) > 1 THEN "begin" ELSE "finish"]

\* rollback: completed tasks are undone in reverse order, a failing one is noted
\* and the others go on.
Rollback(result, journal) ==
  IF journal = <<>> THEN Over(result)
  ELSE [op EXCEPT !.tasks = Reverse(journal), !.journal = <<>>, !.unwinding = TRUE,
                  !.step = "begin", !.result = result]

FailedTask(result) == IF op.unwinding THEN NextTask(TRUE) ELSE Rollback(result, op.journal)

\* retain_completed_move: a move that landed although a later step failed is
\* rolled back like one that succeeded.  Mutant: only a success is.
MutFailedLanded == FailedTask("refused")
FailedLanded == IF op.unwinding THEN NextTask(TRUE)
                ELSE Rollback("refused", Append(op.journal, Undoing(Task)))

\* apply_rewrites: so is a rewrite that is on disk despite its error.  A write of
\* one note has no journal.
FailedUndone == IF op.unwinding THEN NextTask(TRUE)
                ELSE Rollback("recovery", IF disk[Task.to] = Task.text /\ ~op.alone
                                          THEN Append(op.journal, Undoing(Task))
                                          ELSE op.journal)

-----------------------------------------------------------------------------
(* An operation begins: it checks, and plans from what it reads.           *)

Begin(tasks, alone) ==
  /\ op.step = "none" /\ ops < MaxOps
  /\ ops' = ops + 1 /\ UNCHANGED <<saves, faults>>
  /\ op' = [NoOp("none") EXCEPT !.tasks = tasks, !.step = "begin", !.alone = alone]
  /\ planned' = [moves |-> {t.from : t \in {u \in ToSet(tasks) : u.do = "move"}},
                 writes |-> {t.to : t \in {u \in ToSet(tasks) : u.do = "write"}}]
  /\ moved' = {} /\ touched' = {} /\ late' = {}
  /\ UNCHANGED <<files, live, trampled, hidden>>

Rewriting(p, q) == Write(q, disk[p], Append(disk[p], ops + 1))

\* The moved note is read before it moves and written after.
Rewrites(order) == [i \in DOMAIN order |->
                      Rewriting(IF order[i] = Moved THEN Note ELSE order[i], order[i])]

\* update_note and the four that edit a part: one note that a client has read.
UpdateNote(p) == IsFile(disk[p]) /\ Begin(<<Rewriting(p, p)>>, TRUE)

\* create_note and import_attachment_bytes look whether the name is free, unless the
\* caller asks to overwrite.
CreateNote(p, overwrite) ==
  /\ overwrite \/ disk[p] = Missing
  /\ Begin(<<Place(IF overwrite THEN "replace" ELSE "create", p)>>, TRUE)
ImportAttachment(p, overwrite) ==
  /\ overwrite \/ disk[p] = Missing
  /\ Begin(<<Place(IF overwrite THEN "replace" ELSE "import", p)>>, TRUE)

\* write_rewrites of tags.rs: every note that carries the tag, in order.
EditTags(order) ==
  /\ order # <<>> /\ \A i \in DOMAIN order : IsFile(disk[order[i]])
  /\ Begin(Rewrites(order), FALSE)

\* execute_note_mutation: the note, the asset that travels with it, and then the
\* notes that link to it; its links to itself are rewritten where it then is.
MoveNote(withAsset, order) ==
  /\ IsFile(disk[Note]) /\ disk[Moved] = Missing
  /\ withAsset => IsFile(disk[Asset])
  /\ \A i \in DOMAIN order : order[i] = Moved \/ IsFile(disk[order[i]])
  /\ Begin(<<MoveTask(Note, Moved, disk[Note])>>
           \o (IF withAsset THEN <<MoveTask(Asset, MovedAsset, Missing)>> ELSE <<>>)
           \o Rewrites(order), FALSE)

\* move_attachment_by_paths: the asset, and the notes that refer to it.
MoveAttachment(order) ==
  /\ IsFile(disk[Asset]) /\ disk[MovedAsset] = Missing
  /\ \A i \in DOMAIN order : IsFile(disk[order[i]])
  /\ Begin(<<MoveTask(Asset, MovedAsset, Missing)>> \o Rewrites(order), FALSE)

-----------------------------------------------------------------------------
(* A conditional write (atomic_write_inner with Commit::IfUnchanged).      *)

\* The hash its plan was built from is checked before anything is prepared; a
\* rollback goes straight to the commit.  Then the temporary file is synced.
BeginWrite ==
  /\ op.step = "begin" /\ Task.do = "write"
  /\ \/ /\ op.unwinding \/ disk[Task.to] = Task.expect
        /\ side' = Task.text
        /\ op' = [op EXCEPT !.step = "commit"]
        /\ NoFault
     \/ /\ ~op.unwinding /\ disk[Task.to] # Task.expect
        /\ op' = FailedTask("refused")
        /\ NoFault /\ UNCHANGED side
     \/ Fault /\ op' = FailedTask("refused") /\ UNCHANGED side
  /\ UNCHANGED <<disk, litter, exchanges, history>>

\* rename_exchange is the commit point.  It fails on a file that is gone, and
\* leaves the temporary behind.
Exchange ==
  /\ op.step = "commit" /\ exchanges
  /\ \/ /\ disk[Task.to] # Missing
        /\ disk' = [disk EXCEPT ![Task.to] = side]
        /\ side' = disk[Task.to]
        /\ op' = [op EXCEPT !.step = "verify"]
        /\ NoFault /\ UNCHANGED litter
     \/ /\ (disk[Task.to] = Missing /\ NoFault) \/ Fault
        /\ op' = FailedTask("refused")
        /\ litter' = litter \cup {side} /\ side' = Missing
        /\ UNCHANGED disk
  /\ UNCHANGED <<exchanges, history>>

\* What was displaced is read back.  Mutant: it is not compared.
MutUnchanged == IsFile(side)
Unchanged == side = Task.expect
Verify ==
  /\ op.step = "verify"
  /\ \/ /\ Unchanged
        /\ op' = Succeeded /\ side' = Missing
        /\ NoFault
     \/ /\ (~Unchanged /\ NoFault) \/ Fault
        /\ op' = [op EXCEPT !.step = "undo"]
        /\ UNCHANGED side
  /\ UNCHANGED <<disk, litter, exchanges, history>>

\* The names are exchanged back and the sidecar is unlinked, with whatever an
\* editor saved at the note since the commit.
UndoExchange ==
  /\ op.step = "undo"
  /\ \/ /\ disk[Task.to] # Missing
        /\ disk' = [disk EXCEPT ![Task.to] = side]
        /\ trampled' = trampled \cup Late(Task.to)
        /\ op' = FailedTask("refused")
        /\ NoFault /\ UNCHANGED <<litter, hidden>>
     \/ /\ (disk[Task.to] = Missing /\ NoFault) \/ Fault
        /\ op' = FailedUndone
        /\ litter' = litter \cup {side} /\ hidden' = TRUE
        /\ UNCHANGED <<disk, trampled>>
  /\ side' = Missing
  /\ UNCHANGED <<exchanges, planned, moved, touched, live, late>>

\* commit_checked_without_exchange: the check comes first, then the rename.
CheckFirst ==
  /\ op.step = "commit" /\ ~exchanges
  /\ \/ /\ disk[Task.to] = Task.expect
        /\ op' = [op EXCEPT !.step = "rename"]
        /\ NoFault /\ UNCHANGED side
     \/ /\ (disk[Task.to] # Task.expect /\ NoFault) \/ Fault
        /\ op' = FailedTask("refused") /\ side' = Missing
  /\ UNCHANGED <<disk, litter, exchanges, history>>

\* An editor's save in between is overwritten (ADR-26).
RenameOver ==
  /\ op.step = "rename" /\ Task.do = "write"
  /\ \/ /\ disk' = [disk EXCEPT ![Task.to] = side]
        /\ trampled' = trampled \cup Late(Task.to)
        /\ op' = Succeeded
        /\ NoFault
     \/ Fault /\ op' = FailedTask("refused") /\ UNCHANGED <<disk, trampled>>
  /\ side' = Missing
  /\ UNCHANGED <<litter, exchanges, planned, moved, touched, live, late, hidden>>

\* Commit::CreateNew takes only a free name, where the filesystem can refuse an
\* occupied one; Commit::Replace takes any, and an import always has that one.
PlaceFile ==
  /\ op.step = "begin" /\ Task.do \in {"create", "replace", "import"}
  /\ \/ /\ disk[Task.to] # Gate
        /\ Task.do = "create" /\ exchanges => disk[Task.to] = Missing
        /\ disk' = [disk EXCEPT ![Task.to] = Task.text]
        /\ trampled' = trampled \cup (IF Task.do = "replace" THEN Tag(disk[Task.to])
                                                            ELSE Late(Task.to))
        /\ live' = live \cup Tag(Task.text)
        /\ op' = Over("ok")
        /\ NoFault
     \/ /\ \/ disk[Task.to] = Gate /\ NoFault
           \/ Task.do = "create" /\ exchanges /\ disk[Task.to] # Missing /\ NoFault
           \/ Fault
        /\ op' = Over("refused")
        /\ UNCHANGED <<disk, trampled, live>>
  /\ UNCHANGED <<side, litter, exchanges, planned, moved, touched, late, hidden>>

-----------------------------------------------------------------------------
(* A move (try_move_file_if_unchanged, try_move_file_no_follow).           *)

MakeGate ==
  /\ op.step = "begin" /\ Task.do = "move"
  /\ \/ /\ disk[Task.to] = Missing
        /\ disk' = [disk EXCEPT ![Task.to] = Gate]
        /\ op' = [op EXCEPT !.step = IF exchanges THEN "swap" ELSE "check"]
        /\ NoFault
     \/ /\ (disk[Task.to] # Missing /\ NoFault) \/ Fault
        /\ op' = FailedTask("refused")
        /\ UNCHANGED disk
  /\ UNCHANGED <<side, litter, exchanges, history>>

\* A file the operation has moved, and one the rollback has moved back.
Away == IF op.unwinding THEN moved \ {Task.to} ELSE moved \cup {Task.from}
Back == IF op.unwinding THEN moved \cup {Task.to} ELSE moved \ {Task.from}

Swapped(d) == [d EXCEPT ![Task.to] = d[Task.from], ![Task.from] = d[Task.to]]
Swap ==
  /\ op.step = "swap"
  /\ \/ /\ disk[Task.from] # Missing
        /\ disk' = Swapped(disk)
        /\ moved' = Away
        /\ op' = [op EXCEPT !.step = "verify_move"]
        /\ NoFault
     \/ /\ (disk[Task.from] = Missing /\ NoFault) \/ Fault
        /\ disk' = [disk EXCEPT ![Task.to] = Missing]
        /\ op' = FailedTask("refused")
        /\ UNCHANGED moved
  /\ UNCHANGED <<side, litter, exchanges, planned, touched, live, late, trampled, hidden>>

\* A note must be what was read, an asset or a rollback's file any file.
Acceptable(c) == IF Task.expect = Missing THEN IsFile(c) ELSE c = Task.expect
VerifyMove ==
  /\ op.step = "verify_move"
  /\ \/ /\ Acceptable(disk[Task.to])
        /\ disk' = [disk EXCEPT ![Task.from] = Missing]
        /\ op' = Succeeded
        /\ NoFault
     \/ \* the gate at the source cannot be removed
        /\ Acceptable(disk[Task.to]) /\ Fault
        /\ op' = FailedLanded
        /\ UNCHANGED disk
     \/ /\ (~Acceptable(disk[Task.to]) /\ NoFault) \/ Fault
        /\ op' = [op EXCEPT !.step = "undo_move"]
        /\ UNCHANGED disk
  /\ UNCHANGED <<side, litter, exchanges, history>>

\* restore_move_from_gate
UndoMove ==
  /\ op.step = "undo_move"
  /\ \/ /\ disk[Task.to] # Missing
        /\ disk' = [Swapped(disk) EXCEPT ![Task.to] = Missing]
        /\ moved' = Back
        /\ op' = FailedTask("refused")
        /\ NoFault
     \/ /\ disk[Task.to] # Missing /\ Fault \* it is back, the gate is not removed
        /\ disk' = Swapped(disk)
        /\ moved' = Back
        /\ op' = FailedTask("refused")
     \/ /\ (disk[Task.to] = Missing /\ NoFault) \/ Fault
        /\ op' = FailedLanded
        /\ UNCHANGED <<disk, moved>>
  /\ UNCHANGED <<side, litter, exchanges, planned, touched, live, late, trampled, hidden>>

\* move_checked_without_exchange: check, release the gate, rename.
CheckMove ==
  /\ op.step = "check"
  /\ \/ /\ Acceptable(disk[Task.from]) /\ NoFault
        /\ disk' = [disk EXCEPT ![Task.to] = Missing]
        /\ op' = [op EXCEPT !.step = "rename"]
     \/ /\ (~Acceptable(disk[Task.from]) /\ NoFault) \/ Fault
        /\ disk' = [disk EXCEPT ![Task.to] = Missing]
        /\ op' = FailedTask("refused")
     \/ \* the gate cannot be released
        Fault /\ op' = FailedTask("refused") /\ UNCHANGED disk
  /\ UNCHANGED <<side, litter, exchanges, history>>

RenameMove ==
  /\ op.step = "rename" /\ Task.do = "move"
  /\ \/ /\ disk[Task.from] # Missing
        /\ disk' = [disk EXCEPT ![Task.to] = disk[Task.from], ![Task.from] = Missing]
        /\ trampled' = trampled \cup Late(Task.to)
        /\ moved' = Away
        /\ op' = Succeeded
        /\ NoFault
     \/ /\ (disk[Task.from] = Missing /\ NoFault) \/ Fault
        /\ op' = FailedTask("refused")
        /\ UNCHANGED <<disk, trampled, moved>>
  /\ UNCHANGED <<side, litter, exchanges, planned, touched, live, late, hidden>>

-----------------------------------------------------------------------------
\* The moved note, or attachment, is read at the end; without it all is undone.
Subject == IF Note \in moved THEN Moved ELSE MovedAsset
Finish ==
  /\ op.step = "finish"
  /\ \/ /\ moved = {} \/ IsFile(disk[Subject])
        /\ op' = Over("ok") /\ NoFault
     \/ /\ moved # {}
        /\ (~IsFile(disk[Subject]) /\ NoFault) \/ Fault
        /\ op' = Rollback("refused", op.journal)
  /\ UNCHANGED <<files, history>>

Crash ==
  /\ op.step # "none" /\ Fault
  /\ op' = Over("crashed") /\ hidden' = TRUE
  /\ litter' = litter \cup (IF side = Missing THEN {} ELSE {side}) /\ side' = Missing
  /\ UNCHANGED <<disk, exchanges, planned, moved, touched, live, late, trampled>>

-----------------------------------------------------------------------------
(* Editors outside the server.  A directory in the way refuses them.       *)

Editing == saves < MaxSaves /\ saves' = saves + 1 /\ UNCHANGED <<ops, faults>>

Save(p) ==
  /\ Editing /\ disk[p] # Gate
  /\ disk' = [disk EXCEPT ![p] = << <<"edit", saves + 1>> >>]
  /\ live' = (live \ Tag(disk[p])) \cup {<<"edit", saves + 1>>}
  /\ touched' = touched \cup {p}
  /\ late' = IF Window(p) THEN late \cup {<<"edit", saves + 1>>} ELSE late
  /\ UNCHANGED <<side, litter, exchanges, op, planned, moved, trampled, hidden>>

Delete(p) ==
  /\ Editing /\ IsFile(disk[p])
  /\ disk' = [disk EXCEPT ![p] = Missing]
  /\ live' = live \ Tag(disk[p])
  /\ touched' = touched \cup {p}
  /\ UNCHANGED <<side, litter, exchanges, op, planned, moved, late, trampled, hidden>>

-----------------------------------------------------------------------------
Orders(notes) == SetToAllKPermutations(notes)

Operation ==
  \/ \E p \in {Note} \cup Linking : UpdateNote(p)
  \/ \E overwrite \in BOOLEAN : CreateNote(Moved, overwrite)
  \/ \E p \in {Asset, MovedAsset}, overwrite \in BOOLEAN : ImportAttachment(p, overwrite)
  \/ \E order \in Orders(Linking) : MoveAttachment(order)
  \/ \E order \in Orders(Linking \cup {Note}) : EditTags(order)
  \/ \E order \in Orders(Linking \cup {Moved}), withAsset \in BOOLEAN :
       MoveNote(withAsset, order)
FileStep == BeginWrite \/ Exchange \/ Verify \/ UndoExchange \/ CheckFirst \/ RenameOver
        \/ PlaceFile \/ MakeGate \/ Swap \/ VerifyMove \/ UndoMove \/ CheckMove \/ RenameMove
        \/ Finish
Editors == \E p \in Path : Save(p) \/ Delete(p)

WritesNext == Operation \/ FileStep \/ Crash \/ Editors
WritesSpec == WritesInit /\ [][WritesNext]_writesVars

-----------------------------------------------------------------------------
(* Properties.                                                             *)

Tags == {<<"gate", 0>>} \cup ({"orig"} \X Path) \cup ({"edit"} \X (1 .. MaxSaves))
        \cup ({"new"} \X (1 .. MaxOps))
IsContent(c) == c = Missing \/ (Head(c) \in Tags /\ ToSet(Tail(c)) \subseteq 1 .. MaxOps)

\* Paths hold contents, and an operation that is under way has a task to do.
WritesTypeOK ==
  /\ DOMAIN disk = Path /\ \A p \in Path : IsContent(disk[p])
  /\ IsContent(side) /\ \A c \in litter : IsContent(c)
  /\ op.step \in {"none", "begin", "commit", "verify", "undo", "rename", "swap", "check",
                 "verify_move", "undo_move", "finish"}
  /\ op.step \in {"none", "finish"} <=> op.tasks = <<>>
  /\ op.result \in {"none", "ok", "refused", "recovery", "crashed"}
  /\ moved \cup touched \subseteq Path
  /\ live \cup trampled \subseteq Tags

\* What somebody wrote is at some path, unless an editor replaced it, the caller
\* asked to overwrite it, or it was saved inside a window of the very operation that
\* overwrote it (Window): ADR-26 accepts two of these; the undo's, and an import's
\* without `overwrite', are races that the documentation denies.  While a write
\* decides it may be in its sidecar; it stays there only after a crash or when the
\* caller was told that recovery is required.
SavesSurvive ==
  \A t \in live \ trampled :
    \/ \E p \in Path : t \in Tag(disk[p])
    \/ t \in Tag(side)
    \/ hidden /\ \E c \in litter : t \in Tag(c)

\* The state keeps its shape.  An operation that is refused has left nothing of
\* itself behind, on any note, whatever step refused it and whatever editors did
\* meanwhile; one that succeeds has moved and rewritten all it planned.
AllOrNothing ==
  /\ WritesTypeOK
  /\ op.result = "refused" /\ op.step = "none"
       => moved = {} /\ \A p \in Path : ops \notin MarkedBy(disk[p])
  /\ op.result = "ok"
       => moved = planned.moves /\ \A p \in planned.writes \ touched : ops \in MarkedBy(disk[p])
=============================================================================

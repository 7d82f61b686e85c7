------------------------ MODULE IndexPublicationProofs ------------------------
(***************************************************************************)
(* Proofs about IndexPublication, for every bound: a row that reads fresh  *)
(* holds every write reported stale, no turn publishes fresh what it read  *)
(* before a write or a recorded sync, the reported status never claims     *)
(* what the row does not hold, and a row left behind is caught up with.    *)
(***************************************************************************)
EXTENDS IndexPublication, TLAPS

-----------------------------------------------------------------------------
(* Why the row's freshness is true.                                        *)

ReadIsNewest == turn.read >= landed /\ turn.read >= guarded

\* What a turn read under the exclusion holds every write and sync made until it
\* let the exclusion go.  While it embeds without it, that stays so until the
\* generation moves or a sync that will move it is about to be recorded.
ReadInv ==
  /\ row.fresh => row.version >= landed
  /\ landed <= disk /\ guarded <= disk
  /\ git = "working" => holder = "git"
  /\ turn.stage \in {"scanned", "read"} => ReadIsNewest
  /\ turn.stage = "embedding" /\ ~moved =>
       /\ write = "none"
       /\ turn.read >= landed
       /\ (holder = "git" /\ git \in {"pulled", "failed"}) \/ turn.read >= guarded
  /\ turn.stage = "publishing" /\ ~moved => ReadIsNewest

-----------------------------------------------------------------------------
(* Why the status tells the truth about the row.                           *)

Building == {"opened", "scanned", "read", "embedding"}

\* From opening to publication a rebuild reports stale over its stale row, and any
\* other turn reports that it has nothing to search.
StatusInv ==
  /\ status = "stale" => ~row.fresh
  /\ SearchIsBacked
  /\ turn.stage \in {"marked", "opened", "scanned", "failed", "published stale"}
       => ~row.fresh
  /\ turn.stage \in Building =>
       /\ row.fresh => ~row.searchable
       /\ turn.rebuilds => status = "stale"
       /\ ~turn.rebuilds => status \in {"indexing", "browsable"}
  /\ turn.stage = "publishing" /\ ~moved => status # "stale"
  /\ turn.stage \in {"published", "published stale"}
       => row.participating /\ row.searchable

-----------------------------------------------------------------------------
LEMMA CountsStep == ASSUME CountsOK, [Next]_vars PROVE CountsOK'
  <1> USE IndexAssumption
  <1>a. /\ 0 \in 0 .. RetryLimit
        /\ \A n \in 0 .. RetryLimit : n < RetryLimit => n + 1 \in 0 .. RetryLimit
    BY DEF IndexAssumption
  <1> USE DEF CountsOK, Version, IndexAssumption, changes, writing, retries, NotIndex
  <1>1. ASSUME OutsideEdit \/ WriteStep PROVE CountsOK'
    BY <1>1 DEF OutsideEdit, WriteStep, TakeWriteGuard, WriteLands, MarkBehindWrite,
           FinishWrite, RefuseWrite, Change
  <1>2. ASSUME GitStep PROVE CountsOK'
    BY <1>2 DEF GitStep, TakeGitGuard, RunGit, RecordGit, FinishGit, Change
  <1>3. ASSUME AskStep PROVE CountsOK'
    BY <1>3 DEF AskStep, ReportEvent, ForwardIntent, InstallModel, WakeRetry
  <1>4. ASSUME StartIndex PROVE CountsOK'
    BY <1>4 DEF StartIndex
  <1>5. ASSUME EndDeferred PROVE CountsOK'
    BY <1>5 DEF EndDeferred
  <1>6. ASSUME TakeReadGuard PROVE CountsOK'
    BY <1>6 DEF TakeReadGuard
  <1>7. ASSUME MarkOpening PROVE CountsOK'
    BY <1>7 DEF MarkOpening
  <1>8. ASSUME OpenStatus PROVE CountsOK'
    BY <1>8 DEF OpenStatus
  <1>9. ASSUME Scan PROVE CountsOK'
    BY <1>9 DEF Scan
  <1>10. ASSUME PublishStructure PROVE CountsOK'
    BY <1>10 DEF PublishStructure
  <1>11. ASSUME ReleaseReads PROVE CountsOK'
    BY <1>11 DEF ReleaseReads
  <1>12. ASSUME RetakeGuard PROVE CountsOK'
    BY <1>12 DEF RetakeGuard
  <1>13. ASSUME PublishRow PROVE CountsOK'
    BY <1>13 DEF PublishRow
  <1>14. ASSUME FinishIndex PROVE CountsOK'
    BY <1>14, <1>a DEF FinishIndex
  <1>15. ASSUME PauseIndex PROVE CountsOK'
    BY <1>15, <1>a DEF PauseIndex
  <1>16. ASSUME FailIndex PROVE CountsOK'
    BY <1>16 DEF FailIndex
  <1>17. ASSUME EndFailed PROVE CountsOK'
    <2>1. CASE Retries
      BY <1>17, <1>a, <2>1 DEF EndFailed, Retries
    <2>2. CASE ~Retries
      BY <1>17, <2>2 DEF EndFailed
    <2> QED BY <2>1, <2>2
  <1>18. ASSUME UNCHANGED vars PROVE CountsOK'
    BY <1>18 DEF vars
  <1> QED BY <1>1, <1>2, <1>3, <1>4, <1>5, <1>6, <1>7, <1>8, <1>9, <1>10, <1>11, <1>12,
             <1>13, <1>14, <1>15, <1>16, <1>17, <1>18
          DEF Next, WriteStep, GitStep, AskStep, IndexStep

LEMMA FlagsStep == ASSUME FlagsOK, [Next]_vars PROVE FlagsOK'
  <1> USE DEF FlagsOK, changes, writing, retries, NotIndex
  <1>1. ASSUME OutsideEdit PROVE FlagsOK'
    BY <1>1 DEF OutsideEdit, Change
  <1>2. ASSUME TakeWriteGuard PROVE FlagsOK'
    BY <1>2 DEF TakeWriteGuard
  <1>3. ASSUME WriteLands PROVE FlagsOK'
    BY <1>3 DEF WriteLands, Change
  <1>4. ASSUME MarkBehindWrite PROVE FlagsOK'
    BY <1>4 DEF MarkBehindWrite
  <1>5. ASSUME FinishWrite PROVE FlagsOK'
    BY <1>5 DEF FinishWrite
  <1>6. ASSUME RefuseWrite PROVE FlagsOK'
    BY <1>6 DEF RefuseWrite
  <1>7. ASSUME TakeGitGuard PROVE FlagsOK'
    BY <1>7 DEF TakeGitGuard
  <1>8. ASSUME RunGit PROVE FlagsOK'
    BY <1>8 DEF RunGit, Change
  <1>9. ASSUME RecordGit PROVE FlagsOK'
    BY <1>9 DEF RecordGit
  <1>10. ASSUME FinishGit PROVE FlagsOK'
    BY <1>10 DEF FinishGit
  <1>11. ASSUME ReportEvent PROVE FlagsOK'
    BY <1>11 DEF ReportEvent
  <1>12. ASSUME ForwardIntent PROVE FlagsOK'
    BY <1>12 DEF ForwardIntent
  <1>13. ASSUME InstallModel PROVE FlagsOK'
    BY <1>13 DEF InstallModel, AfterSetup
  <1>14. ASSUME WakeRetry PROVE FlagsOK'
    BY <1>14 DEF WakeRetry
  <1>15. ASSUME StartIndex PROVE FlagsOK'
    BY <1>15 DEF StartIndex
  <1>16. ASSUME EndDeferred PROVE FlagsOK'
    BY <1>16 DEF EndDeferred
  <1>17. ASSUME TakeReadGuard PROVE FlagsOK'
    BY <1>17 DEF TakeReadGuard
  <1>18. ASSUME MarkOpening PROVE FlagsOK'
    BY <1>18 DEF MarkOpening
  <1>19. ASSUME OpenStatus PROVE FlagsOK'
    BY <1>19 DEF OpenStatus
  <1>20. ASSUME Scan PROVE FlagsOK'
    BY <1>20 DEF Scan
  <1>21. ASSUME PublishStructure PROVE FlagsOK'
    BY <1>21 DEF PublishStructure
  <1>22. ASSUME ReleaseReads PROVE FlagsOK'
    BY <1>22 DEF ReleaseReads
  <1>23. ASSUME RetakeGuard PROVE FlagsOK'
    BY <1>23 DEF RetakeGuard
  <1>24. ASSUME PublishRow PROVE FlagsOK'
    BY <1>24 DEF PublishRow
  <1>25. ASSUME FinishIndex PROVE FlagsOK'
    BY <1>25 DEF FinishIndex
  <1>26. ASSUME PauseIndex PROVE FlagsOK'
    BY <1>26 DEF PauseIndex
  <1>27. ASSUME FailIndex PROVE FlagsOK'
    BY <1>27 DEF FailIndex
  <1>28. ASSUME EndFailed PROVE FlagsOK'
    BY <1>28 DEF EndFailed
  <1>29. ASSUME UNCHANGED vars PROVE FlagsOK'
    BY <1>29 DEF vars
  <1> QED BY <1>1, <1>2, <1>3, <1>4, <1>5, <1>6, <1>7, <1>8, <1>9, <1>10, <1>11, <1>12,
             <1>13, <1>14, <1>15, <1>16, <1>17, <1>18, <1>19, <1>20, <1>21, <1>22,
             <1>23, <1>24, <1>25, <1>26, <1>27, <1>28, <1>29
          DEF Next, WriteStep, GitStep, AskStep, IndexStep

LEMMA LabelsStep == ASSUME LabelsOK, [Next]_vars PROVE LabelsOK'
  <1> USE DEF LabelsOK, SearchStatus, changes, writing, retries, NotIndex
  <1>1. ASSUME OutsideEdit \/ WriteStep PROVE LabelsOK'
    BY <1>1 DEF OutsideEdit, WriteStep, TakeWriteGuard, WriteLands, MarkBehindWrite,
           FinishWrite, RefuseWrite, Change
  <1>2. ASSUME GitStep PROVE LabelsOK'
    BY <1>2 DEF GitStep, TakeGitGuard, RunGit, RecordGit, FinishGit, Change
  <1>3. ASSUME AskStep PROVE LabelsOK'
    BY <1>3 DEF AskStep, ReportEvent, ForwardIntent, InstallModel, WakeRetry
  <1>4. ASSUME StartIndex PROVE LabelsOK'
    BY <1>4 DEF StartIndex
  <1>5. ASSUME EndDeferred PROVE LabelsOK'
    BY <1>5 DEF EndDeferred
  <1>6. ASSUME TakeReadGuard PROVE LabelsOK'
    BY <1>6 DEF TakeReadGuard
  <1>7. ASSUME MarkOpening PROVE LabelsOK'
    BY <1>7 DEF MarkOpening
  <1>8. ASSUME OpenStatus PROVE LabelsOK'
    BY <1>8 DEF OpenStatus
  <1>9. ASSUME Scan PROVE LabelsOK'
    BY <1>9 DEF Scan
  <1>10. ASSUME PublishStructure PROVE LabelsOK'
    BY <1>10 DEF PublishStructure
  <1>11. ASSUME ReleaseReads PROVE LabelsOK'
    BY <1>11 DEF ReleaseReads
  <1>12. ASSUME RetakeGuard PROVE LabelsOK'
    BY <1>12 DEF RetakeGuard, ReadyAhead
  <1>13. ASSUME PublishRow PROVE LabelsOK'
    BY <1>13 DEF PublishRow
  <1>14. ASSUME FinishIndex PROVE LabelsOK'
    BY <1>14 DEF FinishIndex
  <1>15. ASSUME PauseIndex PROVE LabelsOK'
    BY <1>15 DEF PauseIndex, Retained
  <1>16. ASSUME FailIndex PROVE LabelsOK'
    BY <1>16 DEF FailIndex
  <1>17. ASSUME EndFailed PROVE LabelsOK'
    BY <1>17 DEF EndFailed, Retained
  <1>18. ASSUME UNCHANGED vars PROVE LabelsOK'
    BY <1>18 DEF vars
  <1> QED BY <1>1, <1>2, <1>3, <1>4, <1>5, <1>6, <1>7, <1>8, <1>9, <1>10, <1>11, <1>12,
             <1>13, <1>14, <1>15, <1>16, <1>17, <1>18
          DEF Next, WriteStep, GitStep, AskStep, IndexStep

LEMMA RecordsStep == ASSUME CountsOK, FlagsOK, row \in Row, turn \in Turn, [Next]_vars PROVE row' \in Row /\ turn' \in Turn
  <1>a. 0 \in Version /\ disk \in Version /\ moved \in BOOLEAN
    BY IndexAssumption DEF IndexAssumption, Version, CountsOK, FlagsOK
  <1> USE DEF Row, Turn, NoTurn, Stale, changes, writing, retries, NotIndex
  <1>1. ASSUME OutsideEdit \/ WriteStep PROVE row' \in Row /\ turn' \in Turn
    BY <1>1, <1>a DEF OutsideEdit, WriteStep, TakeWriteGuard, WriteLands,
           MarkBehindWrite, FinishWrite, RefuseWrite
  <1>2. ASSUME GitStep PROVE row' \in Row /\ turn' \in Turn
    BY <1>2, <1>a DEF GitStep, TakeGitGuard, RunGit, RecordGit, FinishGit
  <1>3. ASSUME AskStep PROVE row' \in Row /\ turn' \in Turn
    BY <1>3, <1>a DEF AskStep, ReportEvent, ForwardIntent, InstallModel, WakeRetry
  <1>4. ASSUME StartIndex PROVE row' \in Row /\ turn' \in Turn
    BY <1>4, <1>a DEF StartIndex
  <1>5. ASSUME EndDeferred PROVE row' \in Row /\ turn' \in Turn
    BY <1>5, <1>a DEF EndDeferred
  <1>6. ASSUME TakeReadGuard PROVE row' \in Row /\ turn' \in Turn
    BY <1>6, <1>a DEF TakeReadGuard
  <1>7. ASSUME MarkOpening PROVE row' \in Row /\ turn' \in Turn
    BY <1>7, <1>a DEF MarkOpening
  <1>8. ASSUME OpenStatus PROVE row' \in Row /\ turn' \in Turn
    BY <1>8, <1>a DEF OpenStatus
  <1>9. ASSUME Scan PROVE row' \in Row /\ turn' \in Turn
    BY <1>9, <1>a DEF Scan
  <1>10. ASSUME PublishStructure PROVE row' \in Row /\ turn' \in Turn
    <2>1. turn.read \in Version /\ turn' \in Turn
      BY <1>10 DEF PublishStructure
    <2>2. CASE UNCHANGED <<row, status>>
      BY <2>1, <2>2
    <2>3. CASE row' = [participating |-> TRUE, fresh |-> TRUE, searchable |-> FALSE,
                       version |-> turn.read]
      BY <2>1, <2>3
    <2> QED BY <1>10, <2>1, <2>2, <2>3 DEF PublishStructure
  <1>11. ASSUME ReleaseReads PROVE row' \in Row /\ turn' \in Turn
    BY <1>11, <1>a DEF ReleaseReads
  <1>12. ASSUME RetakeGuard PROVE row' \in Row /\ turn' \in Turn
    BY <1>12, <1>a DEF RetakeGuard
  <1>13. ASSUME PublishRow PROVE row' \in Row /\ turn' \in Turn
    BY <1>13, <1>a DEF PublishRow
  <1>14. ASSUME FinishIndex PROVE row' \in Row /\ turn' \in Turn
    BY <1>14, <1>a DEF FinishIndex
  <1>15. ASSUME PauseIndex PROVE row' \in Row /\ turn' \in Turn
    BY <1>15, <1>a DEF PauseIndex
  <1>16. ASSUME FailIndex PROVE row' \in Row /\ turn' \in Turn
    BY <1>16, <1>a DEF FailIndex
  <1>17. ASSUME EndFailed PROVE row' \in Row /\ turn' \in Turn
    BY <1>17, <1>a DEF EndFailed
  <1>18. ASSUME UNCHANGED vars PROVE row' \in Row /\ turn' \in Turn
    BY <1>18, <1>a DEF vars
  <1> QED BY <1>1, <1>2, <1>3, <1>4, <1>5, <1>6, <1>7, <1>8, <1>9, <1>10, <1>11, <1>12,
             <1>13, <1>14, <1>15, <1>16, <1>17, <1>18
          DEF Next, WriteStep, GitStep, AskStep, IndexStep

LEMMA HolderStep == ASSUME LabelsOK, turn \in Turn, HolderActs, [Next]_vars PROVE HolderActs'
  <1> USE DEF LabelsOK, Turn, NoTurn, HolderActs, changes, writing, retries, NotIndex
  <1>1. ASSUME OutsideEdit \/ WriteStep PROVE HolderActs'
    BY <1>1 DEF OutsideEdit, WriteStep, TakeWriteGuard, WriteLands, MarkBehindWrite,
           FinishWrite, RefuseWrite, Change
  <1>2. ASSUME GitStep PROVE HolderActs'
    BY <1>2 DEF GitStep, TakeGitGuard, RunGit, RecordGit, FinishGit, Change
  <1>3. ASSUME AskStep PROVE HolderActs'
    BY <1>3 DEF AskStep, ReportEvent, ForwardIntent, InstallModel, WakeRetry
  <1>4. ASSUME StartIndex PROVE HolderActs'
    BY <1>4 DEF StartIndex
  <1>5. ASSUME EndDeferred PROVE HolderActs'
    BY <1>5 DEF EndDeferred
  <1>6. ASSUME TakeReadGuard PROVE HolderActs'
    BY <1>6 DEF TakeReadGuard
  <1>7. ASSUME MarkOpening PROVE HolderActs'
    BY <1>7 DEF MarkOpening
  <1>8. ASSUME OpenStatus PROVE HolderActs'
    BY <1>8 DEF OpenStatus
  <1>9. ASSUME Scan PROVE HolderActs'
    BY <1>9 DEF Scan
  <1>10. ASSUME PublishStructure PROVE HolderActs'
    BY <1>10 DEF PublishStructure
  <1>11. ASSUME ReleaseReads PROVE HolderActs'
    BY <1>11 DEF ReleaseReads
  <1>12. ASSUME RetakeGuard PROVE HolderActs'
    BY <1>12 DEF RetakeGuard
  <1>13. ASSUME PublishRow PROVE HolderActs'
    BY <1>13 DEF PublishRow
  <1>14. ASSUME FinishIndex PROVE HolderActs'
    BY <1>14 DEF FinishIndex
  <1>15. ASSUME PauseIndex PROVE HolderActs'
    BY <1>15 DEF PauseIndex
  <1>16. ASSUME FailIndex PROVE HolderActs'
    BY <1>16 DEF FailIndex
  <1>17. ASSUME EndFailed PROVE HolderActs'
    BY <1>17 DEF EndFailed
  <1>18. ASSUME UNCHANGED vars PROVE HolderActs'
    BY <1>18 DEF vars
  <1> QED BY <1>1, <1>2, <1>3, <1>4, <1>5, <1>6, <1>7, <1>8, <1>9, <1>10, <1>11, <1>12,
             <1>13, <1>14, <1>15, <1>16, <1>17, <1>18
          DEF Next, WriteStep, GitStep, AskStep, IndexStep

LEMMA TypeInit == Init => TypeOK
  <1> SUFFICES ASSUME Init PROVE TypeOK
    OBVIOUS
  <1>1. 0 \in Version
    BY IndexAssumption DEF IndexAssumption, Version
  <1>2. CountsOK
    BY IndexAssumption DEF IndexAssumption, Init, CountsOK, Version
  <1>3. FlagsOK
    BY DEF Init, FlagsOK
  <1>4. LabelsOK
    BY DEF Init, LabelsOK, SearchStatus, AtStart, Retained
  <1>5. row \in Row /\ turn \in Turn
    BY <1>1 DEF Init, Row, Turn, NoTurn
  <1>6. HolderActs
    BY DEF Init, HolderActs, NoTurn
  <1> QED BY <1>2, <1>3, <1>4, <1>5, <1>6 DEF TypeOK

LEMMA TypeStep == ASSUME TypeOK, [Next]_vars PROVE TypeOK'
  BY CountsStep, FlagsStep, LabelsStep, RecordsStep, HolderStep DEF TypeOK

\* The exclusion has one holder, who acts under it, for every bound.
THEOREM TypeCorrect == Spec => []TypeOK
  BY TypeInit, TypeStep, PTL DEF Spec

LEMMA ReadInit == Init => ReadInv
  BY IndexAssumption DEF IndexAssumption, Init, ReadInv, NoTurn, Version

LEMMA ReadStep == ASSUME TypeOK, ReadInv, [Next]_vars PROVE ReadInv'
  <1>t. /\ disk \in Version /\ landed \in Version /\ guarded \in Version
        /\ row \in Row /\ turn \in Turn /\ moved \in BOOLEAN
    BY DEF TypeOK, CountsOK, FlagsOK
  <1>v. Version \subseteq Nat
    BY IndexAssumption DEF IndexAssumption, Version
  <1>r. turn.read \in Version /\ row.version \in Version
    BY <1>t DEF Turn, Row
  <1>a. /\ disk \in Nat /\ landed \in Nat /\ guarded \in Nat
        /\ turn.read \in Nat /\ row.version \in Nat
    BY <1>t, <1>v, <1>r
  <1>b. HolderActs
    BY DEF TypeOK
  <1>c. row \in Row /\ turn \in Turn /\ moved \in BOOLEAN
    BY <1>t
  <1>s. turn.stage \in {"scanned", "read", "publishing"} => holder = "index"
    BY <1>b DEF HolderActs
  <1>w. write # "none" => holder = "write"
    BY <1>b DEF HolderActs
  <1> USE DEF ReadInv, ReadIsNewest, NoTurn, Row, Turn, HolderActs, changes, writing,
              retries, NotIndex
  <1>1. ASSUME OutsideEdit PROVE ReadInv'
    <2>1. /\ disk' = disk + 1
          /\ UNCHANGED <<landed, guarded, row, turn, moved, holder, write, git>>
      BY <1>1 DEF OutsideEdit, Change
    <2> QED BY <2>1, <1>a
  <1>2. ASSUME TakeWriteGuard PROVE ReadInv'
    BY <1>2, <1>a, <1>b, <1>c DEF TakeWriteGuard
  <1>3. ASSUME WriteLands PROVE ReadInv'
    <2>1. /\ disk' = disk + 1 /\ guarded' = disk' /\ write = "admitted"
          /\ UNCHANGED <<landed, row, turn, moved, holder, git>>
      BY <1>3 DEF WriteLands, Change
    <2>2. turn.stage \notin {"scanned", "read", "publishing"} /\ git # "working"
      BY <2>1, <1>s, <1>w
    <2>3. turn.stage = "embedding" => moved
      BY <2>1
    <2> QED BY <2>1, <2>2, <2>3, <1>a
  <1>4. ASSUME MarkBehindWrite PROVE ReadInv'
    <2>1. /\ landed' = disk /\ write = "landed" /\ ~row'.fresh
          /\ UNCHANGED <<disk, guarded, turn, moved, holder, git>>
      BY <1>4, <1>c DEF MarkBehindWrite, Stale
    <2>2. turn.stage \notin {"scanned", "read", "publishing"} /\ git # "working"
      BY <2>1, <1>s, <1>w
    <2>3. turn.stage = "embedding" => moved
      BY <2>1
    <2> QED BY <2>1, <2>2, <2>3, <1>a
  <1>5. ASSUME FinishWrite PROVE ReadInv'
    BY <1>5, <1>a, <1>b, <1>c DEF FinishWrite
  <1>6. ASSUME RefuseWrite PROVE ReadInv'
    BY <1>6, <1>a, <1>b, <1>c DEF RefuseWrite
  <1>7. ASSUME TakeGitGuard PROVE ReadInv'
    BY <1>7, <1>a, <1>b, <1>c DEF TakeGitGuard
  <1>8. ASSUME RunGit PROVE ReadInv'
    <2>1. /\ holder = "git" /\ git' # "working"
          /\ UNCHANGED <<landed, row, turn, moved, holder, write>>
      BY <1>8 DEF RunGit
    <2>2. turn.stage \notin {"scanned", "read", "publishing"}
      BY <2>1, <1>s
    <2>3. CASE UNCHANGED changes
      BY <2>1, <2>2, <2>3, <1>8 DEF RunGit
    <2>4. CASE /\ disk' = disk + 1
               /\ \/ git' \in {"pulled", "failed"} /\ guarded' = disk'
                  \/ git' = "panicked" /\ guarded' = guarded
      BY <2>1, <2>2, <2>4, <1>8, <1>a DEF RunGit
    <2> QED BY <2>3, <2>4, <1>8 DEF RunGit, Change
  <1>9. ASSUME RecordGit PROVE ReadInv'
    BY <1>9, <1>a, <1>b, <1>c DEF RecordGit, Rewrote, HasIndex
  <1>10. ASSUME FinishGit PROVE ReadInv'
    BY <1>10, <1>a, <1>b, <1>c DEF FinishGit
  <1>11. ASSUME ReportEvent PROVE ReadInv'
    BY <1>11, <1>a, <1>b, <1>c DEF ReportEvent
  <1>12. ASSUME ForwardIntent PROVE ReadInv'
    BY <1>12, <1>a, <1>b, <1>c DEF ForwardIntent
  <1>13. ASSUME InstallModel PROVE ReadInv'
    BY <1>13, <1>a, <1>b, <1>c DEF InstallModel
  <1>14. ASSUME WakeRetry PROVE ReadInv'
    BY <1>14, <1>a, <1>b, <1>c DEF WakeRetry
  <1>15. ASSUME StartIndex PROVE ReadInv'
    BY <1>15, <1>a, <1>b, <1>c DEF StartIndex
  <1>16. ASSUME EndDeferred PROVE ReadInv'
    BY <1>16, <1>a, <1>b, <1>c DEF EndDeferred
  <1>17. ASSUME TakeReadGuard PROVE ReadInv'
    BY <1>17, <1>a, <1>b, <1>c DEF TakeReadGuard
  <1>18. ASSUME MarkOpening PROVE ReadInv'
    BY <1>18, <1>a, <1>b, <1>c DEF MarkOpening, Stale
  <1>19. ASSUME OpenStatus PROVE ReadInv'
    BY <1>19, <1>a, <1>b, <1>c DEF OpenStatus
  <1>20. ASSUME Scan PROVE ReadInv'
    BY <1>20, <1>a, <1>b, <1>c DEF Scan
  <1>21. ASSUME PublishStructure PROVE ReadInv'
    <2>1. /\ turn' = [turn EXCEPT !.stage = "read"] /\ ReadIsNewest
          /\ UNCHANGED <<disk, landed, guarded, moved, holder, git, write>>
      BY <1>21 DEF PublishStructure
    <2>2. turn'.stage = "read" /\ turn'.read = turn.read
      BY <2>1, <1>c
    <2>3. row'.fresh => row'.version >= landed
      <3>1. CASE UNCHANGED <<row, status>>
        BY <3>1
      <3>2. CASE row' = [participating |-> TRUE, fresh |-> TRUE, searchable |-> FALSE,
                         version |-> turn.read]
        BY <2>1, <3>2
      <3> QED BY <1>21, <3>1, <3>2 DEF PublishStructure
    <2> QED BY <2>1, <2>2, <2>3
  <1>22. ASSUME ReleaseReads PROVE ReadInv'
    BY <1>22, <1>a, <1>b, <1>c DEF ReleaseReads
  <1>23. ASSUME RetakeGuard PROVE ReadInv'
    BY <1>23, <1>a, <1>b, <1>c DEF RetakeGuard
  <1>24. ASSUME PublishRow PROVE ReadInv'
    BY <1>24, <1>a, <1>b, <1>c DEF PublishRow
  <1>25. ASSUME FinishIndex PROVE ReadInv'
    BY <1>25, <1>a, <1>b, <1>c DEF FinishIndex
  <1>26. ASSUME PauseIndex PROVE ReadInv'
    BY <1>26, <1>a, <1>b, <1>c DEF PauseIndex
  <1>27. ASSUME FailIndex PROVE ReadInv'
    BY <1>27, <1>a, <1>b, <1>c DEF FailIndex, Stale
  <1>28. ASSUME EndFailed PROVE ReadInv'
    BY <1>28, <1>a, <1>b, <1>c DEF EndFailed
  <1>29. ASSUME UNCHANGED vars PROVE ReadInv'
    BY <1>29, <1>a, <1>b, <1>c DEF vars
  <1> QED BY <1>1, <1>2, <1>3, <1>4, <1>5, <1>6, <1>7, <1>8, <1>9, <1>10, <1>11, <1>12,
             <1>13, <1>14, <1>15, <1>16, <1>17, <1>18, <1>19, <1>20, <1>21, <1>22,
             <1>23, <1>24, <1>25, <1>26, <1>27, <1>28, <1>29
          DEF Next, WriteStep, GitStep, AskStep, IndexStep

LEMMA StatusInit == Init => StatusInv
  BY DEF Init, StatusInv, SearchIsBacked, Building, NoTurn, AtStart, Retained

LEMMA StatusStep == ASSUME TypeOK, StatusInv, [Next]_vars PROVE StatusInv'
  <1>a. row \in Row /\ turn \in Turn /\ moved \in BOOLEAN
    BY DEF TypeOK, FlagsOK
  <1> USE DEF StatusInv, SearchIsBacked, Building, NoTurn, Row, Turn, changes, writing,
              retries, NotIndex
  <1>1. ASSUME OutsideEdit PROVE StatusInv'
    BY <1>1, <1>a DEF OutsideEdit, Change
  <1>2. ASSUME TakeWriteGuard PROVE StatusInv'
    BY <1>2, <1>a DEF TakeWriteGuard
  <1>3. ASSUME WriteLands PROVE StatusInv'
    BY <1>3, <1>a DEF WriteLands, Change
  <1>4. ASSUME MarkBehindWrite PROVE StatusInv'
    BY <1>4, <1>a DEF MarkBehindWrite, Stale
  <1>5. ASSUME FinishWrite PROVE StatusInv'
    BY <1>5, <1>a DEF FinishWrite
  <1>6. ASSUME RefuseWrite PROVE StatusInv'
    BY <1>6, <1>a DEF RefuseWrite
  <1>7. ASSUME TakeGitGuard PROVE StatusInv'
    BY <1>7, <1>a DEF TakeGitGuard
  <1>8. ASSUME RunGit PROVE StatusInv'
    BY <1>8, <1>a DEF RunGit, Change
  <1>9. ASSUME RecordGit PROVE StatusInv'
    BY <1>9, <1>a DEF RecordGit, Rewrote
  <1>10. ASSUME FinishGit PROVE StatusInv'
    BY <1>10, <1>a DEF FinishGit
  <1>11. ASSUME ReportEvent PROVE StatusInv'
    BY <1>11, <1>a DEF ReportEvent
  <1>12. ASSUME ForwardIntent PROVE StatusInv'
    BY <1>12, <1>a DEF ForwardIntent
  <1>13. ASSUME InstallModel PROVE StatusInv'
    BY <1>13, <1>a DEF InstallModel
  <1>14. ASSUME WakeRetry PROVE StatusInv'
    BY <1>14, <1>a DEF WakeRetry
  <1>15. ASSUME StartIndex PROVE StatusInv'
    BY <1>15, <1>a DEF StartIndex
  <1>16. ASSUME EndDeferred PROVE StatusInv'
    BY <1>16, <1>a DEF EndDeferred
  <1>17. ASSUME TakeReadGuard PROVE StatusInv'
    BY <1>17, <1>a DEF TakeReadGuard
  <1>18. ASSUME MarkOpening PROVE StatusInv'
    BY <1>18, <1>a DEF MarkOpening, Stale
  <1>19. ASSUME OpenStatus PROVE StatusInv'
    BY <1>19, <1>a DEF OpenStatus, Retained
  <1>20. ASSUME Scan PROVE StatusInv'
    BY <1>20, <1>a DEF Scan
  <1>21. ASSUME PublishStructure PROVE StatusInv'
    <2>1. /\ turn' = [turn EXCEPT !.stage = "read"] /\ turn.stage = "scanned"
          /\ turn'.stage = "read" /\ turn'.rebuilds = turn.rebuilds
      BY <1>21, <1>a DEF PublishStructure
    <2>2. CASE UNCHANGED <<row, status>>
      BY <2>1, <2>2
    <2>3. CASE /\ ~row.searchable /\ status' = "browsable"
               /\ row' = [participating |-> TRUE, fresh |-> TRUE, searchable |-> FALSE,
                          version |-> turn.read]
      <3>1. ~turn.rebuilds
        BY <2>1, <2>3
      <3>2. row'.fresh /\ ~row'.searchable
        BY <2>3
      <3> QED BY <2>1, <2>3, <3>1, <3>2
    <2> QED BY <1>21, <2>2, <2>3 DEF PublishStructure
  <1>22. ASSUME ReleaseReads PROVE StatusInv'
    BY <1>22, <1>a DEF ReleaseReads
  <1>23. ASSUME RetakeGuard PROVE StatusInv'
    BY <1>23, <1>a DEF RetakeGuard, ReadyAhead
  <1>24. ASSUME PublishRow PROVE StatusInv'
    BY <1>24, <1>a DEF PublishRow
  <1>25. ASSUME FinishIndex PROVE StatusInv'
    BY <1>25, <1>a DEF FinishIndex
  <1>26. ASSUME PauseIndex PROVE StatusInv'
    BY <1>26, <1>a DEF PauseIndex, Retained
  <1>27. ASSUME FailIndex PROVE StatusInv'
    BY <1>27, <1>a DEF FailIndex, Stale
  <1>28. ASSUME EndFailed PROVE StatusInv'
    BY <1>28, <1>a DEF EndFailed, Retained
  <1>29. ASSUME UNCHANGED vars PROVE StatusInv'
    BY <1>29, <1>a DEF vars
  <1> QED BY <1>1, <1>2, <1>3, <1>4, <1>5, <1>6, <1>7, <1>8, <1>9, <1>10, <1>11, <1>12,
             <1>13, <1>14, <1>15, <1>16, <1>17, <1>18, <1>19, <1>20, <1>21, <1>22,
             <1>23, <1>24, <1>25, <1>26, <1>27, <1>28, <1>29
          DEF Next, WriteStep, GitStep, AskStep, IndexStep

-----------------------------------------------------------------------------
(* Why a stale row is caught up with.                                      *)

Reported == event \/ intent \/ pending

\* Everything that leaves the row behind the Markdown leaves somebody who asks for
\* another turn, and whoever asked while a turn is active is still there when it ends.
OwedInv ==
  /\ turn.stage = "deferred" => ~model \/ pending
  /\ turn.stage \in {"guarded", "marked", "opened", "scanned", "read"} => ~moved
  /\ turn.stage \in {"scanned", "read", "embedding", "publishing"} /\ turn.read # disk
       => Reported
  /\ turn.stage \in {"embedding", "publishing"} /\ moved /\ excused = "no"
       => Reported \/ write = "admitted"
  /\ turn.stage = "embedding" /\ holder = "git" /\ git = "pulled" => Reported
  /\ turn.stage = "published stale" /\ excused = "no" => Reported
  /\ turn.stage = "published" => Current \/ Reported \/ write \in {"landed", "marked"}
  /\ turn.stage = "none" /\ excused = "no"
       => Current \/ Reported \/ ~model \/ timers > 0 \/ write \in {"landed", "marked"}

LEMMA OwedInit == Init => OwedInv
  BY DEF Init, OwedInv, Reported, NoTurn

LEMMA OwedStep == ASSUME TypeOK, OwedInv, [Next]_vars PROVE OwedInv'
  <1>a. /\ row \in Row /\ turn \in Turn /\ timers \in Nat
        /\ FlagsOK
    BY DEF TypeOK, CountsOK
  <1>b. HolderActs
    BY DEF TypeOK
  <1>c. timers + 1 > 0
    BY <1>a
  <1> USE DEF OwedInv, Reported, Current, FlagsOK, HolderActs, NoTurn, Row, Turn,
              changes, writing, retries, NotIndex
  <1>1. ASSUME OutsideEdit PROVE OwedInv'
    BY <1>1, <1>a, <1>b DEF OutsideEdit, Change
  <1>2. ASSUME TakeWriteGuard PROVE OwedInv'
    BY <1>2, <1>a, <1>b DEF TakeWriteGuard
  <1>3. ASSUME WriteLands PROVE OwedInv'
    BY <1>3, <1>a, <1>b DEF WriteLands, Change
  <1>4. ASSUME MarkBehindWrite PROVE OwedInv'
    BY <1>4, <1>a, <1>b DEF MarkBehindWrite, Stale
  <1>5. ASSUME FinishWrite PROVE OwedInv'
    BY <1>5, <1>a, <1>b DEF FinishWrite
  <1>6. ASSUME RefuseWrite PROVE OwedInv'
    BY <1>6, <1>a, <1>b DEF RefuseWrite
  <1>7. ASSUME TakeGitGuard PROVE OwedInv'
    BY <1>7, <1>a, <1>b DEF TakeGitGuard
  <1>8. ASSUME RunGit PROVE OwedInv'
    BY <1>8, <1>a, <1>b DEF RunGit, Change
  <1>9. ASSUME RecordGit PROVE OwedInv'
    BY <1>9, <1>a, <1>b DEF RecordGit, Rewrote, Rerun, HasIndex
  <1>10. ASSUME FinishGit PROVE OwedInv'
    BY <1>10, <1>a, <1>b DEF FinishGit
  <1>11. ASSUME ReportEvent PROVE OwedInv'
    BY <1>11, <1>a, <1>b DEF ReportEvent
  <1>12. ASSUME ForwardIntent PROVE OwedInv'
    BY <1>12, <1>a, <1>b DEF ForwardIntent
  <1>13. ASSUME InstallModel PROVE OwedInv'
    BY <1>13, <1>a, <1>b DEF InstallModel, AfterSetup
  <1>14. ASSUME WakeRetry PROVE OwedInv'
    BY <1>14, <1>a, <1>b DEF WakeRetry, HasIndex
  <1>15. ASSUME StartIndex PROVE OwedInv'
    BY <1>15, <1>a, <1>b DEF StartIndex
  <1>16. ASSUME EndDeferred PROVE OwedInv'
    BY <1>16, <1>a, <1>b DEF EndDeferred
  <1>17. ASSUME TakeReadGuard PROVE OwedInv'
    BY <1>17, <1>a, <1>b DEF TakeReadGuard
  <1>18. ASSUME MarkOpening PROVE OwedInv'
    BY <1>18, <1>a, <1>b DEF MarkOpening, Stale
  <1>19. ASSUME OpenStatus PROVE OwedInv'
    BY <1>19, <1>a, <1>b DEF OpenStatus
  <1>20. ASSUME Scan PROVE OwedInv'
    BY <1>20, <1>a, <1>b DEF Scan
  <1>21. ASSUME PublishStructure PROVE OwedInv'
    BY <1>21, <1>a, <1>b DEF PublishStructure
  <1>22. ASSUME ReleaseReads PROVE OwedInv'
    BY <1>22, <1>a, <1>b DEF ReleaseReads
  <1>23. ASSUME RetakeGuard PROVE OwedInv'
    BY <1>23, <1>a, <1>b DEF RetakeGuard
  <1>24. ASSUME PublishRow PROVE OwedInv'
    BY <1>24, <1>a, <1>b DEF PublishRow
  <1>25. ASSUME FinishIndex PROVE OwedInv'
    BY <1>25, <1>a, <1>b DEF FinishIndex
  <1>26. ASSUME PauseIndex PROVE OwedInv'
    BY <1>26, <1>a, <1>b DEF PauseIndex
  <1>27. ASSUME FailIndex PROVE OwedInv'
    BY <1>27, <1>a, <1>b DEF FailIndex, Stale
  <1>28. ASSUME EndFailed PROVE OwedInv'
    <2>1. turn'.stage = "none" /\ UNCHANGED <<model, write, holder, git>>
      BY <1>28 DEF EndFailed
    <2>2. CASE Retries
      <3>1. timers' = timers + 1
        BY <1>28, <2>2 DEF EndFailed
      <3>2. timers' > 0
        BY <3>1, <1>c
      <3> QED BY <2>1, <3>2
    <2>3. CASE ~Retries
      <3>1. excused' = "gave up"
        BY <1>28, <2>3 DEF EndFailed, Retries
      <3> QED BY <2>1, <3>1
    <2> QED BY <2>2, <2>3
  <1>29. ASSUME UNCHANGED vars PROVE OwedInv'
    BY <1>29, <1>a, <1>b DEF vars
  <1> QED BY <1>1, <1>2, <1>3, <1>4, <1>5, <1>6, <1>7, <1>8, <1>9, <1>10, <1>11, <1>12,
             <1>13, <1>14, <1>15, <1>16, <1>17, <1>18, <1>19, <1>20, <1>21, <1>22,
             <1>23, <1>24, <1>25, <1>26, <1>27, <1>28, <1>29
          DEF Next, WriteStep, GitStep, AskStep, IndexStep

-----------------------------------------------------------------------------
IInv == TypeOK /\ ReadInv /\ StatusInv /\ OwedInv

LEMMA InvInit == Init => IInv
  BY TypeInit, ReadInit, StatusInit, OwedInit DEF IInv

LEMMA InvStep == IInv /\ [Next]_vars => IInv'
  BY TypeStep, ReadStep, StatusStep, OwedStep DEF IInv

\* Whatever overtakes an Index turn, no row reads fresh without the writes that were
\* reported stale (#324).
THEOREM FreshRowsHoldWrites == Spec => []FreshHasEveryWrite
  <1>1. IInv => FreshHasEveryWrite
    BY DEF IInv, ReadInv, FreshHasEveryWrite
  <1> QED BY InvInit, InvStep, <1>1, PTL DEF Spec

\* A Vault claims search only over a row that answers it.
THEOREM SearchClaimsAreBacked == Spec => []SearchIsBacked
  <1>1. IInv => SearchIsBacked
    BY DEF IInv, StatusInv
  <1> QED BY InvInit, InvStep, <1>1, PTL DEF Spec

\* Only the publications under the exclusion make a row fresh, and what they publish
\* holds every write and recorded sync (#223, #549).
LEMMA PublishedFresh ==
  ASSUME IInv, [Next]_vars, row' # row, row'.fresh
  PROVE  row'.version >= guarded
  <1>1. row \in Row /\ turn \in Turn /\ moved \in BOOLEAN
    BY DEF IInv, TypeOK, FlagsOK
  <1>2. CASE PublishStructure
    BY <1>1, <1>2 DEF PublishStructure, IInv, ReadInv, ReadIsNewest
  <1>3. CASE PublishRow
    <2>1. turn.stage = "publishing" /\ ~moved /\ row'.version = turn.read
      BY <1>1, <1>3 DEF PublishRow
    <2> QED BY <2>1 DEF IInv, ReadInv, ReadIsNewest
  <1>4. CASE MarkOpening \/ MarkBehindWrite \/ FailIndex
    BY <1>1, <1>4 DEF MarkOpening, MarkBehindWrite, FailIndex, Stale, Row
  <1>5. CASE UNCHANGED row
    BY <1>5
  <1>6. PublishStructure \/ PublishRow \/ MarkOpening \/ MarkBehindWrite \/ FailIndex
          \/ UNCHANGED row
    BY DEF Next, WriteStep, GitStep, AskStep, IndexStep, vars, OutsideEdit,
       TakeWriteGuard, WriteLands, FinishWrite, RefuseWrite, TakeGitGuard, RunGit,
       RecordGit, FinishGit, ReportEvent, ForwardIntent, InstallModel, WakeRetry,
       StartIndex, EndDeferred, TakeReadGuard, OpenStatus, Scan, ReleaseReads,
       RetakeGuard, FinishIndex, PauseIndex, EndFailed
  <1> QED BY <1>2, <1>3, <1>4, <1>5, <1>6

THEOREM PublishesFreshOnlyWhatIsNewest == Spec => FreshWhenPublished
  <1>1. IInv /\ [Next]_vars => [row' # row /\ row'.fresh => row'.version >= guarded]_vars
    BY PublishedFresh
  <1> QED BY InvInit, InvStep, <1>1, PTL DEF Spec, FreshWhenPublished

\* A step that takes the status away from ready leaves no row that reads fresh (#483).
LEMMA LeavesReady ==
  ASSUME IInv, [Next]_vars, status = "ready", status' # "ready"
  PROVE  ~row'.fresh
  <1> USE DEF IInv, StatusInv, Building
  <1>1. row \in Row
    BY DEF TypeOK
  <1>2. CASE OpenStatus \/ FinishIndex \/ EndFailed
    BY <1>2, <1>1 DEF OpenStatus, FinishIndex, EndFailed
  <1>3. CASE PublishStructure \/ RetakeGuard \/ PauseIndex
    BY <1>3 DEF PublishStructure, RetakeGuard, ReadyAhead, PauseIndex
  <1>4. OpenStatus \/ FinishIndex \/ EndFailed \/ PublishStructure \/ RetakeGuard
          \/ PauseIndex \/ UNCHANGED status
    BY DEF Next, WriteStep, GitStep, AskStep, IndexStep, vars, OutsideEdit,
       TakeWriteGuard, WriteLands, MarkBehindWrite, FinishWrite, RefuseWrite,
       TakeGitGuard, RunGit, RecordGit, FinishGit, ReportEvent, ForwardIntent,
       InstallModel, WakeRetry, StartIndex, EndDeferred, TakeReadGuard, MarkOpening, Scan,
       ReleaseReads, PublishRow, FailIndex
  <1> QED BY <1>2, <1>3, <1>4

THEOREM StatusTracksRow == Spec => StatusFollowsRow
  <1>1. IInv => (status = "stale" => ~row.fresh) /\ SearchIsBacked
    BY DEF IInv, StatusInv
  <1>2. IInv /\ [Next]_vars => [status = "ready" /\ status' # "ready" => ~row'.fresh]_vars
    BY LeavesReady
  <1> QED BY InvInit, InvStep, <1>1, <1>2, PTL DEF Spec, StatusFollowsRow

\* However writes, syncs, edits, failures, pauses and the missing model meet the turn,
\* nothing comes to rest behind the Markdown, but for the two excuses.
THEOREM CatchUpIsOwed == Spec => []CatchUpOwed
  <1>1. IInv => CatchUpOwed
    BY DEF IInv, TypeOK, CountsOK, OwedInv, Reported, CatchUpOwed, Quiescent
  <1> QED BY InvInit, InvStep, <1>1, PTL DEF Spec
=============================================================================

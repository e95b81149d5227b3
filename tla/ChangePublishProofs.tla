------------------------ MODULE ChangePublishProofs ------------------------
(***************************************************************************)
(* Proofs that the steps of ChangePublish keep their types, and, as long   *)
(* as the metadata writes themselves do not raise ("mark" \notin Faults),  *)
(* that every original an unfinished apply has overwritten is on disk      *)
(* (WriteAhead) and that no journal is left behind for a ChangeSet that    *)
(* can still be discarded (JournalSetAside).  When journals do not fail to *)
(* be written or removed either, no published file is orphaned             *)
(* (NoOrphanPublication) and a start-up keeps what was committed           *)
(* (CommitSurvivesRestart).                                                *)
(*                                                                         *)
(* The inductive invariant IInv is proved part by part, each with the      *)
(* parts it rests on: types and program counter, memory and journals,      *)
(* owners, backups, and WriteAhead last.  A lemma has one step per action  *)
(* that can disturb its part.  OInv adds who answers for a published file. *)
(***************************************************************************)
EXTENDS ChangePublish, TLAPS

Values == Contents \cup {Absent}

\* The empty tree is a tree.
LEMMA EmptyTyped == Empty \in Tree
BY DEF Empty, Tree

\* What a call wants at a file, found there, or puts back, is a file's content.
LEMMA ValuesTyped ==
    ASSUME TypeOK, cur # NoSet, NEW f \in Files
    PROVE  /\ Goal(f) \in Values /\ Prior(f) \in Values /\ Desired(f) \in Values
           /\ base[cur][f] \in Values
BY DEF Values, TypeOK, Tree, Goal, Prior, Desired

\* Writing one file keeps the workspace and its owners typed.
LEMMA PutTyped ==
    ASSUME TypeOK, NEW f \in Files, NEW v \in Values,
           NEW who \in ChangeSets \cup {NoSet}, Put(f, v, who)
    PROVE  ws' \in Tree /\ writer' \in [Files -> ChangeSets \cup {NoSet}]
BY DEF Values, TypeOK, Tree, Put

\* So does writing a status, whether it raises or not.
LEMMA MarkTyped ==
    ASSUME TypeOK, NEW s \in Status, Mark(s) \/ MarkRaises(s)
    PROVE  /\ dstat' \in [ChangeSets -> Status] /\ mem' \in [ChangeSets -> Status]
           /\ faults' \in Nat
BY DEF TypeOK, Mark, MarkRaises, Raises, Succeeds

\* Types, and the call each step belongs to, are inductive together: the journal
\* names an operation because only apply and undo reach BeginPublish.
LEMMA TypeStep ==
    ASSUME TypeOK, KindOfStep, [Next]_vars
    PROVE  TypeOK' /\ KindOfStep'
<1> USE PublishAssumption DEF TypeOK, KindOfStep, Steps, disk, plan, call, bounds
<1>1. ASSUME ApplyRefused
      PROVE TypeOK' /\ KindOfStep'
  BY <1>1, EmptyTyped DEF ApplyRefused, Empty, NoCall, Return
<1>2. ASSUME ApplyRejected
      PROVE TypeOK' /\ KindOfStep'
  BY <1>2, MarkTyped, EmptyTyped
     DEF ApplyRejected, Empty, NoCall, Return, Status
<1>3. ASSUME ApplyValidated
      PROVE TypeOK' /\ KindOfStep'
  BY <1>3 DEF ApplyValidated, Goto
<1>4. ASSUME UndoRefused
      PROVE TypeOK' /\ KindOfStep'
  BY <1>4, EmptyTyped DEF UndoRefused, Empty, NoCall, Return
<1>5. ASSUME UndoValidated
      PROVE TypeOK' /\ KindOfStep'
  BY <1>5 DEF UndoValidated, Goto
<1>6. ASSUME MakeUndoDir
      PROVE TypeOK' /\ KindOfStep'
  BY <1>6 DEF MakeUndoDir, Changed, GotoWith, Succeeds
<1>7. ASSUME MakeUndoDirFails
      PROVE TypeOK' /\ KindOfStep'
  BY <1>7 DEF MakeUndoDirFails, Goto, Raises, Succeeds
<1>8. ASSUME NEW f \in Files, BackUp(f)
      PROVE TypeOK' /\ KindOfStep'
  BY <1>8, ValuesTyped DEF BackUp, GotoWith, SaveBackup, Succeeds, Tree, Values
<1>9. ASSUME NEW f \in Files, BackUpFails(f)
      PROVE TypeOK' /\ KindOfStep'
  <2>1. cur \in ChangeSets /\ base[cur][f] \in Values
    BY <1>9, ValuesTyped DEF BackUpFails
  <2>2. CASE backup' = backup
    BY <1>9, <2>2 DEF BackUpFails, GotoWith, Raises
  <2>3. CASE SaveBackup(f)
    <3>1. backup' \in [ChangeSets -> Tree]
      BY <2>1, <2>3 DEF SaveBackup, Tree, Values
    <3> QED
      BY <1>9, <3>1 DEF BackUpFails, GotoWith, Raises
  <2> QED
    BY <1>9, <2>2, <2>3 DEF BackUpFails
<1>10. ASSUME BeginPublish
      PROVE TypeOK' /\ KindOfStep'
  BY <1>10
     DEF BeginPublish, Changed, GotoWith, ReadyToBegin, SetJournal, Succeeds
<1>11. ASSUME BeginPublishFails
      PROVE TypeOK' /\ KindOfStep'
  BY <1>11 DEF BeginPublishFails, Goto, Raises, ReadyToBegin, SetJournal
<1>12. ASSUME NEW f \in Files, WriteTarget(f)
      PROVE TypeOK' /\ KindOfStep'
  BY <1>12, PutTyped, ValuesTyped DEF WriteTarget, Replaced, Values, Gone, Owner, Succeeds, Tree
<1>13. ASSUME NEW f \in Files, WriteTargetFails(f)
      PROVE TypeOK' /\ KindOfStep'
  BY <1>13, PutTyped, ValuesTyped
     DEF WriteTargetFails, Gone, GotoWith, Owner, Raises, Succeeds, Tree
<1>14. ASSUME NEW f \in Files, RollBack(f)
      PROVE TypeOK' /\ KindOfStep'
  <2>1. /\ RolledBackTo(f) \in Values
        /\ RollBackOwner(f) \in ChangeSets \cup {NoSet}
    BY <1>14 DEF RollBack, RolledBackTo, RollBackOwner, Values, Tree
  <2>2. ws' \in Tree /\ writer' \in [Files -> ChangeSets \cup {NoSet}]
    BY <1>14, <2>1, PutTyped DEF RollBack
  <2> QED
    BY <1>14, <2>2 DEF RollBack, Raises, Succeeds
<1>15. ASSUME RolledBack
      PROVE TypeOK' /\ KindOfStep'
  BY <1>15 DEF RolledBack
<1>16. ASSUME MarkFailed
      PROVE TypeOK' /\ KindOfStep'
  BY <1>16, MarkTyped, EmptyTyped DEF MarkFailed, Empty, NoCall, Return, Status
<1>17. ASSUME MarkFailedFails
      PROVE TypeOK' /\ KindOfStep'
  BY <1>17, MarkTyped, EmptyTyped
     DEF MarkFailedFails, Empty, NoCall, Return, Status
<1>18. ASSUME Commit
      PROVE TypeOK' /\ KindOfStep'
  BY <1>18, MarkTyped DEF Commit, GotoWith, Outcome, Status
<1>19. ASSUME CommitFails
      PROVE TypeOK' /\ KindOfStep'
  BY <1>19, MarkTyped, EmptyTyped
     DEF CommitFails, Empty, NoCall, Outcome, Return, Status
<1>20. ASSUME FinishPublish
      PROVE TypeOK' /\ KindOfStep'
  BY <1>20, EmptyTyped
     DEF FinishPublish, Empty, Goto, NoCall, Return, SetJournal, Succeeds
<1>21. ASSUME FinishPublishFails
      PROVE TypeOK' /\ KindOfStep'
  BY <1>21, EmptyTyped
     DEF FinishPublishFails, Empty, NoCall, Raises, Return, SetJournal
<1>22. ASSUME NEW f \in Files, RemoveStaged(f)
      PROVE TypeOK' /\ KindOfStep'
  BY <1>22 DEF RemoveStaged, Empty, Holds, Tree
<1>23. ASSUME RemoveStage
      PROVE TypeOK' /\ KindOfStep'
  BY <1>23, EmptyTyped DEF RemoveStage, Empty, Goto, Holds, NoCall, Return
<1>24. ASSUME RemoveStageFails
      PROVE TypeOK' /\ KindOfStep'
  BY <1>24, EmptyTyped DEF RemoveStageFails, Empty, NoCall, Raises, Return
<1>25. ASSUME NEW c \in ChangeSets, Discard(c)
      PROVE TypeOK' /\ KindOfStep'
  BY <1>25 DEF Discard
<1>26. ASSUME RecordDiscard
      PROVE TypeOK' /\ KindOfStep'
  BY <1>26, EmptyTyped
     DEF RecordDiscard, Empty, NoCall, Raises, Return, Status, Succeeds
<1>27. ASSUME RecoverCommitted
      PROVE TypeOK' /\ KindOfStep'
  BY <1>27 DEF RecoverCommitted, Committed, Goto
<1>28. ASSUME RecoverRefused
      PROVE TypeOK' /\ KindOfStep'
  BY <1>28 DEF RecoverRefused, Committed, Goto
<1>29. ASSUME RecoverBegin
      PROVE TypeOK' /\ KindOfStep'
  BY <1>29 DEF RecoverBegin, Changed, Committed, GotoWith
<1>30. ASSUME NEW f \in Files, Restore(f)
      PROVE TypeOK' /\ KindOfStep'
  BY <1>30, PutTyped, ValuesTyped
     DEF Restore, GotoWith, RestoredOwner, Succeeds, Tree
<1>31. ASSUME NEW f \in Files, RestoreFails(f)
      PROVE TypeOK' /\ KindOfStep'
  BY <1>31, PutTyped, ValuesTyped
     DEF RestoreFails, GotoWith, Raises, RestoredOwner, Tree
<1>32. ASSUME MarkRecovered
      PROVE TypeOK' /\ KindOfStep'
  BY <1>32, MarkTyped DEF MarkRecovered, Goto, RecoveredStatus, Status
<1>33. ASSUME MarkRecoveredFails
      PROVE TypeOK' /\ KindOfStep'
  BY <1>33, MarkTyped DEF MarkRecoveredFails, Goto, RecoveredStatus, Status
<1>34. ASSUME NEW f \in Files, CleanBackup(f)
      PROVE TypeOK' /\ KindOfStep'
  BY <1>34 DEF CleanBackup, Empty, Tree
<1>35. ASSUME CleanUndoDir
      PROVE TypeOK' /\ KindOfStep'
  BY <1>35 DEF CleanUndoDir, Goto
<1>36. ASSUME CleanFails
      PROVE TypeOK' /\ KindOfStep'
  BY <1>36 DEF CleanFails, Goto, Raises
<1>37. ASSUME RecoverFinish
      PROVE TypeOK' /\ KindOfStep'
  BY <1>37, EmptyTyped
     DEF RecoverFinish, Empty, NoCall, Resume, Return, SetJournal, Succeeds
<1>38. ASSUME RecoverFinishFails
      PROVE TypeOK' /\ KindOfStep'
  BY <1>38 DEF RecoverFinishFails, Goto, Raises, SetJournal
<1>39. ASSUME MarkRefused
      PROVE TypeOK' /\ KindOfStep'
  BY <1>39, MarkTyped, EmptyTyped
     DEF MarkRefused, Empty, NoCall, RefusedStatus, Resume, Return, Status
<1>40. ASSUME MarkRefusedFails
      PROVE TypeOK' /\ KindOfStep'
  BY <1>40, EmptyTyped
     DEF MarkRefusedFails, Empty, NoCall, Raises, RefusedStatus, Status
<1>41. ASSUME NEW c \in ChangeSets, TakeBaseline(c)
      PROVE TypeOK' /\ KindOfStep'
  BY <1>41 DEF TakeBaseline, Tree, Unused
<1>42. ASSUME NEW c \in ChangeSets, NEW t \in Tree,
           NEW s \in {"pending", "draft"}, Create(c, t, s)
      PROVE TypeOK' /\ KindOfStep'
  <2>1. new' \in [ChangeSets -> Tree] /\ stageDir' \in [ChangeSets -> BOOLEAN]
    BY <1>42 DEF Create
  <2>2. staged' \in [ChangeSets -> Tree]
    <3>1. [f \in Files |-> IF t[f] = base[c][f] THEN Absent ELSE t[f]] \in Tree
      BY DEF Tree
    <3> QED
      BY <1>42, <3>1 DEF Create
  <2>3. /\ dstat' \in [ChangeSets -> Status] /\ mem' \in [ChangeSets -> Status]
        /\ faults' \in Nat
    BY <1>42 DEF Create, Status, Raises, Succeeds
  <2> QED
    BY <1>42, <2>1, <2>2, <2>3 DEF Create
<1>43. ASSUME NEW c \in ChangeSets, NEW k \in {"apply", "undo"}, Enter(c, k)
      PROVE TypeOK' /\ KindOfStep'
  BY <1>43 DEF Enter
<1>44. ASSUME Crash
      PROVE TypeOK' /\ KindOfStep'
  BY <1>44, EmptyTyped DEF Crash, Empty, NoCall, Status
<1>45. ASSUME Start
      PROVE TypeOK' /\ KindOfStep'
  BY <1>45 DEF Start
<1>46. ASSUME NEW c \in ChangeSets, BootRecover(c)
      PROVE TypeOK' /\ KindOfStep'
  BY <1>46 DEF BootRecover
<1>47. ASSUME BootDone
      PROVE TypeOK' /\ KindOfStep'
  BY <1>47 DEF BootDone
<1>48. ASSUME NEW c \in ChangeSets, NEW f \in Files,
           NEW v \in Contents \cup {Absent}, StageEdit(c, f, v)
      PROVE TypeOK' /\ KindOfStep'
  BY <1>48 DEF StageEdit, Changed, Empty, Tree, Values
<1>49. ASSUME NEW f \in Files, NEW v \in Contents \cup {Absent}, ManagedSave(f, v)
      PROVE TypeOK' /\ KindOfStep'
  BY <1>49, PutTyped DEF ManagedSave, Edit, Tree, Values
<1>50. ASSUME NEW f \in Files, NEW v \in Contents \cup {Absent}, OfflineEdit(f, v)
      PROVE TypeOK' /\ KindOfStep'
  BY <1>50, PutTyped DEF OfflineEdit, Edit, Tree, Values
<1>51. ASSUME NEW f \in Files, NEW v \in Contents \cup {Absent}, ExternalEdit(f, v)
      PROVE TypeOK' /\ KindOfStep'
  BY <1>51, PutTyped DEF ExternalEdit, Edit, Tree, Values
<1>52. CASE UNCHANGED vars
  BY <1>52 DEF vars, Tree
<1>53. CASE CallStep
  BY <1>53, <1>1, <1>2, <1>3, <1>4, <1>5, <1>6, <1>7, <1>8, <1>9, <1>10,
     <1>11, <1>12, <1>13, <1>14, <1>15, <1>16, <1>17, <1>18, <1>19, <1>20,
     <1>21, <1>22, <1>23, <1>24, <1>26, <1>27, <1>28, <1>29, <1>30, <1>31,
     <1>32, <1>33, <1>34, <1>35, <1>36, <1>37, <1>38, <1>39, <1>40, <1>46,
     <1>47
     DEF CallStep
<1>54. CASE Environment
  BY <1>54, <1>41, <1>42, <1>43, <1>44, <1>45, <1>25, <1>48, <1>49, <1>50,
     <1>51
     DEF Environment
<1> QED
  BY <1>52, <1>53, <1>54 DEF Next

\* Memory follows the metadata, and every journal is in somebody's hand.
LEMMA ControlStep ==
    ASSUME TypeOK, KindOfStep, MemoryMirrorsDisk, JournalOfStep,
           JournalInHand, TypeOK', [Next]_vars, "mark" \notin Faults
    PROVE  MemoryMirrorsDisk' /\ JournalOfStep' /\ JournalInHand'
<1> DEFINE Goals == MemoryMirrorsDisk /\ JournalOfStep /\ JournalInHand
<1> USE PublishAssumption
       DEF TypeOK, KindOfStep, MemoryMirrorsDisk, JournalOfStep,
           JournalInHand, Steps, Status, disk, plan, call, bounds, Changed
<1>1. ASSUME ApplyRefused PROVE Goals'
  BY <1>1 DEF ApplyRefused, NoCall, Return
<1>2. ASSUME ApplyRejected PROVE Goals'
  BY <1>2 DEF ApplyRejected, Mark, MarkRaises, NoCall, Raises, Return, Succeeds
<1>3. ASSUME ApplyValidated PROVE Goals'
  BY <1>3 DEF ApplyValidated, Goto
<1>4. ASSUME UndoRefused PROVE Goals'
  BY <1>4 DEF UndoRefused, NoCall, Return, UndoReady
<1>5. ASSUME UndoValidated PROVE Goals'
  BY <1>5 DEF UndoValidated, Goto, UndoReady
<1>6. ASSUME MakeUndoDir PROVE Goals'
  BY <1>6 DEF MakeUndoDir, GotoWith, Succeeds
<1>7. ASSUME MakeUndoDirFails PROVE Goals'
  BY <1>7 DEF MakeUndoDirFails, Goto, Raises, Succeeds
<1>8. ASSUME NEW f \in Files, BackUp(f) PROVE Goals'
  BY <1>8 DEF BackUp, GotoWith, SaveBackup, Succeeds
<1>9. ASSUME NEW f \in Files, BackUpFails(f) PROVE Goals'
  BY <1>9 DEF BackUpFails, GotoWith, Raises, SaveBackup
<1>10. ASSUME BeginPublish PROVE Goals'
  BY <1>10 DEF BeginPublish, GotoWith, ReadyToBegin, SetJournal, Succeeds
<1>11. ASSUME BeginPublishFails PROVE Goals'
  BY <1>11 DEF BeginPublishFails, Goto, Raises, ReadyToBegin, SetJournal
<1>12. ASSUME NEW f \in Files, WriteTarget(f) PROVE Goals'
  BY <1>12 DEF WriteTarget, Goal, Gone, Owner, Put, Succeeds
<1>13. ASSUME NEW f \in Files, WriteTargetFails(f) PROVE Goals'
  BY <1>13
     DEF WriteTargetFails, Goal, Gone, GotoWith, Owner, Put, Raises, Succeeds
<1>14. ASSUME NEW f \in Files, RollBack(f) PROVE Goals'
  BY <1>14 DEF RollBack, Put, Raises, RollBackOwner, RolledBackTo, Succeeds
<1>15. ASSUME RolledBack PROVE Goals'
  BY <1>15 DEF RolledBack
<1>16. ASSUME MarkFailed PROVE Goals'
  BY <1>16 DEF MarkFailed, Mark, NoCall, Return, Succeeds
<1>17. ASSUME MarkFailedFails PROVE Goals'
  BY <1>17 DEF MarkFailedFails, MarkRaises, NoCall, Raises, Return
<1>18. ASSUME Commit PROVE Goals'
  BY <1>18 DEF Commit, GotoWith, Mark, Outcome, Succeeds
<1>19. ASSUME CommitFails PROVE Goals'
  BY <1>19 DEF CommitFails, MarkRaises, NoCall, Outcome, Raises, Return
<1>20. ASSUME FinishPublish PROVE Goals'
  BY <1>20 DEF FinishPublish, Goto, NoCall, Return, SetJournal, Succeeds
<1>21. ASSUME FinishPublishFails PROVE Goals'
  BY <1>21 DEF FinishPublishFails, NoCall, Raises, Return, SetJournal
<1>22. ASSUME NEW f \in Files, RemoveStaged(f) PROVE Goals'
  BY <1>22 DEF RemoveStaged, Holds, Tree
<1>23. ASSUME RemoveStage PROVE Goals'
  BY <1>23 DEF RemoveStage, Goto, Holds, NoCall, Return, Tree
<1>24. ASSUME RemoveStageFails PROVE Goals'
  BY <1>24 DEF RemoveStageFails, NoCall, Raises, Return
<1>25. ASSUME NEW c \in ChangeSets, Discard(c) PROVE Goals'
  BY <1>25 DEF Discard
<1>26. ASSUME RecordDiscard PROVE Goals'
  BY <1>26 DEF RecordDiscard, NoCall, Raises, Return, Succeeds
<1>27. ASSUME RecoverCommitted PROVE Goals'
  BY <1>27 DEF RecoverCommitted, Committed, Goto
<1>28. ASSUME RecoverRefused PROVE Goals'
  BY <1>28 DEF RecoverRefused, Committed, Desired, Goto, Recoverable
<1>29. ASSUME RecoverBegin PROVE Goals'
  BY <1>29 DEF RecoverBegin, Committed, Desired, GotoWith, Recoverable
<1>30. ASSUME NEW f \in Files, Restore(f) PROVE Goals'
  BY <1>30 DEF Restore, Desired, GotoWith, Put, RestoredOwner, Succeeds
<1>31. ASSUME NEW f \in Files, RestoreFails(f) PROVE Goals'
  BY <1>31 DEF RestoreFails, Desired, GotoWith, Put, Raises, RestoredOwner
<1>32. ASSUME MarkRecovered PROVE Goals'
  BY <1>32 DEF MarkRecovered, Goto, Mark, RecoveredStatus, Succeeds
<1>33. ASSUME MarkRecoveredFails PROVE Goals'
  BY <1>33 DEF MarkRecoveredFails, Goto, MarkRaises, Raises, RecoveredStatus
<1>34. ASSUME NEW f \in Files, CleanBackup(f) PROVE Goals'
  BY <1>34 DEF CleanBackup, Tree
<1>35. ASSUME CleanUndoDir PROVE Goals'
  BY <1>35 DEF CleanUndoDir, Goto, Tree
<1>36. ASSUME CleanFails PROVE Goals'
  BY <1>36 DEF CleanFails, Goto, Raises
<1>37. ASSUME RecoverFinish PROVE Goals'
  BY <1>37 DEF RecoverFinish, NoCall, Resume, Return, SetJournal, Succeeds
<1>38. ASSUME RecoverFinishFails PROVE Goals'
  BY <1>38 DEF RecoverFinishFails, Goto, Raises, SetJournal
<1>39. ASSUME MarkRefused PROVE Goals'
  BY <1>39
     DEF MarkRefused, Mark, NoCall, RefusedStatus, Resume, Return, Succeeds
<1>40. ASSUME MarkRefusedFails PROVE Goals'
  BY <1>40 DEF MarkRefusedFails, NoCall, Raises, RefusedStatus
<1>41. ASSUME NEW c \in ChangeSets, TakeBaseline(c) PROVE Goals'
  BY <1>41 DEF TakeBaseline, Tree, Unused
<1>42. ASSUME NEW c \in ChangeSets, NEW t \in Tree,
           NEW s \in {"pending", "draft"}, Create(c, t, s)
      PROVE Goals'
  BY <1>42 DEF Create, Raises, Succeeds, Tree, Unused
<1>43. ASSUME NEW c \in ChangeSets, NEW k \in {"apply", "undo"}, Enter(c, k)
      PROVE Goals'
  BY <1>43 DEF Enter
<1>44. ASSUME Crash PROVE Goals'
  BY <1>44 DEF Crash, NoCall
<1>45. ASSUME Start PROVE Goals'
  BY <1>45 DEF Start
<1>46. ASSUME NEW c \in ChangeSets, BootRecover(c) PROVE Goals'
  BY <1>46 DEF BootRecover
<1>47. ASSUME BootDone PROVE Goals'
  BY <1>47 DEF BootDone
<1>48. ASSUME NEW c \in ChangeSets, NEW f \in Files,
           NEW v \in Contents \cup {Absent}, StageEdit(c, f, v)
      PROVE Goals'
  BY <1>48 DEF StageEdit
<1>49. ASSUME NEW f \in Files, NEW v \in Contents \cup {Absent}, ManagedSave(f, v)
      PROVE Goals'
  BY <1>49 DEF ManagedSave, Edit, Put
<1>50. ASSUME NEW f \in Files, NEW v \in Contents \cup {Absent}, OfflineEdit(f, v)
      PROVE Goals'
  BY <1>50 DEF OfflineEdit, Edit, Put
<1>51. ASSUME NEW f \in Files, NEW v \in Contents \cup {Absent}, ExternalEdit(f, v)
      PROVE Goals'
  BY <1>51 DEF ExternalEdit, Edit, Put
<1>52. CASE UNCHANGED vars
  BY <1>52 DEF vars
<1>53. CASE CallStep
  BY <1>53, <1>1, <1>2, <1>3, <1>4, <1>5, <1>6, <1>7, <1>8, <1>9, <1>10,
     <1>11, <1>12, <1>13, <1>14, <1>15, <1>16, <1>17, <1>18, <1>19, <1>20,
     <1>21, <1>22, <1>23, <1>24, <1>26, <1>27, <1>28, <1>29, <1>30, <1>31,
     <1>32, <1>33, <1>34, <1>35, <1>36, <1>37, <1>38, <1>39, <1>40, <1>46,
     <1>47
     DEF CallStep
<1>54. CASE Environment
  BY <1>54, <1>41, <1>42, <1>43, <1>44, <1>45, <1>25, <1>48, <1>49, <1>50,
     <1>51
     DEF Environment
<1> QED
  BY <1>52, <1>53, <1>54 DEF Next

\* An owner that writes a file writes its own reviewed content.
LEMMA PutKeepsOwnerContent ==
    ASSUME TypeOK, OwnerContent, new' = new,
           NEW f \in Files, NEW v, NEW who \in ChangeSets \cup {NoSet},
           Put(f, v, who) \/ UNCHANGED <<ws, writer>>,
           who # NoSet => v = new[who][f]
    PROVE  OwnerContent'
<1> SUFFICES ASSUME NEW g \in Files, NEW c \in ChangeSets, writer'[g] = c
             PROVE  ws'[g] = new[c][g]
  BY DEF OwnerContent
<1>1. CASE UNCHANGED <<ws, writer>>
  BY <1>1 DEF OwnerContent
<1>2. CASE Put(f, v, who)
  <2>1. ws'[g] = IF g = f THEN v ELSE ws[g]
    BY <1>2 DEF TypeOK, Tree, Put
  <2>2. writer'[g] = IF g = f THEN who ELSE writer[g]
    BY <1>2 DEF TypeOK, Put
  <2> QED
    BY <2>1, <2>2, PublishAssumption DEF OwnerContent
<1> QED
  BY <1>1, <1>2

\* A file that still belongs to a publication holds what it published.
LEMMA OwnerStep ==
    ASSUME TypeOK, KindOfStep, MemoryMirrorsDisk, OwnerContent, TypeOK',
           [Next]_vars, "mark" \notin Faults
    PROVE  OwnerContent'
<1> USE PublishAssumption DEF disk, plan, call, bounds
<1>0. ASSUME UNCHANGED <<ws, new, writer>> PROVE OwnerContent'
  BY <1>0 DEF OwnerContent
<1>1. ASSUME NEW f \in Files, WriteTarget(f) PROVE OwnerContent'
  BY <1>1, PutKeepsOwnerContent
     DEF WriteTarget, Goal, Owner, TypeOK, KindOfStep
<1>2. ASSUME NEW f \in Files, WriteTargetFails(f) PROVE OwnerContent'
  BY <1>2, PutKeepsOwnerContent
     DEF WriteTargetFails, Goal, Owner, TypeOK, KindOfStep
<1>3. ASSUME NEW f \in Files, RollBack(f) PROVE OwnerContent'
  BY <1>3, PutKeepsOwnerContent
     DEF RollBack, RolledBackTo, RollBackOwner, Tree, TypeOK, KindOfStep
<1>4. ASSUME NEW f \in Files, Restore(f) PROVE OwnerContent'
  BY <1>4, PutKeepsOwnerContent
     DEF Restore, Desired, RestoredOwner, TypeOK, KindOfStep
<1>5. ASSUME NEW f \in Files, RestoreFails(f) PROVE OwnerContent'
  BY <1>5, PutKeepsOwnerContent
     DEF RestoreFails, Desired, RestoredOwner, TypeOK, KindOfStep
<1>6. ASSUME NEW c \in ChangeSets, NEW t \in Tree,
           NEW s \in {"pending", "draft"}, Create(c, t, s)
      PROVE OwnerContent'
  BY <1>6
     DEF Create, Changed, KindOfStep, MemoryMirrorsDisk, OwnerContent,
         Raises, Status, Steps, Succeeds, Tree, TypeOK, Unused
<1>7. ASSUME NEW f \in Files, NEW v \in Contents \cup {Absent}, ManagedSave(f, v)
      PROVE OwnerContent'
  BY <1>7
     DEF ManagedSave, Changed, Edit, KindOfStep, MemoryMirrorsDisk,
         OwnerContent, Put, Status, Steps, TypeOK
<1>8. ASSUME NEW f \in Files, NEW v \in Contents \cup {Absent}, OfflineEdit(f, v)
      PROVE OwnerContent'
  BY <1>8
     DEF OfflineEdit, Changed, Edit, KindOfStep, MemoryMirrorsDisk,
         OwnerContent, Put, Status, Steps, TypeOK
<1>9. ASSUME NEW f \in Files, NEW v \in Contents \cup {Absent}, ExternalEdit(f, v)
      PROVE OwnerContent'
  BY <1>9
     DEF ExternalEdit, Changed, Edit, KindOfStep, MemoryMirrorsDisk,
         OwnerContent, Put, Status, Steps, TypeOK
<1>10. ASSUME \/ ApplyRefused \/ ApplyRejected \/ ApplyValidated
             \/ UndoRefused \/ UndoValidated \/ MakeUndoDir
             \/ MakeUndoDirFails \/ BeginPublish \/ BeginPublishFails
      PROVE OwnerContent'
  BY <1>0, <1>10
     DEF ApplyRefused, ApplyRejected, ApplyValidated, UndoRefused,
         UndoValidated, MakeUndoDir, MakeUndoDirFails, BeginPublish,
         BeginPublishFails
<1>11. ASSUME \/ RolledBack \/ MarkFailed \/ MarkFailedFails
             \/ Commit \/ CommitFails \/ FinishPublish
             \/ FinishPublishFails \/ RemoveStage \/ RemoveStageFails
      PROVE OwnerContent'
  BY <1>0, <1>11
     DEF RolledBack, MarkFailed, MarkFailedFails, Commit, CommitFails,
         FinishPublish, FinishPublishFails, RemoveStage, RemoveStageFails
<1>12. ASSUME \/ RecordDiscard \/ RecoverCommitted \/ RecoverRefused
             \/ RecoverBegin \/ MarkRecovered \/ MarkRecoveredFails
             \/ CleanUndoDir \/ CleanFails \/ RecoverFinish
      PROVE OwnerContent'
  BY <1>0, <1>12
     DEF RecordDiscard, RecoverCommitted, RecoverRefused, RecoverBegin,
         MarkRecovered, MarkRecoveredFails, CleanUndoDir, CleanFails,
         RecoverFinish
<1>13. ASSUME \/ RecoverFinishFails \/ MarkRefused \/ MarkRefusedFails
             \/ Crash \/ Start \/ BootDone
      PROVE OwnerContent'
  BY <1>0, <1>13
     DEF RecoverFinishFails, MarkRefused, MarkRefusedFails, Crash, Start,
         BootDone
<1>14. ASSUME NEW f \in Files,
             \/ BackUp(f) \/ BackUpFails(f) \/ RemoveStaged(f)
             \/ CleanBackup(f)
      PROVE OwnerContent'
  BY <1>0, <1>14 DEF BackUp, BackUpFails, RemoveStaged, CleanBackup
<1>15. ASSUME NEW c \in ChangeSets,
             \/ Discard(c) \/ TakeBaseline(c) \/ BootRecover(c)
      PROVE OwnerContent'
  BY <1>0, <1>15 DEF Discard, TakeBaseline, BootRecover
<1>16. ASSUME NEW c \in ChangeSets, NEW k \in {"apply", "undo"}, Enter(c, k)
      PROVE OwnerContent'
  BY <1>0, <1>16 DEF Enter
<1>17. ASSUME NEW c \in ChangeSets, NEW f \in Files,
           NEW v \in Contents \cup {Absent}, StageEdit(c, f, v)
      PROVE OwnerContent'
  BY <1>0, <1>17 DEF StageEdit
<1>18. CASE UNCHANGED vars
  BY <1>0, <1>18 DEF vars
<1> QED
  BY <1>1, <1>2, <1>3, <1>4, <1>5, <1>6, <1>7, <1>8, <1>9, <1>10, <1>11,
     <1>12, <1>13, <1>14, <1>15, <1>16, <1>17, <1>18
     DEF Next, CallStep, Environment

\* The backups are complete before the first write, and no file depends on them
\* any more when they are deleted.
LEMMA BackupStep ==
    ASSUME TypeOK, KindOfStep, MemoryMirrorsDisk, JournalOfStep,
           OwnerContent, BackupsComplete, RestoredFirst, TypeOK',
           [Next]_vars, "mark" \notin Faults
    PROVE  BackupsComplete' /\ RestoredFirst'
<1> DEFINE Goals == BackupsComplete /\ RestoredFirst
<1> USE PublishAssumption
       DEF TypeOK, KindOfStep, MemoryMirrorsDisk, JournalOfStep,
           OwnerContent, BackupsComplete, RestoredFirst, Steps, Status, disk,
           plan, call, bounds, Changed
<1>1. ASSUME ApplyRefused PROVE Goals'
  BY <1>1 DEF ApplyRefused, NoCall, Return, Tree
<1>2. ASSUME ApplyRejected PROVE Goals'
  BY <1>2
     DEF ApplyRejected, Mark, MarkRaises, NoCall, Raises, Return, Succeeds,
         Tree
<1>3. ASSUME ApplyValidated PROVE Goals'
  BY <1>3 DEF ApplyValidated, Goto, Tree
<1>4. ASSUME UndoRefused PROVE Goals'
  BY <1>4 DEF UndoRefused, NoCall, Return, Tree, UndoReady
<1>5. ASSUME UndoValidated PROVE Goals'
  BY <1>5 DEF UndoValidated, Goto, Tree, UndoReady
<1>6. ASSUME MakeUndoDir PROVE Goals'
  BY <1>6 DEF MakeUndoDir, GotoWith, Succeeds, Tree
<1>7. ASSUME MakeUndoDirFails PROVE Goals'
  BY <1>7 DEF MakeUndoDirFails, Goto, Raises, Succeeds, Tree
<1>8. ASSUME NEW f \in Files, BackUp(f) PROVE Goals'
  BY <1>8 DEF BackUp, GotoWith, SaveBackup, Succeeds, Tree
<1>9. ASSUME NEW f \in Files, BackUpFails(f) PROVE Goals'
  <2>1. CASE backup' = backup
    BY <1>9, <2>1 DEF BackUpFails, GotoWith, Tree
  <2>2. CASE SaveBackup(f)
    BY <1>9, <2>2 DEF BackUpFails, GotoWith, SaveBackup, Tree
  <2> QED
    BY <1>9, <2>1, <2>2 DEF BackUpFails
<1>10. ASSUME BeginPublish PROVE Goals'
  BY <1>10 DEF BeginPublish, GotoWith, ReadyToBegin, SetJournal, Succeeds, Tree
<1>11. ASSUME BeginPublishFails PROVE Goals'
  BY <1>11 DEF BeginPublishFails, Goto, Raises, ReadyToBegin, SetJournal, Tree
<1>12. ASSUME NEW f \in Files, WriteTarget(f) PROVE Goals'
  BY <1>12 DEF WriteTarget, Goal, Gone, Owner, Put, Succeeds, Tree
<1>13. ASSUME NEW f \in Files, WriteTargetFails(f) PROVE Goals'
  BY <1>13
     DEF WriteTargetFails, Goal, Gone, GotoWith, Owner, Put, Raises,
         Succeeds, Tree
<1>14. ASSUME NEW f \in Files, RollBack(f) PROVE Goals'
  BY <1>14
     DEF RollBack, Put, Raises, RollBackOwner, RolledBackTo, Succeeds, Tree
<1>15. ASSUME RolledBack PROVE Goals'
  BY <1>15 DEF RolledBack, Tree
<1>16. ASSUME MarkFailed PROVE Goals'
  BY <1>16 DEF MarkFailed, Mark, NoCall, Return, Succeeds, Tree
<1>17. ASSUME MarkFailedFails PROVE Goals'
  BY <1>17 DEF MarkFailedFails, MarkRaises, NoCall, Raises, Return, Tree
<1>18. ASSUME Commit PROVE Goals'
  BY <1>18 DEF Commit, GotoWith, Mark, Outcome, Succeeds, Tree
<1>19. ASSUME CommitFails PROVE Goals'
  BY <1>19 DEF CommitFails, MarkRaises, NoCall, Outcome, Raises, Return, Tree
<1>20. ASSUME FinishPublish PROVE Goals'
  BY <1>20 DEF FinishPublish, Goto, NoCall, Return, SetJournal, Succeeds, Tree
<1>21. ASSUME FinishPublishFails PROVE Goals'
  BY <1>21 DEF FinishPublishFails, NoCall, Raises, Return, SetJournal, Tree
<1>22. ASSUME NEW f \in Files, RemoveStaged(f) PROVE Goals'
  BY <1>22 DEF RemoveStaged, Holds, Tree
<1>23. ASSUME RemoveStage PROVE Goals'
  BY <1>23 DEF RemoveStage, Goto, Holds, NoCall, Return, Tree
<1>24. ASSUME RemoveStageFails PROVE Goals'
  BY <1>24 DEF RemoveStageFails, NoCall, Raises, Return, Tree
<1>25. ASSUME NEW c \in ChangeSets, Discard(c) PROVE Goals'
  BY <1>25 DEF Discard, Tree
<1>26. ASSUME RecordDiscard PROVE Goals'
  BY <1>26 DEF RecordDiscard, NoCall, Raises, Return, Succeeds, Tree
<1>27. ASSUME RecoverCommitted PROVE Goals'
  BY <1>27 DEF RecoverCommitted, Committed, Goto, Tree
<1>28. ASSUME RecoverRefused PROVE Goals'
  BY <1>28 DEF RecoverRefused, Committed, Desired, Goto, Recoverable, Tree
<1>29. ASSUME RecoverBegin PROVE Goals'
  BY <1>29 DEF RecoverBegin, Committed, Desired, GotoWith, Recoverable, Tree
<1>30. ASSUME NEW f \in Files, Restore(f) PROVE Goals'
  BY <1>30 DEF Restore, Desired, GotoWith, Put, RestoredOwner, Succeeds, Tree
<1>31. ASSUME NEW f \in Files, RestoreFails(f) PROVE Goals'
  BY <1>31 DEF RestoreFails, Desired, GotoWith, Put, Raises, RestoredOwner, Tree
<1>32. ASSUME MarkRecovered PROVE Goals'
  BY <1>32 DEF MarkRecovered, Goto, Mark, RecoveredStatus, Succeeds, Tree
<1>33. ASSUME MarkRecoveredFails PROVE Goals'
  BY <1>33
     DEF MarkRecoveredFails, Goto, MarkRaises, Raises, RecoveredStatus, Tree
<1>34. ASSUME NEW f \in Files, CleanBackup(f) PROVE Goals'
  BY <1>34 DEF CleanBackup, Tree
<1>35. ASSUME CleanUndoDir PROVE Goals'
  BY <1>35 DEF CleanUndoDir, Goto, Tree
<1>36. ASSUME CleanFails PROVE Goals'
  BY <1>36 DEF CleanFails, Goto, Raises, Tree
<1>37. ASSUME RecoverFinish PROVE Goals'
  BY <1>37 DEF RecoverFinish, NoCall, Resume, Return, SetJournal, Succeeds, Tree
<1>38. ASSUME RecoverFinishFails PROVE Goals'
  BY <1>38 DEF RecoverFinishFails, Goto, Raises, SetJournal, Tree
<1>39. ASSUME MarkRefused PROVE Goals'
  BY <1>39
     DEF MarkRefused, Mark, NoCall, RefusedStatus, Resume, Return, Succeeds,
         Tree
<1>40. ASSUME MarkRefusedFails PROVE Goals'
  BY <1>40 DEF MarkRefusedFails, NoCall, Raises, RefusedStatus, Tree
<1>41. ASSUME NEW c \in ChangeSets, TakeBaseline(c) PROVE Goals'
  BY <1>41 DEF TakeBaseline, Tree, Unused
<1>42. ASSUME NEW c \in ChangeSets, NEW t \in Tree,
           NEW s \in {"pending", "draft"}, Create(c, t, s)
      PROVE Goals'
  BY <1>42 DEF Create, Raises, Succeeds, Tree, Unused
<1>43. ASSUME NEW c \in ChangeSets, NEW k \in {"apply", "undo"}, Enter(c, k)
      PROVE Goals'
  BY <1>43 DEF Enter, Tree
<1>44. ASSUME Crash PROVE Goals'
  BY <1>44 DEF Crash, NoCall, Tree
<1>45. ASSUME Start PROVE Goals'
  BY <1>45 DEF Start, Tree
<1>46. ASSUME NEW c \in ChangeSets, BootRecover(c) PROVE Goals'
  BY <1>46 DEF BootRecover, Tree
<1>47. ASSUME BootDone PROVE Goals'
  BY <1>47 DEF BootDone, Tree
<1>48. ASSUME NEW c \in ChangeSets, NEW f \in Files,
           NEW v \in Contents \cup {Absent}, StageEdit(c, f, v)
      PROVE Goals'
  BY <1>48 DEF StageEdit, Tree
<1>49. ASSUME NEW f \in Files, NEW v \in Contents \cup {Absent}, ManagedSave(f, v)
      PROVE Goals'
  BY <1>49 DEF ManagedSave, Edit, Put, Tree
<1>50. ASSUME NEW f \in Files, NEW v \in Contents \cup {Absent}, OfflineEdit(f, v)
      PROVE Goals'
  BY <1>50 DEF OfflineEdit, Edit, Put, Tree
<1>51. ASSUME NEW f \in Files, NEW v \in Contents \cup {Absent}, ExternalEdit(f, v)
      PROVE Goals'
  BY <1>51 DEF ExternalEdit, Edit, Put, Tree
<1>52. CASE UNCHANGED vars
  BY <1>52 DEF vars
<1>53. CASE CallStep
  BY <1>53, <1>1, <1>2, <1>3, <1>4, <1>5, <1>6, <1>7, <1>8, <1>9, <1>10,
     <1>11, <1>12, <1>13, <1>14, <1>15, <1>16, <1>17, <1>18, <1>19, <1>20,
     <1>21, <1>22, <1>23, <1>24, <1>26, <1>27, <1>28, <1>29, <1>30, <1>31,
     <1>32, <1>33, <1>34, <1>35, <1>36, <1>37, <1>38, <1>39, <1>40, <1>46,
     <1>47
     DEF CallStep
<1>54. CASE Environment
  BY <1>54, <1>41, <1>42, <1>43, <1>44, <1>45, <1>25, <1>48, <1>49, <1>50,
     <1>51
     DEF Environment
<1> QED
  BY <1>52, <1>53, <1>54 DEF Next

\* The three ways to disturb WriteAhead: a file changes hands, ...
LEMMA PutKeepsWriteAhead ==
    ASSUME TypeOK, WriteAhead, UNCHANGED <<backup, journal, base, new>>,
           NEW f \in Files, NEW v, NEW who \in ChangeSets \cup {NoSet},
           Put(f, v, who) \/ UNCHANGED <<ws, writer>>,
           who # NoSet /\ journal[who] = "apply" /\ f \in Changed(who)
               => backup[who][f] = base[who][f]
    PROVE  WriteAhead'
<1> SUFFICES ASSUME NEW c \in ChangeSets, journal[c] = "apply",
                    NEW g \in Changed(c), writer'[g] = c
             PROVE  backup[c][g] = base[c][g]
  BY DEF WriteAhead, Changed
<1>1. CASE UNCHANGED <<ws, writer>>
  BY <1>1 DEF WriteAhead
<1>2. CASE Put(f, v, who)
  <2>1. writer'[g] = IF g = f THEN who ELSE writer[g]
    BY <1>2 DEF TypeOK, Put, Changed
  <2> QED
    BY <2>1, PublishAssumption DEF WriteAhead
<1> QED
  BY <1>1, <1>2

\* ... the backups of one ChangeSet change, ...
LEMMA BackupKeepsWriteAhead ==
    ASSUME WriteAhead, UNCHANGED <<journal, base, new, writer>>,
           \A c \in ChangeSets \ {cur} : backup'[c] = backup[c],
           journal[cur] # "apply" \/ \A f \in Changed(cur) : writer[f] # cur
    PROVE  WriteAhead'
BY DEF WriteAhead, Changed

\* ... or a journal appears.
LEMMA JournalKeepsWriteAhead ==
    ASSUME TypeOK, cur \in ChangeSets, WriteAhead,
           UNCHANGED <<backup, base, new, writer>>,
           \/ journal' = journal
           \/ \E k \in {"none", "apply", "undo"} : SetJournal(k) /\
                 (k = "apply" => \A f \in Changed(cur) : backup[cur][f] = base[cur][f])
    PROVE  WriteAhead'
BY DEF TypeOK, WriteAhead, Changed, SetJournal

\* Put together: an original that is still needed is on disk.
LEMMA WriteAheadStep ==
    ASSUME TypeOK, KindOfStep, MemoryMirrorsDisk, JournalOfStep,
           OwnerContent, BackupsComplete, RestoredFirst, WriteAhead, TypeOK',
           [Next]_vars, "mark" \notin Faults
    PROVE  WriteAhead'
<1> USE PublishAssumption DEF disk, plan, call, bounds
<1>0. ASSUME UNCHANGED <<backup, journal, base, new, writer>> PROVE WriteAhead'
  BY <1>0 DEF WriteAhead, Changed
<1>1. ASSUME NEW f \in Files, BackUp(f) PROVE WriteAhead'
  BY <1>1, BackupKeepsWriteAhead DEF BackUp, SaveBackup, JournalOfStep, TypeOK
<1>2. ASSUME NEW f \in Files, BackUpFails(f) PROVE WriteAhead'
  BY <1>2, BackupKeepsWriteAhead DEF BackUpFails, SaveBackup, JournalOfStep, TypeOK
<1>3. ASSUME BeginPublish PROVE WriteAhead'
  BY <1>3, JournalKeepsWriteAhead
     DEF BeginPublish, ReadyToBegin, BackupsComplete, KindOfStep, TypeOK
<1>4. ASSUME BeginPublishFails PROVE WriteAhead'
  BY <1>4, JournalKeepsWriteAhead
     DEF BeginPublishFails, ReadyToBegin, BackupsComplete, KindOfStep, TypeOK
<1>5. ASSUME NEW f \in Files, WriteTarget(f) PROVE WriteAhead'
  BY <1>5, PutKeepsWriteAhead
     DEF WriteTarget, Owner, BackupsComplete, KindOfStep, TypeOK
<1>6. ASSUME NEW f \in Files, WriteTargetFails(f) PROVE WriteAhead'
  BY <1>6, PutKeepsWriteAhead
     DEF WriteTargetFails, Owner, BackupsComplete, KindOfStep, TypeOK
<1>7. ASSUME NEW f \in Files, RollBack(f) PROVE WriteAhead'
  BY <1>7, PutKeepsWriteAhead
     DEF RollBack, RollBackOwner, JournalOfStep, KindOfStep, TypeOK
<1>8. ASSUME FinishPublish PROVE WriteAhead'
  BY <1>8
     DEF FinishPublish, BackupsComplete, Changed, Goto, JournalOfStep,
         KindOfStep, MemoryMirrorsDisk, NoCall, OwnerContent, RestoredFirst,
         Return, SetJournal, Status, Steps, Succeeds, TypeOK, WriteAhead
<1>9. ASSUME FinishPublishFails PROVE WriteAhead'
  BY <1>9, JournalKeepsWriteAhead DEF FinishPublishFails, TypeOK
<1>10. ASSUME NEW f \in Files, RemoveStaged(f) PROVE WriteAhead'
  BY <1>10, BackupKeepsWriteAhead DEF RemoveStaged, JournalOfStep, TypeOK
<1>11. ASSUME NEW f \in Files, Restore(f) PROVE WriteAhead'
  BY <1>11, PutKeepsWriteAhead DEF Restore, RestoredOwner, TypeOK
<1>12. ASSUME NEW f \in Files, RestoreFails(f) PROVE WriteAhead'
  BY <1>12, PutKeepsWriteAhead DEF RestoreFails, RestoredOwner, TypeOK
<1>13. ASSUME NEW f \in Files, CleanBackup(f) PROVE WriteAhead'
  BY <1>13, BackupKeepsWriteAhead DEF CleanBackup, RestoredFirst, TypeOK
<1>14. ASSUME RecoverFinish PROVE WriteAhead'
  BY <1>14
     DEF RecoverFinish, BackupsComplete, Changed, JournalOfStep, KindOfStep,
         MemoryMirrorsDisk, NoCall, OwnerContent, RestoredFirst, Resume,
         Return, SetJournal, Status, Steps, Succeeds, TypeOK, WriteAhead
<1>15. ASSUME RecoverFinishFails PROVE WriteAhead'
  BY <1>15, JournalKeepsWriteAhead DEF RecoverFinishFails, TypeOK
<1>16. ASSUME NEW c \in ChangeSets, TakeBaseline(c) PROVE WriteAhead'
  BY <1>16
     DEF TakeBaseline, BackupsComplete, Changed, JournalOfStep, KindOfStep,
         MemoryMirrorsDisk, OwnerContent, RestoredFirst, Status, Steps, Tree,
         TypeOK, Unused, WriteAhead
<1>17. ASSUME NEW c \in ChangeSets, NEW t \in Tree,
           NEW s \in {"pending", "draft"}, Create(c, t, s)
      PROVE WriteAhead'
  <2>1. journal[c] = "none"
    BY <1>17 DEF Create, Unused, MemoryMirrorsDisk
  <2>2. \A d \in ChangeSets \ {c} : new'[d] = new[d]
    BY <1>17 DEF Create, TypeOK
  <2> QED
    BY <1>17, <2>1, <2>2 DEF Create, WriteAhead, Changed
<1>18. ASSUME NEW f \in Files, NEW v \in Contents \cup {Absent}, ManagedSave(f, v)
      PROVE WriteAhead'
  BY <1>18, PutKeepsWriteAhead DEF ManagedSave, Edit
<1>19. ASSUME NEW f \in Files, NEW v \in Contents \cup {Absent}, OfflineEdit(f, v)
      PROVE WriteAhead'
  BY <1>19, PutKeepsWriteAhead DEF OfflineEdit, Edit
<1>20. ASSUME NEW f \in Files, NEW v \in Contents \cup {Absent}, ExternalEdit(f, v)
      PROVE WriteAhead'
  BY <1>20, PutKeepsWriteAhead DEF ExternalEdit, Edit
<1>21. ASSUME \/ ApplyRefused \/ ApplyRejected \/ ApplyValidated
             \/ UndoRefused \/ UndoValidated \/ MakeUndoDir
             \/ MakeUndoDirFails \/ RolledBack \/ MarkFailed
      PROVE WriteAhead'
  BY <1>0, <1>21
     DEF ApplyRefused, ApplyRejected, ApplyValidated, UndoRefused,
         UndoValidated, MakeUndoDir, MakeUndoDirFails, RolledBack, MarkFailed
<1>22. ASSUME \/ MarkFailedFails \/ Commit \/ CommitFails
             \/ RemoveStage \/ RemoveStageFails \/ RecordDiscard
             \/ RecoverCommitted \/ RecoverRefused \/ RecoverBegin
      PROVE WriteAhead'
  BY <1>0, <1>22
     DEF MarkFailedFails, Commit, CommitFails, RemoveStage, RemoveStageFails,
         RecordDiscard, RecoverCommitted, RecoverRefused, RecoverBegin
<1>23. ASSUME \/ MarkRecovered \/ MarkRecoveredFails \/ CleanUndoDir
             \/ CleanFails \/ MarkRefused \/ MarkRefusedFails
             \/ Crash \/ Start \/ BootDone
      PROVE WriteAhead'
  BY <1>0, <1>23
     DEF MarkRecovered, MarkRecoveredFails, CleanUndoDir, CleanFails,
         MarkRefused, MarkRefusedFails, Crash, Start, BootDone
<1>24. ASSUME NEW c \in ChangeSets,
             \/ Discard(c) \/ BootRecover(c)
      PROVE WriteAhead'
  BY <1>0, <1>24 DEF Discard, BootRecover
<1>25. ASSUME NEW c \in ChangeSets, NEW k \in {"apply", "undo"}, Enter(c, k)
      PROVE WriteAhead'
  BY <1>0, <1>25 DEF Enter
<1>26. ASSUME NEW c \in ChangeSets, NEW f \in Files,
           NEW v \in Contents \cup {Absent}, StageEdit(c, f, v)
      PROVE WriteAhead'
  BY <1>0, <1>26 DEF StageEdit
<1>27. CASE UNCHANGED vars
  BY <1>0, <1>27 DEF vars
<1> QED
  BY <1>1, <1>2, <1>3, <1>4, <1>5, <1>6, <1>7, <1>8, <1>9, <1>10, <1>11,
     <1>12, <1>13, <1>14, <1>15, <1>16, <1>17, <1>18, <1>19, <1>20, <1>21,
     <1>22, <1>23, <1>24, <1>25, <1>26, <1>27
     DEF Next, CallStep, Environment

\* The invariant holds in a workspace without ChangeSets.
LEMMA InitInv == Init => IInv
<1> SUFFICES ASSUME Init PROVE IInv
  OBVIOUS
<1> USE PublishAssumption DEF Init
<1>1. TypeOK
  BY DEF TypeOK, Tree, Empty, Status, Steps
<1>2. WriteAhead /\ OwnerContent /\ MemoryMirrorsDisk
  BY DEF WriteAhead, OwnerContent, MemoryMirrorsDisk
<1>3. KindOfStep /\ JournalOfStep /\ JournalInHand /\ BackupsComplete
      /\ RestoredFirst
  BY DEF KindOfStep, JournalOfStep, JournalInHand, BackupsComplete,
         RestoredFirst, Empty
<1> QED
  BY <1>1, <1>2, <1>3 DEF IInv

\* The parts together are inductive.
LEMMA InvStep ==
    ASSUME IInv, [Next]_vars, "mark" \notin Faults
    PROVE  IInv'
BY TypeStep, ControlStep, OwnerStep, BackupStep, WriteAheadStep DEF IInv

\* Whoever owns a file answers for it, in every step of a call and of a recovery:
\* the parts rest on each other and are shown together.
LEMMA OwnersStep ==
    ASSUME IInv, OwnersAnswer, TargetsChanged, StatusOfStep, RecoveryOfStep,
           TypeOK', KindOfStep', [Next]_vars,
           Faults \cap {"mark", "journal", "finish"} = {}
    PROVE  OwnersAnswer' /\ TargetsChanged' /\ StatusOfStep' /\ RecoveryOfStep'
<1> DEFINE Goals == OwnersAnswer /\ TargetsChanged /\ StatusOfStep /\ RecoveryOfStep
<1>0. /\ TypeOK /\ KindOfStep /\ MemoryMirrorsDisk /\ JournalOfStep /\ OwnerContent
      /\ RestoredFirst
  BY DEF IInv
<1> USE <1>0, PublishAssumption
       DEF TypeOK, KindOfStep, MemoryMirrorsDisk, JournalOfStep, OwnersAnswer,
           TargetsChanged, StatusOfStep, RecoveryOfStep, Steps, Status, Outcome,
           Committed, disk, plan, call, bounds, Changed
<1>1. ASSUME ApplyRefused PROVE Goals'
  BY <1>1 DEF ApplyRefused, NoCall, Return
<1>2. ASSUME ApplyRejected PROVE Goals'
  BY <1>2 DEF ApplyRejected, Mark, MarkRaises, NoCall, Raises, Return, Succeeds
<1>3. ASSUME ApplyValidated PROVE Goals'
  BY <1>3 DEF ApplyValidated, Goto
<1>4. ASSUME UndoRefused PROVE Goals'
  BY <1>4 DEF UndoRefused, NoCall, Return, UndoReady
<1>5. ASSUME UndoValidated PROVE Goals'
  BY <1>5 DEF UndoValidated, Goto, UndoReady
<1>6. ASSUME MakeUndoDir PROVE Goals'
  BY <1>6 DEF MakeUndoDir, GotoWith, Succeeds
<1>7. ASSUME MakeUndoDirFails PROVE Goals'
  BY <1>7 DEF MakeUndoDirFails, Goto, Raises, Succeeds
<1>8. ASSUME NEW f \in Files, BackUp(f) PROVE Goals'
  BY <1>8 DEF BackUp, GotoWith, SaveBackup, Succeeds
<1>9. ASSUME NEW f \in Files, BackUpFails(f) PROVE Goals'
  BY <1>9 DEF BackUpFails, GotoWith, Raises, SaveBackup
<1>10. ASSUME BeginPublish PROVE Goals'
  BY <1>10 DEF BeginPublish, GotoWith, ReadyToBegin, SetJournal, Succeeds
<1>11. ASSUME BeginPublishFails PROVE Goals'
  BY <1>11 DEF BeginPublishFails, Goto, Raises, ReadyToBegin, SetJournal
<1>12. ASSUME NEW f \in Files, WriteTarget(f) PROVE Goals'
  BY <1>12 DEF WriteTarget, Goal, Gone, Owner, Put, Succeeds
<1>13. ASSUME NEW f \in Files, WriteTargetFails(f) PROVE Goals'
  BY <1>13
     DEF WriteTargetFails, Goal, Gone, GotoWith, Owner, Put, Raises, Succeeds
<1>14. ASSUME NEW f \in Files, RollBack(f) PROVE Goals'
  BY <1>14 DEF RollBack, Put, Raises, RollBackOwner, RolledBackTo, Succeeds
<1>15. ASSUME RolledBack PROVE Goals'
  BY <1>15 DEF RolledBack
<1>16. ASSUME MarkFailed PROVE Goals'
  BY <1>16 DEF MarkFailed, Mark, NoCall, Return, Succeeds
<1>17. ASSUME MarkFailedFails PROVE Goals'
  BY <1>17 DEF MarkFailedFails, MarkRaises, NoCall, Raises, Return
<1>18. ASSUME Commit PROVE Goals'
  BY <1>18 DEF Commit, GotoWith, Mark, Outcome, Succeeds
<1>19. ASSUME CommitFails PROVE Goals'
  BY <1>19 DEF CommitFails, MarkRaises, NoCall, Outcome, Raises, Return
<1>20. ASSUME FinishPublish PROVE Goals'
  BY <1>20 DEF FinishPublish, Goto, NoCall, Return, SetJournal, Succeeds
<1>21. ASSUME FinishPublishFails PROVE Goals'
  BY <1>21 DEF FinishPublishFails, NoCall, Raises, Return, SetJournal
<1>22. ASSUME NEW f \in Files, RemoveStaged(f) PROVE Goals'
  BY <1>22 DEF RemoveStaged, Holds, Tree
<1>23. ASSUME RemoveStage PROVE Goals'
  BY <1>23 DEF RemoveStage, Goto, Holds, NoCall, Return, Tree
<1>24. ASSUME RemoveStageFails PROVE Goals'
  BY <1>24 DEF RemoveStageFails, NoCall, Raises, Return
<1>25. ASSUME NEW c \in ChangeSets, Discard(c) PROVE Goals'
  BY <1>25 DEF Discard
<1>26. ASSUME RecordDiscard PROVE Goals'
  BY <1>26 DEF RecordDiscard, NoCall, Raises, Return, Succeeds
<1>27. ASSUME RecoverCommitted PROVE Goals'
  BY <1>27 DEF RecoverCommitted, Committed, Goto
<1>28. ASSUME RecoverRefused PROVE Goals'
  BY <1>28 DEF RecoverRefused, Committed, Desired, Goto, Recoverable
<1>29. ASSUME RecoverBegin PROVE Goals'
  BY <1>29 DEF RecoverBegin, Committed, Desired, GotoWith, Recoverable
<1>30. ASSUME NEW f \in Files, Restore(f) PROVE Goals'
  BY <1>30 DEF Restore, Desired, GotoWith, Put, RestoredOwner, Succeeds
<1>31. ASSUME NEW f \in Files, RestoreFails(f) PROVE Goals'
  BY <1>31 DEF RestoreFails, Desired, GotoWith, Put, Raises, RestoredOwner
<1>32. ASSUME MarkRecovered PROVE Goals'
  BY <1>32 DEF MarkRecovered, Goto, Mark, RecoveredStatus, Succeeds
<1>33. ASSUME MarkRecoveredFails PROVE Goals'
  BY <1>33 DEF MarkRecoveredFails, Goto, MarkRaises, Raises, RecoveredStatus
<1>34. ASSUME NEW f \in Files, CleanBackup(f) PROVE Goals'
  BY <1>34 DEF CleanBackup, Tree
<1>35. ASSUME CleanUndoDir PROVE Goals'
  BY <1>35 DEF CleanUndoDir, Goto, RestoredFirst
<1>36. ASSUME CleanFails PROVE Goals'
  BY <1>36 DEF CleanFails, Goto, Raises
<1>37. ASSUME RecoverFinish PROVE Goals'
  BY <1>37 DEF RecoverFinish, NoCall, Resume, Return, SetJournal, Succeeds
<1>38. ASSUME RecoverFinishFails PROVE Goals'
  BY <1>38 DEF RecoverFinishFails, Goto, Raises, SetJournal
<1>39. ASSUME MarkRefused PROVE Goals'
  BY <1>39
     DEF MarkRefused, Mark, NoCall, RefusedStatus, Resume, Return, Succeeds
<1>40. ASSUME MarkRefusedFails PROVE Goals'
  BY <1>40 DEF MarkRefusedFails, NoCall, Raises, RefusedStatus
<1>41. ASSUME NEW c \in ChangeSets, TakeBaseline(c) PROVE Goals'
  BY <1>41 DEF TakeBaseline, Tree, Unused
<1>42. ASSUME NEW c \in ChangeSets, NEW t \in Tree,
           NEW s \in {"pending", "draft"}, Create(c, t, s)
      PROVE Goals'
  BY <1>42 DEF Create, Raises, Succeeds, Tree, Unused
<1>43. ASSUME NEW c \in ChangeSets, NEW k \in {"apply", "undo"}, Enter(c, k)
      PROVE Goals'
  BY <1>43 DEF Enter
<1>44. ASSUME Crash PROVE Goals'
  BY <1>44 DEF Crash, NoCall
<1>45. ASSUME Start PROVE Goals'
  BY <1>45 DEF Start
<1>46. ASSUME NEW c \in ChangeSets, BootRecover(c) PROVE Goals'
  BY <1>46 DEF BootRecover
<1>47. ASSUME BootDone PROVE Goals'
  BY <1>47 DEF BootDone
<1>48. ASSUME NEW c \in ChangeSets, NEW f \in Files,
           NEW v \in Contents \cup {Absent}, StageEdit(c, f, v)
      PROVE Goals'
  BY <1>48 DEF StageEdit
<1>49. ASSUME NEW f \in Files, NEW v \in Contents \cup {Absent}, ManagedSave(f, v)
      PROVE Goals'
  BY <1>49 DEF ManagedSave, Edit, Put
<1>50. ASSUME NEW f \in Files, NEW v \in Contents \cup {Absent}, OfflineEdit(f, v)
      PROVE Goals'
  BY <1>50 DEF OfflineEdit, Edit, Put
<1>51. ASSUME NEW f \in Files, NEW v \in Contents \cup {Absent}, ExternalEdit(f, v)
      PROVE Goals'
  BY <1>51 DEF ExternalEdit, Edit, Put
<1>52. CASE UNCHANGED vars
  BY <1>52 DEF vars
<1> HIDE <1>0, PublishAssumption
       DEF TypeOK, KindOfStep, MemoryMirrorsDisk, JournalOfStep, OwnersAnswer,
           TargetsChanged, StatusOfStep, RecoveryOfStep, Steps, Status, Outcome,
           Committed, disk, plan, call, bounds, Changed
<1>53. CASE CallStep
  BY <1>53, <1>1, <1>2, <1>3, <1>4, <1>5, <1>6, <1>7, <1>8, <1>9, <1>10,
     <1>11, <1>12, <1>13, <1>14, <1>15, <1>16, <1>17, <1>18, <1>19, <1>20,
     <1>21, <1>22, <1>23, <1>24, <1>26, <1>27, <1>28, <1>29, <1>30, <1>31,
     <1>32, <1>33, <1>34, <1>35, <1>36, <1>37, <1>38, <1>39, <1>40, <1>46,
     <1>47
     DEF CallStep
<1>54. CASE Environment
  BY <1>54, <1>41, <1>42, <1>43, <1>44, <1>45, <1>25, <1>48, <1>49, <1>50,
     <1>51
     DEF Environment
<1> QED
  BY <1>52, <1>53, <1>54 DEF Next

\* A recovery at start-up leaves the status alone that its journal was for.
KeepsCommit(c) ==
    /\ kind = "boot" /\ journal[c] = "apply" /\ dstat[c] = "applied"
          => dstat'[c] = "applied"
    /\ kind = "boot" /\ journal[c] = "undo" /\ dstat[c] = "undone"
          => dstat'[c] = "undone"

LEMMA KeepsCommitStep ==
    ASSUME OInv, [Next]_vars, "mark" \notin Faults, NEW c \in ChangeSets
    PROVE  KeepsCommit(c)
<1>0. TypeOK /\ KindOfStep /\ RecoveryOfStep
  BY DEF OInv, IInv
<1> USE DEF KeepsCommit, disk, plan, call, bounds
<1>1. ASSUME UNCHANGED dstat PROVE KeepsCommit(c)
  BY <1>1
<1>2. ASSUME NEW s \in Status, Mark(s), c # cur PROVE KeepsCommit(c)
  BY <1>0, <1>2 DEF Mark, TypeOK
<1>3. ASSUME MarkRecovered PROVE KeepsCommit(c)
  <2>1. dstat[cur] # Committed
    BY <1>0, <1>3 DEF MarkRecovered, RecoveryOfStep
  <2>2. RecoveredStatus \in Status /\ Mark(RecoveredStatus)
    BY <1>3 DEF MarkRecovered, RecoveredStatus, Status
  <2> QED
    BY <1>2, <2>1, <2>2 DEF Committed
<1>4. ASSUME MarkRefused PROVE KeepsCommit(c)
  <2>1. dstat[cur] # Committed
    BY <1>0, <1>4 DEF MarkRefused, RecoveryOfStep
  <2>2. RefusedStatus \in Status /\ Mark(RefusedStatus)
    BY <1>4 DEF MarkRefused, RefusedStatus, Status
  <2> QED
    BY <1>2, <2>1, <2>2 DEF Committed
<1>5. ASSUME kind # "boot" PROVE KeepsCommit(c)
  BY <1>5
<1>6. ASSUME \/ ApplyRejected \/ MarkFailed \/ Commit \/ RecordDiscard
      PROVE  KeepsCommit(c)
  BY <1>0, <1>5, <1>6
     DEF ApplyRejected, MarkFailed, Commit, RecordDiscard, KindOfStep, GotoWith
<1>7. ASSUME \/ MarkFailedFails \/ CommitFails \/ MarkRecoveredFails
             \/ MarkRefusedFails
      PROVE  KeepsCommit(c)
  BY <1>7
     DEF MarkFailedFails, CommitFails, MarkRecoveredFails, MarkRefusedFails,
         MarkRaises, Raises
<1>8. ASSUME NEW d \in ChangeSets, NEW t \in Tree,
             NEW s \in {"pending", "draft"}, Create(d, t, s)
      PROVE  KeepsCommit(c)
  BY <1>0, <1>5, <1>8 DEF Create, KindOfStep
<1>9. ASSUME \/ ApplyRefused \/ ApplyValidated \/ UndoRefused \/ UndoValidated
             \/ MakeUndoDir \/ MakeUndoDirFails \/ BeginPublish
             \/ BeginPublishFails \/ RolledBack \/ FinishPublish
             \/ FinishPublishFails
      PROVE  KeepsCommit(c)
  BY <1>1, <1>9
     DEF ApplyRefused, ApplyValidated, UndoRefused, UndoValidated,
         MakeUndoDir, MakeUndoDirFails, BeginPublish, BeginPublishFails,
         RolledBack, FinishPublish, FinishPublishFails
<1>10. ASSUME \/ RemoveStage \/ RemoveStageFails \/ RecoverCommitted
              \/ RecoverRefused \/ RecoverBegin \/ CleanUndoDir \/ CleanFails
              \/ RecoverFinish \/ RecoverFinishFails \/ Crash \/ Start \/ BootDone
       PROVE  KeepsCommit(c)
  BY <1>1, <1>10
     DEF RemoveStage, RemoveStageFails, RecoverCommitted, RecoverRefused,
         RecoverBegin, CleanUndoDir, CleanFails, RecoverFinish,
         RecoverFinishFails, Crash, Start, BootDone
<1>11. ASSUME NEW f \in Files,
              \/ BackUp(f) \/ BackUpFails(f) \/ WriteTarget(f)
              \/ WriteTargetFails(f) \/ RollBack(f) \/ RemoveStaged(f)
              \/ Restore(f) \/ RestoreFails(f) \/ CleanBackup(f)
       PROVE  KeepsCommit(c)
  BY <1>1, <1>11
     DEF BackUp, BackUpFails, WriteTarget, WriteTargetFails, RollBack,
         RemoveStaged, Restore, RestoreFails, CleanBackup
<1>12. ASSUME NEW d \in ChangeSets,
              \/ Discard(d) \/ TakeBaseline(d) \/ BootRecover(d)
              \/ \E k \in {"apply", "undo"} : Enter(d, k)
       PROVE  KeepsCommit(c)
  BY <1>1, <1>12 DEF Discard, TakeBaseline, BootRecover, Enter
<1>13. ASSUME NEW f \in Files, NEW v \in Contents \cup {Absent},
              \/ ManagedSave(f, v) \/ OfflineEdit(f, v) \/ ExternalEdit(f, v)
              \/ \E d \in ChangeSets : StageEdit(d, f, v)
       PROVE  KeepsCommit(c)
  BY <1>1, <1>13 DEF ManagedSave, OfflineEdit, ExternalEdit, Edit, StageEdit
<1>14. CASE UNCHANGED vars
  BY <1>1, <1>14 DEF vars
<1> HIDE DEF KeepsCommit
<1> QED
  BY <1>3, <1>4, <1>6, <1>7, <1>8, <1>9, <1>10, <1>11, <1>12, <1>13, <1>14
     DEF Next, CallStep, Environment

---------------------------------------------------------------------------
\* Every variable stays in its type, whatever raises and whenever the process
\* dies: in particular a call in progress always has a ChangeSet.
THEOREM TypeCorrect == Spec => []TypeOK
<1>1. Init => TypeOK /\ KindOfStep
  BY InitInv DEF IInv
<1>2. TypeOK /\ KindOfStep /\ [Next]_vars => (TypeOK /\ KindOfStep)'
  BY TypeStep
<1> QED
  BY <1>1, <1>2, PTL DEF Spec

\* While metadata writes do not raise, the inductive invariant holds.
LEMMA InvariantHolds ==
    ASSUME "mark" \notin Faults
    PROVE  Spec => []IInv
<1>1. IInv /\ [Next]_vars => IInv'
  BY InvStep
<1> QED
  BY InitInv, <1>1, PTL DEF Spec

\* Write-ahead (the comment above _begin_publish in _apply_locked): as long as
\* the metadata writes themselves do not raise, the original of every file that
\* an unfinished apply has overwritten is on disk.
THEOREM OriginalsSurvive ==
    ASSUME "mark" \notin Faults
    PROVE  Spec => []WriteAhead
<1>1. IInv => WriteAhead
  BY DEF IInv
<1> QED
  BY InvariantHolds, <1>1, PTL

\* discard and create never meet a journal: at rest, one belongs to a ChangeSet
\* that is set aside or whose commit is recorded.
THEOREM JournalsAtRest ==
    ASSUME "mark" \notin Faults
    PROVE  Spec => []JournalSetAside
<1>1. IInv => JournalSetAside
  BY DEF IInv, TypeOK, KindOfStep, JournalInHand, JournalSetAside, Steps
<1> QED
  BY InvariantHolds, <1>1, PTL

\* While neither metadata nor journals fail to be written or removed, every owner
\* of a file answers for it.
LEMMA OwnersHold ==
    ASSUME Faults \cap {"mark", "journal", "finish"} = {}
    PROVE  Spec => []OInv
<1>1. Init => OwnersAnswer /\ TargetsChanged /\ StatusOfStep /\ RecoveryOfStep
  BY PublishAssumption
     DEF Init, OwnersAnswer, TargetsChanged, StatusOfStep, RecoveryOfStep
<1>2. OInv /\ [Next]_vars => OInv'
  <2> SUFFICES ASSUME OInv, [Next]_vars PROVE OInv'
    OBVIOUS
  <2>1. IInv'
    BY InvStep DEF OInv
  <2>2. TypeOK' /\ KindOfStep'
    BY <2>1 DEF IInv
  <2>3. OwnersAnswer' /\ TargetsChanged' /\ StatusOfStep' /\ RecoveryOfStep'
    BY <2>2, OwnersStep DEF OInv
  <2> QED
    BY <2>1, <2>3 DEF OInv
<1>3. Init => OInv
  BY InitInv, <1>1 DEF OInv
<1> QED
  BY <1>2, <1>3, PTL DEF Spec

\* All or nothing (apply and undo): at rest, a file that a publication wrote last
\* belongs to an applied ChangeSet or to one whose journal says how to put it
\* back, whatever raises while backups, targets and stages are written, whenever
\* the process dies and whoever edits.
THEOREM NothingIsOrphaned ==
    ASSUME Faults \cap {"mark", "journal", "finish"} = {}
    PROVE  Spec => []NoOrphanPublication
<1>1. OInv => NoOrphanPublication
  BY DEF OInv, IInv, OwnersAnswer, MemoryMirrorsDisk, NoOrphanPublication
<1> QED
  BY OwnersHold, <1>1, PTL

\* A start-up that finds the journal of a publication keeps the status that the
\* publication had committed.
THEOREM CommitsSurviveRestarts ==
    ASSUME Faults \cap {"mark", "journal", "finish"} = {}
    PROVE  Spec => CommitSurvivesRestart
<1>1. OInv /\ [Next]_vars =>
        [\A c \in ChangeSets :
            /\ kind = "boot" /\ journal[c] = "apply" /\ dstat[c] = "applied"
                => dstat'[c] = "applied"
            /\ kind = "boot" /\ journal[c] = "undo" /\ dstat[c] = "undone"
                => dstat'[c] = "undone"]_vars
  BY KeepsCommitStep DEF KeepsCommit
<1> QED
  BY OwnersHold, <1>1, PTL DEF Spec, CommitSurvivesRestart
=============================================================================

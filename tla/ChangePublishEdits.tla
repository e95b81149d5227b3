------------------------- MODULE ChangePublishEdits -------------------------
(***************************************************************************)
(* Proofs about ChangePublish as long as the other writers of a workspace  *)
(* take its lock or stay away while the application runs:                  *)
(*   - publication, rollback and recovery never overwrite what somebody    *)
(*     else wrote, and a commit publishes the reviewed tree, for every set *)
(*     of raising disk operations (EInv);                                  *)
(*   - ChangePublish implements AtomicPublish while no ChangeSet is left   *)
(*     half-published beside another one (AInv);                           *)
(*   - none is, however often the process dies, when only backups fail to  *)
(*     be written and nobody edits behind the lock (UInv).                 *)
(***************************************************************************)
EXTENDS ChangePublishProofs

\* A call is entered for a registered ChangeSet, and stays one.
LEMMA CallerStep ==
    ASSUME TypeOK, KindOfStep, CallerKnown, TypeOK', [Next]_vars,
           "external" \notin Edits
    PROVE  CallerKnown'
<1> USE PublishAssumption
       DEF TypeOK, KindOfStep, CallerKnown, Steps, Status, disk, plan, call,
           bounds, Changed
<1>1. ASSUME ApplyRefused PROVE CallerKnown'
  BY <1>1 DEF ApplyRefused, NoCall, Return
<1>2. ASSUME ApplyRejected PROVE CallerKnown'
  BY <1>2 DEF ApplyRejected, Mark, MarkRaises, NoCall, Raises, Return, Succeeds
<1>3. ASSUME ApplyValidated PROVE CallerKnown'
  BY <1>3 DEF ApplyValidated, Goto
<1>4. ASSUME UndoRefused PROVE CallerKnown'
  BY <1>4 DEF UndoRefused, NoCall, Return, UndoReady
<1>5. ASSUME UndoValidated PROVE CallerKnown'
  BY <1>5 DEF UndoValidated, Goto, UndoReady
<1>6. ASSUME MakeUndoDir PROVE CallerKnown'
  BY <1>6 DEF MakeUndoDir, GotoWith, Succeeds
<1>7. ASSUME MakeUndoDirFails PROVE CallerKnown'
  BY <1>7 DEF MakeUndoDirFails, Goto, Raises, Succeeds
<1>8. ASSUME NEW f \in Files, BackUp(f) PROVE CallerKnown'
  BY <1>8 DEF BackUp, GotoWith, SaveBackup, Succeeds
<1>9. ASSUME NEW f \in Files, BackUpFails(f) PROVE CallerKnown'
  BY <1>9 DEF BackUpFails, GotoWith, Raises, SaveBackup
<1>10. ASSUME BeginPublish PROVE CallerKnown'
  BY <1>10 DEF BeginPublish, GotoWith, ReadyToBegin, SetJournal, Succeeds
<1>11. ASSUME BeginPublishFails PROVE CallerKnown'
  BY <1>11 DEF BeginPublishFails, Goto, Raises, ReadyToBegin, SetJournal
<1>12. ASSUME NEW f \in Files, WriteTarget(f) PROVE CallerKnown'
  BY <1>12 DEF WriteTarget, Goal, Gone, Owner, Put, Succeeds
<1>13. ASSUME NEW f \in Files, WriteTargetFails(f) PROVE CallerKnown'
  BY <1>13
     DEF WriteTargetFails, Goal, Gone, GotoWith, Owner, Put, Raises, Succeeds
<1>14. ASSUME NEW f \in Files, RollBack(f) PROVE CallerKnown'
  BY <1>14 DEF RollBack, Put, Raises, RollBackOwner, RolledBackTo, Succeeds
<1>15. ASSUME RolledBack PROVE CallerKnown'
  BY <1>15 DEF RolledBack
<1>16. ASSUME MarkFailed PROVE CallerKnown'
  BY <1>16 DEF MarkFailed, Mark, NoCall, Return, Succeeds
<1>17. ASSUME MarkFailedFails PROVE CallerKnown'
  BY <1>17 DEF MarkFailedFails, MarkRaises, NoCall, Raises, Return
<1>18. ASSUME Commit PROVE CallerKnown'
  BY <1>18 DEF Commit, GotoWith, Mark, Outcome, Succeeds
<1>19. ASSUME CommitFails PROVE CallerKnown'
  BY <1>19 DEF CommitFails, MarkRaises, NoCall, Outcome, Raises, Return
<1>20. ASSUME FinishPublish PROVE CallerKnown'
  BY <1>20 DEF FinishPublish, Goto, NoCall, Return, SetJournal, Succeeds
<1>21. ASSUME FinishPublishFails PROVE CallerKnown'
  BY <1>21 DEF FinishPublishFails, NoCall, Raises, Return, SetJournal
<1>22. ASSUME NEW f \in Files, RemoveStaged(f) PROVE CallerKnown'
  BY <1>22 DEF RemoveStaged, Holds, Tree
<1>23. ASSUME RemoveStage PROVE CallerKnown'
  BY <1>23 DEF RemoveStage, Goto, Holds, NoCall, Return, Tree
<1>24. ASSUME RemoveStageFails PROVE CallerKnown'
  BY <1>24 DEF RemoveStageFails, NoCall, Raises, Return
<1>25. ASSUME NEW c \in ChangeSets, Discard(c) PROVE CallerKnown'
  BY <1>25 DEF Discard
<1>26. ASSUME RecordDiscard PROVE CallerKnown'
  BY <1>26 DEF RecordDiscard, NoCall, Raises, Return, Succeeds
<1>27. ASSUME RecoverCommitted PROVE CallerKnown'
  BY <1>27 DEF RecoverCommitted, Committed, Goto
<1>28. ASSUME RecoverRefused PROVE CallerKnown'
  BY <1>28 DEF RecoverRefused, Committed, Desired, Goto, Recoverable
<1>29. ASSUME RecoverBegin PROVE CallerKnown'
  BY <1>29 DEF RecoverBegin, Committed, Desired, GotoWith, Recoverable
<1>30. ASSUME NEW f \in Files, Restore(f) PROVE CallerKnown'
  BY <1>30 DEF Restore, Desired, GotoWith, Put, RestoredOwner, Succeeds
<1>31. ASSUME NEW f \in Files, RestoreFails(f) PROVE CallerKnown'
  BY <1>31 DEF RestoreFails, Desired, GotoWith, Put, Raises, RestoredOwner
<1>32. ASSUME MarkRecovered PROVE CallerKnown'
  BY <1>32 DEF MarkRecovered, Goto, Mark, RecoveredStatus, Succeeds
<1>33. ASSUME MarkRecoveredFails PROVE CallerKnown'
  BY <1>33 DEF MarkRecoveredFails, Goto, MarkRaises, Raises, RecoveredStatus
<1>34. ASSUME NEW f \in Files, CleanBackup(f) PROVE CallerKnown'
  BY <1>34 DEF CleanBackup, Tree
<1>35. ASSUME CleanUndoDir PROVE CallerKnown'
  BY <1>35 DEF CleanUndoDir, Goto, Tree
<1>36. ASSUME CleanFails PROVE CallerKnown'
  BY <1>36 DEF CleanFails, Goto, Raises
<1>37. ASSUME RecoverFinish PROVE CallerKnown'
  BY <1>37 DEF RecoverFinish, NoCall, Resume, Return, SetJournal, Succeeds
<1>38. ASSUME RecoverFinishFails PROVE CallerKnown'
  BY <1>38 DEF RecoverFinishFails, Goto, Raises, SetJournal
<1>39. ASSUME MarkRefused PROVE CallerKnown'
  BY <1>39
     DEF MarkRefused, Mark, NoCall, RefusedStatus, Resume, Return, Succeeds
<1>40. ASSUME MarkRefusedFails PROVE CallerKnown'
  BY <1>40 DEF MarkRefusedFails, NoCall, Raises, RefusedStatus
<1>41. ASSUME NEW c \in ChangeSets, TakeBaseline(c) PROVE CallerKnown'
  BY <1>41 DEF TakeBaseline, Tree, Unused
<1>42. ASSUME NEW c \in ChangeSets, NEW t \in Tree,
           NEW s \in {"pending", "draft"}, Create(c, t, s)
      PROVE CallerKnown'
  BY <1>42 DEF Create, Raises, Succeeds, Tree, Unused
<1>43. ASSUME NEW c \in ChangeSets, NEW k \in {"apply", "undo"}, Enter(c, k)
      PROVE CallerKnown'
  BY <1>43 DEF Enter
<1>44. ASSUME Crash PROVE CallerKnown'
  BY <1>44 DEF Crash, NoCall
<1>45. ASSUME Start PROVE CallerKnown'
  BY <1>45 DEF Start
<1>46. ASSUME NEW c \in ChangeSets, BootRecover(c) PROVE CallerKnown'
  BY <1>46 DEF BootRecover
<1>47. ASSUME BootDone PROVE CallerKnown'
  BY <1>47 DEF BootDone
<1>48. ASSUME NEW c \in ChangeSets, NEW f \in Files,
           NEW v \in Contents \cup {Absent}, StageEdit(c, f, v)
      PROVE CallerKnown'
  BY <1>48 DEF StageEdit
<1>49. ASSUME NEW f \in Files, NEW v \in Contents \cup {Absent}, ManagedSave(f, v)
      PROVE CallerKnown'
  BY <1>49 DEF ManagedSave, Edit, Put
<1>50. ASSUME NEW f \in Files, NEW v \in Contents \cup {Absent}, OfflineEdit(f, v)
      PROVE CallerKnown'
  BY <1>50 DEF OfflineEdit, Edit, Put
<1>51. ASSUME NEW f \in Files, NEW v \in Contents \cup {Absent}, ExternalEdit(f, v)
      PROVE CallerKnown'
  BY <1>51 DEF ExternalEdit, Edit, Put
<1>52. CASE UNCHANGED vars
  BY <1>52 DEF vars
<1> QED
  BY <1>1, <1>2, <1>3, <1>4, <1>5, <1>6, <1>7, <1>8, <1>9, <1>10, <1>11,
     <1>12, <1>13, <1>14, <1>15, <1>16, <1>17, <1>18, <1>19, <1>20, <1>21,
     <1>22, <1>23, <1>24, <1>25, <1>26, <1>27, <1>28, <1>29, <1>30, <1>31,
     <1>32, <1>33, <1>34, <1>35, <1>36, <1>37, <1>38, <1>39, <1>40, <1>41,
     <1>42, <1>43, <1>44, <1>45, <1>46, <1>47, <1>48, <1>49, <1>50, <1>51,
     <1>52
     DEF Next, CallStep, Environment

\* From its validation to its last write, nobody else writes what a call found.
LEMMA TargetsStep ==
    ASSUME TypeOK, KindOfStep, CallerKnown, TargetsKnown, TypeOK',
           [Next]_vars, "external" \notin Edits
    PROVE  TargetsKnown'
<1> USE PublishAssumption
       DEF TypeOK, KindOfStep, CallerKnown, TargetsKnown, Steps, Status,
           disk, plan, call, bounds, Changed, Goal, Prior
<1>1. ASSUME ApplyRefused PROVE TargetsKnown'
  BY <1>1 DEF ApplyRefused, NoCall, Return
<1>2. ASSUME ApplyRejected PROVE TargetsKnown'
  BY <1>2 DEF ApplyRejected, Mark, MarkRaises, NoCall, Raises, Return, Succeeds
<1>3. ASSUME ApplyValidated PROVE TargetsKnown'
  BY <1>3 DEF ApplyValidated, Goto
<1>4. ASSUME UndoRefused PROVE TargetsKnown'
  BY <1>4 DEF UndoRefused, NoCall, Return, UndoReady
<1>5. ASSUME UndoValidated PROVE TargetsKnown'
  BY <1>5 DEF UndoValidated, Goto, UndoReady
<1>6. ASSUME MakeUndoDir PROVE TargetsKnown'
  BY <1>6 DEF MakeUndoDir, GotoWith, Succeeds
<1>7. ASSUME MakeUndoDirFails PROVE TargetsKnown'
  BY <1>7 DEF MakeUndoDirFails, Goto, Raises, Succeeds
<1>8. ASSUME NEW f \in Files, BackUp(f) PROVE TargetsKnown'
  BY <1>8 DEF BackUp, GotoWith, SaveBackup, Succeeds
<1>9. ASSUME NEW f \in Files, BackUpFails(f) PROVE TargetsKnown'
  BY <1>9 DEF BackUpFails, GotoWith, Raises, SaveBackup
<1>10. ASSUME BeginPublish PROVE TargetsKnown'
  <2>1. CASE pc = "begin"
    BY <1>10, <2>1 DEF BeginPublish, GotoWith, SetJournal, Succeeds
  <2>2. CASE pc = "backup"
    BY <1>10, <2>2 DEF BeginPublish, GotoWith, SetJournal, Succeeds, Tree
  <2> QED
    BY <1>10, <2>1, <2>2 DEF BeginPublish, ReadyToBegin
<1>11. ASSUME BeginPublishFails PROVE TargetsKnown'
  BY <1>11 DEF BeginPublishFails, Goto, Raises, ReadyToBegin, SetJournal
<1>12. ASSUME NEW f \in Files, WriteTarget(f) PROVE TargetsKnown'
  <2>1. /\ \A g \in Files : ws'[g] = IF g = f THEN Goal(f) ELSE ws[g]
        /\ \A g \in Files : seen'[g] = IF g = f THEN ws[f] ELSE seen[g]
    <3>1. Replaced(f) = ws[f]
      BY <1>12 DEF WriteTarget, Replaced
    <3>2. QED
      BY <1>12, <3>1 DEF WriteTarget, Put, Tree
  <2>2. /\ \A g \in Files : Goal(g)' = Goal(g) /\ Prior(g)' = Prior(g)
        /\ Changed(cur)' = Changed(cur)
        /\ pc' = "write" /\ UNCHANGED <<base, cur, kind>>
    BY <1>12 DEF WriteTarget
  <2>3. todo' \subseteq Changed(cur)' /\ Changed(cur)' \subseteq todo' \cup done'
    BY <1>12, <2>2 DEF WriteTarget
  <2>4. /\ \A g \in todo' : ws'[g] = Prior(g)'
        /\ kind' = "apply" => \A g \in Files \ Changed(cur)' : ws'[g] = base'[cur'][g]
    BY <1>12, <2>1, <2>2 DEF WriteTarget
  <2>5. /\ done' \subseteq Changed(cur)'
        /\ \A g \in done' : ws'[g] = Goal(g)' /\ seen'[g] = Prior(g)'
    BY <1>12, <2>1, <2>2 DEF WriteTarget
  <2> HIDE DEF Goal, Prior, Changed
  <2> QED
    BY <2>2, <2>3, <2>4, <2>5
<1>13. ASSUME NEW f \in Files, WriteTargetFails(f) PROVE TargetsKnown'
  <2>1. \A g \in Files \ {f} : ws'[g] = ws[g]
    BY <1>13 DEF WriteTargetFails, Put, Tree
  <2>2. f \notin done
    BY <1>13 DEF WriteTargetFails
  <2> QED
    BY <1>13, <2>1, <2>2 DEF WriteTargetFails, GotoWith
<1>14. ASSUME NEW f \in Files, RollBack(f) PROVE TargetsKnown'
  <2>1. \A g \in Files \ {f} : ws'[g] = ws[g]
    BY <1>14 DEF RollBack, Put, Tree
  <2> QED
    BY <1>14, <2>1 DEF RollBack
<1>15. ASSUME RolledBack PROVE TargetsKnown'
  BY <1>15 DEF RolledBack
<1>16. ASSUME MarkFailed PROVE TargetsKnown'
  BY <1>16 DEF MarkFailed, Mark, NoCall, Return, Succeeds
<1>17. ASSUME MarkFailedFails PROVE TargetsKnown'
  BY <1>17 DEF MarkFailedFails, MarkRaises, NoCall, Raises, Return
<1>18. ASSUME Commit PROVE TargetsKnown'
  BY <1>18 DEF Commit, GotoWith, Mark, Outcome, Succeeds
<1>19. ASSUME CommitFails PROVE TargetsKnown'
  BY <1>19 DEF CommitFails, MarkRaises, NoCall, Outcome, Raises, Return
<1>20. ASSUME FinishPublish PROVE TargetsKnown'
  BY <1>20 DEF FinishPublish, Goto, NoCall, Return, SetJournal, Succeeds
<1>21. ASSUME FinishPublishFails PROVE TargetsKnown'
  BY <1>21 DEF FinishPublishFails, NoCall, Raises, Return, SetJournal
<1>22. ASSUME NEW f \in Files, RemoveStaged(f) PROVE TargetsKnown'
  BY <1>22 DEF RemoveStaged, Holds, Tree
<1>23. ASSUME RemoveStage PROVE TargetsKnown'
  BY <1>23 DEF RemoveStage, Goto, Holds, NoCall, Return, Tree
<1>24. ASSUME RemoveStageFails PROVE TargetsKnown'
  BY <1>24 DEF RemoveStageFails, NoCall, Raises, Return
<1>25. ASSUME NEW c \in ChangeSets, Discard(c) PROVE TargetsKnown'
  BY <1>25 DEF Discard
<1>26. ASSUME RecordDiscard PROVE TargetsKnown'
  BY <1>26 DEF RecordDiscard, NoCall, Raises, Return, Succeeds
<1>27. ASSUME RecoverCommitted PROVE TargetsKnown'
  BY <1>27 DEF RecoverCommitted, Committed, Goto
<1>28. ASSUME RecoverRefused PROVE TargetsKnown'
  BY <1>28 DEF RecoverRefused, Committed, Desired, Goto, Recoverable
<1>29. ASSUME RecoverBegin PROVE TargetsKnown'
  BY <1>29 DEF RecoverBegin, Committed, Desired, GotoWith, Recoverable
<1>30. ASSUME NEW f \in Files, Restore(f) PROVE TargetsKnown'
  BY <1>30 DEF Restore, Desired, GotoWith, Put, RestoredOwner, Succeeds
<1>31. ASSUME NEW f \in Files, RestoreFails(f) PROVE TargetsKnown'
  BY <1>31 DEF RestoreFails, Desired, GotoWith, Put, Raises, RestoredOwner
<1>32. ASSUME MarkRecovered PROVE TargetsKnown'
  BY <1>32 DEF MarkRecovered, Goto, Mark, RecoveredStatus, Succeeds
<1>33. ASSUME MarkRecoveredFails PROVE TargetsKnown'
  BY <1>33 DEF MarkRecoveredFails, Goto, MarkRaises, Raises, RecoveredStatus
<1>34. ASSUME NEW f \in Files, CleanBackup(f) PROVE TargetsKnown'
  BY <1>34 DEF CleanBackup, Tree
<1>35. ASSUME CleanUndoDir PROVE TargetsKnown'
  BY <1>35 DEF CleanUndoDir, Goto, Tree
<1>36. ASSUME CleanFails PROVE TargetsKnown'
  BY <1>36 DEF CleanFails, Goto, Raises
<1>37. ASSUME RecoverFinish PROVE TargetsKnown'
  BY <1>37 DEF RecoverFinish, NoCall, Resume, Return, SetJournal, Succeeds
<1>38. ASSUME RecoverFinishFails PROVE TargetsKnown'
  BY <1>38 DEF RecoverFinishFails, Goto, Raises, SetJournal
<1>39. ASSUME MarkRefused PROVE TargetsKnown'
  BY <1>39
     DEF MarkRefused, Mark, NoCall, RefusedStatus, Resume, Return, Succeeds
<1>40. ASSUME MarkRefusedFails PROVE TargetsKnown'
  BY <1>40 DEF MarkRefusedFails, NoCall, Raises, RefusedStatus
<1>41. ASSUME NEW c \in ChangeSets, TakeBaseline(c) PROVE TargetsKnown'
  BY <1>41 DEF TakeBaseline, Tree, Unused
<1>42. ASSUME NEW c \in ChangeSets, NEW t \in Tree,
           NEW s \in {"pending", "draft"}, Create(c, t, s)
      PROVE TargetsKnown'
  BY <1>42 DEF Create, Raises, Succeeds, Tree, Unused
<1>43. ASSUME NEW c \in ChangeSets, NEW k \in {"apply", "undo"}, Enter(c, k)
      PROVE TargetsKnown'
  BY <1>43 DEF Enter
<1>44. ASSUME Crash PROVE TargetsKnown'
  BY <1>44 DEF Crash, NoCall
<1>45. ASSUME Start PROVE TargetsKnown'
  BY <1>45 DEF Start
<1>46. ASSUME NEW c \in ChangeSets, BootRecover(c) PROVE TargetsKnown'
  BY <1>46 DEF BootRecover
<1>47. ASSUME BootDone PROVE TargetsKnown'
  BY <1>47 DEF BootDone
<1>48. ASSUME NEW c \in ChangeSets, NEW f \in Files,
           NEW v \in Contents \cup {Absent}, StageEdit(c, f, v)
      PROVE TargetsKnown'
  BY <1>48 DEF StageEdit
<1>49. ASSUME NEW f \in Files, NEW v \in Contents \cup {Absent}, ManagedSave(f, v)
      PROVE TargetsKnown'
  BY <1>49 DEF ManagedSave, Edit, Put
<1>50. ASSUME NEW f \in Files, NEW v \in Contents \cup {Absent}, OfflineEdit(f, v)
      PROVE TargetsKnown'
  BY <1>50 DEF OfflineEdit, Edit, Put
<1>51. ASSUME NEW f \in Files, NEW v \in Contents \cup {Absent}, ExternalEdit(f, v)
      PROVE TargetsKnown'
  BY <1>51 DEF ExternalEdit, Edit, Put
<1>52. CASE UNCHANGED vars
  BY <1>52 DEF vars
<1> HIDE DEF TargetsKnown
<1> QED
  BY <1>1, <1>2, <1>3, <1>4, <1>5, <1>6, <1>7, <1>8, <1>9, <1>10, <1>11,
     <1>12, <1>13, <1>14, <1>15, <1>16, <1>17, <1>18, <1>19, <1>20, <1>21,
     <1>22, <1>23, <1>24, <1>25, <1>26, <1>27, <1>28, <1>29, <1>30, <1>31,
     <1>32, <1>33, <1>34, <1>35, <1>36, <1>37, <1>38, <1>39, <1>40, <1>41,
     <1>42, <1>43, <1>44, <1>45, <1>46, <1>47, <1>48, <1>49, <1>50, <1>51,
     <1>52
     DEF Next, CallStep, Environment

\* An undo is only published, and only recovered, for what was applied.
LEMMA AppliedStep ==
    ASSUME TypeOK, KindOfStep, CallerKnown, AppliedBeforeUndo, TypeOK',
           [Next]_vars, "external" \notin Edits
    PROVE  AppliedBeforeUndo'
<1> USE PublishAssumption
       DEF TypeOK, KindOfStep, CallerKnown, AppliedBeforeUndo, Steps, Status,
           disk, plan, call, bounds, Changed, Committed
<1>1. ASSUME ApplyRefused PROVE AppliedBeforeUndo'
  BY <1>1 DEF ApplyRefused, NoCall, Return
<1>2. ASSUME ApplyRejected PROVE AppliedBeforeUndo'
  BY <1>2 DEF ApplyRejected, Mark, MarkRaises, NoCall, Raises, Return, Succeeds
<1>3. ASSUME ApplyValidated PROVE AppliedBeforeUndo'
  BY <1>3 DEF ApplyValidated, Goto
<1>4. ASSUME UndoRefused PROVE AppliedBeforeUndo'
  BY <1>4 DEF UndoRefused, NoCall, Return, UndoReady
<1>5. ASSUME UndoValidated PROVE AppliedBeforeUndo'
  BY <1>5 DEF UndoValidated, Goto, UndoReady
<1>6. ASSUME MakeUndoDir PROVE AppliedBeforeUndo'
  BY <1>6 DEF MakeUndoDir, GotoWith, Succeeds
<1>7. ASSUME MakeUndoDirFails PROVE AppliedBeforeUndo'
  BY <1>7 DEF MakeUndoDirFails, Goto, Raises, Succeeds
<1>8. ASSUME NEW f \in Files, BackUp(f) PROVE AppliedBeforeUndo'
  BY <1>8 DEF BackUp, GotoWith, SaveBackup, Succeeds
<1>9. ASSUME NEW f \in Files, BackUpFails(f) PROVE AppliedBeforeUndo'
  BY <1>9 DEF BackUpFails, GotoWith, Raises, SaveBackup
<1>10. ASSUME BeginPublish PROVE AppliedBeforeUndo'
  BY <1>10 DEF BeginPublish, GotoWith, ReadyToBegin, SetJournal, Succeeds
<1>11. ASSUME BeginPublishFails PROVE AppliedBeforeUndo'
  BY <1>11 DEF BeginPublishFails, Goto, Raises, ReadyToBegin, SetJournal
<1>12. ASSUME NEW f \in Files, WriteTarget(f) PROVE AppliedBeforeUndo'
  BY <1>12 DEF WriteTarget, Goal, Gone, Owner, Put, Succeeds
<1>13. ASSUME NEW f \in Files, WriteTargetFails(f) PROVE AppliedBeforeUndo'
  BY <1>13
     DEF WriteTargetFails, Goal, Gone, GotoWith, Owner, Put, Raises, Succeeds
<1>14. ASSUME NEW f \in Files, RollBack(f) PROVE AppliedBeforeUndo'
  BY <1>14 DEF RollBack, Put, Raises, RollBackOwner, RolledBackTo, Succeeds
<1>15. ASSUME RolledBack PROVE AppliedBeforeUndo'
  BY <1>15 DEF RolledBack
<1>16. ASSUME MarkFailed PROVE AppliedBeforeUndo'
  BY <1>16 DEF MarkFailed, Mark, NoCall, Return, Succeeds
<1>17. ASSUME MarkFailedFails PROVE AppliedBeforeUndo'
  BY <1>17 DEF MarkFailedFails, MarkRaises, NoCall, Raises, Return
<1>18. ASSUME Commit PROVE AppliedBeforeUndo'
  BY <1>18 DEF Commit, GotoWith, Mark, Outcome, Succeeds
<1>19. ASSUME CommitFails PROVE AppliedBeforeUndo'
  BY <1>19 DEF CommitFails, MarkRaises, NoCall, Outcome, Raises, Return
<1>20. ASSUME FinishPublish PROVE AppliedBeforeUndo'
  BY <1>20 DEF FinishPublish, Goto, NoCall, Return, SetJournal, Succeeds
<1>21. ASSUME FinishPublishFails PROVE AppliedBeforeUndo'
  BY <1>21 DEF FinishPublishFails, NoCall, Raises, Return, SetJournal
<1>22. ASSUME NEW f \in Files, RemoveStaged(f) PROVE AppliedBeforeUndo'
  BY <1>22 DEF RemoveStaged, Holds, Tree
<1>23. ASSUME RemoveStage PROVE AppliedBeforeUndo'
  BY <1>23 DEF RemoveStage, Goto, Holds, NoCall, Return, Tree
<1>24. ASSUME RemoveStageFails PROVE AppliedBeforeUndo'
  BY <1>24 DEF RemoveStageFails, NoCall, Raises, Return
<1>25. ASSUME NEW c \in ChangeSets, Discard(c) PROVE AppliedBeforeUndo'
  BY <1>25 DEF Discard
<1>26. ASSUME RecordDiscard PROVE AppliedBeforeUndo'
  BY <1>26 DEF RecordDiscard, NoCall, Raises, Return, Succeeds
<1>27. ASSUME RecoverCommitted PROVE AppliedBeforeUndo'
  BY <1>27 DEF RecoverCommitted, Goto
<1>28. ASSUME RecoverRefused PROVE AppliedBeforeUndo'
  BY <1>28 DEF RecoverRefused, Desired, Goto, Recoverable
<1>29. ASSUME RecoverBegin PROVE AppliedBeforeUndo'
  BY <1>29 DEF RecoverBegin, Desired, GotoWith, Recoverable
<1>30. ASSUME NEW f \in Files, Restore(f) PROVE AppliedBeforeUndo'
  BY <1>30 DEF Restore, Desired, GotoWith, Put, RestoredOwner, Succeeds
<1>31. ASSUME NEW f \in Files, RestoreFails(f) PROVE AppliedBeforeUndo'
  BY <1>31 DEF RestoreFails, Desired, GotoWith, Put, Raises, RestoredOwner
<1>32. ASSUME MarkRecovered PROVE AppliedBeforeUndo'
  BY <1>32 DEF MarkRecovered, Goto, Mark, RecoveredStatus, Succeeds
<1>33. ASSUME MarkRecoveredFails PROVE AppliedBeforeUndo'
  BY <1>33 DEF MarkRecoveredFails, Goto, MarkRaises, Raises, RecoveredStatus
<1>34. ASSUME NEW f \in Files, CleanBackup(f) PROVE AppliedBeforeUndo'
  BY <1>34 DEF CleanBackup, Tree
<1>35. ASSUME CleanUndoDir PROVE AppliedBeforeUndo'
  BY <1>35 DEF CleanUndoDir, Goto, Tree
<1>36. ASSUME CleanFails PROVE AppliedBeforeUndo'
  BY <1>36 DEF CleanFails, Goto, Raises
<1>37. ASSUME RecoverFinish PROVE AppliedBeforeUndo'
  BY <1>37 DEF RecoverFinish, NoCall, Resume, Return, SetJournal, Succeeds
<1>38. ASSUME RecoverFinishFails PROVE AppliedBeforeUndo'
  BY <1>38 DEF RecoverFinishFails, Goto, Raises, SetJournal
<1>39. ASSUME MarkRefused PROVE AppliedBeforeUndo'
  BY <1>39
     DEF MarkRefused, Mark, NoCall, RefusedStatus, Resume, Return, Succeeds
<1>40. ASSUME MarkRefusedFails PROVE AppliedBeforeUndo'
  BY <1>40 DEF MarkRefusedFails, NoCall, Raises, RefusedStatus
<1>41. ASSUME NEW c \in ChangeSets, TakeBaseline(c) PROVE AppliedBeforeUndo'
  BY <1>41 DEF TakeBaseline, Tree, Unused
<1>42. ASSUME NEW c \in ChangeSets, NEW t \in Tree,
           NEW s \in {"pending", "draft"}, Create(c, t, s)
      PROVE AppliedBeforeUndo'
  <2>1. /\ \A d \in ChangeSets \ {c} : dstat'[d] = dstat[d] /\ mem'[d] = mem[d]
        /\ mem'[c] = s /\ dstat'[c] \in {dstat[c], s}
    BY <1>42 DEF Create
  <2>2. dstat[c] = "none"
    BY <1>42 DEF Create, Unused
  <2> QED
    BY <1>42, <2>1, <2>2 DEF Create
<1>43. ASSUME NEW c \in ChangeSets, NEW k \in {"apply", "undo"}, Enter(c, k)
      PROVE AppliedBeforeUndo'
  BY <1>43 DEF Enter
<1>44. ASSUME Crash PROVE AppliedBeforeUndo'
  BY <1>44 DEF Crash, NoCall
<1>45. ASSUME Start PROVE AppliedBeforeUndo'
  BY <1>45 DEF Start
<1>46. ASSUME NEW c \in ChangeSets, BootRecover(c) PROVE AppliedBeforeUndo'
  BY <1>46 DEF BootRecover
<1>47. ASSUME BootDone PROVE AppliedBeforeUndo'
  BY <1>47 DEF BootDone
<1>48. ASSUME NEW c \in ChangeSets, NEW f \in Files,
           NEW v \in Contents \cup {Absent}, StageEdit(c, f, v)
      PROVE AppliedBeforeUndo'
  BY <1>48 DEF StageEdit
<1>49. ASSUME NEW f \in Files, NEW v \in Contents \cup {Absent}, ManagedSave(f, v)
      PROVE AppliedBeforeUndo'
  BY <1>49 DEF ManagedSave, Edit, Put
<1>50. ASSUME NEW f \in Files, NEW v \in Contents \cup {Absent}, OfflineEdit(f, v)
      PROVE AppliedBeforeUndo'
  BY <1>50 DEF OfflineEdit, Edit, Put
<1>51. ASSUME NEW f \in Files, NEW v \in Contents \cup {Absent}, ExternalEdit(f, v)
      PROVE AppliedBeforeUndo'
  BY <1>51 DEF ExternalEdit, Edit, Put
<1>52. CASE UNCHANGED vars
  BY <1>52 DEF vars
<1> QED
  BY <1>1, <1>2, <1>3, <1>4, <1>5, <1>6, <1>7, <1>8, <1>9, <1>10, <1>11,
     <1>12, <1>13, <1>14, <1>15, <1>16, <1>17, <1>18, <1>19, <1>20, <1>21,
     <1>22, <1>23, <1>24, <1>25, <1>26, <1>27, <1>28, <1>29, <1>30, <1>31,
     <1>32, <1>33, <1>34, <1>35, <1>36, <1>37, <1>38, <1>39, <1>40, <1>41,
     <1>42, <1>43, <1>44, <1>45, <1>46, <1>47, <1>48, <1>49, <1>50, <1>51,
     <1>52
     DEF Next, CallStep, Environment

\* A file that the publisher changes held its old or its new content.
LEMMA PreservesStep ==
    ASSUME EInv, [Next]_vars, NEW f \in Files, ws'[f] # ws[f], edits' = edits
    PROVE  ws[f] \in {base[cur][f], new[cur][f]}
<1> USE DEF disk, plan, call, bounds
<1>1. ASSUME NEW g \in Files, WriteTarget(g) \/ WriteTargetFails(g)
      PROVE ws[f] \in {base[cur][f], new[cur][f]}
  <2>1. pc = "write" /\ f \in todo
    BY <1>1 DEF WriteTarget, WriteTargetFails, Put, EInv, TypeOK, Tree
  <2> QED
    BY <2>1 DEF EInv, TargetsKnown, Prior
<1>2. ASSUME NEW g \in Files, RollBack(g)
      PROVE ws[f] \in {base[cur][f], new[cur][f]}
  <2>1. pc = "rollback" /\ f \in done
    BY <1>2 DEF RollBack, Put, EInv, TypeOK, Tree
  <2> QED
    BY <2>1 DEF EInv, TargetsKnown, Goal
<1>3. ASSUME NEW g \in Files, Restore(g) \/ RestoreFails(g)
      PROVE ws[f] \in {base[cur][f], new[cur][f]}
  <2>1. pc = "restore" /\ f \in todo
    BY <1>3 DEF Restore, RestoreFails, Put, EInv, TypeOK, Tree
  <2> QED
    BY <2>1 DEF EInv, TargetsKnown
<1>4. ASSUME NEW g \in Files, NEW v \in Contents \cup {Absent},
             ManagedSave(g, v) \/ OfflineEdit(g, v) \/ ExternalEdit(g, v)
      PROVE ws[f] \in {base[cur][f], new[cur][f]}
  BY <1>4 DEF ManagedSave, OfflineEdit, ExternalEdit, Edit, EInv, TypeOK
<1>5. ASSUME \/ ApplyRefused \/ ApplyRejected \/ ApplyValidated
             \/ UndoRefused \/ UndoValidated \/ MakeUndoDir
             \/ MakeUndoDirFails \/ BeginPublish \/ BeginPublishFails
      PROVE ws' = ws
  BY <1>5
     DEF ApplyRefused, ApplyRejected, ApplyValidated, UndoRefused,
         UndoValidated, MakeUndoDir, MakeUndoDirFails, BeginPublish,
         BeginPublishFails
<1>6. ASSUME \/ RolledBack \/ MarkFailed \/ MarkFailedFails
             \/ Commit \/ CommitFails \/ FinishPublish
             \/ FinishPublishFails \/ RemoveStage \/ RemoveStageFails
      PROVE ws' = ws
  BY <1>6
     DEF RolledBack, MarkFailed, MarkFailedFails, Commit, CommitFails,
         FinishPublish, FinishPublishFails, RemoveStage, RemoveStageFails
<1>7. ASSUME \/ RecordDiscard \/ RecoverCommitted \/ RecoverRefused
             \/ RecoverBegin \/ MarkRecovered \/ MarkRecoveredFails
             \/ CleanUndoDir \/ CleanFails \/ RecoverFinish
      PROVE ws' = ws
  BY <1>7
     DEF RecordDiscard, RecoverCommitted, RecoverRefused, RecoverBegin,
         MarkRecovered, MarkRecoveredFails, CleanUndoDir, CleanFails,
         RecoverFinish
<1>8. ASSUME \/ RecoverFinishFails \/ MarkRefused \/ MarkRefusedFails
             \/ Crash \/ Start \/ BootDone
      PROVE ws' = ws
  BY <1>8
     DEF RecoverFinishFails, MarkRefused, MarkRefusedFails, Crash, Start,
         BootDone
<1>9. ASSUME NEW g \in Files,
             \/ BackUp(g) \/ BackUpFails(g) \/ RemoveStaged(g)
             \/ CleanBackup(g)
      PROVE ws' = ws
  BY <1>9 DEF BackUp, BackUpFails, RemoveStaged, CleanBackup
<1>10. ASSUME NEW d \in ChangeSets,
             \/ Discard(d) \/ TakeBaseline(d) \/ BootRecover(d)
      PROVE ws' = ws
  BY <1>10 DEF Discard, TakeBaseline, BootRecover
<1>11. ASSUME NEW d \in ChangeSets, NEW t \in Tree,
           NEW s \in {"pending", "draft"},
             Create(d, t, s)
      PROVE ws' = ws
  BY <1>11 DEF Create
<1>12. ASSUME NEW d \in ChangeSets, NEW k \in {"apply", "undo"},
             Enter(d, k)
      PROVE ws' = ws
  BY <1>12 DEF Enter
<1>13. ASSUME NEW d \in ChangeSets, NEW g \in Files,
           NEW v \in Contents \cup {Absent},
             StageEdit(d, g, v)
      PROVE ws' = ws
  BY <1>13 DEF StageEdit
<1>14. CASE UNCHANGED vars
  BY <1>14 DEF vars
<1> QED
  BY <1>1, <1>2, <1>3, <1>4, <1>5, <1>6, <1>7, <1>8, <1>9, <1>10, <1>11,
     <1>12, <1>13, <1>14
     DEF Next, CallStep, Environment

\* The two commit points of c.
CommitOf(c) ==
    /\ dstat[c] = "pending" /\ dstat'[c] = "applied" => ws' = new[c]
    /\ dstat[c] = "applied" /\ dstat'[c] = "undone"
        => \A f \in Changed(c) : ws'[f] = base[c][f]

\* A status that is written is the commit of a complete publication, or one
\* that an unfinished publication can come back to.
LEMMA CommitStep ==
    ASSUME EInv, [Next]_vars, NEW c \in ChangeSets
    PROVE  CommitOf(c)
<1> USE DEF disk, plan, call, bounds
<1>0. ASSUME dstat' = dstat PROVE CommitOf(c)
  BY <1>0 DEF CommitOf
<1>1. ASSUME NEW s \in Status \ {"applied", "undone"},
             Mark(s) \/ MarkRaises(s)
      PROVE CommitOf(c)
  <2>1. dstat'[c] = dstat[c] \/ dstat'[c] = s
    BY <1>1 DEF Mark, MarkRaises, EInv, TypeOK
  <2> QED
    BY <1>1, <2>1 DEF CommitOf
<1>2. ASSUME Commit \/ CommitFails
      PROVE CommitOf(c)
  <2>1. pc = "write" /\ todo = {} /\ ws' = ws
    BY <1>2 DEF Commit, CommitFails
  <2>2. dstat'[c] = dstat[c] \/ (c = cur /\ dstat'[c] = Outcome)
    BY <1>2 DEF Commit, CommitFails, Mark, MarkRaises, EInv, TypeOK
  <2>3. cur \in ChangeSets /\ kind \in {"apply", "undo"}
    BY <2>1 DEF EInv, TypeOK, KindOfStep
  <2>4. \A f \in Changed(cur) : ws[f] = Goal(f)
    BY <2>1 DEF EInv, TargetsKnown
  <2>5. CASE kind = "apply"
    <3>1. \A f \in Files : ws[f] = new[cur][f]
      BY <2>1, <2>3, <2>4, <2>5 DEF EInv, TargetsKnown, Goal, Changed
    <3>2. ws = new[cur]
      BY <2>3, <3>1 DEF EInv, TypeOK, Tree
    <3> QED
      BY <2>1, <2>2, <2>5, <3>2 DEF CommitOf, Outcome
  <2>6. CASE kind = "undo"
    BY <2>1, <2>2, <2>4, <2>6 DEF CommitOf, Outcome, Goal
  <2> QED
    BY <2>3, <2>5, <2>6
<1>3. ASSUME MarkRecovered \/ MarkRecoveredFails
      PROVE CommitOf(c)
  <2>1. CASE RecoveredStatus # "applied"
    BY <1>1, <1>3, <2>1
       DEF MarkRecovered, MarkRecoveredFails, RecoveredStatus, Status
  <2>2. CASE RecoveredStatus = "applied"
    <3>1. cur \in ChangeSets
      BY <1>3 DEF MarkRecovered, MarkRecoveredFails, EInv, TypeOK
    <3>2. journal[cur] = "undo"
      BY <1>3, <2>2, <3>1 DEF MarkRecovered, MarkRecoveredFails,
             RecoveredStatus, EInv, TypeOK, AppliedBeforeUndo
    <3>3. dstat[cur] # "pending"
      BY <3>1, <3>2 DEF EInv, AppliedBeforeUndo
    <3>4. dstat'[c] = dstat[c] \/ (c = cur /\ dstat'[c] = "applied")
      BY <1>3, <2>2, <3>1 DEF MarkRecovered, MarkRecoveredFails, Mark,
             MarkRaises, EInv, TypeOK
    <3> QED
      BY <3>3, <3>4 DEF CommitOf
  <2> QED
    BY <2>1, <2>2
<1>4. ASSUME \/ ApplyRejected \/ MarkFailed \/ MarkFailedFails \/ MarkRefused
      PROVE CommitOf(c)
  BY <1>1, <1>4 DEF ApplyRejected, MarkFailed, MarkFailedFails, MarkRefused,
                    RefusedStatus, Status
<1>5. ASSUME RecordDiscard \/ MarkRefusedFails
      PROVE CommitOf(c)
  BY <1>5 DEF RecordDiscard, MarkRefusedFails, RefusedStatus, CommitOf, EInv, TypeOK
<1>6. ASSUME NEW d \in ChangeSets, NEW t \in Tree,
             NEW s \in {"pending", "draft"}, Create(d, t, s)
      PROVE CommitOf(c)
  BY <1>6 DEF Create, CommitOf, EInv, TypeOK
<1>7. ASSUME \/ ApplyRefused \/ ApplyValidated \/ UndoRefused
             \/ UndoValidated \/ MakeUndoDir \/ MakeUndoDirFails
             \/ BeginPublish \/ BeginPublishFails \/ RolledBack
      PROVE CommitOf(c)
  BY <1>0, <1>7
     DEF ApplyRefused, ApplyValidated, UndoRefused, UndoValidated,
         MakeUndoDir, MakeUndoDirFails, BeginPublish, BeginPublishFails,
         RolledBack
<1>8. ASSUME \/ FinishPublish \/ FinishPublishFails \/ RemoveStage
             \/ RemoveStageFails \/ RecoverCommitted \/ RecoverRefused
             \/ RecoverBegin \/ CleanUndoDir \/ CleanFails
      PROVE CommitOf(c)
  BY <1>0, <1>8
     DEF FinishPublish, FinishPublishFails, RemoveStage, RemoveStageFails,
         RecoverCommitted, RecoverRefused, RecoverBegin, CleanUndoDir,
         CleanFails
<1>9. ASSUME \/ RecoverFinish \/ RecoverFinishFails \/ Crash
             \/ Start \/ BootDone
      PROVE CommitOf(c)
  BY <1>0, <1>9 DEF RecoverFinish, RecoverFinishFails, Crash, Start, BootDone
<1>10. ASSUME NEW f \in Files,
             \/ BackUp(f) \/ BackUpFails(f) \/ WriteTarget(f)
             \/ WriteTargetFails(f) \/ RollBack(f) \/ RemoveStaged(f)
             \/ Restore(f) \/ RestoreFails(f) \/ CleanBackup(f)
      PROVE CommitOf(c)
  BY <1>0, <1>10
     DEF BackUp, BackUpFails, WriteTarget, WriteTargetFails, RollBack,
         RemoveStaged, Restore, RestoreFails, CleanBackup
<1>11. ASSUME NEW d \in ChangeSets,
             \/ Discard(d) \/ TakeBaseline(d) \/ BootRecover(d)
      PROVE CommitOf(c)
  BY <1>0, <1>11 DEF Discard, TakeBaseline, BootRecover
<1>12. ASSUME NEW d \in ChangeSets, NEW k \in {"apply", "undo"},
             Enter(d, k)
      PROVE CommitOf(c)
  BY <1>0, <1>12 DEF Enter
<1>13. ASSUME NEW d \in ChangeSets, NEW f \in Files,
           NEW v \in Contents \cup {Absent},
             StageEdit(d, f, v)
      PROVE CommitOf(c)
  BY <1>0, <1>13 DEF StageEdit
<1>14. ASSUME NEW f \in Files, NEW v \in Contents \cup {Absent},
             \/ ManagedSave(f, v) \/ OfflineEdit(f, v) \/ ExternalEdit(f, v)
      PROVE CommitOf(c)
  BY <1>0, <1>14 DEF ManagedSave, OfflineEdit, ExternalEdit, Edit
<1>15. CASE UNCHANGED vars
  BY <1>0, <1>15 DEF vars
<1> QED
  BY <1>1, <1>2, <1>3, <1>4, <1>5, <1>6, <1>7, <1>8, <1>9, <1>10, <1>11,
     <1>12, <1>13, <1>14, <1>15
     DEF Next, CallStep, Environment

\* The invariant holds before any ChangeSet exists.
LEMMA InitEInv == Init => EInv
<1> SUFFICES ASSUME Init PROVE EInv
  OBVIOUS
<1>1. TypeOK /\ KindOfStep
  BY InitInv DEF IInv
<1>2. CallerKnown /\ TargetsKnown /\ AppliedBeforeUndo
  BY PublishAssumption DEF Init, CallerKnown, TargetsKnown, AppliedBeforeUndo
<1> QED
  BY <1>1, <1>2 DEF EInv

\* Without editors that ignore the lock, what a call knows of its targets stays
\* true.
LEMMA EInvHolds ==
    ASSUME "external" \notin Edits
    PROVE  Spec => []EInv
<1>1. EInv /\ [Next]_vars => EInv'
  BY TypeStep, CallerStep, TargetsStep, AppliedStep DEF EInv
<1> QED
  BY InitEInv, <1>1, PTL DEF Spec

---------------------------------------------------------------------------
\* Edits made under the lock or while the application is closed survive every
\* publication, rollback and recovery, whatever raises: the publisher writes
\* only over the old or the new content of the ChangeSet.
THEOREM EditsSurvive ==
    ASSUME "external" \notin Edits
    PROVE  Spec => PublisherPreservesEdits
<1>1. EInv /\ [Next]_vars =>
        [\A f \in Files : ws'[f] # ws[f] /\ edits' = edits
             => ws[f] \in {base[cur][f], new[cur][f]}]_vars
  BY PreservesStep
<1> QED
  BY EInvHolds, <1>1, PTL DEF Spec, PublisherPreservesEdits

\* What is recorded as applied is the whole reviewed tree, what is recorded as
\* undone is back at its baseline, at the moment the status reaches the disk.
THEOREM ReviewIsWhatIsCommitted ==
    ASSUME "external" \notin Edits
    PROVE  Spec => CommitMatchesReview
<1>1. EInv /\ [Next]_vars => \A c \in ChangeSets : CommitOf(c)
  BY CommitStep
<1>2. EInv /\ [Next]_vars =>
        [\A c \in ChangeSets :
            /\ dstat[c] = "pending" /\ dstat'[c] = "applied" => ws' = new[c]
            /\ dstat[c] = "applied" /\ dstat'[c] = "undone"
                => \A f \in Changed(c) : ws'[f] = base[c][f]]_vars
  BY <1>1 DEF CommitOf
<1> QED
  BY EInvHolds, <1>2, PTL DEF Spec, CommitMatchesReview

---------------------------------------------------------------------------
(* The refinement of AtomicPublish: its invariant AInv, what the abstract  *)
(* workspace shows, and what each step of the service is there.            *)

\* A journal meets only the statuses of its own publication, and the files behind
\* a call are where it has put them.
LEMMA FilesStep ==
    ASSUME OInv, EInv, JournalStatus, FilesOfStep, TypeOK', KindOfStep', [Next]_vars,
           Faults \cap {"mark", "journal", "finish"} = {}, "external" \notin Edits
    PROVE  JournalStatus' /\ FilesOfStep'
<1> DEFINE Goals == JournalStatus /\ FilesOfStep
<1>0. /\ TypeOK /\ KindOfStep /\ MemoryMirrorsDisk /\ JournalOfStep
      /\ OwnersAnswer /\ TargetsChanged /\ StatusOfStep /\ RecoveryOfStep
      /\ TargetsKnown /\ AppliedBeforeUndo
  BY DEF OInv, EInv, IInv
<1> USE <1>0, PublishAssumption
       DEF TypeOK, KindOfStep, MemoryMirrorsDisk, JournalOfStep, TargetsChanged,
           StatusOfStep, RecoveryOfStep, JournalStatus, FilesOfStep, Steps,
           Status, Outcome, Committed, disk, plan, call, bounds, Changed
<1>1. ASSUME ApplyRefused PROVE Goals'
  BY <1>1 DEF ApplyRefused, NoCall, Return
<1>2. ASSUME ApplyRejected PROVE Goals'
  BY <1>2 DEF ApplyRejected, Mark, MarkRaises, NoCall, Raises, Return, Succeeds
<1>3. ASSUME ApplyValidated PROVE Goals'
  BY <1>3 DEF ApplyValidated, Goto
<1>4. ASSUME UndoRefused PROVE Goals'
  BY <1>4 DEF UndoRefused, NoCall, Return, UndoReady
<1>5. ASSUME UndoValidated PROVE Goals'
  BY <1>5 DEF UndoValidated, Goto, UndoReady
<1>6. ASSUME MakeUndoDir PROVE Goals'
  BY <1>6 DEF MakeUndoDir, GotoWith, Succeeds
<1>7. ASSUME MakeUndoDirFails PROVE Goals'
  BY <1>7 DEF MakeUndoDirFails, Goto, Raises, Succeeds
<1>8. ASSUME NEW f \in Files, BackUp(f) PROVE Goals'
  BY <1>8 DEF BackUp, GotoWith, SaveBackup, Succeeds
<1>9. ASSUME NEW f \in Files, BackUpFails(f) PROVE Goals'
  BY <1>9 DEF BackUpFails, GotoWith, Raises, SaveBackup
<1>10. ASSUME BeginPublish PROVE Goals'
  BY <1>10 DEF BeginPublish, GotoWith, ReadyToBegin, SetJournal, Succeeds
<1>11. ASSUME BeginPublishFails PROVE Goals'
  BY <1>11 DEF BeginPublishFails, Goto, Raises, ReadyToBegin, SetJournal
<1>12. ASSUME NEW f \in Files, WriteTarget(f) PROVE Goals'
  BY <1>12 DEF WriteTarget, Goal, Gone, Owner, Put, Succeeds
<1>13. ASSUME NEW f \in Files, WriteTargetFails(f) PROVE Goals'
  BY <1>13
     DEF WriteTargetFails, Goal, Gone, GotoWith, Owner, Put, Raises, Succeeds
<1>14. ASSUME NEW f \in Files, RollBack(f) PROVE Goals'
  <2>1. UNCHANGED <<pc, kind, cur, todo, rec, journal, dstat, base, new>>
    BY <1>14 DEF RollBack
  <2>2. pc = "rollback" /\ done' = done \ {f}
    BY <1>14 DEF RollBack
  <2>3. \A g \in done' : writer'[g] = writer[g]
    BY <1>14, <2>2 DEF RollBack, Put
  <2>4. JournalStatus'
    BY <2>1
  <2>5. FilesOfStep'
    BY <2>1, <2>2, <2>3 DEF Owner
  <2> QED
    BY <2>4, <2>5
<1>15. ASSUME RolledBack PROVE Goals'
  BY <1>15 DEF RolledBack
<1>16. ASSUME MarkFailed PROVE Goals'
  BY <1>16 DEF MarkFailed, Mark, NoCall, Return, Succeeds
<1>17. ASSUME MarkFailedFails PROVE Goals'
  BY <1>17 DEF MarkFailedFails, MarkRaises, NoCall, Raises, Return
<1>18. ASSUME Commit PROVE Goals'
  BY <1>18 DEF Commit, GotoWith, Mark, Outcome, Succeeds
<1>19. ASSUME CommitFails PROVE Goals'
  BY <1>19 DEF CommitFails, MarkRaises, NoCall, Outcome, Raises, Return
<1>20. ASSUME FinishPublish PROVE Goals'
  BY <1>20 DEF FinishPublish, Goto, NoCall, Return, SetJournal, Succeeds
<1>21. ASSUME FinishPublishFails PROVE Goals'
  BY <1>21 DEF FinishPublishFails, NoCall, Raises, Return, SetJournal
<1>22. ASSUME NEW f \in Files, RemoveStaged(f) PROVE Goals'
  BY <1>22 DEF RemoveStaged, Holds, Tree
<1>23. ASSUME RemoveStage PROVE Goals'
  BY <1>23 DEF RemoveStage, Goto, Holds, NoCall, Return, Tree
<1>24. ASSUME RemoveStageFails PROVE Goals'
  BY <1>24 DEF RemoveStageFails, NoCall, Raises, Return
<1>25. ASSUME NEW c \in ChangeSets, Discard(c) PROVE Goals'
  BY <1>25 DEF Discard
<1>26. ASSUME RecordDiscard PROVE Goals'
  BY <1>26 DEF RecordDiscard, NoCall, Raises, Return, Succeeds
<1>27. ASSUME RecoverCommitted PROVE Goals'
  BY <1>27 DEF RecoverCommitted, Committed, Goto
<1>28. ASSUME RecoverRefused PROVE Goals'
  BY <1>28 DEF RecoverRefused, Committed, Desired, Goto, Recoverable
<1>29. ASSUME RecoverBegin PROVE Goals'
  BY <1>29 DEF RecoverBegin, Committed, Desired, GotoWith, Recoverable
<1>30. ASSUME NEW f \in Files, Restore(f) PROVE Goals'
  <2>1. UNCHANGED <<pc, kind, cur, done, rec, journal, dstat, base, new>>
    BY <1>30 DEF Restore, GotoWith
  <2>2. pc = "restore" /\ todo' = todo \ {f}
    BY <1>30 DEF Restore, GotoWith
  <2>3. \A g \in Changed(cur) \ todo' : ws'[g] = Desired(g)
    BY <1>30, <2>2 DEF Restore, Put, Tree, Desired
  <2>4. JournalStatus'
    BY <2>1
  <2>5. FilesOfStep'
    BY <2>1, <2>2, <2>3 DEF Desired
  <2> QED
    BY <2>4, <2>5
<1>31. ASSUME NEW f \in Files, RestoreFails(f) PROVE Goals'
  BY <1>31 DEF RestoreFails, Desired, GotoWith, Put, Raises, RestoredOwner
<1>32. ASSUME MarkRecovered PROVE Goals'
  <2>1. /\ UNCHANGED <<kind, cur, todo, done, rec, journal, ws, base, new>>
        /\ pc = "restore" /\ todo = {} /\ pc' \in {"rclean", "rfinish"}
        /\ cur \in ChangeSets
    BY <1>32 DEF MarkRecovered, Goto
  <2>2. dstat' = [dstat EXCEPT ![cur] = RecoveredStatus]
    BY <1>32 DEF MarkRecovered, Mark
  <2>3. JournalStatus'
    BY <2>1, <2>2 DEF RecoveredStatus
  <2>4. rec = "failed" => dstat'[cur] = "failed"
    BY <2>1, <2>2 DEF RecoveredStatus
  <2>5. journal[cur] = "undo" => \A f \in Changed(cur) : ws[f] = new[cur][f]
    BY <2>1 DEF Desired
  <2>6. FilesOfStep'
    BY <2>1, <2>4, <2>5
  <2> QED
    BY <2>3, <2>6
<1>33. ASSUME MarkRecoveredFails PROVE Goals'
  BY <1>33 DEF MarkRecoveredFails, Goto, MarkRaises, Raises, RecoveredStatus
<1>34. ASSUME NEW f \in Files, CleanBackup(f) PROVE Goals'
  BY <1>34 DEF CleanBackup, Tree
<1>35. ASSUME CleanUndoDir PROVE Goals'
  BY <1>35 DEF CleanUndoDir, Goto, RestoredFirst
<1>36. ASSUME CleanFails PROVE Goals'
  BY <1>36 DEF CleanFails, Goto, Raises
<1>37. ASSUME RecoverFinish PROVE Goals'
  BY <1>37 DEF RecoverFinish, NoCall, Resume, Return, SetJournal, Succeeds
<1>38. ASSUME RecoverFinishFails PROVE Goals'
  BY <1>38 DEF RecoverFinishFails, Goto, Raises, SetJournal
<1>39. ASSUME MarkRefused PROVE Goals'
  BY <1>39
     DEF MarkRefused, Mark, NoCall, RefusedStatus, Resume, Return, Succeeds
<1>40. ASSUME MarkRefusedFails PROVE Goals'
  BY <1>40 DEF MarkRefusedFails, NoCall, Raises, RefusedStatus
<1>41. ASSUME NEW c \in ChangeSets, TakeBaseline(c) PROVE Goals'
  <2>1. /\ UNCHANGED <<pc, kind, cur, todo, done, rec, journal, dstat, ws,
                       writer, new>>
        /\ pc # "down" /\ base' = [base EXCEPT ![c] = ws] /\ dstat[c] = "none"
    BY <1>41 DEF TakeBaseline, Unused
  <2>2. cur # c
    BY <2>1
  <2>3. JournalStatus'
    BY <2>1
  <2>4. cur # NoSet => base'[cur] = base[cur]
    BY <2>1, <2>2
  <2>5. FilesOfStep'
    BY <2>1, <2>4 DEF Owner, Desired
  <2> QED
    BY <2>3, <2>5
<1>42. ASSUME NEW c \in ChangeSets, NEW t \in Tree,
           NEW s \in {"pending", "draft"}, Create(c, t, s)
      PROVE Goals'
  <2>1. /\ UNCHANGED <<pc, kind, cur, todo, done, rec, journal, ws, writer, base>>
        /\ pc = "idle" /\ dstat[c] = "none"
        /\ dstat' \in {dstat, [dstat EXCEPT ![c] = s]}
    BY <1>42 DEF Create, Unused
  <2>2. journal[c] = "none" /\ cur = NoSet
    BY <2>1
  <2>3. JournalStatus'
    BY <2>1, <2>2
  <2>4. FilesOfStep'
    BY <2>1, <2>2
  <2> QED
    BY <2>3, <2>4
<1>43. ASSUME NEW c \in ChangeSets, NEW k \in {"apply", "undo"}, Enter(c, k)
      PROVE Goals'
  BY <1>43 DEF Enter
<1>44. ASSUME Crash PROVE Goals'
  BY <1>44 DEF Crash, NoCall
<1>45. ASSUME Start PROVE Goals'
  BY <1>45 DEF Start
<1>46. ASSUME NEW c \in ChangeSets, BootRecover(c) PROVE Goals'
  BY <1>46 DEF BootRecover
<1>47. ASSUME BootDone PROVE Goals'
  BY <1>47 DEF BootDone
<1>48. ASSUME NEW c \in ChangeSets, NEW f \in Files,
           NEW v \in Contents \cup {Absent}, StageEdit(c, f, v)
      PROVE Goals'
  <2>1. UNCHANGED <<pc, kind, cur, todo, done, rec, journal, dstat, ws, writer,
                    base, new>>
    BY <1>48 DEF StageEdit
  <2> QED
    BY <2>1 DEF Owner, Desired
<1>49. ASSUME NEW f \in Files, NEW v \in Contents \cup {Absent}, ManagedSave(f, v)
      PROVE Goals'
  BY <1>49 DEF ManagedSave, Edit, Put
<1>50. ASSUME NEW f \in Files, NEW v \in Contents \cup {Absent}, OfflineEdit(f, v)
      PROVE Goals'
  BY <1>50 DEF OfflineEdit, Edit, Put
<1>51. ASSUME NEW f \in Files, NEW v \in Contents \cup {Absent}, ExternalEdit(f, v)
      PROVE Goals'
  BY <1>51 DEF ExternalEdit, Edit, Put
<1>52. CASE UNCHANGED vars
  BY <1>52 DEF vars, Owner, Desired
<1> HIDE <1>0, PublishAssumption
       DEF TypeOK, KindOfStep, MemoryMirrorsDisk, JournalOfStep, OwnersAnswer,
           TargetsChanged, StatusOfStep, RecoveryOfStep, Steps, Status, Outcome,
           Committed, disk, plan, call, bounds, Changed
<1>53. CASE CallStep
  BY <1>53, <1>1, <1>2, <1>3, <1>4, <1>5, <1>6, <1>7, <1>8, <1>9, <1>10,
     <1>11, <1>12, <1>13, <1>14, <1>15, <1>16, <1>17, <1>18, <1>19, <1>20,
     <1>21, <1>22, <1>23, <1>24, <1>26, <1>27, <1>28, <1>29, <1>30, <1>31,
     <1>32, <1>33, <1>34, <1>35, <1>36, <1>37, <1>38, <1>39, <1>40, <1>46,
     <1>47
     DEF CallStep
<1>54. CASE Environment
  BY <1>54, <1>41, <1>42, <1>43, <1>44, <1>45, <1>25, <1>48, <1>49, <1>50,
     <1>51
     DEF Environment
<1> QED
  BY <1>52, <1>53, <1>54 DEF Next

\* The invariant of the refinement holds.
LEMMA AInvHolds ==
    ASSUME Faults \cap {"mark", "journal", "finish"} = {}, "external" \notin Edits
    PROVE  Spec => []AInv
<1>1. OInv /\ OInv' /\ EInv /\ JournalStatus /\ FilesOfStep /\ [Next]_vars
        => JournalStatus' /\ FilesOfStep'
  BY FilesStep DEF OInv, IInv
<1>2. Init => JournalStatus /\ FilesOfStep
  BY PublishAssumption DEF Init, JournalStatus, FilesOfStep
<1> QED
  BY OwnersHold, EInvHolds, <1>1, <1>2, PTL DEF Spec, AInv

---------------------------------------------------------------------------
(* What the abstract workspace holds. *)

\* A file shows what its masker recorded for it, any other file its content.
Hidden(c, f) == IF journal[c] = "apply" THEN base[c][f] ELSE new[c][f]
Shown ==
    /\ Visible = [f \in Files |-> Visible[f]]
    /\ \A f \in Files, c \in ChangeSets : Masks(c, f) => Visible[f] = Hidden(c, f)
    /\ \A f \in Files : (\A c \in ChangeSets : ~Masks(c, f)) => Visible[f] = ws[f]

LEMMA OneMasks == OneUnfinished => Shown
<1> SUFFICES ASSUME OneUnfinished PROVE Shown
  OBVIOUS
<1>1. Visible = [f \in Files |-> Visible[f]]
  BY DEF Visible
<1>2. ASSUME NEW f \in Files, NEW c \in ChangeSets, Masks(c, f)
      PROVE  Visible[f] = Hidden(c, f)
  <2>1. \A d \in ChangeSets : Masks(d, f) => d = c
    BY <1>2 DEF OneUnfinished, Masks
  <2>2. (CHOOSE d \in ChangeSets : Masks(d, f)) = c
    <3> HIDE DEF Masks
    <3> QED BY <1>2, <2>1
  <2> QED
    BY <1>2, <2>2 DEF Visible, Hidden
<1>3. ASSUME NEW f \in Files, \A c \in ChangeSets : ~Masks(c, f)
      PROVE  Visible[f] = ws[f]
  BY <1>3 DEF Visible
<1> QED
  BY <1>1, <1>2, <1>3 DEF Shown

LEMMA OneMasksNext == OneUnfinished' => Shown'
BY OneMasks, PTL

\* The abstract workspace is a tree.
LEMMA ShownTyped ==
    ASSUME TypeOK, Shown
    PROVE  Visible \in Tree
<1>1. ASSUME NEW f \in Files PROVE Visible[f] \in Contents \cup {Absent}
  <2>1. ASSUME NEW c \in ChangeSets, Masks(c, f)
        PROVE  Visible[f] \in Contents \cup {Absent}
    <3>1. base[c] \in Tree /\ new[c] \in Tree
      BY DEF TypeOK
    <3>2. Hidden(c, f) \in Contents \cup {Absent}
      BY <3>1 DEF Hidden, Tree
    <3> QED
      BY <2>1, <3>2 DEF Shown
  <2>2. CASE \A c \in ChangeSets : ~Masks(c, f)
    BY <2>2 DEF Shown, TypeOK, Tree
  <2> QED
    BY <2>1, <2>2
<1> QED
  BY <1>1 DEF Shown, Tree

\* A file keeps what it shows while it keeps its maskers and their records.
LEMMA SameAt ==
    ASSUME Shown, Shown', NEW f \in Files,
           \A c \in ChangeSets : Masks(c, f)' <=> Masks(c, f),
           \A c \in ChangeSets : Masks(c, f) =>
              /\ journal'[c] = journal[c]
              /\ base'[c] = base[c] /\ new'[c] = new[c],
           ws'[f] = ws[f]
    PROVE  Visible'[f] = Visible[f]
<1>1. CASE \E c \in ChangeSets : Masks(c, f)
  <2>1. PICK c \in ChangeSets : Masks(c, f)
    BY <1>1
  <2>2. Visible[f] = Hidden(c, f) /\ Visible'[f] = Hidden(c, f)'
    BY <2>1 DEF Shown
  <2> QED
    BY <2>1, <2>2 DEF Hidden
<1>2. CASE \A c \in ChangeSets : ~Masks(c, f)
  BY <1>2 DEF Shown
<1> QED
  BY <1>1, <1>2

LEMMA Unmoved ==
    ASSUME Shown, Shown', \A f \in Files : Visible'[f] = Visible[f]
    PROVE  Visible' = Visible
BY DEF Shown

\* What no publication, file or edit is affected by shows nowhere.
Quiet == UNCHANGED <<ws, writer, journal, dstat, base, new, edits>>

LEMMA QuietStutters ==
    ASSUME Shown, Shown', Quiet
    PROVE  UNCHANGED Atomic!avars
<1>1. \A c \in ChangeSets, f \in Files : Masks(c, f)' <=> Masks(c, f)
  BY DEF Quiet, Masks, Unfinished, Changed
<1>2. \A f \in Files : Visible'[f] = Visible[f]
  BY <1>1, SameAt DEF Quiet
<1> QED
  BY <1>2, Unmoved DEF Quiet, Atomic!avars

\* Writing one file shows nowhere else.
LEMMA ElsewhereSame ==
    ASSUME Shown, Shown', NEW f \in Files, NEW g \in Files, g # f,
           UNCHANGED <<journal, dstat, base, new>>,
           ws'[g] = ws[g], writer'[g] = writer[g]
    PROVE  Visible'[g] = Visible[g]
<1>1. \A c \in ChangeSets : Masks(c, g)' <=> Masks(c, g)
  BY DEF Masks, Unfinished, Changed
<1> QED
  BY <1>1, SameAt

\* The file that a call writes, or has written, for its unfinished publication:
\* only that publication can mask it.
LEMMA MineAlone ==
    ASSUME OneUnfinished, Shown, NEW f \in Files, cur \in ChangeSets, Unfinished(cur)
    PROVE  Visible[f] = IF Masks(cur, f) THEN Hidden(cur, f) ELSE ws[f]
<1>1. \A c \in ChangeSets : Masks(c, f) => c = cur
  BY DEF OneUnfinished, Masks
<1> QED
  BY <1>1 DEF Shown

LEMMA MineAloneNext ==
    ASSUME OneUnfinished', Shown', NEW f \in Files, cur \in ChangeSets, cur' = cur,
           Unfinished(cur)'
    PROVE  Visible'[f] = IF Masks(cur, f)' THEN Hidden(cur, f)' ELSE ws'[f]
<1>1. \A c \in ChangeSets : Masks(c, f)' => c = cur
  BY DEF OneUnfinished, Masks
<1> QED
  BY <1>1 DEF Shown

\* A file that the call in progress may write: it holds what the call found there,
\* or what the call wrote, and shows the former.
Ours(f) ==
    IF kind = "apply" THEN ws[f] = base[cur][f] \/ writer[f] = cur
    ELSE ws[f] = new[cur][f] \/ (ws[f] = base[cur][f] /\ writer[f] = NoSet)

LEMMA OursShow ==
    ASSUME OneUnfinished, Shown, NEW f \in Changed(cur), cur \in ChangeSets,
           kind \in {"apply", "undo"}, journal[cur] = kind, Unfinished(cur), Ours(f)
    PROVE  Visible[f] = Prior(f)
<1>1. f \in Files /\ base[cur][f] # new[cur][f]
  BY DEF Changed
<1> QED
  BY <1>1, MineAlone DEF Masks, Hidden, Ours, Prior, Changed

LEMMA OursShowNext ==
    ASSUME OneUnfinished', Shown', NEW f \in Changed(cur), cur \in ChangeSets,
           kind \in {"apply", "undo"}, journal[cur] = kind, Unfinished(cur)', Ours(f)',
           UNCHANGED <<cur, kind, journal, base, new>>
    PROVE  Visible'[f] = Prior(f)
<1>1. f \in Files /\ base[cur][f] # new[cur][f]
  BY DEF Changed
<1> QED
  BY <1>1, MineAloneNext DEF Masks, Hidden, Ours, Prior, Changed

\* While a call writes or rolls back, its publication is unfinished.
LEMMA WritersUnfinished ==
    ASSUME AInv, pc \in {"write", "rollback"}
    PROVE  /\ cur \in ChangeSets /\ kind \in {"apply", "undo"}
           /\ journal[cur] = kind /\ Unfinished(cur)
BY DEF AInv, OInv, IInv, TypeOK, KindOfStep, JournalOfStep, StatusOfStep, Unfinished

\* The writes of a publication, and of its rollback, show nowhere: until the
\* commit every file shows what the call found in it.
LEMMA WritesAreHidden ==
    ASSUME AInv, OneUnfinished, OneUnfinished', Shown, Shown', NEW f \in Files,
           WriteTarget(f) \/ WriteTargetFails(f) \/ RollBack(f)
    PROVE  UNCHANGED Atomic!avars
<1>1. /\ pc \in {"write", "rollback"}
      /\ UNCHANGED <<cur, kind, journal, dstat, base, new, edits>>
  BY DEF WriteTarget, WriteTargetFails, RollBack, GotoWith, plan, bounds
<1>2. /\ cur \in ChangeSets /\ kind \in {"apply", "undo"}
      /\ journal[cur] = kind /\ Unfinished(cur)
  BY <1>1, WritersUnfinished
<1>3. Unfinished(cur)'
  BY <1>1, <1>2 DEF Unfinished
<1>4. \A g \in Files : g # f => ws'[g] = ws[g] /\ writer'[g] = writer[g]
  BY DEF WriteTarget, WriteTargetFails, RollBack, Put, AInv, EInv, TypeOK, Tree
<1>5. CASE UNCHANGED <<ws, writer>>
  BY <1>1, <1>5, QuietStutters DEF Quiet
<1>6. ASSUME f \in Changed(cur), Ours(f), Ours(f)'
      PROVE  UNCHANGED Atomic!avars
  <2>1. Visible'[f] = Visible[f]
    BY <1>1, <1>2, <1>3, <1>6, OursShow, OursShowNext
  <2>2. \A g \in Files : Visible'[g] = Visible[g]
    BY <1>1, <1>4, <2>1, ElsewhereSame
  <2> QED
    BY <1>1, <2>2, Unmoved DEF Atomic!avars
<1>7. ASSUME pc = "write", f \in todo, Put(f, Goal(f), Owner)
      PROVE  UNCHANGED Atomic!avars
  <2>1. f \in Changed(cur) /\ ws[f] = Prior(f)
    BY <1>7 DEF AInv, EInv, TargetsKnown
  <2>2. ws'[f] = Goal(f) /\ writer'[f] = Owner
    BY <1>7 DEF Put, AInv, EInv, TypeOK, Tree
  <2>3. Ours(f) /\ Ours(f)'
    BY <1>1, <1>2, <2>1, <2>2 DEF Ours, Prior, Goal, Owner
  <2> QED
    BY <1>6, <2>1, <2>3
<1>8. ASSUME pc = "rollback", f \in done,
             Put(f, RolledBackTo(f), RollBackOwner(f))
      PROVE  UNCHANGED Atomic!avars
  <2>1. f \in Changed(cur) /\ ws[f] = Goal(f) /\ seen[f] = Prior(f)
    BY <1>8 DEF AInv, EInv, TargetsKnown
  <2>2. writer[f] = Owner
    BY <1>8 DEF AInv, FilesOfStep
  <2>3. ws'[f] = RolledBackTo(f) /\ writer'[f] = RollBackOwner(f)
    BY <1>8 DEF Put, AInv, EInv, TypeOK, Tree
  <2>4. ws'[f] = Prior(f)
    BY <1>2, <2>1, <2>3 DEF RolledBackTo, Prior
  <2>5. Ours(f) /\ Ours(f)'
    BY <1>1, <1>2, <2>1, <2>2, <2>4 DEF Ours, Prior, Goal, Owner
  <2> QED
    BY <1>6, <2>1, <2>5
<1> QED
  BY <1>5, <1>7, <1>8 DEF WriteTarget, WriteTargetFails, RollBack

\* A recovery that puts a file where its journal says shows nothing, or takes the
\* published content back from somebody who wrote the same.
LEMMA RestoreShows ==
    ASSUME AInv, OneUnfinished, OneUnfinished', Shown, Shown', TypeOK',
           NEW f \in Files, Restore(f) \/ RestoreFails(f)
    PROVE  Atomic!TakeBack(cur, f) \/ UNCHANGED Atomic!avars
<1>1. /\ pc = "restore" /\ f \in todo
      /\ UNCHANGED <<cur, kind, journal, dstat, base, new, edits>>
  BY DEF Restore, RestoreFails, GotoWith, plan, bounds
<1>2. /\ cur \in ChangeSets /\ journal[cur] \in {"apply", "undo"}
      /\ dstat[cur] # Committed /\ f \in Changed(cur)
      /\ ws[f] \in {base[cur][f], new[cur][f]}
  BY <1>1 DEF AInv, OInv, EInv, TypeOK, TargetsKnown, TargetsChanged, RecoveryOfStep
<1>3. Unfinished(cur) /\ Unfinished(cur)'
  BY <1>1, <1>2 DEF Unfinished, Committed
<1>4. \A g \in Files : g # f => ws'[g] = ws[g] /\ writer'[g] = writer[g]
  BY DEF Restore, RestoreFails, Put, AInv, EInv, TypeOK, Tree
<1>5. CASE UNCHANGED <<ws, writer>>
  BY <1>1, <1>5, QuietStutters DEF Quiet
<1>6. CASE Put(f, Desired(f), RestoredOwner)
  <2>1. ws'[f] = Desired(f) /\ writer'[f] = RestoredOwner
    BY <1>6 DEF Put, AInv, EInv, TypeOK, Tree
  <2>2. \A g \in Files : g # f => Visible'[g] = Visible[g]
    BY <1>1, <1>4, ElsewhereSame
  <2>3. Visible'[f] = Desired(f)
    BY <1>1, <1>2, <1>3, <2>1, MineAloneNext, PublishAssumption
       DEF Masks, Hidden, Desired, RestoredOwner, Changed
  <2>4. Visible[f] = IF Masks(cur, f) THEN Desired(f) ELSE ws[f]
    BY <1>3, <1>2, MineAlone DEF Hidden, Desired
  <2>5. CASE Visible[f] = Desired(f)
    BY <1>1, <2>2, <2>3, <2>5, Unmoved DEF Atomic!avars
  <2>6. CASE Visible[f] # Desired(f)
    <3>1. Visible' = [Visible EXCEPT ![f] = Desired(f)]
      BY <2>2, <2>3 DEF Shown
    <3>2. Visible[f] \in {base[cur][f], new[cur][f]}
      BY <1>2, <2>4, <2>6
    <3>3. f \in Atomic!Touches(cur)
      BY <1>2 DEF Changed, Atomic!Touches
    <3>4. CASE journal[cur] = "apply"
      <4>1. dstat[cur] \in {"pending", "conflicted", "failed"}
        BY <1>2, <3>4 DEF AInv, JournalStatus, Committed
      <4> QED
        BY <1>1, <2>6, <3>1, <3>2, <3>3, <3>4, <4>1 DEF Atomic!TakeBack, Desired
    <3>5. CASE journal[cur] = "undo"
      <4>1. dstat[cur] \in {"applied", "conflicted"}
        BY <1>2, <3>5 DEF AInv, JournalStatus, Committed
      <4> QED
        BY <1>1, <2>6, <3>1, <3>2, <3>3, <3>5, <4>1 DEF Atomic!TakeBack, Desired
    <3> QED
      BY <1>2, <3>4, <3>5
  <2> QED
    BY <2>5, <2>6
<1> QED
  BY <1>5, <1>6 DEF Restore, RestoreFails

\* What somebody else writes is one edit, also of a staged file, which shows
\* nowhere.
LEMMA EditShows ==
    ASSUME TypeOK, TypeOK', Shown, Shown', NEW f \in Files,
           NEW v \in Contents \cup {Absent},
           Edit(f, v) \/ \E c \in ChangeSets : StageEdit(c, f, v)
    PROVE  Atomic!Edit(f)
<1>1. UNCHANGED <<journal, dstat, base, new>> /\ edits' = edits + 1
  BY DEF Edit, StageEdit, plan
<1>2. \A g \in Files : g # f => ws'[g] = ws[g] /\ writer'[g] = writer[g]
  BY DEF Edit, StageEdit, Put, TypeOK, Tree
<1>3. \A g \in Files : g # f => Visible'[g] = Visible[g]
  BY <1>1, <1>2, ElsewhereSame
<1>4. Visible' = [Visible EXCEPT ![f] = Visible'[f]]
  BY <1>3 DEF Shown
<1>5. Visible'[f] \in Contents \cup {Absent}
  <2>1. (TypeOK /\ Shown => Visible \in Tree)'
    BY ShownTyped, PTL
  <2> QED
    BY <2>1 DEF Tree
<1> QED
  BY <1>1, <1>4, <1>5 DEF Atomic!Edit

\* Writing or removing a journal shows nowhere: no file depends on it then.
LEMMA JournalsAreHidden ==
    ASSUME AInv, OneUnfinished', Shown, Shown',
           BeginPublish \/ FinishPublish \/ RecoverFinish
    PROVE  UNCHANGED Atomic!avars
<1>0. cur \in ChangeSets /\ TypeOK
  BY DEF AInv, OInv, IInv, TypeOK, KindOfStep, BeginPublish, FinishPublish,
         RecoverFinish, ReadyToBegin
<1>1. /\ UNCHANGED <<ws, writer, dstat, base, new, edits>>
      /\ \A c \in ChangeSets : c # cur => journal'[c] = journal[c]
  BY <1>0 DEF BeginPublish, FinishPublish, RecoverFinish, SetJournal, plan,
              bounds, TypeOK
<1>2. PICK d \in ChangeSets : d = cur
  BY <1>0
<1>3. ASSUME \A f \in Files : ~Masks(d, f) /\ ~Masks(d, f)'
      PROVE  UNCHANGED Atomic!avars
  <2>1. \A c \in ChangeSets, f \in Files : Masks(c, f)' <=> Masks(c, f)
    BY <1>1, <1>2, <1>3 DEF Masks, Unfinished, Changed
  <2>2. \A c \in ChangeSets, f \in Files : Masks(c, f) => journal'[c] = journal[c]
    BY <1>1, <1>2, <1>3
  <2>3. \A f \in Files : Visible'[f] = Visible[f]
    BY <1>1, <2>1, <2>2, SameAt
  <2> QED
    BY <1>1, <2>3, Unmoved DEF Atomic!avars
<1>4. CASE BeginPublish
  <2>1. journal[cur] = "none"
    BY <1>4 DEF AInv, OInv, IInv, JournalOfStep, BeginPublish, ReadyToBegin
  <2>2. journal'[cur] = kind
    BY <1>0, <1>4 DEF BeginPublish, SetJournal, TypeOK
  <2>3. ASSUME NEW f \in Files, Masks(d, f)' PROVE FALSE
    <3>1. CASE pc = "backup"
      <4>1. kind = "apply" /\ dstat[cur] = "pending"
        BY <3>1 DEF AInv, OInv, IInv, KindOfStep, StatusOfStep
      <4>2. writer[f] = cur
        BY <1>1, <1>2, <2>2, <2>3, <4>1 DEF Masks
      <4> QED
        BY <1>0, <2>1, <4>1, <4>2 DEF AInv, OInv, OwnersAnswer
    <3>2. CASE pc = "begin"
      <4>1. kind = "undo"
        BY <3>2 DEF AInv, OInv, IInv, KindOfStep
      <4>2. f \in Changed(cur) /\ ws[f] = base[cur][f]
        BY <1>1, <1>2, <2>2, <2>3, <4>1 DEF Masks, Changed
      <4> QED
        BY <3>2, <4>2 DEF AInv, EInv, TargetsKnown, Changed
    <3> QED
      BY <1>4, <3>1, <3>2 DEF BeginPublish, ReadyToBegin
  <2> QED
    BY <1>2, <1>3, <2>1, <2>3 DEF Masks, Unfinished
<1>5. CASE FinishPublish
  <2>1. /\ pc = "finish" /\ journal[cur] = kind /\ dstat[cur] = Outcome
        /\ kind \in {"apply", "undo"}
    BY <1>5 DEF FinishPublish, AInv, OInv, IInv, KindOfStep, JournalOfStep, StatusOfStep
  <2>2. journal'[cur] = "none"
    BY <1>0, <1>5 DEF FinishPublish, SetJournal, TypeOK
  <2> QED
    BY <1>2, <1>3, <2>1, <2>2 DEF Masks, Unfinished, Outcome
<1>6. CASE RecoverFinish
  <2>1. /\ pc = "rfinish" /\ journal[cur] \in {"apply", "undo"}
        /\ dstat[cur] = "applied" \/ \A f \in Files : writer[f] # cur
        /\ journal[cur] = "undo" /\ dstat[cur] # "undone"
             => \A f \in Changed(cur) : ws[f] = new[cur][f]
    BY <1>0, <1>6 DEF RecoverFinish, AInv, OInv, TypeOK, RecoveryOfStep, FilesOfStep
  <2>2. journal'[cur] = "none"
    BY <1>0, <1>6 DEF RecoverFinish, SetJournal, TypeOK
  <2>3. \A f \in Files : ~Masks(cur, f)
    BY <2>1 DEF Masks, Unfinished, Changed
  <2> QED
    BY <1>2, <1>3, <2>2, <2>3 DEF Masks, Unfinished
<1> QED
  BY <1>4, <1>5, <1>6

\* A status that leaves an unfinished publication unfinished, or has no journal,
\* shows nowhere.
LEMMA StatusHidden ==
    ASSUME TypeOK, Shown, Shown', NEW s \in Status, cur \in ChangeSets,
           dstat' = [dstat EXCEPT ![cur] = s],
           UNCHANGED <<ws, writer, journal, base, new>>,
           \/ journal[cur] = "none"
           \/ dstat[cur] # Committed /\ s # Committed
    PROVE  Visible' = Visible
<1>1. PICK d \in ChangeSets : d = cur
  OBVIOUS
<1>2. \A c \in ChangeSets : c # d => dstat'[c] = dstat[c]
  BY <1>1 DEF TypeOK
<1>3. dstat'[d] = s /\ journal[d] \in {"none", "apply", "undo"}
  BY <1>1 DEF TypeOK
<1>4. Unfinished(d)' <=> Unfinished(d)
  BY <1>1, <1>3 DEF Unfinished, Committed
<1>5. \A c \in ChangeSets, f \in Files : Masks(c, f)' <=> Masks(c, f)
  BY <1>2, <1>4 DEF Masks, Unfinished, Changed
<1> QED
  BY <1>5, SameAt, Unmoved

\* A publication that is refused, has failed or cannot be recovered is set aside.
LEMMA SetAsideShows ==
    ASSUME AInv, Shown, Shown', ApplyRejected \/ MarkFailed \/ MarkRefused,
           "mark" \notin Faults
    PROVE  Atomic!SetAside(cur) \/ UNCHANGED Atomic!avars
<1>0. /\ TypeOK /\ MemoryMirrorsDisk /\ JournalOfStep /\ StatusOfStep
      /\ RecoveryOfStep /\ FilesOfStep /\ JournalStatus
  BY DEF AInv, OInv, IInv
<1>1. /\ cur \in ChangeSets
      /\ UNCHANGED <<ws, writer, journal, base, new, edits>>
  BY <1>0 DEF ApplyRejected, MarkFailed, MarkRefused, plan, bounds, TypeOK
<1>2. CASE ApplyRejected
  <2>1. PICK s \in {"conflicted", "failed"} : dstat' = [dstat EXCEPT ![cur] = s]
    BY <1>2 DEF ApplyRejected, Mark, MarkRaises, Raises
  <2>2. dstat[cur] = "pending" /\ journal[cur] = "none"
    BY <1>0, <1>1, <1>2 DEF ApplyRejected, MemoryMirrorsDisk, JournalOfStep
  <2>3. Visible' = Visible
    BY <1>0, <1>1, <2>1, <2>2, StatusHidden DEF Status
  <2> QED
    BY <1>1, <2>1, <2>2, <2>3 DEF Atomic!SetAside, Atomic!SetStatus
<1>3. CASE MarkFailed
  <2>1. dstat' = [dstat EXCEPT ![cur] = "failed"]
    BY <1>3 DEF MarkFailed, Mark
  <2>2. dstat[cur] = "pending" /\ journal[cur] # "undo"
    BY <1>0, <1>3 DEF MarkFailed, StatusOfStep, RecoveryOfStep
  <2>3. Visible' = Visible
    BY <1>0, <1>1, <2>1, <2>2, StatusHidden DEF Status, Committed, TypeOK
  <2> QED
    BY <1>1, <2>1, <2>2, <2>3 DEF Atomic!SetAside, Atomic!SetStatus
<1>4. CASE MarkRefused
  <2>1. /\ dstat' = [dstat EXCEPT ![cur] = RefusedStatus]
        /\ RefusedStatus \in {"failed", "conflicted"}
    BY <1>4 DEF MarkRefused, Mark, RefusedStatus
  <2>2. /\ dstat[cur] # Committed /\ journal[cur] \in {"apply", "undo"}
        /\ rec = "failed" => dstat[cur] = "failed"
    BY <1>0, <1>1, <1>4 DEF MarkRefused, RecoveryOfStep, FilesOfStep, TypeOK
  <2>3. RefusedStatus \in Status /\ RefusedStatus # Committed
    BY <2>1 DEF Status, Committed
  <2>4. Visible' = Visible
    BY <1>0, <1>1, <2>1, <2>2, <2>3, StatusHidden
  <2>5. dstat[cur] \in {"pending", "failed", "conflicted", "applied"}
    BY <1>0, <1>1, <2>2 DEF JournalStatus, Committed
  <2>6. CASE dstat[cur] = RefusedStatus
    BY <1>0, <1>1, <2>1, <2>4, <2>6 DEF Atomic!avars, TypeOK
  <2>7. CASE dstat[cur] # RefusedStatus
    <3>1. /\ RefusedStatus = "conflicted"
          /\ dstat[cur] \in {"pending", "failed", "applied"}
      BY <2>1, <2>2, <2>5, <2>7 DEF RefusedStatus
    <3> QED
      BY <1>1, <2>1, <2>4, <3>1 DEF Atomic!SetAside, Atomic!SetStatus
  <2> QED
    BY <2>6, <2>7
<1> QED
  BY <1>2, <1>3, <1>4

\* A recovery has every file where the status that it reopens says.
LEMMA ReopenShows ==
    ASSUME AInv, OneUnfinished, Shown, Shown', MarkRecovered
    PROVE  Atomic!Reopen(cur) \/ UNCHANGED Atomic!avars
<1>0. TypeOK /\ RecoveryOfStep /\ FilesOfStep /\ JournalStatus
  BY DEF AInv, OInv, IInv
<1>1. /\ cur \in ChangeSets /\ pc = "restore" /\ todo = {}
      /\ UNCHANGED <<ws, writer, journal, base, new, edits>>
      /\ dstat' = [dstat EXCEPT ![cur] = RecoveredStatus]
  BY <1>0 DEF MarkRecovered, Mark, plan, bounds, TypeOK
<1>2. /\ dstat[cur] # Committed /\ journal[cur] \in {"apply", "undo"}
      /\ rec = "failed" => dstat[cur] = "failed" /\ journal[cur] = "apply"
      /\ \A f \in Changed(cur) : ws[f] = Desired(f)
  BY <1>0, <1>1 DEF RecoveryOfStep, FilesOfStep, TypeOK
<1>3. RecoveredStatus \in Status /\ RecoveredStatus # Committed
  BY <1>2 DEF RecoveredStatus, Status, Committed
<1>4. Visible' = Visible
  BY <1>0, <1>1, <1>2, <1>3, StatusHidden
<1>5. Unfinished(cur)
  BY <1>2 DEF Unfinished, Committed
<1>6. \A f \in Changed(cur) : Visible[f] = Desired(f)
  BY <1>1, <1>2, <1>5, MineAlone DEF Hidden, Desired, Changed
<1>7. Atomic!Touches(cur) = Changed(cur)
  BY DEF Atomic!Touches, Changed
<1>8. CASE dstat[cur] = RecoveredStatus
  BY <1>0, <1>1, <1>4, <1>8 DEF Atomic!avars, TypeOK
<1>9. CASE dstat[cur] # RecoveredStatus
  <2>1. rec # "failed"
    BY <1>2, <1>9 DEF RecoveredStatus
  <2>2. CASE journal[cur] = "apply"
    <3>1. RecoveredStatus = "pending" /\ dstat[cur] \in {"conflicted", "failed"}
      BY <1>0, <1>1, <1>2, <1>9, <2>1, <2>2
         DEF RecoveredStatus, JournalStatus, Committed
    <3>2. Atomic!Holds(base, cur)
      BY <1>6, <1>7, <2>2 DEF Atomic!Holds, Desired
    <3> QED
      BY <1>1, <1>4, <3>1, <3>2 DEF Atomic!Reopen, Atomic!SetStatus
  <2>3. CASE journal[cur] = "undo"
    <3>1. RecoveredStatus = "applied" /\ dstat[cur] = "conflicted"
      BY <1>0, <1>1, <1>2, <1>9, <2>1, <2>3
         DEF RecoveredStatus, JournalStatus, Committed
    <3>2. Atomic!Holds(new, cur)
      BY <1>6, <1>7, <2>3 DEF Atomic!Holds, Desired
    <3> QED
      BY <1>1, <1>4, <3>1, <3>2 DEF Atomic!Reopen, Atomic!SetStatus
  <2> QED
    BY <1>2, <2>2, <2>3
<1> QED
  BY <1>8, <1>9

\* The commit point shows the whole publication at once.
LEMMA CommitShows ==
    ASSUME AInv, OneUnfinished, OneUnfinished', Shown, Shown', Commit
    PROVE  Atomic!Apply(cur) \/ Atomic!Undo(cur)
<1>0. TypeOK /\ StatusOfStep /\ FilesOfStep /\ TargetsKnown
  BY DEF AInv, OInv, IInv, EInv
<1>1. /\ pc = "write" /\ todo = {}
      /\ UNCHANGED <<ws, writer, journal, base, new, edits>>
      /\ dstat' = [dstat EXCEPT ![cur] = Outcome]
  BY DEF Commit, Mark, plan, bounds
<1>2. /\ cur \in ChangeSets /\ kind \in {"apply", "undo"}
      /\ journal[cur] = kind /\ Unfinished(cur)
  BY <1>1, WritersUnfinished
<1>3. \A f \in Changed(cur) : ws[f] = Goal(f) /\ writer[f] = Owner
  BY <1>0, <1>1 DEF TargetsKnown, FilesOfStep
<1>4. \A f \in Changed(cur) : Visible[f] = Prior(f)
  <2>1. \A f \in Changed(cur) : Ours(f)
    BY <1>2, <1>3 DEF Ours, Goal, Owner
  <2> QED
    BY <1>2, <2>1, OursShow
<1>5. \A f \in Files \ Changed(cur) : Visible[f] = ws[f]
  BY <1>2, MineAlone DEF Masks
<1>6. Visible' = ws
  <2>1. PICK d \in ChangeSets : d = cur
    BY <1>2
  <2>2. \A c \in ChangeSets : ~Unfinished(c)'
    <3>1. ~Unfinished(d)'
      BY <1>0, <1>1, <1>2, <2>1 DEF Unfinished, Outcome, TypeOK
    <3>2. \A c \in ChangeSets : c # d => ~Unfinished(c)
      BY <1>2, <2>1 DEF OneUnfinished
    <3>3. \A c \in ChangeSets : c # d => dstat'[c] = dstat[c]
      BY <1>0, <1>1, <2>1 DEF TypeOK
    <3> QED
      BY <1>1, <3>1, <3>2, <3>3 DEF Unfinished
  <2>3. \A f \in Files : Visible'[f] = ws[f]
    BY <1>1, <2>2 DEF Shown, Masks
  <2> QED
    BY <1>0, <2>3 DEF Shown, TypeOK, Tree
<1>7. Atomic!Touches(cur) = Changed(cur)
  BY DEF Atomic!Touches, Changed
<1>8. CASE kind = "apply"
  <2>1. dstat[cur] = "pending" /\ Outcome = "applied"
    BY <1>0, <1>1, <1>8 DEF StatusOfStep, Outcome
  <2>2. \A f \in Files \ Changed(cur) :
            ws[f] = base[cur][f] /\ base[cur][f] = new[cur][f]
    BY <1>0, <1>1, <1>8 DEF TargetsKnown, Changed
  <2>3. \A f \in Files : Visible[f] = base[cur][f] /\ ws[f] = new[cur][f]
    BY <1>3, <1>4, <1>5, <1>8, <2>2 DEF Goal, Prior
  <2>4. base[cur] \in Tree /\ new[cur] \in Tree
    BY <1>0, <1>2 DEF TypeOK
  <2>5. Visible = base[cur] /\ ws = new[cur]
    BY <1>0, <2>3, <2>4 DEF Shown, TypeOK, Tree
  <2> QED
    BY <1>1, <1>6, <2>1, <2>5 DEF Atomic!Apply, Atomic!SetStatus
<1>9. CASE kind = "undo"
  <2>1. dstat[cur] = "applied" /\ Outcome = "undone"
    BY <1>0, <1>1, <1>9 DEF StatusOfStep, Outcome
  <2>2. Atomic!Holds(new, cur)
    BY <1>4, <1>7, <1>9 DEF Atomic!Holds, Prior
  <2>3. Visible' = [f \in Files |-> IF f \in Atomic!Touches(cur) THEN base[cur][f]
                                                         ELSE Visible[f]]
    <3>1. \A f \in Files :
            ws[f] = IF f \in Atomic!Touches(cur) THEN base[cur][f] ELSE Visible[f]
      BY <1>3, <1>5, <1>7, <1>9 DEF Goal
    <3> QED
      BY <1>0, <1>6, <3>1 DEF TypeOK, Tree
  <2> QED
    BY <1>1, <2>1, <2>2, <2>3 DEF Atomic!Undo, Atomic!SetStatus
<1> QED
  BY <1>2, <1>8, <1>9

\* Discarding, taking a baseline and registering a stage change no file.
LEMMA DiscardShows ==
    ASSUME AInv, Shown, Shown', RecordDiscard, "mark" \notin Faults
    PROVE  Atomic!Discard(cur)
<1>0. TypeOK /\ JournalOfStep /\ StatusOfStep
  BY DEF AInv, OInv, IInv
<1>1. /\ cur \in ChangeSets /\ journal[cur] = "none"
      /\ dstat[cur] \in {"pending", "draft"}
      /\ dstat' = [dstat EXCEPT ![cur] = "discarded"]
      /\ UNCHANGED <<ws, writer, journal, base, new, edits>>
  BY <1>0 DEF RecordDiscard, Raises, JournalOfStep, StatusOfStep, plan, bounds, TypeOK
<1>2. Visible' = Visible
  BY <1>0, <1>1, StatusHidden DEF Status
<1> QED
  BY <1>1, <1>2 DEF Atomic!Discard, Atomic!SetStatus

LEMMA BaselineShows ==
    ASSUME AInv, Shown, Shown', NEW c \in ChangeSets, TakeBaseline(c)
    PROVE  Atomic!Baseline(c)
<1>0. TypeOK /\ MemoryMirrorsDisk
  BY DEF AInv, OInv, IInv
<1>1. /\ dstat[c] = "none" /\ journal[c] = "none"
      /\ base' = [base EXCEPT ![c] = ws]
      /\ UNCHANGED <<ws, writer, journal, dstat, new, edits>>
  BY <1>0 DEF TakeBaseline, Unused, MemoryMirrorsDisk, bounds
<1>2. \A d \in ChangeSets : d # c => base'[d] = base[d]
  BY <1>0, <1>1 DEF TypeOK
<1>3. \A d \in ChangeSets, f \in Files : Masks(d, f)' <=> Masks(d, f)
  BY <1>1, <1>2 DEF Masks, Unfinished, Changed
<1>4. \A d \in ChangeSets, f \in Files : Masks(d, f) => base'[d] = base[d]
  BY <1>1, <1>2 DEF Masks, Unfinished
<1>5. Visible' = Visible
  BY <1>1, <1>3, <1>4, SameAt, Unmoved
<1> QED
  BY <1>0, <1>1, <1>5 DEF Atomic!Baseline, Atomic!Trees, TypeOK, Tree

LEMMA RegisterShows ==
    ASSUME AInv, Shown, Shown', NEW c \in ChangeSets, NEW t \in Tree,
           NEW s \in {"pending", "draft"}, Create(c, t, s), "mark" \notin Faults
    PROVE  Atomic!Register(c)
<1>0. TypeOK /\ MemoryMirrorsDisk
  BY DEF AInv, OInv, IInv
<1>1. /\ dstat[c] = "none" /\ journal[c] = "none" /\ t # base[c]
      /\ new' = [new EXCEPT ![c] = t] /\ dstat' = [dstat EXCEPT ![c] = s]
      /\ UNCHANGED <<ws, writer, journal, base, edits>>
  BY <1>0 DEF Create, Unused, MemoryMirrorsDisk, Raises, bounds
<1>2. \A d \in ChangeSets : d # c => new'[d] = new[d] /\ dstat'[d] = dstat[d]
  BY <1>0, <1>1 DEF TypeOK
<1>3. \A d \in ChangeSets, f \in Files : Masks(d, f)' <=> Masks(d, f)
  BY <1>1, <1>2 DEF Masks, Unfinished, Changed
<1>4. \A d \in ChangeSets, f \in Files : Masks(d, f) => new'[d] = new[d]
  BY <1>1, <1>2 DEF Masks, Unfinished
<1>5. Visible' = Visible
  BY <1>1, <1>3, <1>4, SameAt, Unmoved
<1> QED
  BY <1>0, <1>1, <1>5
     DEF Atomic!Register, Atomic!SetStatus, Atomic!Trees, TypeOK, Tree

\* Every step of the service is a step of AtomicPublish, or shows nothing.
LEMMA AtomicStep ==
    ASSUME AInv, OneUnfinished, OneUnfinished', TypeOK', [Next]_vars,
           Faults \cap {"mark", "journal", "finish"} = {}, "external" \notin Edits
    PROVE  [Atomic!Next]_(Atomic!avars)
<1>0. Shown /\ Shown' /\ TypeOK
  BY OneMasks, OneMasksNext DEF AInv, EInv
<1> DEFINE Goals == Atomic!Next \/ UNCHANGED Atomic!avars
<1>1. ASSUME Quiet PROVE Goals
  BY <1>0, <1>1, QuietStutters
<1>2. ASSUME NEW f \in Files, WriteTarget(f) \/ WriteTargetFails(f) \/ RollBack(f)
      PROVE  Goals
  BY <1>0, <1>2, WritesAreHidden
<1>3. ASSUME NEW f \in Files, Restore(f) \/ RestoreFails(f) PROVE Goals
  <2>1. cur \in ChangeSets
    BY <1>0, <1>3 DEF Restore, RestoreFails, TypeOK
  <2> QED
    BY <1>0, <1>3, <2>1, RestoreShows DEF Atomic!Next
<1>4. ASSUME NEW f \in Files, NEW v \in Contents \cup {Absent},
             \/ ManagedSave(f, v) \/ OfflineEdit(f, v) \/ ExternalEdit(f, v)
             \/ \E c \in ChangeSets : StageEdit(c, f, v)
      PROVE  Goals
  BY <1>0, <1>4, EditShows
     DEF ManagedSave, OfflineEdit, ExternalEdit, Atomic!Next
<1>5. ASSUME BeginPublish \/ FinishPublish \/ RecoverFinish PROVE Goals
  BY <1>0, <1>5, JournalsAreHidden
<1>6. ASSUME ApplyRejected \/ MarkFailed \/ MarkRefused PROVE Goals
  <2>1. cur \in ChangeSets
    BY <1>0, <1>6 DEF ApplyRejected, MarkFailed, MarkRefused, TypeOK
  <2> QED
    BY <1>0, <1>6, <2>1, SetAsideShows DEF Atomic!Next
<1>7. ASSUME MarkRecovered PROVE Goals
  <2>1. cur \in ChangeSets
    BY <1>0, <1>7 DEF MarkRecovered, TypeOK
  <2> QED
    BY <1>0, <1>7, <2>1, ReopenShows DEF Atomic!Next
<1>8. ASSUME Commit PROVE Goals
  <2>1. cur \in ChangeSets
    BY <1>0, <1>8 DEF Commit, TypeOK
  <2> QED
    BY <1>0, <1>8, <2>1, CommitShows DEF Atomic!Next
<1>9. ASSUME RecordDiscard PROVE Goals
  <2>1. cur \in ChangeSets
    BY <1>0, <1>9 DEF RecordDiscard, TypeOK
  <2> QED
    BY <1>0, <1>9, <2>1, DiscardShows DEF Atomic!Next
<1>10. ASSUME NEW c \in ChangeSets, TakeBaseline(c) PROVE Goals
  BY <1>0, <1>10, BaselineShows DEF Atomic!Next
<1>11. ASSUME NEW c \in ChangeSets, NEW t \in Tree, NEW s \in {"pending", "draft"},
              Create(c, t, s)
       PROVE  Goals
  BY <1>0, <1>11, RegisterShows DEF Atomic!Next
<1>12. ASSUME \/ ApplyRefused \/ ApplyValidated \/ UndoRefused \/ UndoValidated
              \/ MakeUndoDir \/ MakeUndoDirFails \/ RolledBack
              \/ RemoveStage \/ RemoveStageFails
       PROVE  Goals
  BY <1>1, <1>12
     DEF Quiet, plan, bounds, ApplyRefused, ApplyValidated, UndoRefused,
         UndoValidated, MakeUndoDir, MakeUndoDirFails, RolledBack, RemoveStage,
         RemoveStageFails
<1>13. ASSUME \/ RecoverCommitted \/ RecoverRefused \/ RecoverBegin
              \/ CleanUndoDir \/ CleanFails \/ Crash \/ Start \/ BootDone
       PROVE  Goals
  BY <1>1, <1>13
     DEF Quiet, plan, bounds, RecoverCommitted, RecoverRefused, RecoverBegin,
         CleanUndoDir, CleanFails, Crash, Start, BootDone
<1>14. ASSUME \/ BeginPublishFails \/ MarkFailedFails \/ CommitFails
              \/ FinishPublishFails \/ MarkRecoveredFails \/ RecoverFinishFails
              \/ MarkRefusedFails
       PROVE  FALSE
  BY <1>14
     DEF BeginPublishFails, MarkFailedFails, CommitFails, FinishPublishFails,
         MarkRecoveredFails, RecoverFinishFails, MarkRefusedFails, MarkRaises,
         Raises
<1>15. ASSUME NEW f \in Files,
              BackUp(f) \/ BackUpFails(f) \/ RemoveStaged(f) \/ CleanBackup(f)
       PROVE  Goals
  BY <1>1, <1>15
     DEF Quiet, plan, bounds, BackUp, BackUpFails, RemoveStaged, CleanBackup
<1>16. ASSUME NEW c \in ChangeSets,
              \/ Discard(c) \/ BootRecover(c)
              \/ \E k \in {"apply", "undo"} : Enter(c, k)
       PROVE  Goals
  BY <1>1, <1>16 DEF Quiet, plan, bounds, Discard, BootRecover, Enter
<1>17. CASE UNCHANGED vars
  BY <1>1, <1>17 DEF Quiet, vars
<1>18. CASE CallStep
  BY <1>18, <1>2, <1>3, <1>5, <1>6, <1>7, <1>8, <1>9, <1>12, <1>13, <1>14, <1>15, <1>16
     DEF CallStep
<1>19. CASE Environment
  BY <1>19, <1>4, <1>10, <1>11, <1>13, <1>16 DEF Environment
<1>20. Goals
  BY <1>17, <1>18, <1>19 DEF Next
<1> QED
  BY <1>20 DEF Goals

\* No file is masked before there is a ChangeSet.
LEMMA AtomicInit == Init => Atomic!Init
<1> SUFFICES ASSUME Init PROVE Atomic!Init
  OBVIOUS
<1>1. Visible = ws
  BY DEF Init, Visible, Masks, Unfinished, Tree
<1> QED
  BY <1>1 DEF Init, Empty, Tree, Atomic!Init, Atomic!Trees

---------------------------------------------------------------------------
\* apply and undo are atomic for any number of ChangeSets, through process death,
\* disk errors and edits, in every behaviour in which no ChangeSet is left
\* half-published while another one is published.
THEOREM PublicationIsAtomic ==
    ASSUME Faults \cap {"mark", "journal", "finish"} = {}, "external" \notin Edits
    PROVE  Spec /\ []OneUnfinished => ImplementsAtomic
<1>1. AInv /\ AInv' /\ OneUnfinished /\ OneUnfinished' /\ [Next]_vars
        => [Atomic!Next]_(Atomic!avars)
  BY AtomicStep DEF AInv, EInv
<1> QED
  BY AInvHolds, AtomicInit, <1>1, PTL DEF Spec, ImplementsAtomic, Atomic!Spec

\* For a single ChangeSet every behaviour is such a behaviour.
THEOREM OnePublicationIsAtomic ==
    ASSUME Faults \cap {"mark", "journal", "finish"} = {}, "external" \notin Edits,
           \A c, d \in ChangeSets : c = d
    PROVE  Spec => ImplementsAtomic
<1>1. OneUnfinished
  BY DEF OneUnfinished
<1> QED
  BY PublicationIsAtomic, <1>1, PTL

---------------------------------------------------------------------------
(* Recoveries that are never refused: the invariant UInv.                  *)

\* A validated call finds its targets where it saw them, and writing them does not
\* raise.
LEMMA NoWriteFails ==
    ASSUME TypeOK, KindOfStep, TargetsKnown, NEW f \in Files, WriteTargetFails(f)
    PROVE  "target" \in Faults
<1>1. pc = "write" /\ f \in todo /\ (Gone(f) \/ "target" \in Faults)
  BY DEF WriteTargetFails, Raises
<1>2. f \in Changed(cur) /\ ws[f] = Prior(f) /\ kind \in {"apply", "undo"}
  BY <1>1 DEF TargetsKnown, KindOfStep
<1>3. ~Gone(f)
  BY <1>2 DEF Gone, Prior, Changed
<1> QED
  BY <1>1, <1>3

\* What a recovery puts back is at hand: it is never refused.
LEMMA NoRecoveryRefused ==
    ASSUME TypeOK, MemoryMirrorsDisk, RecoveryOfStep, StagesWhole, OriginalsAtHand,
           RecoverRefused
    PROVE  FALSE
<1>1. /\ cur \in ChangeSets /\ journal[cur] \in {"apply", "undo"}
      /\ mem[cur] # Committed /\ ~Recoverable
  BY DEF RecoverRefused, TypeOK, RecoveryOfStep
<1>2. Unfinished(cur)
  BY <1>1 DEF RecoverRefused, MemoryMirrorsDisk, Unfinished, Committed
<1>3. stageDir[cur] /\ ManifestIntact(cur)
  BY <1>1, <1>2 DEF StagesWhole
<1>4. ASSUME NEW f \in Changed(cur)
      PROVE  /\ ws[f] \in {base[cur][f], new[cur][f]}
             /\ ws[f] # Desired(f) => Source(f) = Desired(f)
  BY <1>1, <1>2, <1>3, <1>4
     DEF OriginalsAtHand, Desired, Source, ManifestIntact
<1> QED
  BY <1>1, <1>3, <1>4 DEF Recoverable

\* No step leaves a second publication unfinished, or one that nobody recovers.
LEMMA HandStep ==
    ASSUME UInv, TypeOK', KindOfStep', [Next]_vars,
           Faults \subseteq {"backup"}, Edits \subseteq {"managed"}
    PROVE  OneUnfinished' /\ UnfinishedInHand'
<1> DEFINE Goals == OneUnfinished /\ UnfinishedInHand
<1>0. /\ TypeOK /\ KindOfStep /\ MemoryMirrorsDisk /\ JournalOfStep
      /\ StatusOfStep /\ RecoveryOfStep /\ JournalStatus /\ OneUnfinished
      /\ UnfinishedInHand
      /\ TargetsKnown /\ StagesWhole /\ OriginalsAtHand
  BY DEF UInv, AInv, OInv, EInv, IInv
<1> USE <1>0, PublishAssumption
       DEF TypeOK, KindOfStep, MemoryMirrorsDisk, JournalOfStep, StatusOfStep,
           RecoveryOfStep, OneUnfinished, UnfinishedInHand, Unfinished, Steps,
           Status, Outcome, Committed, disk, plan, call, bounds, Changed
<1>1. ASSUME ApplyRefused PROVE Goals'
  BY <1>1 DEF ApplyRefused, NoCall, Return
<1>2. ASSUME ApplyRejected PROVE Goals'
  BY <1>2 DEF ApplyRejected, Mark, MarkRaises, NoCall, Raises, Return, Succeeds
<1>3. ASSUME ApplyValidated PROVE Goals'
  BY <1>3 DEF ApplyValidated, Goto
<1>4. ASSUME UndoRefused PROVE Goals'
  BY <1>4 DEF UndoRefused, NoCall, Return, UndoReady
<1>5. ASSUME UndoValidated PROVE Goals'
  BY <1>5 DEF UndoValidated, Goto, UndoReady
<1>6. ASSUME MakeUndoDir PROVE Goals'
  BY <1>6 DEF MakeUndoDir, GotoWith, Succeeds
<1>7. ASSUME MakeUndoDirFails PROVE Goals'
  BY <1>7 DEF MakeUndoDirFails, Goto, Raises, Succeeds
<1>8. ASSUME NEW f \in Files, BackUp(f) PROVE Goals'
  BY <1>8 DEF BackUp, GotoWith, SaveBackup, Succeeds
<1>9. ASSUME NEW f \in Files, BackUpFails(f) PROVE Goals'
  BY <1>9 DEF BackUpFails, GotoWith, Raises, SaveBackup
<1>10. ASSUME BeginPublish PROVE Goals'
  BY <1>10 DEF BeginPublish, GotoWith, ReadyToBegin, SetJournal, Succeeds
<1>11. ASSUME BeginPublishFails PROVE Goals'
  BY <1>11 DEF BeginPublishFails, Goto, Raises, ReadyToBegin, SetJournal
<1>12. ASSUME NEW f \in Files, WriteTarget(f) PROVE Goals'
  BY <1>12 DEF WriteTarget, Goal, Gone, Owner, Put, Succeeds
<1>13. ASSUME NEW f \in Files, WriteTargetFails(f) PROVE Goals'
  BY <1>13, NoWriteFails
<1>14. ASSUME NEW f \in Files, RollBack(f) PROVE Goals'
  BY <1>14 DEF RollBack, Put, Raises, RollBackOwner, RolledBackTo, Succeeds
<1>15. ASSUME RolledBack PROVE Goals'
  BY <1>15 DEF RolledBack
<1>16. ASSUME MarkFailed PROVE Goals'
  BY <1>16 DEF MarkFailed, Mark, NoCall, Return, Succeeds
<1>17. ASSUME MarkFailedFails PROVE Goals'
  BY <1>17 DEF MarkFailedFails, MarkRaises, NoCall, Raises, Return
<1>18. ASSUME Commit PROVE Goals'
  BY <1>18 DEF Commit, GotoWith, Mark, Outcome, Succeeds
<1>19. ASSUME CommitFails PROVE Goals'
  BY <1>19 DEF CommitFails, MarkRaises, NoCall, Outcome, Raises, Return
<1>20. ASSUME FinishPublish PROVE Goals'
  BY <1>20 DEF FinishPublish, Goto, NoCall, Return, SetJournal, Succeeds
<1>21. ASSUME FinishPublishFails PROVE Goals'
  BY <1>21 DEF FinishPublishFails, NoCall, Raises, Return, SetJournal
<1>22. ASSUME NEW f \in Files, RemoveStaged(f) PROVE Goals'
  BY <1>22 DEF RemoveStaged, Holds, Tree
<1>23. ASSUME RemoveStage PROVE Goals'
  BY <1>23 DEF RemoveStage, Goto, Holds, NoCall, Return, Tree
<1>24. ASSUME RemoveStageFails PROVE Goals'
  BY <1>24 DEF RemoveStageFails, NoCall, Raises, Return
<1>25. ASSUME NEW c \in ChangeSets, Discard(c) PROVE Goals'
  BY <1>25 DEF Discard
<1>26. ASSUME RecordDiscard PROVE Goals'
  BY <1>26 DEF RecordDiscard, NoCall, Raises, Return, Succeeds
<1>27. ASSUME RecoverCommitted PROVE Goals'
  BY <1>27 DEF RecoverCommitted, Committed, Goto
<1>28. ASSUME RecoverRefused PROVE Goals'
  BY <1>28, NoRecoveryRefused
<1>29. ASSUME RecoverBegin PROVE Goals'
  BY <1>29 DEF RecoverBegin, Committed, Desired, GotoWith, Recoverable
<1>30. ASSUME NEW f \in Files, Restore(f) PROVE Goals'
  BY <1>30 DEF Restore, Desired, GotoWith, Put, RestoredOwner, Succeeds
<1>31. ASSUME NEW f \in Files, RestoreFails(f) PROVE Goals'
  BY <1>31 DEF RestoreFails, Desired, GotoWith, Put, Raises, RestoredOwner
<1>32. ASSUME MarkRecovered PROVE Goals'
  BY <1>32 DEF MarkRecovered, Goto, Mark, RecoveredStatus, Succeeds
<1>33. ASSUME MarkRecoveredFails PROVE Goals'
  BY <1>33 DEF MarkRecoveredFails, Goto, MarkRaises, Raises, RecoveredStatus
<1>34. ASSUME NEW f \in Files, CleanBackup(f) PROVE Goals'
  BY <1>34 DEF CleanBackup, Tree
<1>35. ASSUME CleanUndoDir PROVE Goals'
  BY <1>35 DEF CleanUndoDir, Goto, RestoredFirst
<1>36. ASSUME CleanFails PROVE Goals'
  BY <1>36 DEF CleanFails, Goto, Raises
<1>37. ASSUME RecoverFinish PROVE Goals'
  BY <1>37 DEF RecoverFinish, NoCall, Resume, Return, SetJournal, Succeeds
<1>38. ASSUME RecoverFinishFails PROVE Goals'
  BY <1>38 DEF RecoverFinishFails, Goto, Raises, SetJournal
<1>39. ASSUME MarkRefused PROVE Goals'
  BY <1>39
     DEF MarkRefused, Mark, NoCall, RefusedStatus, Resume, Return, Succeeds
<1>40. ASSUME MarkRefusedFails PROVE Goals'
  BY <1>40 DEF MarkRefusedFails, NoCall, Raises, RefusedStatus
<1>41. ASSUME NEW c \in ChangeSets, TakeBaseline(c) PROVE Goals'
  BY <1>41 DEF TakeBaseline, Tree, Unused
<1>42. ASSUME NEW c \in ChangeSets, NEW t \in Tree,
           NEW s \in {"pending", "draft"}, Create(c, t, s)
      PROVE Goals'
  <2>1. /\ UNCHANGED <<pc, cur, boot, journal>>
        /\ dstat[c] = "none" /\ journal[c] = "none"
        /\ dstat' \in {dstat, [dstat EXCEPT ![c] = s]}
    BY <1>42 DEF Create, Unused
  <2>2. \A d \in ChangeSets : Unfinished(d)' <=> Unfinished(d)
    BY <2>1
  <2>3. OneUnfinished'
    BY <2>2
  <2> HIDE DEF Unfinished
  <2>4. UnfinishedInHand'
    BY <2>1, <2>2
  <2> QED
    BY <2>3, <2>4
<1>43. ASSUME NEW c \in ChangeSets, NEW k \in {"apply", "undo"}, Enter(c, k)
      PROVE Goals'
  BY <1>43 DEF Enter
<1>44. ASSUME Crash PROVE Goals'
  BY <1>44 DEF Crash, NoCall
<1>45. ASSUME Start PROVE Goals'
  BY <1>45 DEF Start
<1>46. ASSUME NEW c \in ChangeSets, BootRecover(c) PROVE Goals'
  BY <1>46 DEF BootRecover
<1>47. ASSUME BootDone PROVE Goals'
  BY <1>47 DEF BootDone
<1>48. ASSUME NEW c \in ChangeSets, NEW f \in Files,
           NEW v \in Contents \cup {Absent}, StageEdit(c, f, v)
      PROVE Goals'
  BY <1>48 DEF StageEdit
<1>49. ASSUME NEW f \in Files, NEW v \in Contents \cup {Absent}, ManagedSave(f, v)
      PROVE Goals'
  BY <1>49 DEF ManagedSave, Edit, Put
<1>50. ASSUME NEW f \in Files, NEW v \in Contents \cup {Absent}, OfflineEdit(f, v)
      PROVE Goals'
  BY <1>50 DEF OfflineEdit, Edit, Put
<1>51. ASSUME NEW f \in Files, NEW v \in Contents \cup {Absent}, ExternalEdit(f, v)
      PROVE Goals'
  BY <1>51 DEF ExternalEdit, Edit, Put
<1>52. CASE UNCHANGED vars
  BY <1>52 DEF vars
<1> HIDE <1>0, PublishAssumption
       DEF TypeOK, KindOfStep, MemoryMirrorsDisk, JournalOfStep, StatusOfStep,
           RecoveryOfStep, OneUnfinished, UnfinishedInHand, Unfinished, Steps,
           Status, Outcome, Committed, disk, plan, call, bounds, Changed
<1>53. CASE CallStep
  BY <1>53, <1>1, <1>2, <1>3, <1>4, <1>5, <1>6, <1>7, <1>8, <1>9, <1>10,
     <1>11, <1>12, <1>13, <1>14, <1>15, <1>16, <1>17, <1>18, <1>19, <1>20,
     <1>21, <1>22, <1>23, <1>24, <1>26, <1>27, <1>28, <1>29, <1>30, <1>31,
     <1>32, <1>33, <1>34, <1>35, <1>36, <1>37, <1>38, <1>39, <1>40, <1>46,
     <1>47
     DEF CallStep
<1>54. CASE Environment
  BY <1>54, <1>41, <1>42, <1>43, <1>44, <1>45, <1>25, <1>48, <1>49, <1>50,
     <1>51
     DEF Environment
<1> QED
  BY <1>52, <1>53, <1>54 DEF Next

\* A stage that a recovery may need keeps every reviewed file.
LEMMA StagesStep ==
    ASSUME UInv, TypeOK', KindOfStep', [Next]_vars,
           Faults \subseteq {"backup"}, Edits \subseteq {"managed"}
    PROVE  StagesWhole'
<1> DEFINE Goals == StagesWhole
<1>0. /\ TypeOK /\ KindOfStep /\ MemoryMirrorsDisk /\ JournalOfStep
      /\ StatusOfStep /\ RecoveryOfStep /\ JournalStatus /\ OneUnfinished
      /\ UnfinishedInHand /\ TargetsKnown /\ StagesWhole
  BY DEF UInv, AInv, OInv, EInv, IInv
<1> USE <1>0, PublishAssumption
       DEF TypeOK, KindOfStep, MemoryMirrorsDisk, JournalOfStep, StatusOfStep,
           RecoveryOfStep, UnfinishedInHand, StagesWhole, ManifestIntact,
           Unfinished, Steps, Status, Outcome, Committed, disk, plan, call, bounds,
           Changed
<1>1. ASSUME ApplyRefused PROVE Goals'
  BY <1>1 DEF ApplyRefused, NoCall, Return
<1>2. ASSUME ApplyRejected PROVE Goals'
  BY <1>2 DEF ApplyRejected, Mark, MarkRaises, NoCall, Raises, Return, Succeeds
<1>3. ASSUME ApplyValidated PROVE Goals'
  BY <1>3 DEF ApplyValidated, Goto
<1>4. ASSUME UndoRefused PROVE Goals'
  BY <1>4 DEF UndoRefused, NoCall, Return, UndoReady
<1>5. ASSUME UndoValidated PROVE Goals'
  BY <1>5 DEF UndoValidated, Goto, UndoReady
<1>6. ASSUME MakeUndoDir PROVE Goals'
  BY <1>6 DEF MakeUndoDir, GotoWith, Succeeds
<1>7. ASSUME MakeUndoDirFails PROVE Goals'
  BY <1>7 DEF MakeUndoDirFails, Goto, Raises, Succeeds
<1>8. ASSUME NEW f \in Files, BackUp(f) PROVE Goals'
  BY <1>8 DEF BackUp, GotoWith, SaveBackup, Succeeds
<1>9. ASSUME NEW f \in Files, BackUpFails(f) PROVE Goals'
  BY <1>9 DEF BackUpFails, GotoWith, Raises, SaveBackup
<1>10. ASSUME BeginPublish PROVE Goals'
  BY <1>10 DEF BeginPublish, GotoWith, ReadyToBegin, SetJournal, Succeeds
<1>11. ASSUME BeginPublishFails PROVE Goals'
  BY <1>11 DEF BeginPublishFails, Goto, Raises, ReadyToBegin, SetJournal
<1>12. ASSUME NEW f \in Files, WriteTarget(f) PROVE Goals'
  BY <1>12 DEF WriteTarget, Goal, Gone, Owner, Put, Succeeds
<1>13. ASSUME NEW f \in Files, WriteTargetFails(f) PROVE Goals'
  BY <1>13
     DEF WriteTargetFails, Goal, Gone, GotoWith, Owner, Put, Raises, Succeeds
<1>14. ASSUME NEW f \in Files, RollBack(f) PROVE Goals'
  BY <1>14 DEF RollBack, Put, Raises, RollBackOwner, RolledBackTo, Succeeds
<1>15. ASSUME RolledBack PROVE Goals'
  BY <1>15 DEF RolledBack
<1>16. ASSUME MarkFailed PROVE Goals'
  BY <1>16 DEF MarkFailed, Mark, NoCall, Return, Succeeds
<1>17. ASSUME MarkFailedFails PROVE Goals'
  BY <1>17 DEF MarkFailedFails, MarkRaises, NoCall, Raises, Return
<1>18. ASSUME Commit PROVE Goals'
  BY <1>18 DEF Commit, GotoWith, Mark, Outcome, Succeeds
<1>19. ASSUME CommitFails PROVE Goals'
  BY <1>19 DEF CommitFails, MarkRaises, NoCall, Outcome, Raises, Return
<1>20. ASSUME FinishPublish PROVE Goals'
  BY <1>20 DEF FinishPublish, Goto, NoCall, Return, SetJournal, Succeeds
<1>21. ASSUME FinishPublishFails PROVE Goals'
  BY <1>21 DEF FinishPublishFails, NoCall, Raises, Return, SetJournal
<1>22. ASSUME NEW f \in Files, RemoveStaged(f) PROVE Goals'
  BY <1>22 DEF RemoveStaged, Holds, Tree
<1>23. ASSUME RemoveStage PROVE Goals'
  BY <1>23 DEF RemoveStage, Goto, Holds, NoCall, Return, Tree
<1>24. ASSUME RemoveStageFails PROVE Goals'
  BY <1>24 DEF RemoveStageFails, NoCall, Raises, Return
<1>25. ASSUME NEW c \in ChangeSets, Discard(c) PROVE Goals'
  BY <1>25 DEF Discard
<1>26. ASSUME RecordDiscard PROVE Goals'
  BY <1>26 DEF RecordDiscard, NoCall, Raises, Return, Succeeds
<1>27. ASSUME RecoverCommitted PROVE Goals'
  BY <1>27 DEF RecoverCommitted, Committed, Goto
<1>28. ASSUME RecoverRefused PROVE Goals'
  BY <1>28 DEF RecoverRefused, Committed, Desired, Goto, Recoverable
<1>29. ASSUME RecoverBegin PROVE Goals'
  BY <1>29 DEF RecoverBegin, Committed, Desired, GotoWith, Recoverable
<1>30. ASSUME NEW f \in Files, Restore(f) PROVE Goals'
  BY <1>30 DEF Restore, Desired, GotoWith, Put, RestoredOwner, Succeeds
<1>31. ASSUME NEW f \in Files, RestoreFails(f) PROVE Goals'
  BY <1>31 DEF RestoreFails, Desired, GotoWith, Put, Raises, RestoredOwner
<1>32. ASSUME MarkRecovered PROVE Goals'
  BY <1>32 DEF MarkRecovered, Goto, Mark, RecoveredStatus, Succeeds
<1>33. ASSUME MarkRecoveredFails PROVE Goals'
  BY <1>33 DEF MarkRecoveredFails, Goto, MarkRaises, Raises, RecoveredStatus
<1>34. ASSUME NEW f \in Files, CleanBackup(f) PROVE Goals'
  BY <1>34 DEF CleanBackup, Tree
<1>35. ASSUME CleanUndoDir PROVE Goals'
  BY <1>35 DEF CleanUndoDir, Goto, RestoredFirst
<1>36. ASSUME CleanFails PROVE Goals'
  BY <1>36 DEF CleanFails, Goto, Raises
<1>37. ASSUME RecoverFinish PROVE Goals'
  BY <1>37 DEF RecoverFinish, NoCall, Resume, Return, SetJournal, Succeeds
<1>38. ASSUME RecoverFinishFails PROVE Goals'
  BY <1>38 DEF RecoverFinishFails, Goto, Raises, SetJournal
<1>39. ASSUME MarkRefused PROVE Goals'
  BY <1>39
     DEF MarkRefused, Mark, NoCall, RefusedStatus, Resume, Return, Succeeds
<1>40. ASSUME MarkRefusedFails PROVE Goals'
  BY <1>40 DEF MarkRefusedFails, NoCall, Raises, RefusedStatus
<1>41. ASSUME NEW c \in ChangeSets, TakeBaseline(c) PROVE Goals'
  BY <1>41 DEF TakeBaseline, Tree, Unused
<1>42. ASSUME NEW c \in ChangeSets, NEW t \in Tree,
           NEW s \in {"pending", "draft"}, Create(c, t, s)
      PROVE Goals'
  BY <1>42 DEF Create, Raises, Succeeds, Tree, Unused
<1>43. ASSUME NEW c \in ChangeSets, NEW k \in {"apply", "undo"}, Enter(c, k)
      PROVE Goals'
  BY <1>43 DEF Enter
<1>44. ASSUME Crash PROVE Goals'
  BY <1>44 DEF Crash, NoCall
<1>45. ASSUME Start PROVE Goals'
  BY <1>45 DEF Start
<1>46. ASSUME NEW c \in ChangeSets, BootRecover(c) PROVE Goals'
  BY <1>46 DEF BootRecover
<1>47. ASSUME BootDone PROVE Goals'
  BY <1>47 DEF BootDone
<1>48. ASSUME NEW c \in ChangeSets, NEW f \in Files,
           NEW v \in Contents \cup {Absent}, StageEdit(c, f, v)
      PROVE Goals'
  BY <1>48 DEF StageEdit
<1>49. ASSUME NEW f \in Files, NEW v \in Contents \cup {Absent}, ManagedSave(f, v)
      PROVE Goals'
  BY <1>49 DEF ManagedSave, Edit, Put
<1>50. ASSUME NEW f \in Files, NEW v \in Contents \cup {Absent}, OfflineEdit(f, v)
      PROVE Goals'
  BY <1>50 DEF OfflineEdit, Edit, Put
<1>51. ASSUME NEW f \in Files, NEW v \in Contents \cup {Absent}, ExternalEdit(f, v)
      PROVE Goals'
  BY <1>51 DEF ExternalEdit, Edit, Put
<1>52. CASE UNCHANGED vars
  BY <1>52 DEF vars
<1> HIDE <1>0, PublishAssumption
       DEF TypeOK, KindOfStep, MemoryMirrorsDisk, JournalOfStep, StatusOfStep,
           RecoveryOfStep, UnfinishedInHand, StagesWhole, ManifestIntact,
           Unfinished, Steps, Status, Outcome, Committed, disk, plan, call, bounds,
           Changed
<1>53. CASE CallStep
  BY <1>53, <1>1, <1>2, <1>3, <1>4, <1>5, <1>6, <1>7, <1>8, <1>9, <1>10,
     <1>11, <1>12, <1>13, <1>14, <1>15, <1>16, <1>17, <1>18, <1>19, <1>20,
     <1>21, <1>22, <1>23, <1>24, <1>26, <1>27, <1>28, <1>29, <1>30, <1>31,
     <1>32, <1>33, <1>34, <1>35, <1>36, <1>37, <1>38, <1>39, <1>40, <1>46,
     <1>47
     DEF CallStep
<1>54. CASE Environment
  BY <1>54, <1>41, <1>42, <1>43, <1>44, <1>45, <1>25, <1>48, <1>49, <1>50,
     <1>51
     DEF Environment
<1> QED
  BY <1>52, <1>53, <1>54 DEF Next

\* No step loses an original that a recovery may need.
LEMMA OriginalsStep ==
    ASSUME UInv, TypeOK', KindOfStep', [Next]_vars,
           Faults \subseteq {"backup"}, Edits \subseteq {"managed"}
    PROVE  OriginalsAtHand'
<1> DEFINE Goals == OriginalsAtHand
<1>0. /\ TypeOK /\ KindOfStep /\ MemoryMirrorsDisk /\ JournalOfStep
      /\ StatusOfStep /\ RecoveryOfStep /\ JournalStatus /\ OneUnfinished
      /\ UnfinishedInHand /\ TargetsKnown /\ TargetsChanged /\ FilesOfStep
      /\ BackupsComplete /\ OriginalsAtHand
  BY DEF UInv, AInv, OInv, EInv, IInv
<1> USE <1>0, PublishAssumption
       DEF TypeOK, KindOfStep, MemoryMirrorsDisk, JournalOfStep, StatusOfStep,
           RecoveryOfStep, UnfinishedInHand, OriginalsAtHand, Unfinished, Steps,
           Status, Outcome, Committed, disk, plan, call, bounds, Changed
<1>1. ASSUME ApplyRefused PROVE Goals'
  BY <1>1 DEF ApplyRefused, NoCall, Return
<1>2. ASSUME ApplyRejected PROVE Goals'
  BY <1>2 DEF ApplyRejected, Mark, MarkRaises, NoCall, Raises, Return, Succeeds
<1>3. ASSUME ApplyValidated PROVE Goals'
  BY <1>3 DEF ApplyValidated, Goto
<1>4. ASSUME UndoRefused PROVE Goals'
  BY <1>4 DEF UndoRefused, NoCall, Return, UndoReady
<1>5. ASSUME UndoValidated PROVE Goals'
  BY <1>5 DEF UndoValidated, Goto, UndoReady
<1>6. ASSUME MakeUndoDir PROVE Goals'
  BY <1>6 DEF MakeUndoDir, GotoWith, Succeeds
<1>7. ASSUME MakeUndoDirFails PROVE Goals'
  BY <1>7 DEF MakeUndoDirFails, Goto, Raises, Succeeds
<1>8. ASSUME NEW f \in Files, BackUp(f) PROVE Goals'
  BY <1>8 DEF BackUp, GotoWith, SaveBackup, Succeeds
<1>9. ASSUME NEW f \in Files, BackUpFails(f) PROVE Goals'
  BY <1>9 DEF BackUpFails, GotoWith, Raises, SaveBackup
<1>10. ASSUME BeginPublish PROVE Goals'
  <2>1. /\ cur \in ChangeSets /\ pc \in {"backup", "begin"} /\ pc' = "write"
        /\ UNCHANGED <<ws, backup, dstat, base, new>>
        /\ \A c \in ChangeSets : c # cur => journal'[c] = journal[c]
        /\ journal'[cur] = kind
    BY <1>10 DEF BeginPublish, GotoWith, ReadyToBegin, SetJournal
  <2>2. kind = "apply" => ws = base[cur]
    BY <2>1 DEF TargetsKnown
  <2>3. kind # "apply" => \A f \in Changed(cur) : ws[f] = new[cur][f]
    BY <2>1 DEF TargetsKnown
  <2>4. ASSUME NEW c \in ChangeSets, Unfinished(c)', NEW f \in Changed(c)
        PROVE  /\ ws[f] \in {base[c][f], new[c][f]}
               /\ journal'[c] = "apply" /\ ws[f] # base[c][f]
                    => backup[c][f] = base[c][f]
    <3>1. CASE c = cur
      BY <2>1, <2>2, <2>3, <2>4, <3>1
    <3>2. CASE c # cur
      BY <2>1, <2>4, <3>2
    <3> QED
      BY <3>1, <3>2
  <2> QED
    BY <2>1, <2>4
<1>11. ASSUME BeginPublishFails PROVE Goals'
  BY <1>11 DEF BeginPublishFails, Goto, Raises, ReadyToBegin, SetJournal
<1>12. ASSUME NEW f \in Files, WriteTarget(f) PROVE Goals'
  <2>1. /\ pc = "write" /\ pc' = "write" /\ f \in Changed(cur) /\ ws[f] = Prior(f)
        /\ UNCHANGED <<backup, dstat, base, new, journal>>
        /\ cur \in ChangeSets /\ journal[cur] = kind /\ kind \in {"apply", "undo"}
    BY <1>12 DEF WriteTarget, TargetsKnown
  <2>2. /\ ws'[f] = Goal(f)
        /\ \A g \in Files : g # f => ws'[g] = ws[g]
    BY <1>12 DEF WriteTarget, Put, Tree
  <2>3. Unfinished(cur)
    BY <2>1
  <2>4. kind = "apply" => backup[cur][f] = base[cur][f]
    BY <2>1 DEF BackupsComplete
  <2>5. ASSUME NEW c \in ChangeSets, Unfinished(c)', NEW g \in Changed(c)
        PROVE  /\ ws'[g] \in {base[c][g], new[c][g]}
               /\ journal[c] = "apply" /\ ws'[g] # base[c][g]
                    => backup[c][g] = base[c][g]
    <3>1. c = cur
      BY <2>1, <2>3, <2>5 DEF OneUnfinished
    <3>2. CASE g = f
      BY <2>1, <2>2, <2>4, <3>1, <3>2 DEF Goal
    <3>3. CASE g # f
      BY <2>1, <2>2, <2>5, <3>3
    <3> QED
      BY <3>2, <3>3
  <2> QED
    BY <2>1, <2>5
<1>13. ASSUME NEW f \in Files, WriteTargetFails(f) PROVE Goals'
  BY <1>13
     DEF WriteTargetFails, Goal, Gone, GotoWith, Owner, Put, Raises, Succeeds
<1>14. ASSUME NEW f \in Files, RollBack(f) PROVE Goals'
  BY <1>14 DEF RollBack, Put, Raises, RollBackOwner, RolledBackTo, Succeeds
<1>15. ASSUME RolledBack PROVE Goals'
  BY <1>15 DEF RolledBack
<1>16. ASSUME MarkFailed PROVE Goals'
  BY <1>16 DEF MarkFailed, Mark, NoCall, Return, Succeeds
<1>17. ASSUME MarkFailedFails PROVE Goals'
  BY <1>17 DEF MarkFailedFails, MarkRaises, NoCall, Raises, Return
<1>18. ASSUME Commit PROVE Goals'
  BY <1>18 DEF Commit, GotoWith, Mark, Outcome, Succeeds
<1>19. ASSUME CommitFails PROVE Goals'
  BY <1>19 DEF CommitFails, MarkRaises, NoCall, Outcome, Raises, Return
<1>20. ASSUME FinishPublish PROVE Goals'
  BY <1>20 DEF FinishPublish, Goto, NoCall, Return, SetJournal, Succeeds
<1>21. ASSUME FinishPublishFails PROVE Goals'
  BY <1>21 DEF FinishPublishFails, NoCall, Raises, Return, SetJournal
<1>22. ASSUME NEW f \in Files, RemoveStaged(f) PROVE Goals'
  BY <1>22 DEF RemoveStaged, Holds, Tree
<1>23. ASSUME RemoveStage PROVE Goals'
  BY <1>23 DEF RemoveStage, Goto, Holds, NoCall, Return, Tree
<1>24. ASSUME RemoveStageFails PROVE Goals'
  BY <1>24 DEF RemoveStageFails, NoCall, Raises, Return
<1>25. ASSUME NEW c \in ChangeSets, Discard(c) PROVE Goals'
  BY <1>25 DEF Discard
<1>26. ASSUME RecordDiscard PROVE Goals'
  BY <1>26 DEF RecordDiscard, NoCall, Raises, Return, Succeeds
<1>27. ASSUME RecoverCommitted PROVE Goals'
  BY <1>27 DEF RecoverCommitted, Committed, Goto
<1>28. ASSUME RecoverRefused PROVE Goals'
  BY <1>28 DEF RecoverRefused, Committed, Desired, Goto, Recoverable
<1>29. ASSUME RecoverBegin PROVE Goals'
  BY <1>29 DEF RecoverBegin, Committed, Desired, GotoWith, Recoverable
<1>30. ASSUME NEW f \in Files, Restore(f) PROVE Goals'
  <2>1. /\ pc = "restore" /\ pc' = "restore"
        /\ UNCHANGED <<backup, dstat, base, new, journal>>
        /\ cur \in ChangeSets /\ journal[cur] \in {"apply", "undo"}
    BY <1>30 DEF Restore, GotoWith
  <2>2. /\ ws'[f] = Desired(f)
        /\ \A g \in Files : g # f => ws'[g] = ws[g]
    BY <1>30 DEF Restore, Put, Tree
  <2>3. Unfinished(cur)
    BY <2>1
  <2>4. ASSUME NEW c \in ChangeSets, Unfinished(c)', NEW g \in Changed(c)
        PROVE  /\ ws'[g] \in {base[c][g], new[c][g]}
               /\ journal[c] = "apply" /\ ws'[g] # base[c][g]
                    => backup[c][g] = base[c][g]
    <3>1. c = cur
      BY <2>1, <2>3, <2>4 DEF OneUnfinished
    <3>2. CASE g = f
      BY <2>1, <2>2, <3>1, <3>2 DEF Desired
    <3>3. CASE g # f
      BY <2>1, <2>2, <2>4, <3>3
    <3> QED
      BY <3>2, <3>3
  <2> QED
    BY <2>1, <2>4
<1>31. ASSUME NEW f \in Files, RestoreFails(f) PROVE Goals'
  BY <1>31 DEF RestoreFails, Desired, GotoWith, Put, Raises, RestoredOwner
<1>32. ASSUME MarkRecovered PROVE Goals'
  <2>1. /\ pc = "restore" /\ todo = {} /\ cur' = cur /\ cur \in ChangeSets
        /\ UNCHANGED <<ws, backup, base, new, journal>>
        /\ \A c \in ChangeSets : c # cur => dstat'[c] = dstat[c]
        /\ pc' = "rclean" => journal[cur] = "apply"
    BY <1>32 DEF MarkRecovered, Goto, Mark
  <2>2. Unfinished(cur)
    BY <2>1
  <2>3. \A c \in ChangeSets : Unfinished(c)' => Unfinished(c)
    BY <2>1, <2>2
  <2>4. journal[cur] = "apply" => \A f \in Changed(cur) : ws[f] = base[cur][f]
    BY <2>1 DEF Desired, FilesOfStep
  <2> QED
    BY <2>1, <2>3, <2>4
<1>33. ASSUME MarkRecoveredFails PROVE Goals'
  BY <1>33 DEF MarkRecoveredFails, Goto, MarkRaises, Raises, RecoveredStatus
<1>34. ASSUME NEW f \in Files, CleanBackup(f) PROVE Goals'
  BY <1>34 DEF CleanBackup, Tree
<1>35. ASSUME CleanUndoDir PROVE Goals'
  BY <1>35 DEF CleanUndoDir, Goto, RestoredFirst
<1>36. ASSUME CleanFails PROVE Goals'
  BY <1>36 DEF CleanFails, Goto, Raises
<1>37. ASSUME RecoverFinish PROVE Goals'
  BY <1>37 DEF RecoverFinish, NoCall, Resume, Return, SetJournal, Succeeds
<1>38. ASSUME RecoverFinishFails PROVE Goals'
  BY <1>38 DEF RecoverFinishFails, Goto, Raises, SetJournal
<1>39. ASSUME MarkRefused PROVE Goals'
  BY <1>39
     DEF MarkRefused, Mark, NoCall, RefusedStatus, Resume, Return, Succeeds
<1>40. ASSUME MarkRefusedFails PROVE Goals'
  BY <1>40 DEF MarkRefusedFails, NoCall, Raises, RefusedStatus
<1>41. ASSUME NEW c \in ChangeSets, TakeBaseline(c) PROVE Goals'
  BY <1>41 DEF TakeBaseline, Tree, Unused
<1>42. ASSUME NEW c \in ChangeSets, NEW t \in Tree,
           NEW s \in {"pending", "draft"}, Create(c, t, s)
      PROVE Goals'
  BY <1>42 DEF Create, Raises, Succeeds, Tree, Unused
<1>43. ASSUME NEW c \in ChangeSets, NEW k \in {"apply", "undo"}, Enter(c, k)
      PROVE Goals'
  BY <1>43 DEF Enter
<1>44. ASSUME Crash PROVE Goals'
  BY <1>44 DEF Crash, NoCall
<1>45. ASSUME Start PROVE Goals'
  BY <1>45 DEF Start
<1>46. ASSUME NEW c \in ChangeSets, BootRecover(c) PROVE Goals'
  BY <1>46 DEF BootRecover
<1>47. ASSUME BootDone PROVE Goals'
  BY <1>47 DEF BootDone
<1>48. ASSUME NEW c \in ChangeSets, NEW f \in Files,
           NEW v \in Contents \cup {Absent}, StageEdit(c, f, v)
      PROVE Goals'
  BY <1>48 DEF StageEdit
<1>49. ASSUME NEW f \in Files, NEW v \in Contents \cup {Absent}, ManagedSave(f, v)
      PROVE Goals'
  BY <1>49 DEF ManagedSave, Edit, Put
<1>50. ASSUME NEW f \in Files, NEW v \in Contents \cup {Absent}, OfflineEdit(f, v)
      PROVE Goals'
  BY <1>50 DEF OfflineEdit, Edit, Put
<1>51. ASSUME NEW f \in Files, NEW v \in Contents \cup {Absent}, ExternalEdit(f, v)
      PROVE Goals'
  BY <1>51 DEF ExternalEdit, Edit, Put
<1>52. CASE UNCHANGED vars
  BY <1>52 DEF vars
<1> HIDE <1>0, PublishAssumption
       DEF TypeOK, KindOfStep, MemoryMirrorsDisk, JournalOfStep, StatusOfStep,
           RecoveryOfStep, UnfinishedInHand, OriginalsAtHand, Unfinished, Steps,
           Status, Outcome, Committed, disk, plan, call, bounds, Changed
<1>53. CASE CallStep
  BY <1>53, <1>1, <1>2, <1>3, <1>4, <1>5, <1>6, <1>7, <1>8, <1>9, <1>10,
     <1>11, <1>12, <1>13, <1>14, <1>15, <1>16, <1>17, <1>18, <1>19, <1>20,
     <1>21, <1>22, <1>23, <1>24, <1>26, <1>27, <1>28, <1>29, <1>30, <1>31,
     <1>32, <1>33, <1>34, <1>35, <1>36, <1>37, <1>38, <1>39, <1>40, <1>46,
     <1>47
     DEF CallStep
<1>54. CASE Environment
  BY <1>54, <1>41, <1>42, <1>43, <1>44, <1>45, <1>25, <1>48, <1>49, <1>50,
     <1>51
     DEF Environment
<1> QED
  BY <1>52, <1>53, <1>54 DEF Next

\* Where only a backup can fail and others wait for the lock, the invariant holds.
LEMMA UInvHolds ==
    ASSUME Faults \subseteq {"backup"}, Edits \subseteq {"managed"}
    PROVE  Spec => []UInv
<1>0. Faults \cap {"mark", "journal", "finish"} = {} /\ "external" \notin Edits
  OBVIOUS
<1>1. Init => OneUnfinished /\ UnfinishedInHand /\ StagesWhole /\ OriginalsAtHand
  BY PublishAssumption
     DEF Init, OneUnfinished, UnfinishedInHand, StagesWhole, OriginalsAtHand,
         Unfinished
<1>2. UInv /\ AInv' /\ [Next]_vars
        => (OneUnfinished /\ UnfinishedInHand /\ StagesWhole /\ OriginalsAtHand)'
  <2> SUFFICES ASSUME UInv, AInv', [Next]_vars
               PROVE  /\ OneUnfinished' /\ UnfinishedInHand'
                      /\ StagesWhole' /\ OriginalsAtHand'
    OBVIOUS
  <2>1. TypeOK' /\ KindOfStep'
    BY DEF AInv, EInv
  <2> QED
    BY <2>1, HandStep, StagesStep, OriginalsStep
<1>3. Spec => []AInv
  BY <1>0, AInvHolds
<1> QED
  BY <1>1, <1>2, <1>3, PTL DEF Spec, UInv

---------------------------------------------------------------------------
\* No ChangeSet is left half-published while another one is published, however
\* often the process dies: every recovery succeeds when only backups can fail to
\* be written and everybody else takes the workspace lock.
THEOREM OneAtATime ==
    ASSUME Faults \subseteq {"backup"}, Edits \subseteq {"managed"}
    PROVE  Spec => []OneUnfinished
<1>1. UInv => OneUnfinished
  BY DEF UInv
<1> QED
  BY UInvHolds, <1>1, PTL

\* So apply and undo of any number of ChangeSets are atomic through process death,
\* wherever it comes.
THEOREM DeathsAreHidden ==
    ASSUME Faults \subseteq {"backup"}, Edits \subseteq {"managed"}
    PROVE  Spec => ImplementsAtomic
<1>1. Faults \cap {"mark", "journal", "finish"} = {} /\ "external" \notin Edits
  OBVIOUS
<1> QED
  BY <1>1, OneAtATime, PublicationIsAtomic, PTL
=============================================================================

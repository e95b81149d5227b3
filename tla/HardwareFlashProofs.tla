------------------------- MODULE HardwareFlashProofs -------------------------
(***************************************************************************)
(* Theorems about HardwareFlash, for any number of runs and approvals and  *)
(* any number of crashes, sleeps, faults and lease grants.                 *)
(***************************************************************************)
EXTENDS HardwareFlash, TLAPS

Acts(r) == TaskStep(r) \/ CancelStep(r) \/ CallStep(r)

(***************************************************************************)
(* The inductive invariants.                                               *)
(***************************************************************************)

\* A run knows only approvals that were issued for it.
ApprovalOfRun ==
    \A r \in Runs :
        /\ approval[r] # None => appr[approval[r]] # "none" /\ owner[approval[r]] = r
        /\ status[r] = "awaiting" \/ task[r] # "none" => approval[r] # None

\* An approval that was consumed belongs to an operation with its fingerprint.
ConsumedIsBound ==
    \A i \in Ids : /\ appr[i] = "consumed" => op[i] # "none" /\ opBound[i] = "same"
                   /\ op[i] # "none" => appr[i] # "none"

\* What a task that may still write knows.
WorkOfTask ==
    \A r \in Runs :
        LET i == approval[r]
        IN  /\ task[r] \in {"ready", "running"} => appr[i] = "consumed" /\ status[r] # "completed"
            /\ task[r] = "ready" => /\ op[i] = "prepared" /\ outcome[r] = "none"
                                   /\ saved[r] \notin Terminal /\ hb[r] # "aborted"
            /\ task[r] = "running" => op[i] \in {"started", "unknown"}
            /\ task[r] \in {"ready", "running"} /\ outcome[r] = "none" => wrote[i] = 0

\* A started operation has a running task, and its run is unfinished on disk: a
\* restart finds it.
StartedIsRunning ==
    \A i \in Ids : op[i] = "started" =>
        /\ owner[i] \in Runs /\ approval[owner[i]] = i
        /\ task[owner[i]] = "running" /\ saved[owner[i]] \notin Terminal

WriteOfApproval ==
    \A i \in Ids : wrote[i] > 0 =>
        wrote[i] = 1 /\ appr[i] = "consumed" /\ op[i] \in {"started", "completed", "unknown"}

IInv ==
    /\ TypeOK /\ ApprovalOfRun /\ ConsumedIsBound /\ WorkOfTask
    /\ StartedIsRunning /\ WriteOfApproval

\* The task that works holds the lease.
LeaseOfTask == (up /\ sleeps = 0 /\ faults = 0) => \A r \in Runs : task[r] # "none" => Owns(r)


(***************************************************************************)
(* What the helpers do, whichever handler uses them.                       *)
(***************************************************************************)
OpStates == {"none", "prepared", "started", "completed", "unknown"}

\* An interruption leaves no started operation of its runs and changes nothing else.
Interrupts(R) ==
    /\ op' \in [Ids -> OpStates]
    /\ \A i \in Ids : op'[i] = op[i] \/ (op[i] = "started" /\ op'[i] = "unknown")
    /\ \A i \in Ids : op'[i] = "started" => owner[i] \notin R

LEMMA InterruptFacts ==
    ASSUME TypeOK, NEW R \in SUBSET Runs, op' = Interrupted(R)
    PROVE  Interrupts(R)
BY DEF TypeOK, Interrupted, Interrupts, OpStates

LEMMA InterruptOne ==
    ASSUME TypeOK, NEW r \in Runs, op' = Interrupted({r})
    PROVE  Interrupts({r})
BY InterruptFacts

\* A settlement changes the run and its row, and never to a state that awaits.
Settles(r) ==
    /\ status' \in [Runs -> Statuses] /\ saved' \in [Runs -> Statuses]
    /\ settled' \in [Runs -> BOOLEAN] /\ approval' = approval
    /\ \A q \in Runs \ {r} : status'[q] = status[q] /\ saved'[q] = saved[q]
    /\ status'[r] # "awaiting"

LEMMA SettleFacts ==
    ASSUME TypeOK, NEW r \in Runs, NEW s \in {"completed", "failed", "cancelled"},
           NEW persists \in BOOLEAN, SettleAs(r, s, persists)
    PROVE  Settles(r)
<1> USE DEF TypeOK, SettleAs, Statuses, Terminal, Settles
<1>1. CASE cancelling[r]
  BY <1>1
<1>2. CASE ~cancelling[r]
  <2> DEFINE logs == settled[r] \/ Loggable(r)
             now == IF logs \/ s = "cancelled" THEN s ELSE "failed"
  <2>1. now \in {"completed", "failed", "cancelled"}
    OBVIOUS
  <2>2. /\ status' = [status EXCEPT ![r] = now]
        /\ saved' = [saved EXCEPT ![r] = IF ~logs \/ (settled[r] /\ ~persists) THEN @ ELSE s]
        /\ settled' = [settled EXCEPT ![r] = IF logs THEN TRUE ELSE @]
        /\ approval' = approval
    BY <1>2
  <2> HIDE DEF now, logs
  <2>3. /\ status' \in [Runs -> Statuses] /\ status'[r] # "awaiting"
        /\ \A q \in Runs \ {r} : status'[q] = status[q]
    BY <2>1, <2>2
  <2>4. saved' \in [Runs -> Statuses] /\ \A q \in Runs \ {r} : saved'[q] = saved[q]
    BY <2>2
  <2>5. settled' \in [Runs -> BOOLEAN]
    BY <2>2
  <2>6. QED
    BY <2>2, <2>3, <2>4, <2>5
<1>3. QED
  BY <1>1, <1>2

LEMMA UnwindFacts ==
    ASSUME TypeOK, NEW r \in Runs, Unwinds(r)
    PROVE  Settles(r) /\ Interrupts({r}) /\ task' = [task EXCEPT ![r] = "ending"]
BY SettleFacts, InterruptOne DEF Unwinds

LEMMA FinishFacts ==
    ASSUME TypeOK, NEW r \in Runs, Finish(r)
    PROVE  /\ Settles(r) /\ task[r] = "running" /\ task' = [task EXCEPT ![r] = "ending"]
           /\ \E o \in {"completed", "unknown"} : op' = [op EXCEPT ![approval[r]] = o]
           /\ UNCHANGED <<up, outcome, hb, calls, approvals, opBound, lease, device, bounds>>
<1> DEFINE good == outcome[r] = "ok" /\ op[approval[r]] # "unknown"
           s == IF good THEN "completed" ELSE "failed"
<1>1. SettleAs(r, s, TRUE) /\ op' = [op EXCEPT ![approval[r]] = IF good THEN "completed" ELSE "unknown"]
  BY DEF Finish
<1>2. s \in {"completed", "failed", "cancelled"}
  OBVIOUS
<1>3. Settles(r)
  BY <1>1, <1>2, SettleFacts
<1>4. QED
  BY <1>1, <1>3 DEF Finish, Running

LEMMA RestartFacts ==
    ASSUME TypeOK, Restart
    PROVE  /\ ~up /\ up'
           /\ status' = [r \in Runs |-> IF saved[r] \notin Terminal THEN "failed" ELSE saved[r]] /\ saved' = status'
           /\ approval' = [r \in Runs |-> None] /\ task' = [r \in Runs |-> "none"]
           /\ Interrupts({r \in Runs : saved[r] \notin Terminal})
           /\ appr' \in [Ids -> {"none", "pending", "consumed", "invalidated"}]
           /\ \A i \in Ids : appr'[i] = appr[i] \/ (appr[i] = "pending" /\ appr'[i] = "invalidated")
           /\ UNCHANGED <<owner, opBound, device, bounds, holder, epoch, live>>
<1> DEFINE broken == {r \in Runs : saved[r] \notin Terminal}
<1>1. op' = Interrupted(broken)
  BY DEF Restart
<1>2. Interrupts(broken)
  BY <1>1, InterruptFacts
<1>3. status' = [r \in Runs |-> IF saved[r] \notin Terminal THEN "failed" ELSE saved[r]]
  BY DEF Restart
<1>4. appr' = [i \in Ids |-> IF owner[i] \in broken /\ appr[i] = "pending" THEN "invalidated" ELSE appr[i]]
  BY DEF Restart
<1>5. QED
  BY <1>2, <1>3, <1>4 DEF Restart, TypeOK

\* How a confirmation ends: a task starts, the approval is lost to a fault, or the
\* confirmation is refused.
Kept(r, b) ==
    /\ appr[approval[r]] = "pending" /\ b = "same"
    /\ appr' = [appr EXCEPT ![approval[r]] = "consumed"]
    /\ status' = [status EXCEPT ![r] = "running"] /\ saved' = [saved EXCEPT ![r] = "running"]
    /\ task' = [task EXCEPT ![r] = "ready"]
    /\ outcome' = [outcome EXCEPT ![r] = "none"] /\ hb' = [hb EXCEPT ![r] = "on"]
    /\ holder' = r /\ live' = TRUE
Broken(r, b) ==
    /\ appr[approval[r]] = "pending" /\ b = "same"
    /\ appr' = [appr EXCEPT ![approval[r]] = "consumed"]
    /\ status' = [status EXCEPT ![r] = "running"]
    /\ UNCHANGED <<saved, task, outcome, hb>>
    /\ holder' = None /\ live' = FALSE
Refused == UNCHANGED <<appr, status, saved, task, outcome, hb>> /\ holder' = None /\ live' = FALSE

LEMMA ConfirmFacts ==
    ASSUME TypeOK, NEW r \in Runs, NEW b \in Bindings, NEW late \in BOOLEAN, NEW breaks \in BOOLEAN,
           Confirm(r, b, late, breaks)
    PROVE  LET i == approval[r]
           IN  /\ status[r] = "awaiting" /\ task[r] = "none"
               /\ \/ Preparable(i, b) /\ (Kept(r, b) \/ Broken(r, b))
                  \/ Refused
               /\ op' = [op EXCEPT ![i] = IF Preparable(i, b) THEN "prepared" ELSE @]
               /\ opBound' = [opBound EXCEPT ![i] = IF op[i] = "none" THEN b ELSE @]
               /\ UNCHANGED <<approval, settled, owner, device, crashes, sleeps>>
<1> DEFINE accepted == Preparable(approval[r], b) /\ Consumable(approval[r], b, late)
           kept == accepted /\ ~breaks
<1>1. /\ status[r] = "awaiting" /\ task[r] = "none"
      /\ op' = [op EXCEPT ![approval[r]] = IF Preparable(approval[r], b) THEN "prepared" ELSE @]
      /\ opBound' = [opBound EXCEPT ![approval[r]] = IF op[approval[r]] = "none" THEN b ELSE @]
      /\ UNCHANGED <<approval, settled, owner, device, crashes, sleeps>>
  BY DEF Confirm
<1>2. /\ breaks => accepted
      /\ holder' = IF kept THEN r ELSE None
      /\ live' = kept
      /\ appr' = [appr EXCEPT ![approval[r]] = IF accepted THEN "consumed" ELSE @]
      /\ status' = [status EXCEPT ![r] = IF accepted THEN "running" ELSE @]
      /\ saved' = [saved EXCEPT ![r] = IF kept THEN "running" ELSE @]
      /\ task' = [task EXCEPT ![r] = IF kept THEN "ready" ELSE @]
      /\ outcome' = [outcome EXCEPT ![r] = IF kept THEN "none" ELSE @]
      /\ hb' = [hb EXCEPT ![r] = IF kept THEN "on" ELSE @]
  BY DEF Confirm
<1>3. CASE kept
  <2>1. Kept(r, b)
    BY <1>2, <1>3 DEF Kept, Consumable
  <2>2. QED
    BY <1>1, <1>3, <2>1
<1>4. CASE accepted /\ breaks
  <2>1. Broken(r, b)
    BY <1>2, <1>4 DEF Broken, Consumable, TypeOK
  <2>2. QED
    BY <1>1, <1>4, <2>1
<1>5. CASE ~accepted
  <2>1. Refused
    BY <1>2, <1>5 DEF Refused, TypeOK
  <2>2. QED
    BY <1>1, <2>1
<1>6. QED
  BY <1>3, <1>4, <1>5

\* The steps of Next as the proofs below split them.
LEMMA Steps ==
    ASSUME Next
    PROVE  \/ \E r \in Runs : \/ Start(r) \/ Upload(r) \/ RefuseUpload(r) \/ Uploaded(r) \/ Finish(r)
                             \/ End(r) \/ Notice(r) \/ Drain(r) \/ Unwind(r) \/ Block(r)
                             \/ Kill(r) \/ Cancelled(r)
                             \/ (\E i \in Ids : Prepare(r, i))
                             \/ (\E b \in Bindings : ConfirmWaits(r, b)) \/ ConfirmRefused(r)
                             \/ (\E b \in Bindings, late, breaks \in BOOLEAN : Confirm(r, b, late, breaks))
                             \/ Cancel(r) \/ Abort(r) \/ Lapse(r)
           \/ (\E i \in Ids : OrphanEnds(i)) \/ ExpireLease \/ Crash \/ Restart
BY DEF Next, TaskStep, CancelStep, CallStep

LeaseType == holder \in Runs \cup {None} /\ epoch \in Nat /\ live \in BOOLEAN /\ grant \in [Runs -> Nat]

LEMMA ReleaseType ==
    ASSUME TypeOK, NEW r \in Runs, Releases(r)
    PROVE  LeaseType'
<1>1. holder' \in Runs \cup {None} /\ live' \in BOOLEAN
  BY DEF Releases, TypeOK
<1>2. epoch' \in Nat /\ grant' \in [Runs -> Nat]
  BY DEF Releases, TypeOK
<1>3. QED
  BY <1>1, <1>2 DEF LeaseType

LEMMA TypeStep ==
    ASSUME TypeOK, ApprovalOfRun, [Next]_vars
    PROVE  TypeOK'
<1>0. ASSUME UNCHANGED vars
      PROVE  TypeOK'
  BY <1>0, FlashAssumption DEF vars, TypeOK, Statuses, Terminal, Ids, Bindings, run, work, calls, approvals, ops, lease, device, bounds
<1>1. ASSUME NEW r \in Runs, Start(r)
      PROVE  TypeOK'
  <2>0. UNCHANGED <<up, outcome, hb, calls, approvals, opBound, lease, device, bounds>>
    BY <1>1 DEF Start
  <2>1. CASE Stopped(r)
    <3>1. Settles(r) /\ Interrupts({r}) /\ task' = [task EXCEPT ![r] = "ending"]
      BY <1>1, <2>1, UnwindFacts DEF Start
    <3>2. QED
      BY <2>0, <3>1 DEF Settles, Interrupts, OpStates, TypeOK, Statuses, Terminal, Ids, Bindings, run, work, calls, approvals, ops, lease, device, bounds
  <2>2. CASE ~Stopped(r)
    <3>1. /\ op' = [op EXCEPT ![approval[r]] = "started"]
          /\ task' = [task EXCEPT ![r] = "running"]
          /\ UNCHANGED run
      BY <1>1, <2>2 DEF Start
    <3>2. QED
      BY <2>0, <3>1 DEF TypeOK, Statuses, Terminal, Ids, Bindings, run, work, calls, approvals, ops, lease, device, bounds
  <2>3. QED
    BY <2>1, <2>2
<1>2. ASSUME NEW r \in Runs, Upload(r)
      PROVE  TypeOK'
  <2>0. UNCHANGED <<up, hb, calls, approvals, opBound, lease, bounds>> /\ task[r] = "running"
    BY <1>2 DEF Upload, Running
  <2>1. CASE Barred(r)
    <3>1. Settles(r) /\ Interrupts({r}) /\ task' = [task EXCEPT ![r] = "ending"]
      BY <1>2, <2>1, UnwindFacts DEF Upload
    <3>2. UNCHANGED <<outcome, device>>
      BY <1>2, <2>1 DEF Upload
    <3>3. QED
      BY <2>0, <3>1, <3>2 DEF Settles, Interrupts, OpStates, TypeOK, Statuses, Terminal, Ids, Bindings, run, work, calls, approvals, ops, lease, device, bounds
  <2>2. CASE ~Barred(r)
    <3>1. /\ writing' = writing \cup {approval[r]}
          /\ wrote' = [wrote EXCEPT ![approval[r]] = @ + 1]
          /\ outcome' = [outcome EXCEPT ![r] = "writing"]
          /\ UNCHANGED <<run, task, op>>
      BY <1>2, <2>2 DEF Upload
    <3>2. approval[r] \in Ids
      BY <2>0 DEF ApprovalOfRun, TypeOK
    <3>3. wrote' \in [Ids -> Nat]
      BY <3>1, <3>2 DEF TypeOK
    <3>4. writing' \subseteq Ids /\ outcome' \in [Runs -> {"none", "writing", "ok", "bad"}]
      BY <3>1, <3>2 DEF TypeOK
    <3>5. QED
      BY <2>0, <3>1, <3>3, <3>4 DEF TypeOK, Statuses, Terminal, Ids, Bindings, run, work, calls, approvals, ops, lease, device, bounds
  <2>3. QED
    BY <2>1, <2>2
<1>3. ASSUME NEW r \in Runs, RefuseUpload(r)
      PROVE  TypeOK'
  BY <1>3, FlashAssumption DEF RefuseUpload, Running, Struck, TypeOK, Statuses, Terminal, Ids, Bindings, run, work, calls, approvals, ops, lease, device, bounds
<1>4. ASSUME NEW r \in Runs, Uploaded(r)
      PROVE  TypeOK'
  <2>1. /\ writing' = writing \ {approval[r]}
        /\ UNCHANGED <<up, run, task, hb, calls, approvals, ops, lease, wrote, bounds>>
    BY <1>4 DEF Uploaded
  <2>2. PICK o \in {"ok", "bad"} : outcome' = [outcome EXCEPT ![r] = o]
    BY <1>4 DEF Uploaded
  <2>3. QED
    BY <2>1, <2>2 DEF TypeOK, Statuses, Terminal, Ids, Bindings, run, work, calls, approvals, ops, lease, device, bounds
<1>5. ASSUME NEW r \in Runs, Finish(r)
      PROVE  TypeOK'
  <2>1. Settles(r) /\ task' = [task EXCEPT ![r] = "ending"]
    BY <1>5, FinishFacts
  <2>2. PICK o \in {"completed", "unknown"} : op' = [op EXCEPT ![approval[r]] = o]
    BY <1>5, FinishFacts
  <2>3. UNCHANGED <<up, outcome, hb, calls, approvals, opBound, lease, device, bounds>>
    BY <1>5, FinishFacts
  <2>4. QED
    BY <2>1, <2>2, <2>3 DEF Settles, TypeOK, Statuses, Terminal, Ids, Bindings, run, work, calls, approvals, ops, lease, device, bounds
<1>6. ASSUME NEW r \in Runs, End(r)
      PROVE  TypeOK'
  <2>1. LeaseType'
    BY <1>6, ReleaseType DEF End, Leaves
  <2>2. QED
    BY <1>6, <2>1 DEF End, Leaves, LeaseType, TypeOK, Statuses, Terminal, Ids, Bindings, run, work, calls, approvals, ops, lease, device, bounds
<1>7. ASSUME NEW r \in Runs, Notice(r)
      PROVE  TypeOK'
  BY <1>7, FlashAssumption DEF Notice, Watched, TypeOK, Statuses, Terminal, Ids, Bindings, run, work, calls, approvals, ops, lease, device, bounds
<1>8. ASSUME NEW r \in Runs, Drain(r)
      PROVE  TypeOK'
  <2>1. Interrupts({r})
    BY <1>8, InterruptOne DEF Drain
  <2>2. /\ hb' = [hb EXCEPT ![r] = "lost"] /\ writing' \subseteq writing
        /\ UNCHANGED <<up, run, task, outcome, calls, approvals, opBound, lease, wrote, bounds>>
    BY <1>8 DEF Drain
  <2>3. QED
    BY <2>1, <2>2 DEF Interrupts, OpStates, TypeOK, Statuses, Terminal, Ids, Bindings, run, work, calls, approvals, ops, lease, device, bounds
<1>9. ASSUME NEW r \in Runs, Unwind(r)
      PROVE  TypeOK'
  <2>0. UNCHANGED <<up, outcome, hb, calls, approvals, opBound, lease, wrote, bounds>>
    BY <1>9 DEF Unwind
  <2>1. CASE task[r] = "running"
    <3>1. Settles(r) /\ Interrupts({r}) /\ task' = [task EXCEPT ![r] = "ending"]
      BY <1>9, <2>1, UnwindFacts DEF Unwind
    <3>2. writing' \subseteq writing
      BY <1>9, <2>1 DEF Unwind, WithoutTool
    <3>3. QED
      BY <2>0, <3>1, <3>2 DEF Settles, Interrupts, OpStates, TypeOK, Statuses, Terminal, Ids, Bindings, run, work, calls, approvals, ops, lease, device, bounds
  <2>2. CASE task[r] # "running"
    <3>1. task' = [task EXCEPT ![r] = "ending"] /\ UNCHANGED <<run, op, writing>>
      BY <1>9, <2>2 DEF Unwind
    <3>2. QED
      BY <2>0, <3>1 DEF TypeOK, Statuses, Terminal, Ids, Bindings, run, work, calls, approvals, ops, lease, device, bounds
  <2>3. QED
    BY <2>1, <2>2
<1>10. ASSUME NEW r \in Runs, Block(r)
      PROVE  TypeOK'
  <2>1. Interrupts({r})
    BY <1>10, InterruptOne DEF Block
  <2>2. LeaseType'
    BY <1>10, ReleaseType DEF Block, Leaves
  <2>3. /\ task' = [task EXCEPT ![r] = "none"]
        /\ status' = [status EXCEPT ![r] = "blocked"] /\ saved' = [saved EXCEPT ![r] = "blocked"]
        /\ outcome' = [outcome EXCEPT ![r] = "none"] /\ hb' = [hb EXCEPT ![r] = "on"]
        /\ UNCHANGED <<up, approval, settled, calls, approvals, opBound, device, bounds>>
    BY <1>10 DEF Block, Leaves
  <2>4. QED
    BY <2>1, <2>2, <2>3 DEF Interrupts, OpStates, LeaseType, TypeOK, Statuses, Terminal, Ids, Bindings, run, work, calls, approvals, ops, lease, device, bounds
<1>11. ASSUME NEW r \in Runs, Kill(r)
      PROVE  TypeOK'
  <2>1. writing' \subseteq Ids
    BY <1>11 DEF Kill, TypeOK
  <2>2. canceller' \in [Runs -> {"none", "killing", "waiting", "failed"}]
    BY <1>11 DEF Kill, TypeOK
  <2>3. UNCHANGED <<up, run, work, cancelling, confirming, approvals, ops, lease, wrote, bounds>>
    BY <1>11 DEF Kill
  <2>4. QED
    BY <2>1, <2>2, <2>3 DEF TypeOK, run, work, approvals, ops, lease, bounds
<1>12. ASSUME NEW r \in Runs, Cancelled(r)
      PROVE  TypeOK'
  <2>1. Interrupts({r})
    BY <1>12, InterruptOne DEF Cancelled
  <2>2. PICK now \in {"blocked", "cancelled"}, s \in {saved[r], "blocked", "cancelled"} :
            /\ status' = [status EXCEPT ![r] = now] /\ saved' = [saved EXCEPT ![r] = s]
    BY <1>12 DEF Cancelled
  <2>3. /\ cancelling' = [cancelling EXCEPT ![r] = FALSE]
        /\ canceller' = [canceller EXCEPT ![r] = "none"]
        /\ UNCHANGED <<up, approval, work, confirming, approvals, opBound, lease, device, bounds>>
    BY <1>12 DEF Cancelled
  <2>4. settled' \in [Runs -> BOOLEAN]
    <3>1. settled' = [settled EXCEPT ![r] = IF Loggable(r) THEN TRUE ELSE @]
      BY <1>12 DEF Cancelled
    <3>2. QED
      BY <3>1 DEF TypeOK
  <2>5. status' \in [Runs -> Statuses] /\ saved' \in [Runs -> Statuses]
    BY <2>2 DEF TypeOK, Statuses, Terminal
  <2>6. cancelling' \in [Runs -> BOOLEAN]
    BY <2>3 DEF TypeOK
  <2>7. canceller' \in [Runs -> {"none", "killing", "waiting", "failed"}]
    BY <2>3 DEF TypeOK
  <2>8. QED
    BY <2>1, <2>3, <2>4, <2>5, <2>6, <2>7 DEF Interrupts, OpStates, TypeOK, Statuses, Terminal, Ids, Bindings, run, work, calls, approvals, ops, lease, device, bounds
<1>13. ASSUME NEW r \in Runs, NEW i \in Ids, Prepare(r, i)
      PROVE  TypeOK'
  <2>1. /\ appr' \in [Ids -> {"none", "pending", "consumed", "invalidated"}]
        /\ owner' \in [Ids -> Runs \cup {None}]
    BY <1>13 DEF Prepare, TypeOK
  <2>2. approval' \in [Runs -> Ids \cup {None}]
    BY <1>13 DEF Prepare, TypeOK
  <2>3. status' \in [Runs -> Statuses]
    BY <1>13 DEF Prepare, TypeOK, Statuses
  <2>4. saved' \in [Runs -> Statuses] /\ settled' \in [Runs -> BOOLEAN]
    <3>1. \/ saved' = [saved EXCEPT ![r] = "awaiting"] /\ settled' = [settled EXCEPT ![r] = FALSE]
          \/ saved' = saved /\ settled' = settled
      BY <1>13 DEF Prepare
    <3>2. /\ saved \in [Runs -> Statuses] /\ settled \in [Runs -> BOOLEAN]
          /\ "awaiting" \in Statuses
      BY DEF TypeOK, Statuses
    <3>3. saved' \in [Runs -> Statuses]
      BY <3>1, <3>2
    <3>4. settled' \in [Runs -> BOOLEAN]
      BY <3>1, <3>2
    <3>5. QED
      BY <3>3, <3>4
  <2>5. UNCHANGED <<up, work, calls, ops, lease, device, bounds>>
    BY <1>13 DEF Prepare
  <2>6. QED
    BY <2>1, <2>2, <2>3, <2>4, <2>5 DEF TypeOK, work, calls, ops, lease, device, bounds
<1>14. ASSUME NEW r \in Runs, NEW b \in Bindings, ConfirmWaits(r, b)
      PROVE  TypeOK'
  BY <1>14, FlashAssumption DEF ConfirmWaits, TypeOK, Statuses, Terminal, Ids, Bindings, run, work, calls, approvals, ops, lease, device, bounds
<1>15. ASSUME NEW r \in Runs, ConfirmRefused(r)
      PROVE  TypeOK'
  BY <1>15, FlashAssumption DEF ConfirmRefused, Held, TypeOK, Statuses, Terminal, Ids, Bindings, run, work, calls, approvals, ops, lease, device, bounds
<1>16. ASSUME NEW r \in Runs, NEW b \in Bindings, NEW late \in BOOLEAN, NEW breaks \in BOOLEAN, Confirm(r, b, late, breaks)
      PROVE  TypeOK'
  <2> DEFINE j == approval[r]
  <2>1. /\ op' = [op EXCEPT ![j] = IF Preparable(j, b) THEN "prepared" ELSE @]
        /\ opBound' = [opBound EXCEPT ![j] = IF op[j] = "none" THEN b ELSE @]
        /\ UNCHANGED <<approval, settled, owner, device, crashes, sleeps>>
    BY <1>16, ConfirmFacts
  <2>2. Kept(r, b) \/ Broken(r, b) \/ Refused
    BY <1>16, ConfirmFacts
  <2>3. /\ confirming' = [confirming EXCEPT ![r] = None] /\ UNCHANGED <<up, cancelling, canceller>>
    BY <1>16 DEF Confirm
  <2>4. epoch' = epoch + 1 /\ faults' = IF breaks THEN faults + 1 ELSE faults
    BY <1>16 DEF Confirm
  <2>5. epoch' \in Nat /\ faults' \in Nat
    BY <2>4 DEF TypeOK
  <2>6. PICK n \in {0, epoch + 1} : grant' = [grant EXCEPT ![r] = n]
    BY <1>16 DEF Confirm
  <2>7. grant' \in [Runs -> Nat]
    BY <2>6 DEF TypeOK
  <2>8. op' \in [Ids -> OpStates] /\ opBound' \in [Ids -> Bindings \cup {None}]
    BY <2>1 DEF TypeOK, OpStates
  <2>9. /\ status' \in [Runs -> Statuses] /\ saved' \in [Runs -> Statuses]
        /\ task' \in [Runs -> {"none", "ready", "running", "ending"}]
        /\ outcome' \in [Runs -> {"none", "writing", "ok", "bad"}]
        /\ hb' \in [Runs -> {"on", "failed", "killing", "lost", "aborted"}]
        /\ appr' \in [Ids -> {"none", "pending", "consumed", "invalidated"}]
        /\ holder' \in Runs \cup {None} /\ live' \in BOOLEAN
    <3>1. CASE Kept(r, b)
      BY <3>1 DEF Kept, TypeOK, Statuses
    <3>2. CASE Broken(r, b)
      BY <3>2 DEF Broken, TypeOK, Statuses
    <3>3. CASE Refused
      BY <3>3 DEF Refused, TypeOK
    <3>4. QED
      BY <2>2, <3>1, <3>2, <3>3
  <2>10. confirming' \in [Runs -> Bindings \cup {None}]
    BY <2>3 DEF TypeOK
  <2>11. QED
    BY <2>1, <2>3, <2>5, <2>7, <2>8, <2>9, <2>10 DEF OpStates, TypeOK, Statuses, Terminal, Ids, Bindings, run, work, calls, approvals, ops, lease, device, bounds
<1>17. ASSUME NEW r \in Runs, Cancel(r)
      PROVE  TypeOK'
  <2>1. /\ status' = [status EXCEPT ![r] = "cancelling"]
        /\ cancelling' = [cancelling EXCEPT ![r] = TRUE]
        /\ UNCHANGED <<up, approval, settled, task, outcome, hb, confirming, approvals, ops, lease, device, bounds>>
    BY <1>17 DEF Cancel
  <2>2. PICK s \in {saved[r], "cancelling"}, c \in {canceller[r], "killing"} :
          /\ saved' = [saved EXCEPT ![r] = s] /\ canceller' = [canceller EXCEPT ![r] = c]
    <3>1. CASE Loggable(r)
      BY <1>17, <3>1 DEF Cancel
    <3>2. CASE ~Loggable(r)
      <4>1. saved' = [saved EXCEPT ![r] = saved[r]] /\ canceller' = [canceller EXCEPT ![r] = canceller[r]]
        BY <1>17, <3>2 DEF Cancel, TypeOK
      <4>2. QED
        BY <4>1
    <3>3. QED
      BY <3>1, <3>2
  <2>3. cancelling' \in [Runs -> BOOLEAN]
    BY <2>1 DEF TypeOK
  <2>4. QED
    BY <2>1, <2>2, <2>3 DEF TypeOK, Statuses, Terminal, Ids, Bindings, run, work, calls, approvals, ops, lease, device, bounds
<1>18. ASSUME NEW r \in Runs, Abort(r)
      PROVE  TypeOK'
  BY <1>18, FlashAssumption DEF Abort, Struck, TypeOK, Statuses, Terminal, Ids, Bindings, run, work, calls, approvals, ops, lease, device, bounds
<1>19. ASSUME NEW r \in Runs, Lapse(r)
      PROVE  TypeOK'
  <2>1. /\ hb' = [hb EXCEPT ![r] = "failed"]
        /\ faults' = IF Owns(r) THEN faults + 1 ELSE faults
        /\ UNCHANGED <<up, run, task, outcome, calls, approvals, ops, lease, device, crashes, sleeps>>
    BY <1>19 DEF Lapse
  <2>2. faults' \in Nat
    BY <2>1 DEF TypeOK
  <2>3. QED
    BY <2>1, <2>2 DEF TypeOK, Statuses, Terminal, Ids, Bindings, run, work, calls, approvals, ops, lease, device, bounds
<1>20. ASSUME NEW i \in Ids, OrphanEnds(i)
      PROVE  TypeOK'
  BY <1>20, FlashAssumption DEF OrphanEnds, TypeOK, Statuses, Terminal, Ids, Bindings, run, work, calls, approvals, ops, lease, device, bounds
<1>21. ASSUME ExpireLease
      PROVE  TypeOK'
  <2>1. /\ live' = FALSE /\ sleeps' = IF Beating THEN sleeps + 1 ELSE sleeps
        /\ UNCHANGED <<up, run, work, calls, approvals, ops, holder, epoch, grant, device, crashes, faults>>
    BY <1>21 DEF ExpireLease
  <2>2. sleeps' \in Nat
    BY <2>1 DEF TypeOK
  <2>3. live' \in BOOLEAN
    BY <2>1
  <2>4. QED
    BY <2>1, <2>2, <2>3 DEF TypeOK, Statuses, Terminal, Ids, Bindings, run, work, calls, approvals, ops, lease, device, bounds
<1>22. ASSUME Crash
      PROVE  TypeOK'
  <2>1. /\ up' = FALSE /\ crashes' = crashes + 1
        /\ UNCHANGED <<run, work, calls, approvals, ops, lease, device, sleeps, faults>>
    BY <1>22 DEF Crash
  <2>2. crashes' \in Nat
    BY <2>1 DEF TypeOK
  <2>3. up' \in BOOLEAN
    BY <2>1
  <2>4. QED
    BY <2>1, <2>2, <2>3 DEF TypeOK, Statuses, Terminal, Ids, Bindings, run, work, calls, approvals, ops, lease, device, bounds
<1>23. ASSUME Restart
      PROVE  TypeOK'
  <2>1. /\ up' = TRUE /\ settled' = [q \in Runs |-> TRUE] /\ cancelling' = [q \in Runs |-> FALSE]
        /\ outcome' = [q \in Runs |-> "none"] /\ hb' = [q \in Runs |-> "on"]
        /\ canceller' = [q \in Runs |-> "none"] /\ confirming' = [q \in Runs |-> None]
        /\ grant' = [q \in Runs |-> 0]
    BY <1>23 DEF Restart
  <2>2. /\ status' = [q \in Runs |-> IF saved[q] \notin Terminal THEN "failed" ELSE saved[q]] /\ saved' = status'
        /\ approval' = [q \in Runs |-> None] /\ task' = [q \in Runs |-> "none"]
        /\ op' \in [Ids -> OpStates]
        /\ appr' \in [Ids -> {"none", "pending", "consumed", "invalidated"}]
        /\ UNCHANGED <<owner, opBound, device, bounds, holder, epoch, live>>
    BY <1>23, RestartFacts DEF Interrupts
  <2>3. up' \in BOOLEAN /\ settled' \in [Runs -> BOOLEAN] /\ cancelling' \in [Runs -> BOOLEAN]
    BY <2>1
  <2>4. status' \in [Runs -> Statuses]
    BY <2>2 DEF TypeOK, Statuses, Terminal
  <2>5. QED
    BY <2>1, <2>2, <2>3, <2>4 DEF OpStates, TypeOK, Statuses, Terminal, Ids, Bindings, run, work, calls, approvals, ops, lease, device, bounds
<1>24. QED
  BY Steps, <1>0, <1>1, <1>2, <1>3, <1>4, <1>5, <1>6, <1>7, <1>8, <1>9, <1>10, <1>11, <1>12, <1>13, <1>14, <1>15, <1>16, <1>17, <1>18, <1>19, <1>20, <1>21, <1>22, <1>23

LEMMA ApprovalStep ==
    ASSUME TypeOK, TypeOK', ApprovalOfRun, [Next]_vars
    PROVE  ApprovalOfRun'
<1>0. ASSUME UNCHANGED vars
      PROVE  ApprovalOfRun'
  BY <1>0, FlashAssumption DEF vars, TypeOK, ApprovalOfRun, Ids, Bindings, Terminal, run, work, calls, approvals, ops, lease, device, bounds
<1>1. ASSUME NEW r \in Runs, Start(r)
      PROVE  ApprovalOfRun'
  <2>0. UNCHANGED <<up, outcome, hb, calls, approvals, opBound, lease, device, bounds>> /\ task[r] = "ready"
    BY <1>1 DEF Start
  <2>1. CASE Stopped(r)
    <3>1. Settles(r) /\ Interrupts({r}) /\ task' = [task EXCEPT ![r] = "ending"]
      BY <1>1, <2>1, UnwindFacts DEF Start
    <3>2. QED
      BY <2>0, <3>1 DEF Settles, Interrupts, TypeOK, ApprovalOfRun, Ids, Bindings, Terminal, run, work, calls, approvals, ops, lease, device, bounds
  <2>2. CASE ~Stopped(r)
    <3>1. /\ op' = [op EXCEPT ![approval[r]] = "started"]
          /\ task' = [task EXCEPT ![r] = "running"]
          /\ UNCHANGED run
      BY <1>1, <2>2 DEF Start
    <3>2. approval[r] \in Ids /\ owner[approval[r]] = r
      BY <2>0 DEF TypeOK, ApprovalOfRun, Ids, Bindings, Terminal, run, work, calls, approvals, ops, lease, device, bounds
    <3>3. QED
      BY <2>0, <3>1, <3>2 DEF TypeOK, ApprovalOfRun, Ids, Bindings, Terminal, run, work, calls, approvals, ops, lease, device, bounds
  <2>3. QED
    BY <2>1, <2>2
<1>2. ASSUME NEW r \in Runs, Upload(r)
      PROVE  ApprovalOfRun'
  <2>0. UNCHANGED <<up, hb, calls, approvals, opBound, lease, bounds>> /\ task[r] = "running" /\ outcome[r] = "none"
    BY <1>2 DEF Upload, Running
  <2>1. CASE Barred(r)
    <3>1. Settles(r) /\ Interrupts({r}) /\ task' = [task EXCEPT ![r] = "ending"]
      BY <1>2, <2>1, UnwindFacts DEF Upload
    <3>2. UNCHANGED <<outcome, device>>
      BY <1>2, <2>1 DEF Upload
    <3>3. QED
      BY <2>0, <3>1, <3>2 DEF Settles, Interrupts, TypeOK, ApprovalOfRun, Ids, Bindings, Terminal, run, work, calls, approvals, ops, lease, device, bounds
  <2>2. CASE ~Barred(r)
    <3>1. /\ wrote' = [wrote EXCEPT ![approval[r]] = @ + 1]
          /\ outcome' = [outcome EXCEPT ![r] = "writing"]
          /\ UNCHANGED <<run, task, op>>
      BY <1>2, <2>2 DEF Upload
    <3>2. approval[r] \in Ids
      BY <2>0 DEF TypeOK, ApprovalOfRun, Ids, Bindings, Terminal, run, work, calls, approvals, ops, lease, device, bounds
    <3>3. QED
      BY <2>0, <3>1, <3>2 DEF TypeOK, ApprovalOfRun, Ids, Bindings, Terminal, run, work, calls, approvals, ops, lease, device, bounds
  <2>3. QED
    BY <2>1, <2>2
<1>3. ASSUME NEW r \in Runs, RefuseUpload(r)
      PROVE  ApprovalOfRun'
  BY <1>3, FlashAssumption DEF RefuseUpload, Running, Struck, TypeOK, ApprovalOfRun, Ids, Bindings, Terminal, run, work, calls, approvals, ops, lease, device, bounds
<1>4. ASSUME NEW r \in Runs, Uploaded(r)
      PROVE  ApprovalOfRun'
  BY <1>4, FlashAssumption DEF Uploaded, Running, Struck, TypeOK, ApprovalOfRun, Ids, Bindings, Terminal, run, work, calls, approvals, ops, lease, device, bounds
<1>5. ASSUME NEW r \in Runs, Finish(r)
      PROVE  ApprovalOfRun'
  <2>1. Settles(r) /\ task[r] = "running" /\ task' = [task EXCEPT ![r] = "ending"]
    BY <1>5, FinishFacts
  <2>2. PICK o \in {"completed", "unknown"} : op' = [op EXCEPT ![approval[r]] = o]
    BY <1>5, FinishFacts
  <2>3. UNCHANGED <<up, outcome, hb, calls, approvals, opBound, lease, device, bounds>>
    BY <1>5, FinishFacts
  <2>4. approval[r] \in Ids
    BY <2>1 DEF TypeOK, ApprovalOfRun, Ids, Bindings, Terminal, run, work, calls, approvals, ops, lease, device, bounds
  <2>5. QED
    BY <2>1, <2>2, <2>3, <2>4 DEF Settles, TypeOK, ApprovalOfRun, Ids, Bindings, Terminal, run, work, calls, approvals, ops, lease, device, bounds
<1>6. ASSUME NEW r \in Runs, End(r)
      PROVE  ApprovalOfRun'
  BY <1>6, FlashAssumption DEF End, Leaves, Releases, TypeOK, ApprovalOfRun, Ids, Bindings, Terminal, run, work, calls, approvals, ops, lease, device, bounds
<1>7. ASSUME NEW r \in Runs, Notice(r)
      PROVE  ApprovalOfRun'
  BY <1>7, FlashAssumption DEF Notice, Watched, TypeOK, ApprovalOfRun, Ids, Bindings, Terminal, run, work, calls, approvals, ops, lease, device, bounds
<1>8. ASSUME NEW r \in Runs, Drain(r)
      PROVE  ApprovalOfRun'
  <2>1. Interrupts({r})
    BY <1>8, InterruptOne DEF Drain
  <2>2. /\ hb' = [hb EXCEPT ![r] = "lost"]
        /\ UNCHANGED <<up, run, task, outcome, calls, approvals, opBound, lease, wrote, bounds>>
    BY <1>8 DEF Drain
  <2>3. QED
    BY <2>1, <2>2 DEF Interrupts, TypeOK, ApprovalOfRun, Ids, Bindings, Terminal, run, work, calls, approvals, ops, lease, device, bounds
<1>9. ASSUME NEW r \in Runs, Unwind(r)
      PROVE  ApprovalOfRun'
  <2>0. UNCHANGED <<up, outcome, hb, calls, approvals, opBound, lease, wrote, bounds>>
    BY <1>9 DEF Unwind
  <2>1. CASE task[r] = "running"
    <3>1. Settles(r) /\ Interrupts({r}) /\ task' = [task EXCEPT ![r] = "ending"]
      BY <1>9, <2>1, UnwindFacts DEF Unwind
    <3>2. QED
      BY <2>0, <2>1, <3>1 DEF Settles, Interrupts, TypeOK, ApprovalOfRun, Ids, Bindings, Terminal, run, work, calls, approvals, ops, lease, device, bounds
  <2>2. CASE task[r] # "running"
    <3>1. task' = [task EXCEPT ![r] = "ending"] /\ UNCHANGED <<run, op>> /\ task[r] = "ready"
      BY <1>9, <2>2 DEF Unwind
    <3>2. QED
      BY <2>0, <3>1 DEF TypeOK, ApprovalOfRun, Ids, Bindings, Terminal, run, work, calls, approvals, ops, lease, device, bounds
  <2>3. QED
    BY <2>1, <2>2
<1>10. ASSUME NEW r \in Runs, Block(r)
      PROVE  ApprovalOfRun'
  <2>1. Interrupts({r})
    BY <1>10, InterruptOne DEF Block
  <2>2. /\ task[r] = "ending" /\ task' = [task EXCEPT ![r] = "none"]
        /\ status' = [status EXCEPT ![r] = "blocked"] /\ saved' = [saved EXCEPT ![r] = "blocked"]
        /\ outcome' = [outcome EXCEPT ![r] = "none"] /\ hb' = [hb EXCEPT ![r] = "on"]
        /\ UNCHANGED <<up, approval, settled, calls, approvals, opBound, device, bounds>>
    BY <1>10 DEF Block, Leaves
  <2>3. QED
    BY <2>1, <2>2 DEF Interrupts, TypeOK, ApprovalOfRun, Ids, Bindings, Terminal, run, work, calls, approvals, ops, lease, device, bounds
<1>11. ASSUME NEW r \in Runs, Kill(r)
      PROVE  ApprovalOfRun'
  BY <1>11, FlashAssumption DEF Kill, TypeOK, ApprovalOfRun, Ids, Bindings, Terminal, run, work, calls, approvals, ops, lease, device, bounds
<1>12. ASSUME NEW r \in Runs, Cancelled(r)
      PROVE  ApprovalOfRun'
  <2>1. Interrupts({r})
    BY <1>12, InterruptOne DEF Cancelled
  <2>2. PICK now \in {"blocked", "cancelled"}, s \in {saved[r], "blocked", "cancelled"} :
            /\ status' = [status EXCEPT ![r] = now] /\ saved' = [saved EXCEPT ![r] = s]
    BY <1>12 DEF Cancelled
  <2>3. /\ task[r] = "none" \/ hb[r] = "aborted"
        /\ UNCHANGED <<up, approval, work, confirming, approvals, opBound, lease, device, bounds>>
    BY <1>12 DEF Cancelled
  <2>4. QED
    BY <2>1, <2>2, <2>3 DEF Interrupts, TypeOK, ApprovalOfRun, Ids, Bindings, Terminal, run, work, calls, approvals, ops, lease, device, bounds
<1>13. ASSUME NEW r \in Runs, NEW i \in Ids, Prepare(r, i)
      PROVE  ApprovalOfRun'
  BY <1>13, FlashAssumption DEF Prepare, Loggable, TypeOK, ApprovalOfRun, Ids, Bindings, Terminal, run, work, calls, approvals, ops, lease, device, bounds
<1>14. ASSUME NEW r \in Runs, NEW b \in Bindings, ConfirmWaits(r, b)
      PROVE  ApprovalOfRun'
  BY <1>14, FlashAssumption DEF ConfirmWaits, TypeOK, ApprovalOfRun, Ids, Bindings, Terminal, run, work, calls, approvals, ops, lease, device, bounds
<1>15. ASSUME NEW r \in Runs, ConfirmRefused(r)
      PROVE  ApprovalOfRun'
  BY <1>15, FlashAssumption DEF ConfirmRefused, Held, TypeOK, ApprovalOfRun, Ids, Bindings, Terminal, run, work, calls, approvals, ops, lease, device, bounds
<1>16. ASSUME NEW r \in Runs, NEW b \in Bindings, NEW late \in BOOLEAN, NEW breaks \in BOOLEAN, Confirm(r, b, late, breaks)
      PROVE  ApprovalOfRun'
  <2> DEFINE j == approval[r]
  <2>1. /\ status[r] = "awaiting" /\ task[r] = "none"
        /\ op' = [op EXCEPT ![j] = IF Preparable(j, b) THEN "prepared" ELSE @]
        /\ opBound' = [opBound EXCEPT ![j] = IF op[j] = "none" THEN b ELSE @]
        /\ UNCHANGED <<approval, settled, owner, device, crashes, sleeps>>
    BY <1>16, ConfirmFacts
  <2>2. (Preparable(j, b) /\ (Kept(r, b) \/ Broken(r, b))) \/ Refused
    BY <1>16, ConfirmFacts
  <2>3. j \in Ids /\ owner[j] = r /\ appr[j] # "none"
    BY <2>1 DEF TypeOK, ApprovalOfRun, Ids, Bindings, Terminal, run, work, calls, approvals, ops, lease, device, bounds
  <2>4. CASE Preparable(j, b) /\ Kept(r, b)
    BY <2>1, <2>3, <2>4 DEF Kept, Preparable, TypeOK, ApprovalOfRun, Ids, Bindings, Terminal, run, work, calls, approvals, ops, lease, device, bounds
  <2>5. CASE Preparable(j, b) /\ Broken(r, b)
    BY <2>1, <2>3, <2>5 DEF Broken, Preparable, TypeOK, ApprovalOfRun, Ids, Bindings, Terminal, run, work, calls, approvals, ops, lease, device, bounds
  <2>6. CASE Refused
    BY <2>1, <2>3, <2>6 DEF Refused, Preparable, TypeOK, ApprovalOfRun, Ids, Bindings, Terminal, run, work, calls, approvals, ops, lease, device, bounds
  <2>7. QED
    BY <2>2, <2>4, <2>5, <2>6
<1>17. ASSUME NEW r \in Runs, Cancel(r)
      PROVE  ApprovalOfRun'
  BY <1>17, FlashAssumption DEF Cancel, Loggable, TypeOK, ApprovalOfRun, Ids, Bindings, Terminal, run, work, calls, approvals, ops, lease, device, bounds
<1>18. ASSUME NEW r \in Runs, Abort(r)
      PROVE  ApprovalOfRun'
  BY <1>18, FlashAssumption DEF Abort, Struck, TypeOK, ApprovalOfRun, Ids, Bindings, Terminal, run, work, calls, approvals, ops, lease, device, bounds
<1>19. ASSUME NEW r \in Runs, Lapse(r)
      PROVE  ApprovalOfRun'
  BY <1>19, FlashAssumption DEF Lapse, TypeOK, ApprovalOfRun, Ids, Bindings, Terminal, run, work, calls, approvals, ops, lease, device, bounds
<1>20. ASSUME NEW i \in Ids, OrphanEnds(i)
      PROVE  ApprovalOfRun'
  BY <1>20, FlashAssumption DEF OrphanEnds, TypeOK, ApprovalOfRun, Ids, Bindings, Terminal, run, work, calls, approvals, ops, lease, device, bounds
<1>21. ASSUME ExpireLease
      PROVE  ApprovalOfRun'
  BY <1>21, FlashAssumption DEF ExpireLease, Beating, TypeOK, ApprovalOfRun, Ids, Bindings, Terminal, run, work, calls, approvals, ops, lease, device, bounds
<1>22. ASSUME Crash
      PROVE  ApprovalOfRun'
  BY <1>22, FlashAssumption DEF Crash, TypeOK, ApprovalOfRun, Ids, Bindings, Terminal, run, work, calls, approvals, ops, lease, device, bounds
<1>23. ASSUME Restart
      PROVE  ApprovalOfRun'
  <2>1. /\ status' = [r \in Runs |-> IF saved[r] \notin Terminal THEN "failed" ELSE saved[r]] /\ saved' = status'
        /\ approval' = [r \in Runs |-> None] /\ task' = [r \in Runs |-> "none"]
    BY <1>23, RestartFacts
  <2>2. /\ Interrupts({r \in Runs : saved[r] \notin Terminal})
        /\ \A i \in Ids : appr'[i] = appr[i] \/ (appr[i] = "pending" /\ appr'[i] = "invalidated")
        /\ UNCHANGED <<owner, opBound, device, bounds, holder, epoch, live>>
    BY <1>23, RestartFacts
  <2>3. QED
    BY <2>1, <2>2 DEF Interrupts, TypeOK, ApprovalOfRun, Ids, Bindings, Terminal, run, work, calls, approvals, ops, lease, device, bounds
<1>24. QED
  BY Steps, <1>0, <1>1, <1>2, <1>3, <1>4, <1>5, <1>6, <1>7, <1>8, <1>9, <1>10, <1>11, <1>12, <1>13, <1>14, <1>15, <1>16, <1>17, <1>18, <1>19, <1>20, <1>21, <1>22, <1>23

LEMMA ConsumedStep ==
    ASSUME TypeOK, TypeOK', ApprovalOfRun, ConsumedIsBound, [Next]_vars
    PROVE  ConsumedIsBound'
<1>0. ASSUME UNCHANGED vars
      PROVE  ConsumedIsBound'
  BY <1>0, FlashAssumption DEF vars, TypeOK, ApprovalOfRun, ConsumedIsBound, Ids, Bindings, run, work, calls, approvals, ops, lease, device, bounds
<1>1. ASSUME NEW r \in Runs, Start(r)
      PROVE  ConsumedIsBound'
  <2>0. UNCHANGED <<up, outcome, hb, calls, approvals, opBound, lease, device, bounds>> /\ task[r] = "ready"
    BY <1>1 DEF Start
  <2>1. CASE Stopped(r)
    <3>1. Settles(r) /\ Interrupts({r}) /\ task' = [task EXCEPT ![r] = "ending"]
      BY <1>1, <2>1, UnwindFacts DEF Start
    <3>2. QED
      BY <2>0, <3>1 DEF Settles, Interrupts, TypeOK, ApprovalOfRun, ConsumedIsBound, Ids, Bindings, run, work, calls, approvals, ops, lease, device, bounds
  <2>2. CASE ~Stopped(r)
    <3>1. /\ op' = [op EXCEPT ![approval[r]] = "started"]
          /\ task' = [task EXCEPT ![r] = "running"]
          /\ UNCHANGED run
      BY <1>1, <2>2 DEF Start
    <3>2. approval[r] \in Ids /\ owner[approval[r]] = r
      BY <2>0 DEF TypeOK, ApprovalOfRun, ConsumedIsBound, Ids, Bindings, run, work, calls, approvals, ops, lease, device, bounds
    <3>3. QED
      BY <2>0, <3>1, <3>2 DEF TypeOK, ApprovalOfRun, ConsumedIsBound, Ids, Bindings, run, work, calls, approvals, ops, lease, device, bounds
  <2>3. QED
    BY <2>1, <2>2
<1>2. ASSUME NEW r \in Runs, Upload(r)
      PROVE  ConsumedIsBound'
  <2>0. UNCHANGED <<up, hb, calls, approvals, opBound, lease, bounds>> /\ task[r] = "running" /\ outcome[r] = "none"
    BY <1>2 DEF Upload, Running
  <2>1. CASE Barred(r)
    <3>1. Settles(r) /\ Interrupts({r}) /\ task' = [task EXCEPT ![r] = "ending"]
      BY <1>2, <2>1, UnwindFacts DEF Upload
    <3>2. UNCHANGED <<outcome, device>>
      BY <1>2, <2>1 DEF Upload
    <3>3. QED
      BY <2>0, <3>1, <3>2 DEF Settles, Interrupts, TypeOK, ApprovalOfRun, ConsumedIsBound, Ids, Bindings, run, work, calls, approvals, ops, lease, device, bounds
  <2>2. CASE ~Barred(r)
    <3>1. /\ wrote' = [wrote EXCEPT ![approval[r]] = @ + 1]
          /\ outcome' = [outcome EXCEPT ![r] = "writing"]
          /\ UNCHANGED <<run, task, op>>
      BY <1>2, <2>2 DEF Upload
    <3>2. approval[r] \in Ids
      BY <2>0 DEF TypeOK, ApprovalOfRun, ConsumedIsBound, Ids, Bindings, run, work, calls, approvals, ops, lease, device, bounds
    <3>3. QED
      BY <2>0, <3>1, <3>2 DEF TypeOK, ApprovalOfRun, ConsumedIsBound, Ids, Bindings, run, work, calls, approvals, ops, lease, device, bounds
  <2>3. QED
    BY <2>1, <2>2
<1>3. ASSUME NEW r \in Runs, RefuseUpload(r)
      PROVE  ConsumedIsBound'
  BY <1>3, FlashAssumption DEF RefuseUpload, Running, Struck, TypeOK, ApprovalOfRun, ConsumedIsBound, Ids, Bindings, run, work, calls, approvals, ops, lease, device, bounds
<1>4. ASSUME NEW r \in Runs, Uploaded(r)
      PROVE  ConsumedIsBound'
  BY <1>4, FlashAssumption DEF Uploaded, Running, Struck, TypeOK, ApprovalOfRun, ConsumedIsBound, Ids, Bindings, run, work, calls, approvals, ops, lease, device, bounds
<1>5. ASSUME NEW r \in Runs, Finish(r)
      PROVE  ConsumedIsBound'
  <2>1. Settles(r) /\ task[r] = "running" /\ task' = [task EXCEPT ![r] = "ending"]
    BY <1>5, FinishFacts
  <2>2. PICK o \in {"completed", "unknown"} : op' = [op EXCEPT ![approval[r]] = o]
    BY <1>5, FinishFacts
  <2>3. UNCHANGED <<up, outcome, hb, calls, approvals, opBound, lease, device, bounds>>
    BY <1>5, FinishFacts
  <2>4. approval[r] \in Ids
    BY <2>1 DEF TypeOK, ApprovalOfRun, ConsumedIsBound, Ids, Bindings, run, work, calls, approvals, ops, lease, device, bounds
  <2>5. QED
    BY <2>1, <2>2, <2>3, <2>4 DEF Settles, TypeOK, ApprovalOfRun, ConsumedIsBound, Ids, Bindings, run, work, calls, approvals, ops, lease, device, bounds
<1>6. ASSUME NEW r \in Runs, End(r)
      PROVE  ConsumedIsBound'
  BY <1>6, FlashAssumption DEF End, Leaves, Releases, TypeOK, ApprovalOfRun, ConsumedIsBound, Ids, Bindings, run, work, calls, approvals, ops, lease, device, bounds
<1>7. ASSUME NEW r \in Runs, Notice(r)
      PROVE  ConsumedIsBound'
  BY <1>7, FlashAssumption DEF Notice, Watched, TypeOK, ApprovalOfRun, ConsumedIsBound, Ids, Bindings, run, work, calls, approvals, ops, lease, device, bounds
<1>8. ASSUME NEW r \in Runs, Drain(r)
      PROVE  ConsumedIsBound'
  <2>1. Interrupts({r})
    BY <1>8, InterruptOne DEF Drain
  <2>2. /\ hb' = [hb EXCEPT ![r] = "lost"]
        /\ UNCHANGED <<up, run, task, outcome, calls, approvals, opBound, lease, wrote, bounds>>
    BY <1>8 DEF Drain
  <2>3. QED
    BY <2>1, <2>2 DEF Interrupts, TypeOK, ApprovalOfRun, ConsumedIsBound, Ids, Bindings, run, work, calls, approvals, ops, lease, device, bounds
<1>9. ASSUME NEW r \in Runs, Unwind(r)
      PROVE  ConsumedIsBound'
  <2>0. UNCHANGED <<up, outcome, hb, calls, approvals, opBound, lease, wrote, bounds>>
    BY <1>9 DEF Unwind
  <2>1. CASE task[r] = "running"
    <3>1. Settles(r) /\ Interrupts({r}) /\ task' = [task EXCEPT ![r] = "ending"]
      BY <1>9, <2>1, UnwindFacts DEF Unwind
    <3>2. QED
      BY <2>0, <2>1, <3>1 DEF Settles, Interrupts, TypeOK, ApprovalOfRun, ConsumedIsBound, Ids, Bindings, run, work, calls, approvals, ops, lease, device, bounds
  <2>2. CASE task[r] # "running"
    <3>1. task' = [task EXCEPT ![r] = "ending"] /\ UNCHANGED <<run, op>> /\ task[r] = "ready"
      BY <1>9, <2>2 DEF Unwind
    <3>2. QED
      BY <2>0, <3>1 DEF TypeOK, ApprovalOfRun, ConsumedIsBound, Ids, Bindings, run, work, calls, approvals, ops, lease, device, bounds
  <2>3. QED
    BY <2>1, <2>2
<1>10. ASSUME NEW r \in Runs, Block(r)
      PROVE  ConsumedIsBound'
  <2>1. Interrupts({r})
    BY <1>10, InterruptOne DEF Block
  <2>2. /\ task[r] = "ending" /\ task' = [task EXCEPT ![r] = "none"]
        /\ status' = [status EXCEPT ![r] = "blocked"] /\ saved' = [saved EXCEPT ![r] = "blocked"]
        /\ outcome' = [outcome EXCEPT ![r] = "none"] /\ hb' = [hb EXCEPT ![r] = "on"]
        /\ UNCHANGED <<up, approval, settled, calls, approvals, opBound, device, bounds>>
    BY <1>10 DEF Block, Leaves
  <2>3. QED
    BY <2>1, <2>2 DEF Interrupts, TypeOK, ApprovalOfRun, ConsumedIsBound, Ids, Bindings, run, work, calls, approvals, ops, lease, device, bounds
<1>11. ASSUME NEW r \in Runs, Kill(r)
      PROVE  ConsumedIsBound'
  BY <1>11, FlashAssumption DEF Kill, TypeOK, ApprovalOfRun, ConsumedIsBound, Ids, Bindings, run, work, calls, approvals, ops, lease, device, bounds
<1>12. ASSUME NEW r \in Runs, Cancelled(r)
      PROVE  ConsumedIsBound'
  <2>1. Interrupts({r})
    BY <1>12, InterruptOne DEF Cancelled
  <2>2. PICK now \in {"blocked", "cancelled"}, s \in {saved[r], "blocked", "cancelled"} :
            /\ status' = [status EXCEPT ![r] = now] /\ saved' = [saved EXCEPT ![r] = s]
    BY <1>12 DEF Cancelled
  <2>3. /\ task[r] = "none" \/ hb[r] = "aborted"
        /\ UNCHANGED <<up, approval, work, confirming, approvals, opBound, lease, device, bounds>>
    BY <1>12 DEF Cancelled
  <2>4. QED
    BY <2>1, <2>2, <2>3 DEF Interrupts, TypeOK, ApprovalOfRun, ConsumedIsBound, Ids, Bindings, run, work, calls, approvals, ops, lease, device, bounds
<1>13. ASSUME NEW r \in Runs, NEW i \in Ids, Prepare(r, i)
      PROVE  ConsumedIsBound'
  BY <1>13, FlashAssumption DEF Prepare, Loggable, TypeOK, ApprovalOfRun, ConsumedIsBound, Ids, Bindings, run, work, calls, approvals, ops, lease, device, bounds
<1>14. ASSUME NEW r \in Runs, NEW b \in Bindings, ConfirmWaits(r, b)
      PROVE  ConsumedIsBound'
  BY <1>14, FlashAssumption DEF ConfirmWaits, TypeOK, ApprovalOfRun, ConsumedIsBound, Ids, Bindings, run, work, calls, approvals, ops, lease, device, bounds
<1>15. ASSUME NEW r \in Runs, ConfirmRefused(r)
      PROVE  ConsumedIsBound'
  BY <1>15, FlashAssumption DEF ConfirmRefused, Held, TypeOK, ApprovalOfRun, ConsumedIsBound, Ids, Bindings, run, work, calls, approvals, ops, lease, device, bounds
<1>16. ASSUME NEW r \in Runs, NEW b \in Bindings, NEW late \in BOOLEAN, NEW breaks \in BOOLEAN, Confirm(r, b, late, breaks)
      PROVE  ConsumedIsBound'
  <2> DEFINE j == approval[r]
  <2>1. /\ status[r] = "awaiting" /\ task[r] = "none"
        /\ op' = [op EXCEPT ![j] = IF Preparable(j, b) THEN "prepared" ELSE @]
        /\ opBound' = [opBound EXCEPT ![j] = IF op[j] = "none" THEN b ELSE @]
        /\ UNCHANGED <<approval, settled, owner, device, crashes, sleeps>>
    BY <1>16, ConfirmFacts
  <2>2. (Preparable(j, b) /\ (Kept(r, b) \/ Broken(r, b))) \/ Refused
    BY <1>16, ConfirmFacts
  <2>3. j \in Ids /\ owner[j] = r /\ appr[j] # "none"
    BY <2>1 DEF TypeOK, ApprovalOfRun, ConsumedIsBound, Ids, Bindings, run, work, calls, approvals, ops, lease, device, bounds
  <2>4. CASE Preparable(j, b) /\ Kept(r, b)
    BY <2>1, <2>3, <2>4 DEF Kept, Preparable, TypeOK, ApprovalOfRun, ConsumedIsBound, Ids, Bindings, run, work, calls, approvals, ops, lease, device, bounds
  <2>5. CASE Preparable(j, b) /\ Broken(r, b)
    BY <2>1, <2>3, <2>5 DEF Broken, Preparable, TypeOK, ApprovalOfRun, ConsumedIsBound, Ids, Bindings, run, work, calls, approvals, ops, lease, device, bounds
  <2>6. CASE Refused
    BY <2>1, <2>3, <2>6 DEF Refused, Preparable, TypeOK, ApprovalOfRun, ConsumedIsBound, Ids, Bindings, run, work, calls, approvals, ops, lease, device, bounds
  <2>7. QED
    BY <2>2, <2>4, <2>5, <2>6
<1>17. ASSUME NEW r \in Runs, Cancel(r)
      PROVE  ConsumedIsBound'
  BY <1>17, FlashAssumption DEF Cancel, Loggable, TypeOK, ApprovalOfRun, ConsumedIsBound, Ids, Bindings, run, work, calls, approvals, ops, lease, device, bounds
<1>18. ASSUME NEW r \in Runs, Abort(r)
      PROVE  ConsumedIsBound'
  BY <1>18, FlashAssumption DEF Abort, Struck, TypeOK, ApprovalOfRun, ConsumedIsBound, Ids, Bindings, run, work, calls, approvals, ops, lease, device, bounds
<1>19. ASSUME NEW r \in Runs, Lapse(r)
      PROVE  ConsumedIsBound'
  BY <1>19, FlashAssumption DEF Lapse, TypeOK, ApprovalOfRun, ConsumedIsBound, Ids, Bindings, run, work, calls, approvals, ops, lease, device, bounds
<1>20. ASSUME NEW i \in Ids, OrphanEnds(i)
      PROVE  ConsumedIsBound'
  BY <1>20, FlashAssumption DEF OrphanEnds, TypeOK, ApprovalOfRun, ConsumedIsBound, Ids, Bindings, run, work, calls, approvals, ops, lease, device, bounds
<1>21. ASSUME ExpireLease
      PROVE  ConsumedIsBound'
  BY <1>21, FlashAssumption DEF ExpireLease, Beating, TypeOK, ApprovalOfRun, ConsumedIsBound, Ids, Bindings, run, work, calls, approvals, ops, lease, device, bounds
<1>22. ASSUME Crash
      PROVE  ConsumedIsBound'
  BY <1>22, FlashAssumption DEF Crash, TypeOK, ApprovalOfRun, ConsumedIsBound, Ids, Bindings, run, work, calls, approvals, ops, lease, device, bounds
<1>23. ASSUME Restart
      PROVE  ConsumedIsBound'
  <2>1. /\ status' = [r \in Runs |-> IF saved[r] \notin Terminal THEN "failed" ELSE saved[r]] /\ saved' = status'
        /\ approval' = [r \in Runs |-> None] /\ task' = [r \in Runs |-> "none"]
    BY <1>23, RestartFacts
  <2>2. /\ Interrupts({r \in Runs : saved[r] \notin Terminal})
        /\ \A i \in Ids : appr'[i] = appr[i] \/ (appr[i] = "pending" /\ appr'[i] = "invalidated")
        /\ UNCHANGED <<owner, opBound, device, bounds, holder, epoch, live>>
    BY <1>23, RestartFacts
  <2>3. QED
    BY <2>1, <2>2 DEF Interrupts, TypeOK, ApprovalOfRun, ConsumedIsBound, Ids, Bindings, run, work, calls, approvals, ops, lease, device, bounds
<1>24. QED
  BY Steps, <1>0, <1>1, <1>2, <1>3, <1>4, <1>5, <1>6, <1>7, <1>8, <1>9, <1>10, <1>11, <1>12, <1>13, <1>14, <1>15, <1>16, <1>17, <1>18, <1>19, <1>20, <1>21, <1>22, <1>23

LEMMA WorkStep ==
    ASSUME IInv, TypeOK', [Next]_vars
    PROVE  WorkOfTask'
<1>t. TypeOK
  BY DEF IInv
<1>0. ASSUME UNCHANGED vars
      PROVE  WorkOfTask'
  BY <1>0, FlashAssumption DEF vars, IInv, TypeOK, ApprovalOfRun, ConsumedIsBound, WorkOfTask, StartedIsRunning, WriteOfApproval, Ids, Bindings, Terminal, run, work, calls, approvals, ops, lease, device, bounds
<1>1. ASSUME NEW r \in Runs, Start(r)
      PROVE  WorkOfTask'
  <2>0. UNCHANGED <<up, outcome, hb, calls, approvals, opBound, lease, device, bounds>> /\ task[r] = "ready"
    BY <1>1 DEF Start
  <2>1. CASE Stopped(r)
    <3>1. Settles(r) /\ Interrupts({r}) /\ task' = [task EXCEPT ![r] = "ending"]
      BY <1>1, <2>1, UnwindFacts, <1>t DEF Start
    <3>2. QED
      BY <2>0, <3>1 DEF Settles, Interrupts, IInv, TypeOK, ApprovalOfRun, ConsumedIsBound, WorkOfTask, StartedIsRunning, WriteOfApproval, Ids, Bindings, Terminal, run, work, calls, approvals, ops, lease, device, bounds
  <2>2. CASE ~Stopped(r)
    <3>1. /\ op' = [op EXCEPT ![approval[r]] = "started"]
          /\ task' = [task EXCEPT ![r] = "running"]
          /\ UNCHANGED run
      BY <1>1, <2>2 DEF Start
    <3>2. approval[r] \in Ids /\ owner[approval[r]] = r
      BY <2>0 DEF IInv, TypeOK, ApprovalOfRun, ConsumedIsBound, WorkOfTask, StartedIsRunning, WriteOfApproval, Ids, Bindings, Terminal, run, work, calls, approvals, ops, lease, device, bounds
    <3>3. QED
      BY <2>0, <3>1, <3>2 DEF IInv, TypeOK, ApprovalOfRun, ConsumedIsBound, WorkOfTask, StartedIsRunning, WriteOfApproval, Ids, Bindings, Terminal, run, work, calls, approvals, ops, lease, device, bounds
  <2>3. QED
    BY <2>1, <2>2
<1>2. ASSUME NEW r \in Runs, Upload(r)
      PROVE  WorkOfTask'
  <2>0. UNCHANGED <<up, hb, calls, approvals, opBound, lease, bounds>> /\ task[r] = "running" /\ outcome[r] = "none"
    BY <1>2 DEF Upload, Running
  <2>1. CASE Barred(r)
    <3>1. Settles(r) /\ Interrupts({r}) /\ task' = [task EXCEPT ![r] = "ending"]
      BY <1>2, <2>1, UnwindFacts, <1>t DEF Upload
    <3>2. UNCHANGED <<outcome, device>>
      BY <1>2, <2>1 DEF Upload
    <3>3. QED
      BY <2>0, <3>1, <3>2 DEF Settles, Interrupts, IInv, TypeOK, ApprovalOfRun, ConsumedIsBound, WorkOfTask, StartedIsRunning, WriteOfApproval, Ids, Bindings, Terminal, run, work, calls, approvals, ops, lease, device, bounds
  <2>2. CASE ~Barred(r)
    <3>1. /\ wrote' = [wrote EXCEPT ![approval[r]] = @ + 1]
          /\ outcome' = [outcome EXCEPT ![r] = "writing"]
          /\ UNCHANGED <<run, task, op>>
      BY <1>2, <2>2 DEF Upload
    <3>2. approval[r] \in Ids
      BY <2>0 DEF IInv, TypeOK, ApprovalOfRun, ConsumedIsBound, WorkOfTask, StartedIsRunning, WriteOfApproval, Ids, Bindings, Terminal, run, work, calls, approvals, ops, lease, device, bounds
    <3>3. QED
      BY <2>0, <3>1, <3>2 DEF IInv, TypeOK, ApprovalOfRun, ConsumedIsBound, WorkOfTask, StartedIsRunning, WriteOfApproval, Ids, Bindings, Terminal, run, work, calls, approvals, ops, lease, device, bounds
  <2>3. QED
    BY <2>1, <2>2
<1>3. ASSUME NEW r \in Runs, RefuseUpload(r)
      PROVE  WorkOfTask'
  BY <1>3, FlashAssumption DEF RefuseUpload, Running, Struck, IInv, TypeOK, ApprovalOfRun, ConsumedIsBound, WorkOfTask, StartedIsRunning, WriteOfApproval, Ids, Bindings, Terminal, run, work, calls, approvals, ops, lease, device, bounds
<1>4. ASSUME NEW r \in Runs, Uploaded(r)
      PROVE  WorkOfTask'
  BY <1>4, FlashAssumption DEF Uploaded, Running, Struck, IInv, TypeOK, ApprovalOfRun, ConsumedIsBound, WorkOfTask, StartedIsRunning, WriteOfApproval, Ids, Bindings, Terminal, run, work, calls, approvals, ops, lease, device, bounds
<1>5. ASSUME NEW r \in Runs, Finish(r)
      PROVE  WorkOfTask'
  <2>1. Settles(r) /\ task[r] = "running" /\ task' = [task EXCEPT ![r] = "ending"]
    BY <1>5, FinishFacts, <1>t
  <2>2. PICK o \in {"completed", "unknown"} : op' = [op EXCEPT ![approval[r]] = o]
    BY <1>5, FinishFacts, <1>t
  <2>3. UNCHANGED <<up, outcome, hb, calls, approvals, opBound, lease, device, bounds>>
    BY <1>5, FinishFacts, <1>t
  <2>4. approval[r] \in Ids
    BY <2>1 DEF IInv, TypeOK, ApprovalOfRun, ConsumedIsBound, WorkOfTask, StartedIsRunning, WriteOfApproval, Ids, Bindings, Terminal, run, work, calls, approvals, ops, lease, device, bounds
  <2>5. QED
    BY <2>1, <2>2, <2>3, <2>4 DEF Settles, IInv, TypeOK, ApprovalOfRun, ConsumedIsBound, WorkOfTask, StartedIsRunning, WriteOfApproval, Ids, Bindings, Terminal, run, work, calls, approvals, ops, lease, device, bounds
<1>6. ASSUME NEW r \in Runs, End(r)
      PROVE  WorkOfTask'
  BY <1>6, FlashAssumption DEF End, Leaves, Releases, IInv, TypeOK, ApprovalOfRun, ConsumedIsBound, WorkOfTask, StartedIsRunning, WriteOfApproval, Ids, Bindings, Terminal, run, work, calls, approvals, ops, lease, device, bounds
<1>7. ASSUME NEW r \in Runs, Notice(r)
      PROVE  WorkOfTask'
  BY <1>7, FlashAssumption DEF Notice, Watched, IInv, TypeOK, ApprovalOfRun, ConsumedIsBound, WorkOfTask, StartedIsRunning, WriteOfApproval, Ids, Bindings, Terminal, run, work, calls, approvals, ops, lease, device, bounds
<1>8. ASSUME NEW r \in Runs, Drain(r)
      PROVE  WorkOfTask'
  <2>1. Interrupts({r})
    BY <1>8, InterruptOne, <1>t DEF Drain
  <2>2. /\ hb' = [hb EXCEPT ![r] = "lost"]
        /\ UNCHANGED <<up, run, task, outcome, calls, approvals, opBound, lease, wrote, bounds>>
    BY <1>8 DEF Drain
  <2>3. QED
    BY <2>1, <2>2 DEF Interrupts, IInv, TypeOK, ApprovalOfRun, ConsumedIsBound, WorkOfTask, StartedIsRunning, WriteOfApproval, Ids, Bindings, Terminal, run, work, calls, approvals, ops, lease, device, bounds
<1>9. ASSUME NEW r \in Runs, Unwind(r)
      PROVE  WorkOfTask'
  <2>0. UNCHANGED <<up, outcome, hb, calls, approvals, opBound, lease, wrote, bounds>>
    BY <1>9 DEF Unwind
  <2>1. CASE task[r] = "running"
    <3>1. Settles(r) /\ Interrupts({r}) /\ task' = [task EXCEPT ![r] = "ending"]
      BY <1>9, <2>1, UnwindFacts, <1>t DEF Unwind
    <3>2. QED
      BY <2>0, <2>1, <3>1 DEF Settles, Interrupts, IInv, TypeOK, ApprovalOfRun, ConsumedIsBound, WorkOfTask, StartedIsRunning, WriteOfApproval, Ids, Bindings, Terminal, run, work, calls, approvals, ops, lease, device, bounds
  <2>2. CASE task[r] # "running"
    <3>1. task' = [task EXCEPT ![r] = "ending"] /\ UNCHANGED <<run, op>> /\ task[r] = "ready"
      BY <1>9, <2>2 DEF Unwind
    <3>2. QED
      BY <2>0, <3>1 DEF IInv, TypeOK, ApprovalOfRun, ConsumedIsBound, WorkOfTask, StartedIsRunning, WriteOfApproval, Ids, Bindings, Terminal, run, work, calls, approvals, ops, lease, device, bounds
  <2>3. QED
    BY <2>1, <2>2
<1>10. ASSUME NEW r \in Runs, Block(r)
      PROVE  WorkOfTask'
  <2>1. Interrupts({r})
    BY <1>10, InterruptOne, <1>t DEF Block
  <2>2. /\ task[r] = "ending" /\ task' = [task EXCEPT ![r] = "none"]
        /\ status' = [status EXCEPT ![r] = "blocked"] /\ saved' = [saved EXCEPT ![r] = "blocked"]
        /\ outcome' = [outcome EXCEPT ![r] = "none"] /\ hb' = [hb EXCEPT ![r] = "on"]
        /\ UNCHANGED <<up, approval, settled, calls, approvals, opBound, device, bounds>>
    BY <1>10 DEF Block, Leaves
  <2>3. QED
    BY <2>1, <2>2 DEF Interrupts, IInv, TypeOK, ApprovalOfRun, ConsumedIsBound, WorkOfTask, StartedIsRunning, WriteOfApproval, Ids, Bindings, Terminal, run, work, calls, approvals, ops, lease, device, bounds
<1>11. ASSUME NEW r \in Runs, Kill(r)
      PROVE  WorkOfTask'
  BY <1>11, FlashAssumption DEF Kill, IInv, TypeOK, ApprovalOfRun, ConsumedIsBound, WorkOfTask, StartedIsRunning, WriteOfApproval, Ids, Bindings, Terminal, run, work, calls, approvals, ops, lease, device, bounds
<1>12. ASSUME NEW r \in Runs, Cancelled(r)
      PROVE  WorkOfTask'
  <2>1. Interrupts({r})
    BY <1>12, InterruptOne, <1>t DEF Cancelled
  <2>2. PICK now \in {"blocked", "cancelled"}, s \in {saved[r], "blocked", "cancelled"} :
            /\ status' = [status EXCEPT ![r] = now] /\ saved' = [saved EXCEPT ![r] = s]
    BY <1>12 DEF Cancelled
  <2>3. /\ task[r] = "none" \/ hb[r] = "aborted"
        /\ UNCHANGED <<up, approval, work, confirming, approvals, opBound, lease, device, bounds>>
    BY <1>12 DEF Cancelled
  <2>4. QED
    BY <2>1, <2>2, <2>3 DEF Interrupts, IInv, TypeOK, ApprovalOfRun, ConsumedIsBound, WorkOfTask, StartedIsRunning, WriteOfApproval, Ids, Bindings, Terminal, run, work, calls, approvals, ops, lease, device, bounds
<1>13. ASSUME NEW r \in Runs, NEW i \in Ids, Prepare(r, i)
      PROVE  WorkOfTask'
  BY <1>13, FlashAssumption DEF Prepare, Loggable, IInv, TypeOK, ApprovalOfRun, ConsumedIsBound, WorkOfTask, StartedIsRunning, WriteOfApproval, Ids, Bindings, Terminal, run, work, calls, approvals, ops, lease, device, bounds
<1>14. ASSUME NEW r \in Runs, NEW b \in Bindings, ConfirmWaits(r, b)
      PROVE  WorkOfTask'
  BY <1>14, FlashAssumption DEF ConfirmWaits, IInv, TypeOK, ApprovalOfRun, ConsumedIsBound, WorkOfTask, StartedIsRunning, WriteOfApproval, Ids, Bindings, Terminal, run, work, calls, approvals, ops, lease, device, bounds
<1>15. ASSUME NEW r \in Runs, ConfirmRefused(r)
      PROVE  WorkOfTask'
  BY <1>15, FlashAssumption DEF ConfirmRefused, Held, IInv, TypeOK, ApprovalOfRun, ConsumedIsBound, WorkOfTask, StartedIsRunning, WriteOfApproval, Ids, Bindings, Terminal, run, work, calls, approvals, ops, lease, device, bounds
<1>16. ASSUME NEW r \in Runs, NEW b \in Bindings, NEW late \in BOOLEAN, NEW breaks \in BOOLEAN, Confirm(r, b, late, breaks)
      PROVE  WorkOfTask'
  <2> DEFINE j == approval[r]
  <2>1. /\ status[r] = "awaiting" /\ task[r] = "none"
        /\ op' = [op EXCEPT ![j] = IF Preparable(j, b) THEN "prepared" ELSE @]
        /\ opBound' = [opBound EXCEPT ![j] = IF op[j] = "none" THEN b ELSE @]
        /\ UNCHANGED <<approval, settled, owner, device, crashes, sleeps>>
    BY <1>16, ConfirmFacts, <1>t
  <2>2. (Preparable(j, b) /\ (Kept(r, b) \/ Broken(r, b))) \/ Refused
    BY <1>16, ConfirmFacts, <1>t
  <2>3. j \in Ids /\ owner[j] = r /\ appr[j] # "none"
    BY <2>1 DEF IInv, TypeOK, ApprovalOfRun, ConsumedIsBound, WorkOfTask, StartedIsRunning, WriteOfApproval, Ids, Bindings, Terminal, run, work, calls, approvals, ops, lease, device, bounds
  <2>4. CASE Preparable(j, b) /\ Kept(r, b)
    BY <2>1, <2>3, <2>4 DEF Kept, Preparable, IInv, TypeOK, ApprovalOfRun, ConsumedIsBound, WorkOfTask, StartedIsRunning, WriteOfApproval, Ids, Bindings, Terminal, run, work, calls, approvals, ops, lease, device, bounds
  <2>5. CASE Preparable(j, b) /\ Broken(r, b)
    BY <2>1, <2>3, <2>5 DEF Broken, Preparable, IInv, TypeOK, ApprovalOfRun, ConsumedIsBound, WorkOfTask, StartedIsRunning, WriteOfApproval, Ids, Bindings, Terminal, run, work, calls, approvals, ops, lease, device, bounds
  <2>6. CASE Refused
    BY <2>1, <2>3, <2>6 DEF Refused, Preparable, IInv, TypeOK, ApprovalOfRun, ConsumedIsBound, WorkOfTask, StartedIsRunning, WriteOfApproval, Ids, Bindings, Terminal, run, work, calls, approvals, ops, lease, device, bounds
  <2>7. QED
    BY <2>2, <2>4, <2>5, <2>6
<1>17. ASSUME NEW r \in Runs, Cancel(r)
      PROVE  WorkOfTask'
  BY <1>17, FlashAssumption DEF Cancel, Loggable, IInv, TypeOK, ApprovalOfRun, ConsumedIsBound, WorkOfTask, StartedIsRunning, WriteOfApproval, Ids, Bindings, Terminal, run, work, calls, approvals, ops, lease, device, bounds
<1>18. ASSUME NEW r \in Runs, Abort(r)
      PROVE  WorkOfTask'
  BY <1>18, FlashAssumption DEF Abort, Struck, IInv, TypeOK, ApprovalOfRun, ConsumedIsBound, WorkOfTask, StartedIsRunning, WriteOfApproval, Ids, Bindings, Terminal, run, work, calls, approvals, ops, lease, device, bounds
<1>19. ASSUME NEW r \in Runs, Lapse(r)
      PROVE  WorkOfTask'
  BY <1>19, FlashAssumption DEF Lapse, IInv, TypeOK, ApprovalOfRun, ConsumedIsBound, WorkOfTask, StartedIsRunning, WriteOfApproval, Ids, Bindings, Terminal, run, work, calls, approvals, ops, lease, device, bounds
<1>20. ASSUME NEW i \in Ids, OrphanEnds(i)
      PROVE  WorkOfTask'
  BY <1>20, FlashAssumption DEF OrphanEnds, IInv, TypeOK, ApprovalOfRun, ConsumedIsBound, WorkOfTask, StartedIsRunning, WriteOfApproval, Ids, Bindings, Terminal, run, work, calls, approvals, ops, lease, device, bounds
<1>21. ASSUME ExpireLease
      PROVE  WorkOfTask'
  BY <1>21, FlashAssumption DEF ExpireLease, Beating, IInv, TypeOK, ApprovalOfRun, ConsumedIsBound, WorkOfTask, StartedIsRunning, WriteOfApproval, Ids, Bindings, Terminal, run, work, calls, approvals, ops, lease, device, bounds
<1>22. ASSUME Crash
      PROVE  WorkOfTask'
  BY <1>22, FlashAssumption DEF Crash, IInv, TypeOK, ApprovalOfRun, ConsumedIsBound, WorkOfTask, StartedIsRunning, WriteOfApproval, Ids, Bindings, Terminal, run, work, calls, approvals, ops, lease, device, bounds
<1>23. ASSUME Restart
      PROVE  WorkOfTask'
  <2>1. /\ status' = [r \in Runs |-> IF saved[r] \notin Terminal THEN "failed" ELSE saved[r]] /\ saved' = status'
        /\ approval' = [r \in Runs |-> None] /\ task' = [r \in Runs |-> "none"]
    BY <1>23, RestartFacts, <1>t
  <2>2. /\ Interrupts({r \in Runs : saved[r] \notin Terminal})
        /\ \A i \in Ids : appr'[i] = appr[i] \/ (appr[i] = "pending" /\ appr'[i] = "invalidated")
        /\ UNCHANGED <<owner, opBound, device, bounds, holder, epoch, live>>
    BY <1>23, RestartFacts, <1>t
  <2>3. QED
    BY <2>1, <2>2 DEF Interrupts, IInv, TypeOK, ApprovalOfRun, ConsumedIsBound, WorkOfTask, StartedIsRunning, WriteOfApproval, Ids, Bindings, Terminal, run, work, calls, approvals, ops, lease, device, bounds
<1>24. QED
  BY Steps, <1>0, <1>1, <1>2, <1>3, <1>4, <1>5, <1>6, <1>7, <1>8, <1>9, <1>10, <1>11, <1>12, <1>13, <1>14, <1>15, <1>16, <1>17, <1>18, <1>19, <1>20, <1>21, <1>22, <1>23

LEMMA StartedStep ==
    ASSUME IInv, TypeOK', [Next]_vars
    PROVE  StartedIsRunning'
<1>t. TypeOK
  BY DEF IInv
<1>0. ASSUME UNCHANGED vars
      PROVE  StartedIsRunning'
  BY <1>0, FlashAssumption DEF vars, IInv, TypeOK, ApprovalOfRun, ConsumedIsBound, WorkOfTask, StartedIsRunning, Ids, Bindings, Terminal, run, work, calls, approvals, ops, lease, device, bounds
<1>1. ASSUME NEW r \in Runs, Start(r)
      PROVE  StartedIsRunning'
  <2>0. UNCHANGED <<up, outcome, hb, calls, approvals, opBound, lease, device, bounds>> /\ task[r] = "ready"
    BY <1>1 DEF Start
  <2>1. CASE Stopped(r)
    <3>1. Settles(r) /\ Interrupts({r}) /\ task' = [task EXCEPT ![r] = "ending"]
      BY <1>1, <2>1, UnwindFacts, <1>t DEF Start
    <3>2. QED
      BY <2>0, <3>1 DEF Settles, Interrupts, IInv, TypeOK, ApprovalOfRun, ConsumedIsBound, WorkOfTask, StartedIsRunning, Ids, Bindings, Terminal, run, work, calls, approvals, ops, lease, device, bounds
  <2>2. CASE ~Stopped(r)
    <3>1. /\ op' = [op EXCEPT ![approval[r]] = "started"]
          /\ task' = [task EXCEPT ![r] = "running"]
          /\ UNCHANGED run
      BY <1>1, <2>2 DEF Start
    <3>2. approval[r] \in Ids /\ owner[approval[r]] = r
      BY <2>0 DEF IInv, ApprovalOfRun, TypeOK
    <3>3. saved[r] \notin Terminal
      BY <2>0 DEF IInv, WorkOfTask
    <3>4. QED
      BY <2>0, <3>1, <3>2, <3>3 DEF IInv, StartedIsRunning, TypeOK, Ids, run, approvals
  <2>3. QED
    BY <2>1, <2>2
<1>2. ASSUME NEW r \in Runs, Upload(r)
      PROVE  StartedIsRunning'
  <2>0. UNCHANGED <<up, hb, calls, approvals, opBound, lease, bounds>> /\ task[r] = "running" /\ outcome[r] = "none"
    BY <1>2 DEF Upload, Running
  <2>1. CASE Barred(r)
    <3>1. Settles(r) /\ Interrupts({r}) /\ task' = [task EXCEPT ![r] = "ending"]
      BY <1>2, <2>1, UnwindFacts, <1>t DEF Upload
    <3>2. UNCHANGED <<outcome, device>>
      BY <1>2, <2>1 DEF Upload
    <3>3. QED
      BY <2>0, <3>1, <3>2 DEF Settles, Interrupts, IInv, TypeOK, ApprovalOfRun, ConsumedIsBound, WorkOfTask, StartedIsRunning, Ids, Bindings, Terminal, run, work, calls, approvals, ops, lease, device, bounds
  <2>2. CASE ~Barred(r)
    <3>1. /\ wrote' = [wrote EXCEPT ![approval[r]] = @ + 1]
          /\ outcome' = [outcome EXCEPT ![r] = "writing"]
          /\ UNCHANGED <<run, task, op>>
      BY <1>2, <2>2 DEF Upload
    <3>2. approval[r] \in Ids
      BY <2>0 DEF IInv, TypeOK, ApprovalOfRun, ConsumedIsBound, WorkOfTask, StartedIsRunning, Ids, Bindings, Terminal, run, work, calls, approvals, ops, lease, device, bounds
    <3>3. QED
      BY <2>0, <3>1, <3>2 DEF IInv, TypeOK, ApprovalOfRun, ConsumedIsBound, WorkOfTask, StartedIsRunning, Ids, Bindings, Terminal, run, work, calls, approvals, ops, lease, device, bounds
  <2>3. QED
    BY <2>1, <2>2
<1>3. ASSUME NEW r \in Runs, RefuseUpload(r)
      PROVE  StartedIsRunning'
  BY <1>3, FlashAssumption DEF RefuseUpload, Running, Struck, IInv, TypeOK, ApprovalOfRun, ConsumedIsBound, WorkOfTask, StartedIsRunning, Ids, Bindings, Terminal, run, work, calls, approvals, ops, lease, device, bounds
<1>4. ASSUME NEW r \in Runs, Uploaded(r)
      PROVE  StartedIsRunning'
  BY <1>4, FlashAssumption DEF Uploaded, Running, Struck, IInv, TypeOK, ApprovalOfRun, ConsumedIsBound, WorkOfTask, StartedIsRunning, Ids, Bindings, Terminal, run, work, calls, approvals, ops, lease, device, bounds
<1>5. ASSUME NEW r \in Runs, Finish(r)
      PROVE  StartedIsRunning'
  <2>1. Settles(r) /\ task[r] = "running" /\ task' = [task EXCEPT ![r] = "ending"]
    BY <1>5, FinishFacts, <1>t
  <2>2. PICK o \in {"completed", "unknown"} : op' = [op EXCEPT ![approval[r]] = o]
    BY <1>5, FinishFacts, <1>t
  <2>3. UNCHANGED <<up, outcome, hb, calls, approvals, opBound, lease, device, bounds>>
    BY <1>5, FinishFacts, <1>t
  <2>4. approval[r] \in Ids
    BY <2>1 DEF IInv, TypeOK, ApprovalOfRun, ConsumedIsBound, WorkOfTask, StartedIsRunning, Ids, Bindings, Terminal, run, work, calls, approvals, ops, lease, device, bounds
  <2>5. QED
    BY <2>1, <2>2, <2>3, <2>4 DEF Settles, IInv, TypeOK, ApprovalOfRun, ConsumedIsBound, WorkOfTask, StartedIsRunning, Ids, Bindings, Terminal, run, work, calls, approvals, ops, lease, device, bounds
<1>6. ASSUME NEW r \in Runs, End(r)
      PROVE  StartedIsRunning'
  BY <1>6, FlashAssumption DEF End, Leaves, Releases, IInv, TypeOK, ApprovalOfRun, ConsumedIsBound, WorkOfTask, StartedIsRunning, Ids, Bindings, Terminal, run, work, calls, approvals, ops, lease, device, bounds
<1>7. ASSUME NEW r \in Runs, Notice(r)
      PROVE  StartedIsRunning'
  BY <1>7, FlashAssumption DEF Notice, Watched, IInv, TypeOK, ApprovalOfRun, ConsumedIsBound, WorkOfTask, StartedIsRunning, Ids, Bindings, Terminal, run, work, calls, approvals, ops, lease, device, bounds
<1>8. ASSUME NEW r \in Runs, Drain(r)
      PROVE  StartedIsRunning'
  <2>1. Interrupts({r})
    BY <1>8, InterruptOne, <1>t DEF Drain
  <2>2. /\ hb' = [hb EXCEPT ![r] = "lost"]
        /\ UNCHANGED <<up, run, task, outcome, calls, approvals, opBound, lease, wrote, bounds>>
    BY <1>8 DEF Drain
  <2>3. QED
    BY <2>1, <2>2 DEF Interrupts, IInv, TypeOK, ApprovalOfRun, ConsumedIsBound, WorkOfTask, StartedIsRunning, Ids, Bindings, Terminal, run, work, calls, approvals, ops, lease, device, bounds
<1>9. ASSUME NEW r \in Runs, Unwind(r)
      PROVE  StartedIsRunning'
  <2>0. UNCHANGED <<up, outcome, hb, calls, approvals, opBound, lease, wrote, bounds>>
    BY <1>9 DEF Unwind
  <2>1. CASE task[r] = "running"
    <3>1. Settles(r) /\ Interrupts({r}) /\ task' = [task EXCEPT ![r] = "ending"]
      BY <1>9, <2>1, UnwindFacts, <1>t DEF Unwind
    <3>2. QED
      BY <2>0, <2>1, <3>1 DEF Settles, Interrupts, IInv, TypeOK, ApprovalOfRun, ConsumedIsBound, WorkOfTask, StartedIsRunning, Ids, Bindings, Terminal, run, work, calls, approvals, ops, lease, device, bounds
  <2>2. CASE task[r] # "running"
    <3>1. task' = [task EXCEPT ![r] = "ending"] /\ UNCHANGED <<run, op>> /\ task[r] = "ready"
      BY <1>9, <2>2 DEF Unwind
    <3>2. QED
      BY <2>0, <3>1 DEF IInv, TypeOK, ApprovalOfRun, ConsumedIsBound, WorkOfTask, StartedIsRunning, Ids, Bindings, Terminal, run, work, calls, approvals, ops, lease, device, bounds
  <2>3. QED
    BY <2>1, <2>2
<1>10. ASSUME NEW r \in Runs, Block(r)
      PROVE  StartedIsRunning'
  <2>1. Interrupts({r})
    BY <1>10, InterruptOne, <1>t DEF Block
  <2>2. /\ task[r] = "ending" /\ task' = [task EXCEPT ![r] = "none"]
        /\ status' = [status EXCEPT ![r] = "blocked"] /\ saved' = [saved EXCEPT ![r] = "blocked"]
        /\ outcome' = [outcome EXCEPT ![r] = "none"] /\ hb' = [hb EXCEPT ![r] = "on"]
        /\ UNCHANGED <<up, approval, settled, calls, approvals, opBound, device, bounds>>
    BY <1>10 DEF Block, Leaves
  <2>3. QED
    BY <2>1, <2>2 DEF Interrupts, IInv, TypeOK, ApprovalOfRun, ConsumedIsBound, WorkOfTask, StartedIsRunning, Ids, Bindings, Terminal, run, work, calls, approvals, ops, lease, device, bounds
<1>11. ASSUME NEW r \in Runs, Kill(r)
      PROVE  StartedIsRunning'
  BY <1>11, FlashAssumption DEF Kill, IInv, TypeOK, ApprovalOfRun, ConsumedIsBound, WorkOfTask, StartedIsRunning, Ids, Bindings, Terminal, run, work, calls, approvals, ops, lease, device, bounds
<1>12. ASSUME NEW r \in Runs, Cancelled(r)
      PROVE  StartedIsRunning'
  <2>1. Interrupts({r})
    BY <1>12, InterruptOne, <1>t DEF Cancelled
  <2>2. PICK now \in {"blocked", "cancelled"}, s \in {saved[r], "blocked", "cancelled"} :
            /\ status' = [status EXCEPT ![r] = now] /\ saved' = [saved EXCEPT ![r] = s]
    BY <1>12 DEF Cancelled
  <2>3. /\ task[r] = "none" \/ hb[r] = "aborted"
        /\ UNCHANGED <<up, approval, work, confirming, approvals, opBound, lease, device, bounds>>
    BY <1>12 DEF Cancelled
  <2>4. QED
    BY <2>1, <2>2, <2>3 DEF Interrupts, IInv, TypeOK, ApprovalOfRun, ConsumedIsBound, WorkOfTask, StartedIsRunning, Ids, Bindings, Terminal, run, work, calls, approvals, ops, lease, device, bounds
<1>13. ASSUME NEW r \in Runs, NEW i \in Ids, Prepare(r, i)
      PROVE  StartedIsRunning'
  BY <1>13, FlashAssumption DEF Prepare, Loggable, IInv, TypeOK, ApprovalOfRun, ConsumedIsBound, WorkOfTask, StartedIsRunning, Ids, Bindings, Terminal, run, work, calls, approvals, ops, lease, device, bounds
<1>14. ASSUME NEW r \in Runs, NEW b \in Bindings, ConfirmWaits(r, b)
      PROVE  StartedIsRunning'
  BY <1>14, FlashAssumption DEF ConfirmWaits, IInv, TypeOK, ApprovalOfRun, ConsumedIsBound, WorkOfTask, StartedIsRunning, Ids, Bindings, Terminal, run, work, calls, approvals, ops, lease, device, bounds
<1>15. ASSUME NEW r \in Runs, ConfirmRefused(r)
      PROVE  StartedIsRunning'
  BY <1>15, FlashAssumption DEF ConfirmRefused, Held, IInv, TypeOK, ApprovalOfRun, ConsumedIsBound, WorkOfTask, StartedIsRunning, Ids, Bindings, Terminal, run, work, calls, approvals, ops, lease, device, bounds
<1>16. ASSUME NEW r \in Runs, NEW b \in Bindings, NEW late \in BOOLEAN, NEW breaks \in BOOLEAN, Confirm(r, b, late, breaks)
      PROVE  StartedIsRunning'
  <2> DEFINE j == approval[r]
  <2>1. /\ status[r] = "awaiting" /\ task[r] = "none"
        /\ op' = [op EXCEPT ![j] = IF Preparable(j, b) THEN "prepared" ELSE @]
        /\ opBound' = [opBound EXCEPT ![j] = IF op[j] = "none" THEN b ELSE @]
        /\ UNCHANGED <<approval, settled, owner, device, crashes, sleeps>>
    BY <1>16, ConfirmFacts, <1>t
  <2>2. (Preparable(j, b) /\ (Kept(r, b) \/ Broken(r, b))) \/ Refused
    BY <1>16, ConfirmFacts, <1>t
  <2>3. j \in Ids /\ owner[j] = r /\ appr[j] # "none"
    BY <2>1 DEF IInv, TypeOK, ApprovalOfRun, ConsumedIsBound, WorkOfTask, StartedIsRunning, Ids, Bindings, Terminal, run, work, calls, approvals, ops, lease, device, bounds
  <2>4. CASE Preparable(j, b) /\ Kept(r, b)
    BY <2>1, <2>3, <2>4 DEF Kept, Preparable, IInv, TypeOK, ApprovalOfRun, ConsumedIsBound, WorkOfTask, StartedIsRunning, Ids, Bindings, Terminal, run, work, calls, approvals, ops, lease, device, bounds
  <2>5. CASE Preparable(j, b) /\ Broken(r, b)
    BY <2>1, <2>3, <2>5 DEF Broken, Preparable, IInv, TypeOK, ApprovalOfRun, ConsumedIsBound, WorkOfTask, StartedIsRunning, Ids, Bindings, Terminal, run, work, calls, approvals, ops, lease, device, bounds
  <2>6. CASE Refused
    BY <2>1, <2>3, <2>6 DEF Refused, Preparable, IInv, TypeOK, ApprovalOfRun, ConsumedIsBound, WorkOfTask, StartedIsRunning, Ids, Bindings, Terminal, run, work, calls, approvals, ops, lease, device, bounds
  <2>7. QED
    BY <2>2, <2>4, <2>5, <2>6
<1>17. ASSUME NEW r \in Runs, Cancel(r)
      PROVE  StartedIsRunning'
  BY <1>17, FlashAssumption DEF Cancel, Loggable, IInv, TypeOK, ApprovalOfRun, ConsumedIsBound, WorkOfTask, StartedIsRunning, Ids, Bindings, Terminal, run, work, calls, approvals, ops, lease, device, bounds
<1>18. ASSUME NEW r \in Runs, Abort(r)
      PROVE  StartedIsRunning'
  BY <1>18, FlashAssumption DEF Abort, Struck, IInv, TypeOK, ApprovalOfRun, ConsumedIsBound, WorkOfTask, StartedIsRunning, Ids, Bindings, Terminal, run, work, calls, approvals, ops, lease, device, bounds
<1>19. ASSUME NEW r \in Runs, Lapse(r)
      PROVE  StartedIsRunning'
  BY <1>19, FlashAssumption DEF Lapse, IInv, TypeOK, ApprovalOfRun, ConsumedIsBound, WorkOfTask, StartedIsRunning, Ids, Bindings, Terminal, run, work, calls, approvals, ops, lease, device, bounds
<1>20. ASSUME NEW i \in Ids, OrphanEnds(i)
      PROVE  StartedIsRunning'
  BY <1>20, FlashAssumption DEF OrphanEnds, IInv, TypeOK, ApprovalOfRun, ConsumedIsBound, WorkOfTask, StartedIsRunning, Ids, Bindings, Terminal, run, work, calls, approvals, ops, lease, device, bounds
<1>21. ASSUME ExpireLease
      PROVE  StartedIsRunning'
  BY <1>21, FlashAssumption DEF ExpireLease, Beating, IInv, TypeOK, ApprovalOfRun, ConsumedIsBound, WorkOfTask, StartedIsRunning, Ids, Bindings, Terminal, run, work, calls, approvals, ops, lease, device, bounds
<1>22. ASSUME Crash
      PROVE  StartedIsRunning'
  BY <1>22, FlashAssumption DEF Crash, IInv, TypeOK, ApprovalOfRun, ConsumedIsBound, WorkOfTask, StartedIsRunning, Ids, Bindings, Terminal, run, work, calls, approvals, ops, lease, device, bounds
<1>23. ASSUME Restart
      PROVE  StartedIsRunning'
  <2>1. /\ Interrupts({r \in Runs : saved[r] \notin Terminal})
        /\ UNCHANGED owner
    BY <1>23, RestartFacts, <1>t
  <2>2. \A i \in Ids : op'[i] # "started"
    BY <2>1 DEF Interrupts, IInv, StartedIsRunning
  <2>3. QED
    BY <2>2 DEF StartedIsRunning
<1>24. QED
  BY Steps, <1>0, <1>1, <1>2, <1>3, <1>4, <1>5, <1>6, <1>7, <1>8, <1>9, <1>10, <1>11, <1>12, <1>13, <1>14, <1>15, <1>16, <1>17, <1>18, <1>19, <1>20, <1>21, <1>22, <1>23

LEMMA WriteStep ==
    ASSUME IInv, TypeOK', [Next]_vars
    PROVE  WriteOfApproval'
<1>t. TypeOK
  BY DEF IInv
<1>0. ASSUME UNCHANGED vars
      PROVE  WriteOfApproval'
  BY <1>0, FlashAssumption DEF vars, IInv, TypeOK, ApprovalOfRun, ConsumedIsBound, WorkOfTask, StartedIsRunning, WriteOfApproval, Ids, Bindings, run, work, calls, approvals, ops, lease, device, bounds
<1>1. ASSUME NEW r \in Runs, Start(r)
      PROVE  WriteOfApproval'
  <2>0. UNCHANGED <<up, outcome, hb, calls, approvals, opBound, lease, device, bounds>> /\ task[r] = "ready"
    BY <1>1 DEF Start
  <2>1. CASE Stopped(r)
    <3>1. Settles(r) /\ Interrupts({r}) /\ task' = [task EXCEPT ![r] = "ending"]
      BY <1>1, <2>1, UnwindFacts, <1>t DEF Start
    <3>2. QED
      BY <2>0, <3>1 DEF Settles, Interrupts, IInv, TypeOK, ApprovalOfRun, ConsumedIsBound, WorkOfTask, StartedIsRunning, WriteOfApproval, Ids, Bindings, run, work, calls, approvals, ops, lease, device, bounds
  <2>2. CASE ~Stopped(r)
    <3>1. /\ op' = [op EXCEPT ![approval[r]] = "started"]
          /\ task' = [task EXCEPT ![r] = "running"]
          /\ UNCHANGED run
      BY <1>1, <2>2 DEF Start
    <3>2. approval[r] \in Ids /\ owner[approval[r]] = r
      BY <2>0 DEF IInv, TypeOK, ApprovalOfRun, ConsumedIsBound, WorkOfTask, StartedIsRunning, WriteOfApproval, Ids, Bindings, run, work, calls, approvals, ops, lease, device, bounds
    <3>3. QED
      BY <2>0, <3>1, <3>2 DEF IInv, TypeOK, ApprovalOfRun, ConsumedIsBound, WorkOfTask, StartedIsRunning, WriteOfApproval, Ids, Bindings, run, work, calls, approvals, ops, lease, device, bounds
  <2>3. QED
    BY <2>1, <2>2
<1>2. ASSUME NEW r \in Runs, Upload(r)
      PROVE  WriteOfApproval'
  <2>0. UNCHANGED <<up, hb, calls, approvals, opBound, lease, bounds>> /\ task[r] = "running" /\ outcome[r] = "none"
    BY <1>2 DEF Upload, Running
  <2>1. CASE Barred(r)
    <3>1. Settles(r) /\ Interrupts({r}) /\ task' = [task EXCEPT ![r] = "ending"]
      BY <1>2, <2>1, UnwindFacts, <1>t DEF Upload
    <3>2. UNCHANGED <<outcome, device>>
      BY <1>2, <2>1 DEF Upload
    <3>3. QED
      BY <2>0, <3>1, <3>2 DEF Settles, Interrupts, IInv, TypeOK, ApprovalOfRun, ConsumedIsBound, WorkOfTask, StartedIsRunning, WriteOfApproval, Ids, Bindings, run, work, calls, approvals, ops, lease, device, bounds
  <2>2. CASE ~Barred(r)
    <3>1. /\ wrote' = [wrote EXCEPT ![approval[r]] = @ + 1]
          /\ outcome' = [outcome EXCEPT ![r] = "writing"]
          /\ UNCHANGED <<run, task, op>>
      BY <1>2, <2>2 DEF Upload
    <3>2. approval[r] \in Ids
      BY <2>0 DEF IInv, TypeOK, ApprovalOfRun, ConsumedIsBound, WorkOfTask, StartedIsRunning, WriteOfApproval, Ids, Bindings, run, work, calls, approvals, ops, lease, device, bounds
    <3>3. QED
      BY <2>0, <3>1, <3>2 DEF IInv, TypeOK, ApprovalOfRun, ConsumedIsBound, WorkOfTask, StartedIsRunning, WriteOfApproval, Ids, Bindings, run, work, calls, approvals, ops, lease, device, bounds
  <2>3. QED
    BY <2>1, <2>2
<1>3. ASSUME NEW r \in Runs, RefuseUpload(r)
      PROVE  WriteOfApproval'
  BY <1>3, FlashAssumption DEF RefuseUpload, Running, Struck, IInv, TypeOK, ApprovalOfRun, ConsumedIsBound, WorkOfTask, StartedIsRunning, WriteOfApproval, Ids, Bindings, run, work, calls, approvals, ops, lease, device, bounds
<1>4. ASSUME NEW r \in Runs, Uploaded(r)
      PROVE  WriteOfApproval'
  BY <1>4, FlashAssumption DEF Uploaded, Running, Struck, IInv, TypeOK, ApprovalOfRun, ConsumedIsBound, WorkOfTask, StartedIsRunning, WriteOfApproval, Ids, Bindings, run, work, calls, approvals, ops, lease, device, bounds
<1>5. ASSUME NEW r \in Runs, Finish(r)
      PROVE  WriteOfApproval'
  <2>1. Settles(r) /\ task[r] = "running" /\ task' = [task EXCEPT ![r] = "ending"]
    BY <1>5, FinishFacts, <1>t
  <2>2. PICK o \in {"completed", "unknown"} : op' = [op EXCEPT ![approval[r]] = o]
    BY <1>5, FinishFacts, <1>t
  <2>3. UNCHANGED <<up, outcome, hb, calls, approvals, opBound, lease, device, bounds>>
    BY <1>5, FinishFacts, <1>t
  <2>4. approval[r] \in Ids
    BY <2>1 DEF IInv, TypeOK, ApprovalOfRun, ConsumedIsBound, WorkOfTask, StartedIsRunning, WriteOfApproval, Ids, Bindings, run, work, calls, approvals, ops, lease, device, bounds
  <2>5. QED
    BY <2>1, <2>2, <2>3, <2>4 DEF Settles, IInv, TypeOK, ApprovalOfRun, ConsumedIsBound, WorkOfTask, StartedIsRunning, WriteOfApproval, Ids, Bindings, run, work, calls, approvals, ops, lease, device, bounds
<1>6. ASSUME NEW r \in Runs, End(r)
      PROVE  WriteOfApproval'
  BY <1>6, FlashAssumption DEF End, Leaves, Releases, IInv, TypeOK, ApprovalOfRun, ConsumedIsBound, WorkOfTask, StartedIsRunning, WriteOfApproval, Ids, Bindings, run, work, calls, approvals, ops, lease, device, bounds
<1>7. ASSUME NEW r \in Runs, Notice(r)
      PROVE  WriteOfApproval'
  BY <1>7, FlashAssumption DEF Notice, Watched, IInv, TypeOK, ApprovalOfRun, ConsumedIsBound, WorkOfTask, StartedIsRunning, WriteOfApproval, Ids, Bindings, run, work, calls, approvals, ops, lease, device, bounds
<1>8. ASSUME NEW r \in Runs, Drain(r)
      PROVE  WriteOfApproval'
  <2>1. Interrupts({r})
    BY <1>8, InterruptOne, <1>t DEF Drain
  <2>2. /\ hb' = [hb EXCEPT ![r] = "lost"]
        /\ UNCHANGED <<up, run, task, outcome, calls, approvals, opBound, lease, wrote, bounds>>
    BY <1>8 DEF Drain
  <2>3. QED
    BY <2>1, <2>2 DEF Interrupts, IInv, TypeOK, ApprovalOfRun, ConsumedIsBound, WorkOfTask, StartedIsRunning, WriteOfApproval, Ids, Bindings, run, work, calls, approvals, ops, lease, device, bounds
<1>9. ASSUME NEW r \in Runs, Unwind(r)
      PROVE  WriteOfApproval'
  <2>0. UNCHANGED <<up, outcome, hb, calls, approvals, opBound, lease, wrote, bounds>>
    BY <1>9 DEF Unwind
  <2>1. CASE task[r] = "running"
    <3>1. Settles(r) /\ Interrupts({r}) /\ task' = [task EXCEPT ![r] = "ending"]
      BY <1>9, <2>1, UnwindFacts, <1>t DEF Unwind
    <3>2. QED
      BY <2>0, <2>1, <3>1 DEF Settles, Interrupts, IInv, TypeOK, ApprovalOfRun, ConsumedIsBound, WorkOfTask, StartedIsRunning, WriteOfApproval, Ids, Bindings, run, work, calls, approvals, ops, lease, device, bounds
  <2>2. CASE task[r] # "running"
    <3>1. task' = [task EXCEPT ![r] = "ending"] /\ UNCHANGED <<run, op>> /\ task[r] = "ready"
      BY <1>9, <2>2 DEF Unwind
    <3>2. QED
      BY <2>0, <3>1 DEF IInv, TypeOK, ApprovalOfRun, ConsumedIsBound, WorkOfTask, StartedIsRunning, WriteOfApproval, Ids, Bindings, run, work, calls, approvals, ops, lease, device, bounds
  <2>3. QED
    BY <2>1, <2>2
<1>10. ASSUME NEW r \in Runs, Block(r)
      PROVE  WriteOfApproval'
  <2>1. Interrupts({r})
    BY <1>10, InterruptOne, <1>t DEF Block
  <2>2. /\ task[r] = "ending" /\ task' = [task EXCEPT ![r] = "none"]
        /\ status' = [status EXCEPT ![r] = "blocked"] /\ saved' = [saved EXCEPT ![r] = "blocked"]
        /\ outcome' = [outcome EXCEPT ![r] = "none"] /\ hb' = [hb EXCEPT ![r] = "on"]
        /\ UNCHANGED <<up, approval, settled, calls, approvals, opBound, device, bounds>>
    BY <1>10 DEF Block, Leaves
  <2>3. QED
    BY <2>1, <2>2 DEF Interrupts, IInv, TypeOK, ApprovalOfRun, ConsumedIsBound, WorkOfTask, StartedIsRunning, WriteOfApproval, Ids, Bindings, run, work, calls, approvals, ops, lease, device, bounds
<1>11. ASSUME NEW r \in Runs, Kill(r)
      PROVE  WriteOfApproval'
  BY <1>11, FlashAssumption DEF Kill, IInv, TypeOK, ApprovalOfRun, ConsumedIsBound, WorkOfTask, StartedIsRunning, WriteOfApproval, Ids, Bindings, run, work, calls, approvals, ops, lease, device, bounds
<1>12. ASSUME NEW r \in Runs, Cancelled(r)
      PROVE  WriteOfApproval'
  <2>1. Interrupts({r})
    BY <1>12, InterruptOne, <1>t DEF Cancelled
  <2>2. PICK now \in {"blocked", "cancelled"}, s \in {saved[r], "blocked", "cancelled"} :
            /\ status' = [status EXCEPT ![r] = now] /\ saved' = [saved EXCEPT ![r] = s]
    BY <1>12 DEF Cancelled
  <2>3. /\ task[r] = "none" \/ hb[r] = "aborted"
        /\ UNCHANGED <<up, approval, work, confirming, approvals, opBound, lease, device, bounds>>
    BY <1>12 DEF Cancelled
  <2>4. QED
    BY <2>1, <2>2, <2>3 DEF Interrupts, IInv, TypeOK, ApprovalOfRun, ConsumedIsBound, WorkOfTask, StartedIsRunning, WriteOfApproval, Ids, Bindings, run, work, calls, approvals, ops, lease, device, bounds
<1>13. ASSUME NEW r \in Runs, NEW i \in Ids, Prepare(r, i)
      PROVE  WriteOfApproval'
  BY <1>13, FlashAssumption DEF Prepare, Loggable, IInv, TypeOK, ApprovalOfRun, ConsumedIsBound, WorkOfTask, StartedIsRunning, WriteOfApproval, Ids, Bindings, run, work, calls, approvals, ops, lease, device, bounds
<1>14. ASSUME NEW r \in Runs, NEW b \in Bindings, ConfirmWaits(r, b)
      PROVE  WriteOfApproval'
  BY <1>14, FlashAssumption DEF ConfirmWaits, IInv, TypeOK, ApprovalOfRun, ConsumedIsBound, WorkOfTask, StartedIsRunning, WriteOfApproval, Ids, Bindings, run, work, calls, approvals, ops, lease, device, bounds
<1>15. ASSUME NEW r \in Runs, ConfirmRefused(r)
      PROVE  WriteOfApproval'
  BY <1>15, FlashAssumption DEF ConfirmRefused, Held, IInv, TypeOK, ApprovalOfRun, ConsumedIsBound, WorkOfTask, StartedIsRunning, WriteOfApproval, Ids, Bindings, run, work, calls, approvals, ops, lease, device, bounds
<1>16. ASSUME NEW r \in Runs, NEW b \in Bindings, NEW late \in BOOLEAN, NEW breaks \in BOOLEAN, Confirm(r, b, late, breaks)
      PROVE  WriteOfApproval'
  <2> DEFINE j == approval[r]
  <2>1. /\ status[r] = "awaiting" /\ task[r] = "none"
        /\ op' = [op EXCEPT ![j] = IF Preparable(j, b) THEN "prepared" ELSE @]
        /\ opBound' = [opBound EXCEPT ![j] = IF op[j] = "none" THEN b ELSE @]
        /\ UNCHANGED <<approval, settled, owner, device, crashes, sleeps>>
    BY <1>16, ConfirmFacts, <1>t
  <2>2. (Preparable(j, b) /\ (Kept(r, b) \/ Broken(r, b))) \/ Refused
    BY <1>16, ConfirmFacts, <1>t
  <2>3. j \in Ids /\ owner[j] = r /\ appr[j] # "none"
    BY <2>1 DEF IInv, TypeOK, ApprovalOfRun, ConsumedIsBound, WorkOfTask, StartedIsRunning, WriteOfApproval, Ids, Bindings, run, work, calls, approvals, ops, lease, device, bounds
  <2>4. CASE Preparable(j, b) /\ Kept(r, b)
    BY <2>1, <2>3, <2>4 DEF Kept, Preparable, IInv, TypeOK, ApprovalOfRun, ConsumedIsBound, WorkOfTask, StartedIsRunning, WriteOfApproval, Ids, Bindings, run, work, calls, approvals, ops, lease, device, bounds
  <2>5. CASE Preparable(j, b) /\ Broken(r, b)
    BY <2>1, <2>3, <2>5 DEF Broken, Preparable, IInv, TypeOK, ApprovalOfRun, ConsumedIsBound, WorkOfTask, StartedIsRunning, WriteOfApproval, Ids, Bindings, run, work, calls, approvals, ops, lease, device, bounds
  <2>6. CASE Refused
    BY <2>1, <2>3, <2>6 DEF Refused, Preparable, IInv, TypeOK, ApprovalOfRun, ConsumedIsBound, WorkOfTask, StartedIsRunning, WriteOfApproval, Ids, Bindings, run, work, calls, approvals, ops, lease, device, bounds
  <2>7. QED
    BY <2>2, <2>4, <2>5, <2>6
<1>17. ASSUME NEW r \in Runs, Cancel(r)
      PROVE  WriteOfApproval'
  BY <1>17, FlashAssumption DEF Cancel, Loggable, IInv, TypeOK, ApprovalOfRun, ConsumedIsBound, WorkOfTask, StartedIsRunning, WriteOfApproval, Ids, Bindings, run, work, calls, approvals, ops, lease, device, bounds
<1>18. ASSUME NEW r \in Runs, Abort(r)
      PROVE  WriteOfApproval'
  BY <1>18, FlashAssumption DEF Abort, Struck, IInv, TypeOK, ApprovalOfRun, ConsumedIsBound, WorkOfTask, StartedIsRunning, WriteOfApproval, Ids, Bindings, run, work, calls, approvals, ops, lease, device, bounds
<1>19. ASSUME NEW r \in Runs, Lapse(r)
      PROVE  WriteOfApproval'
  BY <1>19, FlashAssumption DEF Lapse, IInv, TypeOK, ApprovalOfRun, ConsumedIsBound, WorkOfTask, StartedIsRunning, WriteOfApproval, Ids, Bindings, run, work, calls, approvals, ops, lease, device, bounds
<1>20. ASSUME NEW i \in Ids, OrphanEnds(i)
      PROVE  WriteOfApproval'
  BY <1>20, FlashAssumption DEF OrphanEnds, IInv, TypeOK, ApprovalOfRun, ConsumedIsBound, WorkOfTask, StartedIsRunning, WriteOfApproval, Ids, Bindings, run, work, calls, approvals, ops, lease, device, bounds
<1>21. ASSUME ExpireLease
      PROVE  WriteOfApproval'
  BY <1>21, FlashAssumption DEF ExpireLease, Beating, IInv, TypeOK, ApprovalOfRun, ConsumedIsBound, WorkOfTask, StartedIsRunning, WriteOfApproval, Ids, Bindings, run, work, calls, approvals, ops, lease, device, bounds
<1>22. ASSUME Crash
      PROVE  WriteOfApproval'
  BY <1>22, FlashAssumption DEF Crash, IInv, TypeOK, ApprovalOfRun, ConsumedIsBound, WorkOfTask, StartedIsRunning, WriteOfApproval, Ids, Bindings, run, work, calls, approvals, ops, lease, device, bounds
<1>23. ASSUME Restart
      PROVE  WriteOfApproval'
  <2>1. /\ status' = [r \in Runs |-> IF saved[r] \notin Terminal THEN "failed" ELSE saved[r]] /\ saved' = status'
        /\ approval' = [r \in Runs |-> None] /\ task' = [r \in Runs |-> "none"]
    BY <1>23, RestartFacts, <1>t
  <2>2. /\ Interrupts({r \in Runs : saved[r] \notin Terminal})
        /\ \A i \in Ids : appr'[i] = appr[i] \/ (appr[i] = "pending" /\ appr'[i] = "invalidated")
        /\ UNCHANGED <<owner, opBound, device, bounds, holder, epoch, live>>
    BY <1>23, RestartFacts, <1>t
  <2>3. QED
    BY <2>1, <2>2 DEF Interrupts, IInv, TypeOK, ApprovalOfRun, ConsumedIsBound, WorkOfTask, StartedIsRunning, WriteOfApproval, Ids, Bindings, run, work, calls, approvals, ops, lease, device, bounds
<1>24. QED
  BY Steps, <1>0, <1>1, <1>2, <1>3, <1>4, <1>5, <1>6, <1>7, <1>8, <1>9, <1>10, <1>11, <1>12, <1>13, <1>14, <1>15, <1>16, <1>17, <1>18, <1>19, <1>20, <1>21, <1>22, <1>23

LEMMA LeaseStep ==
    ASSUME TypeOK, TypeOK', LeaseOfTask, [Next]_vars
    PROVE  LeaseOfTask'
<1>0. ASSUME UNCHANGED vars
      PROVE  LeaseOfTask'
  BY <1>0 DEF vars, LeaseOfTask, Owns, run, work, calls, approvals, ops, lease, device, bounds
<1>1. ASSUME NEW r \in Runs, Start(r)
      PROVE  LeaseOfTask'
  <2>1. UNCHANGED <<up, lease, bounds>> /\ task[r] # "none"
    BY <1>1 DEF Start
  <2>2. PICK t \in {"running", "ending"} : task' = [task EXCEPT ![r] = t]
    BY <1>1 DEF Start, Unwinds
  <2>3. QED
    BY <2>1, <2>2 DEF LeaseOfTask, Owns, lease, bounds, TypeOK
<1>2. ASSUME NEW r \in Runs, Upload(r)
      PROVE  LeaseOfTask'
  <2>1. UNCHANGED <<up, lease, bounds>> /\ task[r] # "none"
    BY <1>2 DEF Upload, Running
  <2>2. task' = task \/ task' = [task EXCEPT ![r] = "ending"]
    BY <1>2 DEF Upload, Unwinds
  <2>3. QED
    BY <2>1, <2>2 DEF LeaseOfTask, Owns, lease, bounds, TypeOK
<1>3. ASSUME NEW r \in Runs, RefuseUpload(r)
      PROVE  LeaseOfTask'
  <2>1. UNCHANGED <<up, task, lease, bounds>>
    BY <1>3 DEF RefuseUpload
  <2>2. QED
    BY <2>1 DEF LeaseOfTask, Owns, lease, bounds
<1>4. ASSUME NEW r \in Runs, Uploaded(r)
      PROVE  LeaseOfTask'
  <2>1. UNCHANGED <<up, task, lease, bounds>>
    BY <1>4 DEF Uploaded
  <2>2. QED
    BY <2>1 DEF LeaseOfTask, Owns, lease, bounds
<1>5. ASSUME NEW r \in Runs, Finish(r)
      PROVE  LeaseOfTask'
  <2>1. UNCHANGED <<up, lease, bounds>> /\ task[r] # "none" /\ task' = [task EXCEPT ![r] = "ending"]
    BY <1>5 DEF Finish, Running
  <2>2. QED
    BY <2>1 DEF LeaseOfTask, Owns, lease, bounds, TypeOK
<1>6. ASSUME NEW r \in Runs, End(r)
      PROVE  LeaseOfTask'
  <2>1. task' = [task EXCEPT ![r] = "none"] /\ grant' = [grant EXCEPT ![r] = 0] /\ UNCHANGED <<up, bounds, epoch>>
    BY <1>6 DEF End, Leaves, Releases
  <2>2. /\ holder' = IF holder = r /\ epoch = grant[r] THEN None ELSE holder
        /\ live' = IF holder = r /\ epoch = grant[r] THEN FALSE ELSE live
    BY <1>6 DEF End, Leaves, Releases
  <2>3. ASSUME NEW q \in Runs, task'[q] # "none", up', sleeps' = 0, faults' = 0
        PROVE  Owns(q)'
    <3>1. q # r /\ task[q] # "none" /\ grant'[q] = grant[q]
      BY <2>1, <2>3 DEF TypeOK
    <3>2. Owns(q)
      BY <2>1, <2>3, <3>1 DEF LeaseOfTask, bounds
    <3>3. QED
      BY <2>1, <2>2, <3>1, <3>2 DEF Owns
  <2>4. QED
    BY <2>3 DEF LeaseOfTask
<1>7. ASSUME NEW r \in Runs, Notice(r)
      PROVE  LeaseOfTask'
  <2>1. UNCHANGED <<up, task, lease, bounds>>
    BY <1>7 DEF Notice
  <2>2. QED
    BY <2>1 DEF LeaseOfTask, Owns, lease, bounds
<1>8. ASSUME NEW r \in Runs, Drain(r)
      PROVE  LeaseOfTask'
  <2>1. UNCHANGED <<up, task, lease, bounds>>
    BY <1>8 DEF Drain
  <2>2. QED
    BY <2>1 DEF LeaseOfTask, Owns, lease, bounds
<1>9. ASSUME NEW r \in Runs, Unwind(r)
      PROVE  LeaseOfTask'
  <2>1. UNCHANGED <<up, lease, bounds>> /\ task[r] # "none" /\ task' = [task EXCEPT ![r] = "ending"]
    BY <1>9 DEF Unwind, Unwinds
  <2>2. QED
    BY <2>1 DEF LeaseOfTask, Owns, lease, bounds, TypeOK
<1>10. ASSUME NEW r \in Runs, Block(r)
      PROVE  LeaseOfTask'
  <2>1. task' = [task EXCEPT ![r] = "none"] /\ grant' = [grant EXCEPT ![r] = 0] /\ UNCHANGED <<up, bounds, epoch>>
    BY <1>10 DEF Block, Leaves, Releases
  <2>2. /\ holder' = IF holder = r /\ epoch = grant[r] THEN None ELSE holder
        /\ live' = IF holder = r /\ epoch = grant[r] THEN FALSE ELSE live
    BY <1>10 DEF Block, Leaves, Releases
  <2>3. ASSUME NEW q \in Runs, task'[q] # "none", up', sleeps' = 0, faults' = 0
        PROVE  Owns(q)'
    <3>1. q # r /\ task[q] # "none" /\ grant'[q] = grant[q]
      BY <2>1, <2>3 DEF TypeOK
    <3>2. Owns(q)
      BY <2>1, <2>3, <3>1 DEF LeaseOfTask, bounds
    <3>3. QED
      BY <2>1, <2>2, <3>1, <3>2 DEF Owns
  <2>4. QED
    BY <2>3 DEF LeaseOfTask
<1>11. ASSUME NEW r \in Runs, Kill(r)
      PROVE  LeaseOfTask'
  <2>1. UNCHANGED <<up, task, lease, bounds>>
    BY <1>11 DEF Kill, work
  <2>2. QED
    BY <2>1 DEF LeaseOfTask, Owns, lease, bounds
<1>12. ASSUME NEW r \in Runs, Cancelled(r)
      PROVE  LeaseOfTask'
  <2>1. UNCHANGED <<up, task, lease, bounds>>
    BY <1>12 DEF Cancelled, work
  <2>2. QED
    BY <2>1 DEF LeaseOfTask, Owns, lease, bounds
<1>13. ASSUME NEW r \in Runs, NEW i \in Ids, Prepare(r, i)
      PROVE  LeaseOfTask'
  <2>1. UNCHANGED <<up, task, lease, bounds>>
    BY <1>13 DEF Prepare, work
  <2>2. QED
    BY <2>1 DEF LeaseOfTask, Owns, lease, bounds
<1>14. ASSUME NEW r \in Runs, NEW b \in Bindings, ConfirmWaits(r, b)
      PROVE  LeaseOfTask'
  <2>1. UNCHANGED <<up, task, lease, bounds>>
    BY <1>14 DEF ConfirmWaits, work
  <2>2. QED
    BY <2>1 DEF LeaseOfTask, Owns, lease, bounds
<1>15. ASSUME NEW r \in Runs, ConfirmRefused(r)
      PROVE  LeaseOfTask'
  <2>1. UNCHANGED <<up, task, lease, bounds>>
    BY <1>15 DEF ConfirmRefused, work
  <2>2. QED
    BY <2>1 DEF LeaseOfTask, Owns, lease, bounds
<1>16. ASSUME NEW r \in Runs, NEW b \in Bindings, NEW late \in BOOLEAN, NEW breaks \in BOOLEAN, Confirm(r, b, late, breaks)
      PROVE  LeaseOfTask'
  <2>1. ~Held(r) /\ task[r] = "none" /\ epoch' = epoch + 1 /\ UNCHANGED <<up, sleeps>>
    BY <1>16 DEF Confirm
  <2>2. faults' = IF breaks THEN faults + 1 ELSE faults
    BY <1>16 DEF Confirm
  <2>3. ASSUME up', sleeps' = 0, faults' = 0, NEW q \in Runs, q # r
        PROVE  task'[q] = "none"
    <3>1. faults = 0
      BY <2>2, <2>3 DEF TypeOK
    <3>2. task[q] = "none"
      BY <2>1, <2>3, <3>1, FlashAssumption DEF LeaseOfTask, Owns, Held
    <3>3. PICK t \in {task[r], "ready"} : task' = [task EXCEPT ![r] = t]
      BY <1>16 DEF Confirm
    <3>4. QED
      BY <2>3, <3>2, <3>3 DEF TypeOK
  <2>4. task'[r] # "none" => holder' = r /\ live' = TRUE /\ grant'[r] = epoch'
    <3> DEFINE kept == Preparable(approval[r], b) /\ Consumable(approval[r], b, late) /\ ~breaks
    <3>1. /\ holder' = IF kept THEN r ELSE None
          /\ live' = kept
          /\ grant' = [grant EXCEPT ![r] = IF kept THEN epoch + 1 ELSE 0]
          /\ task' = [task EXCEPT ![r] = IF kept THEN "ready" ELSE task[r]]
      BY <1>16 DEF Confirm
    <3> HIDE DEF kept
    <3>2. task'[r] = IF kept THEN "ready" ELSE "none"
      BY <2>1, <3>1 DEF TypeOK
    <3>3. grant'[r] = IF kept THEN epoch + 1 ELSE 0
      BY <3>1 DEF TypeOK
    <3>4. CASE kept
      BY <2>1, <3>1, <3>3, <3>4
    <3>5. CASE ~kept
      BY <3>2, <3>5
    <3>6. QED
      BY <3>4, <3>5
  <2>5. QED
    BY <2>3, <2>4 DEF LeaseOfTask, Owns
<1>17. ASSUME NEW r \in Runs, Cancel(r)
      PROVE  LeaseOfTask'
  <2>1. UNCHANGED <<up, task, lease, bounds>>
    BY <1>17 DEF Cancel
  <2>2. QED
    BY <2>1 DEF LeaseOfTask, Owns, lease, bounds
<1>18. ASSUME NEW r \in Runs, Abort(r)
      PROVE  LeaseOfTask'
  <2>1. UNCHANGED <<up, task, lease, bounds>>
    BY <1>18 DEF Abort
  <2>2. QED
    BY <2>1 DEF LeaseOfTask, Owns, lease, bounds
<1>19. ASSUME NEW r \in Runs, Lapse(r)
      PROVE  LeaseOfTask'
  <2>1. UNCHANGED <<up, task, lease, sleeps>> /\ faults' = IF Owns(r) THEN faults + 1 ELSE faults
    BY <1>19 DEF Lapse
  <2>2. faults' = 0 => faults = 0
    BY <2>1 DEF TypeOK
  <2>3. QED
    BY <2>1, <2>2 DEF LeaseOfTask, Owns, lease
<1>20. ASSUME NEW i \in Ids, OrphanEnds(i)
      PROVE  LeaseOfTask'
  <2>1. UNCHANGED <<up, task, lease, bounds>>
    BY <1>20 DEF OrphanEnds, work
  <2>2. QED
    BY <2>1 DEF LeaseOfTask, Owns, lease, bounds
<1>21. ASSUME ExpireLease
      PROVE  LeaseOfTask'
  <2>1. UNCHANGED <<up, task, holder, epoch, grant, faults>> /\ sleeps' = IF Beating THEN sleeps + 1 ELSE sleeps
    BY <1>21 DEF ExpireLease, work
  <2>2. sleeps' = 0 => sleeps = 0 /\ ~Beating
    BY <2>1 DEF TypeOK
  <2>3. ASSUME up', sleeps' = 0, faults' = 0, NEW q \in Runs
        PROVE  task'[q] = "none"
    BY <2>1, <2>2, <2>3, FlashAssumption DEF LeaseOfTask, Owns, Beating
  <2>4. QED
    BY <2>3 DEF LeaseOfTask
<1>22. ASSUME Crash
      PROVE  LeaseOfTask'
  BY <1>22 DEF Crash, LeaseOfTask
<1>23. ASSUME Restart
      PROVE  LeaseOfTask'
  BY <1>23 DEF Restart, LeaseOfTask
<1>24. QED
  BY Steps, <1>0, <1>1, <1>2, <1>3, <1>4, <1>5, <1>6, <1>7, <1>8, <1>9, <1>10, <1>11, <1>12, <1>13, <1>14, <1>15, <1>16, <1>17, <1>18, <1>19, <1>20, <1>21, <1>22, <1>23

----------------------------------------------------------------------------
(***************************************************************************)
(* Who is writing.  While the process lives, a write in progress belongs   *)
(* to the running task of the run its approval was issued for.             *)
(***************************************************************************)
WritersWork ==
    /\ crashes = 0 => up
    /\ \A r \in Runs : task[r] \in {"ready", "running"} => status[r] # "cancelled"
    /\ crashes = 0 => \A i \in writing :
           /\ owner[i] \in Runs /\ approval[owner[i]] = i
           /\ task[owner[i]] = "running" /\ outcome[owner[i]] = "writing"

\* A step of one run that starts no write, and takes no run from the task that writes.
LEMMA WritersFrame ==
    ASSUME WritersWork, NEW r \in Runs, UNCHANGED <<up, crashes>>, writing' \subseteq writing,
           \A i \in writing : owner'[i] = owner[i],
           \A q \in Runs \ {r} : /\ approval'[q] = approval[q] /\ task'[q] = task[q]
                                 /\ outcome'[q] = outcome[q] /\ status'[q] = status[q],
           task'[r] \in {"ready", "running"} => status'[r] # "cancelled",
           \A i \in writing' : crashes = 0 /\ owner[i] = r =>
               approval'[r] = approval[r] /\ task'[r] = task[r] /\ outcome'[r] = outcome[r]
    PROVE  WritersWork'
<1>1. \A q \in Runs : task'[q] \in {"ready", "running"} => status'[q] # "cancelled"
  BY DEF WritersWork
<1>2. ASSUME crashes' = 0, NEW i \in writing'
      PROVE  /\ owner'[i] \in Runs /\ approval'[owner'[i]] = i
             /\ task'[owner'[i]] = "running" /\ outcome'[owner'[i]] = "writing"
  BY <1>2 DEF WritersWork
<1>3. QED
  BY <1>1, <1>2 DEF WritersWork

\* A task that unwinds has no write left.
LEMMA WritersUnwind ==
    ASSUME TypeOK, WritersWork, NEW r \in Runs, Unwinds(r), UNCHANGED <<up, outcome, owner, crashes>>,
           outcome[r] # "writing" \/ approval[r] \notin writing', writing' \subseteq writing
    PROVE  WritersWork'
<1>1. Settles(r) /\ task' = [task EXCEPT ![r] = "ending"]
  BY UnwindFacts
<1>2. \A q \in Runs \ {r} : /\ approval'[q] = approval[q] /\ task'[q] = task[q]
                            /\ outcome'[q] = outcome[q] /\ status'[q] = status[q]
  BY <1>1 DEF Settles, TypeOK
<1>3. task'[r] = "ending"
  BY <1>1 DEF TypeOK
<1>4. \A i \in writing' : crashes = 0 => owner[i] # r
  BY DEF WritersWork
<1>5. \A i \in writing' : owner'[i] = owner[i]
  OBVIOUS
<1>6. QED
  BY <1>2, <1>3, <1>4, <1>5, WritersFrame

LEMMA WritersStep ==
    ASSUME TypeOK, TypeOK', ApprovalOfRun, WorkOfTask, WritersWork, [Next]_vars
    PROVE  WritersWork'
<1> USE DEF TypeOK
<1>0. ASSUME UNCHANGED vars
      PROVE  WritersWork'
  BY <1>0 DEF vars, WritersWork, run, work, approvals, device, bounds
<1>1. ASSUME NEW r \in Runs, Start(r)
      PROVE  WritersWork'
  <2>1. UNCHANGED <<up, outcome, owner, writing, crashes>> /\ task[r] = "ready"
    BY <1>1 DEF Start, approvals, device, bounds
  <2>2. CASE Unwinds(r)
    BY <2>1, <2>2, WritersUnwind, <1>1 DEF WorkOfTask
  <2>3. CASE task' = [task EXCEPT ![r] = "running"] /\ UNCHANGED run
    BY <2>1, <2>3, WritersFrame DEF run, WritersWork
  <2>4. QED
    BY <1>1, <2>2, <2>3 DEF Start
<1>2. ASSUME NEW r \in Runs, Upload(r)
      PROVE  WritersWork'
  <2>1. UNCHANGED <<up, owner, crashes>> /\ task[r] = "running" /\ outcome[r] = "none" /\ up
    BY <1>2 DEF Upload, Running, approvals, bounds
  <2>2. CASE Unwinds(r) /\ UNCHANGED <<outcome, device>>
    BY <2>1, <2>2, WritersUnwind DEF device
  <2>3. CASE /\ writing' = writing \cup {approval[r]}
             /\ outcome' = [outcome EXCEPT ![r] = "writing"] /\ UNCHANGED <<run, task>>
    <3>1. approval[r] \in Ids /\ owner[approval[r]] = r
      BY <2>1 DEF ApprovalOfRun
    <3>2. ASSUME NEW i \in writing', crashes' = 0
          PROVE  /\ owner'[i] \in Runs /\ approval'[owner'[i]] = i
                 /\ task'[owner'[i]] = "running" /\ outcome'[owner'[i]] = "writing"
      BY <2>1, <2>3, <3>1, <3>2 DEF WritersWork, run
    <3>3. QED
      BY <2>1, <2>3, <3>2 DEF WritersWork, run
  <2>4. QED
    BY <1>2, <2>2, <2>3 DEF Upload
<1>3. ASSUME NEW r \in Runs, RefuseUpload(r)
      PROVE  WritersWork'
  <2>1. /\ UNCHANGED <<up, run, task, owner, writing, crashes>> /\ outcome[r] = "none"
        /\ outcome' = [outcome EXCEPT ![r] = "bad"] /\ up
    BY <1>3 DEF RefuseUpload, Running, approvals, device, bounds
  <2>2. QED
    BY <2>1, WritersFrame DEF WritersWork, run
<1>4. ASSUME NEW r \in Runs, Uploaded(r)
      PROVE  WritersWork'
  <2>1. UNCHANGED <<up, run, task, owner, crashes>> /\ writing' = writing \ {approval[r]} /\ up
    BY <1>4 DEF Uploaded, Running, approvals, bounds
  <2>2. PICK o \in {"ok", "bad"} : outcome' = [outcome EXCEPT ![r] = o]
    BY <1>4 DEF Uploaded
  <2>3. QED
    BY <2>1, <2>2, WritersFrame DEF WritersWork, run
<1>5. ASSUME NEW r \in Runs, Finish(r)
      PROVE  WritersWork'
  <2>1. /\ Settles(r) /\ task' = [task EXCEPT ![r] = "ending"]
        /\ UNCHANGED <<up, outcome, owner, writing, crashes>>
    BY <1>5, FinishFacts DEF approvals, device, bounds
  <2>2. outcome[r] \in {"ok", "bad"} /\ up
    BY <1>5 DEF Finish, Running
  <2>3. QED
    BY <2>1, <2>2, WritersFrame DEF Settles, WritersWork
<1>6. ASSUME NEW r \in Runs, End(r) \/ Block(r)
      PROVE  WritersWork'
  <2>1. /\ task[r] = "ending" /\ up /\ task' = [task EXCEPT ![r] = "none"]
        /\ outcome' = [outcome EXCEPT ![r] = "none"]
        /\ UNCHANGED <<up, approval, owner, writing, crashes>>
    BY <1>6 DEF End, Block, Leaves, run, approvals, device, bounds
  <2>2. \A q \in Runs \ {r} : status'[q] = status[q]
    BY <1>6 DEF End, Block, run
  <2>3. QED
    BY <2>1, <2>2, WritersFrame DEF WritersWork
<1>7. ASSUME NEW r \in Runs, Notice(r) \/ Lapse(r) \/ Abort(r) \/ ConfirmRefused(r)
                             \/ \E b \in Bindings : ConfirmWaits(r, b)
      PROVE  WritersWork'
  <2>1. UNCHANGED <<up, status, approval, task, outcome, owner, writing, crashes>>
    BY <1>7 DEF Notice, Lapse, Abort, ConfirmRefused, ConfirmWaits, run, work, approvals, device, bounds
  <2>2. QED
    BY <2>1 DEF WritersWork
<1>8. ASSUME NEW r \in Runs, Drain(r) \/ Kill(r)
      PROVE  WritersWork'
  <2>1. UNCHANGED <<up, status, approval, task, outcome, owner, crashes>>
    BY <1>8 DEF Drain, Kill, run, work, approvals, bounds
  <2>2. writing' \subseteq writing
    BY <1>8 DEF Drain, Kill
  <2>3. QED
    BY <2>1, <2>2 DEF WritersWork
<1>9. ASSUME NEW r \in Runs, Unwind(r)
      PROVE  WritersWork'
  <2>1. UNCHANGED <<up, outcome, owner, crashes>> /\ up
    BY <1>9 DEF Unwind, approvals, bounds
  <2>2. CASE task[r] = "running" /\ Unwinds(r) /\ writing' = writing \ {approval[r]}
    BY <2>1, <2>2, WritersUnwind
  <2>3. CASE task[r] = "ready" /\ task' = [task EXCEPT ![r] = "ending"] /\ UNCHANGED <<run, writing>>
    BY <2>1, <2>3, WritersFrame DEF run, WritersWork
  <2>4. QED
    BY <1>9, <2>2, <2>3 DEF Unwind, WithoutTool
<1>10. ASSUME NEW r \in Runs, Cancelled(r)
      PROVE  WritersWork'
  <2>1. UNCHANGED <<up, approval, task, outcome, owner, writing, crashes>>
    BY <1>10 DEF Cancelled, work, approvals, device, bounds
  <2>2. PICK now \in {"blocked", "cancelled"} :
            status' = [status EXCEPT ![r] = now] /\ (task[r] # "none" => now = "blocked")
    BY <1>10 DEF Cancelled
  <2>3. QED
    BY <2>1, <2>2, WritersFrame DEF WritersWork
<1>11. ASSUME NEW r \in Runs, Cancel(r)
      PROVE  WritersWork'
  <2>1. UNCHANGED <<up, approval, task, outcome, owner, writing, crashes>>
    BY <1>11 DEF Cancel, approvals, device, bounds
  <2>2. status' = [status EXCEPT ![r] = "cancelling"]
    BY <1>11 DEF Cancel
  <2>3. QED
    BY <2>1, <2>2, WritersFrame DEF WritersWork
<1>12. ASSUME NEW r \in Runs, NEW i \in Ids, Prepare(r, i)
      PROVE  WritersWork'
  <2>1. /\ UNCHANGED <<up, task, outcome, writing, crashes>> /\ up
        /\ status[r] = "completed" /\ appr[i] = "none"
        /\ owner' = [owner EXCEPT ![i] = r] /\ approval' = [approval EXCEPT ![r] = i]
        /\ status' = [status EXCEPT ![r] = "awaiting"]
    BY <1>12 DEF Prepare, work, device, bounds
  <2>2. task[r] \notin {"ready", "running"}
    BY <2>1 DEF WorkOfTask
  <2>3. ASSUME NEW j \in writing', crashes' = 0
        PROVE  /\ owner'[j] \in Runs /\ approval'[owner'[j]] = j
               /\ task'[owner'[j]] = "running" /\ outcome'[owner'[j]] = "writing"
    <3>1. /\ owner[j] \in Runs /\ approval[owner[j]] = j
          /\ task[owner[j]] = "running" /\ outcome[owner[j]] = "writing"
      BY <2>1, <2>3 DEF WritersWork
    <3>2. j # i /\ owner[j] # r
      BY <2>1, <2>2, <3>1 DEF ApprovalOfRun
    <3>3. QED
      BY <2>1, <3>1, <3>2
  <2>4. \A q \in Runs : task'[q] \in {"ready", "running"} => status'[q] # "cancelled"
    BY <2>1 DEF WritersWork
  <2>5. QED
    BY <2>1, <2>3, <2>4 DEF WritersWork
<1>13. ASSUME NEW r \in Runs, NEW b \in Bindings, NEW late \in BOOLEAN, NEW breaks \in BOOLEAN, Confirm(r, b, late, breaks)
      PROVE  WritersWork'
  <2>1. UNCHANGED <<approval, owner, writing, crashes>> /\ task[r] = "none" /\ status[r] = "awaiting"
    BY <1>13, ConfirmFacts DEF device
  <2>2. UNCHANGED up /\ up
    BY <1>13 DEF Confirm
  <2>3. CASE Kept(r, b)
    BY <2>1, <2>2, <2>3, WritersFrame DEF Kept, WritersWork
  <2>4. CASE Broken(r, b)
    BY <2>1, <2>2, <2>4, WritersFrame DEF Broken, WritersWork
  <2>5. CASE Refused
    BY <2>1, <2>2, <2>5 DEF Refused, WritersWork
  <2>6. QED
    BY <1>13, ConfirmFacts, <2>3, <2>4, <2>5
<1>14. ASSUME (\E i \in Ids : OrphanEnds(i)) \/ ExpireLease
      PROVE  WritersWork'
  <2>1. UNCHANGED <<up, status, approval, task, outcome, owner, crashes>>
    BY <1>14 DEF OrphanEnds, ExpireLease, run, work, approvals, bounds
  <2>2. writing' \subseteq writing
    BY <1>14 DEF OrphanEnds, ExpireLease, device
  <2>3. QED
    BY <2>1, <2>2 DEF WritersWork
<1>15. ASSUME Crash
      PROVE  WritersWork'
  <2>1. crashes' # 0 /\ UNCHANGED <<status, task>>
    BY <1>15 DEF Crash, run, work
  <2>2. QED
    BY <2>1 DEF WritersWork
<1>16. ASSUME Restart
      PROVE  WritersWork'
  <2>1. ~up /\ UNCHANGED crashes /\ task' = [r \in Runs |-> "none"]
    BY <1>16, RestartFacts DEF bounds
  <2>2. QED
    BY <2>1 DEF WritersWork
<1>17. QED
  <2>1. CASE UNCHANGED vars
    BY <1>0, <2>1
  <2>2. CASE Next
    BY <2>2, Steps, <1>1, <1>2, <1>3, <1>4, <1>5, <1>6, <1>7, <1>8, <1>9, <1>10, <1>11, <1>12, <1>13, <1>14, <1>15, <1>16
  <2>3. QED
    BY <2>1, <2>2

(***************************************************************************)
(* What a cancellation records.  A task unwinds on account of cancel, or   *)
(* of a lease that was lost; without a fault, what it then says of its run *)
(* is refused or comes second, unless cancel is still there to say it.     *)
(***************************************************************************)
Fenced ==
    /\ \A r \in Runs : canceller[r] # "none" => cancelling[r]
    /\ \A r \in Runs : task[r] # "none" => grant[r] > 0
    /\ faults = 0 => \A r \in Runs :
           (task[r] \in {"ready", "running"} /\ hb[r] # "on" /\ ~cancelling[r])
               => (settled[r] \/ ~Loggable(r))

\* A run with a task gains no lease by a step of another run.
Leased(q) == task[q] # "none" /\ Loggable(q)' => Loggable(q)

LEMMA FencedFrame ==
    ASSUME Fenced, NEW r \in Runs, faults' = 0 => faults = 0,
           \A q \in Runs \ {r} :
               /\ task'[q] = task[q] /\ hb'[q] = hb[q] /\ settled'[q] = settled[q]
               /\ cancelling'[q] = cancelling[q] /\ canceller'[q] = canceller[q]
               /\ grant'[q] = grant[q] /\ Leased(q),
           canceller'[r] # "none" => cancelling'[r],
           task'[r] # "none" => grant'[r] > 0,
           (faults' = 0 /\ task'[r] \in {"ready", "running"} /\ hb'[r] # "on" /\ ~cancelling'[r])
               => (settled'[r] \/ ~Loggable(r)')
    PROVE  Fenced'
<1>1. \A q \in Runs : canceller'[q] # "none" => cancelling'[q]
  BY DEF Fenced
<1>2. \A q \in Runs : task'[q] # "none" => grant'[q] > 0
  BY DEF Fenced
<1>3. ASSUME faults' = 0, NEW q \in Runs,
             task'[q] \in {"ready", "running"}, hb'[q] # "on", ~cancelling'[q]
      PROVE  settled'[q] \/ ~Loggable(q)'
  BY <1>3 DEF Fenced, Leased
<1>4. QED
  BY <1>1, <1>2, <1>3 DEF Fenced

LEMMA SameLease ==
    ASSUME UNCHANGED lease
    PROVE  \A q \in Runs : Leased(q) /\ grant'[q] = grant[q] /\ (Loggable(q)' <=> Loggable(q))
BY DEF lease, Leased, Loggable, Owns

\* A step of r's task that leaves the lease and the calls, and does not unsettle r.
LEMMA FencedTask ==
    ASSUME TypeOK, Fenced, NEW r \in Runs, UNCHANGED <<lease, calls>>, faults' = 0 => faults = 0,
           \A q \in Runs \ {r} :
               task'[q] = task[q] /\ hb'[q] = hb[q] /\ settled'[q] = settled[q],
           task[r] # "none",
           settled[r] => settled'[r],
           hb'[r] # "on" => hb[r] # "on" \/ cancelling[r] \/ (faults' = 0 => ~Loggable(r)),
           task'[r] \in {"ready", "running"} => task[r] \in {"ready", "running"}
    PROVE  Fenced'
<1>1. UNCHANGED <<cancelling, canceller>>
  BY DEF calls
<1>2. \A q \in Runs : Leased(q) /\ grant'[q] = grant[q] /\ (Loggable(q)' <=> Loggable(q))
  BY SameLease
<1>3. (canceller'[r] # "none" => cancelling'[r]) /\ (task'[r] # "none" => grant'[r] > 0)
  BY <1>1, <1>2 DEF Fenced
<1>4. (faults' = 0 /\ task'[r] \in {"ready", "running"} /\ hb'[r] # "on" /\ ~cancelling'[r])
         => (settled'[r] \/ ~Loggable(r)')
  BY <1>1, <1>2 DEF Fenced
<1>5. QED
  BY <1>1, <1>2, <1>3, <1>4, FencedFrame

LEMMA SettledStays ==
    ASSUME TypeOK, NEW r \in Runs, NEW s, NEW persists, SettleAs(r, s, persists)
    PROVE  (settled[r] => settled'[r]) /\ \A q \in Runs \ {r} : settled'[q] = settled[q]
<1>1. CASE cancelling[r]
  BY <1>1 DEF SettleAs
<1>2. CASE ~cancelling[r]
  <2>1. PICK logs \in BOOLEAN : settled' = [settled EXCEPT ![r] = IF logs THEN TRUE ELSE @]
    BY <1>2 DEF SettleAs, TypeOK, Loggable
  <2>2. QED
    BY <2>1 DEF TypeOK
<1>3. QED
  BY <1>1, <1>2

LEMMA ReleaseLeased ==
    ASSUME NEW r \in Runs, TypeOK, Releases(r), NEW q \in Runs \ {r}
    PROVE  grant'[q] = grant[q] /\ Leased(q)
<1>1. grant'[q] = grant[q] /\ epoch' = epoch
  BY DEF Releases, TypeOK
<1>2. holder' = q => holder = q /\ (live' => live)
  BY FlashAssumption DEF Releases
<1>3. QED
  BY <1>1, <1>2 DEF Leased, Loggable, Owns

LEMMA FencedStep ==
    ASSUME TypeOK, TypeOK', WorkOfTask, Fenced, [Next]_vars
    PROVE  Fenced'
<1>0. ASSUME UNCHANGED vars
      PROVE  Fenced'
  BY <1>0 DEF vars, Fenced, Loggable, Owns, run, work, calls, lease, bounds
<1>1. ASSUME NEW r \in Runs, Start(r)
      PROVE  Fenced'
  <2>1. UNCHANGED <<hb, calls, lease, faults>> /\ task[r] = "ready"
    BY <1>1 DEF Start, bounds
  <2>2. CASE Unwinds(r)
    <3>1. task' = [task EXCEPT ![r] = "ending"]
      BY <2>2 DEF Unwinds
    <3>2. (settled[r] => settled'[r]) /\ \A q \in Runs \ {r} : settled'[q] = settled[q]
      BY <2>2, SettledStays DEF Unwinds
    <3>3. QED
      BY <2>1, <3>1, <3>2, FencedTask DEF TypeOK
  <2>3. CASE task' = [task EXCEPT ![r] = "running"] /\ UNCHANGED run
    BY <2>1, <2>3, FencedTask DEF TypeOK, run
  <2>4. QED
    BY <1>1, <2>2, <2>3 DEF Start
<1>2. ASSUME NEW r \in Runs, Upload(r)
      PROVE  Fenced'
  <2>1. UNCHANGED <<hb, calls, lease, faults>> /\ task[r] = "running"
    BY <1>2 DEF Upload, Running, bounds
  <2>2. CASE Unwinds(r)
    <3>1. task' = [task EXCEPT ![r] = "ending"]
      BY <2>2 DEF Unwinds
    <3>2. (settled[r] => settled'[r]) /\ \A q \in Runs \ {r} : settled'[q] = settled[q]
      BY <2>2, SettledStays DEF Unwinds
    <3>3. QED
      BY <2>1, <3>1, <3>2, FencedTask DEF TypeOK
  <2>3. CASE UNCHANGED <<run, task>>
    BY <2>1, <2>3, FencedTask DEF run
  <2>4. QED
    BY <1>2, <2>2, <2>3 DEF Upload
<1>3. ASSUME NEW r \in Runs, RefuseUpload(r) \/ Uploaded(r)
      PROVE  Fenced'
  <2>1. UNCHANGED <<run, task, hb, calls, lease, bounds>>
    BY <1>3 DEF RefuseUpload, Uploaded
  <2>2. QED
    BY <2>1, SameLease DEF Fenced, run, calls, bounds
<1>4. ASSUME NEW r \in Runs, Finish(r)
      PROVE  Fenced'
  <2>1. /\ task[r] = "running" /\ task' = [task EXCEPT ![r] = "ending"]
        /\ UNCHANGED <<hb, calls, lease, faults>>
    BY <1>4 DEF Finish, Running, bounds
  <2>2. \E s \in {"completed", "failed"} : SettleAs(r, s, TRUE)
    BY <1>4 DEF Finish
  <2>3. (settled[r] => settled'[r]) /\ \A q \in Runs \ {r} : settled'[q] = settled[q]
    BY <2>2, SettledStays
  <2>4. QED
    BY <2>1, <2>3, FencedTask DEF TypeOK
<1>5. ASSUME NEW r \in Runs, End(r) \/ Block(r)
      PROVE  Fenced'
  <2>1. /\ task' = [task EXCEPT ![r] = "none"] /\ hb' = [hb EXCEPT ![r] = "on"] /\ Releases(r)
        /\ UNCHANGED <<settled, cancelling, canceller, faults>>
    BY <1>5 DEF End, Block, Leaves, run, calls, bounds
  <2>2. \A q \in Runs \ {r} : grant'[q] = grant[q] /\ Leased(q)
    BY <2>1, ReleaseLeased
  <2>3. task'[r] = "none" /\ \A q \in Runs \ {r} : task'[q] = task[q] /\ hb'[q] = hb[q]
    BY <2>1 DEF TypeOK
  <2>4. canceller'[r] # "none" => cancelling'[r]
    BY <2>1 DEF Fenced
  <2>5. QED
    BY <2>1, <2>2, <2>3, <2>4, FencedFrame
<1>6. ASSUME NEW r \in Runs, Notice(r) \/ Drain(r)
      PROVE  Fenced'
  <2>1. UNCHANGED <<task, settled, calls, lease, faults>> /\ task[r] # "none" /\ hb[r] # "on"
    BY <1>6 DEF Notice, Drain, Watched, run, bounds
  <2>2. PICK h \in {"killing", "lost"} : hb' = [hb EXCEPT ![r] = h]
    BY <1>6 DEF Notice, Drain
  <2>3. QED
    BY <2>1, <2>2, FencedTask DEF TypeOK
<1>7. ASSUME NEW r \in Runs, Unwind(r)
      PROVE  Fenced'
  <2>1. UNCHANGED <<hb, calls, lease, faults>> /\ task[r] # "none"
    BY <1>7 DEF Unwind, bounds
  <2>2. task' = [task EXCEPT ![r] = "ending"]
    BY <1>7 DEF Unwind, Unwinds
  <2>3. (settled[r] => settled'[r]) /\ \A q \in Runs \ {r} : settled'[q] = settled[q]
    <3>1. CASE Unwinds(r)
      BY <3>1, SettledStays DEF Unwinds
    <3>2. CASE UNCHANGED run
      BY <3>2 DEF run
    <3>3. QED
      BY <1>7, <3>1, <3>2 DEF Unwind
  <2>4. QED
    BY <2>1, <2>2, <2>3, FencedTask DEF TypeOK
<1>8. ASSUME NEW r \in Runs, Kill(r)
      PROVE  Fenced'
  <2>1. UNCHANGED <<task, hb, settled, cancelling, lease, faults>> /\ canceller[r] # "none"
    BY <1>8 DEF Kill, run, work, bounds
  <2>2. PICK k \in {"waiting", "failed"} : canceller' = [canceller EXCEPT ![r] = k]
    BY <1>8 DEF Kill
  <2>3. \A q \in Runs : canceller'[q] # "none" => cancelling'[q]
    BY <2>1, <2>2 DEF TypeOK, Fenced
  <2>4. QED
    BY <2>1, <2>3, SameLease DEF Fenced
<1>9. ASSUME NEW r \in Runs, Cancelled(r)
      PROVE  Fenced'
  <2>1. /\ UNCHANGED <<task, hb, lease, faults>>
        /\ settled' = [settled EXCEPT ![r] = IF Loggable(r) THEN TRUE ELSE @]
        /\ cancelling' = [cancelling EXCEPT ![r] = FALSE]
        /\ canceller' = [canceller EXCEPT ![r] = "none"]
    BY <1>9 DEF Cancelled, work, bounds
  <2>2. canceller'[r] = "none" /\ \A q \in Runs \ {r} : canceller'[q] = canceller[q]
    BY <2>1 DEF TypeOK
  <2>3. \A q \in Runs \ {r} : cancelling'[q] = cancelling[q] /\ settled'[q] = settled[q]
    BY <2>1 DEF TypeOK
  <2>4. settled'[r] \/ ~Loggable(r)
    BY <2>1 DEF TypeOK
  <2>5. \A q \in Runs : Leased(q) /\ grant'[q] = grant[q] /\ (Loggable(q)' <=> Loggable(q))
    BY <2>1, SameLease
  <2>6. task'[r] # "none" => grant'[r] > 0
    BY <2>1, <2>5 DEF Fenced
  <2>7. QED
    BY <2>1, <2>2, <2>3, <2>4, <2>5, <2>6, FencedFrame
<1>10. ASSUME NEW r \in Runs, NEW i \in Ids, Prepare(r, i)
      PROVE  Fenced'
  <2>1. UNCHANGED <<task, hb, calls, lease, faults>> /\ status[r] = "completed"
    BY <1>10 DEF Prepare, work, bounds
  <2>2. \A q \in Runs \ {r} : settled'[q] = settled[q]
    <3>1. settled' = [settled EXCEPT ![r] = FALSE] \/ settled' = settled
      BY <1>10 DEF Prepare
    <3>2. QED
      BY <3>1 DEF TypeOK
  <2>3. task[r] \notin {"ready", "running"}
    BY <2>1 DEF WorkOfTask
  <2>4. \A q \in Runs : Leased(q) /\ grant'[q] = grant[q]
    BY <2>1, SameLease
  <2>5. (canceller'[r] # "none" => cancelling'[r]) /\ (task'[r] # "none" => grant'[r] > 0)
    BY <2>1, <2>4 DEF Fenced, calls
  <2>6. QED
    BY <2>1, <2>2, <2>3, <2>4, <2>5, FencedFrame DEF calls
<1>11. ASSUME NEW r \in Runs, ConfirmRefused(r) \/ \E b \in Bindings : ConfirmWaits(r, b)
      PROVE  Fenced'
  <2>1. UNCHANGED <<task, hb, settled, cancelling, canceller, lease, faults>>
    BY <1>11 DEF ConfirmRefused, ConfirmWaits, run, work, bounds
  <2>2. QED
    BY <2>1, SameLease DEF Fenced
<1>12. ASSUME NEW r \in Runs, NEW b \in Bindings, NEW late \in BOOLEAN, NEW breaks \in BOOLEAN, Confirm(r, b, late, breaks)
      PROVE  Fenced'
  <2>1. task[r] = "none" /\ UNCHANGED settled
    BY <1>12, ConfirmFacts
  <2>2. UNCHANGED <<cancelling, canceller>>
    BY <1>12 DEF Confirm
  <2>3. faults' = 0 => faults = 0
    BY <1>12 DEF Confirm, TypeOK
  <2>4. PICK kept \in BOOLEAN :
            /\ holder' = (IF kept THEN r ELSE None) /\ live' = kept
            /\ grant' = [grant EXCEPT ![r] = IF kept THEN epoch + 1 ELSE 0]
            /\ task' = [task EXCEPT ![r] = IF kept THEN "ready" ELSE @]
            /\ hb' = [hb EXCEPT ![r] = IF kept THEN "on" ELSE @]
    BY <1>12 DEF Confirm
  <2>5. \A q \in Runs \ {r} : task'[q] = task[q] /\ hb'[q] = hb[q] /\ grant'[q] = grant[q]
    BY <2>4 DEF TypeOK
  <2>6. \A q \in Runs \ {r} : Leased(q)
    <3>1. \A q \in Runs \ {r} : task[q] # "none" => grant'[q] # 0 /\ holder' # q
      BY <2>4, <2>5, FlashAssumption DEF Fenced, TypeOK
    <3>2. QED
      BY <3>1 DEF Leased, Loggable, Owns
  <2>7. /\ task'[r] # "none" => grant'[r] > 0
        /\ task'[r] # "none" => hb'[r] = "on"
    BY <2>1, <2>4 DEF TypeOK
  <2>8. canceller'[r] # "none" => cancelling'[r]
    BY <2>2 DEF Fenced
  <2>9. QED
    BY <2>1, <2>2, <2>3, <2>5, <2>6, <2>7, <2>8, FencedFrame
<1>13. ASSUME NEW r \in Runs, Cancel(r)
      PROVE  Fenced'
  <2>1. /\ UNCHANGED <<task, hb, settled, lease, faults>>
        /\ cancelling' = [cancelling EXCEPT ![r] = TRUE]
        /\ canceller' = [canceller EXCEPT ![r] = "killing"] \/ canceller' = canceller
    BY <1>13 DEF Cancel, bounds
  <2>2. cancelling'[r] /\ \A q \in Runs \ {r} : cancelling'[q] = cancelling[q]
    BY <2>1 DEF TypeOK
  <2>3. \A q \in Runs \ {r} : canceller'[q] = canceller[q]
    BY <2>1 DEF TypeOK
  <2>4. \A q \in Runs : Leased(q) /\ grant'[q] = grant[q]
    BY <2>1, SameLease
  <2>5. task'[r] # "none" => grant'[r] > 0
    BY <2>1, <2>4 DEF Fenced
  <2>6. QED
    BY <2>1, <2>2, <2>3, <2>4, <2>5, FencedFrame
<1>14. ASSUME NEW r \in Runs, Abort(r)
      PROVE  Fenced'
  <2>1. /\ UNCHANGED <<task, settled, calls, lease, faults>> /\ task[r] = "running"
        /\ hb' = [hb EXCEPT ![r] = "aborted"] /\ canceller[r] # "none"
    BY <1>14 DEF Abort, run, bounds
  <2>2. cancelling[r]
    BY <2>1 DEF Fenced
  <2>3. QED
    BY <2>1, <2>2, FencedTask DEF TypeOK
<1>15. ASSUME NEW r \in Runs, Lapse(r)
      PROVE  Fenced'
  <2>1. /\ UNCHANGED <<task, settled, calls, lease>> /\ task[r] # "none"
        /\ hb' = [hb EXCEPT ![r] = "failed"]
        /\ faults' = IF Owns(r) THEN faults + 1 ELSE faults
    BY <1>15 DEF Lapse, run
  <2>2. (faults' = 0 => faults = 0) /\ (faults' = 0 => ~Owns(r))
    BY <2>1 DEF TypeOK
  <2>3. faults' = 0 => ~Loggable(r)
    BY <2>1, <2>2 DEF Loggable, Fenced, TypeOK
  <2>4. QED
    BY <2>1, <2>2, <2>3, FencedTask DEF TypeOK
<1>16. ASSUME (\E i \in Ids : OrphanEnds(i)) \/ Crash
      PROVE  Fenced'
  <2>1. UNCHANGED <<task, hb, settled, cancelling, canceller, lease, faults>>
    BY <1>16 DEF OrphanEnds, Crash, run, work, calls, bounds
  <2>2. QED
    BY <2>1, SameLease DEF Fenced
<1>17. ASSUME ExpireLease
      PROVE  Fenced'
  <2>1. UNCHANGED <<task, hb, settled, cancelling, canceller, grant, faults>> /\ ~live'
    BY <1>17 DEF ExpireLease, run, work, calls
  <2>2. \A q \in Runs : Loggable(q)' => Loggable(q)
    BY <2>1 DEF Loggable, Owns
  <2>3. QED
    BY <2>1, <2>2 DEF Fenced
<1>18. ASSUME Restart
      PROVE  Fenced'
  <2>1. /\ task' = [r \in Runs |-> "none"] /\ canceller' = [r \in Runs |-> "none"]
    BY <1>18 DEF Restart
  <2>2. QED
    BY <2>1 DEF Fenced
<1>19. QED
  <2>1. CASE UNCHANGED vars
    BY <1>0, <2>1
  <2>2. CASE Next
    BY <2>2, Steps, <1>1, <1>2, <1>3, <1>4, <1>5, <1>6, <1>7, <1>8, <1>9, <1>10, <1>11, <1>12, <1>13,
       <1>14, <1>15, <1>16, <1>17, <1>18
  <2>3. QED
    BY <2>1, <2>2

\* A step that records no new cancellation and spoils no outcome of a cancelled run.
Spoiled == {"started", "unknown"}

LEMMA KnownFrame ==
    ASSUME TypeOK, TypeOK', CancelledIsKnown, faults' = 0 => faults = 0,
           \A q \in Runs : faults' = 0 /\ saved'[q] = "cancelled" => saved[q] = "cancelled",
           \A i \in Ids : op'[i] \in Spoiled =>
               owner'[i] = owner[i] /\ (op[i] \in Spoiled \/ saved'[owner[i]] # "cancelled")
    PROVE  CancelledIsKnown'
<1> SUFFICES ASSUME faults' = 0, NEW r \in Runs, saved'[r] = "cancelled",
                    NEW i \in Ids, owner'[i] = r, op'[i] \in Spoiled
             PROVE  FALSE
  BY DEF CancelledIsKnown, Spoiled
<1>1. saved[r] = "cancelled" /\ owner[i] = r /\ op[i] \in Spoiled
  OBVIOUS
<1>2. QED
  BY <1>1 DEF CancelledIsKnown, Spoiled

\* A settlement says "cancelled" only for s = "cancelled", unsettled and under the lease.
LEMMA SettledRow ==
    ASSUME TypeOK, NEW r \in Runs, NEW s, NEW persists, SettleAs(r, s, persists),
           saved'[r] = "cancelled", saved[r] # "cancelled"
    PROVE  s = "cancelled" /\ ~cancelling[r] /\ (persists \/ (~settled[r] /\ Loggable(r)))
<1>1. CASE cancelling[r]
  BY <1>1 DEF SettleAs, TypeOK
<1>2. CASE ~cancelling[r]
  BY <1>2 DEF SettleAs, TypeOK
<1>3. QED
  BY <1>1, <1>2

LEMMA InterruptSpoils ==
    ASSUME NEW R, Interrupts(R), NEW i \in Ids, op'[i] \in Spoiled
    PROVE  op[i] \in Spoiled
BY DEF Interrupts, Spoiled

\* A task that was stopped unwinds without saying that its run is cancelled.
LEMMA KnownUnwind ==
    ASSUME TypeOK, TypeOK', Fenced, CancelledIsKnown, NEW r \in Runs, Unwinds(r),
           UNCHANGED <<owner, faults>>, task[r] \in {"ready", "running"}, cancelling[r] \/ hb[r] # "on"
    PROVE  CancelledIsKnown'
<1>1. Settles(r) /\ Interrupts({r}) /\ SettleAs(r, "cancelled", FALSE)
  BY UnwindFacts DEF Unwinds
<1>2. \A q \in Runs \ {r} : saved'[q] = saved[q]
  BY <1>1 DEF Settles
<1>3. ASSUME faults' = 0, saved'[r] = "cancelled"
      PROVE  saved[r] = "cancelled"
  BY <1>1, <1>3, SettledRow DEF Fenced
<1>4. \A i \in Ids : op'[i] \in Spoiled => op[i] \in Spoiled
  BY <1>1, InterruptSpoils
<1>5. QED
  BY <1>2, <1>3, <1>4, KnownFrame

LEMMA KnownStep ==
    ASSUME TypeOK, TypeOK', ApprovalOfRun, ConsumedIsBound, WorkOfTask, Fenced, CancelledIsKnown, [Next]_vars
    PROVE  CancelledIsKnown'
<1>0. ASSUME UNCHANGED <<saved, owner, op, faults>>
      PROVE  CancelledIsKnown'
  BY <1>0 DEF CancelledIsKnown
<1>1. ASSUME NEW r \in Runs, Start(r)
      PROVE  CancelledIsKnown'
  <2>1. UNCHANGED <<owner, faults>> /\ task[r] = "ready"
    BY <1>1 DEF Start, approvals, bounds
  <2>2. CASE Stopped(r)
    <3>1. Unwinds(r)
      BY <1>1, <2>2 DEF Start
    <3>2. QED
      BY <2>1, <2>2, <3>1, KnownUnwind DEF Stopped
  <2>3. CASE ~Stopped(r)
    <3>1. op' = [op EXCEPT ![approval[r]] = "started"] /\ UNCHANGED saved
      BY <1>1, <2>3 DEF Start, run
    <3>2. approval[r] \in Ids /\ owner[approval[r]] = r
      BY <2>1 DEF ApprovalOfRun, TypeOK
    <3>3. saved[r] # "cancelled"
      BY <2>1 DEF WorkOfTask, Terminal
    <3>4. \A i \in Ids : op'[i] \in Spoiled => op[i] \in Spoiled \/ saved'[owner[i]] # "cancelled"
      BY <3>1, <3>2, <3>3 DEF TypeOK
    <3>5. QED
      BY <2>1, <3>1, <3>4, KnownFrame
  <2>4. QED
    BY <2>2, <2>3
<1>2. ASSUME NEW r \in Runs, Upload(r)
      PROVE  CancelledIsKnown'
  <2>1. UNCHANGED <<owner, faults>> /\ task[r] = "running"
    BY <1>2 DEF Upload, Running, approvals, bounds
  <2>2. CASE Barred(r)
    <3>1. Unwinds(r) /\ (cancelling[r] \/ hb[r] # "on")
      BY <1>2, <2>2 DEF Upload, Barred, Fenced
    <3>2. QED
      BY <2>1, <3>1, KnownUnwind
  <2>3. CASE ~Barred(r)
    BY <1>0, <1>2, <2>1, <2>3 DEF Upload, run
  <2>4. QED
    BY <2>2, <2>3
<1>3. ASSUME NEW r \in Runs, Finish(r)
      PROVE  CancelledIsKnown'
  <2>1. Settles(r) /\ task[r] = "running" /\ UNCHANGED <<owner, faults>>
    BY <1>3, FinishFacts DEF approvals, bounds
  <2>2. PICK o \in {"completed", "unknown"} : op' = [op EXCEPT ![approval[r]] = o]
    BY <1>3, FinishFacts
  <2>3. op[approval[r]] \in Spoiled
    BY <2>1 DEF WorkOfTask, Spoiled
  <2>4. \A i \in Ids : op'[i] \in Spoiled => op[i] \in Spoiled
    BY <2>2, <2>3 DEF TypeOK
  <2>5. \E s \in {"completed", "failed"} : SettleAs(r, s, TRUE)
    BY <1>3 DEF Finish
  <2>6. saved'[r] = "cancelled" => saved[r] = "cancelled"
    BY <2>5, SettledRow
  <2>7. \A q \in Runs \ {r} : saved'[q] = saved[q]
    BY <2>1 DEF Settles
  <2>8. QED
    BY <2>1, <2>4, <2>6, <2>7, KnownFrame
<1>4. ASSUME NEW r \in Runs, Unwind(r)
      PROVE  CancelledIsKnown'
  <2>1. UNCHANGED <<owner, faults>> /\ hb[r] # "on" /\ task[r] \in {"ready", "running"}
    BY <1>4 DEF Unwind, Struck, approvals, bounds
  <2>2. CASE Unwinds(r)
    BY <2>1, <2>2, KnownUnwind
  <2>3. CASE UNCHANGED <<run, op>>
    BY <1>0, <2>1, <2>3 DEF run
  <2>4. QED
    BY <1>4, <2>2, <2>3 DEF Unwind
<1>5. ASSUME NEW r \in Runs, Drain(r) \/ Block(r)
      PROVE  CancelledIsKnown'
  <2>1. Interrupts({r}) /\ UNCHANGED <<owner, faults>>
    BY <1>5, InterruptOne DEF Drain, Block, approvals, bounds
  <2>2. saved' = saved \/ saved' = [saved EXCEPT ![r] = "blocked"]
    BY <1>5 DEF Drain, Block, run
  <2>3. \A q \in Runs : saved'[q] = "cancelled" => saved[q] = "cancelled"
    BY <2>2 DEF TypeOK
  <2>4. \A i \in Ids : op'[i] \in Spoiled => op[i] \in Spoiled
    BY <2>1, InterruptSpoils
  <2>5. QED
    BY <2>1, <2>3, <2>4, KnownFrame
<1>6. ASSUME NEW r \in Runs, Cancelled(r)
      PROVE  CancelledIsKnown'
  <2> DEFINE now == IF Uncertain(r) \/ task[r] # "none" THEN "blocked" ELSE "cancelled"
  <2>1. /\ Interrupts({r}) /\ UNCHANGED <<owner, faults>>
        /\ saved' = [saved EXCEPT ![r] = IF settled[r] \/ Loggable(r) THEN now ELSE @]
    BY <1>6, InterruptOne DEF Cancelled, approvals, bounds
  <2>2. \A q \in Runs \ {r} : saved'[q] = saved[q]
    BY <2>1 DEF TypeOK
  <2>3. \A i \in Ids : op'[i] \in Spoiled => op[i] \in Spoiled
    BY <2>1, InterruptSpoils
  <2>4. ASSUME saved'[r] = "cancelled", saved[r] # "cancelled", NEW i \in Ids, owner[i] = r
        PROVE  op'[i] \notin Spoiled
    <3>1. now = "cancelled"
      BY <2>1, <2>4 DEF TypeOK
    <3>2. ~Uncertain(r)
      BY <3>1
    <3>3. QED
      BY <2>1, <2>4, <3>2 DEF Uncertain, Interrupts, Spoiled
  <2>5. CASE saved'[r] = "cancelled" => saved[r] = "cancelled"
    BY <2>1, <2>2, <2>3, <2>5, KnownFrame
  <2>6. CASE saved'[r] = "cancelled" /\ saved[r] # "cancelled"
    BY <2>1, <2>2, <2>3, <2>4, <2>6 DEF CancelledIsKnown, Spoiled
  <2>7. QED
    BY <2>5, <2>6
<1>7. ASSUME NEW r \in Runs, NEW i \in Ids, Prepare(r, i)
      PROVE  CancelledIsKnown'
  <2>1. owner' = [owner EXCEPT ![i] = r] /\ UNCHANGED <<op, faults>> /\ appr[i] = "none"
    BY <1>7 DEF Prepare, ops, bounds
  <2>2. saved' = saved \/ saved' = [saved EXCEPT ![r] = "awaiting"]
    BY <1>7 DEF Prepare
  <2>3. \A q \in Runs : saved'[q] = "cancelled" => saved[q] = "cancelled"
    BY <2>2 DEF TypeOK
  <2>4. op[i] = "none"
    BY <2>1 DEF ConsumedIsBound
  <2>5. \A j \in Ids : op'[j] \in Spoiled => op[j] \in Spoiled /\ owner'[j] = owner[j]
    BY <2>1, <2>4 DEF TypeOK, Spoiled
  <2>6. QED
    BY <2>1, <2>3, <2>5, KnownFrame
<1>8. ASSUME NEW r \in Runs, NEW b \in Bindings, NEW late \in BOOLEAN, NEW breaks \in BOOLEAN, Confirm(r, b, late, breaks)
      PROVE  CancelledIsKnown'
  <2>1. /\ op' = [op EXCEPT ![approval[r]] = IF Preparable(approval[r], b) THEN "prepared" ELSE @]
        /\ UNCHANGED owner
    BY <1>8, ConfirmFacts
  <2>2. faults' = 0 => faults = 0
    BY <1>8 DEF Confirm, TypeOK
  <2>3. PICK kept \in BOOLEAN : saved' = [saved EXCEPT ![r] = IF kept THEN "running" ELSE @]
    BY <1>8 DEF Confirm
  <2>4. \A q \in Runs : saved'[q] = "cancelled" => saved[q] = "cancelled"
    BY <2>3 DEF TypeOK
  <2>5. \A j \in Ids : op'[j] \in Spoiled => op[j] \in Spoiled
    BY <2>1 DEF TypeOK, Spoiled
  <2>6. QED
    BY <2>1, <2>2, <2>4, <2>5, KnownFrame
<1>9. ASSUME NEW r \in Runs, Cancel(r)
      PROVE  CancelledIsKnown'
  <2>1. UNCHANGED <<owner, op, faults>>
    BY <1>9 DEF Cancel, approvals, ops, bounds
  <2>2. saved' = saved \/ saved' = [saved EXCEPT ![r] = "cancelling"]
    BY <1>9 DEF Cancel
  <2>3. \A q \in Runs : saved'[q] = "cancelled" => saved[q] = "cancelled"
    BY <2>2 DEF TypeOK
  <2>4. QED
    BY <2>1, <2>3, KnownFrame
<1>10. ASSUME NEW r \in Runs, Lapse(r)
      PROVE  CancelledIsKnown'
  <2>1. UNCHANGED <<saved, owner, op>> /\ (faults' = 0 => faults = 0)
    BY <1>10 DEF Lapse, run, approvals, ops, TypeOK
  <2>2. QED
    BY <2>1, KnownFrame
<1>11. ASSUME Restart
      PROVE  CancelledIsKnown'
  <2>1. /\ saved' = [r \in Runs |-> IF saved[r] \notin Terminal THEN "failed" ELSE saved[r]]
        /\ UNCHANGED <<owner, faults>>
        /\ Interrupts({r \in Runs : saved[r] \notin Terminal})
    BY <1>11, RestartFacts DEF bounds
  <2>2. \A q \in Runs : saved'[q] = "cancelled" => saved[q] = "cancelled"
    BY <2>1
  <2>3. \A i \in Ids : op'[i] \in Spoiled => op[i] \in Spoiled
    BY <2>1, InterruptSpoils
  <2>4. QED
    BY <2>1, <2>2, <2>3, KnownFrame
<1>12. ASSUME NEW r \in Runs,
              \/ RefuseUpload(r) \/ Uploaded(r) \/ End(r) \/ Notice(r) \/ Kill(r) \/ Abort(r)
              \/ ConfirmRefused(r) \/ \E b \in Bindings : ConfirmWaits(r, b)
      PROVE  CancelledIsKnown'
  BY <1>0, <1>12 DEF RefuseUpload, Uploaded, End, Notice, Kill, Abort, ConfirmRefused, ConfirmWaits,
     run, work, approvals, ops, bounds
<1>13. ASSUME (\E i \in Ids : OrphanEnds(i)) \/ ExpireLease \/ Crash \/ UNCHANGED vars
      PROVE  CancelledIsKnown'
  BY <1>0, <1>13 DEF OrphanEnds, ExpireLease, Crash, vars, run, approvals, ops, bounds
<1>14. QED
  <2>1. CASE UNCHANGED vars
    BY <1>13, <2>1
  <2>2. CASE Next
    BY <2>2, Steps, <1>1, <1>2, <1>3, <1>4, <1>5, <1>6, <1>7, <1>8, <1>9, <1>10, <1>11, <1>12, <1>13
  <2>3. QED
    BY <2>1, <2>2

LEMMA InitIInv == Init => IInv /\ LeaseOfTask
<1> SUFFICES ASSUME Init
             PROVE  IInv /\ LeaseOfTask
  OBVIOUS
<1>1. TypeOK
  BY FlashAssumption DEF Init, TypeOK, Statuses, Terminal
<1>2. ApprovalOfRun /\ WorkOfTask /\ LeaseOfTask
  BY DEF Init, ApprovalOfRun, WorkOfTask, LeaseOfTask
<1>3. ConsumedIsBound /\ StartedIsRunning /\ WriteOfApproval
  BY DEF Init, ConsumedIsBound, StartedIsRunning, WriteOfApproval
<1>4. QED
  BY <1>1, <1>2, <1>3 DEF IInv

LEMMA Invariance == Spec => [](IInv /\ LeaseOfTask)
<1>1. IInv /\ LeaseOfTask /\ [Next]_vars => (IInv /\ LeaseOfTask)'
  <2> SUFFICES ASSUME IInv, LeaseOfTask, [Next]_vars
               PROVE  (IInv /\ LeaseOfTask)'
    OBVIOUS
  <2>1. TypeOK /\ ApprovalOfRun /\ ConsumedIsBound
    BY DEF IInv
  <2>2. TypeOK'
    BY <2>1, TypeStep
  <2>3. ApprovalOfRun' /\ ConsumedIsBound' /\ LeaseOfTask'
    BY <2>1, <2>2, ApprovalStep, ConsumedStep, LeaseStep
  <2>4. WorkOfTask' /\ StartedIsRunning' /\ WriteOfApproval'
    BY <2>2, WorkStep, StartedStep, WriteStep
  <2>5. QED
    BY <2>2, <2>3, <2>4 DEF IInv
<1>2. QED
  BY InitIInv, <1>1, PTL DEF Spec

\* Writers, fences and cancelled rows, over the invariant above.
LEMMA RecordInvariance == Spec => [](WritersWork /\ Fenced /\ CancelledIsKnown)
<1>1. Init => WritersWork /\ Fenced /\ CancelledIsKnown
  <2> SUFFICES ASSUME Init
               PROVE  WritersWork /\ Fenced /\ CancelledIsKnown
    OBVIOUS
  <2>1. WritersWork
    BY DEF Init, WritersWork
  <2>2. Fenced
    BY DEF Init, Fenced
  <2>3. CancelledIsKnown
    BY DEF Init, CancelledIsKnown
  <2>4. QED
    BY <2>1, <2>2, <2>3
<1>2. IInv /\ IInv' /\ WritersWork /\ Fenced /\ CancelledIsKnown /\ [Next]_vars
        => (WritersWork /\ Fenced /\ CancelledIsKnown)'
  <2> SUFFICES ASSUME IInv, IInv', WritersWork, Fenced, CancelledIsKnown, [Next]_vars
               PROVE  (WritersWork /\ Fenced /\ CancelledIsKnown)'
    OBVIOUS
  <2>1. TypeOK /\ TypeOK' /\ ApprovalOfRun /\ ConsumedIsBound /\ WorkOfTask
    BY DEF IInv
  <2>2. WritersWork'
    BY <2>1, WritersStep
  <2>3. Fenced'
    BY <2>1, FencedStep
  <2>4. CancelledIsKnown'
    BY <2>1, KnownStep
  <2>5. QED
    BY <2>2, <2>3, <2>4
<1>3. QED
  BY Invariance, <1>1, <1>2, PTL DEF Spec

(***************************************************************************)
(* The theorems.                                                           *)
(***************************************************************************)

\* Rows, runs and the lease keep their forms (the tables agent_approvals,
\* agent_operations, agent_session_leases and the fields of a run).
THEOREM TypeCorrect == Spec => []TypeOK
<1>1. IInv => TypeOK
  BY DEF IInv
<1>2. QED
  BY Invariance, <1>1, PTL

\* consume_approval: one write per approval, of what was approved, whatever crashes,
\* sleeps, cancellations and failures come between.
THEOREM ApprovalIsOneTime == Spec => []OneWritePerApproval
<1>1. IInv => OneWritePerApproval
  <2> SUFFICES ASSUME IInv, NEW i \in Ids, wrote[i] > 0
               PROVE  wrote[i] = 1 /\ appr[i] = "consumed" /\ opBound[i] = "same"
    BY DEF OneWritePerApproval
  <2>1. wrote[i] = 1 /\ appr[i] = "consumed"
    BY DEF IInv, WriteOfApproval
  <2>2. QED
    BY <2>1 DEF IInv, ConsumedIsBound
<1>2. QED
  BY Invariance, <1>1, PTL

\* interrupt_operations: no write is forgotten; its record says completed or unknown
\* as soon as nobody works on it.
THEOREM WritesAreAccounted == Spec => []OutcomeKept
<1>1. IInv => OutcomeKept
  <2> SUFFICES ASSUME IInv, NEW i \in Ids, wrote[i] > 0
               PROVE  \/ op[i] \in {"completed", "unknown"}
                      \/ /\ op[i] = "started"
                         /\ ~up \/ (approval[owner[i]] = i /\ task[owner[i]] # "none")
    BY DEF OutcomeKept
  <2>1. op[i] \in {"started", "completed", "unknown"}
    BY DEF IInv, WriteOfApproval
  <2>2. op[i] = "started" => approval[owner[i]] = i /\ task[owner[i]] # "none"
    BY DEF IInv, StartedIsRunning
  <2>3. QED
    BY <2>1, <2>2
<1>2. QED
  BY Invariance, <1>1, PTL

\* acquire_lease and the heartbeat: two runs of a session never work at once while
\* renewals succeed and the machine is awake.
THEOREM OneRunWorks == Spec => []OneWorker
<1>1. IInv /\ LeaseOfTask => OneWorker
  BY DEF LeaseOfTask, OneWorker, Owns
<1>2. QED
  BY Invariance, <1>1, PTL

\* cancel and _restore_runs: a row that says "cancelled" is the last word on every
\* effect of its run, while renewals and events do not fail; a task that was struck
\* cannot write that row, because its lease is gone or its phase is settled.
THEOREM CancellationsAreKnown == Spec => []CancelledIsKnown
<1>1. QED
  BY RecordInvariance, PTL

\* _run_with_lease_heartbeat, cancel_executor and flash_firmware: no tool writes for
\* a run that is over, as long as the process lives.
THEOREM NoWriteAfterTheEnd == Spec => []QuietWhenOver
<1>1. IInv /\ WritersWork => QuietWhenOver
  <2> SUFFICES ASSUME IInv, WritersWork, NEW r \in Runs, up, crashes = 0,
                      status[r] \in {"completed", "cancelled"},
                      NEW i \in writing, owner[i] = r
               PROVE  FALSE
    BY DEF QuietWhenOver
  <2>1. task[r] = "running"
    BY DEF WritersWork
  <2>2. status[r] # "completed"
    BY <2>1 DEF IInv, WorkOfTask
  <2>3. QED
    BY <2>1, <2>2 DEF WritersWork
<1>2. QED
  BY Invariance, RecordInvariance, <1>1, PTL
=============================================================================

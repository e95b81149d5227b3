--------------------------- MODULE HardwareFlash ----------------------------
(***************************************************************************)
(* Flashing a device once per approval (backend/agent_runtime:             *)
(* orchestrator.py, approvals.py, orchestration_store.py), for the runs of *)
(* one session.                                                            *)
(*                                                                         *)
(* prepare_flash issues an approval bound to a fingerprint of port, board, *)
(* environment, artifact and workspace.  confirm_flash takes the session   *)
(* lease, records an operation, consumes the approval and starts a task    *)
(* that drives the device under a lease heartbeat.  Cancellation, a lost   *)
(* lease and a dead process cut into that task between any two of its      *)
(* suspension points; runs, approvals, operations and the lease are rows   *)
(* that survive the process.                                               *)
(***************************************************************************)
EXTENDS Integers, FiniteSets

CONSTANTS
    Runs,         \* runs of the session whose verified build is completed
    Approvals,    \* approvals that can be issued, each names its operation
    None,
    MaxEpoch,     \* bounds of the exploration: lease grants;
    MaxTroubles   \* crashes, sleeps and faults together

ASSUME FlashAssumption ==
    /\ None \notin Runs /\ None \notin Nat
    /\ Approvals \in Nat
    /\ MaxEpoch \in Nat /\ MaxTroubles \in Nat

Ids == 1 .. Approvals

\* The binding of a confirmation, seen from the approval's: its own, or one with
\* another port, board, environment, artifact or workspace.
Bindings == {"same", "other"}

VARIABLES
    up,                          \* the backend process runs
    status, approval,            \* run.status, run.approval_id
    settled,                     \* run.events holds this phase's settlement
    task, outcome,               \* the flash task; what the executor returned
    hb,                          \* lease heartbeat and the task's reaction to it
    cancelling,                  \* _cancelling_runs
    canceller,                   \* where a call of cancel is
    confirming,                  \* binding a waiting call of confirm_flash proposes
    grant,                       \* _leases: epoch of the grant held, 0 for none
    saved,                       \* runs on disk: status
    appr, owner,                 \* agent_approvals
    op, opBound,                 \* agent_operations
    holder, epoch, live,         \* agent_session_leases; live: not expired
    writing, wrote,              \* device writes in progress; ever started
    crashes, sleeps, faults

run      == <<status, approval, settled, saved>>
work     == <<task, outcome, hb>>
calls    == <<cancelling, canceller, confirming>>
approvals == <<appr, owner>>
ops      == <<op, opBound>>
lease    == <<holder, epoch, live, grant>>
device   == <<writing, wrote>>
bounds   == <<crashes, sleeps, faults>>
vars == <<up, run, work, calls, approvals, ops, lease, device, bounds>>

MoreTrouble == crashes + sleeps + faults < MaxTroubles

Terminal == {"completed", "failed", "blocked", "cancelled"}
Statuses == Terminal \cup {"awaiting", "running", "cancelling"}

TypeOK ==
    /\ up \in BOOLEAN
    /\ status \in [Runs -> Statuses] /\ saved \in [Runs -> Statuses]
    /\ approval \in [Runs -> Ids \cup {None}]
    /\ settled \in [Runs -> BOOLEAN]
    /\ task \in [Runs -> {"none", "ready", "running", "ending"}]
    /\ outcome \in [Runs -> {"none", "writing", "ok", "bad"}]
    /\ hb \in [Runs -> {"on", "failed", "killing", "lost", "aborted"}]
    /\ cancelling \in [Runs -> BOOLEAN]
    /\ canceller \in [Runs -> {"none", "killing", "waiting", "failed"}]
    /\ confirming \in [Runs -> Bindings \cup {None}]
    /\ appr \in [Ids -> {"none", "pending", "consumed", "invalidated"}]
    /\ owner \in [Ids -> Runs \cup {None}]
    /\ op \in [Ids -> {"none", "prepared", "started", "completed", "unknown"}]
    /\ opBound \in [Ids -> Bindings \cup {None}]
    /\ holder \in Runs \cup {None} /\ epoch \in Nat /\ live \in BOOLEAN
    /\ grant \in [Runs -> Nat]
    /\ writing \subseteq Ids /\ wrote \in [Ids -> Nat]
    /\ crashes \in Nat /\ sleeps \in Nat /\ faults \in Nat

Init ==
    /\ up = TRUE
    /\ status = [r \in Runs |-> "completed"] /\ saved = status
    /\ approval = [r \in Runs |-> None]
    /\ settled = [r \in Runs |-> TRUE]
    /\ task = [r \in Runs |-> "none"]
    /\ outcome = [r \in Runs |-> "none"]
    /\ hb = [r \in Runs |-> "on"]
    /\ cancelling = [r \in Runs |-> FALSE]
    /\ canceller = [r \in Runs |-> "none"]
    /\ confirming = [r \in Runs |-> None]
    /\ appr = [i \in Ids |-> "none"] /\ owner = [i \in Ids |-> None]
    /\ op = [i \in Ids |-> "none"] /\ opBound = [i \in Ids |-> None]
    /\ holder = None /\ epoch = 0 /\ live = FALSE
    /\ grant = [r \in Runs |-> 0]
    /\ writing = {} /\ wrote = [i \in Ids |-> 0]
    /\ crashes = 0 /\ sleeps = 0 /\ faults = 0

----------------------------------------------------------------------------
(* The store *)

\* _assert_lease_tx: the grant is the current one and has not expired.
Owns(r) == holder = r /\ epoch = grant[r] /\ live

\* append_event checks the grant of a run that holds one.
Loggable(r) == grant[r] = 0 \/ Owns(r)

\* acquire_lease refuses another owner whose lease has not expired.
\* Mutant: nobody is refused.
NeverHeld(r) == FALSE
Held(r) == live /\ holder \notin {r, None}

\* release_lease: fenced out unless the grant is the current one.
Releases(r) ==
    /\ holder' = IF holder = r /\ epoch = grant[r] THEN None ELSE holder
    /\ live' = IF holder = r /\ epoch = grant[r] THEN FALSE ELSE live
    /\ grant' = [grant EXCEPT ![r] = 0]
    /\ UNCHANGED epoch

\* interrupt_operations: an effect that was started has an unknown outcome.
\* Mutants: started operations stay as they are; they count as failed.
LeftStarted(R) == op
MarkedFailed(R) == [i \in Ids |-> IF owner[i] \in R /\ op[i] = "started" THEN "failed" ELSE op[i]]
Interrupted(R) == [i \in Ids |-> IF owner[i] \in R /\ op[i] = "started" THEN "unknown" ELSE op[i]]

\* consume_approval: pending and the same fingerprint, in time.  One that comes
\* too late changes nothing: the transaction that marks it is rolled back.
\* Mutant: the fingerprint is not compared.
ConsumableAs(i, b, late) == appr[i] = "pending" /\ ~late
Consumable(i, b, late) == appr[i] = "pending" /\ b = "same" /\ ~late

\* operation(..., "prepared"): a new row, or the same fingerprint not yet settled.
Preparable(i, b) == op[i] = "none" \/ (opBound[i] = b /\ op[i] \notin {"completed", "unknown"})

----------------------------------------------------------------------------
(* prepare_flash and confirm_flash *)

Prepare(r, i) ==
    /\ up /\ status[r] = "completed"
    /\ appr[i] = "none" /\ \A j \in 1 .. i - 1 : appr[j] # "none"
    /\ appr' = [appr EXCEPT ![i] = "pending"]
    /\ owner' = [owner EXCEPT ![i] = r]
    /\ approval' = [approval EXCEPT ![r] = i]
    /\ status' = [status EXCEPT ![r] = "awaiting"]
    /\ IF Loggable(r) THEN /\ saved' = [saved EXCEPT ![r] = "awaiting"]
                           /\ settled' = [settled EXCEPT ![r] = FALSE]
                      ELSE UNCHANGED <<saved, settled>>
    /\ UNCHANGED <<up, work, calls, ops, lease, device, bounds>>

\* A call takes the run's recovery lock and, if the previous task has not ended,
\* waits for it, at most five seconds.
ConfirmWaits(r, b) ==
    /\ up /\ status[r] = "awaiting" /\ confirming[r] = None /\ task[r] # "none"
    /\ confirming' = [confirming EXCEPT ![r] = b]
    /\ UNCHANGED <<up, run, work, cancelling, canceller, approvals, ops, lease, device, bounds>>

\* The wait timed out, the run is over or the session is taken.
ConfirmRefused(r) ==
    /\ up /\ confirming[r] # None
    /\ task[r] # "none" \/ status[r] # "awaiting" \/ Held(r)
    /\ confirming' = [confirming EXCEPT ![r] = None]
    /\ UNCHANGED <<up, run, work, cancelling, canceller, approvals, ops, lease, device, bounds>>

\* _acquire_flash and _confirm_flash_impl, without a suspension point: the lease,
\* the operation, the approval, then the status and two events.
Confirm(r, b, late, breaks) ==
    LET i == approval[r]
    IN  /\ up /\ status[r] = "awaiting" /\ task[r] = "none" /\ ~Held(r)
        /\ epoch < MaxEpoch
        /\ confirming[r] \in {b, None}
        /\ confirming' = [confirming EXCEPT ![r] = None]
        /\ epoch' = epoch + 1
        /\ op' = [op EXCEPT ![i] = IF Preparable(i, b) THEN "prepared" ELSE @]
        /\ opBound' = [opBound EXCEPT ![i] = IF op[i] = "none" THEN b ELSE @]
        /\ faults' = IF breaks THEN faults + 1 ELSE faults
        /\ LET accepted == Preparable(i, b) /\ Consumable(i, b, late)
               kept == accepted /\ ~breaks
           IN  /\ breaks => accepted /\ MoreTrouble
               /\ holder' = IF kept THEN r ELSE None
               /\ live' = kept
               /\ grant' = [grant EXCEPT ![r] = IF kept THEN epoch + 1 ELSE 0]
               /\ appr' = [appr EXCEPT ![i] = IF accepted THEN "consumed" ELSE @]
               /\ status' = [status EXCEPT ![r] = IF accepted THEN "running" ELSE @]
               /\ saved' = [saved EXCEPT ![r] = IF kept THEN "running" ELSE @]
               /\ task' = [task EXCEPT ![r] = IF kept THEN "ready" ELSE @]
               /\ outcome' = [outcome EXCEPT ![r] = IF kept THEN "none" ELSE @]
               /\ hb' = [hb EXCEPT ![r] = IF kept THEN "on" ELSE @]
        /\ UNCHANGED <<up, approval, settled, cancelling, canceller,
                       owner, device, crashes, sleeps>>

----------------------------------------------------------------------------
(* The task *)

\* _event with a settlement, then _persist_run where the handler has it: nothing
\* while a cancellation drains, the first settlement of a phase only, and an
\* exception when the lease is gone.
SettleAs(r, s, persists) ==
    IF cancelling[r]
      THEN /\ status' = [status EXCEPT ![r] = "cancelling"]
           /\ saved' = [saved EXCEPT ![r] = IF persists THEN "cancelling" ELSE @]
           /\ UNCHANGED <<approval, settled>>
      ELSE LET logs == settled[r] \/ Loggable(r)
               now == IF logs \/ s = "cancelled" THEN s ELSE "failed"
           IN  /\ status' = [status EXCEPT ![r] = now]
               /\ saved' = [saved EXCEPT ![r] = IF ~logs \/ (settled[r] /\ ~persists) THEN @ ELSE s]
               /\ settled' = [settled EXCEPT ![r] = IF logs THEN TRUE ELSE @]
               /\ UNCHANGED approval

\* except CancelledError: interrupted operations, "cancelled", and no _persist_run.
Unwinds(r) ==
    /\ SettleAs(r, "cancelled", FALSE)
    /\ op' = Interrupted({r})
    /\ task' = [task EXCEPT ![r] = "ending"]

\* The coroutine was cancelled: its next step is the CancelledError.
Struck(r) == hb[r] \in {"lost", "aborted"}
Running(r) == up /\ task[r] = "running" /\ ~Struck(r)

\* run.cancel_event was set, by a cancellation or a failed renewal; the manager
\* knows the run's processes as cancelled.
Stopped(r) == cancelling[r] \/ hb[r] # "on"
Barred(r) == canceller[r] # "none" \/ hb[r] = "killing"

\* The first step of execute(): a cancelled run does nothing.
Start(r) ==
    /\ up /\ task[r] = "ready" /\ ~Struck(r)
    /\ IF Stopped(r)
         THEN Unwinds(r)
         ELSE /\ op' = [op EXCEPT ![approval[r]] = "started"]
              /\ task' = [task EXCEPT ![r] = "running"]
              /\ UNCHANGED run
    /\ UNCHANGED <<up, outcome, hb, calls, approvals, opBound, lease, device, bounds>>

\* flash_firmware runs the upload tool once, after its checks; a run whose
\* processes were cancelled spawns none.
Upload(r) ==
    /\ Running(r) /\ outcome[r] = "none"
    /\ IF Barred(r)
         THEN Unwinds(r) /\ UNCHANGED <<outcome, device>>
         ELSE /\ writing' = writing \cup {approval[r]}
              /\ wrote' = [wrote EXCEPT ![approval[r]] = @ + 1]
              /\ outcome' = [outcome EXCEPT ![r] = "writing"]
              /\ UNCHANGED <<run, task, op>>
    /\ UNCHANGED <<up, hb, calls, approvals, opBound, lease, bounds>>

\* A check refuses the artifact, the board or the port.
RefuseUpload(r) ==
    /\ Running(r) /\ outcome[r] = "none"
    /\ outcome' = [outcome EXCEPT ![r] = "bad"]
    /\ UNCHANGED <<up, run, task, hb, calls, approvals, ops, lease, device, bounds>>

\* The tool exits: flashed, or failed, timed out or killed.
Uploaded(r) ==
    /\ Running(r) /\ outcome[r] = "writing"
    /\ writing' = writing \ {approval[r]}
    /\ \E o \in (IF approval[r] \in writing THEN {"ok", "bad"} ELSE {"bad"}) :
         outcome' = [outcome EXCEPT ![r] = o]
    /\ UNCHANGED <<up, run, task, hb, calls, approvals, ops, lease, wrote, bounds>>

\* The result is recorded; when somebody settled the operation meanwhile, that
\* raises and the run fails.
Finish(r) ==
    /\ Running(r) /\ outcome[r] \in {"ok", "bad"}
    /\ LET i == approval[r]
           good == outcome[r] = "ok" /\ op[i] # "unknown"
       IN  /\ op' = [op EXCEPT ![i] = IF good THEN "completed" ELSE "unknown"]
           /\ SettleAs(r, IF good THEN "completed" ELSE "failed", TRUE)
    /\ task' = [task EXCEPT ![r] = "ending"]
    /\ UNCHANGED <<up, outcome, hb, calls, approvals, opBound, lease, device, bounds>>

\* The task is done and its lease released.
Leaves(r) ==
    /\ task' = [task EXCEPT ![r] = "none"]
    /\ outcome' = [outcome EXCEPT ![r] = "none"]
    /\ hb' = [hb EXCEPT ![r] = "on"]
    /\ Releases(r)

\* The heartbeat is joined without an error or the task was cancelled.
End(r) ==
    /\ up /\ task[r] = "ending" /\ hb[r] \in {"on", "aborted"}
    /\ Leaves(r)
    /\ UNCHANGED <<up, run, calls, approvals, ops, device, bounds>>

----------------------------------------------------------------------------
(* A lost lease *)

\* The renewal thread fails: the lease is not ours any more, or the database
\* refused.  It sets the cancel event at once, whatever the event loop does.
Lapse(r) ==
    /\ up /\ task[r] # "none" /\ hb[r] = "on"
    /\ ~Owns(r) \/ MoreTrouble
    /\ hb' = [hb EXCEPT ![r] = "failed"]
    /\ faults' = IF Owns(r) THEN faults + 1 ELSE faults
    /\ UNCHANGED <<up, run, task, outcome, calls, approvals, ops, lease, device, crashes, sleeps>>

\* Mutant: a task that is done is not watched any more.
WatchedWhileBusy(r) == task[r] \in {"ready", "running"}
Watched(r) == task[r] # "none"

\* _run_with_lease_heartbeat notices, also when the operation ended first, and
\* calls cancel_executor.
Notice(r) ==
    /\ up /\ Watched(r) /\ hb[r] = "failed"
    /\ hb' = [hb EXCEPT ![r] = "killing"]
    /\ UNCHANGED <<up, run, task, outcome, calls, approvals, ops, lease, device, bounds>>

\* cancel_owner kills the tool, or fails; then the operation is cancelled.
Drain(r) ==
    /\ up /\ task[r] # "none" /\ hb[r] = "killing"
    /\ writing' \in {writing, writing \ {approval[r]}}
    /\ op' = Interrupted({r})
    /\ hb' = [hb EXCEPT ![r] = "lost"]
    /\ UNCHANGED <<up, run, task, outcome, calls, approvals, opBound, lease, wrote, bounds>>

\* Mutant: the tool is left running.
LeftRunning(r) == writing
WithoutTool(r) == writing \ {approval[r]}

\* The CancelledError arrives; a tool that still runs is killed on the way out.
Unwind(r) ==
    /\ up /\ Struck(r) /\ task[r] \in {"ready", "running"}
    /\ IF task[r] = "running"
         THEN Unwinds(r) /\ writing' = WithoutTool(r)
         ELSE /\ task' = [task EXCEPT ![r] = "ending"]
              /\ UNCHANGED <<run, op, writing>>
    /\ UNCHANGED <<up, outcome, hb, calls, approvals, opBound, lease, wrote, bounds>>

\* AgentSessionLeaseLost: the outcome is unknown.
Block(r) ==
    /\ up /\ task[r] = "ending" /\ hb[r] = "lost"
    /\ status' = [status EXCEPT ![r] = "blocked"]
    /\ saved' = [saved EXCEPT ![r] = "blocked"]
    /\ op' = Interrupted({r})
    /\ Leaves(r)
    /\ UNCHANGED <<up, approval, settled, calls, approvals, opBound, device, bounds>>

----------------------------------------------------------------------------
(* cancel *)

\* The request is recorded first: when its event is refused, the call ends there.
Cancel(r) ==
    /\ up /\ status[r] \notin Terminal /\ canceller[r] = "none"
    /\ status' = [status EXCEPT ![r] = "cancelling"]
    /\ cancelling' = [cancelling EXCEPT ![r] = TRUE]
    /\ IF Loggable(r) THEN /\ saved' = [saved EXCEPT ![r] = "cancelling"]
                           /\ canceller' = [canceller EXCEPT ![r] = "killing"]
                      ELSE UNCHANGED <<saved, canceller>>
    /\ UNCHANGED <<up, approval, settled, task, outcome, hb, confirming, approvals, ops, lease, device, bounds>>

\* cancel_executor, at most five seconds.
Kill(r) ==
    /\ up /\ canceller[r] = "killing"
    /\ \/ writing' = writing \ {approval[r]} /\ canceller' = [canceller EXCEPT ![r] = "waiting"]
       \/ writing' = writing /\ canceller' = [canceller EXCEPT ![r] = "failed"]
    /\ UNCHANGED <<up, run, work, cancelling, confirming, approvals, ops, lease, wrote, bounds>>

\* The task did not end by itself in 1.5 seconds: it is cancelled.
Abort(r) ==
    /\ up /\ canceller[r] \in {"waiting", "failed"}
    /\ task[r] = "running" /\ ~Struck(r)
    /\ hb' = [hb EXCEPT ![r] = "aborted"]
    /\ UNCHANGED <<up, run, task, outcome, calls, approvals, ops, lease, device, bounds>>

\* Mutant: an unknown outcome does not show.
CleanupOnly(r) == canceller[r] = "failed"
Uncertain(r) == canceller[r] = "failed" \/ \E i \in Ids : owner[i] = r /\ op'[i] = "unknown"

\* The drain is over, or the cancelled task did not end in two more seconds.
Cancelled(r) ==
    /\ up /\ canceller[r] \in {"waiting", "failed"}
    /\ task[r] = "none" \/ hb[r] = "aborted"
    /\ op' = Interrupted({r})
    /\ LET now == IF Uncertain(r) \/ task[r] # "none" THEN "blocked" ELSE "cancelled"
       IN  /\ status' = [status EXCEPT ![r] = now]
           /\ saved' = [saved EXCEPT ![r] = IF settled[r] \/ Loggable(r) THEN now ELSE @]
    /\ settled' = [settled EXCEPT ![r] = IF Loggable(r) THEN TRUE ELSE @]
    /\ cancelling' = [cancelling EXCEPT ![r] = FALSE]
    /\ canceller' = [canceller EXCEPT ![r] = "none"]
    /\ UNCHANGED <<up, approval, work, confirming, approvals, opBound, lease, device, bounds>>

----------------------------------------------------------------------------
(* Time, crashes and restarts *)

\* A lease whose heartbeat runs, or stopped only for a drain (bounded by seconds,
\* the lease by twenty), expires only when the machine sleeps.
Beating == up /\ holder # None /\ grant[holder] = epoch /\ task[holder] # "none"
ExpireLease ==
    /\ live
    /\ Beating => MoreTrouble
    /\ live' = FALSE
    /\ sleeps' = IF Beating THEN sleeps + 1 ELSE sleeps
    /\ UNCHANGED <<up, run, work, calls, approvals, ops, holder, epoch, grant, device, crashes, faults>>

\* The upload tool may outlive the backend.
Crash ==
    /\ up /\ MoreTrouble
    /\ up' = FALSE
    /\ crashes' = crashes + 1
    /\ UNCHANGED <<run, work, calls, approvals, ops, lease, device, sleeps, faults>>

Orphaned(i) == ~up \/ \A r \in Runs : ~(approval[r] = i /\ task[r] = "running")
OrphanEnds(i) ==
    /\ i \in writing /\ Orphaned(i)
    /\ writing' = writing \ {i}
    /\ UNCHANGED <<up, run, work, calls, approvals, ops, lease, wrote, bounds>>

\* _restore_runs: an unfinished run is interrupted, its pending approvals are
\* invalidated and its operations' outcomes are unknown.
Restart ==
    LET broken == {r \in Runs : saved[r] \notin Terminal}
    IN  /\ ~up /\ up' = TRUE
        /\ status' = [r \in Runs |-> IF r \in broken THEN "failed" ELSE saved[r]]
        /\ saved' = status'
        /\ approval' = [r \in Runs |-> None]
        /\ settled' = [r \in Runs |-> TRUE]
        /\ task' = [r \in Runs |-> "none"]
        /\ outcome' = [r \in Runs |-> "none"]
        /\ hb' = [r \in Runs |-> "on"]
        /\ cancelling' = [r \in Runs |-> FALSE]
        /\ canceller' = [r \in Runs |-> "none"]
        /\ confirming' = [r \in Runs |-> None]
        /\ grant' = [r \in Runs |-> 0]
        /\ op' = Interrupted(broken)
        /\ appr' = [i \in Ids |-> IF owner[i] \in broken /\ appr[i] = "pending"
                                    THEN "invalidated" ELSE appr[i]]
        /\ UNCHANGED <<owner, opBound, holder, epoch, live, device, bounds>>

TaskStep(r) ==
    \/ Start(r) \/ Upload(r) \/ RefuseUpload(r) \/ Uploaded(r) \/ Finish(r) \/ End(r)
    \/ Notice(r) \/ Drain(r) \/ Unwind(r) \/ Block(r)
CancelStep(r) == Kill(r) \/ Cancelled(r)
CallStep(r) ==
    \/ \E i \in Ids : Prepare(r, i)
    \/ (\E b \in Bindings : ConfirmWaits(r, b)) \/ ConfirmRefused(r)
    \/ \E b \in Bindings, late, breaks \in BOOLEAN : Confirm(r, b, late, breaks)
    \/ Cancel(r) \/ Abort(r) \/ Lapse(r)

Next ==
    \/ \E r \in Runs : TaskStep(r) \/ CancelStep(r) \/ CallStep(r)
    \/ \E i \in Ids : OrphanEnds(i)
    \/ ExpireLease \/ Crash \/ Restart

\* The event loop resumes what is ready, the tool has a timeout, the waits of a
\* drain are bounded.  Nobody has to call, and nothing has to fail.
Fairness == \A r \in Runs : WF_vars(TaskStep(r)) /\ WF_vars(CancelStep(r))

Spec == Init /\ [][Next]_vars /\ Fairness

----------------------------------------------------------------------------
(* Properties *)

\* "Flash ... consumes a one-time approval" (docs/production-beta-hardening.md:15):
\* the device is written at most once per approval, only after that approval was
\* consumed, and only what the user saw when it was issued, through any number of
\* confirmations, cancellations, lost leases and restarts.
OneWritePerApproval ==
    \A i \in Ids : wrote[i] > 0 =>
        wrote[i] = 1 /\ appr[i] = "consumed" /\ opBound[i] = "same"

\* "Interrupted started effects become unknown": when nothing works on a run any
\* more, the record of every write it started says completed or unknown.
OutcomeKept ==
    \A i \in Ids : wrote[i] > 0 =>
        \/ op[i] \in {"completed", "unknown"}
        \/ op[i] = "started" /\ (~up \/ (approval[owner[i]] = i /\ task[owner[i]] # "none"))

\* "Flash holds the session lease": unless a renewal failed or the machine slept
\* through a lease, two runs of a session never work on devices at the same time,
\* not while one is cancelled or unwinding, and not around a crash.
OneWorker ==
    (up /\ sleeps = 0 /\ faults = 0) =>
        \A r, s \in Runs : task[r] # "none" /\ task[s] # "none" => r = s

\* A run that is recorded as cancelled left no effect with an unknown outcome.
CancelledIsKnown ==
    faults = 0 => \A r \in Runs : saved[r] = "cancelled" =>
        \A i \in Ids : owner[i] = r => op[i] \notin {"started", "unknown"}

\* While the process lives, nobody works on the device for a run that is over.
QuietWhenOver ==
    \A r \in Runs : (up /\ crashes = 0 /\ status[r] \in {"completed", "cancelled"}) =>
        \A i \in writing : owner[i] # r

\* The session comes to rest again and again: every flash that was started,
\* cancelled or lost ends, and its run is over then.  Two failures leave a run
\* stranded: an event that raises after the approval was consumed (no task ever
\* runs), and a cancellation whose event the lease refuses after a sleep.
FlashesEnd ==
    LET Stranded == (IF faults > 0 THEN {"running"} ELSE {})
                        \cup (IF sleeps > 0 THEN {"cancelling"} ELSE {})
    IN  []<>(~up \/ \A r \in Runs : /\ task[r] = "none"
                                    /\ status[r] \in Terminal \cup {"awaiting"} \cup Stranded)
=============================================================================

# ForgeX: specifications, model checking and proofs

ForgeX (the repository's product name; the package is `promptforge`) is a desktop
workspace for embedded development. An agent edits a staged copy of the user's
project; the user reviews the result and publishes it to the real workspace. This
directory holds TLA+ models of the parts of the program whose correctness depends
on interleavings, failures and restarts, the configurations that check them with
TLC, and theorems about them with proofs for TLAPS.

    tlc -workers 2 -config publish_faults.cfg MCChangePublish
    tlc -workers 2 -config gate.cfg MCProviderGate
    tlc -workers 2 -config hardware.cfg MCHardwareFlash
    tlc -workers 2 -config jobs.cfg MCAgentJobs
    tlc -workers 2 -config desktop.cfg MCDesktopBackend      (and builds.cfg)
    tlapm ChangePublishProofs.tla        (and every module that ends in Proofs,
                                          ChangePublishEdits, AgentJobsChain,
                                          AgentJobsGuidance)

Paths below are relative to the repository (`src/`); `orchestrator.py`, `jobs.py` and
`orchestration_store.py` are in `backend/agent_runtime/`.

## 1. Inventory of the system

| Component | State it keeps | Operations | What makes it hard |
|---|---|---|---|
| ChangeSet publication (`backend/changes/service.py`, `models.py`) | stages, `__undo__` backups, one journal and one metadata file per ChangeSet, `_sets` in memory, the user's workspace | create_stage, inspect_workspace, create_from_stage, apply, undo, discard, recovery at start-up and at the next call | process death between any two disk operations, operations that raise half-way, edits by others |
| Workspace lock (`backend/security/workspace_lock.py`) | OS lock files, thread locks | `with workspace_lock(root)` | every error exit must release; does not bind foreign editors |
| Managed saves (`backend/api/routes/files.py`, `services/project_service.py`) | the workspace, backup directories | create, update, delete, rename | revision check and write must be one unit with publication |
| Stage retention (`agent_runtime/retention.py`, `api/app.py`) | stage directories | prune at start-up | must not delete a stage that a journal needs |
| Orchestration store (`agent_runtime/orchestration_store.py`) | SQLite: leases, event journal with checksums, input queue, checkpoints, approvals, operations, recoveries | acquire/renew/release_lease, append_event, enqueue/claim/acknowledge, consume_approval, operation, interrupt_operations, reserve_recovery | several processes, fencing, a transaction that raises undoes its own writes |
| Hardware approvals (`agent_runtime/approvals.py`, `hardware/action_binding.py`) | one-time approvals bound to a fingerprint | issue, consume, invalidate | used exactly once, by the action that was approved |
| Agent orchestrator (`agent_runtime/orchestrator.py`) | runs and their tasks | start, pause, resume, cancel, recover_jobs, flash | stale reads across awaits, restart of half-done runs |
| Jobs and budgets (`agent_runtime/jobs.py`) | durable jobs, provider attempts | create, attach, update_run, save, mutate, claim_recovery, reserve/settle attempts | read-modify-write beside atomic mutate; retries; refunds |
| Provider admission (`model_router/admission.py`) | FIFO queue in memory, leased slots in SQLite | slot | lost leases, cancelled waiters, limit across processes |
| Circuit breaker (`model_router/circuit.py`) | failures, open_until, probe lease per endpoint | _admit, _settle, slot | stale settlements, exactly one probe |
| Build operations (`services/build_operations.py`) | one row per operation, tasks, a lock per project | accept, _run, close, restart | idempotent acceptance, cancellation, restart |
| Desktop supervisor (`electron/backend-manager.ts`) | child process, timers, recovery budget | start, stop, health supervisor, scheduled restart | stop during start, late answers of an old child |
| Serial and subprocess runtime (`runtime/serial_runtime.py`, `subprocess_mgr.py`) | ports, process trees | open, close, reconnect, terminate | reconnect against close or flash |
| Workflow runner, agent loop, tools, model router, code generation, harness, frontend | mostly data | | sequential processing, I/O, conversions |

How they interact: the orchestrator runs the agent loop on a stage obtained from
the ChangeSet service, registers the result with `create_from_stage`, and the API
(or the orchestrator, for authorised runs) calls `apply`, `undo`, `discard`.
Managed saves share the workspace and its lock with them. Runs, jobs, approvals
and operations live in one SQLite store that several processes open. Every model
request passes the circuit breaker and the admission controller. The desktop
supervisor starts one backend (the Electron application takes a single-instance
lock), may kill it at any moment, and starts it again: that is the process death
the models contain.

What makes each component correct:

* publication: all or nothing; never lose an original, never overwrite somebody
  else's edit, commit exactly what was reviewed, remember commits;
* store: at most one owner writes for a session epoch; events form one chain; an
  approval is consumed once; a settled operation stays settled;
* jobs: spent budget is never forgotten; one recovery at a time; a paused job stays
  paused;
* admission and circuit: never more than the limit in flight; one probe; no waiter
  starves behind one that left; a cooldown is honoured until its time;
* hardware: one write per approval, of what was approved; an effect that began is
  never recorded as if it had not; one run of a session at the device;
* builds: accepted once, run at most once, an outcome is not taken back, a good firmware
  belongs to the source (which the code does not ensure, section 3);
* supervisor: no backend is forgotten, none is judged by another one's answers, a dead
  one is replaced, within the bound.

`PROJECT.json` lists every component with its status and every hazard at its line.

## 2. Modules

| Module | Contents |
|---|---|
| `AtomicPublish` | the promise of the ChangeSet service: `Apply` and `Undo` change the workspace and the status in one step, an `Edit` by somebody else is one write; beside these only `TakeBack` touches the workspace, a recovery that takes content equal to its own |
| `ChangePublish` | the service as it is: one action per disk operation, process death, start-up, other writers |
| `ProviderGate` | the path of a model request: leased queue, circuit breaker, retries, for one endpoint and several processes |
| `HardwareFlash` | approvals, operations, the flash task under a session lease, cancellation, restart |
| `AgentJobs` | a durable job, the runs that replace each other for it, its ledger, its guidance |
| `BackendSupervisor` | the desktop's manager of the backend process |
| `BuildOperations` | the builds of one database and the backends that run them |
| `DesktopBackend` | the composition of the two: which backend lives decides what happens to a build |
| `MC...` | what TLC needs beside a specification (symmetry) |
| `...Proofs`, `ChangePublishEdits`, `AgentJobsChain`, `AgentJobsGuidance` | theorems and proofs, section 4 |

`HardwareFlash` and `AgentJobs` look at the same orchestrator from two sides: at the
runs of a session that flash, and at the runs of one job. They share no variable; what
one of them leaves out of a run (its plan, its stages) the other leaves out too.

### State and actions of `ChangePublish`

A file's content stands for its sha256: the code compares hashes everywhere
(assuming no collisions). On disk: `ws` is the workspace, `staged`/`backup` the
files of a stage and of its `__undo__`, `stageDir`/`undoDir` the directories,
`journal` the operation in `.publish-<id>.json`, `dstat` the status in the
metadata, `base`/`new` the per-file hashes of the baseline and of the reviewed
result. In memory: `mem` is `_sets`; `pc`, `kind`, `cur`, `todo`, `done`, `seen`,
`rec` and `boot` are the program counter and the local variables of the call in
progress. `writer` is a history variable: the ChangeSet whose publication wrote a
file last. `crashes`, `faults` and `edits` count towards the bounds.

| Code | Actions |
|---|---|
| `inspect_workspace`, `create_from_stage` | `TakeBaseline`, `Create` |
| entry of `apply`/`undo`, with the recovery of a journal found | `Enter` |
| validation | `ApplyRefused`, `ApplyRejected`, `ApplyValidated`, `UndoRefused`, `UndoValidated` |
| `__undo__`, backups, journal | `MakeUndoDir`, `BackUp`, `BeginPublish` and their `...Fails` |
| target writes and their rollback | `WriteTarget(Fails)`, `RollBack`, `RolledBack`, `MarkFailed(Fails)` |
| commit and clean-up | `Commit(Fails)`, `FinishPublish(Fails)`, `RemoveStaged`, `RemoveStage(Fails)` |
| `discard` | `Discard`, `RemoveStaged`, `RemoveStage(Fails)`, `RecordDiscard` |
| `_recover_publish` | `RecoverCommitted`, `RecoverRefused`, `RecoverBegin`, `Restore(Fails)`, `MarkRecovered(Fails)`, `CleanBackup`, `CleanUndoDir`, `CleanFails`, `RecoverFinish(Fails)`, `MarkRefused(Fails)` |
| `__init__` | `Start`, `BootRecover`, `BootDone` |
| process death | `Crash` |
| `api/routes/files.py` under the lock | `ManagedSave` |
| outside the program | `OfflineEdit`, `ExternalEdit`, `StageEdit` |

Granularity. `apply` and `undo` hold the workspace lock and the service's lock
from the first read to the return, so one call is in progress at a time and one
program counter is enough; `discard` holds only the service's lock, and
`ManagedSave` may interleave with it. Every disk operation that changes state is a
step of its own, so a death or another writer can come between any two. Validation is one
step: it only reads, and the writers it could race with are `ExternalEdit`s, which
may come right after it. The files of one publication are written in any order,
where the code takes the order of `changed_files`.

Faults. `Faults` names the operations that may raise: `mark` (the metadata),
`backup` (`mkdir` and backup writes), `journal`, `target` (a workspace file),
`finish` (removal of the journal) and `clean` (`rmtree`). A write that raises may
have taken effect, because `_atomic_write_bytes` synchronises the directory after
`os.replace`. `Edits` names the other writers: `managed` saves under the lock,
`offline` edits while the application is closed, `external` edits without the lock
while it runs, and changes of the `stage` after review.

### State and actions of `ProviderGate`

`waiting`, `active` and `left` are the rows of `provider_slots` with their remaining
lease, `fails`, `openLeft`, `probe`, `probeLeft` the row of `endpoint_health`. `pc`,
`tries`, `due`, `next`, `held` are the local state of one logical request per process
(`due` is the delay of its retry or, when there is none, the Retry-After its error carries);
`age` and `stall` describe it for the properties. Times are ticks that remain, as the
code compares deadlines with a clock; counting failures stops where the cooldown no
longer grows (`MaxFails`). `Keeping` drops expired or released rows from the queue and
keeps the order of the others.

| Code | Actions |
|---|---|
| `require_available`, start of an attempt | `Attempt` |
| `_distributed_acquire`, polling | `Poll`, `Leave` |
| `_admit` | `Admit` |
| `_settle` and `slot`'s exits, `RetryPolicy.decide`, `retry_wait` | `Succeed`, `Fail`, `Reject`, `Cancel` |
| heartbeat, `_release` | `Renew`, `Release` |
| outside | `Stall`, `Resume`, `Die`, `Tick` |

A stalled process is one whose event loop does not turn (a blocking call, a sleeping
machine): it polls and renews nothing while its leases run out. A process that runs
keeps its intervals (`Punctual`), because 2 s and 50 ms are far below the 10 s lease.

### State and actions of `HardwareFlash`

On disk: `saved` (runs), `appr`/`owner` (agent_approvals), `op`/`opBound`
(agent_operations), `holder`/`epoch`/`live` (the session lease). In memory: `status`,
`approval`, `settled`, the flash task (`task`, `outcome`), its heartbeat (`hb`), calls
of cancel and confirm (`cancelling`, `canceller`, `confirming`), `grant`. `writing`
and `wrote` are the device.

| Code | Actions |
|---|---|
| `prepare_flash` | `Prepare` |
| `confirm_flash`, `_acquire_flash`, `_confirm_flash_impl` | `ConfirmWaits`, `ConfirmRefused`, `Confirm` |
| `execute` | `Start`, `Upload`, `RefuseUpload`, `Uploaded`, `Finish`, `End`, `Unwind` |
| `_run_with_lease_heartbeat`, `_renew_session_lease` | `Lapse`, `Notice`, `Drain`, `Block` |
| `_cancel_locked` | `Cancel`, `Kill`, `Abort`, `Cancelled` |
| process death, an upload tool that outlives it, `_restore_runs` | `Crash`, `OrphanEnds`, `Restart` |
| a lease that runs out while the machine sleeps | `ExpireLease` |

A handler is cut at its awaits. The fingerprint of an approval (port, board,
environment, artifact, workspace) is `same` or `other`, compared as the code does.

### State and actions of `AgentJobs`

`job` is the row of agent_jobs (current run, status, paused_by, block, due time,
cycles, outage window, claim), `tokens` and `limit` the budget, `attempt`/`spent` the
ledger of provider attempts, `run`/`rec` agent_runs, `rep` the reserved replacement of
each run, `item`/`at` the guidance queue, `lease` the session lease. `loop`, `flight`,
`stopping` and `wake` are the event loop: the handler that runs, continuations that
wait for a lock or a task, the cancel that waits for a drain, the timer of the next
automatic recovery. `stray`, `wish` and `autos` are history.

| Code | Actions |
|---|---|
| `reserve_provider_attempt`, `settle_provider_attempt` (worker threads) | `Reserve`, `Settle` |
| `steer`, `claim_queue_items`, `write_checkpoint` | `Steer`, `ClaimItem`, `SettleTurn` |
| `record_retry`, `_execute_autonomous`, end of a task | `ProviderAnswers`, `Finish`, `GiveUp`, `EndTask` |
| `pause_job`, `cancel`, `close` | `PauseRead`, `PauseSave`, `Cancel`, `Stopped`, `Close`, `Exit` |
| `resume_job`, `retry`, `resume` | `ResumeRead`, `ResumeSave`, `Retry`, `Enter` |
| `_retry_locked` | `GoOn`, `Check`, `Transfer`, `Attach`, `Register`, `Complete` |
| `recover_jobs`, `_schedule_retry` | `Recover`, `DueArrives` |
| `extend_budget` | `Extend` |
| time | `WindowCloses`, `ClaimExpires`, `LeaseExpires` |
| process death, `_restore_runs` | `Crash`, `Boot` |

A handler is cut at its awaits, but the process can die between any two of its
transactions, which are actions of their own; and worker threads book provider
attempts between a handler's read of the job and its `save`. The lease is acquired
together with `Attach`. "waiting" stands for paused_model_unavailable.

### State and actions of `BackendSupervisor`, `BuildOperations`, `DesktopBackend`

`state`, `process`, `timer`, `healthOn`, `failures` are fields of the manager, `used` is
the number of restarts in the window of `BackendRecoveryPolicy`, `starting`, `check` and
`quitting` are the calls of start, of the health timer and of stop under way. `child`,
`noticed`, `signalled`, `other` are the processes and the port. A probe is answered at one moment
and its answer handled at a later one; a process dies at one moment and its exit event
is handled at a later one.

| Code | Actions |
|---|---|
| `startInternal` | `StartAnswer`, `StartReuses`, `StartFailsToSpawn`, `StartSpawns`, `StartKilled` |
| `waitForReady` | `WaitAnswered`, `WaitLoops` |
| `scheduleOwnedRestart`, `BackendRecoveryPolicy` | `Schedules` inside the others, `TimerFires` |
| exit handler | `ExitEvent` |
| `startHealthSupervisor` | `HealthTick`, `HealthAnswer`, `HealthAnswered`, `HealthKilled` |
| `stop`, will-quit in `main.ts` | `Stop`, `StopKilled` |
| outside | `Loads`, `Listen`, `Deafens`, `Drains`, `Dies`, `OtherComes`, `OtherGoes` |

`BuildOperations` has `row` and `source` (desktop_build_operations), `task` (the
backend whose task it is, where it is and what it captured), `revision` (what the project
contains) and `past` (what it has contained, as a request may have looked earlier). A
revision is a hash of contents, so it is a content here: `Edit` goes to any other one,
and an undo or a revert comes back to an earlier one. The builds are those of one
project. `Accept`, `Wait` (for the project's lock), `Begin`, `Collect`, `FailToCollect`,
`Unwind`, `Observe`, `Close` and `Marked` are accept_build, the parts of `_run`,
observe_build, `close` and `__init__`.
`DesktopBackend` joins them: a backend that loads marks what it finds unfinished, one
that drains cancels its tasks, one that dies takes them with it. `overlap` records
that a backend loaded while another one lived.

## 3. Runs

### Publication

These runs have two files, two contents and the absent file. With two files a
publication can stop half-way, can leave one file unchanged, and can create,
modify and delete in one ChangeSet; with two contents a file can hold the old, the
new or (absent, or the second content) a foreign value. Paths, contents and
ChangeSets are compared only for equality, hence the symmetry sets; the run with
liveness uses none.

| Run | Instance | Properties |
|---|---|---|
| `publish_faults` | 1 ChangeSet; 2 deaths, 2 faults of `backup`, `target`, `clean`; 2 edits, managed, offline or of the stage | `WriteAhead`, `JournalSetAside`, `NoOrphanPublication`, `PublisherPreservesEdits`, `CommitMatchesReview`, `CommitSurvivesRestart`, `ImplementsAtomic` |
| `publish_two` | 2 ChangeSets, 1 death | `OneUnfinished`, `ImplementsAtomic` |
| `publish_errors` | 1 ChangeSet; 1 death, 1 fault of any kind, 1 edit of any kind; fair | `TypeOK`, `StartSettles` |

Two deaths are what it takes to die in a recovery; two faults to fail in an error
handler; two edits to change one file away and back, or both files. Two
ChangeSets, of which either can be applied over the other's result, are enough for
every pairwise overlap.

What the properties say:

* `WriteAhead`: while a journal of an apply exists, each file this apply wrote last
  has its original in the backup. Violated by any order that overwrites first,
  cleans up early or discards a stage that is still needed.
* `JournalSetAside`: between calls a journal belongs to a ChangeSet that can no
  longer be discarded. The journals in question are left by recoveries that an edit or
  a raising operation made refuse, hence the run with faults and edits.
* `OneUnfinished`: no ChangeSet is left half-published while another one is published.
* `NoOrphanPublication`: between calls a file written by a publication belongs to an
  applied ChangeSet or to one with a journal.
* `PublisherPreservesEdits`: whatever publication, rollback or recovery overwrites
  was the ChangeSet's own old or new content.
* `CommitMatchesReview`: a committed apply equals the whole reviewed tree, a
  committed undo the whole baseline of its files.
* `CommitSurvivesRestart`: start-up never revises a recorded commit.
* `ImplementsAtomic`: refinement of `AtomicPublish`. The mapping masks what an
  unfinished publication has written so far (`Visible`): the commit of the metadata
  is the step that shows it, and the publisher's own writes, rollbacks and recoveries
  are stutters. `others` counts the writes of other people, so that nothing else may
  pass for an `Edit`. One thing shows besides: the code compares contents, so a
  recovery takes a file back in which somebody else has written exactly what the
  publication did, or publishes it again when its undo is recovered (`TakeBack`).
  `ImplementsAtomic` is false for two ChangeSets, one death and one offline edit: one
  ChangeSet dies half-published, the edit makes its recovery refuse, the other one is
  reviewed against the half-published tree and applied. The two are then mixed in the
  workspace, which the journal of the first still promises to undo. `publish_two` has
  no edits for this reason, and the theorem says what is needed (section 4).
* `StartSettles`: start-up leads to an open service in which every loaded journal is
  confirmed, rolled back or set aside.

Fairness: `WF_vars(CallStep)`. A thread that has entered a call or the constructor
runs on; it waits for no lock after its entry, as both are held. Nothing is assumed of
callers, users, deaths and faults. The service may stay idle for ever (identifiers
are used once and bounds run out), so `publish_errors` and the violation runs switch the deadlock check
off; `publish_faults` and `publish_two` keep it, as an idle service can always
refuse one more call.

### Provider gate (`gate`)

Two processes, room for one, a slot lease of 2 ticks, a probe lease of 3 and requests of
up to 4, so that a request can outlive both leases; a threshold of 2 and a cooldown of
1, so that all three lengths occur; a Retry-After of 3 beyond the cap on delays; two
hangs and one death. One hang lets a lease run out under its owner, the second one
hits the process that took over.

* `InFlight`: requests whose process did not hang are never more than the limit.
* `OneProbe`: two probes are in flight only when one outlived the probe lease.
* `CooldownKept`: no late result shortens a cooldown or clears it. (One that should
  prolong it does not either: `v_retry_after`.)
* `ProbeDecides`: while a probe's lease runs, only the end of that probe changes the
  circuit's record.
* `QueueMoves`: whoever waits is admitted or gives up.

Fairness: polls, heartbeats, releases and the end of a request are timers or
continuations of an event loop that turns, and a hung loop turns again (`Resume`);
`SF_vars(Tick)`, since calls that start and end within no time could otherwise hold the
clock for ever. Nobody has to call, to time out, or to die.

### Flashing (`hardware`)

Two runs of a session (the lease is the session's, so the second one is what can
intrude), two approvals (a second one for the same run, or one for each), three grants
of the lease, and one crash, sleep or failing call.

* `OneWritePerApproval`: a device is written at most once per approval, after it was
  consumed, and only what was approved.
* `OutcomeKept`: when nothing works on a run any more, the record of a write that
  began says completed or unknown.
* `OneWorker`: no two runs of a session have a flash task, unless a renewal failed or
  the machine slept through a lease.
* `CancelledIsKnown`: a run recorded as cancelled left no effect with an unknown
  outcome (no failing calls).
* `QuietWhenOver`: nobody writes for a run that is over, while the process lives.
* `FlashesEnd`: again and again, every flash, cancellation and lost lease comes to its
  end; two states the code really strands are excused (see below).

Fairness: the steps of a task and of a cancel, which wait for a process that ends, a
timeout or each other. A user may never confirm.

### Jobs (`jobs`)

Three runs (a run, its replacement, and a replacement of that), one automatic recovery
where the code allows three, one provider attempt that costs half the budget, one
message; two calls of the user or deaths. With two calls a pause or cancel meets a
resume, a crash meets a recovery.

* `LedgerExact`: the tokens consumed are what the attempts of the ledger cost,
  whichever handler saved an older copy of the job in between.
* `LiveMeansRunning`: the run at work is the job's current one, and the job says so.
* `Continuable`: a job can be continued from a run the backend knows.
* `GuidanceKept`: unacknowledged guidance waits for the current run or its replacement.
* `AutoBounded`: automatic restarts are bounded over outages and restarts.
* `PauseKept`: a paused job is attached to no run before the user asks.
* `RetriesHappen`: a job that waits for its provider is retried, blocked with a reason,
  paused or settled.

Fairness: handlers and ending tasks go on, a due time arrives, a retry task wakes up.

### Desktop (`desktop`, `builds`)

| Run | Instance | Properties |
|---|---|---|
| `desktop` | 3 processes, 2 restarts, 1 other program on the port; no builds | `NoneForgotten`, `JudgedByItsOwn`, `Recovers` |
| `builds` | 2 processes, 1 restart in the window and 1 that has left it, 2 builds, 2 contents | `TypesOK`, `RestartsBounded`, `ExecutedOnce`, `NoGhostBuilds`, `OutcomeStays` |

Three processes are a backend, its replacement and the replacement of that, with answers
and exits of each arriving during the others. `desktop` leaves out the restart that
leaves the window: with one, and with `RestartsBounded`, it was explored once and passes
(866,236 states, three minutes). `builds` has that restart. Two processes are
enough for the overlap of an old and a new backend over one database; two builds for one
that waits for the other; with two contents a source changes and changes back as
often as it likes, since a content, unlike a count of edits, has no bound. Builds are
compared only for equality, hence their symmetry.

* `NoneForgotten`: a living backend nobody asked to end is the one the manager knows.
* `RestartsBounded`: restarts are bounded by the delays, beside those out of the window.
* `JudgedByItsOwn`: a backend is terminated only after two bad answers of its own.
* `Recovers`: a ready backend that dies is replaced, the replacement as well, unless the
  application quits, the restarts are used up, or every process the bound allows is dead
  or being terminated: a living one nobody has asked to end is no excuse.
* `ExecutedOnce`: a build runs at most once under its id.
* `OutcomeStays`, `NoGhostBuilds`: an outcome is not taken back, and an unfinished
  build has a living task, while no two backends share the database.

Fairness: timers fire, probes are answered, exit events are handled, a backend loads,
and the deadline of `waitForReady` passes (strong: its loop is also left and entered
again). Nothing makes a backend die, drain or answer well.

`hardware`, `jobs`, `desktop` and `builds` switch the deadlock check off: when the bounds
on calls, crashes and processes are used up, the system may rest for ever.

### Disagreements between code and text

Four runs end in a counterexample. Each checks one sentence of the repository.

| Run | The sentence | What the code does |
|---|---|---|
| `v_commit_record` | "Write-ahead: every original is durable ... Startup can reconcile even death between rename and metadata publication" (`service.py:389-391`) | If recording the commit raises, the ChangeSet is still pending; `discard` deletes the originals the journal needs. |
| `v_external` | "their writes are still protected by file revision checks" (`workspace_lock.py:5-6`) | Revisions are compared before the backups are made, not before the writes. |
| `v_retry_after` | "A provider's longer `Retry-After` remains authoritative." (`docs/provider-outage-recovery-plan.md:13`) | Of two requests in flight the first one to fail opens the circuit, and `_settle` then takes no result of the other (`circuit.py:74`): its longer Retry-After is dropped, and the endpoint is asked again before its time. |
| `v_captured` | "Bind the canonical workspace revision to the captured bytes, not a live directory that can change and then change back" (`platformio_service.py:470-472`) | `execute()` compares the live directory before and after (`routes/build.py:25,28`) and ignores the captured revision: a source edited before the capture and edited back passes, with firmware of other bytes. The agent loop compares it (`autonomous_loop.py:2131`). |

Seen while modelling; the models contain the behaviour, and where a property above
excuses a case, this is the case:

* Publication. Death after `mkdir` and before the journal leaves a backup directory on
  which the next apply fails, and the ChangeSet ends `failed` ("A pending ChangeSet never
  owns a pre-existing backup directory.", `service.py:381`). If writing undo's journal
  raises, nothing has changed, yet the missing journal makes recovery mark the ChangeSet
  `conflicted` ("Best effort to restore the applied state if undo itself fails.",
  `service.py:488`). If start-up cannot remove the journal of a committed publication, it
  marks it `conflicted` (`service.py:592`), and the next recovery rolls it back, unlike
  what the name of a test says
  (`test_death_after_durable_commit_preserves_the_committed_operation`,
  `tests/unit/test_audit_remediation_durability.py:33`).
* Gate. A request may take 600 s (`transport_policy.py:31,39`), a probe's lease is
  350 s (`circuit.py:63`): hence the exception in `OneProbe`. Production opens the
  circuit after six failures (`router.py:110-111`), the class after two.
* Flashing. A cancellation refused by the lease after a sleep leaves "cancelling" until
  it is cancelled again. An event that raises after the approval was consumed leaves
  "running" without a task. An expired approval stays until a cancel
  (`orchestrator.py:1208`). A first confirmation with the wrong binding leaves its
  operation row, and every later one conflicts (`orchestration_store.py:959`).
* Jobs. A pause given while a continuation is in flight is overridden by the attach
  ("User pauses persist.", `docs/agent-quality-implementation.md:15`). A pause by
  shutdown is never recovered automatically. A restart within 20 s of a crash finds the
  old lease and blocks the job. A crash between claim and attach leaves the claim for 90 s and
  no timer; one between attach and the first row of the run leaves an unknown current
  run. Guidance sent to a run already replaced is lost. `extend_budget` clears a user's
  pause. An outage window that closes between the update of the run and
  `_schedule_retry` leaves a job that waits without a reason until a restart. A user's
  resume voids the claim of an automatic recovery under way, which still starts. A
  resume refused by the lease leaves the job waiting without a timer. With another
  model selected, `reserve_recovery` conflicts for ever (`orchestration_store.py:983`).
* Desktop. `child.killed` is true once SIGTERM was sent, so the SIGKILL after five
  seconds never is: a backend can outlive its termination, overlap with the next one
  over one database, be reused without being owned, and survive the application; this
  is `overlap`. A healthy answer handled after its child's exit makes the manager
  "ready" with no process, for ever if the restarts are used up. A first start that
  fails by timeout schedules no restart. A build cancelled before its first step stays
  "queued" until the next start of a backend. A health answer counts against the process
  the manager has, whoever gave it on the port (`bad`).

## 4. Proofs

All theorems hold for every value of the constants that satisfies the module's
`ASSUME`, so for any number of files, runs, processes, faults and calls.

| Module | Theorems | Inductive invariant |
|---|---|---|
| `ChangePublishProofs` | `TypeCorrect`, `OriginalsSurvive` (`WriteAhead`), `JournalsAtRest` (`JournalSetAside`), `NothingIsOrphaned` (`NoOrphanPublication`), `CommitsSurviveRestarts` (`CommitSurvivesRestart`) | `IInv`, `OInv` |
| `ChangePublishEdits` | `EditsSurvive` (`PublisherPreservesEdits`), `ReviewIsWhatIsCommitted` (`CommitMatchesReview`), `PublicationIsAtomic`, `OnePublicationIsAtomic` and `DeathsAreHidden` (`ImplementsAtomic`), `OneAtATime` (`OneUnfinished`) | `EInv`, `AInv`, `UInv` |
| `ProviderGateProofs` | `TypeCorrect`, `InFlightBounded`, `ProbesAreAlone` (`OneProbe`), `CooldownsAreKept`, `ProbersDecide` | `TypeInv`, `Queued`, `SlotInv`, `ProbeInv` |
| `HardwareFlashProofs` | `TypeCorrect`, `ApprovalIsOneTime` (`OneWritePerApproval`), `WritesAreAccounted` (`OutcomeKept`), `OneRunWorks` (`OneWorker`), `CancellationsAreKnown` (`CancelledIsKnown`), `NoWriteAfterTheEnd` (`QuietWhenOver`) | `IInv`, `LeaseOfTask`, `Fenced`, `WritersWork` |
| `AgentJobsProofs` | `TypeCorrect`, `RecoveriesAreBounded` (`AutoBounded`), `PausesAreKept` (`PauseKept`) | `TypeInv`, `AutoInv`, `WishInv` |
| `AgentJobsChain` | `OnlyTheLastRunWorks` (`LiveMeansRunning`), `JobsAreNeverStranded` (`Continuable`) | `ChainInv`, `Resumed` |
| `AgentJobsGuidance` | `GuidanceFollows` (`GuidanceKept`), `LedgerIsExact` (`LedgerExact`) | `GuidanceInv`, `LedgerInv` |
| `DesktopBackendProofs` | `TypeCorrect`, `NoBackendIsForgotten`, `RestartsAreBounded`, `EachIsJudgedByItsOwn`, `BuildsRunOnce`, `NoBuildIsAGhost`, `OutcomesStay` | `IInv` |

### Publication

`OriginalsSurvive` and `JournalsAtRest` assume `"mark" \notin Faults`, `EditsSurvive` and
`ReviewIsWhatIsCommitted` assume `"external" \notin Edits`; `NothingIsOrphaned` and
`CommitsSurviveRestarts` assume that neither `mark` nor `journal` nor `finish` raises. These
assumptions are needed: `v_commit_record` and `v_external` are the counterexamples without
`mark` and `external`, and TLC finds `NoOrphanPublication` false once `journal` or `finish`
raises and `CommitSurvivesRestart` once `finish` does. Backups, target files and
clean-ups may raise, the process may die anywhere, and everybody may edit.

`WriteAhead` is not inductive: it says nothing of the state in which the first
file is overwritten. `IInv` adds

* `KindOfStep`: which call can be at which step;
* `MemoryMirrorsDisk`: memory equals the metadata while the process lives, and a
  ChangeSet without metadata has no journal (this is what `mark` faults break);
* `JournalOfStep`, `JournalInHand`: what the call knows of its own journal, and that
  every other journal is waiting for start-up or set aside;
* `OwnerContent`: a file a ChangeSet owns holds what it published (so a recovery that
  finds its old content there owns nothing to restore);
* `BackupsComplete`: backups are complete when the first target is written;
* `RestoredFirst`: recovery deletes backups only when it owns nothing any more.

`OInv` adds who answers for a published file (`OwnersAnswer`: its owner is applied or has
a journal, and was not undone), which files a call has before and behind it, the status
recorded at each step (`StatusOfStep`), and that a recovery restores and refuses only
what was not committed and deletes a journal only when nothing depends on it
(`RecoveryOfStep`). `NoOrphanPublication` is then a consequence, and
`CommitSurvivesRestart` is shown step by step.

`EInv`, for the two action properties, is independent of `IInv` and holds under any fault:
`CallerKnown`, `TargetsKnown` (what the locked call still knows of the files it has
validated: untouched ones hold the old content, written ones the new) and
`AppliedBeforeUndo`. Each preservation proof has one step per conjunct group and
one per action that can disturb it; the theorems combine them with PTL.

The refinement. `AInv` joins `OInv` and `EInv` with the statuses that a journal can meet
(`JournalStatus`) and where the files are that a call has dealt with (`FilesOfStep`).
While `OneUnfinished` holds, at most one ChangeSet masks a file, so `Visible` has a value
there that does not depend on a choice (`OneMasks`). Each step is then placed: the writes
of a publication and of its rollback show nothing, as every file the call may write shows
what the call found in it (`Ours`, `WritesAreHidden`); so does a journal that is written
or removed (`JournalsAreHidden`); `Commit` is `Apply` or `Undo` (`CommitShows`); the other
changes of a status are `SetAside`, `Reopen` or `Discard`; a restored file is a stutter
or `TakeBack`. `PublicationIsAtomic` assumes `OneUnfinished` (no ChangeSet is left
half-published while another one is published) throughout, for the reason given in
section 3; `OnePublicationIsAtomic` has it for free. `DeathsAreHidden` derives
it: when only `backup` raises and the other writers take the lock
(`Edits \subseteq {"managed"}`), every recovery succeeds. `UInv` says why: an unfinished
publication is in progress or about to be recovered (`UnfinishedInHand`), its stage is
whole (`StagesWhole`), its targets hold the old or the new content, and the original of
each that does not hold the old is at hand (`OriginalsAtHand`). TLC checked `UInv` on
instances with one and two ChangeSets, two deaths and a managed save.

### Gate

`InFlight` counts requests, the code counts rows. `SlotInv` connects them: a request
that never hung and is admitted or sending has an unexpired ticket among the active
ones, and there are at most `Limit` of those. `ProbeInv` adds up the age of a probe and what
remains of its lease, so that one that lost the record is as old as a lease. The order
of the queue plays no part in any of these; that the queue stays a sequence of requests
(`Queued`) needs that `Keeping`, defined by recursion on a sequence's length, yields one,
which is shown from a least length for which it would not.

### Flashing

`IInv` joins the three records of one write: an approval that was consumed has an
operation with its fingerprint (`ConsumedIsBound`), a task that may still write works
for the consumed approval of its run and has not written (`WorkOfTask`), and a started
operation has a running task whose run is unfinished on disk, so that a restart finds
it (`StartedIsRunning`). `OneWorker` needs only that the task that works holds the lease.
`CancelledIsKnown` rests on `Fenced`: a task whose heartbeat has ended without a cancel
cannot write the row of its run, because its lease is gone or its phase is settled.
`QuietWhenOver` rests on `WritersWork`: while the process lives, a write under way is
that of a running task, whose run is not cancelled.

### Jobs

`AutoBounded` is about a claim that outlives its handler: `AutoInv` bounds the automatic
starts by the ones the job has counted, one less while a claimed recovery is still
under way. `WishInv` says that a job paused by the user has no handler about to continue
it. `ChainInv` describes the runs as a chain that `rep` links, whose last run is the
job's, with at most one task, the lease's; `AtStep` and `AutoLast` are what
`_retry_locked` knows at each of its steps. `GuidanceInv` adds that no two runs reserve the
same replacement and that guidance moved on is not left behind. `Resumed` says that a current
run without a row was reserved by one that can still be resumed. `LedgerInv` is about a
sum over the attempts: the facts about such sums come from a smallest set for which one
would be false, which exists as `Attempts` is finite (`LedgerAssumption`). Most steps change
little: `Quiet`, `Calm` and `SameQueue` describe such steps once, one lemma each shows
that they preserve the invariants, and the proofs then treat the few others.

### Desktop

`Owned`: while the manager probes, waits for a process to end or stops, it has no
process; the one it has is waited for or ready. With it `NoneForgotten` is inductive, for
a spawn comes only out of a probe. `Ledger`: a restart is paid for when its timer is set.
`HealthInv`: the failures counted never exceed the bad answers of the process that is
there, and an answer not yet handled is one ahead. `BuildInv`: while no two backends
shared the database, only one is beyond its start (`Alone`), tasks are in it (`Housed`),
every task's row is unfinished (`Kept`), and no unfinished row is without one
(`AnsweredFor`).

### Only model-checked

* the liveness properties `StartSettles`, `QueueMoves`, `FlashesEnd`, `RetriesHappen` and
  `Recovers`, which are out of the prover's reach;
* `ImplementsAtomic` with two ChangeSets beyond what its theorems assume: raising target
  writes or clean-ups, or offline edits, that leave one of them set aside half-published.

The violation runs are counterexamples and prove nothing.

## 5. What is not modelled

* Publication: `annotate_authorization` (metadata fields only), path and
  reparse-point safety, previews, the 30 s lock timeout, a baseline torn between two files
  (`TakeBaseline` reads the tree at once, but may read it half-published), loss of
  synchronised data, a second backend process (the desktop application is single-instance).
  A `mark` fault leaves memory and disk apart: with it, `NoOrphanPublication` and
  `JournalSetAside` do not hold. The runs that check them leave `mark` out; the hazard list
  says so, and no weaker property is stated instead.
* Gate: several endpoints (their rows are independent), the in-process queue that is
  used when no database path is given, which the router never does; HTTP, streaming,
  selection of a model.
* Flashing: the checks before an upload are one step that may refuse; building is done
  before the model starts; the serial port itself.
* Jobs: budgets other than output tokens, elapsed time, trust, the policy switch,
  selection and fingerprint of a model, discarding and verifying a saved draft, the
  resume of a single run, the wait of 5 s for a task, a second concurrent cancel or
  pause. The first run is taken to have started.
* Desktop: IPC, windows, the frontend and the harness manager; a build's own steps,
  builds of different projects (which share nothing), a save that raises, requests accepted
  while draining; "unavailable" counts as "failed". The error event of a process is its death
  and its exit.
* Stage retention runs once, at start-up, before any call: it only removes stages that
  neither a ChangeSet nor an event refers to, and `ChangePublish` takes the stages of its
  ChangeSets as kept. To say more needs the event journal, which is not modelled.
* The serial monitor and the rest of the subprocess manager, the event journal with its
  checksums, the managed-project save, the harness server: no model yet.
* The agent loop, the workflow runner, code generation, validation of firmware, provider
  conversion layers and the frontend transform data or perform I/O in sequence. `audit/`,
  `remediation/`, `reports/`, `docs/`, `third_party/`, `examples/` and `assets/` are not
  program logic.

## 6. Plan

What remains, in order of what a wrong step would cost the user:

1. `SerialRuntime`: open, close and reconnect of a port against a flash
   (`runtime/serial_runtime.py`), with the process trees of the subprocess manager.
2. The event journal of the orchestration store: chain of checksums, retention,
   quarantine; then stage retention on top of it.
3. The managed-project save with its backup directory, as a second publisher over the
   workspace of `ChangePublish`.
4. The harness server's idempotent event store.

Proofs to add: `OneUnfinished` where target writes may raise but recoveries do not; the
properties of the modules above as they are written.

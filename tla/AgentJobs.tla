----------------------------- MODULE AgentJobs ------------------------------
(***************************************************************************)
(* One durable agent job and the chain of runs that work for it            *)
(* (backend/agent_runtime: jobs.py, orchestrator.py, orchestration_store). *)
(*                                                                         *)
(* A run that fails on its provider, is paused, or dies with the backend   *)
(* leaves the job to be continued by a replacement run: the user resumes   *)
(* or retries it, or the backend does, at startup and after a delay.  The  *)
(* job, the runs, the replacements reserved, the guidance queued and the   *)
(* ledger of provider attempts are rows of one database.  Handlers run on  *)
(* one event loop, so they are cut only at their awaits, but the process   *)
(* can die between any two of their transactions, and worker threads book  *)
(* provider attempts while a handler holds a copy of the job.              *)
(***************************************************************************)
EXTENDS Integers, FiniteSets

CONSTANTS
    MaxRuns,      \* bound: runs of the job
    MaxCycles,    \* MAX_RECOVERY_CYCLES
    Charge,       \* output tokens a provider attempt reserves
    Limit,        \* the job's limit of output tokens, and an extension
    Attempts,     \* physical provider attempts
    Items,        \* messages of guidance
    MaxTroubles   \* bound: calls of the user and deaths of the process

ASSUME JobAssumption ==
    /\ MaxRuns \in Nat \ {0} /\ MaxCycles \in Nat
    /\ Charge \in Nat /\ Limit \in Nat
    /\ MaxTroubles \in Nat

\* However many attempts there are, they are finitely many.
ASSUME LedgerAssumption == IsFiniteSet(Attempts)

Runs == 1 .. MaxRuns

VARIABLES
    up, closing,             \* the process runs; close() was called
    job,                     \* agent_jobs
    tokens, limit,           \* its consumed and permitted output tokens
    attempt, spent,          \* agent_provider_attempts; what each one costs now
    run, rec,                \* agent_runs: status and recoverable
    task,                    \* _tasks
    rep,                     \* agent_recoveries: the replacement reserved
    lease,                   \* run whose session lease is live, 0 for none
    item, at, stray,         \* agent_input_queue: status and run; sent too late
    loop,                    \* where the handler running on the event loop is
    flight,                  \* continuations waiting for a lock or a task
    stopping,                \* the cancel() that waits for a run to drain
    wake,                    \* _retry_tasks, and the recovery at startup
    wish, autos,             \* the user paused the job with no continuation under
                             \* way; automatic starts since a reset
    requests, crashes

ledger == <<tokens, limit, attempt, spent>>
guidance == <<item, at, stray>>
history == <<wish, autos>>
vars == <<up, closing, job, ledger, run, rec, task, rep, lease, guidance, loop,
          flight, stopping, wake, history, requests, crashes>>

MoreTrouble == requests + crashes < MaxTroubles

Callers == {"auto", "resume", "retry"}
Free == [pc |-> "free", by |-> "none", src |-> 0, tokens |-> 0]
Ground == [at |-> "none", src |-> 0]
Still == [run |-> 0, why |-> "none"]

JobStatuses == {"running", "cancelling", "paused", "interrupted", "waiting",
                "failed", "unknown", "blocked", "completed", "cancelled"}

Jobs == [cur : Runs, status : JobStatuses,
         paused : {"no", "user", "budget", "shutdown"},
         block : {"none", "limit", "window", "budget", "refused", "failed"},
         due : {"none", "later", "now"},
         cycles : Int, over : BOOLEAN, auto : Nat, claim : BOOLEAN]

Places == [pc : {"free", "read", "enter", "check", "transfer", "attach", "register", "complete"},
           by : Callers \cup {"none", "user", "shutdown"}, src : 0 .. MaxRuns, tokens : Int]
Flights == [at : {"none", "lock", "task"}, src : 0 .. MaxRuns]
Stops == [run : 0 .. MaxRuns, why : {"none", "user", "shutdown", "cancel"}]

LedgerTypes ==
    /\ tokens \in Int /\ limit \in Nat
    /\ attempt \in [Attempts -> {"none", "open", "lost", "done"}]
    /\ spent \in [Attempts -> Nat]
RunTypes ==
    /\ job \in Jobs
    /\ run \in [Runs -> {"absent", "running", "cancelling", "waiting", "interrupted",
                         "unknown", "failed", "completed", "cancelled"}]
    /\ rec \in [Runs -> BOOLEAN]
    /\ task \in [Runs -> {"none", "busy", "ending"}]
    /\ rep \in [Runs -> 0 .. MaxRuns]
    /\ lease \in 0 .. MaxRuns
GuidanceTypes ==
    /\ item \in [Items -> {"none", "queued", "claimed", "acknowledged"}]
    /\ at \in [Items -> 0 .. MaxRuns]
    /\ stray \subseteq Items
HandlerTypes ==
    /\ up \in BOOLEAN /\ closing \in BOOLEAN
    /\ loop \in Places /\ flight \in [Callers -> Flights] /\ stopping \in Stops
    /\ wake \in {"none", "sleeping", "startup"}
CountTypes == wish \in BOOLEAN /\ autos \in Nat /\ requests \in Nat /\ crashes \in Nat

TypeOK == LedgerTypes /\ RunTypes /\ GuidanceTypes /\ HandlerTypes /\ CountTypes

NewJob == [cur |-> 1, status |-> "running", paused |-> "no", block |-> "none", due |-> "none",
           cycles |-> -1, over |-> FALSE, auto |-> 0, claim |-> FALSE]

\* The first run has just been started by the user.
Init ==
    /\ up = TRUE /\ closing = FALSE
    /\ job = NewJob
    /\ tokens = 0 /\ limit = Limit
    /\ attempt = [a \in Attempts |-> "none"] /\ spent = [a \in Attempts |-> 0]
    /\ run = [r \in Runs |-> IF r = 1 THEN "running" ELSE "absent"]
    /\ rec = [r \in Runs |-> FALSE]
    /\ task = [r \in Runs |-> IF r = 1 THEN "busy" ELSE "none"]
    /\ rep = [r \in Runs |-> 0]
    /\ lease = 1
    /\ item = [i \in Items |-> "none"] /\ at = [i \in Items |-> 0] /\ stray = {}
    /\ loop = Free
    /\ flight = [c \in Callers |-> Ground]
    /\ stopping = Still
    /\ wake = "none"
    /\ wish = FALSE /\ autos = 0
    /\ requests = 0 /\ crashes = 0

----------------------------------------------------------------------------
(* The rows *)

Known(r) == r # 0 /\ run[r] # "absent"
Terminal == {"interrupted", "unknown", "failed", "completed", "cancelled"}
Exhausted == tokens >= limit

\* The event loop takes up another handler.  Startup recovery precedes all calls.
Idle == up /\ loop.pc = "free" /\ wake # "startup"
Request == Idle /\ ~closing /\ MoreTrouble /\ requests' = requests + 1

\* _outage_block of job j.
Outage(j) ==
    IF j.cycles = -1 THEN "none"
    ELSE IF j.cycles >= MaxCycles THEN "limit"
    ELSE IF j.over THEN "window" ELSE "none"

\* save(): a handler's copy of the job is written back with the tokens it read,
\* unless an attempt ledger owns them.
\* Mutant: tokens are merged like the other dimensions.
SavedMax(read) == IF read > tokens THEN read ELSE tokens
Saved(read) == IF \E a \in Attempts : attempt[a] # "none" THEN tokens
               ELSE IF read > tokens THEN read ELSE tokens

\* update_run when run r has status s: another run's update is ignored.
\* A transient provider failure opens an outage, if none is open, and sets a time
\* for the next attempt; a settled run closes it; a job without budget pauses.
Failed(j) ==
    LET opened == [j EXCEPT !.cycles = IF @ = -1 THEN j.auto ELSE @,
                            !.over = IF j.cycles = -1 THEN FALSE ELSE @, !.due = "later"]
    IN  IF Outage(opened) = "none" THEN opened
        ELSE [opened EXCEPT !.status = "waiting", !.block = Outage(opened)]
Settled(j) == [j EXCEPT !.cycles = -1, !.over = FALSE, !.due = "none"]

Projected(j, s) ==
    LET shown == [j EXCEPT !.status = IF j.paused # "no" THEN "paused" ELSE s]
        timed == IF s \in {"completed", "cancelled"} THEN Settled(shown)
                 ELSE IF s = "waiting" /\ j.due = "none" THEN Failed(shown) ELSE shown
    IN  IF s # "completed" /\ Exhausted
        THEN [timed EXCEPT !.status = "paused", !.paused = "budget", !.block = "budget"]
        ELSE timed

\* Mutants: any run of the job may update it; a pause is forgotten.
UpdatedByAny(j, r, s) == Projected(j, s)
UpdatedUnpaused(j, r, s) == IF j.cur # r THEN j ELSE Projected([j EXCEPT !.paused = "no"], s)
Updated(j, r, s) == IF j.cur # r THEN j ELSE Projected(j, s)

\* attach: the job goes on with run r.
Attached(j, r) == [j EXCEPT !.cur = r, !.status = "running", !.paused = "no",
                            !.block = "none", !.due = "none", !.claim = FALSE]

\* _schedule_retry, called when a run's task is over and for a retry not yet due.
\* Mutant: the last cycle is not scheduled.
ScheduledShort(asleep) ==
    IF /\ ~closing /\ job.paused \notin {"user", "budget"} /\ job.due # "none"
       /\ job.auto < MaxCycles - 1 /\ Outage(job) = "none"
    THEN "sleeping" ELSE asleep
Scheduled(asleep) ==
    IF /\ ~closing /\ job.paused \notin {"user", "budget"} /\ job.due # "none"
       /\ job.auto < MaxCycles /\ Outage(job) = "none"
    THEN "sleeping" ELSE asleep

----------------------------------------------------------------------------
(* Provider attempts, booked by worker threads: reserve_provider_attempt and *)
(* settle_provider_attempt                                                   *)

Reserve(a) ==
    /\ up /\ attempt[a] = "none"
    /\ \E r \in Runs :
        /\ task[r] = "busy" /\ run[r] \in {"running", "cancelling"}
        /\ job.cur = r /\ job.status = "running" /\ job.paused = "no"
    /\ tokens + Charge <= limit
    /\ tokens' = tokens + Charge
    /\ attempt' = [attempt EXCEPT ![a] = "open"]
    /\ spent' = [spent EXCEPT ![a] = Charge]
    /\ UNCHANGED <<up, closing, job, limit, run, rec, task, rep, lease, guidance, loop,
                   flight, stopping, wake, history, requests, crashes>>

\* A completed answer releases what it did not use, whatever became of its run.
Settle(a) ==
    /\ up /\ attempt[a] = "open"
    /\ \E used \in 0 .. Charge :
        /\ tokens' = tokens - (Charge - used)
        /\ spent' = [spent EXCEPT ![a] = used]
    /\ attempt' = [attempt EXCEPT ![a] = "done"]
    /\ UNCHANGED <<up, closing, job, limit, run, rec, task, rep, lease, guidance, loop,
                   flight, stopping, wake, history, requests, crashes>>

----------------------------------------------------------------------------
(* A run at work *)

\* steer: guidance for any run that is not over.
Steer(i, r) ==
    /\ Idle /\ ~closing /\ item[i] = "none"
    /\ Known(r) /\ run[r] \notin Terminal
    /\ item' = [item EXCEPT ![i] = "queued"] /\ at' = [at EXCEPT ![i] = r]
    /\ stray' = IF Known(rep[r]) THEN stray \cup {i} ELSE stray
    /\ UNCHANGED <<up, closing, job, ledger, run, rec, task, rep, lease, loop, flight,
                   stopping, wake, history, requests, crashes>>

\* claim_queue_items at a step boundary.
ClaimItem(i, r) ==
    /\ Idle /\ task[r] = "busy" /\ run[r] = "running"
    /\ item[i] = "queued" /\ at[i] = r
    /\ item' = [item EXCEPT ![i] = "claimed"]
    /\ UNCHANGED <<up, closing, job, ledger, run, rec, task, rep, lease, at, stray, loop,
                   flight, stopping, wake, history, requests, crashes>>

\* A settled turn is sealed in a checkpoint: what the run claimed is acknowledged.
SettleTurn(r) ==
    /\ Idle /\ task[r] = "busy" /\ run[r] = "running"
    /\ \E i \in Items : item[i] = "claimed" /\ at[i] = r
    /\ item' = [i \in Items |-> IF item[i] = "claimed" /\ at[i] = r THEN "acknowledged" ELSE item[i]]
    /\ UNCHANGED <<up, closing, job, ledger, run, rec, task, rep, lease, at, stray, loop,
                   flight, stopping, wake, history, requests, crashes>>

\* record_retry("settled"): the provider answered, the outage is over.
ProviderAnswers(r) ==
    /\ Idle /\ task[r] = "busy" /\ run[r] = "running"
    /\ job.cur = r /\ (job.cycles # -1 \/ job.auto # 0)
    /\ job' = [Settled(job) EXCEPT !.auto = 0]
    /\ autos' = 0
    /\ UNCHANGED <<up, closing, ledger, run, rec, task, rep, lease, guidance, loop, flight,
                   stopping, wake, wish, requests, crashes>>

\* The workflow settles the run: done, failed with or without a draft, or stopped
\* by the provider.  Once cancelled, only the last of these is still recorded.
Finish(r, s) ==
    /\ Idle /\ task[r] = "busy"
    /\ \/ run[r] = "running" /\ s \in {"completed", "failed", "waiting"}
       \/ run[r] = "cancelling" /\ s = "waiting"
    /\ run' = [run EXCEPT ![r] = s]
    /\ job' = Updated(job, r, s)
    /\ \E draft \in BOOLEAN :
        rec' = [rec EXCEPT ![r] = s # "completed" /\ (s = "waiting" \/ draft \/ job'.paused = "budget")]
    /\ task' = [task EXCEPT ![r] = "ending"]
    /\ UNCHANGED <<up, closing, ledger, rep, lease, guidance, loop, flight, stopping, wake,
                   history, requests, crashes>>

\* A worker that returns after its cancellation settles nothing.
GiveUp(r) ==
    /\ Idle /\ task[r] = "busy" /\ run[r] = "cancelling"
    /\ task' = [task EXCEPT ![r] = "ending"]
    /\ UNCHANGED <<up, closing, job, ledger, run, rec, rep, lease, guidance, loop, flight,
                   stopping, wake, history, requests, crashes>>

\* execute()'s finally: the lease is released, a retry is scheduled.
EndTask(r) ==
    /\ Idle /\ task[r] = "ending"
    /\ task' = [task EXCEPT ![r] = "none"]
    /\ lease' = IF lease = r THEN 0 ELSE lease
    /\ wake' = Scheduled(wake)
    /\ UNCHANGED <<up, closing, job, ledger, run, rec, rep, guidance, loop, flight,
                   stopping, history, requests, crashes>>

----------------------------------------------------------------------------
(* pause_job, cancel and close *)

\* A copy of the job is read; it is written back by the next step of the handler.
Reads(by, src) == loop' = [pc |-> "read", by |-> by, src |-> src, tokens |-> tokens]

PauseRead ==
    /\ Request /\ stopping = Still
    /\ Known(job.cur) /\ run[job.cur] \notin Terminal \ {"interrupted"}
    /\ Reads("user", job.cur)
    /\ UNCHANGED <<up, closing, job, ledger, run, rec, task, rep, lease, guidance, flight,
                   stopping, wake, history, crashes>>

\* paused_by is saved first.  A run that is over is interrupted at once, another one
\* is cancelled: its handler waits for it to drain.
PauseSave ==
    /\ up /\ loop.pc = "read" /\ loop.by \in {"user", "shutdown"}
    /\ LET r == loop.src
           paused == [job EXCEPT !.paused = loop.by, !.status = "paused"]
       IN  IF run[r] \in Terminal
           THEN /\ job' = Updated(paused, r, "interrupted")
                /\ rec' = [rec EXCEPT ![r] = TRUE]
                /\ UNCHANGED <<run, stopping>>
           ELSE /\ job' = paused
                /\ run' = [run EXCEPT ![r] = "cancelling"]
                /\ stopping' = [run |-> r, why |-> loop.by]
                /\ UNCHANGED rec
    /\ tokens' = Saved(loop.tokens)
    /\ wish' = (wish \/ (loop.by = "user" /\ \A c \in Callers : flight[c] = Ground))
    /\ loop' = Free
    /\ UNCHANGED <<up, closing, limit, attempt, spent, task, rep, lease, guidance, flight,
                   wake, autos, requests, crashes>>

\* cancel of any run that is not over, the job's current one or not.
Cancel(r) ==
    /\ Request /\ stopping = Still
    /\ Known(r) /\ run[r] \notin Terminal
    /\ run' = [run EXCEPT ![r] = "cancelling"]
    /\ stopping' = [run |-> r, why |-> "cancel"]
    /\ job' = Updated(job, r, "cancelling")
    /\ UNCHANGED <<up, closing, ledger, rec, task, rep, lease, guidance, loop, flight, wake,
                   history, crashes>>

\* The run has drained, or will not in time: then its effects are unknown.
Stopped(clean) ==
    /\ Idle /\ stopping # Still
    /\ LET r == stopping.run
           s == IF ~clean THEN "unknown" ELSE IF stopping.why = "cancel" THEN "cancelled" ELSE "interrupted"
       IN  /\ clean => task[r] = "none"
           /\ run' = [run EXCEPT ![r] = s]
           /\ \E draft \in BOOLEAN :
                rec' = [rec EXCEPT ![r] = (s = "interrupted" \/ (s = "cancelled" /\ draft))]
           /\ job' = Updated(job, r, s)
    /\ stopping' = Still
    /\ UNCHANGED <<up, closing, ledger, task, rep, lease, guidance, loop, flight, wake,
                   history, requests, crashes>>

\* close(): no more retries; a run at work is paused by "shutdown".
Close ==
    /\ Idle /\ ~closing /\ stopping = Still
    /\ \A c \in Callers : flight[c] = Ground
    /\ MoreTrouble
    /\ closing' = TRUE /\ wake' = "none"
    /\ IF task[job.cur] # "none" /\ run[job.cur] \notin Terminal
       THEN Reads("shutdown", job.cur) ELSE UNCHANGED loop
    /\ UNCHANGED <<up, job, ledger, run, rec, task, rep, lease, guidance, flight, stopping,
                   history, requests, crashes>>

----------------------------------------------------------------------------
(* resume_job, resume and retry *)

\* resume_job: the job's current run must be recoverable and within budget.
ResumeRead ==
    /\ Request /\ flight["resume"] = Ground
    /\ Known(job.cur) /\ rec[job.cur] /\ run[job.cur] # "unknown" /\ ~Exhausted
    /\ Reads("resume", job.cur)
    /\ UNCHANGED <<up, closing, job, ledger, run, rec, task, rep, lease, guidance, flight,
                   stopping, wake, history, crashes>>

ResumeSave ==
    /\ up /\ loop.pc = "read" /\ loop.by = "resume"
    /\ job' = [job EXCEPT !.paused = "no", !.block = "none"]
    /\ tokens' = Saved(loop.tokens)
    /\ wish' = FALSE
    /\ loop' = [loop EXCEPT !.pc = "enter"]
    /\ UNCHANGED <<up, closing, limit, attempt, spent, run, rec, task, rep, lease, guidance,
                   flight, stopping, wake, autos, requests, crashes>>

\* retry of any run.
Retry(r) ==
    /\ Request /\ flight["retry"] = Ground
    /\ Known(r)
    /\ wish' = FALSE
    /\ loop' = [pc |-> "enter", by |-> "retry", src |-> r, tokens |-> 0]
    /\ UNCHANGED <<up, closing, job, ledger, run, rec, task, rep, lease, guidance, flight,
                   stopping, wake, autos, crashes>>

\* A continuation that is refused: only the automatic one marks the job.
Refused(j) ==
    /\ job' = IF loop.by = "auto" THEN [j EXCEPT !.status = "blocked", !.block = "failed"] ELSE j
    /\ loop' = Free

Busy(src) == \E c \in Callers : flight[c] = [at |-> "task", src |-> src]

\* The run's recovery lock; then a resume by the user begins a new outage count,
\* and the run's task must be over.
Enter ==
    /\ up /\ loop.pc = "enter"
    /\ IF Busy(loop.src)
       THEN /\ flight' = [flight EXCEPT ![loop.by] = [at |-> "lock", src |-> loop.src]]
            /\ loop' = Free
            /\ UNCHANGED <<job, autos>>
       ELSE IF loop.by # "retry" /\ Known(rep[loop.src])
       THEN loop' = Free /\ UNCHANGED <<job, autos, flight>>
       ELSE IF loop.by # "retry" /\ (~rec[loop.src] \/ run[loop.src] = "unknown" \/ Exhausted)
       THEN Refused(job) /\ UNCHANGED <<autos, flight>>
       ELSE /\ IF loop.by = "resume" /\ rep[loop.src] = 0
               THEN /\ job' = [job EXCEPT !.cycles = -1, !.over = FALSE, !.auto = 0, !.claim = FALSE,
                                          !.block = IF @ \in {"limit", "window"} THEN "none" ELSE @]
                    /\ autos' = 0
               ELSE UNCHANGED <<job, autos>>
            /\ IF task[loop.src] = "none"
               THEN loop' = [loop EXCEPT !.pc = "check"] /\ UNCHANGED flight
               ELSE /\ flight' = [flight EXCEPT ![loop.by] = [at |-> "task", src |-> loop.src]]
                    /\ loop' = Free
    /\ UNCHANGED <<up, closing, ledger, run, rec, task, rep, lease, guidance, stopping, wake,
                   wish, requests, crashes>>

\* A waiting continuation goes on when its lock is released or its task is over.
GoOn(c) ==
    /\ Idle /\ flight[c] # Ground
    /\ \/ flight[c].at = "lock" /\ ~Busy(flight[c].src)
       \/ flight[c].at = "task" /\ task[flight[c].src] = "none"
    /\ loop' = [pc |-> IF flight[c].at = "lock" THEN "enter" ELSE "check",
                by |-> c, src |-> flight[c].src, tokens |-> 0]
    /\ flight' = [flight EXCEPT ![c] = Ground]
    /\ UNCHANGED <<up, closing, job, ledger, run, rec, task, rep, lease, guidance, stopping,
                   wake, history, requests, crashes>>

\* What may be continued: an interrupted run, one without a provider, a draft.
Recoverable(r) == rec[r] /\ run[r] \in {"interrupted", "waiting", "failed", "cancelled"}

\* _retry_locked up to reserve_recovery: one replacement per run, for ever.
\* Mutant: a new replacement each time.
Fresh == CHOOSE n \in Runs : run[n] = "absent" /\ \A r \in Runs : rep[r] # n
HasFresh == \E n \in Runs : run[n] = "absent" /\ \A r \in Runs : rep[r] # n
AlwaysFresh(r) == IF HasFresh THEN Fresh ELSE 0
Reserved(r) == IF rep[r] # 0 THEN rep[r] ELSE IF HasFresh THEN Fresh ELSE 0

Check ==
    /\ up /\ loop.pc = "check"
    /\ IF Known(rep[loop.src])
       THEN loop' = Free /\ UNCHANGED <<job, rep>>
       ELSE IF ~Recoverable(loop.src) \/ Exhausted
       THEN Refused(job) /\ UNCHANGED rep
       ELSE /\ Reserved(loop.src) # 0
            /\ rep' = [rep EXCEPT ![loop.src] = Reserved(loop.src)]
            /\ loop' = [loop EXCEPT !.pc = "transfer"]
            /\ UNCHANGED job
    /\ UNCHANGED <<up, closing, ledger, run, rec, task, lease, guidance, flight, stopping,
                   wake, history, requests, crashes>>

\* transfer_unacknowledged_guidance: what was claimed is queued again.
\* Mutant: only what nobody has claimed.
TransferableQueued(i) == item[i] = "queued" /\ at[i] = loop.src
Transferable(i) == item[i] \in {"queued", "claimed"} /\ at[i] = loop.src

Transfer ==
    /\ up /\ loop.pc = "transfer"
    /\ item' = [i \in Items |-> IF Transferable(i) THEN "queued" ELSE item[i]]
    /\ at' = [i \in Items |-> IF Transferable(i) THEN rep[loop.src] ELSE at[i]]
    /\ loop' = [loop EXCEPT !.pc = "attach"]
    /\ UNCHANGED <<up, closing, job, ledger, run, rec, task, rep, lease, stray, flight,
                   stopping, wake, history, requests, crashes>>

\* start_run: the session lease, then attach.  The lease of a dead process is in
\* the way until it expires.
Attach ==
    /\ up /\ loop.pc = "attach"
    /\ IF lease \in {0, rep[loop.src]}
       THEN /\ lease' = rep[loop.src]
            /\ job' = Attached(job, rep[loop.src])
            /\ loop' = [loop EXCEPT !.pc = "register"]
            /\ autos' = IF loop.by = "auto" /\ job.claim THEN autos + 1 ELSE autos
            /\ UNCHANGED rec
       ELSE /\ Refused(Updated(job, loop.src, run[loop.src]))
            /\ rec' = [rec EXCEPT ![loop.src] = TRUE]
            /\ UNCHANGED <<lease, autos>>
    /\ UNCHANGED <<up, closing, ledger, run, task, rep, guidance, flight, stopping, wake,
                   wish, requests, crashes>>

\* The replacement is a row and a task.
Register ==
    /\ up /\ loop.pc = "register"
    /\ LET new == rep[loop.src]
       IN  /\ run' = [run EXCEPT ![new] = "running"]
           /\ task' = [task EXCEPT ![new] = "busy"]
           /\ job' = Updated(job, new, "running")
    /\ loop' = [loop EXCEPT !.pc = "complete"]
    /\ UNCHANGED <<up, closing, ledger, rec, rep, lease, guidance, flight, stopping, wake,
                   history, requests, crashes>>

Complete ==
    /\ up /\ loop.pc = "complete"
    /\ rec' = [rec EXCEPT ![loop.src] = FALSE]
    /\ loop' = Free
    /\ UNCHANGED <<up, closing, job, ledger, run, task, rep, lease, guidance, flight, stopping,
                   wake, history, requests, crashes>>

----------------------------------------------------------------------------
(* recover_jobs, at startup and when a retry is due *)

\* claim_recovery: at most one claim at a time, each counted.
\* Mutants: claims are not counted; they are counted down.
ClaimedDown(j) == [j EXCEPT !.claim = TRUE, !.auto = @ - 1]
ClaimedFree(j) == [j EXCEPT !.claim = TRUE]
Claimed(j) == [j EXCEPT !.claim = TRUE, !.auto = @ + 1, !.cycles = IF @ = -1 THEN @ ELSE @ + 1]
Claimable == job.paused = "no" /\ job.status \in {"waiting", "interrupted", "failed"} /\ ~job.claim

Recover ==
    /\ up /\ loop.pc = "free" /\ ~closing /\ wake # "none"
    /\ flight["auto"] = Ground
    /\ IF \/ job.paused \in {"user", "budget"} \/ ~Known(job.cur)
          \/ run[job.cur] \notin {"interrupted", "waiting"}
       THEN wake' = "none" /\ UNCHANGED <<job, loop>>
       ELSE IF job.due = "later"
       THEN wake' = Scheduled("none") /\ UNCHANGED <<job, loop>>
       ELSE /\ wake' = "none"
            /\ IF Exhausted
               THEN /\ job' = [job EXCEPT !.status = "paused", !.paused = "budget", !.block = "budget"]
                    /\ UNCHANGED loop
               ELSE IF Outage(job) # "none"
               THEN job' = [job EXCEPT !.block = Outage(job)] /\ UNCHANGED loop
               ELSE IF job.auto >= MaxCycles
               THEN job' = [job EXCEPT !.status = "blocked", !.block = "limit"] /\ UNCHANGED loop
               ELSE \/ \* recovery_info: not recoverable, or the workspace or stage changed
                       /\ job' = [job EXCEPT !.status = "blocked", !.block = "refused"]
                       /\ UNCHANGED loop
                    \/ /\ rec[job.cur] /\ Claimable
                       /\ job' = Claimed(job)
                       /\ loop' = [pc |-> "enter", by |-> "auto", src |-> job.cur, tokens |-> 0]
                    \/ rec[job.cur] /\ ~Claimable /\ UNCHANGED <<job, loop>>
    /\ UNCHANGED <<up, closing, ledger, run, rec, task, rep, lease, guidance, flight, stopping,
                   history, requests, crashes>>

----------------------------------------------------------------------------
(* The budget, time, and the process *)

\* extend_budget also lifts whatever paused the job.
Extend ==
    /\ Request /\ limit = Limit
    /\ limit' = limit + Limit
    /\ job' = [job EXCEPT !.paused = "no", !.block = "none"]
    /\ wish' = FALSE
    /\ UNCHANGED <<up, closing, tokens, attempt, spent, run, rec, task, rep, lease, guidance,
                   loop, flight, stopping, wake, autos, crashes>>

DueArrives ==
    /\ job.due = "later" /\ loop.pc = "free"
    /\ job' = [job EXCEPT !.due = "now"]
    /\ UNCHANGED <<up, closing, ledger, run, rec, task, rep, lease, guidance, loop, flight,
                   stopping, wake, history, requests, crashes>>

\* OUTAGE_WINDOW_SECONDS are over.
WindowCloses ==
    /\ job.cycles # -1 /\ ~job.over /\ loop.pc = "free"
    /\ job' = [job EXCEPT !.over = TRUE]
    /\ UNCHANGED <<up, closing, ledger, run, rec, task, rep, lease, guidance, loop, flight,
                   stopping, wake, history, requests, crashes>>

ClaimExpires ==
    /\ job.claim /\ loop.pc = "free" /\ flight["auto"] = Ground
    /\ job' = [job EXCEPT !.claim = FALSE]
    /\ UNCHANGED <<up, closing, ledger, run, rec, task, rep, lease, guidance, loop, flight,
                   stopping, wake, history, requests, crashes>>

\* Nobody renews the lease of a dead process.
LeaseExpires ==
    /\ lease # 0 /\ task[lease] = "none" /\ loop.pc = "free"
    /\ lease' = 0
    /\ UNCHANGED <<up, closing, job, ledger, run, rec, task, rep, guidance, loop, flight,
                   stopping, wake, history, requests, crashes>>

Down ==
    /\ up' = FALSE /\ closing' = FALSE
    /\ task' = [r \in Runs |-> "none"]
    /\ attempt' = [a \in Attempts |-> IF attempt[a] = "open" THEN "lost" ELSE attempt[a]]
    /\ loop' = Free /\ flight' = [c \in Callers |-> Ground] /\ stopping' = Still
    /\ wake' = "none"
    /\ crashes' = crashes + 1
    /\ UNCHANGED <<job, tokens, limit, spent, run, rec, rep, guidance, history, requests>>

Crash == up /\ MoreTrouble /\ Down /\ UNCHANGED lease

Exit == up /\ closing /\ loop.pc = "free" /\ stopping = Still /\ Down /\ lease' = 0

\* _restore_runs: a run that was at work is interrupted; one whose replacement is
\* there is not recoverable.
\* Mutant: nor is one whose replacement was only reserved.
SupersededEarly(r) == rep[r] # 0
Superseded(r) == Known(rep[r])

Boot ==
    /\ ~up /\ up' = TRUE
    /\ LET active(r) == run[r] \in {"running", "cancelling"}
       IN  /\ run' = [r \in Runs |-> IF active(r) THEN "interrupted" ELSE run[r]]
           /\ rec' = [r \in Runs |-> (rec[r] \/ active(r)) /\ ~Superseded(r)]
           /\ job' = IF active(job.cur) THEN Updated(job, job.cur, "interrupted") ELSE job
    /\ wake' = "startup"
    /\ UNCHANGED <<closing, ledger, task, rep, lease, guidance, loop, flight, stopping, history,
                   requests, crashes>>

----------------------------------------------------------------------------
Next ==
    \/ \E a \in Attempts : Reserve(a) \/ Settle(a)
    \/ \E i \in Items, r \in Runs : Steer(i, r) \/ ClaimItem(i, r)
    \/ \E r \in Runs : SettleTurn(r) \/ ProviderAnswers(r) \/ GiveUp(r) \/ EndTask(r)
    \/ \E r \in Runs, s \in {"completed", "failed", "waiting"} : Finish(r, s)
    \/ PauseRead \/ PauseSave \/ \E r \in Runs : Cancel(r)
    \/ \E clean \in BOOLEAN : Stopped(clean)
    \/ Close \/ Exit
    \/ ResumeRead \/ ResumeSave \/ \E r \in Runs : Retry(r)
    \/ Enter \/ \E c \in Callers : GoOn(c)
    \/ Check \/ Transfer \/ Attach \/ Register \/ Complete
    \/ Recover \/ Extend
    \/ DueArrives \/ WindowCloses \/ ClaimExpires \/ LeaseExpires
    \/ Crash \/ Boot

\* Handlers and ending tasks go on, time passes, a retry task wakes up.
Fairness ==
    /\ WF_vars(PauseSave \/ ResumeSave \/ Enter \/ Check \/ Transfer \/ Attach \/ Register \/ Complete)
    /\ \A c \in Callers : WF_vars(GoOn(c))
    /\ \A r \in Runs : WF_vars(EndTask(r))
    /\ WF_vars(\E clean \in BOOLEAN : Stopped(clean))
    /\ WF_vars(DueArrives)
    /\ WF_vars(Recover)

Spec == Init /\ [][Next]_vars /\ Fairness

----------------------------------------------------------------------------
(* Properties *)

\* The job's consumption is exactly what the ledger of attempts says: a completed
\* attempt costs what it used, any other one all it reserved, whichever handler
\* wrote a copy of the job back in between (jobs.py: save, reserve_provider_attempt,
\* settle_provider_attempt).
Costs[S \in SUBSET Attempts] ==
    IF S = {} THEN 0 ELSE LET a == CHOOSE x \in S : TRUE IN spent[a] + Costs[S \ {a}]
LedgerExact == tokens = Costs[Attempts]

\* A run at work that nobody is stopping is its job's current run, and the job says
\* so: late updates of runs that were replaced do not show through (jobs.py:
\* update_run).
LiveMeansRunning ==
    \A r \in Runs : task[r] = "busy" /\ run[r] = "running" /\ loop.pc = "free" =>
        job.cur = r /\ job.status = "running" /\ job.paused = "no"

\* A job can be continued from a run the backend knows, unless the user cancelled
\* that run: death between the reservation of a replacement and its first row strands
\* nothing (orchestrator.py: _retry_locked, _restore_runs).
Continuable ==
    up /\ loop.pc = "free" =>
        \/ Known(job.cur)
        \/ \E r \in Runs : Known(r) /\ rep[r] = job.cur /\ (rec[r] \/ run[r] \in {"cancelled", "unknown"})

\* Guidance not yet acknowledged waits for the job's current run or for the
\* replacement that is about to be, unless it was sent to a run already replaced
\* (orchestration_store.py: transfer_unacknowledged_guidance).
GuidanceKept ==
    \A i \in Items : item[i] \in {"queued", "claimed"} /\ i \notin stray =>
        at[i] \in {job.cur, rep[job.cur]} \/ \E r \in Runs : at[i] = r /\ rep[r] = job.cur

\* Without the user, and without an answer of the provider, a job is restarted at
\* most MAX_RECOVERY_CYCLES times, over any number of outages and restarts of the
\* backend (jobs.py: claim_recovery, attach).  An automatic recovery already under
\* way when the user resumes, which voids its claim, comes on top.
AutoBounded == autos <= MaxCycles

\* A job the user has paused, while no continuation was already under way, is
\* attached to no run before the user asks for it
\* (jobs.py: save, update_run, claim_recovery; orchestrator.py: pause_job).
PauseKept == [][job'.cur # job.cur => ~wish]_vars

\* A job that waits for its provider after a run that just failed, or after a restart,
\* is retried, blocked with a reason, paused or settled (orchestrator.py:
\* _schedule_retry, recover_jobs).  One whose claim survived its process waits for
\* the user, and one whose outage window closes before its retry is scheduled waits
\* without a reason.
Waiting ==
    /\ up /\ ~closing /\ Known(job.cur) /\ run[job.cur] = "waiting"
    /\ job.status = "waiting" /\ job.paused = "no" /\ job.block = "none"
    /\ ~job.claim /\ Outage(job) = "none"
    /\ HasFresh  \* the bound on runs is not reached
RetriesHappen == Waiting /\ (task[job.cur] = "ending" \/ wake # "none") ~> ~Waiting

=============================================================================

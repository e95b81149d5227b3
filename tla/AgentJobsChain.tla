-------------------------- MODULE AgentJobsChain ----------------------------
(***************************************************************************)
(* The runs of a job form a chain, and only its last run works.            *)
(***************************************************************************)
EXTENDS AgentJobsProofs

\* A run that is not the job's current one has been replaced, or the current one is
\* the replacement it has reserved.
Chain == \A r \in Runs : run[r] # "absent" /\ r # job.cur => Known(rep[r]) \/ rep[r] = job.cur

\* The lease of the session belongs to the run that has a task.
OneTask == \A r \in Runs : task[r] # "none" => lease = r

Live ==
    \A r \in Runs : task[r] = "busy" /\ run[r] = "running" =>
        job.cur = r /\ job.status = "running" /\ job.paused = "no"

\* What a handler knows at each of its steps.
Affordable == ~Exhausted \/ \E r \in Runs : task[r] # "none"
AtStep ==
    /\ loop.pc = "read" => loop.src = job.cur
    /\ loop.pc \in {"transfer", "attach", "register"} =>
        run[rep[loop.src]] = "absent" /\ run[loop.src] # "running" /\ Affordable
    /\ loop.pc = "register" =>
        lease = rep[loop.src] /\ job.cur = rep[loop.src] /\ job.paused = "no"

\* An automatic continuation works for the last run, or finds it replaced.
AutoAt(s) ==
    /\ run[s] # "running"
    /\ Known(rep[s]) \/ s = job.cur \/ (rep[s] = job.cur /\ loop.pc = "register")
AutoLast ==
    /\ loop.by = "auto" /\ loop.pc \in {"enter", "check", "transfer", "attach"} => AutoAt(loop.src)
    /\ flight["auto"] # Ground => AutoAt(flight["auto"].src)

ChainInv == Chain /\ OneTask /\ Live /\ AtStep /\ AutoLast

RunTable == [Runs -> RunStatuses]
Working == {"transfer", "attach", "register"}

LEMMA ChainTypes ==
    ASSUME TypeInv
    PROVE  /\ job \in Jobs /\ job.cur \in Runs /\ 0 \notin Runs
           /\ loop \in Places /\ flight \in [Callers -> Flights]
           /\ run \in RunTable /\ task \in [Runs -> {"none", "busy", "ending"}]
           /\ \A r \in Runs : rep[r] \in Runs \cup {0}
           /\ rep \in [Runs -> 0 .. MaxRuns]
           /\ Placed
<1>1. 0 .. MaxRuns = Runs \cup {0} /\ 0 \notin Runs
  BY JobAssumption DEF Runs
<1>2. QED
  BY <1>1 DEF TypeInv, TypeOK, RunTypes, HandlerTypes, Jobs, RunTable, RunStatuses

(***************************************************************************)
(* Steps that attach, register and continue nothing.                       *)
(***************************************************************************)
SameRuns ==
    \A r \in Runs : \/ run'[r] = run[r]
                    \/ run[r] # "absent" /\ run'[r] \notin {"absent", "running"}
FewerTasks ==
    \A r \in Runs : /\ task'[r] # "none" => task[r] # "none" /\ lease' = lease
                    /\ task'[r] = "busy" => task[r] = "busy"
SameStatus ==
    \/ job'.status = job.status /\ job'.paused \in {job.paused, "no"}
    \/ run'[job.cur] # "running" \/ task'[job.cur] = "none"
SameHandler ==
    \/ /\ loop' = loop /\ flight' = flight
       /\ loop.pc \in Working =>
            /\ UNCHANGED <<lease, task, job>>
            /\ Exhausted' => Exhausted \/ \E r \in Runs : task[r] # "none"
    \/ loop'.pc = "free" /\ \A c \in Callers : flight'[c] = Ground
    \/ /\ loop.pc # "register" /\ flight' = flight
       /\ loop'.pc = "free" \/ (loop'.pc = "read" /\ loop'.src = job.cur)
Calm == job'.cur = job.cur /\ rep' = rep /\ SameRuns /\ FewerTasks /\ SameStatus /\ SameHandler

LEMMA CalmKeeps ==
    ASSUME TypeInv, ChainInv, Calm
    PROVE  ChainInv'
<1>0. /\ job.cur \in Runs /\ 0 \notin Runs /\ Placed
      /\ \A r \in Runs : rep[r] \in Runs \cup {0}
  BY ChainTypes
<1>1. \A r \in Runs : (run'[r] = "absent" <=> run[r] = "absent") /\ (run'[r] = "running" => run[r] = "running")
  BY DEF Calm, SameRuns
<1>2. \A r \in Runs : Known(rep[r])' <=> Known(rep[r])
  BY <1>0, <1>1 DEF Calm, Known
<1>3. Chain'
  BY <1>1, <1>2 DEF ChainInv, Chain, Calm
<1>4. OneTask'
  BY DEF ChainInv, OneTask, Calm, FewerTasks
<1>5. Live'
  BY <1>0, <1>1 DEF ChainInv, Live, Calm, FewerTasks, SameStatus
<1>6. CASE loop' = loop /\ flight' = flight /\ (loop.pc \in Working =>
            /\ UNCHANGED <<lease, task, job>>
            /\ Exhausted' => Exhausted \/ \E r \in Runs : task[r] # "none")
  <2>1. loop.pc \in Working => loop.src \in Runs /\ rep[loop.src] \in Runs
    BY <1>0 DEF Placed, Working
  <2>2. loop.pc \in Working => Affordable'
    BY <1>6 DEF ChainInv, AtStep, Affordable, Working
  <2>3. AtStep'
    BY <1>1, <1>6, <2>1, <2>2 DEF ChainInv, AtStep, Calm, Working
  <2>4. \A s \in Runs : AutoAt(s) => AutoAt(s)'
    BY <1>1, <1>2, <1>6 DEF AutoAt, Calm
  <2>5. AutoLast'
    BY <1>0, <1>6, <2>4 DEF ChainInv, AutoLast, Placed, Callers
  <2>6. QED
    BY <1>3, <1>4, <1>5, <2>3, <2>5 DEF ChainInv
<1>7. CASE loop'.pc = "free" /\ \A c \in Callers : flight'[c] = Ground
  <2>1. AtStep' /\ AutoLast'
    BY <1>7 DEF AtStep, AutoLast, Callers
  <2>2. QED
    BY <1>3, <1>4, <1>5, <2>1 DEF ChainInv
<1>8. CASE /\ loop.pc # "register" /\ flight' = flight
           /\ loop'.pc = "free" \/ (loop'.pc = "read" /\ loop'.src = job.cur)
  <2>1. AtStep'
    BY <1>8 DEF AtStep, Calm
  <2>2. \A s \in Runs : AutoAt(s) => AutoAt(s)'
    BY <1>1, <1>2, <1>8 DEF AutoAt, Calm
  <2>3. AutoLast'
    BY <1>0, <1>8, <2>2 DEF ChainInv, AutoLast, Placed, Callers
  <2>4. QED
    BY <1>3, <1>4, <1>5, <2>1, <2>3 DEF ChainInv
<1>9. QED
  BY <1>6, <1>7, <1>8 DEF Calm, SameHandler

\* A continuation moves between its places.
LEMMA MoveKeeps ==
    ASSUME TypeInv, ChainInv,
           job'.cur = job.cur, job'.status = job.status, job'.paused \in {job.paused, "no"},
           UNCHANGED <<run, rep, task, lease>>,
           loop'.pc \in {"free", "enter", "check"}, AutoLast'
    PROVE  ChainInv'
<1>1. Chain' /\ OneTask' /\ Live'
  BY DEF ChainInv, Chain, OneTask, Live, Known
<1>2. AtStep'
  BY DEF AtStep
<1>3. QED
  BY <1>1, <1>2 DEF ChainInv

\* A continuation is refused for a run that has no replacement yet: an automatic one
\* marks the job only on behalf of its last run, which does not work.
LEMMA RefusalKeeps ==
    ASSUME TypeInv, ChainInv, loop.pc \in {"enter", "check", "attach"},
           run[rep[loop.src]] = "absent" \/ ~Known(rep[loop.src]), NEW k \in Jobs, Refused(k),
           k = job \/ (loop.src = job.cur /\ run[job.cur] # "running" /\ k.cur = job.cur),
           UNCHANGED <<run, rep, task, lease, flight>>
    PROVE  ChainInv'
<1>0. job.cur \in Runs /\ job \in Jobs
  BY ChainTypes
<1>1. loop' = Free /\ Keeps(k, job')
  BY RefusedKeeps
<1>2. job'.cur = job.cur
  BY <1>1 DEF Keeps
<1>3. ~Known(rep[loop.src])
  BY DEF Known
<1>4. loop.by = "auto" => loop.src = job.cur /\ run[loop.src] # "running"
  BY <1>3 DEF ChainInv, AutoLast, AutoAt
<1>5. job' = job \/ run[job.cur] # "running"
  BY <1>4 DEF Refused
<1>6. SameRuns /\ FewerTasks
  BY DEF SameRuns, FewerTasks
<1>7. SameStatus
  BY <1>5 DEF SameStatus
<1>8. SameHandler
  BY <1>1 DEF SameHandler, Free
<1>9. QED
  BY <1>2, <1>6, <1>7, <1>8, CalmKeeps DEF Calm

LEMMA ChainInit == Init => ChainInv
<1> SUFFICES ASSUME Init PROVE ChainInv
  OBVIOUS
<1>1. 1 \in Runs /\ job.cur = 1 /\ job.status = "running" /\ job.paused = "no"
  BY JobAssumption DEF Init, NewJob, Runs
<1>2. Chain /\ OneTask /\ Live
  BY <1>1 DEF Init, Chain, OneTask, Live
<1>3. AtStep /\ AutoLast
  BY DEF Init, AtStep, AutoLast, Free, Ground, Callers
<1>4. QED
  BY <1>2, <1>3 DEF ChainInv

LEMMA ChainStep == TypeInv /\ ChainInv /\ [Next]_vars => ChainInv'
<1> SUFFICES ASSUME TypeInv, ChainInv, [Next]_vars PROVE ChainInv'
  OBVIOUS
<1>0. /\ job \in Jobs /\ job.cur \in Runs /\ 0 \notin Runs
      /\ loop \in Places /\ flight \in [Callers -> Flights]
      /\ run \in RunTable /\ task \in [Runs -> {"none", "busy", "ending"}]
      /\ \A r \in Runs : rep[r] \in Runs \cup {0}
      /\ rep \in [Runs -> 0 .. MaxRuns]
      /\ Placed /\ TypeInv /\ ChainInv
  BY ChainTypes
<1>1. ASSUME NEW a \in Attempts, Reserve(a) PROVE ChainInv'
  <2>1. job'.cur = job.cur /\ rep' = rep
    BY <1>1 DEF Reserve
  <2>2. SameRuns
    BY <1>1 DEF SameRuns, Reserve
  <2>3. FewerTasks
    BY <1>1 DEF FewerTasks, Reserve
  <2>4. SameStatus
    BY <1>1 DEF SameStatus, Reserve
  <2>5. SameHandler
    <3>1. \E r \in Runs : task[r] # "none"
      BY <1>1 DEF Reserve
    <3>2. QED
      BY <1>1, <3>1 DEF SameHandler, Reserve
  <2>6. QED
    BY <2>1, <2>2, <2>3, <2>4, <2>5, CalmKeeps DEF Calm
<1>2. ASSUME NEW a \in Attempts, Settle(a) PROVE ChainInv'
  <2>1. job'.cur = job.cur /\ rep' = rep
    BY <1>2 DEF Settle
  <2>2. SameRuns
    BY <1>2 DEF SameRuns, Settle
  <2>3. FewerTasks
    BY <1>2 DEF FewerTasks, Settle
  <2>4. SameStatus
    BY <1>2 DEF SameStatus, Settle
  <2>5. SameHandler
    <3>1. PICK used \in 0 .. Charge : tokens' = tokens - (Charge - used)
      BY <1>2 DEF Settle
    <3>2. tokens \in Int /\ limit \in Nat /\ limit' = limit
      BY <1>0, <1>2 DEF TypeOK, LedgerTypes, Settle, TypeInv
    <3>3. Exhausted' => Exhausted
      BY <3>1, <3>2, JobAssumption DEF Exhausted
    <3>4. QED
      BY <1>2, <3>3 DEF SameHandler, Settle
  <2>6. QED
    BY <2>1, <2>2, <2>3, <2>4, <2>5, CalmKeeps DEF Calm
<1>3. ASSUME NEW i \in Items, NEW r \in Runs, Steer(i, r) PROVE ChainInv'
  <2>1. job'.cur = job.cur /\ rep' = rep
    BY <1>3 DEF Steer
  <2>2. SameRuns
    BY <1>3 DEF SameRuns, Steer
  <2>3. FewerTasks
    BY <1>3 DEF FewerTasks, Steer
  <2>4. SameStatus
    BY <1>3 DEF SameStatus, Steer
  <2>5. SameHandler
    BY <1>3 DEF SameHandler, Working, Idle, Steer
  <2>6. QED
    BY <2>1, <2>2, <2>3, <2>4, <2>5, CalmKeeps DEF Calm
<1>4. ASSUME NEW i \in Items, NEW r \in Runs, ClaimItem(i, r) PROVE ChainInv'
  <2>1. job'.cur = job.cur /\ rep' = rep
    BY <1>4 DEF ClaimItem
  <2>2. SameRuns
    BY <1>4 DEF SameRuns, ClaimItem
  <2>3. FewerTasks
    BY <1>4 DEF FewerTasks, ClaimItem
  <2>4. SameStatus
    BY <1>4 DEF SameStatus, ClaimItem
  <2>5. SameHandler
    BY <1>4 DEF SameHandler, Working, Idle, ClaimItem
  <2>6. QED
    BY <2>1, <2>2, <2>3, <2>4, <2>5, CalmKeeps DEF Calm
<1>5. ASSUME NEW r \in Runs, SettleTurn(r) PROVE ChainInv'
  <2>1. job'.cur = job.cur /\ rep' = rep
    BY <1>5 DEF SettleTurn
  <2>2. SameRuns
    BY <1>5 DEF SameRuns, SettleTurn
  <2>3. FewerTasks
    BY <1>5 DEF FewerTasks, SettleTurn
  <2>4. SameStatus
    BY <1>5 DEF SameStatus, SettleTurn
  <2>5. SameHandler
    BY <1>5 DEF SameHandler, Working, Idle, SettleTurn
  <2>6. QED
    BY <2>1, <2>2, <2>3, <2>4, <2>5, CalmKeeps DEF Calm
<1>6. ASSUME NEW r \in Runs, ProviderAnswers(r) PROVE ChainInv'
  <2>1. job'.cur = job.cur /\ rep' = rep
    BY <1>0, <1>6 DEF ProviderAnswers, Settled, Jobs
  <2>2. SameRuns
    BY <1>6 DEF SameRuns, ProviderAnswers
  <2>3. FewerTasks
    BY <1>6 DEF FewerTasks, ProviderAnswers
  <2>4. SameStatus
    BY <1>0, <1>6 DEF SameStatus, ProviderAnswers, Settled, Jobs
  <2>5. SameHandler
    BY <1>6 DEF SameHandler, Working, Idle, ProviderAnswers
  <2>6. QED
    BY <2>1, <2>2, <2>3, <2>4, <2>5, CalmKeeps DEF Calm
<1>7. ASSUME NEW r \in Runs, GiveUp(r) PROVE ChainInv'
  <2>1. job'.cur = job.cur /\ rep' = rep
    BY <1>7 DEF GiveUp
  <2>2. SameRuns
    BY <1>7 DEF SameRuns, GiveUp
  <2>3. FewerTasks
    BY <1>0, <1>7 DEF FewerTasks, GiveUp, ChainInv, OneTask
  <2>4. SameStatus
    BY <1>7 DEF SameStatus, GiveUp
  <2>5. SameHandler
    BY <1>7 DEF SameHandler, Working, Idle, GiveUp
  <2>6. QED
    BY <2>1, <2>2, <2>3, <2>4, <2>5, CalmKeeps DEF Calm
<1>8. ASSUME NEW r \in Runs, EndTask(r) PROVE ChainInv'
  <2>1. job'.cur = job.cur /\ rep' = rep
    BY <1>8 DEF EndTask
  <2>2. SameRuns
    BY <1>8 DEF SameRuns, EndTask
  <2>3. FewerTasks
    BY <1>0, <1>8 DEF FewerTasks, EndTask, ChainInv, OneTask
  <2>4. SameStatus
    BY <1>8 DEF SameStatus, EndTask
  <2>5. SameHandler
    BY <1>8 DEF SameHandler, Working, Idle, EndTask
  <2>6. QED
    BY <2>1, <2>2, <2>3, <2>4, <2>5, CalmKeeps DEF Calm
<1>9. ASSUME NEW r \in Runs, NEW s \in {"completed", "failed", "waiting"}, Finish(r, s) PROVE ChainInv'
  <2>1. job'.cur = job.cur /\ rep' = rep
    BY <1>0, <1>9, UpdatedKeeps DEF Keeps, JobStatuses, Finish
  <2>2. SameRuns
    BY <1>0, <1>9 DEF SameRuns, RunTable, Terminal, Known, Finish
  <2>3. FewerTasks
    BY <1>0, <1>9 DEF FewerTasks, Finish
  <2>4. SameStatus
    BY <1>0, <1>9 DEF SameStatus, Updated, RunTable, Finish
  <2>5. SameHandler
    BY <1>9 DEF SameHandler, Working, Idle, Request, Finish
  <2>6. QED
    BY <2>1, <2>2, <2>3, <2>4, <2>5, CalmKeeps DEF Calm
<1>10. ASSUME PauseRead PROVE ChainInv'
  <2>1. job'.cur = job.cur /\ rep' = rep
    BY <1>10 DEF PauseRead
  <2>2. SameRuns
    BY <1>10 DEF SameRuns, PauseRead
  <2>3. FewerTasks
    BY <1>10 DEF FewerTasks, PauseRead
  <2>4. SameStatus
    BY <1>10 DEF SameStatus, PauseRead
  <2>5. SameHandler
    BY <1>10 DEF SameHandler, Working, Idle, Request, Reads, PauseRead
  <2>6. QED
    BY <2>1, <2>2, <2>3, <2>4, <2>5, CalmKeeps DEF Calm
<1>11. ASSUME PauseSave PROVE ChainInv'
  <2> DEFINE paused == [job EXCEPT !.paused = loop.by, !.status = "paused"]
  <2>7. loop.by \in {"user", "shutdown"} /\ loop.pc = "read" /\ loop' = Free /\ UNCHANGED <<flight, rep, task, lease>>
    BY <1>11 DEF PauseSave
  <2>8. paused \in Jobs /\ paused.cur = job.cur
    BY <1>0, <2>7 DEF Jobs, JobStatuses
  <2>9. loop.src = job.cur
    BY <1>0, <2>7 DEF ChainInv, AtStep
  <2>10. job' = paused \/ job' = Updated(paused, loop.src, "interrupted")
    BY <1>11 DEF PauseSave
  <2>11. \/ run[loop.src] \in Terminal /\ run' = run
         \/ run' = [run EXCEPT ![loop.src] = "cancelling"]
    BY <1>11 DEF PauseSave
  <2> HIDE DEF paused
  <2>1. job'.cur = job.cur /\ rep' = rep
    BY <2>7, <2>8, <2>10, UpdatedKeeps DEF Keeps, JobStatuses
  <2>2. SameRuns
    BY <1>0, <2>7, <2>11 DEF SameRuns, RunTable, Placed
  <2>3. FewerTasks
    BY <2>7 DEF FewerTasks
  <2>4. SameStatus
    BY <1>0, <2>9, <2>11 DEF SameStatus, RunTable, Terminal
  <2>5. SameHandler
    BY <2>7 DEF SameHandler, Free
  <2>6. QED
    BY <2>1, <2>2, <2>3, <2>4, <2>5, CalmKeeps DEF Calm
<1>12. ASSUME NEW r \in Runs, Cancel(r) PROVE ChainInv'
  <2>1. job'.cur = job.cur /\ rep' = rep
    BY <1>0, <1>12, UpdatedKeeps DEF Keeps, JobStatuses, Cancel
  <2>2. SameRuns
    BY <1>0, <1>12 DEF SameRuns, RunTable, Terminal, Known, Cancel
  <2>3. FewerTasks
    BY <1>12 DEF FewerTasks, Cancel
  <2>4. SameStatus
    BY <1>0, <1>12 DEF SameStatus, Updated, RunTable, Cancel
  <2>5. SameHandler
    BY <1>12 DEF SameHandler, Working, Idle, Request, Cancel
  <2>6. QED
    BY <2>1, <2>2, <2>3, <2>4, <2>5, CalmKeeps DEF Calm
<1>13. ASSUME NEW clean \in BOOLEAN, Stopped(clean) PROVE ChainInv'
  <2>1. job'.cur = job.cur /\ rep' = rep
    BY <1>0, <1>13, UpdatedKeeps DEF Keeps, JobStatuses, Stopped
  <2>2. SameRuns
    <3>1. stopping.run \in Runs /\ run[stopping.run] # "absent"
      BY <1>0, <1>13 DEF Placed, Stopped
    <3>2. QED
      BY <1>0, <1>13, <3>1 DEF SameRuns, RunTable, Stopped
  <2>3. FewerTasks
    BY <1>13 DEF FewerTasks, Stopped
  <2>4. SameStatus
    BY <1>0, <1>13 DEF SameStatus, Updated, RunTable, Stopped
  <2>5. SameHandler
    BY <1>13 DEF SameHandler, Working, Idle, Request, Stopped
  <2>6. QED
    BY <2>1, <2>2, <2>3, <2>4, <2>5, CalmKeeps DEF Calm
<1>14. ASSUME Close PROVE ChainInv'
  <2>1. job'.cur = job.cur /\ rep' = rep
    BY <1>14 DEF Close
  <2>2. SameRuns
    BY <1>14 DEF SameRuns, Close
  <2>3. FewerTasks
    BY <1>14 DEF FewerTasks, Close
  <2>4. SameStatus
    BY <1>14 DEF SameStatus, Close
  <2>5. SameHandler
    BY <1>14 DEF SameHandler, Working, Idle, Reads, Close
  <2>6. QED
    BY <2>1, <2>2, <2>3, <2>4, <2>5, CalmKeeps DEF Calm
<1>15. ASSUME Exit PROVE ChainInv'
  <2>1. job'.cur = job.cur /\ rep' = rep
    BY <1>15 DEF Exit, Down
  <2>2. SameRuns
    BY <1>15 DEF SameRuns, Exit, Down
  <2>3. FewerTasks
    BY <1>15 DEF FewerTasks, Exit, Down
  <2>4. SameStatus
    BY <1>15 DEF SameStatus, Exit, Down
  <2>5. SameHandler
    BY <1>15 DEF SameHandler, Free, Exit, Down
  <2>6. QED
    BY <2>1, <2>2, <2>3, <2>4, <2>5, CalmKeeps DEF Calm
<1>16. ASSUME ResumeRead PROVE ChainInv'
  <2>1. job'.cur = job.cur /\ rep' = rep
    BY <1>16 DEF ResumeRead
  <2>2. SameRuns
    BY <1>16 DEF SameRuns, ResumeRead
  <2>3. FewerTasks
    BY <1>16 DEF FewerTasks, ResumeRead
  <2>4. SameStatus
    BY <1>16 DEF SameStatus, ResumeRead
  <2>5. SameHandler
    BY <1>16 DEF SameHandler, Working, Idle, Request, Reads, ResumeRead
  <2>6. QED
    BY <2>1, <2>2, <2>3, <2>4, <2>5, CalmKeeps DEF Calm
<1>17. ASSUME ResumeSave PROVE ChainInv'
  <2>1. loop' = [loop EXCEPT !.pc = "enter"] /\ loop.pc = "read" /\ loop.by = "resume" /\ UNCHANGED <<run, rep, task, lease, flight>>
    BY <1>17 DEF ResumeSave
  <2>2. job'.cur = job.cur /\ job'.status = job.status /\ job'.paused = "no"
    BY <1>0, <1>17 DEF ResumeSave, Jobs
  <2>3. loop'.pc = "enter" /\ loop'.by = "resume"
    BY <1>0, <2>1 DEF Places
  <2>4. AutoLast'
    BY <1>0, <2>1, <2>2, <2>3 DEF ChainInv, AutoLast, AutoAt, Known
  <2>5. QED
    BY <1>0, <2>1, <2>2, <2>3, <2>4, MoveKeeps
<1>18. ASSUME NEW r \in Runs, Retry(r) PROVE ChainInv'
  <2>1. loop.pc = "free" /\ loop' = [pc |-> "enter", by |-> "retry", src |-> r, tokens |-> 0] /\ UNCHANGED <<job, run, rep, task, lease, flight>>
    BY <1>18 DEF Retry, Request, Idle
  <2>2. AutoLast'
    BY <1>0, <2>1 DEF ChainInv, AutoLast, AutoAt, Known
  <2>3. QED
    BY <1>0, <2>1, <2>2, MoveKeeps
<1>19. ASSUME Enter PROVE ChainInv'
  <2>1. loop.pc = "enter" /\ UNCHANGED <<run, rep, task, lease>>
    BY <1>19 DEF Enter
  <2>2. \/ Refused(job) /\ ~Known(rep[loop.src]) /\ UNCHANGED flight
        \/ loop' = Free /\ UNCHANGED <<job, autos, flight>>
        \/ /\ loop' = Free /\ \E w \in {"lock", "task"} : flight' = [flight EXCEPT ![loop.by] = [at |-> w, src |-> loop.src]]
           /\ Begins
        \/ loop' = [loop EXCEPT !.pc = "check"] /\ UNCHANGED flight /\ Begins
    BY <1>19 DEF Enter, Begins
  <2>3. CASE Refused(job) /\ ~Known(rep[loop.src]) /\ UNCHANGED flight
    BY <1>0, <2>1, <2>3, RefusalKeeps
  <2>4. CASE loop' = Free /\ UNCHANGED <<job, autos, flight>>
    <3>1. AutoLast'
      BY <1>0, <2>1, <2>4 DEF ChainInv, AutoLast, AutoAt, Known, Free
    <3>2. QED
      BY <1>0, <2>1, <2>4, <3>1, MoveKeeps DEF Free
  <2>5. Begins => job'.cur = job.cur /\ job'.status = job.status /\ job'.paused = job.paused
    BY <1>0 DEF Begins, Jobs
  <2>6. CASE /\ loop' = Free /\ \E w \in {"lock", "task"} : flight' = [flight EXCEPT ![loop.by] = [at |-> w, src |-> loop.src]]
             /\ Begins
    <3>1. AutoLast'
      BY <1>0, <2>1, <2>5, <2>6 DEF ChainInv, AutoLast, AutoAt, Known, Free, Callers
    <3>2. QED
      BY <1>0, <2>1, <2>5, <2>6, <3>1, MoveKeeps DEF Free
  <2>7. CASE loop' = [loop EXCEPT !.pc = "check"] /\ UNCHANGED flight /\ Begins
    <3>1. loop'.pc = "check" /\ loop'.by = loop.by /\ loop'.src = loop.src
      BY <1>0, <2>7 DEF Places
    <3>2. AutoLast'
      BY <1>0, <2>1, <2>5, <2>7, <3>1 DEF ChainInv, AutoLast, AutoAt, Known
    <3>3. QED
      BY <1>0, <2>1, <2>5, <2>7, <3>1, <3>2, MoveKeeps
  <2>8. QED
    BY <2>2, <2>3, <2>4, <2>6, <2>7
<1>20. ASSUME NEW c \in Callers, GoOn(c) PROVE ChainInv'
  <2>1. /\ loop.pc = "free" /\ flight[c] # Ground
        /\ loop' = [pc |-> IF flight[c].at = "lock" THEN "enter" ELSE "check", by |-> c, src |-> flight[c].src, tokens |-> 0]
        /\ flight' = [flight EXCEPT ![c] = Ground] /\ UNCHANGED <<job, run, rep, task, lease>>
    BY <1>20 DEF GoOn, Idle
  <2>2. AutoLast'
    BY <1>0, <2>1 DEF ChainInv, AutoLast, AutoAt, Known, Callers
  <2>3. QED
    BY <1>0, <2>1, <2>2, MoveKeeps
<1>21. ASSUME Check PROVE ChainInv'
  <2>1. loop.pc = "check" /\ UNCHANGED <<run, task, lease, flight, tokens, limit>>
    BY <1>21 DEF Check, ledger
  <2>2. \/ loop' = Free /\ UNCHANGED <<job, rep>>
        \/ Refused(job) /\ ~Known(rep[loop.src]) /\ UNCHANGED rep
        \/ /\ ~Known(rep[loop.src]) /\ Recoverable(loop.src) /\ ~Exhausted
           /\ Reserved(loop.src) # 0 /\ rep' = [rep EXCEPT ![loop.src] = Reserved(loop.src)]
           /\ loop' = [loop EXCEPT !.pc = "transfer"] /\ UNCHANGED job
    BY <1>21 DEF Check
  <2>3. CASE loop' = Free /\ UNCHANGED <<job, rep>>
    <3>1. AutoLast'
      BY <1>0, <2>1, <2>3 DEF ChainInv, AutoLast, AutoAt, Known, Free
    <3>2. QED
      BY <1>0, <2>1, <2>3, <3>1, MoveKeeps DEF Free
  <2>4. CASE Refused(job) /\ ~Known(rep[loop.src]) /\ UNCHANGED rep
    BY <1>0, <2>1, <2>4, RefusalKeeps
  <2>5. CASE /\ ~Known(rep[loop.src]) /\ Recoverable(loop.src) /\ ~Exhausted
             /\ Reserved(loop.src) # 0 /\ rep' = [rep EXCEPT ![loop.src] = Reserved(loop.src)]
             /\ loop' = [loop EXCEPT !.pc = "transfer"] /\ UNCHANGED job
    <3> DEFINE n == Reserved(loop.src)
    <3>1. loop.src \in Runs /\ run[loop.src] # "running" /\ run[loop.src] # "absent"
      BY <1>0, <2>1, <2>5 DEF Placed, Recoverable
    <3>2. n \in Runs /\ run[n] = "absent" /\ (rep[loop.src] # 0 => n = rep[loop.src])
      <4>1. HasFresh => Fresh \in Runs /\ run[Fresh] = "absent"
        BY DEF HasFresh, Fresh
      <4>2. rep[loop.src] # 0 => rep[loop.src] \in Runs /\ run[rep[loop.src]] = "absent"
        BY <1>0, <2>5, <3>1 DEF Known
      <4>3. QED
        BY <2>5, <4>1, <4>2 DEF Reserved
    <3> HIDE DEF n
    <3>3. rep'[loop.src] = n /\ \A r \in Runs \ {loop.src} : rep'[r] = rep[r]
      BY <1>0, <2>5, <3>1 DEF n
    <3>4. loop'.pc = "transfer" /\ loop'.by = loop.by /\ loop'.src = loop.src
      BY <1>0, <2>5 DEF Places
    <3>5. Chain'
      <4>1. SUFFICES ASSUME NEW r \in Runs, run[r] # "absent", r # job.cur
                     PROVE  Known(rep[r])' \/ rep'[r] = job.cur
        BY <2>1, <2>5 DEF Chain, Known
      <4>2. Known(rep[r]) \/ rep[r] = job.cur
        BY <1>0, <4>1 DEF ChainInv, Chain
      <4>3. CASE r = loop.src
        BY <1>0, <2>5, <3>2, <3>3, <4>2, <4>3
      <4>4. CASE r # loop.src
        BY <2>1, <3>3, <4>2, <4>4 DEF Known
      <4>5. QED
        BY <4>3, <4>4
    <3>6. OneTask' /\ Live'
      BY <1>0, <2>1, <2>5 DEF ChainInv, OneTask, Live
    <3>7. ~Exhausted'
      BY <2>1, <2>5 DEF Exhausted
    <3>8. AtStep'
      BY <2>1, <3>1, <3>2, <3>3, <3>4, <3>7 DEF AtStep, Affordable
    <3>9. \A s \in Runs : AutoAt(s) => AutoAt(s)'
      <4>1. SUFFICES ASSUME NEW s \in Runs, AutoAt(s) PROVE AutoAt(s)'
        OBVIOUS
      <4>2. CASE s = loop.src
        BY <2>1, <2>5, <4>1, <4>2 DEF AutoAt
      <4>3. CASE s # loop.src
        BY <2>1, <2>5, <3>3, <4>1, <4>3 DEF AutoAt, Known
      <4>4. QED
        BY <4>2, <4>3
    <3>10. AutoLast'
      BY <1>0, <2>1, <3>1, <3>4, <3>9 DEF ChainInv, AutoLast, Placed, Callers
    <3>11. QED
      BY <3>5, <3>6, <3>8, <3>10 DEF ChainInv
  <2>6. QED
    BY <2>2, <2>3, <2>4, <2>5
<1>22. ASSUME Transfer PROVE ChainInv'
  <2>1. /\ loop.pc = "transfer" /\ loop' = [loop EXCEPT !.pc = "attach"]
        /\ UNCHANGED <<job, run, rep, task, lease, flight, tokens, limit>>
    BY <1>22 DEF Transfer, ledger
  <2>2. loop'.pc = "attach" /\ loop'.by = loop.by /\ loop'.src = loop.src
    BY <1>0, <2>1 DEF Places
  <2>3. Chain' /\ OneTask' /\ Live'
    BY <1>0, <2>1 DEF ChainInv, Chain, OneTask, Live, Known
  <2>4. AtStep'
    BY <1>0, <2>1, <2>2 DEF ChainInv, AtStep, Affordable, Exhausted
  <2>5. AutoLast'
    BY <1>0, <2>1, <2>2 DEF ChainInv, AutoLast, AutoAt, Known
  <2>6. QED
    BY <2>3, <2>4, <2>5 DEF ChainInv
<1>23. ASSUME Attach PROVE ChainInv'
  <2> DEFINE n == rep[loop.src]
  <2>1. loop.pc = "attach" /\ UNCHANGED <<run, rep, task, flight, tokens, limit>>
    BY <1>23 DEF Attach, ledger
  <2>2. \/ /\ lease \in {0, n} /\ lease' = n /\ job' = Attached(job, n)
           /\ loop' = [loop EXCEPT !.pc = "register"]
        \/ Refused(Updated(job, loop.src, run[loop.src])) /\ UNCHANGED lease
    BY <1>23 DEF Attach
  <2>3. /\ loop.src \in Runs /\ n \in Runs
        /\ run[loop.src] # "absent" /\ run[loop.src] # "running" /\ run[n] = "absent" /\ Affordable
    BY <1>0, <2>1 DEF Placed, ChainInv, AtStep
  <2>4. CASE /\ lease \in {0, n} /\ lease' = n /\ job' = Attached(job, n)
             /\ loop' = [loop EXCEPT !.pc = "register"]
    <3>1. loop'.pc = "register" /\ loop'.src = loop.src
      BY <1>0, <2>4 DEF Places
    <3>2. job'.cur = n /\ job'.paused = "no"
      BY <1>0, <2>4 DEF Attached, Jobs
    <3>3. \A r \in Runs : task[r] = "none"
      <4>1. SUFFICES ASSUME NEW r \in Runs, task[r] # "none" PROVE FALSE
        OBVIOUS
      <4>2. r = n
        BY <1>0, <2>4, <4>1 DEF ChainInv, OneTask
      <4>3. QED
        BY <1>0, <2>3, <4>1, <4>2 DEF Placed
    <3>4. run[job.cur] # "absent" => loop.src = job.cur
      BY <1>0, <2>3 DEF ChainInv, Chain, Known
    <3>5. Chain'
      <4>1. SUFFICES ASSUME NEW r \in Runs, run[r] # "absent", r # n
                     PROVE  Known(rep[r]) \/ rep[r] = n
        BY <2>1, <3>2 DEF Chain, Known
      <4>2. CASE run[job.cur] # "absent"
        BY <1>0, <3>4, <4>1, <4>2 DEF ChainInv, Chain, Known
      <4>3. CASE run[job.cur] = "absent"
        BY <1>0, <2>3, <4>1, <4>3 DEF ChainInv, Chain, Known
      <4>4. QED
        BY <4>2, <4>3
    <3>6. OneTask' /\ Live'
      BY <2>1, <3>3 DEF OneTask, Live
    <3>7. Affordable'
      BY <2>1, <2>3 DEF Affordable, Exhausted
    <3>8. AtStep'
      BY <2>1, <2>3, <2>4, <3>1, <3>2, <3>7 DEF AtStep
    <3>9. flight["auto"] # Ground => AutoAt(flight["auto"].src)'
      <4>1. SUFFICES ASSUME flight["auto"] # Ground PROVE AutoAt(flight["auto"].src)'
        OBVIOUS
      <4> DEFINE s == flight["auto"].src
      <4>2. s \in Runs /\ run[s] # "absent" /\ AutoAt(s)
        BY <1>0, <4>1 DEF Placed, ChainInv, AutoLast, Callers
      <4>3. Known(rep[s]) \/ s = loop.src
        BY <2>1, <3>4, <4>2 DEF AutoAt
      <4>4. run'[s] # "running" /\ (Known(rep[s])' \/ (rep'[s] = job'.cur /\ loop'.pc = "register"))
        BY <2>1, <3>1, <3>2, <4>2, <4>3 DEF AutoAt, Known
      <4>5. flight'["auto"].src = s /\ rep' = rep
        BY <2>1
      <4>6. QED
        BY <2>1, <4>4, <4>5 DEF AutoAt
    <3>10. AutoLast'
      BY <2>1, <3>1, <3>9 DEF AutoLast
    <3>11. QED
      BY <3>5, <3>6, <3>8, <3>10 DEF ChainInv
  <2>5. CASE Refused(Updated(job, loop.src, run[loop.src])) /\ UNCHANGED lease
    <3> DEFINE k == Updated(job, loop.src, run[loop.src])
    <3>1. run[loop.src] \in JobStatuses
      BY <1>0, <2>3 DEF RunTable, RunStatuses, JobStatuses
    <3>2. k \in Jobs /\ k.cur = job.cur
      BY <1>0, <3>1, UpdatedKeeps DEF Keeps
    <3>3. k = job \/ (loop.src = job.cur /\ run[job.cur] # "running")
      BY <2>3 DEF Updated
    <3>4. Refused(k)
      BY <2>5
    <3> HIDE DEF k
    <3>5. QED
      BY <1>0, <2>1, <2>3, <2>5, <3>2, <3>3, <3>4, RefusalKeeps
  <2>6. QED
    BY <2>2, <2>4, <2>5
<1>24. ASSUME Register PROVE ChainInv'
  <2> DEFINE n == rep[loop.src]
  <2>1. /\ loop.pc = "register" /\ loop' = [loop EXCEPT !.pc = "complete"]
        /\ run' = [run EXCEPT ![n] = "running"] /\ task' = [task EXCEPT ![n] = "busy"]
        /\ job' = Updated(job, n, "running") /\ UNCHANGED <<rep, lease, flight>>
    BY <1>24 DEF Register
  <2>2. /\ loop.src \in Runs /\ n \in Runs /\ run[n] = "absent" /\ n # 0
        /\ lease = n /\ job.cur = n /\ job.paused = "no" /\ Affordable
    BY <1>0, <2>1 DEF Placed, ChainInv, AtStep
  <2>3. \A r \in Runs : task[r] = "none"
    BY <1>0, <2>2 DEF ChainInv, OneTask, Placed
  <2>4. ~Exhausted
    BY <2>2, <2>3 DEF Affordable
  <2>5. job' = [job EXCEPT !.status = "running"]
    BY <2>1, <2>2, <2>4 DEF Updated, Projected
  <2>6. job'.cur = n /\ job'.status = "running" /\ job'.paused = "no"
    BY <1>0, <2>2, <2>5 DEF Jobs
  <2>7. loop'.pc = "complete"
    BY <1>0, <2>1 DEF Places
  <2> HIDE DEF n
  <2>8. run'[n] = "running" /\ \A r \in Runs \ {n} : run'[r] = run[r] /\ task'[r] = "none"
    BY <1>0, <2>1, <2>2, <2>3 DEF RunTable
  <2>9. \A x \in Runs \cup {0} : (Known(x) => Known(x)') /\ (x = n => Known(x)')
    BY <1>0, <2>2, <2>8 DEF Known
  <2>10. Chain'
    BY <1>0, <2>1, <2>2, <2>6, <2>8, <2>9 DEF ChainInv, Chain
  <2>11. OneTask' /\ Live'
    BY <2>1, <2>2, <2>6, <2>8 DEF OneTask, Live
  <2>12. AtStep'
    BY <2>7 DEF AtStep
  <2>13. flight["auto"] # Ground => AutoAt(flight["auto"].src)'
    <3>1. SUFFICES ASSUME flight["auto"] # Ground PROVE AutoAt(flight["auto"].src)'
      OBVIOUS
    <3> DEFINE s == flight["auto"].src
    <3>2. s \in Runs /\ run[s] # "absent" /\ AutoAt(s)
      BY <1>0, <3>1 DEF Placed, ChainInv, AutoLast, Callers
    <3>3. run'[s] # "running"
      BY <2>2, <2>8, <3>2 DEF AutoAt
    <3>4. Known(rep[s])' \/ s = job'.cur
      BY <1>0, <2>1, <2>2, <2>6, <2>9, <3>2 DEF AutoAt
    <3>5. QED
      BY <2>1, <3>3, <3>4 DEF AutoAt
  <2>14. AutoLast'
    BY <2>1, <2>7, <2>13 DEF AutoLast
  <2>15. QED
    BY <2>10, <2>11, <2>12, <2>14 DEF ChainInv
<1>25. ASSUME Complete PROVE ChainInv'
  <2>1. job'.cur = job.cur /\ rep' = rep
    BY <1>25 DEF Complete
  <2>2. SameRuns
    BY <1>25 DEF SameRuns, Complete
  <2>3. FewerTasks
    BY <1>25 DEF FewerTasks, Complete
  <2>4. SameStatus
    BY <1>25 DEF SameStatus, Complete
  <2>5. SameHandler
    BY <1>25 DEF SameHandler, Free, Complete
  <2>6. QED
    BY <2>1, <2>2, <2>3, <2>4, <2>5, CalmKeeps DEF Calm
<1>26. ASSUME Recover PROVE ChainInv'
  <2>1. UNCHANGED <<run, rep, task, lease, flight>> /\ loop.pc = "free" /\ flight["auto"] = Ground
    BY <1>26 DEF Recover
  <2>2. CASE loop' = loop
    <3>1. job' = job \/ run[job.cur] \in {"interrupted", "waiting"}
      BY <1>26 DEF Recover
    <3>2. \/ job' = job
          \/ job' = [job EXCEPT !.status = "paused", !.paused = "budget", !.block = "budget"]
          \/ job' = [job EXCEPT !.block = Outage(job)]
          \/ job' = [job EXCEPT !.status = "blocked", !.block = "limit"]
          \/ job' = [job EXCEPT !.status = "blocked", !.block = "refused"]
          \/ loop'.pc = "enter"
      BY <1>26 DEF Recover
    <3>3. job'.cur = job.cur
      BY <1>0, <2>1, <2>2, <3>2 DEF Jobs
    <3>4. SameRuns /\ FewerTasks
      BY <2>1 DEF SameRuns, FewerTasks
    <3>5. SameStatus
      BY <2>1, <3>1 DEF SameStatus
    <3>6. SameHandler
      BY <2>1, <2>2 DEF SameHandler, Working
    <3>7. QED
      BY <1>0, <2>1, <3>3, <3>4, <3>5, <3>6, CalmKeeps DEF Calm
  <2>3. CASE loop' # loop
    <3>1. /\ job' = Claimed(job) /\ run[job.cur] \in {"interrupted", "waiting"}
          /\ loop' = [pc |-> "enter", by |-> "auto", src |-> job.cur, tokens |-> 0]
      BY <1>26, <2>3 DEF Recover
    <3>2. job'.cur = job.cur /\ job'.status = job.status /\ job'.paused = job.paused
      BY <1>0, <3>1 DEF Claimed, Jobs
    <3>3. AutoLast'
      BY <2>1, <3>1, <3>2 DEF AutoLast, AutoAt
    <3>4. QED
      BY <1>0, <2>1, <3>1, <3>2, <3>3, MoveKeeps
  <2>4. QED
    BY <2>2, <2>3
<1>27. ASSUME Extend PROVE ChainInv'
  <2>1. job'.cur = job.cur /\ rep' = rep
    BY <1>0, <1>27 DEF Extend, Jobs
  <2>2. SameRuns
    BY <1>27 DEF SameRuns, Extend
  <2>3. FewerTasks
    BY <1>27 DEF FewerTasks, Extend
  <2>4. SameStatus
    BY <1>0, <1>27 DEF SameStatus, Extend, Jobs
  <2>5. SameHandler
    BY <1>27 DEF SameHandler, Working, Idle, Request, Extend
  <2>6. QED
    BY <2>1, <2>2, <2>3, <2>4, <2>5, CalmKeeps DEF Calm
<1>28. ASSUME DueArrives PROVE ChainInv'
  <2>1. job'.cur = job.cur /\ rep' = rep
    BY <1>0, <1>28 DEF DueArrives, Jobs
  <2>2. SameRuns
    BY <1>28 DEF SameRuns, DueArrives
  <2>3. FewerTasks
    BY <1>28 DEF FewerTasks, DueArrives
  <2>4. SameStatus
    BY <1>0, <1>28 DEF SameStatus, DueArrives, Jobs
  <2>5. SameHandler
    BY <1>28 DEF SameHandler, Working, DueArrives
  <2>6. QED
    BY <2>1, <2>2, <2>3, <2>4, <2>5, CalmKeeps DEF Calm
<1>29. ASSUME WindowCloses PROVE ChainInv'
  <2>1. job'.cur = job.cur /\ rep' = rep
    BY <1>0, <1>29 DEF WindowCloses, Jobs
  <2>2. SameRuns
    BY <1>29 DEF SameRuns, WindowCloses
  <2>3. FewerTasks
    BY <1>29 DEF FewerTasks, WindowCloses
  <2>4. SameStatus
    BY <1>0, <1>29 DEF SameStatus, WindowCloses, Jobs
  <2>5. SameHandler
    BY <1>29 DEF SameHandler, Working, WindowCloses
  <2>6. QED
    BY <2>1, <2>2, <2>3, <2>4, <2>5, CalmKeeps DEF Calm
<1>30. ASSUME ClaimExpires PROVE ChainInv'
  <2>1. job'.cur = job.cur /\ rep' = rep
    BY <1>0, <1>30 DEF ClaimExpires, Jobs
  <2>2. SameRuns
    BY <1>30 DEF SameRuns, ClaimExpires
  <2>3. FewerTasks
    BY <1>30 DEF FewerTasks, ClaimExpires
  <2>4. SameStatus
    BY <1>0, <1>30 DEF SameStatus, ClaimExpires, Jobs
  <2>5. SameHandler
    BY <1>30 DEF SameHandler, Working, ClaimExpires
  <2>6. QED
    BY <2>1, <2>2, <2>3, <2>4, <2>5, CalmKeeps DEF Calm
<1>31. ASSUME LeaseExpires PROVE ChainInv'
  <2>1. job'.cur = job.cur /\ rep' = rep
    BY <1>31 DEF LeaseExpires
  <2>2. SameRuns
    BY <1>31 DEF SameRuns, LeaseExpires
  <2>3. FewerTasks
    BY <1>0, <1>31 DEF FewerTasks, LeaseExpires, ChainInv, OneTask
  <2>4. SameStatus
    BY <1>31 DEF SameStatus, LeaseExpires
  <2>5. SameHandler
    BY <1>31 DEF SameHandler, Working, LeaseExpires
  <2>6. QED
    BY <2>1, <2>2, <2>3, <2>4, <2>5, CalmKeeps DEF Calm
<1>32. ASSUME Crash PROVE ChainInv'
  <2>1. job'.cur = job.cur /\ rep' = rep
    BY <1>32 DEF Crash, Down
  <2>2. SameRuns
    BY <1>32 DEF SameRuns, Crash, Down
  <2>3. FewerTasks
    BY <1>32 DEF FewerTasks, Crash, Down
  <2>4. SameStatus
    BY <1>32 DEF SameStatus, Crash, Down
  <2>5. SameHandler
    BY <1>32 DEF SameHandler, Free, Crash, Down
  <2>6. QED
    BY <2>1, <2>2, <2>3, <2>4, <2>5, CalmKeeps DEF Calm
<1>33. ASSUME Boot PROVE ChainInv'
  <2>1. job'.cur = job.cur /\ rep' = rep
    BY <1>0, <1>33, UpdatedKeeps DEF Keeps, JobStatuses, Boot
  <2>2. SameRuns
    BY <1>0, <1>33 DEF SameRuns, RunTable, Boot
  <2>3. FewerTasks
    BY <1>33 DEF FewerTasks, Boot
  <2>4. SameStatus
    BY <1>0, <1>33 DEF SameStatus, RunTable, Boot
  <2>5. SameHandler
    <3>1. loop.pc = "free" /\ UNCHANGED <<loop, flight>>
      BY <1>0, <1>33 DEF Placed, Boot
    <3>2. QED
      BY <3>1 DEF SameHandler, Working
  <2>6. QED
    BY <2>1, <2>2, <2>3, <2>4, <2>5, CalmKeeps DEF Calm
<1>34. CASE UNCHANGED vars
  <2>1. job'.cur = job.cur /\ rep' = rep
    BY <1>34 DEF vars, ledger
  <2>2. SameRuns
    BY <1>34 DEF SameRuns, vars, ledger
  <2>3. FewerTasks
    BY <1>34 DEF FewerTasks, vars, ledger
  <2>4. SameStatus
    BY <1>34 DEF SameStatus, vars, ledger
  <2>5. SameHandler
    BY <1>34 DEF SameHandler, vars, ledger, Exhausted
  <2>6. QED
    BY <2>1, <2>2, <2>3, <2>4, <2>5, CalmKeeps DEF Calm
<1>35. QED
  BY <1>1, <1>2, <1>3, <1>4, <1>5, <1>6, <1>7, <1>8, <1>9, <1>10, <1>11,
     <1>12, <1>13, <1>14, <1>15, <1>16, <1>17, <1>18, <1>19, <1>20, <1>21,
     <1>22, <1>23, <1>24, <1>25, <1>26, <1>27, <1>28, <1>29, <1>30, <1>31,
     <1>32, <1>33, <1>34 DEF Next

\* A run at work that nobody is stopping is its job's current run and the job says so,
\* whatever late updates, retries and recoveries of other runs come (jobs.py:
\* update_run, attach; orchestrator.py: _retry_locked, recover_jobs).
THEOREM OnlyTheLastRunWorks == Spec => []LiveMeansRunning
<1>1. Init => TypeInv /\ ChainInv
  BY TypeInit, ChainInit
<1>2. TypeInv /\ ChainInv /\ [Next]_vars => TypeInv' /\ ChainInv'
  BY TypeStep, ChainStep
<1>3. ChainInv => LiveMeansRunning
  BY DEF ChainInv, Live, LiveMeansRunning
<1>4. QED
  BY <1>1, <1>2, <1>3, PTL DEF Spec

(***************************************************************************)
(* A job whose current run never came to be has a run to continue from:    *)
(* the one that reserved it, which nobody makes unrecoverable but a        *)
(* cancellation by the user.                                               *)
(***************************************************************************)
Spent == {"cancelled", "unknown"}
Resumable(r) == rec[r] \/ run[r] \in Spent
Source(r) == run[r] # "absent" /\ rep[r] = job.cur /\ Resumable(r)

Resumed ==
    /\ run[job.cur] = "absent" => \E r \in Runs : Source(r)
    /\ loop.pc \in {"transfer", "attach"} => rec[loop.src]
    /\ loop.pc = "complete" => run[job.cur] # "absent"

\* Steps that replace no run and take no recovery from the run that reserved the
\* current one.
SameSources ==
    /\ job'.cur = job.cur /\ rep' = rep
    /\ \A r \in Runs : run[r] # "absent" => run'[r] # "absent"
    /\ \A r \in Runs : run[job.cur] = "absent" /\ Source(r) => Resumable(r)'
    /\ \/ loop' = loop /\ (loop.pc \in {"transfer", "attach"} => rec' = rec)
       \/ loop'.pc \notin {"transfer", "attach", "complete"}

LEMMA SourcesKeep ==
    ASSUME TypeInv, Resumed, SameSources
    PROVE  Resumed'
<1>0. job.cur \in Runs
  BY ChainTypes
<1>1. ASSUME run'[job'.cur] = "absent"
      PROVE  \E r \in Runs : Source(r)'
  <2>1. run[job.cur] = "absent"
    BY <1>0, <1>1 DEF SameSources
  <2>2. PICK r \in Runs : Source(r)
    BY <2>1 DEF Resumed
  <2>3. Source(r)'
    BY <2>1, <2>2 DEF SameSources, Source
  <2>4. QED
    BY <2>3
<1>2. loop'.pc \in {"transfer", "attach"} => rec'[loop'.src]
  BY DEF SameSources, Resumed
<1>3. loop'.pc = "complete" => run'[job'.cur] # "absent"
  BY <1>0 DEF SameSources, Resumed
<1>4. QED
  BY <1>1, <1>2, <1>3 DEF Resumed

\* Steps that do not even change a run.
LEMMA StillSources ==
    ASSUME TypeInv, Resumed, UNCHANGED <<run, rec, rep>>, job'.cur = job.cur,
           loop' = loop \/ loop'.pc \notin {"transfer", "attach", "complete"}
    PROVE  Resumed'
<1>1. SameSources
  BY DEF SameSources, Source, Resumable
<1>2. QED
  BY <1>1, SourcesKeep

\* One run changes, and stays a source if it was one.
LEMMA OneSource ==
    ASSUME TypeInv, Resumed, NEW q \in Runs, UNCHANGED rep, job'.cur = job.cur,
           \A r \in Runs \ {q} : run'[r] = run[r] /\ rec'[r] = rec[r],
           run'[q] # "absent",
           run[job.cur] = "absent" /\ Source(q) => Resumable(q)',
           loop.pc \notin {"transfer", "attach"}, loop' = loop \/ loop'.pc = "free"
    PROVE  Resumed'
<1>1. \A r \in Runs : run[r] # "absent" => run'[r] # "absent"
  OBVIOUS
<1>2. \A r \in Runs : run[job.cur] = "absent" /\ Source(r) => Resumable(r)'
  BY DEF Source, Resumable
<1>3. SameSources
  BY <1>1, <1>2 DEF SameSources
<1>4. QED
  BY <1>3, SourcesKeep

LEMMA ResumedStep == TypeInv /\ ChainInv /\ Resumed /\ [Next]_vars => Resumed'
<1> SUFFICES ASSUME TypeInv, ChainInv, Resumed, [Next]_vars PROVE Resumed'
  OBVIOUS
<1>0. /\ job \in Jobs /\ job.cur \in Runs /\ 0 \notin Runs
      /\ loop \in Places /\ run \in RunTable /\ rec \in [Runs -> BOOLEAN]
      /\ \A r \in Runs : rep[r] \in Runs \cup {0}
      /\ rep \in [Runs -> 0 .. MaxRuns]
      /\ Placed
  BY ChainTypes DEF TypeInv, TypeOK, RunTypes
<1>1. ASSUME NEW a \in Attempts, Reserve(a) \/ Settle(a) PROVE Resumed'
  BY <1>1, StillSources DEF Reserve, Settle
<1>2. ASSUME NEW i \in Items, NEW r \in Runs, Steer(i, r) \/ ClaimItem(i, r) PROVE Resumed'
  BY <1>2, StillSources DEF Steer, ClaimItem
<1>3. ASSUME NEW r \in Runs, SettleTurn(r) \/ GiveUp(r) \/ EndTask(r) PROVE Resumed'
  BY <1>3, StillSources DEF SettleTurn, GiveUp, EndTask
<1>4. ASSUME NEW r \in Runs, ProviderAnswers(r) PROVE Resumed'
  <2>1. job'.cur = job.cur
    BY <1>0, <1>4 DEF ProviderAnswers, Settled, Jobs
  <2>2. QED
    BY <1>4, <2>1, StillSources DEF ProviderAnswers
<1>5. ASSUME NEW r \in Runs, NEW s \in {"completed", "failed", "waiting"}, Finish(r, s) PROVE Resumed'
  <2>1. /\ loop.pc = "free" /\ task[r] = "busy" /\ run' = [run EXCEPT ![r] = s]
        /\ run[r] = "running" \/ s = "waiting"
    BY <1>5 DEF Finish, Idle
  <2>2. PICK draft \in BOOLEAN :
            rec' = [rec EXCEPT ![r] = s # "completed" /\ (s = "waiting" \/ draft \/ job'.paused = "budget")]
    BY <1>5 DEF Finish
  <2>3. job'.cur = job.cur /\ UNCHANGED <<rep, loop>>
    BY <1>0, <1>5, UpdatedKeeps DEF Keeps, JobStatuses, Finish
  <2>4. run[job.cur] = "absent" => s = "waiting"
    BY <2>1 DEF ChainInv, Live
  <2>5. s = "waiting" => rec'[r]
    BY <1>0, <2>2
  <2>6. \A q \in Runs \ {r} : run'[q] = run[q] /\ rec'[q] = rec[q]
    BY <2>1, <2>2
  <2>7. run'[r] # "absent"
    BY <1>0, <2>1 DEF RunTable
  <2>8. QED
    BY <2>1, <2>3, <2>4, <2>5, <2>6, <2>7, OneSource DEF Resumable
<1>6. ASSUME PauseRead \/ Close \/ ResumeRead PROVE Resumed'
  BY <1>6, StillSources DEF PauseRead, Close, ResumeRead, Reads
<1>7. ASSUME PauseSave PROVE Resumed'
  <2> DEFINE paused == [job EXCEPT !.paused = loop.by, !.status = "paused"]
  <2>1. loop.by \in {"user", "shutdown"} /\ loop.pc = "read" /\ loop' = Free /\ UNCHANGED rep
    BY <1>7 DEF PauseSave
  <2>2. paused \in Jobs /\ paused.cur = job.cur
    BY <1>0, <2>1 DEF Jobs, JobStatuses
  <2>3. \/ job' = Updated(paused, loop.src, "interrupted") /\ rec' = [rec EXCEPT ![loop.src] = TRUE] /\ UNCHANGED run
        \/ job' = paused /\ run' = [run EXCEPT ![loop.src] = "cancelling"] /\ UNCHANGED rec
    BY <1>7 DEF PauseSave
  <2> HIDE DEF paused
  <2>4. job'.cur = job.cur
    BY <2>2, <2>3, UpdatedKeeps DEF Keeps, JobStatuses
  <2>5. loop.src = job.cur /\ run[job.cur] # "absent"
    BY <1>0, <2>1 DEF ChainInv, AtStep, Placed
  <2>6. run'[job.cur] # "absent"
    BY <1>0, <2>3, <2>5 DEF RunTable
  <2>7. QED
    BY <2>1, <2>4, <2>6 DEF Resumed, Free
<1>8. ASSUME NEW r \in Runs, Cancel(r) PROVE Resumed'
  <2>1. /\ loop.pc = "free" /\ run[r] \notin Spent /\ run' = [run EXCEPT ![r] = "cancelling"]
        /\ UNCHANGED <<rec, rep, loop>>
    BY <1>8 DEF Cancel, Request, Idle, Terminal, Spent
  <2>2. job'.cur = job.cur
    BY <1>0, <1>8, UpdatedKeeps DEF Keeps, JobStatuses, Cancel
  <2>3. run'[r] # "absent" /\ \A q \in Runs \ {r} : run'[q] = run[q] /\ rec'[q] = rec[q]
    BY <1>0, <2>1 DEF RunTable
  <2>4. QED
    BY <2>1, <2>2, <2>3, OneSource DEF Source, Resumable
<1>9. ASSUME NEW clean \in BOOLEAN, Stopped(clean) PROVE Resumed'
  <2> DEFINE r == stopping.run
  <2>1. r \in Runs /\ loop.pc = "free" /\ UNCHANGED <<rep, loop>>
    BY <1>0, <1>9 DEF Placed, Stopped, Idle
  <2>2. PICK s \in {"unknown", "cancelled", "interrupted"}, draft \in BOOLEAN :
            /\ run' = [run EXCEPT ![r] = s]
            /\ rec' = [rec EXCEPT ![r] = (s = "interrupted" \/ (s = "cancelled" /\ draft))]
            /\ job' = Updated(job, r, s)
    BY <1>9 DEF Stopped
  <2> HIDE DEF r
  <2>3. job'.cur = job.cur
    BY <1>0, <2>2, UpdatedKeeps DEF Keeps, JobStatuses
  <2>4. run'[r] = s /\ (s = "interrupted" => rec'[r])
    BY <1>0, <2>1, <2>2 DEF RunTable
  <2>5. \A q \in Runs \ {r} : run'[q] = run[q] /\ rec'[q] = rec[q]
    BY <2>2
  <2>6. QED
    BY <2>1, <2>3, <2>4, <2>5, OneSource DEF Resumable, Spent
<1>10. ASSUME Exit \/ Crash PROVE Resumed'
  <2>1. UNCHANGED <<run, rec, rep, job>> /\ loop' = Free
    BY <1>10 DEF Exit, Crash, Down
  <2>2. QED
    BY <2>1, StillSources DEF Free
<1>11. ASSUME ResumeSave PROVE Resumed'
  <2>1. UNCHANGED <<run, rec, rep>> /\ loop' = [loop EXCEPT !.pc = "enter"]
        /\ job' = [job EXCEPT !.paused = "no", !.block = "none"]
    BY <1>11 DEF ResumeSave
  <2>2. job'.cur = job.cur /\ loop'.pc = "enter"
    BY <1>0, <2>1 DEF Jobs, Places
  <2>3. QED
    BY <2>1, <2>2, StillSources
<1>12. ASSUME NEW r \in Runs, Retry(r) PROVE Resumed'
  <2>1. UNCHANGED <<run, rec, rep, job>> /\ loop'.pc = "enter"
    BY <1>12 DEF Retry
  <2>2. QED
    BY <2>1, StillSources
<1>13. ASSUME Enter PROVE Resumed'
  <2>1. UNCHANGED <<run, rec, rep>>
    BY <1>13 DEF Enter
  <2>2. \/ loop' = Free /\ (job' = job \/ Refused(job) \/ Begins)
        \/ loop' = [loop EXCEPT !.pc = "check"] /\ Begins
    BY <1>13 DEF Enter, Begins, Refused
  <2>3. Begins \/ job' = job \/ Refused(job) => job'.cur = job.cur
    BY <1>0, RefusedKeeps DEF Begins, Jobs, Keeps
  <2>4. loop'.pc \in {"free", "check"}
    BY <1>0, <2>2 DEF Free, Places
  <2>5. QED
    BY <2>1, <2>2, <2>3, <2>4, StillSources
<1>14. ASSUME NEW c \in Callers, GoOn(c) PROVE Resumed'
  <2>1. UNCHANGED <<run, rec, rep, job>> /\ loop'.pc \in {"enter", "check"}
    BY <1>14 DEF GoOn
  <2>2. QED
    BY <2>1, StillSources
<1>15. ASSUME Check PROVE Resumed'
  <2>1. loop.pc = "check" /\ UNCHANGED <<run, rec>>
    BY <1>15 DEF Check
  <2>2. \/ loop' = Free /\ UNCHANGED <<job, rep>>
        \/ Refused(job) /\ UNCHANGED rep
        \/ /\ ~Known(rep[loop.src]) /\ Recoverable(loop.src)
           /\ rep' = [rep EXCEPT ![loop.src] = Reserved(loop.src)]
           /\ loop' = [loop EXCEPT !.pc = "transfer"] /\ UNCHANGED job
    BY <1>15 DEF Check
  <2>3. CASE loop' = Free /\ UNCHANGED <<job, rep>>
    BY <2>1, <2>3, StillSources DEF Free
  <2>4. CASE Refused(job) /\ UNCHANGED rep
    BY <1>0, <2>1, <2>4, RefusedKeeps, StillSources DEF Keeps, Free
  <2>5. CASE /\ Recoverable(loop.src) /\ rep' = [rep EXCEPT ![loop.src] = Reserved(loop.src)]
             /\ loop' = [loop EXCEPT !.pc = "transfer"] /\ UNCHANGED job
    <3>1. loop'.pc = "transfer" /\ loop'.src = loop.src /\ rec[loop.src] /\ loop.src \in Runs
      BY <1>0, <2>1, <2>5 DEF Places, Recoverable, Placed
    <3>2. \A r \in Runs : rep[r] # 0 => rep'[r] = rep[r]
      BY <1>0, <2>5 DEF Reserved
    <3>3. \A r \in Runs : Source(r) => Source(r)'
      BY <1>0, <2>1, <2>5, <3>2 DEF Source, Resumable
    <3>4. QED
      BY <2>1, <2>5, <3>1, <3>3 DEF Resumed
  <2>6. QED
    BY <2>2, <2>3, <2>4, <2>5
<1>16. ASSUME Transfer PROVE Resumed'
  <2>1. /\ loop.pc = "transfer" /\ loop' = [loop EXCEPT !.pc = "attach"]
        /\ UNCHANGED <<run, rec, rep, job>>
    BY <1>16 DEF Transfer
  <2>2. loop'.pc = "attach" /\ loop'.src = loop.src
    BY <1>0, <2>1 DEF Places
  <2>3. QED
    BY <2>1, <2>2 DEF Resumed, Source, Resumable
<1>17. ASSUME Attach PROVE Resumed'
  <2>1. /\ loop.pc = "attach" /\ UNCHANGED <<run, rep>> /\ loop.src \in Runs
        /\ rep[loop.src] \in Runs /\ run[loop.src] # "absent" /\ rec[loop.src]
    BY <1>0, <1>17 DEF Attach, Placed, Resumed
  <2>2. CASE job' = Attached(job, rep[loop.src]) /\ loop' = [loop EXCEPT !.pc = "register"] /\ UNCHANGED rec
    <3>1. job'.cur = rep[loop.src] /\ loop'.pc = "register" /\ loop'.src = loop.src
      BY <1>0, <2>2 DEF Attached, Jobs, Places
    <3>2. Source(loop.src)'
      BY <2>1, <2>2, <3>1 DEF Source, Resumable
    <3>3. \E r \in Runs : Source(r)'
      BY <2>1, <3>1, <3>2
    <3>4. QED
      BY <3>1, <3>3 DEF Resumed
  <2>3. CASE Refused(Updated(job, loop.src, run[loop.src])) /\ rec' = [rec EXCEPT ![loop.src] = TRUE]
    <3>1. run[loop.src] \in JobStatuses
      BY <1>0, <2>1 DEF RunTable, RunStatuses, JobStatuses
    <3>2. Updated(job, loop.src, run[loop.src]) \in Jobs /\ Updated(job, loop.src, run[loop.src]).cur = job.cur
      BY <1>0, <3>1, UpdatedKeeps DEF Keeps
    <3>3. job'.cur = job.cur /\ loop' = Free
      BY <2>3, <3>2, RefusedKeeps DEF Keeps
    <3>4. \A r \in Runs : rec[r] => rec'[r]
      BY <1>0, <2>3
    <3>5. SameSources
      BY <2>1, <3>3, <3>4 DEF SameSources, Source, Resumable, Free
    <3>6. QED
      BY <3>5, SourcesKeep
  <2>4. QED
    BY <1>17, <2>2, <2>3 DEF Attach
<1>18. ASSUME Register PROVE Resumed'
  <2>1. /\ loop.pc = "register" /\ loop' = [loop EXCEPT !.pc = "complete"]
        /\ run' = [run EXCEPT ![rep[loop.src]] = "running"]
        /\ job' = Updated(job, rep[loop.src], "running")
    BY <1>18 DEF Register
  <2>2. job'.cur = job.cur
    BY <1>0, <2>1, UpdatedKeeps DEF Keeps, JobStatuses
  <2>3. job.cur = rep[loop.src] /\ loop'.pc = "complete"
    BY <1>0, <2>1 DEF ChainInv, AtStep, Places
  <2>4. run'[job'.cur] = "running"
    BY <1>0, <2>1, <2>2, <2>3 DEF RunTable
  <2>5. QED
    BY <2>3, <2>4 DEF Resumed
<1>19. ASSUME Complete PROVE Resumed'
  <2>1. loop.pc = "complete" /\ loop' = Free /\ UNCHANGED <<run, rep, job>>
    BY <1>19 DEF Complete
  <2>2. QED
    BY <2>1 DEF Resumed, Free
<1>20. ASSUME Recover PROVE Resumed'
  <2>1. UNCHANGED <<run, rec, rep>>
    BY <1>20 DEF Recover
  <2>2. loop' = loop \/ loop'.pc = "enter"
    BY <1>20 DEF Recover
  <2>3. \/ job' = job
        \/ job' = [job EXCEPT !.status = "paused", !.paused = "budget", !.block = "budget"]
        \/ job' = [job EXCEPT !.block = Outage(job)]
        \/ job' = [job EXCEPT !.status = "blocked", !.block = "limit"]
        \/ job' = [job EXCEPT !.status = "blocked", !.block = "refused"]
        \/ job' = Claimed(job)
    BY <1>20 DEF Recover
  <2>4. job'.cur = job.cur
    BY <1>0, <2>3 DEF Claimed, Jobs
  <2>5. QED
    BY <2>1, <2>2, <2>4, StillSources
<1>21. ASSUME Extend \/ DueArrives \/ WindowCloses \/ ClaimExpires \/ LeaseExpires PROVE Resumed'
  <2>1. UNCHANGED <<run, rec, rep, loop>>
    BY <1>21 DEF Extend, DueArrives, WindowCloses, ClaimExpires, LeaseExpires
  <2>2. job'.cur = job.cur
    BY <1>0, <1>21 DEF Extend, DueArrives, WindowCloses, ClaimExpires, LeaseExpires, Jobs
  <2>3. QED
    BY <2>1, <2>2, StillSources
<1>22. ASSUME Boot PROVE Resumed'
  <2> DEFINE active(r) == run[r] \in {"running", "cancelling"}
  <2>1. /\ loop.pc = "free" /\ UNCHANGED <<rep, loop>>
        /\ run' = [r \in Runs |-> IF active(r) THEN "interrupted" ELSE run[r]]
        /\ rec' = [r \in Runs |-> (rec[r] \/ active(r)) /\ ~Superseded(r)]
    BY <1>0, <1>22 DEF Boot, Placed
  <2>2. job'.cur = job.cur
    BY <1>0, <1>22, UpdatedKeeps DEF Keeps, JobStatuses, Boot
  <2>3. ASSUME NEW r \in Runs, run[job.cur] = "absent", Source(r)
        PROVE  Resumable(r)'
    <3>1. ~Superseded(r)
      BY <2>3 DEF Source, Superseded, Known
    <3>2. CASE rec[r]
      BY <2>1, <3>1, <3>2 DEF Resumable
    <3>3. CASE run[r] \in Spent
      BY <2>1, <3>3 DEF Resumable, Spent
    <3>4. QED
      BY <2>3, <3>2, <3>3 DEF Source, Resumable
  <2>4. \A r \in Runs : run[r] # "absent" => run'[r] # "absent"
    BY <2>1
  <2>5. SameSources
    BY <2>1, <2>2, <2>3, <2>4 DEF SameSources
  <2>6. QED
    BY <2>5, SourcesKeep
<1>23. CASE UNCHANGED vars
  BY <1>23, StillSources DEF vars
<1>24. QED
  BY <1>1, <1>2, <1>3, <1>4, <1>5, <1>6, <1>7, <1>8, <1>9, <1>10, <1>11, <1>12, <1>13, <1>14,
     <1>15, <1>16, <1>17, <1>18, <1>19, <1>20, <1>21, <1>22, <1>23 DEF Next

\* A job can be continued from a run the backend knows, whatever dies between the
\* reservation of a replacement and its first row, unless the user cancelled that run
\* (orchestrator.py: _retry_locked, _restore_runs; jobs.py: attach).
THEOREM JobsAreNeverStranded == Spec => []Continuable
<1>1. Init => TypeInv /\ ChainInv /\ Resumed
  <2>1. Init => Resumed
    BY JobAssumption DEF Init, NewJob, Runs, Resumed, Free
  <2>2. QED
    BY <2>1, TypeInit, ChainInit
<1>2. TypeInv /\ ChainInv /\ Resumed /\ [Next]_vars => TypeInv' /\ ChainInv' /\ Resumed'
  BY TypeStep, ChainStep, ResumedStep
<1>3. TypeInv /\ Resumed => Continuable
  <2> SUFFICES ASSUME TypeInv, Resumed, ~Known(job.cur)
               PROVE  \E r \in Runs : Known(r) /\ rep[r] = job.cur /\ (rec[r] \/ run[r] \in {"cancelled", "unknown"})
    BY DEF Continuable
  <2>1. job.cur \in Runs /\ 0 \notin Runs
    BY ChainTypes
  <2>2. PICK r \in Runs : Source(r)
    BY <2>1 DEF Known, Resumed
  <2>3. QED
    BY <2>1, <2>2 DEF Source, Resumable, Spent, Known
<1>4. QED
  BY <1>1, <1>2, <1>3, PTL DEF Spec

=============================================================================

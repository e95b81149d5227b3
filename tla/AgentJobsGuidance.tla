------------------------- MODULE AgentJobsGuidance --------------------------
(***************************************************************************)
(* No guidance is left behind when runs replace each other, and no token   *)
(* when their attempts are booked.                                         *)
(***************************************************************************)
EXTENDS AgentJobsChain, FiniteSetTheorems, WellFoundedInduction

Active(i) == item[i] \in {"queued", "claimed"} /\ i \notin stray

\* Replacements are reserved by runs that exist, each by one run.
Tree ==
    \A r \in Runs : rep[r] # 0 => run[r] # "absent" /\ \A s \in Runs : rep[r] = rep[s] => r = s

\* Guidance waits for a run without a replacement at work; for a run that does not
\* exist yet only if the job goes on with it.
Pending ==
    \A i \in Items : Active(i) =>
        /\ at[i] \in Runs /\ ~Known(rep[at[i]])
        /\ run[at[i]] = "absent" => at[i] \in {job.cur, rep[job.cur]}

\* Once the handler has moved the guidance on, none is left with its run.
Moved == loop.pc \in {"attach", "register"} => \A i \in Items : Active(i) => at[i] # loop.src

GuidanceInv == Tree /\ Pending /\ Moved

\* Steps that replace no run and send no guidance.
SameQueue ==
    /\ rep' = rep /\ job'.cur = job.cur
    /\ \A r \in Runs : run'[r] = "absent" <=> run[r] = "absent"
    /\ \A i \in Items : item'[i] \in {"queued", "claimed"} => item[i] \in {"queued", "claimed"}
    /\ at' = at /\ stray' = stray
    /\ loop' = loop \/ loop'.pc \notin {"attach", "register"}

LEMMA SameQueueKeeps ==
    ASSUME TypeInv, GuidanceInv, SameQueue
    PROVE  GuidanceInv'
<1>0. job.cur \in Runs /\ 0 \notin Runs /\ \A r \in Runs : rep[r] \in Runs \cup {0}
  BY ChainTypes
<1>1. \A i \in Items : Active(i)' => Active(i)
  BY DEF SameQueue, Active
<1>2. \A r \in Runs : Known(rep[r])' => Known(rep[r])
  BY <1>0 DEF SameQueue, Known
<1>3. Tree'
  BY DEF GuidanceInv, Tree, SameQueue
<1>4. Pending'
  BY <1>0, <1>1, <1>2 DEF GuidanceInv, Pending, SameQueue
<1>5. Moved'
  BY <1>1 DEF GuidanceInv, Moved, SameQueue
<1>6. QED
  BY <1>3, <1>4, <1>5 DEF GuidanceInv

LEMMA GuidanceInit == Init => GuidanceInv
BY DEF Init, GuidanceInv, Tree, Pending, Moved, Active, Free

LEMMA GuidanceStep == TypeInv /\ ChainInv /\ GuidanceInv /\ [Next]_vars => GuidanceInv'
<1> SUFFICES ASSUME TypeInv, ChainInv, GuidanceInv, [Next]_vars PROVE GuidanceInv'
  OBVIOUS
<1>0. /\ job \in Jobs /\ job.cur \in Runs /\ 0 \notin Runs
      /\ loop \in Places /\ run \in RunTable
      /\ \A r \in Runs : rep[r] \in Runs \cup {0}
      /\ rep \in [Runs -> 0 .. MaxRuns]
      /\ item \in [Items -> {"none", "queued", "claimed", "acknowledged"}]
      /\ at \in [Items -> 0 .. MaxRuns]
      /\ Placed /\ TypeInv /\ ChainInv /\ GuidanceInv
  BY ChainTypes DEF TypeInv, TypeOK, GuidanceTypes
<1>1. ASSUME NEW a \in Attempts, Reserve(a) PROVE GuidanceInv'
  <2>1. rep' = rep /\ at' = at /\ stray' = stray /\ job'.cur = job.cur
    BY <1>1 DEF Reserve, guidance
  <2>2. \A r \in Runs : run'[r] = "absent" <=> run[r] = "absent"
    BY <1>1 DEF Reserve
  <2>3. \A i \in Items : item'[i] \in {"queued", "claimed"} => item[i] \in {"queued", "claimed"}
    BY <1>1 DEF Reserve, guidance
  <2>4. loop' = loop \/ loop'.pc \notin {"attach", "register"}
    BY <1>1 DEF Reserve
  <2>5. QED
    BY <2>1, <2>2, <2>3, <2>4, SameQueueKeeps DEF SameQueue
<1>2. ASSUME NEW a \in Attempts, Settle(a) PROVE GuidanceInv'
  <2>1. rep' = rep /\ at' = at /\ stray' = stray /\ job'.cur = job.cur
    BY <1>2 DEF Settle, guidance
  <2>2. \A r \in Runs : run'[r] = "absent" <=> run[r] = "absent"
    BY <1>2 DEF Settle
  <2>3. \A i \in Items : item'[i] \in {"queued", "claimed"} => item[i] \in {"queued", "claimed"}
    BY <1>2 DEF Settle, guidance
  <2>4. loop' = loop \/ loop'.pc \notin {"attach", "register"}
    BY <1>2 DEF Settle
  <2>5. QED
    BY <2>1, <2>2, <2>3, <2>4, SameQueueKeeps DEF SameQueue
<1>3. ASSUME NEW i \in Items, NEW r \in Runs, Steer(i, r) PROVE GuidanceInv'
  <2>1. /\ loop.pc = "free" /\ Known(r) /\ item[i] = "none"
        /\ item' = [item EXCEPT ![i] = "queued"] /\ at' = [at EXCEPT ![i] = r]
        /\ stray' = IF Known(rep[r]) THEN stray \cup {i} ELSE stray
        /\ UNCHANGED <<job, run, rep, loop>>
    BY <1>3 DEF Steer, Idle
  <2>2. Tree' /\ Moved'
    BY <1>0, <2>1 DEF GuidanceInv, Tree, Moved
  <2>3. Pending'
    <3>1. SUFFICES ASSUME NEW j \in Items, Active(j)'
                   PROVE  /\ at'[j] \in Runs /\ ~Known(rep[at'[j]])
                          /\ run[at'[j]] = "absent" => at'[j] \in {job.cur, rep[job.cur]}
      BY <2>1 DEF Pending, Known
    <3>2. CASE j = i
      BY <1>0, <2>1, <3>1, <3>2 DEF Active, Known
    <3>3. CASE j # i
      <4>1. Active(j) /\ at'[j] = at[j]
        BY <1>0, <2>1, <3>1, <3>3 DEF Active
      <4>2. QED
        BY <1>0, <4>1 DEF GuidanceInv, Pending
    <3>4. QED
      BY <3>2, <3>3
  <2>4. QED
    BY <2>2, <2>3 DEF GuidanceInv
<1>4. ASSUME NEW i \in Items, NEW r \in Runs, ClaimItem(i, r) PROVE GuidanceInv'
  <2>1. rep' = rep /\ at' = at /\ stray' = stray /\ job'.cur = job.cur
    BY <1>4 DEF ClaimItem, guidance
  <2>2. \A q \in Runs : run'[q] = "absent" <=> run[q] = "absent"
    BY <1>4 DEF ClaimItem
  <2>3. \A k \in Items : item'[k] \in {"queued", "claimed"} => item[k] \in {"queued", "claimed"}
    BY <1>0, <1>4 DEF ClaimItem, TypeInv, TypeOK, GuidanceTypes
  <2>4. loop' = loop \/ loop'.pc \notin {"attach", "register"}
    BY <1>4 DEF ClaimItem
  <2>5. QED
    BY <2>1, <2>2, <2>3, <2>4, SameQueueKeeps DEF SameQueue
<1>5. ASSUME NEW r \in Runs, SettleTurn(r) PROVE GuidanceInv'
  <2>1. rep' = rep /\ at' = at /\ stray' = stray /\ job'.cur = job.cur
    BY <1>5 DEF SettleTurn, guidance
  <2>2. \A q \in Runs : run'[q] = "absent" <=> run[q] = "absent"
    BY <1>5 DEF SettleTurn
  <2>3. \A i \in Items : item'[i] \in {"queued", "claimed"} => item[i] \in {"queued", "claimed"}
    BY <1>0, <1>5 DEF SettleTurn, TypeInv, TypeOK, GuidanceTypes
  <2>4. loop' = loop \/ loop'.pc \notin {"attach", "register"}
    BY <1>5 DEF SettleTurn
  <2>5. QED
    BY <2>1, <2>2, <2>3, <2>4, SameQueueKeeps DEF SameQueue
<1>6. ASSUME NEW r \in Runs, ProviderAnswers(r) PROVE GuidanceInv'
  <2>1. rep' = rep /\ at' = at /\ stray' = stray /\ job'.cur = job.cur
    BY <1>0, <1>6 DEF ProviderAnswers, Settled, Jobs, guidance
  <2>2. \A q \in Runs : run'[q] = "absent" <=> run[q] = "absent"
    BY <1>6 DEF ProviderAnswers
  <2>3. \A i \in Items : item'[i] \in {"queued", "claimed"} => item[i] \in {"queued", "claimed"}
    BY <1>6 DEF ProviderAnswers, guidance
  <2>4. loop' = loop \/ loop'.pc \notin {"attach", "register"}
    BY <1>6 DEF ProviderAnswers
  <2>5. QED
    BY <2>1, <2>2, <2>3, <2>4, SameQueueKeeps DEF SameQueue
<1>7. ASSUME NEW r \in Runs, GiveUp(r) PROVE GuidanceInv'
  <2>1. rep' = rep /\ at' = at /\ stray' = stray /\ job'.cur = job.cur
    BY <1>7 DEF GiveUp, guidance
  <2>2. \A q \in Runs : run'[q] = "absent" <=> run[q] = "absent"
    BY <1>7 DEF GiveUp
  <2>3. \A i \in Items : item'[i] \in {"queued", "claimed"} => item[i] \in {"queued", "claimed"}
    BY <1>7 DEF GiveUp, guidance
  <2>4. loop' = loop \/ loop'.pc \notin {"attach", "register"}
    BY <1>7 DEF GiveUp
  <2>5. QED
    BY <2>1, <2>2, <2>3, <2>4, SameQueueKeeps DEF SameQueue
<1>8. ASSUME NEW r \in Runs, EndTask(r) PROVE GuidanceInv'
  <2>1. rep' = rep /\ at' = at /\ stray' = stray /\ job'.cur = job.cur
    BY <1>8 DEF EndTask, guidance
  <2>2. \A q \in Runs : run'[q] = "absent" <=> run[q] = "absent"
    BY <1>8 DEF EndTask
  <2>3. \A i \in Items : item'[i] \in {"queued", "claimed"} => item[i] \in {"queued", "claimed"}
    BY <1>8 DEF EndTask, guidance
  <2>4. loop' = loop \/ loop'.pc \notin {"attach", "register"}
    BY <1>8 DEF EndTask
  <2>5. QED
    BY <2>1, <2>2, <2>3, <2>4, SameQueueKeeps DEF SameQueue
<1>9. ASSUME NEW r \in Runs, NEW s \in {"completed", "failed", "waiting"}, Finish(r, s) PROVE GuidanceInv'
  <2>1. rep' = rep /\ at' = at /\ stray' = stray /\ job'.cur = job.cur
    BY <1>0, <1>9, UpdatedKeeps DEF Keeps, JobStatuses, Finish, guidance
  <2>2. \A q \in Runs : run'[q] = "absent" <=> run[q] = "absent"
    <3>1. task[r] # "none"
      BY <1>9 DEF Finish
    <3>2. QED
      BY <1>0, <1>9, <3>1 DEF Placed, RunTable, Finish
  <2>3. \A i \in Items : item'[i] \in {"queued", "claimed"} => item[i] \in {"queued", "claimed"}
    BY <1>9 DEF Finish, guidance
  <2>4. loop' = loop \/ loop'.pc \notin {"attach", "register"}
    BY <1>9 DEF Finish
  <2>5. QED
    BY <2>1, <2>2, <2>3, <2>4, SameQueueKeeps DEF SameQueue
<1>10. ASSUME PauseRead PROVE GuidanceInv'
  <2>1. rep' = rep /\ at' = at /\ stray' = stray /\ job'.cur = job.cur
    BY <1>10 DEF PauseRead, Reads, guidance
  <2>2. \A r \in Runs : run'[r] = "absent" <=> run[r] = "absent"
    BY <1>10 DEF PauseRead, Reads
  <2>3. \A i \in Items : item'[i] \in {"queued", "claimed"} => item[i] \in {"queued", "claimed"}
    BY <1>10 DEF PauseRead, Reads, guidance
  <2>4. loop' = loop \/ loop'.pc \notin {"attach", "register"}
    BY <1>10 DEF PauseRead, Reads
  <2>5. QED
    BY <2>1, <2>2, <2>3, <2>4, SameQueueKeeps DEF SameQueue
<1>11. ASSUME PauseSave PROVE GuidanceInv'
  <2> DEFINE paused == [job EXCEPT !.paused = loop.by, !.status = "paused"]
  <2>6. loop.by \in {"user", "shutdown"} /\ loop.pc = "read" /\ loop' = Free /\ UNCHANGED <<rep, item, at, stray>>
    BY <1>11 DEF PauseSave, guidance
  <2>7. paused \in Jobs /\ paused.cur = job.cur
    BY <1>0, <2>6 DEF Jobs, JobStatuses
  <2>8. job' = paused \/ job' = Updated(paused, loop.src, "interrupted")
    BY <1>11 DEF PauseSave
  <2>9. run' = run \/ run' = [run EXCEPT ![loop.src] = "cancelling"]
    BY <1>11 DEF PauseSave
  <2> HIDE DEF paused
  <2>1. job'.cur = job.cur
    BY <2>7, <2>8, UpdatedKeeps DEF Keeps, JobStatuses
  <2>2. \A r \in Runs : run'[r] = "absent" <=> run[r] = "absent"
    BY <1>0, <2>6, <2>9 DEF RunTable, Placed
  <2>5. QED
    BY <2>1, <2>2, <2>6, SameQueueKeeps DEF SameQueue, Free
<1>12. ASSUME NEW r \in Runs, Cancel(r) PROVE GuidanceInv'
  <2>1. rep' = rep /\ at' = at /\ stray' = stray /\ job'.cur = job.cur
    BY <1>0, <1>12, UpdatedKeeps DEF Keeps, JobStatuses, Cancel, guidance
  <2>2. \A q \in Runs : run'[q] = "absent" <=> run[q] = "absent"
    BY <1>0, <1>12 DEF RunTable, Terminal, Known, Cancel
  <2>3. \A i \in Items : item'[i] \in {"queued", "claimed"} => item[i] \in {"queued", "claimed"}
    BY <1>12 DEF Cancel, guidance
  <2>4. loop' = loop \/ loop'.pc \notin {"attach", "register"}
    BY <1>12 DEF Cancel
  <2>5. QED
    BY <2>1, <2>2, <2>3, <2>4, SameQueueKeeps DEF SameQueue
<1>13. ASSUME NEW clean \in BOOLEAN, Stopped(clean) PROVE GuidanceInv'
  <2>1. rep' = rep /\ at' = at /\ stray' = stray /\ job'.cur = job.cur
    BY <1>0, <1>13, UpdatedKeeps DEF Keeps, JobStatuses, Stopped, guidance
  <2>2. \A r \in Runs : run'[r] = "absent" <=> run[r] = "absent"
    BY <1>0, <1>13 DEF Placed, RunTable, Stopped
  <2>3. \A i \in Items : item'[i] \in {"queued", "claimed"} => item[i] \in {"queued", "claimed"}
    BY <1>13 DEF Stopped, guidance
  <2>4. loop' = loop \/ loop'.pc \notin {"attach", "register"}
    BY <1>13 DEF Stopped
  <2>5. QED
    BY <2>1, <2>2, <2>3, <2>4, SameQueueKeeps DEF SameQueue
<1>14. ASSUME Close PROVE GuidanceInv'
  <2>1. rep' = rep /\ at' = at /\ stray' = stray /\ job'.cur = job.cur
    BY <1>14 DEF Close, Reads, guidance
  <2>2. \A r \in Runs : run'[r] = "absent" <=> run[r] = "absent"
    BY <1>14 DEF Close, Reads
  <2>3. \A i \in Items : item'[i] \in {"queued", "claimed"} => item[i] \in {"queued", "claimed"}
    BY <1>14 DEF Close, Reads, guidance
  <2>4. loop' = loop \/ loop'.pc \notin {"attach", "register"}
    BY <1>14 DEF Close, Reads
  <2>5. QED
    BY <2>1, <2>2, <2>3, <2>4, SameQueueKeeps DEF SameQueue
<1>15. ASSUME Exit PROVE GuidanceInv'
  <2>1. rep' = rep /\ at' = at /\ stray' = stray /\ job'.cur = job.cur
    BY <1>15 DEF Exit, Down, Free, guidance
  <2>2. \A r \in Runs : run'[r] = "absent" <=> run[r] = "absent"
    BY <1>15 DEF Exit, Down, Free
  <2>3. \A i \in Items : item'[i] \in {"queued", "claimed"} => item[i] \in {"queued", "claimed"}
    BY <1>15 DEF Exit, Down, Free, guidance
  <2>4. loop' = loop \/ loop'.pc \notin {"attach", "register"}
    BY <1>15 DEF Exit, Down, Free
  <2>5. QED
    BY <2>1, <2>2, <2>3, <2>4, SameQueueKeeps DEF SameQueue
<1>16. ASSUME ResumeRead PROVE GuidanceInv'
  <2>1. rep' = rep /\ at' = at /\ stray' = stray /\ job'.cur = job.cur
    BY <1>16 DEF ResumeRead, Reads, guidance
  <2>2. \A r \in Runs : run'[r] = "absent" <=> run[r] = "absent"
    BY <1>16 DEF ResumeRead, Reads
  <2>3. \A i \in Items : item'[i] \in {"queued", "claimed"} => item[i] \in {"queued", "claimed"}
    BY <1>16 DEF ResumeRead, Reads, guidance
  <2>4. loop' = loop \/ loop'.pc \notin {"attach", "register"}
    BY <1>16 DEF ResumeRead, Reads
  <2>5. QED
    BY <2>1, <2>2, <2>3, <2>4, SameQueueKeeps DEF SameQueue
<1>17. ASSUME ResumeSave PROVE GuidanceInv'
  <2>1. rep' = rep /\ at' = at /\ stray' = stray /\ job'.cur = job.cur
    BY <1>0, <1>17 DEF ResumeSave, Jobs, guidance
  <2>2. \A r \in Runs : run'[r] = "absent" <=> run[r] = "absent"
    BY <1>17 DEF ResumeSave
  <2>3. \A i \in Items : item'[i] \in {"queued", "claimed"} => item[i] \in {"queued", "claimed"}
    BY <1>17 DEF ResumeSave, guidance
  <2>4. loop' = loop \/ loop'.pc \notin {"attach", "register"}
    BY <1>0, <1>17 DEF ResumeSave, Places
  <2>5. QED
    BY <2>1, <2>2, <2>3, <2>4, SameQueueKeeps DEF SameQueue
<1>18. ASSUME NEW r \in Runs, Retry(r) PROVE GuidanceInv'
  <2>1. rep' = rep /\ at' = at /\ stray' = stray /\ job'.cur = job.cur
    BY <1>18 DEF Retry, guidance
  <2>2. \A q \in Runs : run'[q] = "absent" <=> run[q] = "absent"
    BY <1>18 DEF Retry
  <2>3. \A i \in Items : item'[i] \in {"queued", "claimed"} => item[i] \in {"queued", "claimed"}
    BY <1>18 DEF Retry, guidance
  <2>4. loop' = loop \/ loop'.pc \notin {"attach", "register"}
    BY <1>18 DEF Retry
  <2>5. QED
    BY <2>1, <2>2, <2>3, <2>4, SameQueueKeeps DEF SameQueue
<1>19. ASSUME Enter PROVE GuidanceInv'
  <2>1. rep' = rep /\ at' = at /\ stray' = stray /\ job'.cur = job.cur
    <3>1. Refused(job) => job'.cur = job.cur
      BY <1>0, RefusedKeeps DEF Keeps
    <3>2. Refused(job) \/ Begins
      BY <1>19 DEF Enter, Begins
    <3>3. Begins => job'.cur = job.cur
      BY <1>0 DEF Begins, Jobs
    <3>4. QED
      BY <1>19, <3>1, <3>2, <3>3 DEF Enter, guidance
  <2>2. \A r \in Runs : run'[r] = "absent" <=> run[r] = "absent"
    BY <1>19 DEF Enter
  <2>3. \A i \in Items : item'[i] \in {"queued", "claimed"} => item[i] \in {"queued", "claimed"}
    BY <1>19 DEF Enter, guidance
  <2>4. loop' = loop \/ loop'.pc \notin {"attach", "register"}
    <3>1. loop' = [loop EXCEPT !.pc = "check"] => loop'.pc = "check"
      BY <1>0 DEF Places
    <3>2. QED
      BY <1>19, <3>1 DEF Enter, Refused, Free
  <2>5. QED
    BY <2>1, <2>2, <2>3, <2>4, SameQueueKeeps DEF SameQueue
<1>20. ASSUME NEW c \in Callers, GoOn(c) PROVE GuidanceInv'
  <2>1. rep' = rep /\ at' = at /\ stray' = stray /\ job'.cur = job.cur
    BY <1>20 DEF GoOn, guidance
  <2>2. \A r \in Runs : run'[r] = "absent" <=> run[r] = "absent"
    BY <1>20 DEF GoOn
  <2>3. \A i \in Items : item'[i] \in {"queued", "claimed"} => item[i] \in {"queued", "claimed"}
    BY <1>20 DEF GoOn, guidance
  <2>4. loop' = loop \/ loop'.pc \notin {"attach", "register"}
    BY <1>20 DEF GoOn
  <2>5. QED
    BY <2>1, <2>2, <2>3, <2>4, SameQueueKeeps DEF SameQueue
<1>21. ASSUME Check PROVE GuidanceInv'
  <2>1. loop.pc = "check" /\ UNCHANGED <<run, item, at, stray>>
    BY <1>21 DEF Check, guidance
  <2>2. \/ loop' = Free /\ UNCHANGED <<job, rep>>
        \/ Refused(job) /\ UNCHANGED rep
        \/ /\ ~Known(rep[loop.src]) /\ Reserved(loop.src) # 0
           /\ rep' = [rep EXCEPT ![loop.src] = Reserved(loop.src)]
           /\ loop' = [loop EXCEPT !.pc = "transfer"] /\ UNCHANGED job
    BY <1>21 DEF Check
  <2>3. CASE loop' = Free /\ UNCHANGED <<job, rep>>
    BY <1>0, <2>1, <2>3, SameQueueKeeps DEF SameQueue, Free
  <2>4. CASE Refused(job) /\ UNCHANGED rep
    <3>1. job'.cur = job.cur /\ loop' = Free
      BY <1>0, <2>4, RefusedKeeps DEF Keeps
    <3>2. QED
      BY <1>0, <2>1, <2>4, <3>1, SameQueueKeeps DEF SameQueue, Free
  <2>5. CASE /\ ~Known(rep[loop.src]) /\ Reserved(loop.src) # 0
             /\ rep' = [rep EXCEPT ![loop.src] = Reserved(loop.src)]
             /\ loop' = [loop EXCEPT !.pc = "transfer"] /\ UNCHANGED job
    <3>1. loop.src \in Runs /\ run[loop.src] # "absent" /\ loop'.pc = "transfer"
      BY <1>0, <2>1, <2>5 DEF Placed, Places
    <3>2. CASE rep[loop.src] # 0
      <4>1. rep' = rep
        BY <1>0, <2>5, <3>1, <3>2 DEF Reserved
      <4>2. QED
        BY <1>0, <2>1, <2>5, <3>1, <4>1, SameQueueKeeps DEF SameQueue
    <3>3. CASE rep[loop.src] = 0
      <4> DEFINE n == Fresh
      <4>1. n \in Runs /\ run[n] = "absent" /\ \A r \in Runs : rep[r] # n
        BY <2>5, <3>3 DEF Reserved, HasFresh, Fresh
      <4>2. rep' = [rep EXCEPT ![loop.src] = n]
        BY <2>5, <3>3 DEF Reserved
      <4> HIDE DEF n
      <4>3. rep'[loop.src] = n /\ \A r \in Runs \ {loop.src} : rep'[r] = rep[r]
        BY <1>0, <3>1, <4>2
      <4>4. Tree'
        BY <1>0, <2>1, <3>1, <4>1, <4>3 DEF GuidanceInv, Tree
      <4>5. \A r \in Runs : Known(rep[r])' => Known(rep[r])
        BY <1>0, <2>1, <4>1, <4>3 DEF Known
      <4>6. \A r \in Runs : job.cur = r => rep'[r] = rep[r] \/ rep[r] = 0
        BY <3>3, <4>3
      <4>7. Pending'
        BY <1>0, <2>1, <2>5, <4>5, <4>6 DEF GuidanceInv, Pending, Active
      <4>8. Moved'
        BY <3>1 DEF Moved
      <4>9. QED
        BY <4>4, <4>7, <4>8 DEF GuidanceInv
    <3>4. QED
      BY <3>2, <3>3
  <2>6. QED
    BY <2>2, <2>3, <2>4, <2>5
<1>22. ASSUME Transfer PROVE GuidanceInv'
  <2> DEFINE n == rep[loop.src]
  <2>1. /\ loop.pc = "transfer" /\ loop' = [loop EXCEPT !.pc = "attach"]
        /\ item' = [i \in Items |-> IF Transferable(i) THEN "queued" ELSE item[i]]
        /\ at' = [i \in Items |-> IF Transferable(i) THEN n ELSE at[i]]
        /\ UNCHANGED <<job, run, rep, stray>>
    BY <1>22 DEF Transfer
  <2>2. loop'.pc = "attach" /\ loop'.src = loop.src
    BY <1>0, <2>1 DEF Places
  <2>3. loop.src \in Runs /\ n \in Runs /\ run[loop.src] # "absent" /\ run[n] = "absent"
    BY <1>0, <2>1 DEF Placed, ChainInv, AtStep
  <2>4. rep[n] = 0 /\ n \in {job.cur, rep[job.cur]}
    BY <1>0, <2>3 DEF GuidanceInv, Tree, ChainInv, Chain, Known
  <2>5. \A i \in Items : Active(i)' => Active(i) /\ ((at[i] = loop.src /\ at'[i] = n) \/ (at[i] # loop.src /\ at'[i] = at[i]))
    <3>1. SUFFICES ASSUME NEW i \in Items, item'[i] \in {"queued", "claimed"}
                   PROVE  /\ item[i] \in {"queued", "claimed"}
                          /\ (at[i] = loop.src /\ at'[i] = n) \/ (at[i] # loop.src /\ at'[i] = at[i])
      BY <2>1 DEF Active
    <3>2. CASE Transferable(i)
      BY <2>1, <3>2 DEF Transferable
    <3>3. CASE ~Transferable(i)
      BY <2>1, <3>1, <3>3 DEF Transferable
    <3>4. QED
      BY <3>2, <3>3
  <2>6. Tree'
    BY <1>0, <2>1 DEF GuidanceInv, Tree
  <2>7. Pending'
    BY <1>0, <2>1, <2>3, <2>4, <2>5 DEF GuidanceInv, Pending, Known
  <2>8. n # loop.src
    BY <2>3
  <2>9. Moved'
    BY <2>2, <2>5, <2>8 DEF Moved
  <2>10. QED
    BY <2>6, <2>7, <2>9 DEF GuidanceInv
<1>23. ASSUME Attach PROVE GuidanceInv'
  <2> DEFINE n == rep[loop.src]
  <2>1. loop.pc = "attach" /\ UNCHANGED <<run, rep, item, at, stray>>
    BY <1>23 DEF Attach, guidance
  <2>2. \/ job' = Attached(job, n) /\ loop' = [loop EXCEPT !.pc = "register"]
        \/ Refused(Updated(job, loop.src, run[loop.src]))
    BY <1>23 DEF Attach
  <2>3. loop.src \in Runs /\ n \in Runs /\ run[loop.src] # "absent" /\ run[n] = "absent"
    BY <1>0, <2>1 DEF Placed, ChainInv, AtStep
  <2>4. CASE job' = Attached(job, n) /\ loop' = [loop EXCEPT !.pc = "register"]
    <3>1. loop'.pc = "register" /\ loop'.src = loop.src
      BY <1>0, <2>4 DEF Places
    <3>2. job'.cur = n
      BY <1>0, <2>4 DEF Attached, Jobs
    <3>3. loop.src = job.cur \/ job.cur = n
      BY <1>0, <2>3 DEF ChainInv, Chain, Known
    <3>4. Tree' /\ Moved'
      BY <1>0, <2>1, <3>1 DEF GuidanceInv, Tree, Moved, Active
    <3>5. Pending'
      BY <1>0, <2>1, <2>3, <3>2, <3>3 DEF GuidanceInv, Pending, Active, Known
    <3>6. QED
      BY <3>4, <3>5 DEF GuidanceInv
  <2>5. CASE Refused(Updated(job, loop.src, run[loop.src]))
    <3> DEFINE k == Updated(job, loop.src, run[loop.src])
    <3>1. run[loop.src] \in JobStatuses
      BY <1>0, <2>3 DEF RunTable, RunStatuses, JobStatuses
    <3>2. k \in Jobs /\ k.cur = job.cur
      BY <1>0, <3>1, UpdatedKeeps DEF Keeps
    <3>3. Refused(k)
      BY <2>5
    <3> HIDE DEF k
    <3>4. job'.cur = job.cur /\ loop' = Free
      BY <3>2, <3>3, RefusedKeeps DEF Keeps
    <3>5. QED
      BY <1>0, <2>1, <3>4, SameQueueKeeps DEF SameQueue, Free
  <2>6. QED
    BY <2>2, <2>4, <2>5
<1>24. ASSUME Register PROVE GuidanceInv'
  <2> DEFINE n == rep[loop.src]
  <2>1. /\ loop.pc = "register" /\ loop' = [loop EXCEPT !.pc = "complete"]
        /\ run' = [run EXCEPT ![n] = "running"] /\ job' = Updated(job, n, "running")
        /\ UNCHANGED <<rep, item, at, stray>>
    BY <1>24 DEF Register, guidance
  <2>2. /\ loop.src \in Runs /\ n \in Runs /\ run[n] = "absent" /\ run[loop.src] # "absent"
        /\ job.cur = n
    BY <1>0, <2>1 DEF Placed, ChainInv, AtStep
  <2>3. job'.cur = n
    BY <1>0, <2>1, <2>2, UpdatedKeeps DEF Keeps, JobStatuses
  <2>4. loop'.pc = "complete"
    BY <1>0, <2>1 DEF Places
  <2>5. \A r \in Runs \ {loop.src} : rep[r] # n
    BY <1>0, <2>2 DEF GuidanceInv, Tree
  <2>6. rep[n] = 0
    BY <1>0, <2>2 DEF GuidanceInv, Tree
  <2> HIDE DEF n
  <2>7. run'[n] = "running" /\ \A r \in Runs \ {n} : run'[r] = run[r]
    BY <1>0, <2>1, <2>2 DEF RunTable
  <2>8. Tree'
    BY <1>0, <2>1, <2>7 DEF GuidanceInv, Tree
  <2>9. Pending'
    <3>1. SUFFICES ASSUME NEW i \in Items, Active(i)
                   PROVE  /\ at[i] \in Runs /\ ~Known(rep[at[i]])'
                          /\ run'[at[i]] = "absent" => at[i] \in {n, rep[n]}
      BY <2>1, <2>3 DEF Pending, Active
    <3>2. at[i] \in Runs /\ at[i] # loop.src /\ ~Known(rep[at[i]])
      BY <1>0, <2>1, <3>1 DEF GuidanceInv, Pending, Moved
    <3>3. rep[at[i]] # n /\ rep[at[i]] \in Runs \cup {0}
      BY <1>0, <2>5, <3>2
    <3>4. ~Known(rep[at[i]])'
      BY <1>0, <2>1, <2>7, <3>2, <3>3 DEF Known
    <3>5. run'[at[i]] = "absent" => at[i] \in {n, rep[n]}
      BY <1>0, <2>2, <2>7, <3>1, <3>2 DEF GuidanceInv, Pending
    <3>6. QED
      BY <3>2, <3>4, <3>5
  <2>10. Moved'
    BY <2>4 DEF Moved
  <2>11. QED
    BY <2>8, <2>9, <2>10 DEF GuidanceInv
<1>25. ASSUME Complete PROVE GuidanceInv'
  <2>1. rep' = rep /\ at' = at /\ stray' = stray /\ job'.cur = job.cur
    BY <1>25 DEF Complete, guidance
  <2>2. \A r \in Runs : run'[r] = "absent" <=> run[r] = "absent"
    BY <1>25 DEF Complete
  <2>3. \A i \in Items : item'[i] \in {"queued", "claimed"} => item[i] \in {"queued", "claimed"}
    BY <1>25 DEF Complete, guidance
  <2>4. loop' = loop \/ loop'.pc \notin {"attach", "register"}
    BY <1>25 DEF Complete, Free
  <2>5. QED
    BY <2>1, <2>2, <2>3, <2>4, SameQueueKeeps DEF SameQueue
<1>26. ASSUME Recover PROVE GuidanceInv'
  <2>1. rep' = rep /\ at' = at /\ stray' = stray /\ job'.cur = job.cur
    <3>1. \/ job' = job
          \/ job' = [job EXCEPT !.status = "paused", !.paused = "budget", !.block = "budget"]
          \/ job' = [job EXCEPT !.block = Outage(job)]
          \/ job' = [job EXCEPT !.status = "blocked", !.block = "limit"]
          \/ job' = [job EXCEPT !.status = "blocked", !.block = "refused"]
          \/ job' = Claimed(job)
      BY <1>26 DEF Recover
    <3>2. job'.cur = job.cur
      BY <1>0, <3>1 DEF Claimed, Jobs
    <3>3. QED
      BY <1>26, <3>2 DEF Recover, guidance
  <2>2. \A r \in Runs : run'[r] = "absent" <=> run[r] = "absent"
    BY <1>26 DEF Recover
  <2>3. \A i \in Items : item'[i] \in {"queued", "claimed"} => item[i] \in {"queued", "claimed"}
    BY <1>26 DEF Recover, guidance
  <2>4. loop' = loop \/ loop'.pc \notin {"attach", "register"}
    BY <1>26 DEF Recover
  <2>5. QED
    BY <2>1, <2>2, <2>3, <2>4, SameQueueKeeps DEF SameQueue
<1>27. ASSUME Extend PROVE GuidanceInv'
  <2>1. rep' = rep /\ at' = at /\ stray' = stray /\ job'.cur = job.cur
    BY <1>0, <1>27 DEF Extend, Jobs, guidance
  <2>2. \A r \in Runs : run'[r] = "absent" <=> run[r] = "absent"
    BY <1>27 DEF Extend
  <2>3. \A i \in Items : item'[i] \in {"queued", "claimed"} => item[i] \in {"queued", "claimed"}
    BY <1>27 DEF Extend, guidance
  <2>4. loop' = loop \/ loop'.pc \notin {"attach", "register"}
    BY <1>27 DEF Extend
  <2>5. QED
    BY <2>1, <2>2, <2>3, <2>4, SameQueueKeeps DEF SameQueue
<1>28. ASSUME DueArrives PROVE GuidanceInv'
  <2>1. rep' = rep /\ at' = at /\ stray' = stray /\ job'.cur = job.cur
    BY <1>0, <1>28 DEF DueArrives, Jobs, guidance
  <2>2. \A r \in Runs : run'[r] = "absent" <=> run[r] = "absent"
    BY <1>28 DEF DueArrives
  <2>3. \A i \in Items : item'[i] \in {"queued", "claimed"} => item[i] \in {"queued", "claimed"}
    BY <1>28 DEF DueArrives, guidance
  <2>4. loop' = loop \/ loop'.pc \notin {"attach", "register"}
    BY <1>28 DEF DueArrives
  <2>5. QED
    BY <2>1, <2>2, <2>3, <2>4, SameQueueKeeps DEF SameQueue
<1>29. ASSUME WindowCloses PROVE GuidanceInv'
  <2>1. rep' = rep /\ at' = at /\ stray' = stray /\ job'.cur = job.cur
    BY <1>0, <1>29 DEF WindowCloses, Jobs, guidance
  <2>2. \A r \in Runs : run'[r] = "absent" <=> run[r] = "absent"
    BY <1>29 DEF WindowCloses
  <2>3. \A i \in Items : item'[i] \in {"queued", "claimed"} => item[i] \in {"queued", "claimed"}
    BY <1>29 DEF WindowCloses, guidance
  <2>4. loop' = loop \/ loop'.pc \notin {"attach", "register"}
    BY <1>29 DEF WindowCloses
  <2>5. QED
    BY <2>1, <2>2, <2>3, <2>4, SameQueueKeeps DEF SameQueue
<1>30. ASSUME ClaimExpires PROVE GuidanceInv'
  <2>1. rep' = rep /\ at' = at /\ stray' = stray /\ job'.cur = job.cur
    BY <1>0, <1>30 DEF ClaimExpires, Jobs, guidance
  <2>2. \A r \in Runs : run'[r] = "absent" <=> run[r] = "absent"
    BY <1>30 DEF ClaimExpires
  <2>3. \A i \in Items : item'[i] \in {"queued", "claimed"} => item[i] \in {"queued", "claimed"}
    BY <1>30 DEF ClaimExpires, guidance
  <2>4. loop' = loop \/ loop'.pc \notin {"attach", "register"}
    BY <1>30 DEF ClaimExpires
  <2>5. QED
    BY <2>1, <2>2, <2>3, <2>4, SameQueueKeeps DEF SameQueue
<1>31. ASSUME LeaseExpires PROVE GuidanceInv'
  <2>1. rep' = rep /\ at' = at /\ stray' = stray /\ job'.cur = job.cur
    BY <1>31 DEF LeaseExpires, guidance
  <2>2. \A r \in Runs : run'[r] = "absent" <=> run[r] = "absent"
    BY <1>31 DEF LeaseExpires
  <2>3. \A i \in Items : item'[i] \in {"queued", "claimed"} => item[i] \in {"queued", "claimed"}
    BY <1>31 DEF LeaseExpires, guidance
  <2>4. loop' = loop \/ loop'.pc \notin {"attach", "register"}
    BY <1>31 DEF LeaseExpires
  <2>5. QED
    BY <2>1, <2>2, <2>3, <2>4, SameQueueKeeps DEF SameQueue
<1>32. ASSUME Crash PROVE GuidanceInv'
  <2>1. rep' = rep /\ at' = at /\ stray' = stray /\ job'.cur = job.cur
    BY <1>32 DEF Crash, Down, Free, guidance
  <2>2. \A r \in Runs : run'[r] = "absent" <=> run[r] = "absent"
    BY <1>32 DEF Crash, Down, Free
  <2>3. \A i \in Items : item'[i] \in {"queued", "claimed"} => item[i] \in {"queued", "claimed"}
    BY <1>32 DEF Crash, Down, Free, guidance
  <2>4. loop' = loop \/ loop'.pc \notin {"attach", "register"}
    BY <1>32 DEF Crash, Down, Free
  <2>5. QED
    BY <2>1, <2>2, <2>3, <2>4, SameQueueKeeps DEF SameQueue
<1>33. ASSUME Boot PROVE GuidanceInv'
  <2>1. rep' = rep /\ at' = at /\ stray' = stray /\ job'.cur = job.cur
    BY <1>0, <1>33, UpdatedKeeps DEF Keeps, JobStatuses, Boot, guidance
  <2>2. \A r \in Runs : run'[r] = "absent" <=> run[r] = "absent"
    BY <1>0, <1>33 DEF RunTable, Boot
  <2>3. \A i \in Items : item'[i] \in {"queued", "claimed"} => item[i] \in {"queued", "claimed"}
    BY <1>33 DEF Boot, guidance
  <2>4. loop' = loop \/ loop'.pc \notin {"attach", "register"}
    BY <1>33 DEF Boot
  <2>5. QED
    BY <2>1, <2>2, <2>3, <2>4, SameQueueKeeps DEF SameQueue
<1>34. CASE UNCHANGED vars
  <2>1. rep' = rep /\ at' = at /\ stray' = stray /\ job'.cur = job.cur
    BY <1>34 DEF vars, guidance, guidance
  <2>2. \A r \in Runs : run'[r] = "absent" <=> run[r] = "absent"
    BY <1>34 DEF vars, guidance
  <2>3. \A i \in Items : item'[i] \in {"queued", "claimed"} => item[i] \in {"queued", "claimed"}
    BY <1>34 DEF vars, guidance, guidance
  <2>4. loop' = loop \/ loop'.pc \notin {"attach", "register"}
    BY <1>34 DEF vars, guidance
  <2>5. QED
    BY <2>1, <2>2, <2>3, <2>4, SameQueueKeeps DEF SameQueue
<1>35. QED
  BY <1>1, <1>2, <1>3, <1>4, <1>5, <1>6, <1>7, <1>8, <1>9, <1>10, <1>11,
     <1>12, <1>13, <1>14, <1>15, <1>16, <1>17, <1>18, <1>19, <1>20, <1>21,
     <1>22, <1>23, <1>24, <1>25, <1>26, <1>27, <1>28, <1>29, <1>30, <1>31,
     <1>32, <1>33, <1>34 DEF Next

\* Guidance the user sent is with the run that works for the job or with the one about
\* to, over any number of replacements, refusals and deaths between the reservation
\* of a run, the transfer and its first row (orchestration_store.py:
\* transfer_unacknowledged_guidance, reserve_recovery; orchestrator.py: _retry_locked).
THEOREM GuidanceFollows == Spec => []GuidanceKept
<1>1. Init => TypeInv /\ ChainInv /\ GuidanceInv
  BY TypeInit, ChainInit, GuidanceInit
<1>2. TypeInv /\ ChainInv /\ GuidanceInv /\ [Next]_vars => TypeInv' /\ ChainInv' /\ GuidanceInv'
  BY TypeStep, ChainStep, GuidanceStep
<1>3. TypeInv /\ ChainInv /\ GuidanceInv => GuidanceKept
  <2>1. SUFFICES ASSUME TypeInv, ChainInv, GuidanceInv, NEW i \in Items, Active(i)
                 PROVE  at[i] \in {job.cur, rep[job.cur]} \/ \E r \in Runs : at[i] = r /\ rep[r] = job.cur
    BY DEF GuidanceKept, Active
  <2>2. at[i] \in Runs /\ ~Known(rep[at[i]]) /\ (run[at[i]] = "absent" => at[i] \in {job.cur, rep[job.cur]})
    BY <2>1 DEF GuidanceInv, Pending
  <2>3. QED
    BY <2>1, <2>2 DEF ChainInv, Chain
<1>4. QED
  BY <1>1, <1>2, <1>3, PTL DEF Spec

(***************************************************************************)
(* The ledger.  An open attempt costs what it reserved and one never       *)
(* booked costs nothing; a copy of the job that was read before the first  *)
(* attempt holds no tokens.                                                *)
(***************************************************************************)
\* Induction over finite sets, as the library states it without operator parameters: a
\* set of subsets of a finite set has one that contains no other.
LEMMA SmallestSet ==
    ASSUME NEW S, IsFiniteSet(S), NEW T \in SUBSET SUBSET S, T # {}
    PROVE  \E x \in T : \A y \in T : ~(y \subseteq x /\ y # x)
<1>1. IsWellFoundedOn(StrictSubsetOrdering(S), SUBSET S)
  BY FS_StrictSubsetOrderingWellFounded, FS_FiniteSubsetsOfFinite
<1>2. \E x \in T : \A y \in T : ~(<<y, x>> \in StrictSubsetOrdering(S))
  BY <1>1, WFMin
<1>3. QED
  BY <1>2 DEF StrictSubsetOrdering

\* The recursion that Costs is defined by, for any domain and costs.
Picked(S) == CHOOSE x \in S : TRUE

LEMMA PickedIn ==
    ASSUME NEW S, S # {}
    PROVE  Picked(S) \in S
BY DEF Picked

IsSum(f, T, g) ==
    f = [S \in SUBSET T |-> IF S = {} THEN 0 ELSE g[Picked(S)] + f[S \ {Picked(S)}]]

LEMMA SumValue ==
    ASSUME NEW T, NEW f, NEW g, IsSum(f, T, g), NEW S \in SUBSET T
    PROVE  f[S] = IF S = {} THEN 0 ELSE g[Picked(S)] + f[S \ {Picked(S)}]
BY DEF IsSum

\* It has one solution
LEMMA SumsAgree ==
    ASSUME NEW T, IsFiniteSet(T), NEW U \in SUBSET T, NEW f, NEW h, NEW g,
           IsSum(f, T, g), IsSum(h, U, g)
    PROVE  \A S \in SUBSET U : f[S] = h[S]
<1> DEFINE Bad == {S \in SUBSET U : f[S] # h[S]}
<1> SUFFICES ASSUME Bad # {} PROVE FALSE
  OBVIOUS
<1>1. PICK S \in Bad : \A R \in Bad : ~(R \subseteq S /\ R # S)
  <2>1. Bad \in SUBSET SUBSET T
    OBVIOUS
  <2> HIDE DEF Bad
  <2>2. QED
    BY <2>1, SmallestSet
<1>2. S \in SUBSET U /\ S \in SUBSET T /\ f[S] # h[S]
  OBVIOUS
<1> DEFINE R == S \ {Picked(S)}
<1>3. S # {}
  BY <1>2, SumValue
<1>4. R \in SUBSET U /\ R \subseteq S /\ R # S
  BY <1>2, <1>3, PickedIn
<1>5. f[R] = h[R]
  BY <1>1, <1>4
<1>6. f[S] = g[Picked(S)] + f[R] /\ h[S] = g[Picked(S)] + h[R]
  BY <1>2, <1>3, SumValue
<1>7. QED
  BY <1>2, <1>5, <1>6

\* and, on a finite set, at least one: the definition of Costs means what it says.
LEMMA SumExists ==
    ASSUME NEW T, IsFiniteSet(T), NEW g
    PROVE  \E f : IsSum(f, T, g)
<1> DEFINE Bad == {U \in SUBSET T : ~\E f : IsSum(f, U, g)}
<1> SUFFICES ASSUME Bad # {} PROVE FALSE
  OBVIOUS
<1>1. PICK V \in Bad : \A R \in Bad : ~(R \subseteq V /\ R # V)
  <2>1. Bad \in SUBSET SUBSET T
    OBVIOUS
  <2> HIDE DEF Bad
  <2>2. QED
    BY <2>1, SmallestSet
<1>2. V \in SUBSET T /\ ~\E f : IsSum(f, V, g)
  OBVIOUS
<1>3. IsFiniteSet(V)
  BY <1>2, FS_Subset
<1> DEFINE H(U) == CHOOSE f : IsSum(f, U, g)
<1>4. \A U \in SUBSET V : U # V => IsSum(H(U), U, g)
  <2> SUFFICES ASSUME NEW U \in SUBSET V, U # V
               PROVE  IsSum(H(U), U, g)
    OBVIOUS
  <2>1. U \in SUBSET T /\ U \notin Bad
    BY <1>1, <1>2
  <2>2. \E f : IsSum(f, U, g)
    BY <2>1
  <2>3. QED
    BY <2>2
<1> HIDE DEF H
<1> DEFINE k == [S \in SUBSET V |-> IF S = {} THEN 0 ELSE g[Picked(S)] + H(S \ {Picked(S)})[S \ {Picked(S)}]]
<1>5. \A U \in SUBSET V : U # V => k[U] = H(U)[U]
  <2> SUFFICES ASSUME NEW U \in SUBSET V, U # V
               PROVE  k[U] = H(U)[U]
    OBVIOUS
  <2>1. IsSum(H(U), U, g)
    BY <1>4
  <2>2. CASE U = {}
    BY <2>1, <2>2, SumValue
  <2>3. CASE U # {}
    <3> DEFINE R == U \ {Picked(U)}
    <3>1. R \in SUBSET U /\ R \in SUBSET V /\ R # V
      BY <2>3, PickedIn
    <3>2. IsSum(H(R), R, g) /\ IsFiniteSet(U)
      BY <1>3, <1>4, <3>1, FS_Subset
    <3>3. H(U)[R] = H(R)[R]
      BY <2>1, <3>1, <3>2, SumsAgree
    <3>4. H(U)[U] = g[Picked(U)] + H(U)[R]
      BY <2>1, <2>3, SumValue
    <3>5. k[U] = g[Picked(U)] + H(R)[R]
      BY <2>3
    <3>6. QED
      BY <3>3, <3>4, <3>5
  <2>4. QED
    BY <2>2, <2>3
<1>6. IsSum(k, V, g)
  <2>1. \A S \in SUBSET V : S # {} => k[S \ {Picked(S)}] = H(S \ {Picked(S)})[S \ {Picked(S)}]
    <3> SUFFICES ASSUME NEW S \in SUBSET V, S # {}
                 PROVE  k[S \ {Picked(S)}] = H(S \ {Picked(S)})[S \ {Picked(S)}]
      OBVIOUS
    <3>1. S \ {Picked(S)} \in SUBSET V /\ S \ {Picked(S)} # V
      BY PickedIn
    <3> HIDE DEF k
    <3>2. QED
      BY <1>5, <3>1
  <2>2. k = [S \in SUBSET V |-> IF S = {} THEN 0 ELSE g[Picked(S)] + k[S \ {Picked(S)}]]
    <3>1. \A S \in SUBSET V :
             k[S] = IF S = {} THEN 0 ELSE g[Picked(S)] + H(S \ {Picked(S)})[S \ {Picked(S)}]
      OBVIOUS
    <3>2. \A S \in SUBSET V : k[S] = IF S = {} THEN 0 ELSE g[Picked(S)] + k[S \ {Picked(S)}]
      <4> HIDE DEF k
      <4>1. QED
        BY <2>1, <3>1
    <3>3. k = [S \in SUBSET V |-> k[S]]
      OBVIOUS
    <3> HIDE DEF k
    <3>4. QED
      BY <3>2, <3>3
  <2> HIDE DEF k
  <2>3. QED
    BY <2>2 DEF IsSum
<1>7. QED
  BY <1>2, <1>6

SumOver(g) == CHOOSE f : IsSum(f, Attempts, g)

LEMMA CostsSum ==
    /\ Costs = SumOver(spent) /\ IsSum(Costs, Attempts, spent)
    /\ Costs' = SumOver(spent') /\ IsSum(Costs', Attempts, spent')
<1>1. Costs = SumOver(spent) /\ Costs' = SumOver(spent')
  BY Zenon DEF Costs, SumOver, IsSum, Picked
<1>2. \A g : IsSum(SumOver(g), Attempts, g)
  BY SumExists, LedgerAssumption DEF SumOver
<1>3. QED
  BY <1>1, <1>2

\* One attempt's cost changes.
LEMMA SumChange ==
    ASSUME NEW T, IsFiniteSet(T), NEW f, NEW h, NEW g \in [T -> Int], NEW a \in T, NEW v \in Int,
           NEW k, \A b \in T : k[b] = IF b = a THEN v ELSE g[b],
           IsSum(f, T, g), IsSum(h, T, k)
    PROVE  \A S \in SUBSET T : f[S] \in Int /\ h[S] = f[S] + IF a \in S THEN v - g[a] ELSE 0
<1> DEFINE Good(S) == f[S] \in Int /\ h[S] = f[S] + IF a \in S THEN v - g[a] ELSE 0
           Bad == {S \in SUBSET T : ~Good(S)}
<1> SUFFICES ASSUME Bad # {} PROVE FALSE
  OBVIOUS
<1>1. PICK S \in Bad : \A R \in Bad : ~(R \subseteq S /\ R # S)
  <2>1. Bad \in SUBSET SUBSET T
    OBVIOUS
  <2> HIDE DEF Bad
  <2>2. QED
    BY <2>1, SmallestSet
<1>2. S \in SUBSET T /\ ~Good(S)
  OBVIOUS
<1> DEFINE R == S \ {Picked(S)}
<1>3. S # {}
  <2>1. S = {} => f[S] = 0 /\ h[S] = 0
    BY <1>2, SumValue
  <2>2. QED
    BY <1>2, <2>1
<1>4. R \in SUBSET T /\ R \subseteq S /\ R # S /\ Picked(S) \in S
  BY <1>2, <1>3, PickedIn
<1>5. Good(R)
  BY <1>1, <1>4
<1>6. f[S] = g[Picked(S)] + f[R] /\ h[S] = k[Picked(S)] + h[R]
  <2>1. S \in SUBSET T /\ IsSum(f, T, g)
    BY <1>2
  <2> HIDE DEF Good, Bad
  <2>2. f[S] = IF S = {} THEN 0 ELSE g[Picked(S)] + f[S \ {Picked(S)}]
    BY ONLY <2>1, SumValue
  <2>3. h[S] = IF S = {} THEN 0 ELSE k[Picked(S)] + h[S \ {Picked(S)}]
    BY <2>1, SumValue
  <2>4. QED
    BY <1>3, <2>2, <2>3
<1>7. g[Picked(S)] \in Int /\ k[Picked(S)] = IF Picked(S) = a THEN v ELSE g[Picked(S)]
  BY <1>2, <1>4
<1>8. (a \in S) <=> (a \in R \/ Picked(S) = a)
  BY <1>4
<1>9. ~(a \in R /\ Picked(S) = a)
  OBVIOUS
<1>10. Good(S)
  <2> HIDE DEF R
  <2>1. g[a] \in Int
    OBVIOUS
  <2>2. QED
    BY <1>5, <1>6, <1>7, <1>8, <1>9, <2>1
<1>11. QED
  BY <1>2, <1>10

\* Nothing was spent.
LEMMA SumOfNothing ==
    ASSUME NEW T, IsFiniteSet(T), NEW f, NEW g, IsSum(f, T, g), \A a \in T : g[a] = 0
    PROVE  \A S \in SUBSET T : f[S] = 0
<1> DEFINE Bad == {S \in SUBSET T : f[S] # 0}
<1> SUFFICES ASSUME Bad # {} PROVE FALSE
  OBVIOUS
<1>1. PICK S \in Bad : \A R \in Bad : ~(R \subseteq S /\ R # S)
  <2>1. Bad \in SUBSET SUBSET T
    OBVIOUS
  <2> HIDE DEF Bad
  <2>2. QED
    BY <2>1, SmallestSet
<1>2. S \in SUBSET T /\ f[S] # 0
  OBVIOUS
<1> DEFINE R == S \ {Picked(S)}
<1>3. S # {}
  BY <1>2, SumValue
<1>4. R \in SUBSET T /\ R \subseteq S /\ R # S /\ Picked(S) \in T
  BY <1>2, <1>3, PickedIn
<1>5. f[R] = 0 /\ g[Picked(S)] = 0
  BY <1>1, <1>4
<1>6. f[S] = g[Picked(S)] + f[R]
  BY <1>2, <1>3, SumValue
<1>7. QED
  BY <1>2, <1>5, <1>6
Unbooked == \A a \in Attempts : attempt[a] = "none"

LedgerInv ==
    /\ tokens = Costs[Attempts]
    /\ \A a \in Attempts : /\ attempt[a] = "none" => spent[a] = 0
                           /\ attempt[a] = "open" => spent[a] = Charge
    /\ Unbooked /\ loop.pc = "read" => loop.tokens = 0

\* Nothing booked, nothing consumed.
LEMMA NothingConsumed ==
    ASSUME LedgerInv, Unbooked
    PROVE  tokens = 0
<1>1. \A a \in Attempts : spent[a] = 0
  BY DEF LedgerInv, Unbooked
<1>2. Costs[Attempts] = 0
  BY <1>1, CostsSum, SumOfNothing, LedgerAssumption
<1>3. QED
  BY <1>2 DEF LedgerInv

\* The cost of one attempt changes, and the tokens with it.
LEMMA BookingKeeps ==
    ASSUME TypeInv, LedgerInv, NEW a \in Attempts, NEW v \in Int,
           spent' = [spent EXCEPT ![a] = v], tokens' = tokens + (v - spent[a]), loop' = loop,
           \/ attempt' = [attempt EXCEPT ![a] = "open"] /\ v = Charge
           \/ attempt' = [attempt EXCEPT ![a] = "done"]
    PROVE  LedgerInv'
<1>1. /\ spent \in [Attempts -> Int] /\ attempt \in [Attempts -> {"none", "open", "lost", "done"}]
      /\ tokens \in Int
  BY DEF TypeInv, TypeOK, LedgerTypes
<1>2. Costs'[Attempts] = Costs[Attempts] + (v - spent[a])
  <2>1. IsSum(Costs, Attempts, spent) /\ IsSum(Costs', Attempts, spent')
    BY CostsSum
  <2>2. \A S \in SUBSET Attempts : Costs'[S] = Costs[S] + IF a \in S THEN v - spent[a] ELSE 0
    <3>1. \A b \in Attempts : spent'[b] = IF b = a THEN v ELSE spent[b]
      BY <1>1
    <3> DEFINE k == spent'
               h == Costs'
    <3> HIDE DEF k, h
    <3>2. IsSum(h, Attempts, k) /\ \A b \in Attempts : k[b] = IF b = a THEN v ELSE spent[b]
      BY <2>1, <3>1 DEF k, h
    <3>3. \A S \in SUBSET Attempts : h[S] = Costs[S] + IF a \in S THEN v - spent[a] ELSE 0
      <4> DEFINE f == Costs
                 g == spent
      <4> HIDE DEF f, g
      <4>1. IsSum(f, Attempts, g) /\ g \in [Attempts -> Int] /\ IsSum(h, Attempts, k)
            /\ \A b \in Attempts : k[b] = IF b = a THEN v ELSE g[b]
        BY <1>1, <2>1, <3>2 DEF f, g
      <4>2. \A S \in SUBSET Attempts : f[S] \in Int /\ h[S] = f[S] + IF a \in S THEN v - g[a] ELSE 0
        BY <4>1, SumChange, LedgerAssumption
      <4>3. QED
        BY <4>2 DEF f, g
    <3>4. QED
      BY <3>3 DEF h
  <2>3. QED
    BY <2>2
<1>3. tokens' = Costs'[Attempts]
  BY <1>2 DEF LedgerInv
<1>4. \A b \in Attempts : /\ attempt'[b] = "none" => spent'[b] = 0
                          /\ attempt'[b] = "open" => spent'[b] = Charge
  BY <1>1 DEF LedgerInv
<1>5. ~Unbooked'
  BY <1>1 DEF Unbooked
<1>6. QED
  BY <1>3, <1>4, <1>5 DEF LedgerInv

\* Steps of handlers: no attempt is booked or settled.
LEMMA UnbookedKeeps ==
    ASSUME TypeInv, LedgerInv, UNCHANGED spent, tokens' = tokens,
           \A a \in Attempts : attempt'[a] = attempt[a] \/ (attempt[a] = "open" /\ attempt'[a] = "lost"),
           loop' = loop \/ loop'.pc # "read" \/ loop'.tokens = tokens
    PROVE  LedgerInv'
<1>1. Costs' = Costs
  BY CostsSum
<1>2. Unbooked' => Unbooked
  BY DEF Unbooked
<1>3. Unbooked' /\ loop'.pc = "read" => loop'.tokens = 0
  BY <1>2, NothingConsumed DEF LedgerInv
<1>4. \A a \in Attempts : /\ attempt'[a] = "none" => spent'[a] = 0
                          /\ attempt'[a] = "open" => spent'[a] = Charge
  BY DEF LedgerInv
<1>5. QED
  BY <1>1, <1>3, <1>4 DEF LedgerInv

\* save() never undoes a booking.
LEMMA SavedTokens ==
    ASSUME TypeInv, LedgerInv, loop.pc = "read"
    PROVE  Saved(loop.tokens) = tokens
<1>1. CASE Unbooked
  BY <1>1, NothingConsumed DEF LedgerInv, Saved, Unbooked
<1>2. CASE ~Unbooked
  BY <1>2 DEF Saved, Unbooked
<1>3. QED
  BY <1>1, <1>2

LEMMA LedgerInit == Init => LedgerInv
<1> SUFFICES ASSUME Init PROVE LedgerInv
  OBVIOUS
<1>1. \A a \in Attempts : spent[a] = 0
  BY DEF Init
<1>2. Costs[Attempts] = 0
  BY <1>1, CostsSum, SumOfNothing, LedgerAssumption
<1>3. QED
  BY <1>1, <1>2 DEF Init, LedgerInv, Free

LEMMA LedgerStep == TypeInv /\ LedgerInv /\ [Next]_vars => LedgerInv'
<1> SUFFICES ASSUME TypeInv, LedgerInv, [Next]_vars PROVE LedgerInv'
  OBVIOUS
<1>0. /\ loop \in Places /\ tokens \in Int /\ spent \in [Attempts -> Nat] /\ Charge \in Nat
      /\ attempt \in [Attempts -> {"none", "open", "lost", "done"}]
  BY JobAssumption DEF TypeInv, TypeOK, HandlerTypes, LedgerTypes
<1>1. ASSUME NEW a \in Attempts, Reserve(a) PROVE LedgerInv'
  <2>1. /\ attempt[a] = "none" /\ tokens' = tokens + Charge /\ loop' = loop
        /\ spent' = [spent EXCEPT ![a] = Charge] /\ attempt' = [attempt EXCEPT ![a] = "open"]
    BY <1>1 DEF Reserve
  <2>2. tokens' = tokens + (Charge - spent[a])
    BY <1>0, <2>1 DEF LedgerInv
  <2>3. QED
    BY <1>0, <2>1, <2>2, BookingKeeps, Charge \in Int
<1>2. ASSUME NEW a \in Attempts, Settle(a) PROVE LedgerInv'
  <2>1. attempt[a] = "open" /\ loop' = loop /\ attempt' = [attempt EXCEPT ![a] = "done"]
    BY <1>2 DEF Settle
  <2>2. PICK used \in 0 .. Charge :
            tokens' = tokens - (Charge - used) /\ spent' = [spent EXCEPT ![a] = used]
    BY <1>2 DEF Settle
  <2>3. used \in Int /\ tokens' = tokens + (used - spent[a])
    BY <1>0, <2>1, <2>2 DEF LedgerInv
  <2>4. QED
    BY <2>1, <2>2, <2>3, BookingKeeps
<1>3. ASSUME PauseRead \/ ResumeRead \/ Close PROVE LedgerInv'
  <2>1. UNCHANGED ledger
    BY <1>3 DEF PauseRead, ResumeRead, Close
  <2>2. loop' = loop \/ loop'.tokens = tokens
    BY <1>3 DEF PauseRead, ResumeRead, Close, Reads
  <2>3. QED
    BY <2>1, <2>2, UnbookedKeeps DEF ledger
<1>4. ASSUME PauseSave \/ ResumeSave PROVE LedgerInv'
  <2>1. loop.pc = "read" /\ tokens' = Saved(loop.tokens) /\ UNCHANGED <<attempt, spent>>
    BY <1>4 DEF PauseSave, ResumeSave
  <2>2. loop' = Free \/ loop' = [loop EXCEPT !.pc = "enter"]
    BY <1>4 DEF PauseSave, ResumeSave
  <2>3. loop'.pc # "read"
    BY <1>0, <2>2 DEF Free, Places
  <2>4. QED
    BY <2>1, <2>3, SavedTokens, UnbookedKeeps
<1>5. ASSUME Exit \/ Crash PROVE LedgerInv'
  <2>1. /\ UNCHANGED <<tokens, spent>> /\ loop' = Free
        /\ attempt' = [a \in Attempts |-> IF attempt[a] = "open" THEN "lost" ELSE attempt[a]]
    BY <1>5 DEF Exit, Crash, Down
  <2>2. QED
    BY <2>1, UnbookedKeeps DEF Free
<1>6. ASSUME UNCHANGED ledger, loop' = loop \/ loop'.pc # "read" PROVE LedgerInv'
  BY <1>6, UnbookedKeeps DEF ledger
<1>7. ASSUME NEW i \in Items, NEW r \in Runs, Steer(i, r) \/ ClaimItem(i, r) PROVE LedgerInv'
  BY <1>6, <1>7 DEF Steer, ClaimItem
<1>8. ASSUME NEW r \in Runs, SettleTurn(r) \/ ProviderAnswers(r) \/ GiveUp(r) \/ EndTask(r)
                             \/ Cancel(r) \/ \E s \in {"completed", "failed", "waiting"} : Finish(r, s)
      PROVE  LedgerInv'
  BY <1>6, <1>8 DEF SettleTurn, ProviderAnswers, GiveUp, EndTask, Cancel, Finish
<1>9. ASSUME NEW clean \in BOOLEAN, Stopped(clean) PROVE LedgerInv'
  BY <1>6, <1>9 DEF Stopped
<1>10. ASSUME NEW r \in Runs, Retry(r) PROVE LedgerInv'
  <2>1. UNCHANGED ledger /\ loop'.pc = "enter"
    BY <1>10 DEF Retry
  <2>2. QED
    BY <1>6, <2>1
<1>11. ASSUME NEW c \in Callers, GoOn(c) PROVE LedgerInv'
  <2>1. UNCHANGED ledger /\ loop'.pc \in {"enter", "check"}
    BY <1>11 DEF GoOn
  <2>2. QED
    BY <1>6, <2>1
<1>12. ASSUME Enter \/ Check \/ Transfer \/ Attach \/ Register \/ Complete PROVE LedgerInv'
  <2>1. UNCHANGED ledger
    BY <1>12 DEF Enter, Check, Transfer, Attach, Register, Complete
  <2>2. loop' = Free \/ \E p \in {"check", "transfer", "attach", "register", "complete"} :
                            loop' = [loop EXCEPT !.pc = p]
    BY <1>12 DEF Enter, Check, Transfer, Attach, Register, Complete, Refused
  <2>3. loop'.pc # "read"
    BY <1>0, <2>2 DEF Free, Places
  <2>4. QED
    BY <1>6, <2>1, <2>3
<1>13. ASSUME Recover PROVE LedgerInv'
  <2>1. UNCHANGED ledger /\ (loop' = loop \/ loop'.pc = "enter")
    BY <1>13 DEF Recover
  <2>2. QED
    BY <1>6, <2>1
<1>14. ASSUME Extend PROVE LedgerInv'
  BY <1>14, UnbookedKeeps DEF Extend
<1>15. ASSUME DueArrives \/ WindowCloses \/ ClaimExpires \/ LeaseExpires \/ Boot \/ UNCHANGED vars PROVE LedgerInv'
  BY <1>6, <1>15 DEF DueArrives, WindowCloses, ClaimExpires, LeaseExpires, Boot, vars
<1>16. QED
  BY <1>1, <1>2, <1>3, <1>4, <1>5, <1>7, <1>8, <1>9, <1>10, <1>11, <1>12, <1>13, <1>14, <1>15 DEF Next

\* What a job has consumed is the sum over its attempts, whichever handler saved a copy
\* of the job while worker threads booked and settled them, over any number of deaths
\* (jobs.py: save, reserve_provider_attempt, settle_provider_attempt).
THEOREM LedgerIsExact == Spec => []LedgerExact
<1>1. Init => TypeInv /\ LedgerInv
  BY TypeInit, LedgerInit
<1>2. TypeInv /\ LedgerInv /\ [Next]_vars => TypeInv' /\ LedgerInv'
  BY TypeStep, LedgerStep
<1>3. LedgerInv => LedgerExact
  BY DEF LedgerInv, LedgerExact
<1>4. QED
  BY <1>1, <1>2, <1>3, PTL DEF Spec

=============================================================================

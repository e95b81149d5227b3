-------------------------- MODULE AgentJobsProofs ---------------------------
(***************************************************************************)
(* Theorems about AgentJobs, for any number of runs, attempts, messages,   *)
(* recovery cycles, calls of the user and deaths of the process.           *)
(***************************************************************************)
EXTENDS AgentJobs, TLAPS

(***************************************************************************)
(* What the helpers do to a job, whichever handler uses them.              *)
(***************************************************************************)

\* j with another status, pause, block, due time or outage.
Keeps(j, k) ==
    /\ k \in Jobs /\ k.cur = j.cur /\ k.auto = j.auto /\ k.claim = j.claim
    /\ j.paused # "no" => k.paused # "no"

LEMMA FailedKeeps ==
    ASSUME NEW j \in Jobs
    PROVE  Keeps(j, Failed(j))
<1> DEFINE opened == [j EXCEPT !.cycles = IF @ = -1 THEN j.auto ELSE @,
                               !.over = IF j.cycles = -1 THEN FALSE ELSE @, !.due = "later"]
<1>0. (IF j.cycles = -1 THEN j.auto ELSE j.cycles) \in Int
  BY DEF Jobs
<1>1. opened \in Jobs
  BY <1>0 DEF Jobs
<1>6. Keeps(j, opened)
  <2>1. opened.cur = j.cur /\ opened.auto = j.auto /\ opened.claim = j.claim /\ opened.paused = j.paused
    BY DEF Jobs
  <2>2. QED
    BY <1>1, <2>1 DEF Keeps
<1>2. Outage(opened) \in {"none", "limit", "window"}
  BY DEF Outage
<1> HIDE DEF opened
<1>3. Keeps(opened, [opened EXCEPT !.status = "waiting", !.block = Outage(opened)])
  <2> DEFINE k == [opened EXCEPT !.status = "waiting", !.block = Outage(opened)]
  <2>1. k \in Jobs
    BY <1>1, <1>2 DEF Jobs, JobStatuses
  <2>2. k.cur = opened.cur /\ k.auto = opened.auto /\ k.claim = opened.claim /\ k.paused = opened.paused
    BY <1>1 DEF Jobs
  <2>3. QED
    BY <2>1, <2>2 DEF Keeps
<1>4. Failed(j) = opened \/ Failed(j) = [opened EXCEPT !.status = "waiting", !.block = Outage(opened)]
  BY DEF Failed, opened
<1>5. QED
  BY <1>1, <1>6, <1>3, <1>4 DEF Keeps

LEMMA ProjectedKeeps ==
    ASSUME NEW j \in Jobs, NEW s \in JobStatuses
    PROVE  Keeps(j, Projected(j, s))
<1> DEFINE shown == [j EXCEPT !.status = IF j.paused # "no" THEN "paused" ELSE s]
           timed == IF s \in {"completed", "cancelled"} THEN Settled(shown)
                    ELSE IF s = "waiting" /\ j.due = "none" THEN Failed(shown) ELSE shown
<1>1. shown \in Jobs /\ Keeps(j, shown)
  BY DEF Jobs, Keeps, JobStatuses
<1> HIDE DEF shown
<1>2. Keeps(shown, Settled(shown))
  BY <1>1, -1 \in Int DEF Settled, Jobs, Keeps
<1>3. Keeps(shown, Failed(shown))
  BY <1>1, FailedKeeps
<1>4. timed \in Jobs /\ Keeps(j, timed)
  BY <1>1, <1>2, <1>3 DEF Keeps
<1> HIDE DEF timed
<1>5. Keeps(timed, [timed EXCEPT !.status = "paused", !.paused = "budget", !.block = "budget"])
  <2> DEFINE k == [timed EXCEPT !.status = "paused", !.paused = "budget", !.block = "budget"]
  <2>1. k \in Jobs
    BY <1>4 DEF Jobs, JobStatuses
  <2>2. k.cur = timed.cur /\ k.auto = timed.auto /\ k.claim = timed.claim /\ k.paused = "budget"
    BY <1>4 DEF Jobs
  <2>3. QED
    BY <2>1, <2>2 DEF Keeps
<1>6. \/ Projected(j, s) = timed
      \/ Projected(j, s) = [timed EXCEPT !.status = "paused", !.paused = "budget", !.block = "budget"]
  BY DEF Projected, timed, shown
<1>7. QED
  BY <1>4, <1>5, <1>6 DEF Keeps

LEMMA UpdatedKeeps ==
    ASSUME NEW j \in Jobs, NEW r, NEW s \in JobStatuses
    PROVE  Keeps(j, Updated(j, r, s))
BY ProjectedKeeps DEF Updated, Keeps

\* A refused continuation.
LEMMA RefusedKeeps ==
    ASSUME NEW j \in Jobs, Refused(j)
    PROVE  Keeps(j, job') /\ loop' = Free
BY DEF Refused, Keeps, Jobs, JobStatuses

\* A claimed job, and one for which a resume by the user begins a new count.
LEMMA Counted ==
    ASSUME NEW j \in Jobs, NEW n \in Nat, NEW c \in Int, NEW k \in BOOLEAN
    PROVE  [j EXCEPT !.claim = k, !.auto = n, !.cycles = c] \in Jobs
BY DEF Jobs

LEMMA Restarted ==
    ASSUME NEW j \in Jobs, NEW n \in Nat, NEW c \in Int, NEW k \in BOOLEAN, NEW o \in BOOLEAN,
           NEW b \in {"none", j.block}
    PROVE  [j EXCEPT !.cycles = c, !.over = o, !.auto = n, !.claim = k, !.block = b] \in Jobs
BY DEF Jobs

LEMMA ClaimedType ==
    ASSUME NEW j \in Jobs
    PROVE  Claimed(j) \in Jobs
<1> DEFINE n == j.auto + 1
           c == IF j.cycles = -1 THEN j.cycles ELSE j.cycles + 1
<1>1. n \in Nat /\ c \in Int
  BY DEF Jobs
<1>2. Claimed(j) = [j EXCEPT !.claim = TRUE, !.auto = n, !.cycles = c]
  BY Zenon DEF Claimed
<1> HIDE DEF n, c
<1>3. [j EXCEPT !.claim = TRUE, !.auto = n, !.cycles = c] \in Jobs
  BY <1>1, Counted, Zenon
<1> QED BY <1>2, <1>3, Zenon

LEMMA BegunType ==
    ASSUME NEW j \in Jobs, NEW b \in {"none", j.block}
    PROVE  [j EXCEPT !.cycles = -1, !.over = FALSE, !.auto = 0, !.claim = FALSE, !.block = b] \in Jobs
<1> DEFINE c == -1
           n == 0
<1>1. n \in Nat /\ c \in Int
  BY -1 \in Int
<1> HIDE DEF n, c
<1>3. [j EXCEPT !.cycles = c, !.over = FALSE, !.auto = n, !.claim = FALSE, !.block = b] \in Jobs
  BY <1>1, Restarted, Zenon
<1> QED BY <1>3, Zenon DEF n, c

(***************************************************************************)
(* Type correctness.  A handler knows where it is: the run it continues    *)
(* exists, and so does the replacement it has reserved.                    *)
(***************************************************************************)
Placed ==
    /\ loop.pc # "free" => loop.src \in Runs /\ run[loop.src] # "absent"
    /\ loop.pc \in {"transfer", "attach", "register", "complete"} => rep[loop.src] \in Runs
    /\ \A c \in Callers : flight[c] # Ground => flight[c].src \in Runs /\ run[flight[c].src] # "absent"
    /\ stopping # Still => stopping.run \in Runs /\ run[stopping.run] # "absent"
    /\ ~up => loop.pc = "free"
    /\ \A r \in Runs : task[r] # "none" => run[r] # "absent"

TypeInv == TypeOK /\ Placed

\* A resume by the user begins a new count.
Begins ==
    \/ UNCHANGED <<job, autos>>
    \/ /\ \E b \in {"none", job.block} :
            job' = [job EXCEPT !.cycles = -1, !.over = FALSE, !.auto = 0, !.claim = FALSE, !.block = b]
       /\ autos' = 0

LEMMA Rests ==
    /\ Free \in Places /\ Ground \in Flights /\ Still \in Stops
    /\ 0 \in 0 .. MaxRuns /\ Runs \subseteq 0 .. MaxRuns /\ Runs \subseteq Nat
BY JobAssumption DEF Free, Places, Ground, Flights, Still, Stops, Runs

LEMMA TypeInit == Init => TypeInv
<1> SUFFICES ASSUME Init PROVE TypeOK /\ Placed
  BY DEF TypeInv
<1>1. 1 \in Runs
  BY JobAssumption DEF Runs
<1>2. job \in Jobs
  BY <1>1, -1 \in Int DEF Init, NewJob, Jobs, JobStatuses
<1>3. LedgerTypes
  BY JobAssumption DEF Init, LedgerTypes
<1>8. GuidanceTypes
  BY Rests DEF Init, GuidanceTypes
<1>9. CountTypes
  BY DEF Init, CountTypes
<1>4. RunTypes
  BY <1>1, <1>2, JobAssumption DEF Init, RunTypes, Runs
<1>5. HandlerTypes
  BY Rests DEF Init, HandlerTypes
<1>6. Placed
  BY <1>1 DEF Init, Placed, Free, Ground, Still
<1>7. QED
  BY <1>3, <1>4, <1>5, <1>6, <1>8, <1>9 DEF TypeOK

LEMMA TypeStep == TypeInv /\ [Next]_vars => TypeInv'
<1> SUFFICES ASSUME TypeInv, [Next]_vars PROVE TypeInv'
  OBVIOUS
<1>0. TypeOK /\ Placed
  BY DEF TypeInv
<1>1. ASSUME NEW a \in Attempts, Reserve(a) PROVE TypeInv'
  <2>1. /\ tokens' = tokens + Charge
        /\ attempt' = [attempt EXCEPT ![a] = "open"]
        /\ spent' = [spent EXCEPT ![a] = Charge]
        /\ UNCHANGED <<limit, job, run, rec, task, rep, lease, item, at, stray, up,
                      closing, loop, flight, stopping, wake, wish, autos, requests,
                      crashes>>
    BY <1>1 DEF Reserve, ledger, guidance, history
  <2>2. LedgerTypes'
    BY <1>0, <2>1, JobAssumption DEF TypeOK, LedgerTypes
  <2>3. RunTypes' /\ GuidanceTypes' /\ HandlerTypes' /\ CountTypes'
    BY <1>0, <2>1 DEF TypeOK, RunTypes, GuidanceTypes, HandlerTypes, CountTypes
  <2>4. Placed'
    BY <1>0, <2>1 DEF Placed
  <2>5. QED
    BY <2>2, <2>3, <2>4 DEF TypeInv, TypeOK
<1>2. ASSUME NEW a \in Attempts, Settle(a) PROVE TypeInv'
  <2>1. /\ \E used \in 0 .. Charge : tokens' = tokens - (Charge - used) /\ spent' = [spent EXCEPT ![a] = used]
        /\ attempt' = [attempt EXCEPT ![a] = "done"]
        /\ UNCHANGED <<limit, job, run, rec, task, rep, lease, item, at, stray, up,
                      closing, loop, flight, stopping, wake, wish, autos, requests,
                      crashes>>
    BY <1>2 DEF Settle, ledger, guidance, history
  <2>2. LedgerTypes'
    BY <1>0, <2>1, JobAssumption DEF TypeOK, LedgerTypes
  <2>3. RunTypes' /\ GuidanceTypes' /\ HandlerTypes' /\ CountTypes'
    BY <1>0, <2>1 DEF TypeOK, RunTypes, GuidanceTypes, HandlerTypes, CountTypes
  <2>4. Placed'
    BY <1>0, <2>1 DEF Placed
  <2>5. QED
    BY <2>2, <2>3, <2>4 DEF TypeInv, TypeOK
<1>3. ASSUME NEW i \in Items, NEW r \in Runs, Steer(i, r) PROVE TypeInv'
  <2>1. /\ item' = [item EXCEPT ![i] = "queued"]
        /\ at' = [at EXCEPT ![i] = r]
        /\ stray' \subseteq stray \cup {i}
        /\ UNCHANGED <<tokens, limit, attempt, spent, job, run, rec, task, rep,
                      lease, up, closing, loop, flight, stopping, wake, wish, autos,
                      requests, crashes>>
    BY <1>3 DEF Steer, ledger, guidance, history
  <2>2. GuidanceTypes'
    BY <1>0, <2>1, Rests DEF TypeOK, GuidanceTypes
  <2>3. LedgerTypes' /\ RunTypes' /\ HandlerTypes' /\ CountTypes'
    BY <1>0, <2>1 DEF TypeOK, LedgerTypes, RunTypes, HandlerTypes, CountTypes
  <2>4. Placed'
    BY <1>0, <2>1 DEF Placed
  <2>5. QED
    BY <2>2, <2>3, <2>4 DEF TypeInv, TypeOK
<1>4. ASSUME NEW i \in Items, NEW r \in Runs, ClaimItem(i, r) PROVE TypeInv'
  <2>1. /\ item' = [item EXCEPT ![i] = "claimed"]
        /\ UNCHANGED <<tokens, limit, attempt, spent, job, run, rec, task, rep,
                      lease, at, stray, up, closing, loop, flight, stopping, wake,
                      wish, autos, requests, crashes>>
    BY <1>4 DEF ClaimItem, ledger, guidance, history
  <2>2. GuidanceTypes'
    BY <1>0, <2>1 DEF TypeOK, GuidanceTypes
  <2>3. LedgerTypes' /\ RunTypes' /\ HandlerTypes' /\ CountTypes'
    BY <1>0, <2>1 DEF TypeOK, LedgerTypes, RunTypes, HandlerTypes, CountTypes
  <2>4. Placed'
    BY <1>0, <2>1 DEF Placed
  <2>5. QED
    BY <2>2, <2>3, <2>4 DEF TypeInv, TypeOK
<1>5. ASSUME NEW r \in Runs, SettleTurn(r) PROVE TypeInv'
  <2>1. /\ item' = [i \in Items |-> IF item[i] = "claimed" /\ at[i] = r THEN "acknowledged" ELSE item[i]]
        /\ UNCHANGED <<tokens, limit, attempt, spent, job, run, rec, task, rep,
                      lease, at, stray, up, closing, loop, flight, stopping, wake,
                      wish, autos, requests, crashes>>
    BY <1>5 DEF SettleTurn, ledger, guidance, history
  <2>2. GuidanceTypes'
    BY <1>0, <2>1 DEF TypeOK, GuidanceTypes
  <2>3. LedgerTypes' /\ RunTypes' /\ HandlerTypes' /\ CountTypes'
    BY <1>0, <2>1 DEF TypeOK, LedgerTypes, RunTypes, HandlerTypes, CountTypes
  <2>4. Placed'
    BY <1>0, <2>1 DEF Placed
  <2>5. QED
    BY <2>2, <2>3, <2>4 DEF TypeInv, TypeOK
<1>6. ASSUME NEW r \in Runs, ProviderAnswers(r) PROVE TypeInv'
  <2>1. /\ job' = [Settled(job) EXCEPT !.auto = 0]
        /\ autos' = 0
        /\ UNCHANGED <<tokens, limit, attempt, spent, run, rec, task, rep, lease,
                      item, at, stray, up, closing, loop, flight, stopping, wake,
                      wish, requests, crashes>>
    BY <1>6 DEF ProviderAnswers, ledger, guidance, history
  <2>2. job' \in Jobs
    BY <1>0, <2>1, -1 \in Int DEF Settled, Jobs, TypeOK, RunTypes
  <2>3. RunTypes'
    BY <1>0, <2>1, <2>2 DEF TypeOK, RunTypes
  <2>4. CountTypes'
    BY <1>0, <2>1 DEF TypeOK, CountTypes
  <2>5. LedgerTypes' /\ GuidanceTypes' /\ HandlerTypes'
    BY <1>0, <2>1 DEF TypeOK, LedgerTypes, GuidanceTypes, HandlerTypes
  <2>6. Placed'
    BY <1>0, <2>1 DEF Placed
  <2>7. QED
    BY <2>3, <2>4, <2>5, <2>6 DEF TypeInv, TypeOK
<1>7. ASSUME NEW r \in Runs, GiveUp(r) PROVE TypeInv'
  <2>1. /\ task[r] = "busy"
        /\ task' = [task EXCEPT ![r] = "ending"]
        /\ UNCHANGED <<tokens, limit, attempt, spent, job, run, rec, rep, lease,
                      item, at, stray, up, closing, loop, flight, stopping, wake,
                      wish, autos, requests, crashes>>
    BY <1>7 DEF GiveUp, ledger, guidance, history
  <2>2. RunTypes'
    BY <1>0, <2>1 DEF TypeOK, RunTypes
  <2>3. LedgerTypes' /\ GuidanceTypes' /\ HandlerTypes' /\ CountTypes'
    BY <1>0, <2>1 DEF TypeOK, LedgerTypes, GuidanceTypes, HandlerTypes, CountTypes
  <2>4. Placed'
    BY <1>0, <2>1 DEF Placed, TypeOK, RunTypes, HandlerTypes
  <2>5. QED
    BY <2>2, <2>3, <2>4 DEF TypeInv, TypeOK
<1>8. ASSUME NEW r \in Runs, EndTask(r) PROVE TypeInv'
  <2>1. /\ task' = [task EXCEPT ![r] = "none"]
        /\ lease' \in {0, lease}
        /\ wake' \in {wake, "sleeping"}
        /\ UNCHANGED <<tokens, limit, attempt, spent, job, run, rec, rep, item, at,
                      stray, up, closing, loop, flight, stopping, wish, autos,
                      requests, crashes>>
    BY <1>8 DEF EndTask, Scheduled, ledger, guidance, history
  <2>2. RunTypes'
    BY <1>0, <2>1, Rests DEF TypeOK, RunTypes
  <2>3. HandlerTypes'
    BY <1>0, <2>1 DEF TypeOK, HandlerTypes
  <2>4. LedgerTypes' /\ GuidanceTypes' /\ CountTypes'
    BY <1>0, <2>1 DEF TypeOK, LedgerTypes, GuidanceTypes, CountTypes
  <2>5. Placed'
    BY <1>0, <2>1 DEF Placed, TypeOK, RunTypes, HandlerTypes
  <2>6. QED
    BY <2>2, <2>3, <2>4, <2>5 DEF TypeInv, TypeOK
<1>9. ASSUME NEW r \in Runs, NEW s \in {"completed", "failed", "waiting"}, Finish(r, s) PROVE TypeInv'
  <2>1. /\ run' = [run EXCEPT ![r] = s]
        /\ job' = Updated(job, r, s)
        /\ \E b \in BOOLEAN : rec' = [rec EXCEPT ![r] = b]
        /\ task' = [task EXCEPT ![r] = "ending"]
        /\ UNCHANGED <<tokens, limit, attempt, spent, rep, lease, item, at, stray,
                      up, closing, loop, flight, stopping, wake, wish, autos,
                      requests, crashes>>
    BY <1>9 DEF Finish, ledger, guidance, history
  <2>2. job' \in Jobs
    <3>1. s \in JobStatuses
      BY DEF JobStatuses
    <3>2. QED
      BY <1>0, <2>1, <3>1, UpdatedKeeps DEF Keeps, TypeOK, RunTypes
  <2>3. RunTypes'
    BY <1>0, <2>1, <2>2 DEF TypeOK, RunTypes
  <2>4. LedgerTypes' /\ GuidanceTypes' /\ HandlerTypes' /\ CountTypes'
    BY <1>0, <2>1 DEF TypeOK, LedgerTypes, GuidanceTypes, HandlerTypes, CountTypes
  <2>5. Placed'
    BY <1>0, <2>1 DEF Placed, TypeOK, RunTypes, HandlerTypes
  <2>6. QED
    BY <2>3, <2>4, <2>5 DEF TypeInv, TypeOK
<1>10. ASSUME PauseRead PROVE TypeInv'
  <2>1. /\ up
        /\ Known(job.cur)
        /\ loop' = [pc |-> "read", by |-> "user", src |-> job.cur, tokens |-> tokens]
        /\ requests' = requests + 1
        /\ UNCHANGED <<tokens, limit, attempt, spent, job, run, rec, task, rep,
                      lease, item, at, stray, up, closing, flight, stopping, wake,
                      wish, autos, crashes>>
    BY <1>10 DEF PauseRead, Request, Reads, Idle, ledger, guidance, history
  <2>2. HandlerTypes'
    BY <1>0, <2>1, Rests DEF TypeOK, HandlerTypes, RunTypes, LedgerTypes, Jobs, Places
  <2>3. CountTypes'
    BY <1>0, <2>1 DEF TypeOK, CountTypes
  <2>4. LedgerTypes' /\ RunTypes' /\ GuidanceTypes'
    BY <1>0, <2>1 DEF TypeOK, LedgerTypes, RunTypes, GuidanceTypes
  <2>5. Placed'
    BY <1>0, <2>1 DEF Placed, TypeOK, RunTypes, HandlerTypes, Known, Jobs
  <2>6. QED
    BY <2>2, <2>3, <2>4, <2>5 DEF TypeInv, TypeOK
<1>11. ASSUME PauseSave PROVE TypeInv'
  <2>1. /\ up
        /\ loop.pc = "read" /\ loop.by \in {"user", "shutdown"}
        /\ tokens' = Saved(loop.tokens)
        /\ wish' \in BOOLEAN
        /\ loop' = Free
        /\ \/ /\ job' = Updated([job EXCEPT !.paused = loop.by, !.status = "paused"], loop.src, "interrupted")
              /\ rec' = [rec EXCEPT ![loop.src] = TRUE] /\ UNCHANGED <<run, stopping>>
           \/ /\ job' = [job EXCEPT !.paused = loop.by, !.status = "paused"]
              /\ run' = [run EXCEPT ![loop.src] = "cancelling"]
              /\ stopping' = [run |-> loop.src, why |-> loop.by] /\ UNCHANGED rec
        /\ UNCHANGED <<limit, attempt, spent, task, rep, lease, item, at, stray, up,
                      closing, flight, wake, autos, requests, crashes>>
    BY <1>11 DEF PauseSave, ledger, guidance, history
  <2>2. job' \in Jobs
    <3> DEFINE paused == [job EXCEPT !.paused = loop.by, !.status = "paused"]
    <3>0. job \in Jobs /\ loop.by \in {"user", "shutdown"}
      BY <1>0, <2>1 DEF TypeOK, RunTypes
    <3>1. paused \in Jobs
      BY <3>0 DEF Jobs, JobStatuses
    <3> HIDE DEF paused
    <3>2. Updated(paused, loop.src, "interrupted") \in Jobs
      BY <3>1, UpdatedKeeps DEF Keeps, JobStatuses
    <3>3. job' = Updated(paused, loop.src, "interrupted") \/ job' = paused
      BY <2>1 DEF paused
    <3>4. QED
      BY <3>1, <3>2, <3>3
  <2>3. LedgerTypes'
    BY <1>0, <2>1 DEF TypeOK, LedgerTypes, Saved, HandlerTypes, Places
  <2>4. RunTypes'
    BY <1>0, <2>1, <2>2 DEF TypeOK, RunTypes
  <2>5. HandlerTypes'
    BY <1>0, <2>1, Rests DEF TypeOK, HandlerTypes, Stops, Places
  <2>6. CountTypes'
    BY <1>0, <2>1 DEF TypeOK, CountTypes
  <2>7. GuidanceTypes'
    BY <1>0, <2>1 DEF TypeOK, GuidanceTypes
  <2>8. Placed'
    BY <1>0, <2>1 DEF Placed, TypeOK, RunTypes, HandlerTypes, Free
  <2>9. QED
    BY <2>3, <2>4, <2>5, <2>6, <2>7, <2>8 DEF TypeInv, TypeOK
<1>12. ASSUME NEW r \in Runs, Cancel(r) PROVE TypeInv'
  <2>1. /\ Known(r)
        /\ run' = [run EXCEPT ![r] = "cancelling"]
        /\ stopping' = [run |-> r, why |-> "cancel"]
        /\ job' = Updated(job, r, "cancelling")
        /\ requests' = requests + 1
        /\ UNCHANGED <<tokens, limit, attempt, spent, rec, task, rep, lease, item,
                      at, stray, up, closing, loop, flight, wake, wish, autos,
                      crashes>>
    BY <1>12 DEF Cancel, Request, ledger, guidance, history
  <2>2. job' \in Jobs
    BY <1>0, <2>1, UpdatedKeeps DEF Keeps, TypeOK, RunTypes, JobStatuses
  <2>3. RunTypes'
    BY <1>0, <2>1, <2>2 DEF TypeOK, RunTypes
  <2>4. HandlerTypes'
    BY <1>0, <2>1, Rests DEF TypeOK, HandlerTypes, Stops
  <2>5. CountTypes'
    BY <1>0, <2>1 DEF TypeOK, CountTypes
  <2>6. LedgerTypes' /\ GuidanceTypes'
    BY <1>0, <2>1 DEF TypeOK, LedgerTypes, GuidanceTypes
  <2>7. Placed'
    BY <1>0, <2>1 DEF Placed, TypeOK, RunTypes, HandlerTypes, Known
  <2>8. QED
    BY <2>3, <2>4, <2>5, <2>6, <2>7 DEF TypeInv, TypeOK
<1>13. ASSUME NEW clean \in BOOLEAN, Stopped(clean) PROVE TypeInv'
  <2>1. /\ stopping # Still
        /\ stopping' = Still
        /\ \E s \in {"unknown", "cancelled", "interrupted"} :
             run' = [run EXCEPT ![stopping.run] = s] /\ job' = Updated(job, stopping.run, s)
        /\ \E b \in BOOLEAN : rec' = [rec EXCEPT ![stopping.run] = b]
        /\ UNCHANGED <<tokens, limit, attempt, spent, task, rep, lease, item, at,
                      stray, up, closing, loop, flight, wake, wish, autos, requests,
                      crashes>>
    BY <1>13 DEF Stopped, ledger, guidance, history
  <2>2. job' \in Jobs
    BY <1>0, <2>1, UpdatedKeeps DEF Keeps, TypeOK, RunTypes, JobStatuses
  <2>3. RunTypes'
    BY <1>0, <2>1, <2>2 DEF TypeOK, RunTypes, Placed
  <2>4. HandlerTypes'
    BY <1>0, <2>1, Rests DEF TypeOK, HandlerTypes
  <2>5. LedgerTypes' /\ GuidanceTypes' /\ CountTypes'
    BY <1>0, <2>1 DEF TypeOK, LedgerTypes, GuidanceTypes, CountTypes
  <2>6. Placed'
    BY <1>0, <2>1 DEF Placed, TypeOK, RunTypes, HandlerTypes, Still
  <2>7. QED
    BY <2>3, <2>4, <2>5, <2>6 DEF TypeInv, TypeOK
<1>14. ASSUME Close PROVE TypeInv'
  <2>1. /\ up
        /\ closing' = TRUE
        /\ wake' = "none"
        /\ \/ UNCHANGED loop
           \/ task[job.cur] # "none" /\ loop' = [pc |-> "read", by |-> "shutdown", src |-> job.cur, tokens |-> tokens]
        /\ UNCHANGED <<tokens, limit, attempt, spent, job, run, rec, task, rep,
                      lease, item, at, stray, up, flight, stopping, wish, autos,
                      requests, crashes>>
    BY <1>14 DEF Close, Reads, Idle, ledger, guidance, history
  <2>2. HandlerTypes'
    <3>1. job.cur \in Runs /\ tokens \in Int
      BY <1>0 DEF TypeOK, RunTypes, LedgerTypes, Jobs
    <3>2. [pc |-> "read", by |-> "shutdown", src |-> job.cur, tokens |-> tokens] \in Places
      BY <3>1, Rests DEF Places
    <3>3. QED
      BY <1>0, <2>1, <3>2 DEF TypeOK, HandlerTypes
  <2>3. LedgerTypes' /\ RunTypes' /\ GuidanceTypes' /\ CountTypes'
    BY <1>0, <2>1 DEF TypeOK, LedgerTypes, RunTypes, GuidanceTypes, CountTypes
  <2>4. Placed'
    <3>1. job.cur \in Runs
      BY <1>0 DEF TypeOK, RunTypes, Jobs
    <3>2. loop' = loop \/ (run[job.cur] # "absent" /\ loop'.pc = "read" /\ loop'.src = job.cur)
      BY <1>0, <2>1, <3>1 DEF Placed
    <3>3. UNCHANGED <<up, run, task, rep, flight, stopping>> /\ up
      BY <2>1
    <3>4. QED
      BY <1>0, <3>1, <3>2, <3>3 DEF Placed
  <2>5. QED
    BY <2>2, <2>3, <2>4 DEF TypeInv, TypeOK
<1>15. ASSUME Exit PROVE TypeInv'
  <2>1. /\ up' = FALSE
        /\ closing' = FALSE
        /\ task' = [r \in Runs |-> "none"]
        /\ attempt' = [a \in Attempts |-> IF attempt[a] = "open" THEN "lost" ELSE attempt[a]]
        /\ loop' = Free
        /\ flight' = [c \in Callers |-> Ground]
        /\ stopping' = Still
        /\ wake' = "none"
        /\ crashes' = crashes + 1
        /\ lease' = 0
        /\ UNCHANGED <<tokens, limit, spent, job, run, rec, rep, item, at, stray,
                      wish, autos, requests>>
    BY <1>15 DEF Exit, Down, ledger, guidance, history
  <2>2. LedgerTypes'
    BY <1>0, <2>1 DEF TypeOK, LedgerTypes
  <2>3. RunTypes'
    BY <1>0, <2>1, Rests DEF TypeOK, RunTypes
  <2>4. HandlerTypes'
    BY <1>0, <2>1, Rests DEF TypeOK, HandlerTypes
  <2>5. CountTypes'
    BY <1>0, <2>1 DEF TypeOK, CountTypes
  <2>6. GuidanceTypes'
    BY <1>0, <2>1 DEF TypeOK, GuidanceTypes
  <2>7. Placed'
    BY <1>0, <2>1 DEF Placed, TypeOK, RunTypes, HandlerTypes, Free, Ground, Still
  <2>8. QED
    BY <2>2, <2>3, <2>4, <2>5, <2>6, <2>7 DEF TypeInv, TypeOK
<1>16. ASSUME ResumeRead PROVE TypeInv'
  <2>1. /\ up
        /\ Known(job.cur)
        /\ loop' = [pc |-> "read", by |-> "resume", src |-> job.cur, tokens |-> tokens]
        /\ requests' = requests + 1
        /\ UNCHANGED <<tokens, limit, attempt, spent, job, run, rec, task, rep,
                      lease, item, at, stray, up, closing, flight, stopping, wake,
                      wish, autos, crashes>>
    BY <1>16 DEF ResumeRead, Request, Reads, Idle, ledger, guidance, history
  <2>2. HandlerTypes'
    BY <1>0, <2>1, Rests DEF TypeOK, HandlerTypes, RunTypes, LedgerTypes, Jobs, Places, Callers
  <2>3. CountTypes'
    BY <1>0, <2>1 DEF TypeOK, CountTypes
  <2>4. LedgerTypes' /\ RunTypes' /\ GuidanceTypes'
    BY <1>0, <2>1 DEF TypeOK, LedgerTypes, RunTypes, GuidanceTypes
  <2>5. Placed'
    BY <1>0, <2>1 DEF Placed, TypeOK, RunTypes, HandlerTypes, Known, Jobs
  <2>6. QED
    BY <2>2, <2>3, <2>4, <2>5 DEF TypeInv, TypeOK
<1>17. ASSUME ResumeSave PROVE TypeInv'
  <2>1. /\ up
        /\ loop.pc = "read"
        /\ job' = [job EXCEPT !.paused = "no", !.block = "none"]
        /\ tokens' = Saved(loop.tokens)
        /\ wish' = FALSE
        /\ loop' = [loop EXCEPT !.pc = "enter"]
        /\ UNCHANGED <<limit, attempt, spent, run, rec, task, rep, lease, item, at,
                      stray, up, closing, flight, stopping, wake, autos, requests,
                      crashes>>
    BY <1>17 DEF ResumeSave, ledger, guidance, history
  <2>2. job' \in Jobs
    BY <1>0, <2>1 DEF Jobs, TypeOK, RunTypes
  <2>3. LedgerTypes'
    BY <1>0, <2>1 DEF TypeOK, LedgerTypes, Saved, HandlerTypes, Places
  <2>4. RunTypes'
    BY <1>0, <2>1, <2>2 DEF TypeOK, RunTypes
  <2>5. HandlerTypes'
    BY <1>0, <2>1 DEF TypeOK, HandlerTypes, Places
  <2>6. CountTypes'
    BY <1>0, <2>1 DEF TypeOK, CountTypes
  <2>7. GuidanceTypes'
    BY <1>0, <2>1 DEF TypeOK, GuidanceTypes
  <2>8. Placed'
    BY <1>0, <2>1 DEF Placed, TypeOK, RunTypes, HandlerTypes
  <2>9. QED
    BY <2>3, <2>4, <2>5, <2>6, <2>7, <2>8 DEF TypeInv, TypeOK
<1>18. ASSUME NEW r \in Runs, Retry(r) PROVE TypeInv'
  <2>1. /\ up
        /\ Known(r)
        /\ wish' = FALSE
        /\ loop' = [pc |-> "enter", by |-> "retry", src |-> r, tokens |-> 0]
        /\ requests' = requests + 1
        /\ UNCHANGED <<tokens, limit, attempt, spent, job, run, rec, task, rep,
                      lease, item, at, stray, up, closing, flight, stopping, wake,
                      autos, crashes>>
    BY <1>18 DEF Retry, Request, Idle, ledger, guidance, history
  <2>2. HandlerTypes'
    BY <1>0, <2>1, Rests DEF TypeOK, HandlerTypes, Callers, Places
  <2>3. CountTypes'
    <3>1. autos' \in Nat /\ requests' \in Nat /\ crashes' \in Nat
      BY <1>0, <2>1 DEF TypeOK, CountTypes
    <3>2. wish' \in BOOLEAN
      BY <2>1, Zenon
    <3>3. QED
      BY <3>1, <3>2 DEF CountTypes
  <2>4. LedgerTypes' /\ RunTypes' /\ GuidanceTypes'
    BY <1>0, <2>1 DEF TypeOK, LedgerTypes, RunTypes, GuidanceTypes
  <2>5. Placed'
    BY <1>0, <2>1 DEF Placed, TypeOK, RunTypes, HandlerTypes, Known
  <2>6. QED
    BY <2>2, <2>3, <2>4, <2>5 DEF TypeInv, TypeOK
<1>19. ASSUME Enter PROVE TypeInv'
  <2>1. /\ up
        /\ loop.pc = "enter"
        /\ \/ Refused(job) /\ loop' = Free /\ UNCHANGED <<autos, flight>>
           \/ /\ loop' = Free /\ UNCHANGED <<job, autos, flight>>
           \/ /\ loop' = Free /\ \E w \in {"lock", "task"} : flight' = [flight EXCEPT ![loop.by] = [at |-> w, src |-> loop.src]]
              /\ Begins
           \/ /\ loop' = [loop EXCEPT !.pc = "check"] /\ UNCHANGED flight
              /\ Begins
        /\ UNCHANGED <<tokens, limit, attempt, spent, run, rec, task, rep, lease,
                      item, at, stray, up, closing, stopping, wake, wish, requests,
                      crashes>>
    BY <1>19 DEF Enter, Begins, Refused, ledger, guidance, history
  <2>2. job' \in Jobs
    <3>1. CASE Refused(job)
      BY <1>0, <3>1, RefusedKeeps DEF Keeps, TypeOK, RunTypes
    <3>2. CASE UNCHANGED job
      BY <1>0, <3>2 DEF TypeOK, RunTypes
    <3>3. CASE Begins
      <4>1. job \in Jobs
        BY <1>0 DEF TypeOK, RunTypes
      <4>2. QED
        BY <3>3, <4>1, BegunType, Zenon DEF Begins
    <3>4. QED
      BY <2>1, <3>1, <3>2, <3>3
  <2>3. RunTypes'
    BY <1>0, <2>1, <2>2 DEF TypeOK, RunTypes
  <2>4. HandlerTypes'
    BY <1>0, <2>1, Rests DEF TypeOK, HandlerTypes, Refused, Places, Flights
  <2>5. CountTypes'
    BY <1>0, <2>1 DEF TypeOK, CountTypes, Begins
  <2>6. LedgerTypes' /\ GuidanceTypes'
    BY <1>0, <2>1 DEF TypeOK, LedgerTypes, GuidanceTypes
  <2>7. Placed'
    <3>1. loop.src \in Runs /\ run[loop.src] # "absent"
      BY <1>0, <2>1 DEF Placed
    <3>2. CASE UNCHANGED flight
      BY <1>0, <2>1, <3>1, <3>2 DEF Placed, Free, TypeOK, HandlerTypes, Places
    <3>3. CASE loop' = Free /\ \E w \in {"lock", "task"} : flight' = [flight EXCEPT ![loop.by] = [at |-> w, src |-> loop.src]]
      BY <1>0, <2>1, <3>1, <3>3 DEF Placed, Free, TypeOK, HandlerTypes
    <3>4. QED
      BY <2>1, <3>2, <3>3
  <2>8. QED
    BY <2>3, <2>4, <2>5, <2>6, <2>7 DEF TypeInv, TypeOK
<1>20. ASSUME NEW c \in Callers, GoOn(c) PROVE TypeInv'
  <2>1. /\ up
        /\ flight[c] # Ground
        /\ loop' = [pc |-> IF flight[c].at = "lock" THEN "enter" ELSE "check", by |-> c, src |-> flight[c].src, tokens |-> 0]
        /\ flight' = [flight EXCEPT ![c] = Ground]
        /\ UNCHANGED <<tokens, limit, attempt, spent, job, run, rec, task, rep,
                      lease, item, at, stray, up, closing, stopping, wake, wish,
                      autos, requests, crashes>>
    BY <1>20 DEF GoOn, Idle, ledger, guidance, history
  <2>2. HandlerTypes'
    BY <1>0, <2>1, Rests DEF TypeOK, HandlerTypes, Places, Flights
  <2>3. LedgerTypes' /\ RunTypes' /\ GuidanceTypes' /\ CountTypes'
    BY <1>0, <2>1 DEF TypeOK, LedgerTypes, RunTypes, GuidanceTypes, CountTypes
  <2>4. Placed'
    BY <1>0, <2>1 DEF Placed, TypeOK, RunTypes, HandlerTypes, Ground
  <2>5. QED
    BY <2>2, <2>3, <2>4 DEF TypeInv, TypeOK
<1>21. ASSUME Check PROVE TypeInv'
  <2>1. /\ up
        /\ loop.pc = "check"
        /\ \/ loop' = Free /\ UNCHANGED <<job, rep>>
           \/ Refused(job) /\ loop' = Free /\ UNCHANGED rep
           \/ /\ Reserved(loop.src) # 0 /\ rep' = [rep EXCEPT ![loop.src] = Reserved(loop.src)]
              /\ loop' = [loop EXCEPT !.pc = "transfer"] /\ UNCHANGED job
        /\ UNCHANGED <<tokens, limit, attempt, spent, run, rec, task, lease, item,
                      at, stray, up, closing, flight, stopping, wake, wish, autos,
                      requests, crashes>>
    BY <1>21 DEF Check, Refused, ledger, guidance, history
  <2>2. job' \in Jobs
    BY <1>0, <2>1, RefusedKeeps DEF Keeps, TypeOK, RunTypes
  <2>3. RunTypes'
    <3>1. loop.src \in Runs /\ run[loop.src] # "absent"
      BY <1>0, <2>1 DEF Placed
    <3>2. Reserved(loop.src) \in 0 .. MaxRuns
      <4>1. rep[loop.src] \in 0 .. MaxRuns
        BY <1>0, <3>1 DEF TypeOK, RunTypes
      <4>2. HasFresh => Fresh \in Runs
        BY DEF HasFresh, Fresh
      <4>3. QED
        BY <4>1, <4>2, Rests DEF Reserved
    <3>3. rep' \in [Runs -> 0 .. MaxRuns]
      BY <1>0, <2>1, <3>2 DEF TypeOK, RunTypes
    <3>4. QED
      BY <1>0, <2>1, <2>2, <3>3 DEF TypeOK, RunTypes
  <2>4. HandlerTypes'
    BY <1>0, <2>1, Rests DEF TypeOK, HandlerTypes, Refused, Places
  <2>5. LedgerTypes' /\ GuidanceTypes' /\ CountTypes'
    BY <1>0, <2>1 DEF TypeOK, LedgerTypes, GuidanceTypes, CountTypes
  <2>6. Placed'
    <3>1. loop.src \in Runs /\ run[loop.src] # "absent"
      BY <1>0, <2>1 DEF Placed
    <3>2. CASE loop' = Free
      <4>1. UNCHANGED <<up, run, task, flight, stopping>>
        BY <2>1
      <4>2. QED
        BY <1>0, <3>2, <4>1 DEF Placed, Free
    <3>3. CASE Reserved(loop.src) # 0 /\ rep' = [rep EXCEPT ![loop.src] = Reserved(loop.src)] /\ loop' = [loop EXCEPT !.pc = "transfer"]
      <4>1. rep'[loop.src] = Reserved(loop.src) /\ Reserved(loop.src) \in 0 .. MaxRuns
        BY <1>0, <2>3, <3>1, <3>3 DEF TypeOK, RunTypes
      <4>2. rep'[loop.src] \in Runs
        BY <3>3, <4>1, JobAssumption DEF Runs
      <4>3. loop'.pc = "transfer" /\ loop'.src = loop.src
        BY <1>0, <3>3 DEF TypeOK, HandlerTypes, Places
      <4>4. QED
        BY <1>0, <2>1, <3>1, <4>2, <4>3 DEF Placed
    <3>4. QED
      BY <2>1, <3>2, <3>3
  <2>7. QED
    BY <2>3, <2>4, <2>5, <2>6 DEF TypeInv, TypeOK
<1>22. ASSUME Transfer PROVE TypeInv'
  <2>1. /\ up
        /\ loop.pc = "transfer"
        /\ item' = [i \in Items |-> IF Transferable(i) THEN "queued" ELSE item[i]]
        /\ at' = [i \in Items |-> IF Transferable(i) THEN rep[loop.src] ELSE at[i]]
        /\ loop' = [loop EXCEPT !.pc = "attach"]
        /\ UNCHANGED <<tokens, limit, attempt, spent, job, run, rec, task, rep,
                      lease, stray, up, closing, flight, stopping, wake, wish,
                      autos, requests, crashes>>
    BY <1>22 DEF Transfer, ledger, guidance, history
  <2>2. GuidanceTypes'
    BY <1>0, <2>1 DEF TypeOK, GuidanceTypes, Placed, RunTypes, Transferable
  <2>3. HandlerTypes'
    BY <1>0, <2>1, Rests DEF TypeOK, HandlerTypes, Places
  <2>4. LedgerTypes' /\ RunTypes' /\ CountTypes'
    BY <1>0, <2>1 DEF TypeOK, LedgerTypes, RunTypes, CountTypes
  <2>5. Placed'
    BY <1>0, <2>1 DEF Placed, TypeOK, RunTypes, HandlerTypes
  <2>6. QED
    BY <2>2, <2>3, <2>4, <2>5 DEF TypeInv, TypeOK
<1>23. ASSUME Attach PROVE TypeInv'
  <2>1. /\ up
        /\ loop.pc = "attach"
        /\ \/ /\ lease' = rep[loop.src] /\ job' = Attached(job, rep[loop.src])
              /\ loop' = [loop EXCEPT !.pc = "register"] /\ autos' \in {autos, autos + 1} /\ UNCHANGED rec
           \/ /\ Refused(Updated(job, loop.src, run[loop.src])) /\ loop' = Free
              /\ rec' = [rec EXCEPT ![loop.src] = TRUE] /\ UNCHANGED <<lease, autos>>
        /\ UNCHANGED <<tokens, limit, attempt, spent, run, task, rep, item, at,
                      stray, up, closing, flight, stopping, wake, wish, requests,
                      crashes>>
    BY <1>23 DEF Attach, Refused, ledger, guidance, history
  <2>2. job' \in Jobs
    <3>1. rep[loop.src] \in Runs /\ run[loop.src] \in JobStatuses
      <4>1. loop.src \in Runs /\ run[loop.src] # "absent" /\ rep[loop.src] \in Runs
        BY <1>0, <2>1 DEF Placed
      <4>2. QED
        BY <1>0, <4>1 DEF TypeOK, RunTypes, JobStatuses
    <3>2. Attached(job, rep[loop.src]) \in Jobs
      BY <1>0, <3>1 DEF Attached, TypeOK, RunTypes, Jobs, JobStatuses
    <3>3. Updated(job, loop.src, run[loop.src]) \in Jobs
      BY <1>0, <3>1, UpdatedKeeps DEF Keeps, TypeOK, RunTypes
    <3>4. QED
      BY <2>1, <3>2, <3>3, RefusedKeeps DEF Keeps
  <2>3. RunTypes'
    <3>1. loop.src \in Runs /\ run[loop.src] # "absent"
      BY <1>0, <2>1 DEF Placed
    <3>2. lease' \in 0 .. MaxRuns
      BY <1>0, <2>1, <3>1 DEF TypeOK, RunTypes
    <3>3. rec' \in [Runs -> BOOLEAN]
      BY <1>0, <2>1 DEF TypeOK, RunTypes
    <3>4. QED
      BY <1>0, <2>1, <2>2, <3>2, <3>3 DEF TypeOK, RunTypes
  <2>4. HandlerTypes'
    BY <1>0, <2>1, Rests DEF TypeOK, HandlerTypes, Refused, Places
  <2>5. CountTypes'
    BY <1>0, <2>1 DEF TypeOK, CountTypes
  <2>6. LedgerTypes' /\ GuidanceTypes'
    BY <1>0, <2>1 DEF TypeOK, LedgerTypes, GuidanceTypes
  <2>7. Placed'
    <3>1. loop.src \in Runs /\ run[loop.src] # "absent"
      BY <1>0, <2>1 DEF Placed
    <3>2. loop' = Free \/ loop' = [loop EXCEPT !.pc = "register"]
      BY <2>1
    <3>3. loop'.pc # "free" => loop'.src = loop.src /\ loop.pc = "attach"
      BY <1>0, <2>1, <3>2 DEF Free, TypeOK, HandlerTypes, Places
    <3>4. UNCHANGED <<up, run, task, rep, flight, stopping>> /\ up
      BY <2>1
    <3>5. loop'.pc \in {"transfer", "attach", "register", "complete"} => rep'[loop'.src] \in Runs
      BY <1>0, <3>3, <3>4 DEF Placed
    <3>6. QED
      BY <1>0, <3>1, <3>3, <3>4, <3>5 DEF Placed
  <2>8. QED
    BY <2>3, <2>4, <2>5, <2>6, <2>7 DEF TypeInv, TypeOK
<1>24. ASSUME Register PROVE TypeInv'
  <2>1. /\ up
        /\ loop.pc = "register"
        /\ run' = [run EXCEPT ![rep[loop.src]] = "running"]
        /\ task' = [task EXCEPT ![rep[loop.src]] = "busy"]
        /\ job' = Updated(job, rep[loop.src], "running")
        /\ loop' = [loop EXCEPT !.pc = "complete"]
        /\ UNCHANGED <<tokens, limit, attempt, spent, rec, rep, lease, item, at,
                      stray, up, closing, flight, stopping, wake, wish, autos,
                      requests, crashes>>
    BY <1>24 DEF Register, ledger, guidance, history
  <2>2. job' \in Jobs
    BY <1>0, <2>1, UpdatedKeeps DEF Keeps, TypeOK, RunTypes, JobStatuses
  <2>3. RunTypes'
    BY <1>0, <2>1, <2>2 DEF TypeOK, RunTypes, Placed
  <2>4. HandlerTypes'
    BY <1>0, <2>1, Rests DEF TypeOK, HandlerTypes, Places
  <2>5. LedgerTypes' /\ GuidanceTypes' /\ CountTypes'
    BY <1>0, <2>1 DEF TypeOK, LedgerTypes, GuidanceTypes, CountTypes
  <2>6. Placed'
    BY <1>0, <2>1 DEF Placed, TypeOK, RunTypes, HandlerTypes
  <2>7. QED
    BY <2>3, <2>4, <2>5, <2>6 DEF TypeInv, TypeOK
<1>25. ASSUME Complete PROVE TypeInv'
  <2>1. /\ up
        /\ loop.pc = "complete"
        /\ rec' = [rec EXCEPT ![loop.src] = FALSE]
        /\ loop' = Free
        /\ UNCHANGED <<tokens, limit, attempt, spent, job, run, task, rep, lease,
                      item, at, stray, up, closing, flight, stopping, wake, wish,
                      autos, requests, crashes>>
    BY <1>25 DEF Complete, ledger, guidance, history
  <2>2. RunTypes'
    BY <1>0, <2>1 DEF TypeOK, RunTypes
  <2>3. HandlerTypes'
    BY <1>0, <2>1, Rests DEF TypeOK, HandlerTypes
  <2>4. LedgerTypes' /\ GuidanceTypes' /\ CountTypes'
    BY <1>0, <2>1 DEF TypeOK, LedgerTypes, GuidanceTypes, CountTypes
  <2>5. Placed'
    BY <1>0, <2>1 DEF Placed, TypeOK, RunTypes, HandlerTypes, Free
  <2>6. QED
    BY <2>2, <2>3, <2>4, <2>5 DEF TypeInv, TypeOK
<1>26. ASSUME Recover PROVE TypeInv'
  <2>1. /\ up
        /\ wake' \in {"none", "sleeping"}
        /\ \/ UNCHANGED <<job, loop>>
           \/ job' = [job EXCEPT !.status = "paused", !.paused = "budget", !.block = "budget"] /\ UNCHANGED loop
           \/ Outage(job) # "none" /\ job' = [job EXCEPT !.block = Outage(job)] /\ UNCHANGED loop
           \/ (\E b \in {"limit", "refused"} : job' = [job EXCEPT !.status = "blocked", !.block = b]) /\ UNCHANGED loop
           \/ /\ Known(job.cur) /\ job' = Claimed(job)
              /\ loop' = [pc |-> "enter", by |-> "auto", src |-> job.cur, tokens |-> 0]
        /\ UNCHANGED <<tokens, limit, attempt, spent, run, rec, task, rep, lease,
                      item, at, stray, up, closing, flight, stopping, wish, autos,
                      requests, crashes>>
    BY <1>26 DEF Recover, Scheduled, ledger, guidance, history
  <2>2. job' \in Jobs
    <3>1. Outage(job) \in {"none", "limit", "window"}
      BY DEF Outage
    <3>2. Claimed(job) \in Jobs
      <4>1. job \in Jobs
        BY <1>0 DEF TypeOK, RunTypes
      <4>2. QED
        BY <4>1, ClaimedType
    <3>3. job \in Jobs
      BY <1>0 DEF TypeOK, RunTypes
    <3>4. [job EXCEPT !.block = Outage(job)] \in Jobs
      BY <3>1, <3>3 DEF Jobs
    <3>5. [job EXCEPT !.status = "paused", !.paused = "budget", !.block = "budget"] \in Jobs
      BY <3>3 DEF Jobs, JobStatuses
    <3>6. \A b \in {"limit", "refused"} : [job EXCEPT !.status = "blocked", !.block = b] \in Jobs
      BY <3>3 DEF Jobs, JobStatuses
    <3>7. QED
      BY <2>1, <3>2, <3>3, <3>4, <3>5, <3>6
  <2>3. RunTypes'
    BY <1>0, <2>1, <2>2 DEF TypeOK, RunTypes
  <2>4. HandlerTypes'
    BY <1>0, <2>1, Rests DEF TypeOK, HandlerTypes, RunTypes, Jobs, Callers, Places
  <2>5. LedgerTypes' /\ GuidanceTypes' /\ CountTypes'
    BY <1>0, <2>1 DEF TypeOK, LedgerTypes, GuidanceTypes, CountTypes
  <2>6. Placed'
    BY <1>0, <2>1 DEF Placed, TypeOK, RunTypes, HandlerTypes, Known, Jobs
  <2>7. QED
    BY <2>3, <2>4, <2>5, <2>6 DEF TypeInv, TypeOK
<1>27. ASSUME Extend PROVE TypeInv'
  <2>1. /\ limit' = limit + Limit
        /\ job' = [job EXCEPT !.paused = "no", !.block = "none"]
        /\ wish' = FALSE
        /\ requests' = requests + 1
        /\ UNCHANGED <<tokens, attempt, spent, run, rec, task, rep, lease, item, at,
                      stray, up, closing, loop, flight, stopping, wake, autos,
                      crashes>>
    BY <1>27 DEF Extend, Request, ledger, guidance, history
  <2>2. job' \in Jobs
    BY <1>0, <2>1 DEF Jobs, TypeOK, RunTypes
  <2>3. LedgerTypes'
    BY <1>0, <2>1, JobAssumption DEF TypeOK, LedgerTypes
  <2>4. RunTypes'
    BY <1>0, <2>1, <2>2 DEF TypeOK, RunTypes
  <2>5. CountTypes'
    <3>1. autos' \in Nat /\ requests' \in Nat /\ crashes' \in Nat
      BY <1>0, <2>1 DEF TypeOK, CountTypes
    <3>2. wish' \in BOOLEAN
      BY <2>1, Zenon
    <3>3. QED
      BY <3>1, <3>2 DEF CountTypes
  <2>6. GuidanceTypes' /\ HandlerTypes'
    BY <1>0, <2>1 DEF TypeOK, GuidanceTypes, HandlerTypes
  <2>7. Placed'
    BY <1>0, <2>1 DEF Placed
  <2>8. QED
    BY <2>3, <2>4, <2>5, <2>6, <2>7 DEF TypeInv, TypeOK
<1>28. ASSUME DueArrives PROVE TypeInv'
  <2>1. /\ job' = [job EXCEPT !.due = "now"]
        /\ UNCHANGED <<tokens, limit, attempt, spent, run, rec, task, rep, lease,
                      item, at, stray, up, closing, loop, flight, stopping, wake,
                      wish, autos, requests, crashes>>
    BY <1>28 DEF DueArrives, ledger, guidance, history
  <2>2. job' \in Jobs
    BY <1>0, <2>1 DEF Jobs, TypeOK, RunTypes
  <2>3. RunTypes'
    BY <1>0, <2>1, <2>2 DEF TypeOK, RunTypes
  <2>4. LedgerTypes' /\ GuidanceTypes' /\ HandlerTypes' /\ CountTypes'
    BY <1>0, <2>1 DEF TypeOK, LedgerTypes, GuidanceTypes, HandlerTypes, CountTypes
  <2>5. Placed'
    BY <1>0, <2>1 DEF Placed
  <2>6. QED
    BY <2>3, <2>4, <2>5 DEF TypeInv, TypeOK
<1>29. ASSUME WindowCloses PROVE TypeInv'
  <2>1. /\ job' = [job EXCEPT !.over = TRUE]
        /\ UNCHANGED <<tokens, limit, attempt, spent, run, rec, task, rep, lease,
                      item, at, stray, up, closing, loop, flight, stopping, wake,
                      wish, autos, requests, crashes>>
    BY <1>29 DEF WindowCloses, ledger, guidance, history
  <2>2. job' \in Jobs
    BY <1>0, <2>1 DEF Jobs, TypeOK, RunTypes
  <2>3. RunTypes'
    BY <1>0, <2>1, <2>2 DEF TypeOK, RunTypes
  <2>4. LedgerTypes' /\ GuidanceTypes' /\ HandlerTypes' /\ CountTypes'
    BY <1>0, <2>1 DEF TypeOK, LedgerTypes, GuidanceTypes, HandlerTypes, CountTypes
  <2>5. Placed'
    BY <1>0, <2>1 DEF Placed
  <2>6. QED
    BY <2>3, <2>4, <2>5 DEF TypeInv, TypeOK
<1>30. ASSUME ClaimExpires PROVE TypeInv'
  <2>1. /\ job' = [job EXCEPT !.claim = FALSE]
        /\ UNCHANGED <<tokens, limit, attempt, spent, run, rec, task, rep, lease,
                      item, at, stray, up, closing, loop, flight, stopping, wake,
                      wish, autos, requests, crashes>>
    BY <1>30 DEF ClaimExpires, ledger, guidance, history
  <2>2. job' \in Jobs
    BY <1>0, <2>1 DEF Jobs, TypeOK, RunTypes
  <2>3. RunTypes'
    BY <1>0, <2>1, <2>2 DEF TypeOK, RunTypes
  <2>4. LedgerTypes' /\ GuidanceTypes' /\ HandlerTypes' /\ CountTypes'
    BY <1>0, <2>1 DEF TypeOK, LedgerTypes, GuidanceTypes, HandlerTypes, CountTypes
  <2>5. Placed'
    BY <1>0, <2>1 DEF Placed
  <2>6. QED
    BY <2>3, <2>4, <2>5 DEF TypeInv, TypeOK
<1>31. ASSUME LeaseExpires PROVE TypeInv'
  <2>1. /\ lease' = 0
        /\ UNCHANGED <<tokens, limit, attempt, spent, job, run, rec, task, rep,
                      item, at, stray, up, closing, loop, flight, stopping, wake,
                      wish, autos, requests, crashes>>
    BY <1>31 DEF LeaseExpires, ledger, guidance, history
  <2>2. RunTypes'
    BY <1>0, <2>1, Rests DEF TypeOK, RunTypes
  <2>3. LedgerTypes' /\ GuidanceTypes' /\ HandlerTypes' /\ CountTypes'
    BY <1>0, <2>1 DEF TypeOK, LedgerTypes, GuidanceTypes, HandlerTypes, CountTypes
  <2>4. Placed'
    BY <1>0, <2>1 DEF Placed
  <2>5. QED
    BY <2>2, <2>3, <2>4 DEF TypeInv, TypeOK
<1>32. ASSUME Crash PROVE TypeInv'
  <2>1. /\ up' = FALSE
        /\ closing' = FALSE
        /\ task' = [r \in Runs |-> "none"]
        /\ attempt' = [a \in Attempts |-> IF attempt[a] = "open" THEN "lost" ELSE attempt[a]]
        /\ loop' = Free
        /\ flight' = [c \in Callers |-> Ground]
        /\ stopping' = Still
        /\ wake' = "none"
        /\ crashes' = crashes + 1
        /\ UNCHANGED <<tokens, limit, spent, job, run, rec, rep, lease, item, at,
                      stray, wish, autos, requests>>
    BY <1>32 DEF Crash, Down, ledger, guidance, history
  <2>2. LedgerTypes'
    BY <1>0, <2>1 DEF TypeOK, LedgerTypes
  <2>3. RunTypes'
    BY <1>0, <2>1 DEF TypeOK, RunTypes
  <2>4. HandlerTypes'
    BY <1>0, <2>1, Rests DEF TypeOK, HandlerTypes
  <2>5. CountTypes'
    BY <1>0, <2>1 DEF TypeOK, CountTypes
  <2>6. GuidanceTypes'
    BY <1>0, <2>1 DEF TypeOK, GuidanceTypes
  <2>7. Placed'
    BY <1>0, <2>1 DEF Placed, TypeOK, RunTypes, HandlerTypes, Free, Ground, Still
  <2>8. QED
    BY <2>2, <2>3, <2>4, <2>5, <2>6, <2>7 DEF TypeInv, TypeOK
<1>33. ASSUME Boot PROVE TypeInv'
  <2>1. /\ up' = TRUE
        /\ wake' = "startup"
        /\ run' = [r \in Runs |-> IF run[r] \in {"running", "cancelling"} THEN "interrupted" ELSE run[r]]
        /\ rec' = [r \in Runs |-> (rec[r] \/ run[r] \in {"running", "cancelling"}) /\ ~Superseded(r)]
        /\ job' \in {job, Updated(job, job.cur, "interrupted")}
        /\ UNCHANGED <<tokens, limit, attempt, spent, task, rep, lease, item, at,
                      stray, closing, loop, flight, stopping, wish, autos, requests,
                      crashes>>
    BY <1>33 DEF Boot, ledger, guidance, history
  <2>2. job' \in Jobs
    BY <1>0, <2>1, UpdatedKeeps DEF Keeps, TypeOK, RunTypes, JobStatuses
  <2>3. RunTypes'
    BY <1>0, <2>1, <2>2 DEF TypeOK, RunTypes
  <2>4. HandlerTypes'
    BY <1>0, <2>1 DEF TypeOK, HandlerTypes
  <2>5. LedgerTypes' /\ GuidanceTypes' /\ CountTypes'
    BY <1>0, <2>1 DEF TypeOK, LedgerTypes, GuidanceTypes, CountTypes
  <2>6. Placed'
    BY <1>0, <2>1 DEF Placed, TypeOK, RunTypes, HandlerTypes
  <2>7. QED
    BY <2>3, <2>4, <2>5, <2>6 DEF TypeInv, TypeOK
<1>34. CASE UNCHANGED vars
  <2>1. UNCHANGED <<tokens, limit, attempt, spent, job, run, rec, task, rep, lease, item,
        at, stray, up, closing, loop, flight, stopping, wake, wish, autos,
        requests, crashes>>
    BY <1>34 DEF vars, ledger, guidance, history
  <2>2. TypeOK'
    BY <1>0, <2>1 DEF TypeOK, LedgerTypes, RunTypes, GuidanceTypes, HandlerTypes, CountTypes
  <2>3. Placed'
    BY <1>0, <2>1 DEF Placed
  <2>4. QED
    BY <2>2, <2>3 DEF TypeInv
<1>35. QED
  BY <1>1, <1>2, <1>3, <1>4, <1>5, <1>6, <1>7, <1>8, <1>9, <1>10, <1>11,
     <1>12, <1>13, <1>14, <1>15, <1>16, <1>17, <1>18, <1>19, <1>20, <1>21,
     <1>22, <1>23, <1>24, <1>25, <1>26, <1>27, <1>28, <1>29, <1>30, <1>31,
     <1>32, <1>33, <1>34 DEF Next

(***************************************************************************)
(* The theorems on automatic recoveries and on pauses.                     *)
(*                                                                         *)
(* Each automatic start is paid for by a claim that was counted, and the   *)
(* claim of a recovery under way is void as soon as another run is         *)
(* attached; a job the user paused stays paused, with no handler about to  *)
(* continue it, until the user asks.                                       *)
(***************************************************************************)
Underway ==
    \/ loop.by = "auto" /\ loop.pc \in {"enter", "check", "transfer", "attach"}
    \/ flight["auto"] # Ground

AutoInv ==
    /\ autos <= job.auto /\ job.auto <= MaxCycles
    /\ job.claim /\ Underway => autos < job.auto /\ run[job.cur] # "running"
    /\ loop.pc = "register" => ~job.claim

WishInv ==
    wish => /\ job.paused # "no" /\ loop.pc \in {"free", "read"}
            /\ \A c \in Callers : flight[c] = Ground

RunStatuses == {"absent", "running", "cancelling", "waiting", "interrupted",
                "unknown", "failed", "completed", "cancelled"}

\* What most steps do: they count and claim nothing, and continue no run.
Quiet ==
    /\ job'.cur = job.cur /\ job'.auto = job.auto
    /\ job'.claim => job.claim
    /\ job.paused # "no" => job'.paused # "no"
    /\ autos' = autos /\ wish' = wish
    /\ loop' = loop \/ loop'.pc \in {"free", "read"}
    /\ flight' = flight \/ \A c \in Callers : flight'[c] = Ground
    /\ run'[job.cur] = "running" => run[job.cur] = "running"

Kept == job'.cur # job.cur => ~wish

LEMMA QuietKeeps ==
    ASSUME AutoInv, WishInv, Quiet
    PROVE  AutoInv' /\ WishInv' /\ Kept
<1>1. Underway' => Underway
  BY DEF Quiet, Underway, Callers
<1>2. AutoInv'
  BY <1>1 DEF Quiet, AutoInv
<1>3. WishInv'
  BY DEF Quiet, WishInv
<1>4. QED
  BY <1>2, <1>3 DEF Quiet, Kept

LEMMA HistoryInit == Init => AutoInv /\ WishInv
BY JobAssumption DEF Init, AutoInv, WishInv, Underway, NewJob, Free, Ground

LEMMA HistoryStep == TypeInv /\ AutoInv /\ WishInv /\ [Next]_vars => AutoInv' /\ WishInv' /\ Kept
<1> SUFFICES ASSUME TypeInv, AutoInv, WishInv, [Next]_vars PROVE AutoInv' /\ WishInv' /\ Kept
  OBVIOUS
<1>0. /\ job \in Jobs /\ loop \in Places /\ flight \in [Callers -> Flights]
      /\ autos \in Nat /\ run \in [Runs -> RunStatuses]
      /\ TypeOK /\ Placed /\ AutoInv /\ WishInv
  BY DEF TypeInv, TypeOK, RunTypes, HandlerTypes, CountTypes, RunStatuses
<1>1. ASSUME NEW a \in Attempts, Reserve(a) PROVE AutoInv' /\ WishInv' /\ Kept
  <2>9. Quiet
    BY <1>0, <1>1 DEF Quiet, Reserve, history
  <2>10. QED
    BY <2>9, QuietKeeps
<1>2. ASSUME NEW a \in Attempts, Settle(a) PROVE AutoInv' /\ WishInv' /\ Kept
  <2>9. Quiet
    BY <1>0, <1>2 DEF Quiet, Settle, history
  <2>10. QED
    BY <2>9, QuietKeeps
<1>3. ASSUME NEW i \in Items, NEW r \in Runs, Steer(i, r) PROVE AutoInv' /\ WishInv' /\ Kept
  <2>9. Quiet
    BY <1>0, <1>3 DEF Quiet, Steer, history
  <2>10. QED
    BY <2>9, QuietKeeps
<1>4. ASSUME NEW i \in Items, NEW r \in Runs, ClaimItem(i, r) PROVE AutoInv' /\ WishInv' /\ Kept
  <2>9. Quiet
    BY <1>0, <1>4 DEF Quiet, ClaimItem, history
  <2>10. QED
    BY <2>9, QuietKeeps
<1>5. ASSUME NEW r \in Runs, SettleTurn(r) PROVE AutoInv' /\ WishInv' /\ Kept
  <2>9. Quiet
    BY <1>0, <1>5 DEF Quiet, SettleTurn, history
  <2>10. QED
    BY <2>9, QuietKeeps
<1>6. ASSUME NEW r \in Runs, ProviderAnswers(r) PROVE AutoInv' /\ WishInv' /\ Kept
  <2>1. job'.cur = job.cur /\ job'.auto = 0 /\ job'.paused = job.paused /\ job'.claim = job.claim
    BY <1>0, <1>6, Zenon DEF ProviderAnswers, Settled, Jobs
  <2>2. autos' = 0 /\ UNCHANGED <<run, loop, flight, wish>>
    BY <1>6 DEF ProviderAnswers
  <2>3. ~(job.claim /\ Underway)
    BY <1>0, <1>6 DEF ProviderAnswers, AutoInv
  <2>4. AutoInv'
    BY <1>0, <2>1, <2>2, <2>3, JobAssumption DEF AutoInv, Underway
  <2>5. WishInv'
    BY <1>0, <2>1, <2>2 DEF WishInv
  <2>6. QED
    BY <2>1, <2>4, <2>5 DEF Kept
<1>7. ASSUME NEW r \in Runs, GiveUp(r) PROVE AutoInv' /\ WishInv' /\ Kept
  <2>9. Quiet
    BY <1>0, <1>7 DEF Quiet, GiveUp, history
  <2>10. QED
    BY <2>9, QuietKeeps
<1>8. ASSUME NEW r \in Runs, EndTask(r) PROVE AutoInv' /\ WishInv' /\ Kept
  <2>9. Quiet
    BY <1>0, <1>8 DEF Quiet, EndTask, history
  <2>10. QED
    BY <2>9, QuietKeeps
<1>9. ASSUME NEW r \in Runs, NEW s \in {"completed", "failed", "waiting"}, Finish(r, s) PROVE AutoInv' /\ WishInv' /\ Kept
  <2>1. Keeps(job, Updated(job, r, s))
    BY <1>0, UpdatedKeeps DEF JobStatuses
  <2>9. Quiet
    BY <1>0, <1>9, <2>1 DEF Quiet, Finish, Keeps, history
  <2>10. QED
    BY <2>9, QuietKeeps
<1>10. ASSUME PauseRead PROVE AutoInv' /\ WishInv' /\ Kept
  <2>9. Quiet
    BY <1>0, <1>10 DEF Quiet, PauseRead, Request, Reads, history
  <2>10. QED
    BY <2>9, QuietKeeps
<1>11. ASSUME PauseSave PROVE AutoInv' /\ WishInv' /\ Kept
  <2> DEFINE paused == [job EXCEPT !.paused = loop.by, !.status = "paused"]
  <2>1. loop.by \in {"user", "shutdown"} /\ loop' = Free /\ UNCHANGED <<flight, autos>>
    BY <1>11 DEF PauseSave
  <2>2. paused \in Jobs /\ Keeps(job, paused) /\ paused.paused # "no"
    BY <1>0, <2>1 DEF Jobs, JobStatuses, Keeps
  <2>3. job' = paused \/ job' = Updated(paused, loop.src, "interrupted")
    BY <1>11 DEF PauseSave
  <2> HIDE DEF paused
  <2>4. Keeps(paused, Updated(paused, loop.src, "interrupted"))
    BY <2>2, UpdatedKeeps DEF JobStatuses
  <2>5. Keeps(job, job') /\ job'.paused # "no"
    BY <2>2, <2>3, <2>4 DEF Keeps
  <2>6. run'[job.cur] = "running" => run[job.cur] = "running"
    <3>1. run' = run \/ run' = [run EXCEPT ![loop.src] = "cancelling"]
      BY <1>11 DEF PauseSave
    <3>2. job.cur \in Runs
      BY <1>0 DEF Jobs
    <3>3. QED
      BY <1>0, <3>1, <3>2
  <2>7. AutoInv'
    BY <1>0, <2>1, <2>5, <2>6 DEF AutoInv, Underway, Keeps, Free
  <2>8. wish' => \A c \in Callers : flight[c] = Ground
    BY <1>0, <1>11 DEF PauseSave, WishInv
  <2>9. WishInv'
    BY <2>1, <2>5, <2>8 DEF WishInv, Free
  <2>10. QED
    BY <2>5, <2>7, <2>9 DEF Kept, Keeps
<1>12. ASSUME NEW r \in Runs, Cancel(r) PROVE AutoInv' /\ WishInv' /\ Kept
  <2>1. Keeps(job, Updated(job, r, "cancelling"))
    BY <1>0, UpdatedKeeps DEF JobStatuses
  <2>9. Quiet
    BY <1>0, <1>12, <2>1 DEF Quiet, Cancel, Keeps, history
  <2>10. QED
    BY <2>9, QuietKeeps
<1>13. ASSUME NEW clean \in BOOLEAN, Stopped(clean) PROVE AutoInv' /\ WishInv' /\ Kept
  <2>1. \A s \in {"unknown", "cancelled", "interrupted"} : Keeps(job, Updated(job, stopping.run, s))
    BY <1>0, UpdatedKeeps DEF JobStatuses
  <2>2. Keeps(job, job')
    BY <1>13, <2>1 DEF Stopped
  <2>3. run'[job.cur] = "running" => run[job.cur] = "running"
    BY <1>0, <1>13 DEF Stopped
  <2>9. Quiet
    BY <1>0, <1>13, <2>2, <2>3 DEF Quiet, Stopped, Keeps, history
  <2>10. QED
    BY <2>9, QuietKeeps
<1>14. ASSUME Close PROVE AutoInv' /\ WishInv' /\ Kept
  <2>9. Quiet
    BY <1>0, <1>14 DEF Quiet, Close, Reads, history
  <2>10. QED
    BY <2>9, QuietKeeps
<1>15. ASSUME Exit PROVE AutoInv' /\ WishInv' /\ Kept
  <2>9. Quiet
    BY <1>0, <1>15 DEF Quiet, Exit, Down, Free, history
  <2>10. QED
    BY <2>9, QuietKeeps
<1>16. ASSUME ResumeRead PROVE AutoInv' /\ WishInv' /\ Kept
  <2>9. Quiet
    BY <1>0, <1>16 DEF Quiet, ResumeRead, Request, Reads, history
  <2>10. QED
    BY <2>9, QuietKeeps
<1>17. ASSUME ResumeSave PROVE AutoInv' /\ WishInv' /\ Kept
  <2>1. Keeps([job EXCEPT !.paused = "no"], job') /\ job'.cur = job.cur /\ job'.auto = job.auto /\ job'.claim = job.claim
    BY <1>0, <1>17 DEF ResumeSave, Jobs, Keeps
  <2>2. loop' = [loop EXCEPT !.pc = "enter"] /\ loop.by = "resume" /\ ~wish' /\ UNCHANGED <<run, flight, autos>>
    BY <1>17 DEF ResumeSave
  <2>3. Underway' => Underway
    BY <1>0, <2>2 DEF Underway, Places
  <2>4. AutoInv'
    BY <1>0, <2>1, <2>2, <2>3 DEF AutoInv, Places
  <2>5. QED
    BY <2>1, <2>2, <2>4 DEF WishInv, Kept
<1>18. ASSUME NEW r \in Runs, Retry(r) PROVE AutoInv' /\ WishInv' /\ Kept
  <2>1. loop' = [pc |-> "enter", by |-> "retry", src |-> r, tokens |-> 0] /\ ~wish' /\ UNCHANGED <<job, run, flight, autos>>
    BY <1>18 DEF Retry
  <2>2. Underway' => Underway
    BY <2>1 DEF Underway
  <2>3. AutoInv'
    BY <1>0, <2>1, <2>2 DEF AutoInv
  <2>4. QED
    BY <2>1, <2>3 DEF WishInv, Kept
<1>19. ASSUME Enter PROVE AutoInv' /\ WishInv' /\ Kept
  <2>0. ~wish
    BY <1>0, <1>19 DEF WishInv, Enter
  <2>1. \/ Refused(job) /\ UNCHANGED <<autos, flight>>
        \/ loop' = Free /\ UNCHANGED <<job, autos, flight>>
        \/ /\ loop' = Free /\ \E w \in {"lock", "task"} : flight' = [flight EXCEPT ![loop.by] = [at |-> w, src |-> loop.src]]
           /\ Begins
        \/ loop' = [loop EXCEPT !.pc = "check"] /\ UNCHANGED flight /\ Begins
    BY <1>19 DEF Enter, Begins
  <2>2. loop.pc = "enter" /\ UNCHANGED <<run, wish>>
    BY <1>19 DEF Enter
  <2>3. CASE Refused(job) /\ UNCHANGED <<autos, flight>>
    <3>1. Quiet
      BY <1>0, <2>2, <2>3, RefusedKeeps DEF Quiet, Keeps, Free
    <3>2. QED
      BY <1>0, <3>1, QuietKeeps
  <2>4. CASE loop' = Free /\ UNCHANGED <<job, autos, flight>>
    <3>1. Quiet
      BY <1>0, <2>2, <2>4 DEF Quiet, Free
    <3>2. QED
      BY <1>0, <3>1, QuietKeeps
  <2>5. ASSUME Begins, Underway' => Underway, loop'.pc # "register" PROVE AutoInv'
    <3>1. CASE UNCHANGED <<job, autos>>
      BY <1>0, <2>2, <2>5, <3>1 DEF AutoInv
    <3>2. CASE ~UNCHANGED <<job, autos>>
      <4>1. job'.auto = 0 /\ ~job'.claim /\ autos' = 0
        BY <1>0, <2>5, <3>2 DEF Begins, Jobs
      <4>2. QED
        BY <2>5, <4>1, JobAssumption DEF AutoInv
    <3>3. QED
      BY <3>1, <3>2
  <2>6. CASE /\ loop' = Free /\ \E w \in {"lock", "task"} : flight' = [flight EXCEPT ![loop.by] = [at |-> w, src |-> loop.src]]
             /\ Begins
    <3>1. Underway' => Underway
      BY <1>0, <2>2, <2>6 DEF Underway, Free
    <3>2. loop'.pc # "register"
      BY <2>6 DEF Free
    <3>3. QED
      BY <2>0, <2>2, <2>5, <2>6, <3>1, <3>2 DEF WishInv, Kept
  <2>7. CASE loop' = [loop EXCEPT !.pc = "check"] /\ UNCHANGED flight /\ Begins
    <3>1. (Underway' => Underway) /\ loop'.pc # "register"
      BY <1>0, <2>2, <2>7 DEF Underway, Places
    <3>2. QED
      BY <2>0, <2>2, <2>5, <2>7, <3>1 DEF WishInv, Kept
  <2>8. QED
    BY <2>1, <2>3, <2>4, <2>6, <2>7
<1>20. ASSUME NEW c \in Callers, GoOn(c) PROVE AutoInv' /\ WishInv' /\ Kept
  <2>0. ~wish
    BY <1>0, <1>20 DEF WishInv, GoOn
  <2>1. /\ flight[c] # Ground
        /\ loop' = [pc |-> IF flight[c].at = "lock" THEN "enter" ELSE "check", by |-> c, src |-> flight[c].src, tokens |-> 0]
        /\ flight' = [flight EXCEPT ![c] = Ground] /\ UNCHANGED <<job, run, autos, wish>>
    BY <1>20 DEF GoOn, history
  <2>2. (Underway' => Underway) /\ loop'.pc # "register"
    BY <1>0, <2>1 DEF Underway, Callers
  <2>3. AutoInv'
    BY <1>0, <2>1, <2>2 DEF AutoInv
  <2>4. QED
    BY <2>0, <2>1, <2>3 DEF WishInv, Kept
<1>21. ASSUME Check PROVE AutoInv' /\ WishInv' /\ Kept
  <2>0. ~wish
    BY <1>0, <1>21 DEF WishInv, Check
  <2>1. loop.pc = "check" /\ UNCHANGED <<run, autos, wish, flight>>
    BY <1>21 DEF Check, history
  <2>2. \/ loop' = Free /\ UNCHANGED job
        \/ Refused(job)
        \/ loop' = [loop EXCEPT !.pc = "transfer"] /\ UNCHANGED job
    BY <1>21 DEF Check
  <2>3. CASE loop' = Free /\ UNCHANGED job
    <3>1. Quiet
      BY <1>0, <2>1, <2>3 DEF Quiet, Free
    <3>2. QED
      BY <1>0, <3>1, QuietKeeps
  <2>4. CASE Refused(job)
    <3>1. Quiet
      BY <1>0, <2>1, <2>4, RefusedKeeps DEF Quiet, Keeps, Free
    <3>2. QED
      BY <1>0, <3>1, QuietKeeps
  <2>5. CASE loop' = [loop EXCEPT !.pc = "transfer"] /\ UNCHANGED job
    <3>1. (Underway' => Underway) /\ loop'.pc # "register"
      BY <1>0, <2>1, <2>5 DEF Underway, Places
    <3>2. AutoInv'
      BY <1>0, <2>1, <2>5, <3>1 DEF AutoInv
    <3>3. QED
      BY <2>0, <2>1, <3>2 DEF WishInv, Kept
  <2>6. QED
    BY <2>2, <2>3, <2>4, <2>5
<1>22. ASSUME Transfer PROVE AutoInv' /\ WishInv' /\ Kept
  <2>0. ~wish
    BY <1>0, <1>22 DEF WishInv, Transfer
  <2>1. loop.pc = "transfer" /\ loop' = [loop EXCEPT !.pc = "attach"] /\ UNCHANGED <<job, run, autos, wish, flight>>
    BY <1>22 DEF Transfer, history
  <2>2. (Underway' => Underway) /\ loop'.pc # "register"
    BY <1>0, <2>1 DEF Underway, Places
  <2>3. AutoInv'
    BY <1>0, <2>1, <2>2 DEF AutoInv
  <2>4. QED
    BY <2>0, <2>1, <2>3 DEF WishInv, Kept
<1>23. ASSUME Attach PROVE AutoInv' /\ WishInv' /\ Kept
  <2>0. ~wish
    BY <1>0, <1>23 DEF WishInv, Attach
  <2>1. loop.pc = "attach" /\ UNCHANGED <<run, wish, flight>>
    BY <1>23 DEF Attach
  <2>2. \/ /\ job' = Attached(job, rep[loop.src]) /\ loop' = [loop EXCEPT !.pc = "register"]
           /\ autos' = IF loop.by = "auto" /\ job.claim THEN autos + 1 ELSE autos
        \/ Refused(Updated(job, loop.src, run[loop.src])) /\ UNCHANGED autos
    BY <1>23 DEF Attach
  <2>3. CASE /\ job' = Attached(job, rep[loop.src]) /\ loop' = [loop EXCEPT !.pc = "register"]
             /\ autos' = IF loop.by = "auto" /\ job.claim THEN autos + 1 ELSE autos
    <3>1. job'.auto = job.auto /\ ~job'.claim
      BY <1>0, <2>3 DEF Attached, Jobs
    <3>2. loop.by = "auto" /\ job.claim => autos < job.auto
      BY <1>0, <2>1 DEF AutoInv, Underway
    <3>3. autos' <= job.auto
      BY <1>0, <2>3, <3>2 DEF AutoInv, Jobs
    <3>4. AutoInv'
      BY <1>0, <3>1, <3>3 DEF AutoInv
    <3>5. QED
      BY <2>0, <2>1, <3>4 DEF WishInv, Kept
  <2>4. CASE Refused(Updated(job, loop.src, run[loop.src])) /\ UNCHANGED autos
    <3>1. loop.src \in Runs /\ run[loop.src] # "absent"
      BY <1>0, <2>1 DEF Placed
    <3>2. run[loop.src] \in JobStatuses
      BY <1>0, <3>1 DEF TypeOK, RunTypes, JobStatuses
    <3> DEFINE updated == Updated(job, loop.src, run[loop.src])
    <3>3. Keeps(job, updated)
      BY <1>0, <3>2, UpdatedKeeps
    <3>4. Refused(updated)
      BY <2>4
    <3> HIDE DEF updated
    <3>5. Keeps(updated, job') /\ loop' = Free
      BY <3>3, <3>4, RefusedKeeps DEF Keeps
    <3>6. Quiet
      BY <2>1, <2>4, <3>3, <3>5 DEF Quiet, Keeps, Free
    <3>7. QED
      BY <1>0, <3>6, QuietKeeps
  <2>5. QED
    BY <2>2, <2>3, <2>4
<1>24. ASSUME Register PROVE AutoInv' /\ WishInv' /\ Kept
  <2>0. ~wish
    BY <1>0, <1>24 DEF WishInv, Register
  <2>1. loop.pc = "register" /\ loop' = [loop EXCEPT !.pc = "complete"] /\ UNCHANGED <<autos, wish, flight>>
    BY <1>24 DEF Register, history
  <2>2. Keeps(job, job')
    BY <1>0, <1>24, UpdatedKeeps DEF Register, JobStatuses
  <2>3. ~job.claim
    BY <1>0, <2>1 DEF AutoInv
  <2>4. loop'.pc = "complete"
    BY <1>0, <2>1 DEF Places
  <2>5. AutoInv'
    BY <1>0, <2>1, <2>2, <2>3, <2>4 DEF AutoInv, Keeps
  <2>6. QED
    BY <2>0, <2>1, <2>5 DEF WishInv, Kept
<1>25. ASSUME Complete PROVE AutoInv' /\ WishInv' /\ Kept
  <2>9. Quiet
    BY <1>0, <1>25 DEF Quiet, Complete, Free, history
  <2>10. QED
    BY <2>9, QuietKeeps
<1>26. ASSUME Recover PROVE AutoInv' /\ WishInv' /\ Kept
  <2>1. UNCHANGED <<run, autos, wish, flight>>
    BY <1>26 DEF Recover, history
  <2>2. CASE loop' = loop
    <3>1. \/ job' = job
          \/ job' = [job EXCEPT !.status = "paused", !.paused = "budget", !.block = "budget"]
          \/ job' = [job EXCEPT !.block = Outage(job)]
          \/ job' = [job EXCEPT !.status = "blocked", !.block = "limit"]
          \/ job' = [job EXCEPT !.status = "blocked", !.block = "refused"]
          \/ loop.pc = "free" /\ loop'.pc = "enter"
      BY <1>26 DEF Recover
    <3>2. Quiet
      BY <1>0, <2>1, <2>2, <3>1 DEF Quiet, Jobs
    <3>3. QED
      BY <1>0, <3>2, QuietKeeps
  <2>3. CASE loop' # loop
    <3>1. /\ job' = Claimed(job) /\ Claimable /\ job.auto < MaxCycles
          /\ run[job.cur] \in {"interrupted", "waiting"}
          /\ loop'.pc = "enter"
      BY <1>0, <1>26, <2>3, JobAssumption DEF Recover, Jobs
    <3>2. job'.cur = job.cur /\ job'.auto = job.auto + 1
      BY <1>0, <3>1 DEF Claimed, Jobs
    <3>3. AutoInv'
      BY <1>0, <2>1, <3>1, <3>2, JobAssumption DEF AutoInv, Jobs
    <3>4. ~wish
      BY <1>0, <3>1 DEF WishInv, Claimable
    <3>5. QED
      BY <2>1, <3>3, <3>4 DEF WishInv, Kept
  <2>4. QED
    BY <2>2, <2>3
<1>27. ASSUME Extend PROVE AutoInv' /\ WishInv' /\ Kept
  <2>1. job'.cur = job.cur /\ job'.auto = job.auto /\ job'.claim = job.claim
    BY <1>0, <1>27 DEF Extend, Jobs
  <2>2. ~wish' /\ UNCHANGED <<run, loop, flight, autos>>
    BY <1>27 DEF Extend
  <2>3. AutoInv'
    BY <1>0, <2>1, <2>2 DEF AutoInv, Underway
  <2>4. QED
    BY <2>1, <2>2, <2>3 DEF WishInv, Kept
<1>28. ASSUME DueArrives PROVE AutoInv' /\ WishInv' /\ Kept
  <2>9. Quiet
    BY <1>0, <1>28 DEF Quiet, DueArrives, history, Jobs
  <2>10. QED
    BY <2>9, QuietKeeps
<1>29. ASSUME WindowCloses PROVE AutoInv' /\ WishInv' /\ Kept
  <2>9. Quiet
    BY <1>0, <1>29 DEF Quiet, WindowCloses, history, Jobs
  <2>10. QED
    BY <2>9, QuietKeeps
<1>30. ASSUME ClaimExpires PROVE AutoInv' /\ WishInv' /\ Kept
  <2>9. Quiet
    BY <1>0, <1>30 DEF Quiet, ClaimExpires, history, Jobs
  <2>10. QED
    BY <2>9, QuietKeeps
<1>31. ASSUME LeaseExpires PROVE AutoInv' /\ WishInv' /\ Kept
  <2>9. Quiet
    BY <1>0, <1>31 DEF Quiet, LeaseExpires, history
  <2>10. QED
    BY <2>9, QuietKeeps
<1>32. ASSUME Crash PROVE AutoInv' /\ WishInv' /\ Kept
  <2>9. Quiet
    BY <1>0, <1>32 DEF Quiet, Crash, Down, Free, history
  <2>10. QED
    BY <2>9, QuietKeeps
<1>33. ASSUME Boot PROVE AutoInv' /\ WishInv' /\ Kept
  <2>1. Keeps(job, Updated(job, job.cur, "interrupted"))
    BY <1>0, UpdatedKeeps DEF JobStatuses
  <2>2. run'[job.cur] = "running" => run[job.cur] = "running"
    BY <1>0, <1>33 DEF Boot, Jobs
  <2>9. Quiet
    BY <1>0, <1>33, <2>1, <2>2 DEF Quiet, Boot, Keeps, history
  <2>10. QED
    BY <2>9, QuietKeeps
<1>34. CASE UNCHANGED vars
  <2>9. Quiet
    BY <1>0, <1>34 DEF Quiet, vars, history
  <2>10. QED
    BY <2>9, QuietKeeps
<1>35. QED
  BY <1>1, <1>2, <1>3, <1>4, <1>5, <1>6, <1>7, <1>8, <1>9, <1>10, <1>11,
     <1>12, <1>13, <1>14, <1>15, <1>16, <1>17, <1>18, <1>19, <1>20, <1>21,
     <1>22, <1>23, <1>24, <1>25, <1>26, <1>27, <1>28, <1>29, <1>30, <1>31,
     <1>32, <1>33, <1>34 DEF Next

----------------------------------------------------------------------------

LEMMA Invariants == Spec => [](TypeInv /\ AutoInv /\ WishInv)
<1>1. Init => TypeInv /\ AutoInv /\ WishInv
  BY TypeInit, HistoryInit
<1>2. TypeInv /\ AutoInv /\ WishInv /\ [Next]_vars => TypeInv' /\ AutoInv' /\ WishInv'
  BY TypeStep, HistoryStep
<1>3. QED
  BY <1>1, <1>2, PTL DEF Spec

\* In every state the rows and the handlers have the values the code gives them.
THEOREM TypeCorrect == Spec => []TypeOK
<1>1. TypeInv => TypeOK
  BY DEF TypeInv
<1>2. QED
  BY Invariants, <1>1, PTL

\* No number of outages, restarts and calls of the user lets the backend start a job
\* by itself more often than MAX_RECOVERY_CYCLES since it was last reset (jobs.py:
\* claim_recovery, attach; orchestrator.py: recover_jobs).
THEOREM RecoveriesAreBounded == Spec => []AutoBounded
<1>1. TypeInv /\ AutoInv => AutoBounded
  BY JobAssumption DEF TypeInv, TypeOK, RunTypes, CountTypes, Jobs, AutoInv, AutoBounded
<1>2. QED
  BY Invariants, <1>1, PTL

\* A job the user paused goes on with another run only once the user asks (jobs.py:
\* update_run, claim_recovery; orchestrator.py: pause_job, recover_jobs).
THEOREM PausesAreKept == Spec => PauseKept
<1>1. TypeInv /\ AutoInv /\ WishInv /\ [Next]_vars => [job'.cur # job.cur => ~wish]_vars
  BY HistoryStep DEF Kept
<1>2. QED
  BY Invariants, <1>1, PTL DEF Spec, PauseKept

=============================================================================

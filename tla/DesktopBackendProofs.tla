------------------------ MODULE DesktopBackendProofs ------------------------
(***************************************************************************)
(* Theorems about DesktopBackend, for any number of processes, restarts,   *)
(* builds, contents and other programs on the port.                           *)
(*                                                                         *)
(* The supervisor's part: a living backend nobody asked to end is the one  *)
(* the manager knows, restarts are bounded, a backend is judged by its own *)
(* answers.  The builds' part: executed once, and, while no two backends   *)
(* share the database, answered for and never taken back.                  *)
(***************************************************************************)
EXTENDS DesktopBackend, TLAPS

----------------------------------------------------------------------------
(* The steps, as the invariants see them *)

\* A process goes on, or another program comes or goes: the manager sees nothing.
Lives == {"loaded", "up", "deaf", "drain", "dead"}
World ==
    /\ \/ \E c \in Children, s \in Lives :
            Alive(c) /\ child' = [child EXCEPT ![c] = s] /\ UNCHANGED <<other, others>>
       \/ /\ UNCHANGED child
          /\ other' \in {"none", "forgex", "foreign"} /\ others' \in {others, others + 1}
    /\ UNCHANGED <<supervisor, noticed, signalled, history>>

LEMMA WorldSteps ==
    /\ \A c \in Children : Loads(c) \/ Listen(c) \/ Deafens(c) \/ Drains(c) \/ Dies(c) => World
    /\ OtherComes \/ OtherGoes => World
<1>1. ASSUME NEW c \in Children, Loads(c) \/ Listen(c) \/ Deafens(c) \/ Drains(c) \/ Dies(c)
      PROVE  World
  <2>1. CASE Loads(c)
    BY <2>1 DEF Loads, World, Lives, Alive, Same
  <2>2. CASE Listen(c)
    BY <2>2 DEF Listen, World, Lives, Alive, Same
  <2>3. CASE Deafens(c)
    BY <2>3 DEF Deafens, World, Lives, Alive, Same
  <2>4. CASE Drains(c)
    BY <2>4 DEF Drains, Listening, World, Lives, Alive, Same
  <2>5. CASE Dies(c)
    BY <2>5 DEF Dies, World, Lives, Alive, Same
  <2>6. QED
    BY <1>1, <2>1, <2>2, <2>3, <2>4, <2>5
<1>2. CASE OtherComes
  BY <1>2 DEF OtherComes, World, Same
<1>3. CASE OtherGoes
  BY <1>3 DEF OtherGoes, World, Same
<1>4. QED
  BY <1>1, <1>2, <1>3

\* Every step of the whole, for the supervisor.
Manager ==
    \/ UNCHANGED vars \/ World
    \/ TimerFires \/ StartAnswer \/ StartReuses \/ StartFailsToSpawn \/ StartSpawns
    \/ WaitAnswered \/ \E late \in BOOLEAN : WaitLoops(late) \/ StartKilled(late)
    \/ \E c \in Children : ExitEvent(c)
    \/ HealthTick \/ HealthAnswer \/ HealthAnswered \/ \E late \in BOOLEAN : HealthKilled(late)
    \/ Stop \/ \E late \in BOOLEAN : StopKilled(late)

LEMMA ManagerSteps == [DesktopNext]_allVars => Manager
<1>1. CASE UNCHANGED allVars
  BY <1>1 DEF allVars, Manager
<1>2. ASSUME NEW c \in Children, Loading(c) \/ Dying(c) PROVE Manager
  BY <1>2, WorldSteps DEF Loading, Dying, Manager
<1>3. ASSUME NEW c \in Children, Closing(c) PROVE Manager
  BY <1>3 DEF Closing, OnlyBuilds, B!Close, Manager, vars, world
<1>4. ASSUME NEW c \in Children, NEW b \in Builds, Building(b, c) PROVE Manager
  BY <1>4 DEF Building, OnlyBuilds, B!BuildStep, B!Accept, B!Wait, B!Begin, B!Collect,
              B!FailToCollect, B!Unwind, B!Observe, Manager, vars, world
<1>5. CASE Editing
  BY <1>5 DEF Editing, OnlyBuilds, B!Edit, Manager, vars, world
<1>6. CASE Supervising
  <2>1. CASE PortStep
    BY <2>1, WorldSteps DEF PortStep, Manager
  <2>2. CASE Supervising /\ ~PortStep
    BY <2>2 DEF Supervising, HealthStep, StartStep, Manager
  <2>3. QED
    BY <1>6, <2>1, <2>2
<1>7. QED
  BY <1>1, <1>2, <1>3, <1>4, <1>5, <1>6 DEF DesktopNext

\* The restart timer is set, with what it costs, or left.
LEMMA Scheduling ==
    ASSUME timer \in BOOLEAN, used \in 0 .. Delays, healthOn \in BOOLEAN, lapses \in Nat,
           Schedules \/ NoSchedule
    PROVE  /\ timer' \in BOOLEAN /\ used' \in 0 .. Delays /\ healthOn' \in BOOLEAN
           /\ lapses' \in Nat
           /\ used' + lapses' >= used + lapses
           /\ timer' /\ ~timer => used' + lapses' >= used + lapses + 1
<1>1. CASE NoSchedule
  BY <1>1 DEF NoSchedule
<1>2. CASE Schedules /\ (Stopping \/ timer)
  BY <1>2 DEF Schedules
<1>3. CASE Schedules /\ ~(Stopping \/ timer)
  <2>1. PICK old \in 0 .. MaxLapses - lapses :
         /\ old <= used /\ lapses' = lapses + old
         /\ healthOn' = FALSE
         /\ IF Exhausted(used - old)
            THEN timer' = FALSE /\ used' = used - old
            ELSE timer' = TRUE /\ used' = NextDelay(used - old)
    BY <1>3 DEF Schedules
  <2>2. old \in Nat /\ used - old \in 0 .. Delays
    BY <2>1, SupervisorAssumption
  <2>3. CASE Exhausted(used - old)
    <3>1. ~timer' /\ used' = used - old /\ lapses' = lapses + old
      BY <2>1, <2>3
    <3>2. used' \in 0 .. Delays /\ lapses' \in Nat /\ used' + lapses' >= used + lapses
      BY <3>1, <2>2
    <3>3. timer' \in BOOLEAN /\ healthOn' \in BOOLEAN
      BY <2>1, <2>3
    <3>4. QED
      BY <3>1, <3>2, <3>3
  <2>4. CASE ~Exhausted(used - old)
    <3>1. used' = used - old + 1 /\ lapses' = lapses + old /\ ~(used - old >= Delays)
      BY <2>1, <2>4 DEF Exhausted, NextDelay
    <3>2. used' \in 0 .. Delays /\ lapses' \in Nat /\ used' + lapses' >= used + lapses + 1
      BY <3>1, <2>2, SupervisorAssumption
    <3>3. used' + lapses' >= used + lapses
      BY <3>1, <2>2, SupervisorAssumption
    <3>4. timer' \in BOOLEAN /\ healthOn' \in BOOLEAN
      BY <2>1, <2>4
    <3>5. QED
      BY <3>2, <3>3, <3>4
  <2>5. QED
    BY <2>3, <2>4
<1>4. QED
  BY <1>1, <1>2, <1>3

----------------------------------------------------------------------------
(* Type correctness of the supervisor *)

\* The health supervisor never counts beyond two: it starts anew with each process.
Failing == failures = 2 => (process = 0 \/ state # "ready") /\ check.pc # "probe"
TypeInv == TypeOK /\ Failing

StartCalls == [pc : {"none", "probe", "wait", "delay", "kill"},
               answer : Answers \cup {"none"}, kid : 0 .. MaxSpawns, timed : BOOLEAN]

LEMMA StartCallTypes ==
    ASSUME starting \in StartCalls, process \in 0 .. MaxSpawns
    PROVE  /\ Idle \in StartCalls
           /\ [Idle EXCEPT !.pc = "probe"] \in StartCalls
           /\ [Idle EXCEPT !.pc = "probe", !.timed = TRUE] \in StartCalls
           /\ [starting EXCEPT !.timed = TRUE] \in StartCalls
           /\ \A a \in Answers : [starting EXCEPT !.answer = a] \in StartCalls
           /\ [starting EXCEPT !.pc = "wait"] \in StartCalls
           /\ [starting EXCEPT !.pc = "wait", !.answer = "none"] \in StartCalls
           /\ [starting EXCEPT !.pc = "delay", !.answer = "none"] \in StartCalls
           /\ [starting EXCEPT !.pc = "kill", !.kid = process, !.answer = "none"] \in StartCalls
<1>1. 0 \in 0 .. MaxSpawns
  BY SupervisorAssumption
<1>2. Idle \in StartCalls
  BY <1>1 DEF StartCalls, Idle
<1>3. ASSUME NEW call \in StartCalls
      PROVE  /\ \A p \in {"none", "probe", "wait", "delay", "kill"} : [call EXCEPT !.pc = p] \in StartCalls
             /\ \A a \in Answers \cup {"none"} : [call EXCEPT !.answer = a] \in StartCalls
             /\ [call EXCEPT !.kid = process] \in StartCalls
             /\ [call EXCEPT !.timed = TRUE] \in StartCalls
  BY DEF StartCalls
<1>4. /\ [Idle EXCEPT !.pc = "probe"] \in StartCalls
      /\ [Idle EXCEPT !.pc = "probe", !.timed = TRUE] \in StartCalls
  <2>1. [Idle EXCEPT !.pc = "probe"] \in StartCalls
    BY <1>2, <1>3
  <2>2. [[Idle EXCEPT !.pc = "probe"] EXCEPT !.timed = TRUE] \in StartCalls
    BY <2>1, <1>3
  <2>3. QED
    BY <2>1, <2>2
<1>5. /\ [starting EXCEPT !.pc = "wait", !.answer = "none"] \in StartCalls
      /\ [starting EXCEPT !.pc = "delay", !.answer = "none"] \in StartCalls
      /\ [starting EXCEPT !.pc = "kill", !.kid = process, !.answer = "none"] \in StartCalls
  BY DEF StartCalls
<1>6. QED
  BY <1>2, <1>3, <1>4, <1>5

LEMMA TerminatesTypes ==
    ASSUME process \in 0 .. MaxSpawns, signalled \subseteq Children, Terminates
    PROVE  process' = 0 /\ signalled' \subseteq Children
BY SupervisorAssumption DEF Terminates, Children

LEMMA FailsTypes ==
    ASSUME timer \in BOOLEAN, used \in 0 .. Delays, healthOn \in BOOLEAN, lapses \in Nat, Fails
    PROVE  /\ timer' \in BOOLEAN /\ used' \in 0 .. Delays /\ healthOn' \in BOOLEAN
           /\ lapses' \in Nat /\ starting' = Idle
<1>1. starting' = Idle /\ (Schedules \/ NoSchedule)
  BY DEF Fails
<1>2. QED
  BY <1>1, Scheduling

LEMMA NoScheduleTypes ==
    ASSUME timer \in BOOLEAN, used \in 0 .. Delays, healthOn \in BOOLEAN, lapses \in Nat, NoSchedule
    PROVE  /\ timer' \in BOOLEAN /\ used' \in 0 .. Delays /\ healthOn' \in BOOLEAN /\ lapses' \in Nat
BY DEF NoSchedule

\* waitForReady throws.
LEMMA UnreadyTypes ==
    ASSUME TypeOK, Unready
    PROVE  /\ process' = 0 /\ signalled' \subseteq Children
           /\ starting' \in StartCalls /\ timer' \in BOOLEAN /\ used' \in 0 .. Delays
           /\ healthOn' \in BOOLEAN /\ lapses' \in Nat
           /\ process = 0 => state' = "crashed"
<1>1. process' = 0 /\ signalled' \subseteq Children
  BY TerminatesTypes DEF Unready, TypeOK
<1>2. CASE process = 0
  <2>1. state' = "crashed" /\ Fails
    BY <1>2 DEF Unready
  <2>2. QED
    BY <1>1, <2>1, FailsTypes, StartCallTypes DEF TypeOK, StartCalls
<1>3. CASE process # 0
  <2>1. /\ starting' = [starting EXCEPT !.pc = "kill", !.kid = process, !.answer = "none"]
        /\ NoSchedule
    BY <1>3 DEF Unready
  <2>2. starting' \in StartCalls
    BY <2>1, StartCallTypes DEF TypeOK, StartCalls
  <2>3. QED
    BY <1>1, <1>3, <2>1, <2>2, NoScheduleTypes DEF TypeOK
<1>4. QED
  BY <1>2, <1>3

LEMMA TypeInit == Init => TypeInv
<1> SUFFICES ASSUME Init PROVE TypeInv
  OBVIOUS
<1>1. 0 \in 0 .. MaxSpawns /\ 0 \in 0 .. Delays /\ 0 \in Nat /\ 0 \in 0 .. 2
  BY SupervisorAssumption
<1>2. starting \in StartCalls
  BY <1>1 DEF Init, Idle, StartCalls
<1>3. /\ check \in [pc : {"none", "probe", "kill"}, answer : Answers \cup {"none"}, kid : 0 .. MaxSpawns]
      /\ quitting \in [pc : {"no", "kill", "gone"}, kid : 0 .. MaxSpawns]
  BY <1>1 DEF Init, NoCheck
<1>4. /\ child \in [Children -> {"none", "boot", "loaded", "up", "deaf", "drain", "dead"}]
      /\ bad \in [Children -> Nat] /\ signalled \subseteq Children /\ noticed \subseteq Children
  BY <1>1 DEF Init
<1>5. TypeOK
  BY <1>1, <1>2, <1>3, <1>4 DEF Init, TypeOK, StartCalls
<1>6. failures # 2
  BY DEF Init
<1>7. QED
  BY <1>5, <1>6 DEF TypeInv, Failing

LEMMA TypeStep == TypeInv /\ Manager => TypeInv'
<1> SUFFICES ASSUME TypeInv, Manager PROVE TypeInv'
  OBVIOUS
<1> USE SupervisorAssumption DEF TypeInv, Failing
<1>1. CASE UNCHANGED vars
  BY <1>1 DEF TypeOK, vars, supervisor, world, history
<1>2. CASE World
  BY <1>2 DEF TypeOK, World, Lives, supervisor, history
<1>3. CASE TimerFires
  <2>1. starting \in StartCalls /\ process \in 0 .. MaxSpawns
    BY DEF TypeOK, StartCalls
  <2>2. \/ starting' = starting \/ starting' = [Idle EXCEPT !.pc = "probe", !.timed = TRUE]
        \/ starting' = [starting EXCEPT !.timed = TRUE]
    BY <1>3 DEF TimerFires
  <2>3. starting' \in StartCalls
    BY <2>1, <2>2, StartCallTypes
  <2>4. /\ timer' = FALSE /\ restarts' = restarts + 1
        /\ UNCHANGED <<state, process, quitting, used, healthOn, check, failures, world,
                       signalled, bad, lapses>>
    BY <1>3 DEF TimerFires
  <2>5. restarts' \in Nat
    BY <2>4 DEF TypeOK
  <2>6. timer' \in BOOLEAN
    BY <2>4
  <2>7. QED
    BY <2>3, <2>4, <2>5, <2>6 DEF TypeOK, StartCalls, world
<1>4. CASE StartAnswer
  <2>1. starting' \in StartCalls
    BY <1>4, StartCallTypes DEF StartAnswer, Answered, Answers, TypeOK, StartCalls
  <2>2. QED
    BY <1>4, <2>1 DEF StartAnswer, TypeOK, StartCalls, world, history
<1>5. CASE StartReuses
  <2>1. /\ starting' = Idle /\ timer' \in BOOLEAN /\ used' \in 0 .. Delays
        /\ healthOn' \in BOOLEAN /\ lapses' \in Nat
    <3>1. CASE starting' = Idle /\ NoSchedule
      BY <3>1, NoScheduleTypes DEF TypeOK
    <3>2. CASE Fails
      BY <3>2, FailsTypes DEF TypeOK
    <3>3. QED
      BY <1>5, <3>1, <3>2 DEF StartReuses
  <2>2. /\ state' \in {"stopped", "starting", "ready", "crashed"}
        /\ process' = 0 \/ (process' = process /\ state' \in {state, "crashed"})
    BY <1>5 DEF StartReuses, TypeOK
  <2>3. UNCHANGED <<quitting, check, failures, world, signalled, bad, restarts>>
    BY <1>5 DEF StartReuses
  <2>4. starting' \in StartCalls
    BY <2>1, StartCallTypes DEF TypeOK, StartCalls
  <2>5. QED
    BY <2>1, <2>2, <2>3, <2>4 DEF TypeOK, StartCalls, world
<1>6. CASE StartFailsToSpawn
  <2>1. /\ starting' = Idle /\ timer' \in BOOLEAN /\ used' \in 0 .. Delays
        /\ healthOn' \in BOOLEAN /\ lapses' \in Nat
    BY <1>6, FailsTypes DEF StartFailsToSpawn, TypeOK
  <2>2. starting' \in StartCalls
    BY <2>1, StartCallTypes DEF TypeOK, StartCalls
  <2>3. QED
    BY <1>6, <2>1, <2>2 DEF StartFailsToSpawn, TypeOK, StartCalls, world
<1>7. CASE StartSpawns
  <2>1. starting' \in StartCalls
    BY <1>7, StartCallTypes DEF StartSpawns, TypeOK, StartCalls
  <2>2. /\ process' \in Children
        /\ child' \in [Children -> {"none", "boot", "loaded", "up", "deaf", "drain", "dead"}]
    BY <1>7 DEF StartSpawns, TypeOK
  <2>3. /\ state' = "starting"
        /\ UNCHANGED <<quitting, timer, used, healthOn, check, failures, noticed, other, others,
                       signalled, history>>
    BY <1>7 DEF StartSpawns
  <2>4. QED
    BY <2>1, <2>2, <2>3 DEF TypeOK, StartCalls, history, Children
<1>8. CASE WaitAnswered
  <2>1. CASE starting.answer = "healthy" /\ ~Stopping
    <3>1. /\ state' = "ready" /\ starting' = Idle
          /\ healthOn' = TRUE /\ failures' = 0
          /\ UNCHANGED <<process, signalled, timer, used, lapses>>
          /\ UNCHANGED <<quitting, check, world, bad, restarts>>
      BY <1>8, <2>1 DEF WaitAnswered
    <3>2. starting' \in StartCalls
      BY <3>1, StartCallTypes DEF TypeOK, StartCalls
    <3>3. QED
      BY <3>1, <3>2 DEF TypeOK, StartCalls, world
  <2>2. CASE Unready
    <3>1. /\ state' \in {state, "crashed"} /\ UNCHANGED failures
          /\ UNCHANGED <<quitting, check, world, bad, restarts>>
      BY <1>8, <2>2, UnreadyTypes DEF WaitAnswered
    <3>2. QED
      BY <2>2, <3>1, UnreadyTypes DEF TypeOK, StartCalls, world
  <2>3. CASE /\ starting' = [starting EXCEPT !.pc = "delay", !.answer = "none"]
             /\ UNCHANGED <<state, process, signalled, failures>> /\ NoSchedule
    <3>1. starting' \in StartCalls
      BY <2>3, StartCallTypes DEF TypeOK, StartCalls
    <3>2. /\ timer' \in BOOLEAN /\ used' \in 0 .. Delays /\ healthOn' \in BOOLEAN /\ lapses' \in Nat
      BY <2>3, NoScheduleTypes DEF TypeOK
    <3>3. UNCHANGED <<quitting, check, world, bad, restarts>>
      BY <1>8 DEF WaitAnswered
    <3>4. QED
      BY <2>3, <3>1, <3>2, <3>3 DEF TypeOK, StartCalls, world
  <2>4. QED
    BY <1>8, <2>1, <2>2, <2>3 DEF WaitAnswered
<1>9. ASSUME NEW late \in BOOLEAN, WaitLoops(late) PROVE TypeInv'
  <2>1. UNCHANGED <<quitting, check, failures, world, bad, restarts>>
    BY <1>9 DEF WaitLoops
  <2>2. CASE Unready
    <3>1. state' \in {state, "crashed"}
      BY <1>9, <2>2, UnreadyTypes DEF WaitLoops
    <3>2. QED
      BY <2>1, <2>2, <3>1, UnreadyTypes DEF TypeOK, StartCalls, world
  <2>3. CASE /\ starting' = [starting EXCEPT !.pc = "wait"]
             /\ UNCHANGED <<state, process, signalled>> /\ NoSchedule
    <3>1. starting' \in StartCalls
      BY <2>3, StartCallTypes DEF TypeOK, StartCalls
    <3>2. /\ timer' \in BOOLEAN /\ used' \in 0 .. Delays /\ healthOn' \in BOOLEAN /\ lapses' \in Nat
      BY <2>3, NoScheduleTypes DEF TypeOK
    <3>3. QED
      BY <2>1, <2>3, <3>1, <3>2 DEF TypeOK, StartCalls, world
  <2>4. QED
    BY <1>9, <2>2, <2>3 DEF WaitLoops
<1>10. ASSUME NEW late \in BOOLEAN, StartKilled(late) PROVE TypeInv'
  <2>1. /\ starting' = Idle /\ timer' \in BOOLEAN /\ used' \in 0 .. Delays
        /\ healthOn' \in BOOLEAN /\ lapses' \in Nat
    BY <1>10, FailsTypes DEF StartKilled, TypeOK
  <2>2. starting' \in StartCalls
    BY <2>1, StartCallTypes DEF TypeOK, StartCalls
  <2>3. QED
    BY <1>10, <2>1, <2>2 DEF StartKilled, TypeOK, StartCalls, world
<1>11. ASSUME NEW c \in Children, ExitEvent(c) PROVE TypeInv'
  <2>1. /\ timer' \in BOOLEAN /\ used' \in 0 .. Delays /\ healthOn' \in BOOLEAN /\ lapses' \in Nat
    <3>1. Schedules \/ NoSchedule
      BY <1>11 DEF ExitEvent
    <3>2. QED
      BY <3>1, Scheduling DEF TypeOK
  <2>2. /\ state' \in {"stopped", "starting", "ready", "crashed"}
        /\ process' = 0 \/ (process' = process /\ state' = state)
    BY <1>11 DEF ExitEvent, TypeOK
  <2>3. bad' \in [Children -> Nat] /\ noticed' \subseteq Children /\ signalled' \subseteq Children
    BY <1>11 DEF ExitEvent, TypeOK
  <2>4. UNCHANGED <<quitting, starting, check, failures, child, other, others, restarts>>
    BY <1>11 DEF ExitEvent
  <2>5. QED
    BY <2>1, <2>2, <2>3, <2>4 DEF TypeOK
<1>12. CASE HealthTick
  BY <1>12 DEF HealthTick, NoCheck, TypeOK, world, history
<1>13. CASE HealthAnswer
  <2>1. PICK a \in Answers :
        /\ check' = [check EXCEPT !.answer = a]
        /\ bad' = [bad EXCEPT ![check.kid] = IF a = "healthy" THEN 0 ELSE @ + 1]
    BY <1>13 DEF HealthAnswer, Answered, Answers
  <2>2. bad' \in [Children -> Nat]
    <3>1. bad \in [Children -> Nat]
      BY DEF TypeOK
    <3>2. CASE check.kid \in Children
      <4>1. bad[check.kid] + 1 \in Nat /\ 0 \in Nat
        BY <3>1, <3>2
      <4>2. QED
        BY <2>1, <3>1, <3>2, <4>1
    <3>3. CASE check.kid \notin Children
      BY <2>1, <3>1, <3>3
    <3>4. QED
      BY <3>2, <3>3
  <2>3. /\ check' \in [pc : {"none", "probe", "kill"}, answer : Answers \cup {"none"}, kid : 0 .. MaxSpawns]
        /\ check'.pc = check.pc
    BY <2>1 DEF TypeOK
  <2>4. UNCHANGED <<state, process, quitting, timer, used, starting, healthOn, failures,
                    world, signalled, restarts, lapses>>
    BY <1>13 DEF HealthAnswer
  <2>5. QED
    BY <2>2, <2>3, <2>4 DEF TypeOK, world
<1>14. CASE HealthAnswered
  <2> DEFINE n == IF check.answer = "healthy" THEN 0 ELSE failures + 1
  <2>1. check.pc = "probe" /\ UNCHANGED <<quitting, timer, used, starting, healthOn, world, history>>
    BY <1>14 DEF HealthAnswered
  <2>2. n \in 0 .. 2
    BY <2>1 DEF TypeOK
  <2>3. CASE ~Judges
    BY <1>14, <2>1, <2>3 DEF HealthAnswered, NoCheck, TypeOK, world, history
  <2>4. CASE Judges /\ n < 2
    <3>1. /\ failures' = n /\ check' = NoCheck /\ UNCHANGED <<state, process, signalled>>
      BY <1>14, <2>4 DEF HealthAnswered
    <3>2. failures' \in 0 .. 2 /\ failures' # 2
      BY <2>2, <2>4, <3>1
    <3>3. QED
      BY <2>1, <3>1, <3>2 DEF NoCheck, TypeOK, world, history
  <2>5. CASE Judges /\ ~(n < 2)
    <3>1. /\ failures' = n /\ state' = "crashed" /\ Terminates
          /\ check' = [pc |-> "kill", answer |-> "none", kid |-> process]
      BY <1>14, <2>5 DEF HealthAnswered
    <3>2. process' = 0 /\ signalled' \subseteq Children
      BY <3>1, TerminatesTypes DEF TypeOK
    <3>3. QED
      BY <2>1, <2>2, <3>1, <3>2 DEF TypeOK, world, history
  <2>6. QED
    BY <2>3, <2>4, <2>5
<1>15. ASSUME NEW late \in BOOLEAN, HealthKilled(late) PROVE TypeInv'
  <2>1. /\ timer' \in BOOLEAN /\ used' \in 0 .. Delays /\ healthOn' \in BOOLEAN /\ lapses' \in Nat
    BY <1>15, Scheduling DEF HealthKilled, TypeOK
  <2>2. QED
    BY <1>15, <2>1 DEF HealthKilled, NoCheck, TypeOK, world
<1>16. CASE Stop
  <2>1. process' = 0 /\ signalled' \subseteq Children
    BY <1>16, TerminatesTypes DEF Stop, TypeOK
  <2>2. quitting' \in [pc : {"no", "kill", "gone"}, kid : 0 .. MaxSpawns]
    BY <1>16 DEF Stop, TypeOK
  <2>3. /\ timer' = FALSE /\ healthOn' = FALSE /\ state' = "stopped"
        /\ UNCHANGED <<used, starting, check, failures, world, history>>
    BY <1>16 DEF Stop
  <2>4. timer' \in BOOLEAN /\ healthOn' \in BOOLEAN
    BY <2>3
  <2>5. Failing'
    BY <2>1, <2>3
  <2>6. UNCHANGED <<used, starting, check, failures, child, noticed, other, others, bad, restarts, lapses>>
    BY <2>3 DEF world, history
  <2>7. state' \in {"stopped", "starting", "ready", "crashed"} /\ process' \in 0 .. MaxSpawns
    BY <2>1, <2>3
  <2>8. TypeOK'
    BY <2>1, <2>2, <2>4, <2>6, <2>7 DEF TypeOK
  <2>9. QED
    BY <2>5, <2>8
<1>17. ASSUME NEW late \in BOOLEAN, StopKilled(late) PROVE TypeInv'
  BY <1>17 DEF StopKilled, TypeOK, world, history
<1>18. QED
  BY <1>1, <1>2, <1>3, <1>4, <1>5, <1>6, <1>7, <1>8, <1>9, <1>10, <1>11, <1>12, <1>13,
     <1>14, <1>15, <1>16, <1>17 DEF Manager

----------------------------------------------------------------------------
(* The backend the manager knows *)

\* While the manager probes, or waits for a process to end, or stops, it has none; the
\* one it has is waited for or ready.
Owned ==
    /\ starting.pc \in {"probe", "kill"} \/ Stopping => process = 0
    /\ process # 0 =>
        /\ starting.pc \in {"wait", "delay"} => state = "starting"
        /\ starting.pc \notin {"wait", "delay"} => state = "ready"
        /\ child[process] # "none"

\* Every step that leaves the children: the manager keeps its process, or gives it up
\* when it ended or was told to.
LEMMA LettingGo ==
    ASSUME TypeOK, Owned, NoneForgotten, UNCHANGED child,
           \/ process' = 0 /\ signalled' = signalled \cup ({process} \ {0})
           \/ process' = 0 /\ process = 0 /\ signalled' = signalled
           \/ \E c \in Children : /\ child[c] = "dead" /\ signalled' = signalled \ {c}
                                  /\ process' = IF process = c THEN 0 ELSE process
           \/ process' = process /\ signalled' = signalled,
           quitting'.pc = "gone" => quitting.pc \in {"kill", "gone"}
    PROVE  NoneForgotten'
<1>1. ASSUME NEW c \in Children, child[c] \notin {"none", "dead"}, c \notin signalled'
      PROVE  process' = c /\ quitting'.pc # "gone"
  <2>1. c \notin signalled
    BY <1>1
  <2>2. process = c /\ quitting.pc # "gone"
    BY <1>1, <2>1 DEF NoneForgotten, Alive
  <2>3. c # 0
    BY DEF Children
  <2>4. ~Stopping
    BY <2>2, <2>3 DEF Owned
  <2>5. quitting.pc = "no"
    BY <2>4 DEF Stopping
  <2>6. QED
    BY <1>1, <2>2, <2>3, <2>5
<1>2. QED
  BY <1>1 DEF NoneForgotten, Alive

LEMMA OwnedInit == Init => Owned /\ NoneForgotten
BY DEF Init, Owned, NoneForgotten, Alive, Stopping, Idle

LEMMA OwnedStep == TypeOK /\ Owned /\ NoneForgotten /\ Manager => Owned' /\ NoneForgotten'
<1> SUFFICES ASSUME TypeOK, Owned, NoneForgotten, Manager PROVE Owned' /\ NoneForgotten'
  OBVIOUS
<1>1. CASE UNCHANGED vars
  BY <1>1 DEF Owned, NoneForgotten, Alive, Stopping, vars, supervisor, world
<1>2. CASE World
  <2>1. UNCHANGED <<state, process, quitting, starting, signalled>>
    BY <1>2 DEF World, supervisor
  <2>2. \A c \in Children : /\ child'[c] = "none" => child[c] = "none"
                            /\ child'[c] \notin {"none", "dead"} => child[c] \notin {"none", "dead"}
    BY <1>2 DEF World, Lives, Alive, TypeOK
  <2>3. Owned'
    <3>1. process # 0 => process \in Children
      BY DEF TypeOK, Children
    <3>2. QED
      BY <2>1, <2>2, <3>1 DEF Owned, Stopping
  <2>4. NoneForgotten'
    BY <2>1, <2>2 DEF NoneForgotten, Alive
  <2>5. QED
    BY <2>3, <2>4
<1>3. CASE TimerFires
  <2>1. UNCHANGED <<state, process, quitting, child, signalled>>
    BY <1>3 DEF TimerFires, world
  <2>2. \/ starting' = starting
        \/ /\ starting = Idle /\ ~(state = "ready" /\ process # 0)
           /\ starting' = [Idle EXCEPT !.pc = "probe", !.timed = TRUE]
        \/ starting' = [starting EXCEPT !.timed = TRUE]
    BY <1>3 DEF TimerFires
  <2>3. \/ starting'.pc = starting.pc
        \/ starting.pc = "none" /\ starting'.pc = "probe" /\ ~(state = "ready" /\ process # 0)
    <3>1. starting = Idle => starting.pc = "none"
      BY DEF Idle
    <3>2. [Idle EXCEPT !.pc = "probe", !.timed = TRUE].pc = "probe"
      BY DEF Idle
    <3>3. [starting EXCEPT !.timed = TRUE].pc = starting.pc
      BY DEF TypeOK
    <3>4. QED
      BY <2>2, <3>1, <3>2, <3>3
  <2>4. Owned'
    BY <2>1, <2>3 DEF Owned, Stopping
  <2>5. QED
    BY <2>1, <2>4, LettingGo
<1>4. CASE StartAnswer
  <2>1. UNCHANGED <<state, process, quitting, child, signalled>>
    BY <1>4 DEF StartAnswer, world
  <2>2. starting'.pc = starting.pc
    BY <1>4 DEF StartAnswer, TypeOK
  <2>3. QED
    BY <2>1, <2>2, LettingGo DEF Owned, Stopping
<1>5. CASE StartReuses
  <2>1. process = 0
    BY <1>5 DEF StartReuses, Owned
  <2>2. process' = 0 /\ UNCHANGED <<quitting, child, signalled>>
    BY <1>5, <2>1 DEF StartReuses, world
  <2>3. QED
    BY <2>1, <2>2, LettingGo DEF Owned
<1>6. CASE StartFailsToSpawn
  <2>1. process = 0
    BY <1>6 DEF StartFailsToSpawn, Owned
  <2>2. process' = 0 /\ UNCHANGED <<quitting, child, signalled>>
    BY <1>6, <2>1 DEF StartFailsToSpawn, world
  <2>3. QED
    BY <2>1, <2>2, LettingGo DEF Owned
<1>7. CASE StartSpawns
  <2>1. PICK c \in Children :
          child[c] = "none" /\ child' = [child EXCEPT ![c] = "boot"] /\ process' = c
    BY <1>7 DEF StartSpawns
  <2>2. /\ process = 0 /\ ~Stopping /\ state' = "starting" /\ UNCHANGED <<quitting, signalled>>
    BY <1>7 DEF StartSpawns, Spawns, Owned
  <2>3. starting'.pc = "wait"
    BY <1>7 DEF StartSpawns, TypeOK
  <2>4. child'[c] = "boot" /\ \A d \in Children \ {c} : child'[d] = child[d]
    BY <2>1 DEF TypeOK
  <2>5. Owned'
    BY <2>1, <2>2, <2>3, <2>4 DEF Owned, Stopping
  <2>6. ASSUME NEW d \in Children, child'[d] \notin {"none", "dead"}, d \notin signalled'
        PROVE  process' = d /\ quitting'.pc # "gone"
    <3>1. CASE d = c
      BY <2>1, <2>2, <3>1 DEF Stopping
    <3>2. CASE d # c
      <4>1. process = d
        BY <2>2, <2>4, <2>6, <3>2 DEF NoneForgotten, Alive
      <4>2. QED
        BY <2>2, <4>1 DEF Children
    <3>3. QED
      BY <3>1, <3>2
  <2>7. QED
    BY <2>5, <2>6 DEF NoneForgotten, Alive
<1>8. CASE WaitAnswered
  <2>1. UNCHANGED <<quitting, child>>
    BY <1>8 DEF WaitAnswered, world
  <2>2. CASE starting.answer = "healthy" /\ ~Stopping
    <3>1. state' = "ready" /\ starting' = Idle /\ UNCHANGED <<process, signalled>>
      BY <1>8, <2>2 DEF WaitAnswered
    <3>2. starting'.pc = "none"
      BY <3>1 DEF Idle
    <3>3. Owned'
      BY <2>1, <3>1, <3>2 DEF Owned, Stopping
    <3>4. QED
      BY <2>1, <3>1, <3>3, LettingGo
  <2>3. CASE Unready
    BY <2>1, <2>3, LettingGo DEF Unready, Terminates, Owned
  <2>4. CASE /\ starting' = [starting EXCEPT !.pc = "delay", !.answer = "none"]
             /\ UNCHANGED <<state, process, signalled, failures>>
    <3>1. starting.pc = "wait" /\ starting'.pc = "delay"
      BY <1>8, <2>4 DEF WaitAnswered, TypeOK
    <3>2. Owned'
      BY <2>1, <2>4, <3>1 DEF Owned, Stopping
    <3>3. QED
      BY <2>1, <2>4, <3>2, LettingGo
  <2>5. QED
    BY <1>8, <2>2, <2>3, <2>4 DEF WaitAnswered
<1>9. ASSUME NEW late \in BOOLEAN, WaitLoops(late) PROVE Owned' /\ NoneForgotten'
  <2>1. UNCHANGED <<quitting, child>>
    BY <1>9 DEF WaitLoops, world
  <2>2. CASE Unready
    BY <2>1, <2>2, LettingGo DEF Unready, Terminates, Owned
  <2>3. CASE starting' = [starting EXCEPT !.pc = "wait"] /\ UNCHANGED <<state, process, signalled>>
    <3>1. starting.pc = "delay" /\ starting'.pc = "wait"
      BY <1>9, <2>3 DEF WaitLoops, TypeOK
    <3>2. Owned'
      BY <2>1, <2>3, <3>1 DEF Owned, Stopping
    <3>3. QED
      BY <2>1, <2>3, <3>2, LettingGo
  <2>4. QED
    BY <1>9, <2>2, <2>3 DEF WaitLoops
<1>10. ASSUME NEW late \in BOOLEAN, StartKilled(late) PROVE Owned' /\ NoneForgotten'
  <2>1. process = 0
    BY <1>10 DEF StartKilled, Owned
  <2>2. process' = 0 /\ UNCHANGED <<quitting, child, signalled>>
    BY <1>10, <2>1 DEF StartKilled, world
  <2>3. QED
    BY <2>1, <2>2, LettingGo DEF Owned
<1>11. ASSUME NEW c \in Children, ExitEvent(c) PROVE Owned' /\ NoneForgotten'
  <2>1. /\ child[c] = "dead" /\ signalled' = signalled \ {c}
        /\ UNCHANGED <<quitting, starting, child>>
    BY <1>11 DEF ExitEvent
  <2>2. process' = IF process = c THEN 0 ELSE process
    BY <1>11 DEF ExitEvent
  <2>3. process # c => state' = state
    BY <1>11 DEF ExitEvent
  <2>4. Owned'
    BY <2>1, <2>2, <2>3 DEF Owned, Stopping
  <2>5. QED
    BY <2>1, <2>2, <2>4, LettingGo
<1>12. CASE HealthTick \/ HealthAnswer
  <2>1. UNCHANGED <<state, process, quitting, starting, child, signalled>>
    BY <1>12 DEF HealthTick, HealthAnswer, world
  <2>2. QED
    BY <2>1, LettingGo DEF Owned, Stopping
<1>13. CASE HealthAnswered
  <2>1. UNCHANGED <<quitting, starting, child>>
    BY <1>13 DEF HealthAnswered, world
  <2>2. \/ UNCHANGED <<state, process, signalled>> \/ Terminates
    BY <1>13 DEF HealthAnswered
  <2>3. QED
    BY <2>1, <2>2, LettingGo DEF Terminates, Owned, Stopping
<1>14. ASSUME NEW late \in BOOLEAN, HealthKilled(late) PROVE Owned' /\ NoneForgotten'
  <2>1. UNCHANGED <<state, process, quitting, starting, child, signalled>>
    BY <1>14 DEF HealthKilled, world
  <2>2. QED
    BY <2>1, LettingGo DEF Owned, Stopping
<1>15. CASE Stop
  <2>1. Terminates /\ UNCHANGED <<starting, child>> /\ quitting'.pc = "kill"
    BY <1>15 DEF Stop, world
  <2>2. QED
    BY <2>1, LettingGo DEF Terminates, Owned
<1>16. ASSUME NEW late \in BOOLEAN, StopKilled(late) PROVE Owned' /\ NoneForgotten'
  <2>1. /\ quitting.pc = "kill" /\ quitting'.pc = "gone"
        /\ UNCHANGED <<state, process, starting, child, signalled>>
    BY <1>16 DEF StopKilled, world
  <2>2. QED
    BY <2>1, LettingGo DEF Owned, Stopping
<1>17. QED
  BY <1>1, <1>2, <1>3, <1>4, <1>5, <1>6, <1>7, <1>8, <1>9, <1>10, <1>11, <1>12, <1>13,
     <1>14, <1>15, <1>16 DEF Manager

----------------------------------------------------------------------------
(* Restarts *)

\* A restart is paid for when the timer is set, and a timer that is set owes one.
Ledger ==
    /\ restarts <= used + lapses
    /\ timer => restarts + 1 <= used + lapses

LEMMA Sums ==
    ASSUME NEW a \in Nat, NEW b \in Nat, NEW c \in Nat, NEW d \in Nat, NEW e \in Nat
    PROVE  /\ a <= b + c /\ d + e >= b + c => a <= d + e
           /\ a + 1 <= b + c /\ d + e >= b + c => a + 1 <= d + e
           /\ a <= b + c /\ d + e >= b + c + 1 => a + 1 <= d + e
OBVIOUS

LEMMA LedgerKeeps ==
    ASSUME TypeOK, TypeOK', Ledger, restarts' = restarts,
           \/ Schedules \/ NoSchedule
           \/ timer' \in {timer, FALSE} /\ UNCHANGED <<used, lapses>>
    PROVE  Ledger'
<1>1. /\ restarts \in Nat /\ used \in Nat /\ lapses \in Nat /\ used' \in Nat /\ lapses' \in Nat
  BY SupervisorAssumption DEF TypeOK
<1>2. /\ restarts <= used + lapses
      /\ timer => restarts + 1 <= used + lapses
  BY DEF Ledger
<1>3. CASE timer' \in {timer, FALSE} /\ UNCHANGED <<used, lapses>>
  <2>1. restarts' <= used' + lapses'
    BY <1>2, <1>3
  <2>2. ASSUME timer' PROVE restarts' + 1 <= used' + lapses'
    <3>1. restarts + 1 <= used + lapses
      BY <1>2, <1>3, <2>2
    <3>2. QED
      BY <1>3, <3>1
  <2>3. QED
    BY <2>1, <2>2 DEF Ledger
<1>4. CASE Schedules \/ NoSchedule
  <2>1. used' + lapses' >= used + lapses
    BY <1>4, Scheduling DEF TypeOK
  <2>2. timer' /\ ~timer => used' + lapses' >= used + lapses + 1
    BY <1>4, Scheduling DEF TypeOK
  <2>3. restarts <= used + lapses
    BY <1>2
  <2>4. restarts' <= used' + lapses'
    BY <1>1, <2>1, <2>3, Sums
  <2>5. ASSUME timer', timer PROVE restarts' + 1 <= used' + lapses'
    <3>1. restarts + 1 <= used + lapses
      BY <1>2, <2>5
    <3>2. QED
      BY <1>1, <2>1, <3>1, Sums
  <2>6. ASSUME timer', ~timer PROVE restarts' + 1 <= used' + lapses'
    <3>1. used' + lapses' >= used + lapses + 1
      BY <2>2, <2>6
    <3>2. QED
      BY <1>1, <2>3, <3>1, Sums
  <2>7. QED
    BY <2>4, <2>5, <2>6 DEF Ledger
<1>5. QED
  BY <1>3, <1>4

LEMMA LedgerStep == TypeOK /\ TypeOK' /\ Ledger /\ Manager => Ledger'
<1> SUFFICES ASSUME TypeOK, TypeOK', Ledger, Manager PROVE Ledger'
  OBVIOUS
<1>1. CASE UNCHANGED vars \/ World
  BY <1>1, LedgerKeeps DEF vars, World, supervisor, history
<1>2. CASE TimerFires
  <2>1. timer /\ ~timer' /\ restarts' = restarts + 1 /\ UNCHANGED <<used, lapses>>
    BY <1>2 DEF TimerFires
  <2>2. restarts + 1 <= used + lapses
    BY <2>1 DEF Ledger
  <2>3. restarts' <= used' + lapses'
    BY <2>1, <2>2
  <2>4. QED
    BY <2>1, <2>3 DEF Ledger
<1>3. CASE StartAnswer \/ HealthTick \/ HealthAnswer \/ HealthAnswered \/ StartSpawns
  BY <1>3, LedgerKeeps DEF StartAnswer, HealthTick, HealthAnswer, HealthAnswered, StartSpawns, history
<1>4. CASE StartReuses \/ StartFailsToSpawn
  <2>1. (Schedules \/ NoSchedule) /\ restarts' = restarts
    BY <1>4 DEF StartReuses, StartFailsToSpawn, Fails
  <2>2. QED
    BY <2>1, LedgerKeeps
<1>5. ASSUME Unready, restarts' = restarts PROVE Ledger'
  <2>1. Schedules \/ NoSchedule
    BY <1>5 DEF Unready, Fails
  <2>2. QED
    BY <1>5, <2>1, LedgerKeeps
<1>6. CASE WaitAnswered
  BY <1>5, <1>6, LedgerKeeps DEF WaitAnswered
<1>7. ASSUME NEW late \in BOOLEAN, WaitLoops(late) PROVE Ledger'
  BY <1>5, <1>7, LedgerKeeps DEF WaitLoops
<1>8. ASSUME NEW late \in BOOLEAN, StartKilled(late) \/ HealthKilled(late) \/ StopKilled(late)
      PROVE  Ledger'
  <2>1. CASE StartKilled(late)
    <3>1. (Schedules \/ NoSchedule) /\ restarts' = restarts
      BY <2>1 DEF StartKilled, Fails
    <3>2. QED
      BY <3>1, LedgerKeeps
  <2>2. CASE HealthKilled(late) \/ StopKilled(late)
    BY <2>2, LedgerKeeps DEF HealthKilled, StopKilled, history
  <2>3. QED
    BY <1>8, <2>1, <2>2
<1>9. ASSUME NEW c \in Children, ExitEvent(c) PROVE Ledger'
  BY <1>9, LedgerKeeps DEF ExitEvent
<1>10. CASE Stop
  BY <1>10, LedgerKeeps DEF Stop, history
<1>11. QED
  BY <1>1, <1>2, <1>3, <1>4, <1>6, <1>7, <1>8, <1>9, <1>10 DEF Manager

----------------------------------------------------------------------------
(* Health *)

\* A check was made of a process that was ready, and the process is ready as long as it
\* is there.
Asked ==
    /\ check.pc = "probe" =>
        /\ check.kid \in Children /\ child[check.kid] # "none"
        /\ check.kid = process => state = "ready"

\* The failures counted are answers of the process that is there; one that is given and
\* not handled yet is ahead of the count.
Ahead == check.pc = "probe" /\ check.kid = process /\ check.answer # "none"
Counted ==
    process # 0 /\ state = "ready" =>
        /\ ~Ahead => failures <= bad[process]
        /\ Ahead /\ check.answer # "healthy" => failures + 1 <= bad[process]
HealthInv == Asked /\ Counted

\* A step that leaves the check, the count and the process in place, or the process
\* gives way.
LEMMA HealthKeeps ==
    ASSUME TypeOK, Owned, HealthInv, UNCHANGED check,
           \A c \in Children : child[c] # "none" => child'[c] # "none",
           \/ process' = 0
           \/ UNCHANGED <<process, state, failures>> /\ bad'[process] = bad[process]
    PROVE  HealthInv'
<1>1. Asked'
  <2>1. CASE process' = 0
    BY <2>1 DEF HealthInv, Asked, Children
  <2>2. CASE process' # 0
    BY <2>2 DEF HealthInv, Asked
  <2>3. QED
    BY <2>1, <2>2
<1>2. Counted'
  BY DEF HealthInv, Counted, Ahead
<1>3. QED
  BY <1>1, <1>2 DEF HealthInv

LEMMA HealthInit == Init => HealthInv
BY DEF Init, HealthInv, Asked, Counted, NoCheck

LEMMA HealthStepKeeps ==
    TypeInv /\ TypeInv' /\ Owned /\ HealthInv /\ Manager => HealthInv'
<1> SUFFICES ASSUME TypeInv, TypeInv', Owned, HealthInv, Manager PROVE HealthInv'
  OBVIOUS
<1>0. TypeOK
  BY DEF TypeInv
<1>a. process # 0 => process \in Children
  BY <1>0 DEF TypeOK, Children
<1>1. CASE UNCHANGED vars
  BY <1>0, <1>1, HealthKeeps DEF vars, supervisor, world, history
<1>2. CASE World
  <2>1. UNCHANGED <<state, process, check, failures, bad>>
    BY <1>2 DEF World, supervisor, history
  <2>2. \A c \in Children : child[c] # "none" => child'[c] # "none"
    BY <1>0, <1>2 DEF World, Lives, TypeOK
  <2>3. QED
    BY <1>0, <2>1, <2>2, HealthKeeps
<1>3. CASE TimerFires \/ StartAnswer
  BY <1>0, <1>3, HealthKeeps DEF TimerFires, StartAnswer, world, history
<1>4. CASE StartReuses \/ StartFailsToSpawn
  BY <1>0, <1>4, HealthKeeps DEF StartReuses, StartFailsToSpawn, Owned, world
<1>5. CASE StartSpawns
  <2>1. PICK c \in Children :
          child[c] = "none" /\ child' = [child EXCEPT ![c] = "boot"] /\ process' = c
    BY <1>5 DEF StartSpawns
  <2>2. state' = "starting" /\ UNCHANGED check
    BY <1>5 DEF StartSpawns
  <2>3. \A d \in Children : child[d] # "none" => child'[d] # "none"
    BY <1>0, <2>1 DEF TypeOK
  <2>4. QED
    BY <2>1, <2>2, <2>3 DEF HealthInv, Asked, Counted
<1>6. CASE WaitAnswered
  <2>1. UNCHANGED <<check, child, bad>> /\ starting.pc = "wait"
    BY <1>6 DEF WaitAnswered, world
  <2>2. CASE starting.answer = "healthy" /\ ~Stopping
    <3>1. state' = "ready" /\ failures' = 0 /\ UNCHANGED process
      BY <1>6, <2>2 DEF WaitAnswered
    <3>2. Asked'
      BY <2>1, <3>1 DEF HealthInv, Asked
    <3>3. process # 0 => ~Ahead'
      BY <2>1, <3>1 DEF HealthInv, Asked, Ahead, Owned
    <3>4. process # 0 => bad[process] \in Nat
      BY <1>0, <1>a DEF TypeOK
    <3>5. Counted'
      BY <2>1, <3>1, <3>3, <3>4 DEF Counted
    <3>6. QED
      BY <3>2, <3>5 DEF HealthInv
  <2>3. CASE Unready
    BY <1>0, <2>1, <2>3, HealthKeeps DEF Unready, Terminates
  <2>4. CASE UNCHANGED <<state, process, signalled, failures>>
    BY <1>0, <2>1, <2>4, HealthKeeps
  <2>5. QED
    BY <1>6, <2>2, <2>3, <2>4 DEF WaitAnswered
<1>7. ASSUME NEW late \in BOOLEAN, WaitLoops(late) PROVE HealthInv'
  <2>1. UNCHANGED <<check, failures, child, bad>>
    BY <1>7 DEF WaitLoops, world
  <2>2. process' = 0 \/ UNCHANGED <<state, process>>
    BY <1>7 DEF WaitLoops, Unready, Terminates
  <2>3. QED
    BY <1>0, <2>1, <2>2, HealthKeeps
<1>8. ASSUME NEW late \in BOOLEAN, StartKilled(late) PROVE HealthInv'
  BY <1>0, <1>8, HealthKeeps DEF StartKilled, Owned, world
<1>9. ASSUME NEW c \in Children, ExitEvent(c) PROVE HealthInv'
  <2>1. UNCHANGED <<check, failures, child>>
    BY <1>9 DEF ExitEvent
  <2>2. process' = 0 \/ (UNCHANGED <<state, process>> /\ process # c)
    BY <1>9 DEF ExitEvent
  <2>3. process # c => bad'[process] = bad[process]
    <3>1. bad' = [bad EXCEPT ![c] = 0]
      BY <1>9 DEF ExitEvent
    <3>2. bad \in [Children -> Nat]
      BY <1>0 DEF TypeOK
    <3>3. CASE process \in Children
      BY <3>1, <3>2, <3>3
    <3>4. CASE process = 0
      BY <2>2, <3>1, <3>2, <3>4
    <3>5. QED
      BY <1>a, <3>3, <3>4
  <2>4. QED
    BY <1>0, <2>1, <2>2, <2>3, HealthKeeps
<1>10. CASE HealthTick
  <2>1. /\ check' = [pc |-> "probe", answer |-> "none", kid |-> process]
        /\ process # 0 /\ state = "ready" /\ check = NoCheck
        /\ UNCHANGED <<state, process, failures, child, bad>>
    BY <1>10 DEF HealthTick, world, history
  <2>2. Asked'
    BY <1>a, <2>1 DEF Asked, Owned
  <2>3. ~Ahead /\ ~Ahead'
    BY <2>1 DEF Ahead, NoCheck
  <2>4. Counted'
    BY <2>1, <2>3 DEF HealthInv, Counted
  <2>5. QED
    BY <2>2, <2>4 DEF HealthInv
<1>11. CASE HealthAnswer
  <2>1. PICK a \in Answers :
        /\ check' = [check EXCEPT !.answer = a]
        /\ bad' = [bad EXCEPT ![check.kid] = IF a = "healthy" THEN 0 ELSE @ + 1]
    BY <1>11 DEF HealthAnswer, Answered, Answers
  <2>2. /\ check.pc = "probe" /\ check.answer = "none"
        /\ UNCHANGED <<state, process, failures, child>>
    BY <1>11 DEF HealthAnswer, world
  <2>3. check'.pc = "probe" /\ check'.kid = check.kid /\ check'.answer = a /\ a # "none"
    BY <1>0, <2>1, <2>2 DEF TypeOK, Answers
  <2>4. Asked'
    BY <2>2, <2>3 DEF HealthInv, Asked
  <2>5. Counted'
    <3>1. SUFFICES ASSUME process # 0, state = "ready"
                   PROVE  /\ ~Ahead' => failures <= bad'[process]
                          /\ Ahead' /\ a # "healthy" => failures + 1 <= bad'[process]
      BY <2>2, <2>3 DEF Counted
    <3>2. failures <= bad[process]
      BY <2>2, <3>1 DEF HealthInv, Counted, Ahead
    <3>3. bad \in [Children -> Nat] /\ process \in Children /\ failures \in Nat
      BY <1>0, <1>a, <3>1 DEF TypeOK
    <3>4. CASE check.kid = process
      <4>1. a # "healthy" => bad'[process] = bad[process] + 1
        BY <2>1, <3>3, <3>4
      <4>2. Ahead'
        BY <2>2, <2>3, <3>4 DEF Ahead
      <4>3. QED
        BY <3>2, <3>3, <4>1, <4>2
    <3>5. CASE check.kid # process
      <4>1. bad'[process] = bad[process]
        BY <2>1, <3>3, <3>5
      <4>2. ~Ahead'
        BY <2>2, <2>3, <3>5 DEF Ahead
      <4>3. QED
        BY <3>2, <4>1, <4>2
    <3>6. QED
      BY <3>4, <3>5
  <2>6. QED
    BY <2>4, <2>5 DEF HealthInv
<1>12. CASE HealthAnswered
  <2> DEFINE n == IF check.answer = "healthy" THEN 0 ELSE failures + 1
  <2>1. check.pc = "probe" /\ check.answer # "none" /\ UNCHANGED <<child, bad>>
    BY <1>12 DEF HealthAnswered, world, history
  <2>2. CASE ~Judges
    <3>1. check' = NoCheck /\ UNCHANGED <<state, process, failures>>
      BY <1>12, <2>2 DEF HealthAnswered
    <3>2. process # 0 => ~Ahead
      BY <2>2 DEF Judges, Ahead, Owned
    <3>3. check'.pc # "probe" /\ ~Ahead'
      BY <3>1 DEF NoCheck, Ahead
    <3>4. QED
      BY <2>1, <3>1, <3>2, <3>3 DEF HealthInv, Asked, Counted
  <2>3. CASE Judges /\ n < 2
    <3>1. check' = NoCheck /\ failures' = n /\ UNCHANGED <<state, process>>
      BY <1>12, <2>3 DEF HealthAnswered
    <3>2. Ahead
      BY <2>1, <2>3 DEF Judges, Ahead
    <3>3. check'.pc # "probe" /\ ~Ahead'
      BY <3>1 DEF NoCheck, Ahead
    <3>4. process # 0 /\ state = "ready" => n <= bad[process]
      <4>1. process # 0 => bad[process] \in Nat
        BY <1>0, <1>a DEF TypeOK
      <4>2. CASE check.answer = "healthy"
        BY <4>1, <4>2
      <4>3. CASE check.answer # "healthy"
        BY <3>2, <4>3 DEF HealthInv, Counted
      <4>4. QED
        BY <4>2, <4>3
    <3>5. QED
      BY <2>1, <3>1, <3>3, <3>4 DEF HealthInv, Asked, Counted
  <2>4. CASE Judges /\ ~(n < 2)
    <3>1. /\ check' = [pc |-> "kill", answer |-> "none", kid |-> process]
          /\ process' = 0
      BY <1>12, <2>4 DEF HealthAnswered, Terminates
    <3>2. check'.pc = "kill"
      BY <3>1
    <3>3. QED
      BY <3>1, <3>2 DEF HealthInv, Asked, Counted
  <2>5. QED
    BY <2>2, <2>3, <2>4
<1>13. ASSUME NEW late \in BOOLEAN, HealthKilled(late) PROVE HealthInv'
  <2>1. /\ check.pc = "kill" /\ check' = NoCheck
        /\ UNCHANGED <<state, process, failures, child, bad>>
    BY <1>13 DEF HealthKilled, world
  <2>2. check'.pc = "none"
    BY <2>1 DEF NoCheck
  <2>3. QED
    BY <2>1, <2>2 DEF HealthInv, Asked, Counted, Ahead
<1>14. CASE Stop
  BY <1>0, <1>14, HealthKeeps DEF Stop, Terminates, world, history
<1>15. ASSUME NEW late \in BOOLEAN, StopKilled(late) PROVE HealthInv'
  BY <1>0, <1>15, HealthKeeps DEF StopKilled, world, history
<1>16. QED
  BY <1>1, <1>2, <1>3, <1>4, <1>5, <1>6, <1>7, <1>8, <1>9, <1>10, <1>11, <1>12, <1>13,
     <1>14, <1>15 DEF Manager

----------------------------------------------------------------------------
(* Builds *)

\* What a step of the supervisor may do to a process.
Ages(c) ==
    \/ child'[c] = child[c]
    \/ child[c] = "none" /\ child'[c] = "boot"
    \/ child[c] = "loaded" /\ child'[c] = "up"
    \/ child[c] = "up" /\ child'[c] = "deaf"
    \/ child[c] \in {"up", "deaf"} /\ child'[c] = "drain"

LEMMA Aging ==
    ASSUME TypeOK, Supervising
    PROVE  \A c \in Children : Ages(c)
<1> USE DEF TypeOK, Ages
<1>1. ASSUME NEW c \in Children, Listen(c) \/ Deafens(c) \/ Drains(c)
      PROVE  \A d \in Children : Ages(d)
  <2>1. CASE Listen(c)
    BY <2>1 DEF Listen
  <2>2. CASE Deafens(c)
    BY <2>2 DEF Deafens
  <2>3. CASE Drains(c)
    BY <2>3 DEF Drains, Listening
  <2>4. QED
    BY <1>1, <2>1, <2>2, <2>3
<1>2. CASE StartSpawns
  BY <1>2 DEF StartSpawns
<1>3. CASE UNCHANGED child
  BY <1>3
<1>4. \/ UNCHANGED child \/ StartSpawns
      \/ \E c \in Children : Listen(c) \/ Deafens(c) \/ Drains(c)
  <2>1. CASE PortStep
    BY <2>1 DEF PortStep, OtherComes, OtherGoes
  <2>2. CASE StartStep
    BY <2>2 DEF StartStep, StartReuses, StartFailsToSpawn, WaitAnswered, WaitLoops, StartKilled, world
  <2>3. CASE HealthStep
    BY <2>3 DEF HealthStep, HealthTick, HealthAnswer, HealthAnswered, HealthKilled, world
  <2>4. CASE TimerFires \/ StartAnswer \/ Stop \/ \E late \in BOOLEAN : StopKilled(late)
    BY <2>4 DEF TimerFires, StartAnswer, Stop, StopKilled, world
  <2>5. CASE \E c \in Children : ExitEvent(c)
    BY <2>5 DEF ExitEvent
  <2>6. QED
    BY <2>1, <2>2, <2>3, <2>4, <2>5 DEF Supervising
<1>5. QED
  BY <1>1, <1>2, <1>3, <1>4

\* A build is executed by its task, once.
Once ==
    \A b \in Builds :
        /\ executions[b] <= 1
        /\ row[b] = "none" \/ task[b].pc \in {"new", "wait"} => executions[b] = 0
        /\ task[b].pc # "none" => row[b] # "none"

\* A task lives in a backend that has listened.  While two of them never shared the
\* database, only one is beyond its start, its tasks are the unfinished rows, and it
\* left none behind.
Housed ==
    \A b \in Builds : task[b].pc # "none" =>
        task[b].at \in Children /\ child[task[b].at] \in {"up", "deaf", "drain"}
Alone ==
    ~overlap => \A c, d \in Children :
        c # d /\ Alive(c) /\ Alive(d) => child[c] = "boot" \/ child[d] = "boot"
Kept == ~overlap => \A b \in Builds : task[b].pc # "none" => row[b] \in B!Unfinished
AnsweredFor ==
    ~overlap => \A b \in Builds, c \in Children :
        row[b] \in B!Unfinished /\ task[b].pc = "none" => child[c] \notin {"loaded", "up", "deaf"}

BuildInv ==
    /\ B!BuildTypeOK /\ overlap \in BOOLEAN
    /\ Once /\ Housed /\ Alone /\ Kept /\ AnsweredFor

LEMMA BuildInit == DesktopInit => BuildInv
<1> SUFFICES ASSUME DesktopInit PROVE BuildInv
  OBVIOUS
<1>1. Original \in Contents /\ 0 \in Nat /\ 0 <= 1
  BY DesktopAssumption
<1>2. B!BuildTypeOK /\ overlap \in BOOLEAN
  BY <1>1 DEF DesktopInit, B!BuildInit, B!BuildTypeOK, B!NoTask
<1>3. Once /\ Housed
  BY <1>1 DEF DesktopInit, B!BuildInit, B!NoTask, Once, Housed
<1>4. Alone /\ Kept /\ AnsweredFor
  BY DEF DesktopInit, Init, B!BuildInit, B!NoTask, B!Unfinished, Alone, Kept, AnsweredFor, Alive
<1>5. QED
  BY <1>2, <1>3, <1>4 DEF BuildInv

LEMMA BuildKeeps == TypeOK /\ BuildInv /\ [DesktopNext]_allVars => BuildInv'
<1> SUFFICES ASSUME TypeOK, BuildInv, [DesktopNext]_allVars PROVE BuildInv'
  OBVIOUS
<1>a. child \in [Children -> {"none", "boot", "loaded", "up", "deaf", "drain", "dead"}]
  BY DEF TypeOK
<1>b. /\ row \in [Builds -> {"none"} \cup B!Unfinished \cup B!Over]
      /\ source \in [Builds -> Contents]
      /\ task \in [Builds -> [at : Children \cup {0},
                              pc : {"none", "new", "wait", "execute", "unwind"}, rev : Contents]]
      /\ revision \in Contents /\ past \subseteq Contents
      /\ executions \in [Builds -> Nat]
  BY DEF BuildInv, B!BuildTypeOK
<1>c. Original \in Contents
  BY DesktopAssumption
<1>1. CASE UNCHANGED allVars
  BY <1>1 DEF BuildInv, B!BuildTypeOK, Once, Housed, Alone, Kept, AnsweredFor, Alive,
              allVars, vars, world, builds
<1>2. CASE Supervising /\ UNCHANGED <<builds, overlap>>
  <2>1. \A c \in Children : Ages(c)
    BY <1>2, Aging
  <2>2. UNCHANGED <<row, source, task, revision, past, executions, overlap>>
    BY <1>2 DEF builds
  <2>3. B!BuildTypeOK' /\ overlap' \in BOOLEAN /\ Once' /\ Kept'
    BY <2>2 DEF BuildInv, B!BuildTypeOK, Once, Kept
  <2>4. Housed'
    BY <2>1, <2>2 DEF BuildInv, Housed, Ages
  <2>5. Alone'
    <3>1. \A c \in Children : child'[c] \notin {"none", "dead", "boot"} =>
                                 child[c] \notin {"none", "dead", "boot"}
      BY <2>1 DEF Ages
    <3>2. QED
      BY <2>2, <3>1 DEF BuildInv, Alone, Alive
  <2>6. AnsweredFor'
    <3>1. \A c \in Children : child'[c] \in {"loaded", "up", "deaf"} =>
                                 child[c] \in {"loaded", "up", "deaf"}
      BY <2>1 DEF Ages
    <3>2. QED
      BY <2>2, <3>1 DEF BuildInv, AnsweredFor
  <2>7. QED
    BY <2>3, <2>4, <2>5, <2>6 DEF BuildInv
<1>3. ASSUME NEW c \in Children, Loading(c) PROVE BuildInv'
  <2>1. /\ child[c] = "boot" /\ child' = [child EXCEPT ![c] = "loaded"]
        /\ UNCHANGED <<source, task, revision, past, executions>>
        /\ overlap' = (overlap \/ \E d \in Children \ {c} : Alive(d))
    BY <1>3 DEF Loading, Loads
  <2>2. row' = [b \in Builds |-> IF B!BootMarks(row[b]) THEN "interrupted" ELSE row[b]]
    BY <1>3 DEF Loading, B!Marked
  <2>3. \A b \in Builds : /\ row[b] \in B!Unfinished => row'[b] = "interrupted"
                          /\ row[b] \notin B!Unfinished => row'[b] = row[b]
    BY <2>2 DEF B!BootMarks
  <2>4. B!BuildTypeOK' /\ overlap' \in BOOLEAN
    <3>1. row' \in [Builds -> {"none"} \cup B!Unfinished \cup B!Over]
      BY <1>b, <2>2 DEF B!Over
    <3>2. QED
      BY <2>1, <3>1 DEF BuildInv, B!BuildTypeOK
  <2>5. Once'
    BY <2>1, <2>3 DEF BuildInv, Once, B!Unfinished
  <2>6. Housed'
    BY <1>a, <2>1 DEF BuildInv, Housed
  <2>7. ASSUME ~overlap'
        PROVE  /\ \A d \in Children \ {c} : ~Alive(d)
               /\ \A b \in Builds : task[b].pc = "none" /\ row'[b] \notin B!Unfinished
    <3>1. \A d \in Children \ {c} : ~Alive(d)
      BY <2>1, <2>7
    <3>2. \A b \in Builds : task[b].pc = "none"
      BY <2>1, <3>1 DEF BuildInv, Housed, Alive
    <3>3. \A b \in Builds : row'[b] \notin B!Unfinished
      BY <2>3 DEF B!Unfinished
    <3>4. QED
      BY <3>1, <3>2, <3>3
  <2>8. Alone'
    <3>1. \A d \in Children \ {c} : child'[d] = child[d]
      BY <1>a, <2>1
    <3>2. QED
      BY <2>7, <3>1 DEF Alone, Alive
  <2>9. Kept' /\ AnsweredFor'
    BY <2>1, <2>7 DEF Kept, AnsweredFor
  <2>10. QED
    BY <2>4, <2>5, <2>6, <2>8, <2>9 DEF BuildInv
<1>4. ASSUME NEW c \in Children, NEW t \in {"drain", "dead"},
             Alive(c), child' = [child EXCEPT ![c] = t], t = "drain" => child[c] = "drain",
             UNCHANGED <<row, source, revision, past, executions, overlap>>,
             \A b \in Builds : \/ task'[b] = B!NoTask /\ task[b].at = c
                               \/ task'[b] = task[b] /\ (t = "dead" => task[b].at # c)
                               \/ /\ t = "drain" /\ task[b].pc # "none" /\ task'[b].pc = "unwind"
                                  /\ task'[b].at = task[b].at,
             B!BuildTypeOK'
      PROVE  BuildInv'
  <2>1. child'[c] = t /\ \A d \in Children \ {c} : child'[d] = child[d]
    BY <1>a, <1>4
  <2>2. B!NoTask.pc = "none"
    BY DEF B!NoTask
  <2>3. \A b \in Builds : /\ task'[b].pc # "none" => task[b].pc # "none" /\ task'[b].at = task[b].at
                          /\ task'[b].pc \in {"new", "wait", "execute"} => task'[b] = task[b]
    BY <1>4, <2>2
  <2>4. Once'
    BY <1>4, <2>3 DEF BuildInv, Once
  <2>5. Housed'
    <3>1. ASSUME NEW b \in Builds, task'[b].pc # "none"
          PROVE  task'[b].at \in Children /\ child'[task'[b].at] \in {"up", "deaf", "drain"}
      <4>1. task[b].pc # "none" /\ task'[b].at = task[b].at
        BY <2>3, <3>1
      <4>2. task[b].at \in Children /\ child[task[b].at] \in {"up", "deaf", "drain"}
        BY <4>1 DEF BuildInv, Housed
      <4>3. task[b].at = c => t = "drain"
        BY <1>4, <2>2, <3>1
      <4>4. QED
        BY <2>1, <4>1, <4>2, <4>3
    <3>2. QED
      BY <3>1 DEF Housed
  <2>6. Alone'
    BY <1>4, <2>1 DEF BuildInv, Alone, Alive
  <2>7. Kept'
    BY <1>4, <2>3 DEF BuildInv, Kept
  <2>8. AnsweredFor'
    <3>1. ASSUME ~overlap, NEW b \in Builds, NEW d \in Children,
                 row[b] \in B!Unfinished, task'[b].pc = "none", child'[d] \in {"loaded", "up", "deaf"}
          PROVE  FALSE
      <4>1. d # c /\ child[d] \in {"loaded", "up", "deaf"}
        BY <2>1, <3>1
      <4>2. CASE task[b].pc = "none"
        BY <3>1, <4>1, <4>2 DEF BuildInv, AnsweredFor
      <4>3. CASE task[b].pc # "none"
        <5>1. task[b].at = c
          BY <1>4, <3>1, <4>3
        <5>2. child[c] \in {"up", "deaf", "drain"}
          BY <4>3, <5>1 DEF BuildInv, Housed
        <5>3. QED
          BY <3>1, <4>1, <5>2 DEF BuildInv, Alone, Alive
      <4>4. QED
        BY <4>2, <4>3
    <3>2. QED
      BY <1>4, <3>1 DEF AnsweredFor
  <2>9. overlap' \in BOOLEAN
    BY <1>4 DEF BuildInv
  <2>10. QED
    BY <1>4, <2>4, <2>5, <2>6, <2>7, <2>8, <2>9 DEF BuildInv
<1>5. ASSUME NEW c \in Children, Dying(c) PROVE BuildInv'
  <2>1. /\ Alive(c) /\ child' = [child EXCEPT ![c] = "dead"]
        /\ UNCHANGED <<row, source, revision, past, executions, overlap>>
        /\ task' = [b \in Builds |-> IF task[b].at = c THEN B!NoTask ELSE task[b]]
    BY <1>5 DEF Dying, Dies, B!GoneAt
  <2>2. B!NoTask \in [at : Children \cup {0},
                      pc : {"none", "new", "wait", "execute", "unwind"}, rev : Contents]
    BY <1>c DEF B!NoTask
  <2>3. B!BuildTypeOK'
    BY <1>b, <2>1, <2>2 DEF B!BuildTypeOK
  <2>4. QED
    BY <1>4, <2>1, <2>3
<1>6. ASSUME NEW c \in Children, Closing(c) PROVE BuildInv'
  <2>1. /\ child[c] = "drain" /\ child' = child
        /\ UNCHANGED <<row, source, revision, past, executions, overlap>>
        /\ task' = [b \in Builds |->
              IF B!At(b, c, {"wait", "execute"}) THEN [task[b] EXCEPT !.pc = "unwind", !.rev = Original]
              ELSE IF B!At(b, c, {"new"}) THEN B!NoTask ELSE task[b]]
    BY <1>6 DEF Closing, OnlyBuilds, B!Close
  <2>2. \A b \in Builds :
          \/ B!At(b, c, {"wait", "execute"}) /\ task'[b] = [task[b] EXCEPT !.pc = "unwind", !.rev = Original]
          \/ B!At(b, c, {"new"}) /\ task'[b] = B!NoTask
          \/ task'[b] = task[b]
    BY <2>1
  <2>3. B!NoTask \in [at : Children \cup {0},
                      pc : {"none", "new", "wait", "execute", "unwind"}, rev : Contents]
    BY <1>c DEF B!NoTask
  <2>4. \A b \in Builds : [task[b] EXCEPT !.pc = "unwind", !.rev = Original] \in
                  [at : Children \cup {0},
                   pc : {"none", "new", "wait", "execute", "unwind"}, rev : Contents]
    <3>1. \A b \in Builds : task[b] \in
                  [at : Children \cup {0},
                   pc : {"none", "new", "wait", "execute", "unwind"}, rev : Contents]
      BY <1>b
    <3>2. QED
      BY <1>c, <3>1
  <2>5. B!BuildTypeOK'
    BY <1>b, <2>1, <2>3, <2>4 DEF B!BuildTypeOK
  <2>6. \A b \in Builds : \/ task'[b] = B!NoTask /\ task[b].at = c
                          \/ task'[b] = task[b]
                          \/ /\ task[b].pc # "none" /\ task'[b].pc = "unwind"
                             /\ task'[b].at = task[b].at
    <3>1. \A b \in Builds : /\ [task[b] EXCEPT !.pc = "unwind", !.rev = Original].pc = "unwind"
                            /\ [task[b] EXCEPT !.pc = "unwind", !.rev = Original].at = task[b].at
      BY <1>b
    <3>2. QED
      BY <2>2, <3>1 DEF B!At
  <2>7. child' = [child EXCEPT ![c] = "drain"] /\ Alive(c)
    BY <1>a, <2>1 DEF Alive
  <2>8. QED
    BY <1>4, <2>1, <2>5, <2>6, <2>7
<1>7. CASE Editing
  <2>1. /\ revision' \in Contents /\ past' = past \cup {revision'}
        /\ UNCHANGED <<child, row, source, task, executions, overlap>>
    BY <1>7 DEF Editing, OnlyBuilds, B!Edit
  <2>2. past' \subseteq Contents
    BY <1>b, <2>1
  <2>3. QED
    BY <2>1, <2>2 DEF BuildInv, B!BuildTypeOK, Once, Housed, Alone, Kept, AnsweredFor, Alive
<1>8. ASSUME NEW b \in Builds, NEW c \in Children, Building(b, c) PROVE BuildInv'
  <2>1. UNCHANGED <<child, overlap, revision, past>>
    BY <1>8 DEF Building, OnlyBuilds, B!BuildStep, B!Accept, B!Wait, B!Begin, B!Collect,
                B!FailToCollect, B!Unwind, B!Observe
  <2>2. overlap' \in BOOLEAN /\ Alone'
    BY <2>1 DEF BuildInv, Alone, Alive
  <2>3. CASE B!Accept(b, c)
    <3>1. PICK seen \in past : source' = [source EXCEPT ![b] = seen]
      BY <2>3 DEF B!Accept
    <3>2. /\ child[c] = "up" /\ row[b] = "none" /\ row' = [row EXCEPT ![b] = "queued"]
          /\ task' = [task EXCEPT ![b] = [at |-> c, pc |-> "new", rev |-> Original]]
          /\ executions' = executions
      BY <2>3 DEF B!Accept, B!KnownBuild, B!Set
    <3>3. seen \in Contents
      BY <1>b, <3>1
    <3>4. B!BuildTypeOK'
      <4>1. [at |-> c, pc |-> "new", rev |-> Original] \in
              [at : Children \cup {0}, pc : {"none", "new", "wait", "execute", "unwind"}, rev : Contents]
        BY <1>c
      <4>2. "queued" \in B!Unfinished
        BY DEF B!Unfinished
      <4>3. QED
        BY <1>b, <2>1, <3>1, <3>2, <3>3, <4>1, <4>2 DEF B!BuildTypeOK
    <3>5. /\ row'[b] = "queued" /\ task'[b].pc = "new" /\ task'[b].at = c /\ source'[b] = seen
          /\ \A d \in Builds \ {b} : row'[d] = row[d] /\ task'[d] = task[d] /\ source'[d] = source[d]
      BY <1>b, <3>1, <3>2
    <3>6. Once'
      BY <3>2, <3>5 DEF BuildInv, Once
    <3>7. Housed'
      BY <2>1, <3>2, <3>5 DEF BuildInv, Housed
    <3>8. Kept' /\ AnsweredFor'
      BY <2>1, <3>5 DEF BuildInv, Kept, AnsweredFor, B!Unfinished
    <3>9. QED
      BY <2>2, <3>4, <3>6, <3>7, <3>8 DEF BuildInv
  <2>4. CASE B!Begin(b, c)
    <3>1. /\ task[b].pc \in {"new", "wait"} /\ row' = [row EXCEPT ![b] = "running"]
          /\ task' = [task EXCEPT ![b].pc = "execute", ![b].rev = revision]
          /\ executions' = [executions EXCEPT ![b] = @ + 1]
          /\ source' = source
      BY <2>4 DEF B!Begin, B!At, B!Set
    <3>2. executions[b] = 0
      BY <3>1 DEF BuildInv, Once
    <3>3. /\ row'[b] = "running" /\ task'[b].pc = "execute" /\ task'[b].at = task[b].at
          /\ task'[b].rev = revision /\ executions'[b] = 1
          /\ \A d \in Builds \ {b} : /\ row'[d] = row[d] /\ task'[d] = task[d]
                                     /\ executions'[d] = executions[d]
      BY <1>b, <3>1, <3>2
    <3>4. B!BuildTypeOK'
      <4>1. task' \in [Builds -> [at : Children \cup {0},
                                  pc : {"none", "new", "wait", "execute", "unwind"}, rev : Contents]]
        BY <1>b, <3>1
      <4>2. row' \in [Builds -> {"none"} \cup B!Unfinished \cup B!Over]
        BY <1>b, <3>1 DEF B!Unfinished
      <4>3. executions' \in [Builds -> Nat]
        BY <1>b, <3>1
      <4>4. QED
        BY <1>b, <2>1, <3>1, <4>1, <4>2, <4>3 DEF B!BuildTypeOK
    <3>5. Once'
      BY <3>3 DEF BuildInv, Once
    <3>6. Housed'
      BY <2>1, <3>1, <3>3 DEF BuildInv, Housed
    <3>7. Kept' /\ AnsweredFor'
      BY <2>1, <3>3 DEF BuildInv, Kept, AnsweredFor, B!Unfinished
    <3>8. QED
      BY <2>2, <3>4, <3>5, <3>6, <3>7 DEF BuildInv
  <2>5. CASE B!Collect(b, c) \/ B!FailToCollect(b, c) \/ B!Unwind(b, c)
    <3>1. PICK over \in B!Over : row' = [row EXCEPT ![b] = over]
      BY <2>5 DEF B!Collect, B!FailToCollect, B!Unwind, B!Result, B!Set, B!Over
    <3>2. /\ task[b].pc # "none" /\ task' = [task EXCEPT ![b] = B!NoTask]
          /\ UNCHANGED <<source, executions>>
      BY <2>5 DEF B!Collect, B!FailToCollect, B!Unwind, B!At, B!Leaves
    <3>3. /\ row'[b] = over /\ task'[b].pc = "none"
          /\ \A d \in Builds \ {b} : row'[d] = row[d] /\ task'[d] = task[d]
      BY <1>b, <3>1, <3>2 DEF B!NoTask
    <3>4. over # "none" /\ over \notin B!Unfinished
      BY DEF B!Over, B!Unfinished
    <3>5. B!BuildTypeOK'
      <4>1. B!NoTask \in [at : Children \cup {0},
                          pc : {"none", "new", "wait", "execute", "unwind"}, rev : Contents]
        BY <1>c DEF B!NoTask
      <4>2. QED
        BY <1>b, <2>1, <3>1, <3>2, <4>1 DEF B!BuildTypeOK
    <3>6. Once' /\ Housed'
      BY <2>1, <3>2, <3>3, <3>4 DEF BuildInv, Once, Housed
    <3>7. Kept' /\ AnsweredFor'
      BY <2>1, <3>3, <3>4 DEF BuildInv, Kept, AnsweredFor
    <3>8. QED
      BY <2>2, <3>5, <3>6, <3>7 DEF BuildInv
  <2>6. CASE B!Observe(b, c)
    <3>1. /\ row[b] = "passed" /\ row' = [row EXCEPT ![b] = "stale"]
          /\ UNCHANGED <<source, task, executions>>
      BY <2>6 DEF B!Observe, B!Set
    <3>2. row'[b] = "stale" /\ \A d \in Builds \ {b} : row'[d] = row[d]
      BY <1>b, <3>1
    <3>3. B!BuildTypeOK'
      BY <1>b, <2>1, <3>1 DEF B!BuildTypeOK, B!Over
    <3>4. Once' /\ Housed'
      BY <2>1, <3>1, <3>2 DEF BuildInv, Once, Housed
    <3>5. Kept' /\ AnsweredFor'
      BY <2>1, <3>1, <3>2 DEF BuildInv, Kept, AnsweredFor, B!Unfinished
    <3>6. QED
      BY <2>2, <3>3, <3>4, <3>5 DEF BuildInv
  <2>7. CASE B!Wait(b, c)
    <3>1. /\ task[b].pc = "new" /\ task' = [task EXCEPT ![b].pc = "wait"]
          /\ UNCHANGED <<row, source, executions>>
      BY <2>7 DEF B!Wait, B!At
    <3>2. /\ task'[b].pc = "wait" /\ task'[b].at = task[b].at
          /\ \A d \in Builds \ {b} : task'[d] = task[d]
      BY <1>b, <3>1
    <3>3. B!BuildTypeOK'
      BY <1>b, <2>1, <3>1 DEF B!BuildTypeOK
    <3>4. Once' /\ Housed'
      BY <2>1, <3>1, <3>2 DEF BuildInv, Once, Housed
    <3>5. Kept' /\ AnsweredFor'
      BY <2>1, <3>1, <3>2 DEF BuildInv, Kept, AnsweredFor
    <3>6. QED
      BY <2>2, <3>3, <3>4, <3>5 DEF BuildInv
  <2>8. QED
    BY <1>8, <2>3, <2>4, <2>5, <2>6, <2>7 DEF Building, B!BuildStep
<1>9. QED
  BY <1>1, <1>2, <1>3, <1>5, <1>6, <1>7, <1>8 DEF DesktopNext

----------------------------------------------------------------------------
(* The theorems *)

IInv == TypeInv /\ Owned /\ NoneForgotten /\ Ledger /\ HealthInv /\ BuildInv

LEMMA IInvInit == DesktopInit => IInv
<1> SUFFICES ASSUME DesktopInit PROVE IInv
  OBVIOUS
<1>1. Init
  BY DEF DesktopInit
<1>2. Ledger
  BY <1>1, SupervisorAssumption DEF Init, Ledger
<1>3. QED
  BY <1>1, <1>2, TypeInit, OwnedInit, HealthInit, BuildInit DEF IInv

LEMMA IInvStep == IInv /\ [DesktopNext]_allVars => IInv'
<1> SUFFICES ASSUME IInv, [DesktopNext]_allVars PROVE IInv'
  OBVIOUS
<1>1. Manager
  BY ManagerSteps
<1>2. TypeInv' /\ TypeOK /\ TypeOK'
  BY <1>1, TypeStep DEF IInv, TypeInv
<1>3. QED
  BY <1>1, <1>2, OwnedStep, LedgerStep, HealthStepKeeps, BuildKeeps DEF IInv

LEMMA Invariant == DesktopSpec => []IInv
BY IInvInit, IInvStep, PTL DEF DesktopSpec

\* Every field of the supervisor, the processes and the builds keeps its type
\* (backend-manager.ts, build_operations.py).
THEOREM TypeCorrect == DesktopSpec => []TypesOK
<1>1. IInv => TypesOK
  BY DEF IInv, TypeInv, BuildInv, TypesOK
<1>2. QED
  BY <1>1, Invariant, PTL

\* No interleaving of starts, exits, health checks and the quit leaves a living backend
\* that the manager does not know and has not asked to end (backend-manager.ts: start,
\* terminateOwnedProcess).
THEOREM NoBackendIsForgotten == DesktopSpec => []NoneForgotten
<1>1. IInv => NoneForgotten
  BY DEF IInv
<1>2. QED
  BY <1>1, Invariant, PTL

\* There are no more restarts than delays, beside those that left the window
\* (backend-recovery.ts: nextDelay; backend-manager.ts: scheduleOwnedRestart).
THEOREM RestartsAreBounded == DesktopSpec => []RestartsBounded
<1>1. IInv => RestartsBounded
  <2> SUFFICES ASSUME IInv PROVE RestartsBounded
    OBVIOUS
  <2>1. restarts <= used + lapses
    BY DEF IInv, Ledger
  <2>2. restarts \in Nat /\ used \in 0 .. Delays /\ lapses \in Nat /\ Delays \in Nat
    BY SupervisorAssumption DEF IInv, TypeInv, TypeOK
  <2>3. QED
    BY <2>1, <2>2 DEF RestartsBounded
<1>2. QED
  BY <1>1, Invariant, PTL

\* A backend is terminated for its health after two bad answers of its own, whatever
\* processes came and went during the check (backend-manager.ts: startHealthSupervisor).
THEOREM EachIsJudgedByItsOwn == DesktopSpec => JudgedByItsOwn
<1> DEFINE Fair == \A c \in signalled' \ signalled : check'.pc = "kill" => bad[c] >= 2
<1>1. ASSUME IInv, Manager, check.pc = "probe" PROVE Fair \/ UNCHANGED vars
  <2>1. ASSUME signalled' \subseteq signalled PROVE Fair
    BY <2>1
  <2>2. ASSUME check' = check PROVE Fair
    BY <1>1, <2>2
  <2>3. CASE HealthAnswered
    <3>1. CASE UNCHANGED signalled
      BY <2>1, <3>1
    <3>2. CASE signalled' # signalled
      <4>1. /\ Judges /\ Terminates /\ check.answer # "none"
            /\ ~((IF check.answer = "healthy" THEN 0 ELSE failures + 1) < 2)
        BY <2>3, <3>2 DEF HealthAnswered
      <4>2. check.answer # "healthy" /\ ~(failures + 1 < 2)
        BY <4>1
      <4>3. check.kid = process /\ process \in Children /\ state = "ready"
        BY <1>1, <4>1 DEF IInv, HealthInv, Asked, Judges
      <4>4. failures + 1 <= bad[process]
        BY <1>1, <4>1, <4>2, <4>3 DEF IInv, HealthInv, Counted, Ahead, Children
      <4>5. failures \in 0 .. 2 /\ bad[process] \in Nat
        BY <1>1, <4>3 DEF IInv, TypeInv, TypeOK
      <4>6. bad[process] >= 2
        BY <4>2, <4>4, <4>5
      <4>7. signalled' \ signalled \subseteq {process}
        BY <4>1 DEF Terminates
      <4>8. QED
        BY <4>6, <4>7
    <3>3. QED
      BY <3>1, <3>2
  <2>4. CASE World \/ TimerFires \/ StartAnswer \/ StartReuses \/ StartFailsToSpawn \/ StartSpawns
             \/ WaitAnswered \/ Stop
    <3>1. check' = check
      BY <2>4 DEF World, TimerFires, StartAnswer, StartReuses, StartFailsToSpawn, StartSpawns,
                  WaitAnswered, Stop, supervisor
    <3>2. QED
      BY <2>2, <3>1
  <2>5. ASSUME NEW late \in BOOLEAN, WaitLoops(late) \/ StartKilled(late) \/ StopKilled(late) PROVE Fair
    <3>1. check' = check
      BY <2>5 DEF WaitLoops, StartKilled, StopKilled
    <3>2. QED
      BY <2>2, <3>1
  <2>6. ASSUME NEW late \in BOOLEAN, HealthKilled(late) PROVE Fair
    BY <2>1, <2>6 DEF HealthKilled
  <2>7. ASSUME NEW c \in Children, ExitEvent(c) PROVE Fair
    BY <2>1, <2>7 DEF ExitEvent
  <2>8. CASE HealthTick \/ HealthAnswer
    BY <2>1, <2>8 DEF HealthTick, HealthAnswer
  <2>9. QED
    BY <1>1, <2>3, <2>4, <2>5, <2>6, <2>7, <2>8 DEF Manager
<1>2. IInv /\ [DesktopNext]_allVars => [check.pc = "probe" => Fair]_vars
  BY <1>1, ManagerSteps
<1>3. QED
  BY <1>2, Invariant, PTL DEF DesktopSpec, JudgedByItsOwn

\* A build is executed at most once under its id, whatever is asked again and restarted
\* (build_operations.py: accept, __init__).
THEOREM BuildsRunOnce == DesktopSpec => []ExecutedOnce
<1>1. IInv => ExecutedOnce
  BY DEF IInv, BuildInv, Once, ExecutedOnce
<1>2. QED
  BY <1>1, Invariant, PTL

\* While no two backends share the database, an unfinished build has its task in the
\* backend that answers for it (build_operations.py: __init__, close).
THEOREM NoBuildIsAGhost == DesktopSpec => []NoGhostBuilds
<1>1. IInv => NoGhostBuilds
  BY DEF IInv, BuildInv, AnsweredFor, NoGhostBuilds
<1>2. QED
  BY <1>1, Invariant, PTL

\* What a step of the whole does to the row of a build: Collect saves the result of an
\* execution, Observe finds a passed one stale, and only a task, a request or a
\* backend that boots changes another one.
LEMMA RowSteps ==
    ASSUME TypeOK, BuildInv, DesktopNext, NEW b \in Builds, row'[b] # row[b]
    PROVE  \/ /\ task[b].pc = "execute" /\ row'[b] \in B!Result(b)
           \/ /\ task[b].pc # "none" /\ row'[b] \in {"running", "failed", "interrupted"}
           \/ row[b] = "passed" /\ row'[b] = "stale"
           \/ row[b] = "none" /\ row'[b] = "queued"
           \/ row[b] \in B!Unfinished /\ row'[b] = "interrupted"
<1>1. row \in [Builds -> {"none"} \cup B!Unfinished \cup B!Over]
  BY DEF BuildInv, B!BuildTypeOK
<1>2. CASE row' = row
  BY <1>2
<1>3. ASSUME NEW c \in Children, Loading(c)
      PROVE  row[b] \in B!Unfinished /\ row'[b] = "interrupted"
  BY <1>3 DEF Loading, B!Marked, B!BootMarks
<1>4. ASSUME NEW d \in Builds, NEW c \in Children, Building(d, c)
      PROVE  \/ /\ task[b].pc = "execute" /\ row'[b] \in B!Result(b)
             \/ /\ task[b].pc # "none" /\ row'[b] \in {"running", "failed", "interrupted"}
             \/ row[b] = "passed" /\ row'[b] = "stale"
             \/ row[b] = "none" /\ row'[b] = "queued"
  <2>1. CASE B!Accept(d, c)
    BY <1>1, <2>1 DEF B!Accept, B!Set, B!KnownBuild
  <2>2. CASE B!Begin(d, c)
    BY <1>1, <2>2 DEF B!Begin, B!Set, B!At
  <2>3. CASE B!Collect(d, c)
    BY <1>1, <2>3 DEF B!Collect, B!Set, B!At
  <2>4. CASE B!FailToCollect(d, c) \/ B!Unwind(d, c)
    BY <1>1, <2>4 DEF B!FailToCollect, B!Unwind, B!Set, B!At
  <2>5. CASE B!Observe(d, c)
    BY <1>1, <2>5 DEF B!Observe, B!Set
  <2>6. CASE B!Wait(d, c)
    BY <2>6 DEF B!Wait
  <2>7. QED
    BY <1>4, <2>1, <2>2, <2>3, <2>4, <2>5, <2>6 DEF Building, B!BuildStep
<1>5. \/ row' = row \/ \E c \in Children : Loading(c)
      \/ \E d \in Builds, c \in Children : Building(d, c)
  BY DEF DesktopNext, Dying, Closing, B!Close, Editing, B!Edit, builds
<1>6. QED
  BY <1>2, <1>3, <1>4, <1>5

\* What was said of a build is not taken back, but for a source that changed, while no
\* two backends share the database (build_operations.py: __init__, _save).
THEOREM OutcomesStay == DesktopSpec => OutcomeStays
<1> DEFINE Stays(b) == row[b] \in B!Over /\ ~overlap' =>
                          row'[b] = row[b] \/ (row[b] = "passed" /\ row'[b] = "stale")
<1>1. overlap \in BOOLEAN /\ DesktopNext /\ ~overlap' => ~overlap
  BY DEF DesktopNext, Loading, Dying, Closing, Building, Editing, OnlyBuilds
<1>2. ASSUME IInv, DesktopNext, NEW b \in Builds PROVE Stays(b)
  <2> SUFFICES ASSUME row[b] \in B!Over, ~overlap', row'[b] # row[b]
               PROVE  row[b] = "passed" /\ row'[b] = "stale"
    OBVIOUS
  <2>1. ~overlap
    BY <1>1, <1>2 DEF IInv, BuildInv
  <2>2. row[b] \notin B!Unfinished /\ row[b] # "none"
    BY DEF B!Over, B!Unfinished
  <2>3. task[b].pc = "none"
    BY <1>2, <2>1, <2>2 DEF IInv, BuildInv, Kept
  <2>4. QED
    BY <1>2, <2>2, <2>3, RowSteps DEF IInv, TypeInv
<1>3. IInv /\ [DesktopNext]_allVars => [\A b \in Builds : Stays(b)]_allVars
  BY <1>2
<1>4. QED
  BY <1>3, Invariant, PTL DEF DesktopSpec, OutcomeStays

=============================================================================

------------------------- MODULE BackendSupervisor --------------------------
(***************************************************************************)
(* The desktop keeps one backend process running (electron:                *)
(* backend-manager.ts, backend-recovery.ts, and its use in main.ts).       *)
(*                                                                         *)
(* main.ts starts the manager once and stops it when the application       *)
(* quits; every other start comes from the restart timer.  Handlers run on *)
(* one event loop and are cut at their awaits: a health probe, a delay, the *)
(* exit of a process being terminated.  A probe is answered at one moment  *)
(* and its answer handled at a later one; a process dies at one moment and *)
(* its exit event is handled at a later one.                               *)
(***************************************************************************)
EXTENDS Integers, FiniteSets

CONSTANTS
    MaxSpawns,    \* bound: backend processes
    Delays,       \* number of restartDelaysMs: restarts allowed in the window
    MaxLapses,    \* bound: restarts older than the window
    MaxOthers     \* bound: times another program takes the port

ASSUME SupervisorAssumption ==
    /\ MaxSpawns \in Nat \ {0} /\ Delays \in Nat /\ MaxLapses \in Nat /\ MaxOthers \in Nat

Children == 1 .. MaxSpawns

VARIABLES
    state,        \* BackendState
    process,      \* this.process, 0 for null: ownsProcess is process # 0
    quitting,     \* intentionalStop, and the child whose exit stop() awaits
    timer,        \* restartTimer is set
    used,         \* restarts in BackendRecoveryPolicy's window
    starting,     \* the call of startInternal under way
    healthOn,     \* healthTimer is set
    check,        \* the health check under way
    failures,     \* of the health supervisor
    child,        \* the processes
    signalled,    \* children that were sent SIGTERM
    noticed,      \* children whose exit event was handled
    other,        \* the program on the port that is no child of ours
    bad,          \* consecutive bad answers of a child to its health checks
    restarts, lapses, others

supervisor == <<state, process, quitting, timer, used, starting, healthOn, check, failures>>
world == <<child, noticed, other, others>>
history == <<bad, restarts, lapses>>
vars == <<supervisor, world, signalled, history>>

Alive(c) == child[c] \notin {"none", "dead"}
Idle == [pc |-> "none", answer |-> "none", kid |-> 0, timed |-> FALSE]
NoCheck == [pc |-> "none", answer |-> "none", kid |-> 0]
Answers == {"healthy", "sick", "foreign", "refused"}

TypeOK ==
    /\ state \in {"stopped", "starting", "ready", "crashed"}
    /\ process \in 0 .. MaxSpawns
    /\ quitting \in [pc : {"no", "kill", "gone"}, kid : 0 .. MaxSpawns]
    /\ timer \in BOOLEAN /\ used \in 0 .. Delays
    /\ starting \in [pc : {"none", "probe", "wait", "delay", "kill"},
                    answer : Answers \cup {"none"}, kid : 0 .. MaxSpawns, timed : BOOLEAN]
    /\ healthOn \in BOOLEAN
    /\ check \in [pc : {"none", "probe", "kill"}, answer : Answers \cup {"none"}, kid : 0 .. MaxSpawns]
    /\ failures \in 0 .. 2
    /\ child \in [Children -> {"none", "boot", "loaded", "up", "deaf", "drain", "dead"}]
    /\ signalled \subseteq Children
    /\ noticed \subseteq Children
    /\ other \in {"none", "forgex", "foreign"}
    /\ bad \in [Children -> Nat]
    /\ restarts \in Nat /\ lapses \in Nat /\ others \in Nat

Init ==
    /\ state = "stopped" /\ process = 0 /\ quitting = [pc |-> "no", kid |-> 0]
    /\ timer = FALSE /\ used = 0
    /\ starting = [Idle EXCEPT !.pc = "probe"]
    /\ healthOn = FALSE /\ check = NoCheck
    /\ failures = 0
    /\ child = [c \in Children |-> "none"] /\ signalled = {}
    /\ noticed = {} /\ other = "none"
    /\ bad = [c \in Children |-> 0]
    /\ restarts = 0 /\ lapses = 0 /\ others = 0

Stopping == quitting.pc # "no"
Running == quitting.pc # "gone"

----------------------------------------------------------------------------
(* The processes and the port *)

Listening == {c \in Children : child[c] \in {"up", "deaf"}}

\* What a probe is answered: by a backend of ours, or by a compatible one of someone
\* else, that it is healthy; by one in trouble, that it is not, or nothing in time (sick).
Answered ==
    IF other = "forgex" \/ \E c \in Listening : child[c] = "up" THEN {"healthy"}
    ELSE IF other = "foreign" THEN {"foreign"}
    ELSE IF Listening # {} THEN {"sick"} ELSE {"refused"}

Same == UNCHANGED <<supervisor, signalled, history>>

\* A child builds its application, then listens if the port is free and it was not
\* asked to end meanwhile.
Loads(c) ==
    /\ child[c] = "boot"
    /\ child' = [child EXCEPT ![c] = "loaded"]
    /\ UNCHANGED <<noticed, other, others>> /\ Same

Listen(c) ==
    /\ child[c] = "loaded" /\ c \notin signalled /\ Listening = {} /\ other = "none"
    /\ child' = [child EXCEPT ![c] = "up"]
    /\ UNCHANGED <<noticed, other, others>> /\ Same

\* A child stops answering; after SIGTERM it leaves the port and closes its
\* application; it may die at any time.
Deafens(c) ==
    /\ child[c] = "up"
    /\ child' = [child EXCEPT ![c] = "deaf"]
    /\ UNCHANGED <<noticed, other, others>> /\ Same

Drains(c) ==
    /\ c \in Listening /\ c \in signalled
    /\ child' = [child EXCEPT ![c] = "drain"]
    /\ UNCHANGED <<noticed, other, others>> /\ Same

Dies(c) ==
    /\ Alive(c)
    /\ child' = [child EXCEPT ![c] = "dead"]
    /\ UNCHANGED <<noticed, other, others>> /\ Same

OtherComes ==
    /\ other = "none" /\ Listening = {} /\ others < MaxOthers
    /\ other' \in {"forgex", "foreign"} /\ others' = others + 1
    /\ UNCHANGED <<child, noticed>> /\ Same

OtherGoes ==
    /\ other # "none" /\ other' = "none"
    /\ UNCHANGED <<child, noticed, others>> /\ Same

----------------------------------------------------------------------------
(* scheduleOwnedRestart *)

\* nextDelay counts the restart, unless there were enough within the window.
\* Mutants: it does not count; it allows one too many, or one too few.
UncountedDelay(n) == n
NextDelay(n) == n + 1
OneTooMany(n) == n > Delays
OneTooFew(n) == n + 1 >= Delays
Exhausted(n) == n >= Delays

Schedules ==
    IF Stopping \/ timer THEN UNCHANGED <<timer, used, healthOn, lapses>>
    ELSE \E old \in 0 .. MaxLapses - lapses :
         /\ old <= used /\ lapses' = lapses + old
         /\ healthOn' = FALSE
         /\ IF Exhausted(used - old)
            THEN timer' = FALSE /\ used' = used - old
            ELSE timer' = TRUE /\ used' = NextDelay(used - old)
NoSchedule == UNCHANGED <<timer, used, healthOn, lapses>>

----------------------------------------------------------------------------
(* start *)

\* The promise fails: the calls of the restart timer schedule another restart.
Fails ==
    /\ starting' = Idle
    /\ IF starting.timed THEN Schedules ELSE NoSchedule

\* A call made while another one is under way shares its promise.
TimerFires ==
    /\ Running /\ timer
    /\ timer' = FALSE /\ restarts' = restarts + 1
    /\ IF Stopping \/ (state = "ready" /\ process # 0) THEN UNCHANGED starting
       ELSE starting' = IF starting = Idle THEN [Idle EXCEPT !.pc = "probe", !.timed = TRUE]
                        ELSE [starting EXCEPT !.timed = TRUE]
    /\ UNCHANGED <<state, process, quitting, used, healthOn, check, failures, world,
                   signalled, bad, lapses>>

\* A probe of start is answered.
StartAnswer ==
    /\ Running /\ starting.pc \in {"probe", "wait"} /\ starting.answer = "none"
    /\ \E a \in Answered : starting' = [starting EXCEPT !.answer = a]
    /\ UNCHANGED <<state, process, quitting, timer, used, healthOn, check, failures, world,
                   signalled, history>>

\* startInternal after the first probe, when it does not spawn.
\* Mutant: whether the application quits is not asked again.
SpawnsRegardless == starting.answer = "refused"
Spawns == starting.answer = "refused" /\ ~Stopping

StartReuses ==
    /\ Running /\ starting.pc = "probe" /\ starting.answer # "none" /\ ~Spawns
    /\ IF starting.answer = "healthy" /\ ~Stopping
       THEN state' = "ready" /\ process' = 0 /\ starting' = Idle /\ NoSchedule
       ELSE state' = (IF Stopping THEN state ELSE "crashed") /\ Fails /\ UNCHANGED process
    /\ UNCHANGED <<quitting, check, failures, world, signalled, bad, restarts>>

\* The spawn itself may fail.
StartFailsToSpawn ==
    /\ Running /\ starting.pc = "probe" /\ Spawns
    /\ state' = "crashed" /\ Fails
    /\ UNCHANGED <<process, quitting, check, failures, world, signalled, bad, restarts>>

StartSpawns ==
    /\ Running /\ starting.pc = "probe" /\ Spawns
    /\ \E c \in Children :
        /\ child[c] = "none" /\ \A d \in Children : d < c => child[d] # "none"
        /\ child' = [child EXCEPT ![c] = "boot"]
        /\ process' = c
    /\ state' = "starting"
    /\ starting' = [starting EXCEPT !.pc = "wait", !.answer = "none"]
    /\ UNCHANGED <<quitting, timer, used, healthOn, check, failures, noticed, other,
                   others, signalled, history>>

\* terminateOwnedProcess, up to the wait for the exit.
Terminates ==
    /\ process' = 0
    /\ signalled' = signalled \cup ({process} \ {0})

\* waitForReady throws: the child is terminated first.
Unready ==
    /\ Terminates
    /\ IF process = 0
       THEN state' = "crashed" /\ Fails
       ELSE /\ starting' = [starting EXCEPT !.pc = "kill", !.kid = process, !.answer = "none"]
            /\ NoSchedule

\* An answer while the child boots.
WaitAnswered ==
    /\ Running /\ starting.pc = "wait" /\ starting.answer # "none"
    /\ IF Stopping
       THEN Unready /\ (process # 0 => UNCHANGED state) /\ UNCHANGED failures
       ELSE IF starting.answer = "foreign"
       THEN Unready /\ state' = "crashed" /\ UNCHANGED failures
       ELSE IF starting.answer = "healthy"
       THEN /\ state' = "ready" /\ starting' = Idle
            /\ healthOn' = TRUE /\ failures' = 0
            /\ UNCHANGED <<process, signalled, timer, used, lapses>>
       ELSE /\ starting' = [starting EXCEPT !.pc = "delay", !.answer = "none"]
            /\ UNCHANGED <<state, process, signalled, failures>> /\ NoSchedule
    /\ UNCHANGED <<quitting, check, world, bad, restarts>>

\* The next turn of its loop, or the deadline.
WaitLoops(late) ==
    /\ Running /\ starting.pc = "delay"
    /\ IF late \/ Stopping \/ (state = "crashed" /\ process = 0)
       THEN /\ Unready
            /\ process # 0 => state' = IF late THEN "crashed" ELSE state
       ELSE /\ starting' = [starting EXCEPT !.pc = "wait"]
            /\ UNCHANGED <<state, process, signalled>> /\ NoSchedule
    /\ UNCHANGED <<quitting, check, failures, world, bad, restarts>>

\* terminateOwnedProcess resolves when the child is gone, or after five seconds:
\* child.killed is true since SIGTERM was sent, so SIGKILL never is.
Resolved(c, late) == ~late /\ c # 0 => child[c] = "dead"

StartKilled(late) ==
    /\ Running /\ starting.pc = "kill" /\ Resolved(starting.kid, late)
    /\ state' = "crashed" /\ Fails
    /\ UNCHANGED <<process, quitting, check, failures, world, signalled, bad, restarts>>

----------------------------------------------------------------------------
(* Exit events, health checks, stop *)

ExitEvent(c) ==
    /\ Running /\ child[c] = "dead" /\ c \notin noticed
    /\ noticed' = noticed \cup {c}
    /\ IF process = c
       THEN /\ state' = IF state = "stopped" THEN state ELSE "crashed"
            /\ process' = 0 /\ Schedules
       ELSE UNCHANGED <<state, process>> /\ NoSchedule
    /\ bad' = [bad EXCEPT ![c] = 0] /\ signalled' = signalled \ {c}
    /\ UNCHANGED <<quitting, starting, check, failures, child, other, others, restarts>>

HealthTick ==
    /\ Running /\ ~Stopping /\ healthOn /\ process # 0 /\ state = "ready" /\ check = NoCheck
    /\ check' = [pc |-> "probe", answer |-> "none", kid |-> process]
    /\ UNCHANGED <<state, process, quitting, timer, used, starting, healthOn, failures,
                   world, signalled, history>>

HealthAnswer ==
    /\ Running /\ check.pc = "probe" /\ check.answer = "none"
    /\ \E a \in Answered :
        /\ check' = [check EXCEPT !.answer = a]
        /\ bad' = [bad EXCEPT ![check.kid] = IF a = "healthy" THEN 0 ELSE @ + 1]
    /\ UNCHANGED <<state, process, quitting, timer, used, starting, healthOn, failures,
                   world, signalled, restarts, lapses>>

\* Only the child that was asked is judged by the answer.
\* Mutant: whatever child is there now.
JudgesAny == ~Stopping
Judges == process = check.kid /\ ~Stopping

HealthAnswered ==
    /\ Running /\ check.pc = "probe" /\ check.answer # "none"
    /\ LET n == IF check.answer = "healthy" THEN 0 ELSE failures + 1
       IN  IF ~Judges
           THEN check' = NoCheck /\ UNCHANGED <<state, process, signalled, failures>>
           ELSE /\ failures' = n
                /\ IF n < 2
                   THEN check' = NoCheck /\ UNCHANGED <<state, process, signalled>>
                   ELSE /\ state' = "crashed" /\ Terminates
                        /\ check' = [pc |-> "kill", answer |-> "none", kid |-> process]
    /\ UNCHANGED <<quitting, timer, used, starting, healthOn, world, history>>

HealthKilled(late) ==
    /\ Running /\ check.pc = "kill" /\ Resolved(check.kid, late)
    /\ check' = NoCheck /\ Schedules
    /\ UNCHANGED <<state, process, quitting, starting, failures, world, signalled, bad,
                   restarts>>

\* will-quit calls stop(), and the application exits after it.
Stop ==
    /\ ~Stopping
    /\ quitting' = [pc |-> "kill", kid |-> process]
    /\ timer' = FALSE /\ healthOn' = FALSE /\ state' = "stopped"
    /\ Terminates
    /\ UNCHANGED <<used, starting, check, failures, world, history>>

StopKilled(late) ==
    /\ quitting.pc = "kill" /\ Resolved(quitting.kid, late)
    /\ quitting' = [pc |-> "gone", kid |-> 0]
    /\ UNCHANGED <<state, process, timer, used, starting, healthOn, check, failures,
                   world, signalled, history>>

----------------------------------------------------------------------------
StartStep ==
    \/ StartReuses \/ StartFailsToSpawn \/ StartSpawns \/ WaitAnswered
    \/ \E late \in BOOLEAN : WaitLoops(late) \/ StartKilled(late)
HealthStep == HealthTick \/ HealthAnswer \/ HealthAnswered \/ \E late \in BOOLEAN : HealthKilled(late)
PortStep == OtherComes \/ OtherGoes \/ \E c \in Children : Listen(c) \/ Deafens(c) \/ Drains(c)

=============================================================================

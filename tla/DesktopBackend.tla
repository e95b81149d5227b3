--------------------------- MODULE DesktopBackend ---------------------------
(***************************************************************************)
(* The desktop's supervisor, the backends it starts one after another, and *)
(* the builds those have accepted in their common database.                *)
(***************************************************************************)
EXTENDS BackendSupervisor

CONSTANTS Builds, Contents, Original      \* of BuildOperations

ASSUME DesktopAssumption == Original \in Contents

VARIABLES
    row, source, task, revision, past, executions,   \* of BuildOperations
    overlap                                   \* two backends have shared the database

B == INSTANCE BuildOperations

builds == <<row, source, task, revision, past, executions>>
allVars == <<vars, builds, overlap>>

TypesOK == TypeOK /\ B!BuildTypeOK /\ overlap \in BOOLEAN

DesktopInit == Init /\ B!BuildInit /\ overlap = FALSE

\* A backend's own steps, with what they do to its builds.
Loading(c) ==
    /\ Loads(c) /\ B!Marked
    /\ overlap' = (overlap \/ \E d \in Children \ {c} : Alive(d))
    /\ UNCHANGED <<source, task, revision, past, executions>>
Dying(c) ==
    /\ Dies(c) /\ B!GoneAt(c)
    /\ UNCHANGED <<row, source, revision, past, executions, overlap>>
OnlyBuilds == UNCHANGED <<supervisor, noticed, other, others, signalled, history, overlap>>
Closing(c) == B!Close(c) /\ OnlyBuilds
Building(b, c) == B!BuildStep(b, c) /\ OnlyBuilds
Editing == B!Edit /\ OnlyBuilds

Supervising ==
    \/ PortStep \/ TimerFires \/ HealthStep
    \/ \E c \in Children : ExitEvent(c)
    \/ StartAnswer \/ StartStep
    \/ Stop \/ \E late \in BOOLEAN : StopKilled(late)

DesktopNext ==
    \/ \E c \in Children : Loading(c) \/ Closing(c) \/ Dying(c)
    \/ \E b \in Builds, c \in Children : Building(b, c)
    \/ Editing
    \/ Supervising /\ UNCHANGED <<builds, overlap>>

\* Timers fire, probes are answered, handlers go on, a backend loads,
\* and the deadline of waitForReady passes.
Fairness ==
    /\ WF_vars(TimerFires) /\ WF_vars(HealthStep) /\ WF_vars(\E c \in Children : ExitEvent(c))
    /\ WF_allVars(\E c \in Children : Loading(c)) /\ WF_vars(\E c \in Children : Listen(c))
    /\ WF_vars(StartAnswer \/ StartStep) /\ SF_vars(WaitLoops(TRUE))

DesktopSpec == DesktopInit /\ [][DesktopNext]_allVars /\ Fairness

----------------------------------------------------------------------------
(* Properties of the supervisor *)

\* A living backend that nobody has asked to end is the one the manager knows: no
\* interleaving of starts, exits, health checks and the quit forgets one
\* (backend-manager.ts: start, terminateOwnedProcess).
NoneForgotten ==
    \A c \in Children : Alive(c) /\ c \notin signalled => process = c /\ quitting.pc # "gone"

\* A backend is terminated for its health after two bad answers of its own
\* (backend-manager.ts: startHealthSupervisor).
JudgedByItsOwn ==
    [][check.pc = "probe" => \A c \in signalled' \ signalled : check'.pc = "kill" => bad[c] >= 2]_vars

\* Restarts are bounded by the delays, beside those that left the window
\* (backend-recovery.ts).
RestartsBounded == restarts <= Delays + lapses

\* A backend that was ready and died is replaced, by a new one or by a compatible one
\* that is there, unless the application quits, the restarts are used up, or there is no
\* process left of those the bound allows: the last one is dead or being terminated
\* (backend-manager.ts: exit handler, scheduleOwnedRestart).  The manager may also take a
\* backend to be there whose last answer came after its exit.
Replaced == state = "ready" /\ (process # 0 => Alive(process))
Expended(c) == child[c] = "dead" \/ (Alive(c) /\ c \in signalled)
GivenUp ==
    \/ Stopping \/ \A c \in Children : Expended(c)
    \/ used = Delays /\ ~timer /\ process = 0 /\ starting = Idle
Recovers ==
    \A c \in Children :
        (process = c /\ state = "ready" /\ child[c] = "dead") ~> (Replaced \/ GivenUp)

----------------------------------------------------------------------------
(* Properties of the builds *)

\* A build is executed at most once under its id, whatever is retried and restarted
\* (build_operations.py: accept).
ExecutedOnce == \A b \in Builds : executions[b] <= 1

\* A firmware said to be good was compiled from the source its request saw: "Bind the
\* canonical workspace revision to the captured bytes, not a live directory that can
\* change and then change back" (platformio_service.py:470-472).  False of the code, whose
\* execute() compares the live directory only (build.py: accept_build).
PassedIsTheSource ==
    [][\A b \in Builds : row'[b] = "passed" /\ row[b] # "passed" => task[b].rev = source[b]]_allVars

\* What was said of a build is not taken back, but for a source that changed, as long
\* as two backends do not share the database (build_operations.py: __init__, _save).
OutcomeStays ==
    [][\A b \in Builds : row[b] \in B!Over /\ ~overlap' =>
        row'[b] = row[b] \/ (row[b] = "passed" /\ row'[b] = "stale")]_allVars

\* An unfinished build belongs to a living backend, or no backend is there to answer
\* for it, as long as two backends do not share the database (build_operations.py:
\* __init__, close).
NoGhostBuilds ==
    \A b \in Builds : row[b] \in B!Unfinished /\ task[b].pc = "none" /\ ~overlap => \A c \in Children : child[c] # "up"

=============================================================================

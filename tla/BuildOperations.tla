-------------------------- MODULE BuildOperations ---------------------------
(***************************************************************************)
(* Addressable builds (backend/services/build_operations.py, used by       *)
(* api/routes/build.py and api/app.py).                                    *)
(*                                                                         *)
(* A build is a row of the database and a task of the backend that         *)
(* accepted it.  Backends come and go: one marks unfinished rows as        *)
(* interrupted when it boots, and cancels its tasks when it drains.        *)
(*                                                                         *)
(* A revision is the hash of what the project contains, so it stands for a *)
(* content, and an edit, an undo or a revert brings an earlier one back.   *)
(***************************************************************************)
EXTENDS Integers

CONSTANTS
    Children,     \* backend processes
    Builds,       \* operation ids, all of one project
    Contents,     \* what the project may contain
    Original      \* what it contains at first

VARIABLES
    child,        \* the processes, as the supervisor has them
    row,          \* desktop_build_operations: state
    source,       \* its source_revision
    task,         \* the backend whose task it is, where it is, and what it captured
    revision,     \* what the project contains
    past,         \* what it has contained
    executions    \* times a build was executed

Unfinished == {"queued", "running"}
Over == {"passed", "failed", "stale", "interrupted"}
NoTask == [at |-> 0, pc |-> "none", rev |-> Original]

BuildTypeOK ==
    /\ row \in [Builds -> {"none"} \cup Unfinished \cup Over]
    /\ source \in [Builds -> Contents]
    /\ task \in [Builds -> [at : Children \cup {0},
                            pc : {"none", "new", "wait", "execute", "unwind"}, rev : Contents]]
    /\ revision \in Contents /\ past \subseteq Contents
    /\ executions \in [Builds -> Nat]

BuildInit ==
    /\ row = [b \in Builds |-> "none"] /\ source = [b \in Builds |-> Original]
    /\ task = [b \in Builds |-> NoTask]
    /\ revision = Original /\ past = {Original} /\ executions = [b \in Builds |-> 0]

At(b, c, places) == task[b].at = c /\ task[b].pc \in places
Set(b, s) == row' = [row EXCEPT ![b] = s]
Leaves(b) == task' = [task EXCEPT ![b] = NoTask]

\* accept_build and accept: the source was inspected before, and may have been edited
\* since; an id that is known is answered with its row.
\* Mutant: only an unfinished build is.
KnownUnfinished(b) == row[b] \in Unfinished
KnownBuild(b) == row[b] # "none"

Accept(b, c) ==
    /\ child[c] = "up" /\ ~KnownBuild(b)
    /\ \E seen \in past : source' = [source EXCEPT ![b] = seen]
    /\ Set(b, "queued")
    /\ task' = [task EXCEPT ![b] = [at |-> c, pc |-> "new", rev |-> Original]]
    /\ UNCHANGED <<child, revision, past, executions>>

\* _run: one build of the project at a time in a backend; another one waits for the
\* lock.  platformio captures what is there and compiles that.
Locked(b, c) == \E d \in Builds \ {b} : At(d, c, {"execute"})

Wait(b, c) ==
    /\ At(b, c, {"new"}) /\ Locked(b, c)
    /\ task' = [task EXCEPT ![b].pc = "wait"]
    /\ UNCHANGED <<child, row, source, revision, past, executions>>

Begin(b, c) ==
    /\ At(b, c, {"new", "wait"}) /\ ~Locked(b, c)
    /\ Set(b, "running")
    /\ task' = [task EXCEPT ![b].pc = "execute", ![b].rev = revision]
    /\ executions' = [executions EXCEPT ![b] = @ + 1]
    /\ UNCHANGED <<child, source, revision, past>>

\* The source is inspected again, as it is now, and the result saved; the revision
\* that platformio captured is in the metadata and is not compared.
Result(b) == IF revision # source[b] THEN {"stale"} ELSE {"passed", "failed"}

Collect(b, c) ==
    /\ At(b, c, {"execute"})
    /\ \E s \in Result(b) : Set(b, s)
    /\ Leaves(b)
    /\ UNCHANGED <<child, source, revision, past, executions>>

\* Or there is none: unavailable, a failure to the properties.
FailToCollect(b, c) ==
    /\ At(b, c, {"execute"})
    /\ Set(b, "failed") /\ Leaves(b)
    /\ UNCHANGED <<child, source, revision, past, executions>>

\* A cancelled task saves that its result is unknown.
Unwind(b, c) ==
    /\ At(b, c, {"unwind"})
    /\ Set(b, "interrupted") /\ Leaves(b)
    /\ UNCHANGED <<child, source, revision, past, executions>>

\* observe_build: a firmware older than its source is not offered for flashing.
Observe(b, c) ==
    /\ child[c] = "up" /\ row[b] = "passed" /\ revision # source[b]
    /\ Set(b, "stale")
    /\ UNCHANGED <<child, source, task, revision, past, executions>>

Edit ==
    /\ revision' \in Contents \ {revision}
    /\ past' = past \cup {revision'}
    /\ UNCHANGED <<child, row, source, task, executions>>

\* What the steps of backend c do to the builds.  A new backend has marked the rows
\* before it listens.  close() cancels its tasks: one that never ran leaves its row as
\* it is.
Close(c) ==
    /\ child[c] = "drain" /\ \E b \in Builds : At(b, c, {"new", "wait", "execute"})
    /\ task' = [b \in Builds |->
        IF At(b, c, {"wait", "execute"}) THEN [task[b] EXCEPT !.pc = "unwind", !.rev = Original]
        ELSE IF At(b, c, {"new"}) THEN NoTask ELSE task[b]]
    /\ UNCHANGED <<child, row, source, revision, past, executions>>
GoneAt(c) == task' = [b \in Builds |-> IF task[b].at = c THEN NoTask ELSE task[b]]

\* Mutants: builds that wait are left; whatever did not pass is marked.
BootLeavesQueued(s) == s = "running"
BootMarksFailed(s) == s \in Unfinished \cup {"failed", "stale"}
BootMarks(s) == s \in Unfinished
Marked == row' = [b \in Builds |-> IF BootMarks(row[b]) THEN "interrupted" ELSE row[b]]

BuildStep(b, c) ==
    \/ Accept(b, c) \/ Wait(b, c) \/ Begin(b, c) \/ Collect(b, c) \/ FailToCollect(b, c) \/ Unwind(b, c) \/ Observe(b, c)

=============================================================================

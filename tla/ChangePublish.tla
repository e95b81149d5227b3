--------------------------- MODULE ChangePublish ---------------------------
(***************************************************************************)
(* Publication of reviewed ChangeSets to a workspace                       *)
(* (backend/changes/service.py, backend/security/workspace_lock.py).       *)
(*                                                                         *)
(* A ChangeSet holds a staged copy of the files an agent run changed.      *)
(* apply() publishes them to the workspace, undo() restores the originals, *)
(* discard() deletes the stage.  Both publications are write-ahead: the    *)
(* originals are saved below the stage, a journal file is written, the     *)
(* targets are replaced one by one, the ChangeSet's metadata is saved, the *)
(* journal is removed.  A journal that is found later, by the next start   *)
(* of the service or by the next call for the same ChangeSet, is rolled    *)
(* back.  Process death can come between any two of these steps and any    *)
(* disk operation named in Faults can raise.                               *)
(*                                                                         *)
(* A file's content stands for its sha256, as the code compares hashes.    *)
(* apply and undo hold the workspace lock and the service's own lock from  *)
(* their first read to their return, so one call is in progress at a time  *)
(* and `pc' is its program counter.                                        *)
(***************************************************************************)
EXTENDS Integers, FiniteSets

CONSTANTS
    Files,        \* paths of the workspace
    Contents,     \* what a file can hold
    ChangeSets,   \* identifiers of ChangeSets
    Absent,       \* "content" of a path that does not exist
    NoSet,        \* "identifier" when no call is in progress
    Faults,       \* disk operations that may raise OSError
    Edits,        \* who else writes: "managed", "offline", "external", "stage"
    MaxCrashes, MaxFaults, MaxEdits     \* bounds of the exploration

FaultKinds == {"mark", "backup", "journal", "target", "finish", "clean"}
EditKinds == {"managed", "offline", "external", "stage"}

ASSUME PublishAssumption ==
    /\ Absent \notin Contents
    /\ NoSet \notin ChangeSets
    /\ Faults \subseteq FaultKinds
    /\ Edits \subseteq EditKinds
    /\ MaxCrashes \in Nat /\ MaxFaults \in Nat /\ MaxEdits \in Nat

VARIABLES
    \* on disk
    ws,         \* the workspace
    staged,     \* staged[c]: the reviewed files in c's stage
    backup,     \* backup[c]: the originals below __undo__ in c's stage
    stageDir,   \* stageDir[c]: c's stage directory exists
    undoDir,    \* undoDir[c]: its __undo__ directory exists
    journal,    \* journal[c]: operation named by .publish-c.json, or "none"
    dstat,      \* dstat[c]: status in changeset-c.json, "none" without one
    base, new,  \* base[c], new[c]: baseline and reviewed tree (per-file hashes)
    \* in the process
    mem,        \* mem[c]: status in ChangeSetService._sets
    pc, kind, cur, todo, done, seen, rec, boot,   \* the call in progress
    \* history and bounds
    writer,     \* writer[f]: the ChangeSet whose publication wrote f last
    crashes, faults, edits

disk   == <<staged, backup, stageDir, undoDir>>
plan   == <<base, new>>
call   == <<kind, cur, todo, done, seen, rec, boot>>
bounds == <<crashes, edits>>
vars   == <<ws, staged, backup, stageDir, undoDir, journal, dstat, base, new,
            mem, pc, kind, cur, todo, done, seen, rec, boot, writer,
            crashes, faults, edits>>

Tree == [Files -> Contents \cup {Absent}]
Empty == [f \in Files |-> Absent]
Status == {"none", "draft", "pending", "applied", "undone", "discarded",
           "conflicted", "failed"}
Steps == {"down", "boot", "idle", "check", "mkdir", "backup", "begin", "write",
          "rollback", "markfail", "finish", "rmstage", "rcheck", "restore",
          "rclean", "rfinish", "rfail", "remove", "record"}

\* The paths of c's changed_files.
Changed(c) == {f \in Files : base[c][f] # new[c][f]}

\* What the call in progress wants at f, and what its validation found there.
Goal(f) == IF kind = "undo" THEN base[cur][f] ELSE new[cur][f]
Prior(f) == IF kind = "undo" THEN new[cur][f] ELSE base[cur][f]

\* desired_hash of a recovery, and the bytes it restores it from.
Desired(f) == IF journal[cur] = "apply" THEN base[cur][f] ELSE new[cur][f]
Source(f) == IF journal[cur] = "apply" THEN backup[cur][f] ELSE staged[cur][f]
\* Mutant: the journal's operations are mixed up.
SwappedCommitted == IF journal[cur] = "apply" THEN "undone" ELSE "applied"
Committed == IF journal[cur] = "apply" THEN "applied" ELSE "undone"

TypeOK ==
    /\ ws \in Tree
    /\ staged \in [ChangeSets -> Tree]
    /\ backup \in [ChangeSets -> Tree]
    /\ stageDir \in [ChangeSets -> BOOLEAN]
    /\ undoDir \in [ChangeSets -> BOOLEAN]
    /\ journal \in [ChangeSets -> {"none", "apply", "undo"}]
    /\ dstat \in [ChangeSets -> Status]
    /\ base \in [ChangeSets -> Tree]
    /\ new \in [ChangeSets -> Tree]
    /\ mem \in [ChangeSets -> Status]
    /\ pc \in Steps
    /\ kind \in {"none", "apply", "undo", "discard", "boot"}
    /\ cur \in ChangeSets \cup {NoSet}
    /\ (cur = NoSet) <=> (pc \in {"down", "boot", "idle"})
    /\ todo \subseteq Files
    /\ done \subseteq Files
    /\ seen \in Tree
    /\ rec \in {"none", "entry", "failed", "error"}
    /\ boot \subseteq ChangeSets
    /\ writer \in [Files -> ChangeSets \cup {NoSet}]
    /\ crashes \in Nat /\ faults \in Nat /\ edits \in Nat

Init ==
    /\ ws \in Tree
    /\ staged = [c \in ChangeSets |-> Empty]
    /\ backup = [c \in ChangeSets |-> Empty]
    /\ stageDir = [c \in ChangeSets |-> FALSE]
    /\ undoDir = [c \in ChangeSets |-> FALSE]
    /\ journal = [c \in ChangeSets |-> "none"]
    /\ dstat = [c \in ChangeSets |-> "none"]
    /\ base = [c \in ChangeSets |-> Empty]
    /\ new = [c \in ChangeSets |-> Empty]
    /\ mem = [c \in ChangeSets |-> "none"]
    /\ pc = "idle" /\ kind = "none" /\ cur = NoSet
    /\ todo = {} /\ done = {} /\ seen = Empty /\ rec = "none" /\ boot = {}
    /\ writer = [f \in Files |-> NoSet]
    /\ crashes = 0 /\ faults = 0 /\ edits = 0

---------------------------------------------------------------------------
(* Helpers of the steps *)

\* A disk operation of kind k raises.
Raises(k) == k \in Faults /\ faults < MaxFaults /\ faults' = faults + 1
Succeeds == faults' = faults

\* _mark: the metadata file is replaced, then the entry of _sets.
Mark(s) ==
    /\ dstat' = [dstat EXCEPT ![cur] = s]
    /\ mem' = [mem EXCEPT ![cur] = s]
    /\ Succeeds

\* _persist raises, before or after os.replace (the directory sync can fail).
MarkRaises(s) ==
    /\ Raises("mark")
    /\ dstat' \in {dstat, [dstat EXCEPT ![cur] = s]}
    /\ mem' = mem

\* The call returns (or raises) and both locks are released; during start-up
\* the constructor goes on with the next journal.
\* Mutant: the call returns with its locks held.
KeepsLocks == /\ kind' = "none" /\ cur' = cur /\ rec' = "none"
              /\ todo' = {} /\ done' = {} /\ seen' = Empty
NoCall == /\ kind' = "none" /\ cur' = NoSet /\ rec' = "none"
          /\ todo' = {} /\ done' = {} /\ seen' = Empty
Return == /\ pc' = IF kind = "boot" THEN "boot" ELSE "idle"
          /\ NoCall
          /\ boot' = boot
Goto(step) == pc' = step /\ UNCHANGED call
GotoWith(step, files) ==
    pc' = step /\ todo' = files /\ UNCHANGED <<kind, cur, done, seen, rec, boot>>

\* _atomic_write_bytes or unlink of one workspace file.
Put(f, v, who) == /\ ws' = [ws EXCEPT ![f] = v]
                  /\ writer' = [writer EXCEPT ![f] = who]

---------------------------------------------------------------------------
(* create_from_stage *)

\* An identifier is used once (uuid4); its stage is a new directory.
Unused(c) == mem[c] = "none" /\ ~stageDir[c]

\* The run takes its baseline (inspect_workspace) without any lock.
TakeBaseline(c) ==
    /\ pc \notin {"down", "boot"} /\ kind # "boot"
    /\ Unused(c) /\ base[c] # ws
    /\ base' = [base EXCEPT ![c] = ws]
    /\ UNCHANGED <<ws, disk, journal, dstat, new, mem, pc, call, writer,
                   faults, bounds>>

\* The finished stage is registered for review.  The set is in memory before
\* its metadata is written, and stays there when that raises.
Create(c, tree, status) ==
    /\ pc = "idle" /\ Unused(c) /\ tree # base[c]
    /\ new' = [new EXCEPT ![c] = tree]
    /\ staged' = [staged EXCEPT ![c] =
                    [f \in Files |-> IF tree[f] = base[c][f] THEN Absent ELSE tree[f]]]
    /\ stageDir' = [stageDir EXCEPT ![c] = TRUE]
    /\ mem' = [mem EXCEPT ![c] = status]
    /\ \/ dstat' = [dstat EXCEPT ![c] = status] /\ Succeeds
       \/ /\ Raises("mark")
          /\ dstat' \in {dstat, [dstat EXCEPT ![c] = status]}
    /\ UNCHANGED <<ws, backup, undoDir, journal, base, pc, call, writer, bounds>>

---------------------------------------------------------------------------
(* apply and undo: entry and validation *)

\* Take the locks; a journal left by an earlier call is recovered first.
Enter(c, k) ==
    /\ pc = "idle" /\ mem[c] # "none"
    /\ kind' = k /\ cur' = c
    /\ pc' = IF journal[c] = "none" THEN "check" ELSE "rcheck"
    /\ rec' = IF journal[c] = "none" THEN "none" ELSE "entry"
    /\ UNCHANGED <<ws, disk, journal, dstat, plan, mem, todo, done, seen, boot,
                   writer, faults, bounds>>

ManifestIntact(c) == \A f \in Changed(c) : staged[c][f] = new[c][f]

StageComplete(c) ==
    \A f \in Changed(c) : new[c][f] # Absent => staged[c][f] # Absent

\* Not pending, or a staged file cannot be opened: nothing is recorded.
ApplyRefused ==
    /\ pc = "check" /\ kind = "apply"
    /\ \/ mem[cur] # "pending" \/ ~stageDir[cur]
       \/ ws = base[cur] /\ ~StageComplete(cur)
    /\ Return
    /\ UNCHANGED <<ws, disk, journal, dstat, plan, mem, writer, faults, bounds>>

\* The tree hash differs from the baseline, or the stage from its manifest.
ApplyRejected ==
    /\ pc = "check" /\ kind = "apply"
    /\ mem[cur] = "pending" /\ stageDir[cur]
    /\ ws # base[cur] \/ (StageComplete(cur) /\ ~ManifestIntact(cur))
    /\ LET verdict == IF ws # base[cur] THEN "conflicted" ELSE "failed"
       IN Mark(verdict) \/ MarkRaises(verdict)
    /\ Return
    /\ UNCHANGED <<ws, disk, journal, plan, writer, bounds>>

\* Mutant: only the changed files are compared, not the tree they were reviewed in.
UncheckedTree ==
    /\ pc = "check" /\ kind = "apply"
    /\ mem[cur] = "pending" /\ stageDir[cur]
    /\ \A f \in Changed(cur) : ws[f] = base[cur][f]
    /\ ManifestIntact(cur)
    /\ Goto("mkdir")
    /\ UNCHANGED <<ws, disk, journal, dstat, plan, mem, writer, faults, bounds>>

ApplyValidated ==
    /\ pc = "check" /\ kind = "apply"
    /\ mem[cur] = "pending" /\ stageDir[cur]
    /\ ws = base[cur] /\ ManifestIntact(cur)
    /\ Goto("mkdir")
    /\ UNCHANGED <<ws, disk, journal, dstat, plan, mem, writer, faults, bounds>>

\* Mutant: undo does not look at the targets.
UncheckedTargets(c) ==
    /\ mem[c] = "applied" /\ stageDir[c]
    /\ \A f \in Changed(c) : base[c][f] # Absent => backup[c][f] = base[c][f]

UndoReady(c) ==
    /\ mem[c] = "applied" /\ stageDir[c]
    /\ \A f \in Changed(c) : /\ base[c][f] # Absent => backup[c][f] = base[c][f]
                             /\ ws[f] = new[c][f]

UndoRefused ==
    /\ pc = "check" /\ kind = "undo" /\ ~UndoReady(cur)
    /\ Return
    /\ UNCHANGED <<ws, disk, journal, dstat, plan, mem, writer, faults, bounds>>

UndoValidated ==
    /\ pc = "check" /\ kind = "undo" /\ UndoReady(cur)
    /\ Goto("begin")
    /\ UNCHANGED <<ws, disk, journal, dstat, plan, mem, writer, faults, bounds>>

---------------------------------------------------------------------------
(* apply and undo: publication *)

\* undo_root.mkdir(exist_ok=False)
MakeUndoDir ==
    /\ pc = "mkdir" /\ ~undoDir[cur] /\ Succeeds
    /\ undoDir' = [undoDir EXCEPT ![cur] = TRUE]
    /\ GotoWith("backup", {f \in Changed(cur) : base[cur][f] # Absent})
    /\ UNCHANGED <<ws, staged, backup, stageDir, journal, dstat, plan, mem,
                   writer, bounds>>

\* It raises FileExistsError, or any other OSError.
MakeUndoDirFails ==
    /\ pc = "mkdir"
    /\ IF undoDir[cur] THEN Succeeds ELSE Raises("backup")
    /\ Goto("markfail")
    /\ UNCHANGED <<ws, disk, journal, dstat, plan, mem, writer, bounds>>

SaveBackup(f) == backup' = [backup EXCEPT ![cur][f] = base[cur][f]]

BackUp(f) ==
    /\ pc = "backup" /\ f \in todo /\ SaveBackup(f) /\ Succeeds
    /\ GotoWith("backup", todo \ {f})
    /\ UNCHANGED <<ws, staged, stageDir, undoDir, journal, dstat, plan, mem,
                   writer, bounds>>

BackUpFails(f) ==
    /\ pc = "backup" /\ f \in todo /\ Raises("backup")
    /\ backup' = backup \/ SaveBackup(f)
    /\ GotoWith("markfail", {})
    /\ UNCHANGED <<ws, staged, stageDir, undoDir, journal, dstat, plan, mem,
                   writer, bounds>>

\* _begin_publish: every original is on disk, the journal is written.
\* Mutant: the journal is written before the backups.
JournalFirst == pc = "begin" \/ pc = "backup"
ReadyToBegin == pc = "begin" \/ (pc = "backup" /\ todo = {})
SetJournal(k) == journal' = [journal EXCEPT ![cur] = k]

BeginPublish ==
    /\ ReadyToBegin /\ SetJournal(kind) /\ Succeeds
    /\ GotoWith("write", Changed(cur))
    /\ UNCHANGED <<ws, disk, dstat, plan, mem, writer, bounds>>

\* apply marks the ChangeSet failed; undo recovers, journal or no journal.
BeginPublishFails ==
    /\ ReadyToBegin /\ Raises("journal")
    /\ journal' = journal \/ SetJournal(kind)
    /\ IF kind = "apply"
       THEN Goto("markfail")
       ELSE /\ pc' = "rcheck" /\ rec' = "error"
            /\ UNCHANGED <<kind, cur, todo, done, seen, boot>>
    /\ UNCHANGED <<ws, disk, dstat, plan, mem, writer, bounds>>

\* The ChangeSet owns f between apply's write and undo's.
Owner == IF kind = "apply" THEN cur ELSE NoSet

\* A file to delete, or for undo to replace, is not there any more.
Gone(f) == /\ ws[f] = Absent
           /\ IF kind = "undo" THEN new[cur][f] # Absent ELSE new[cur][f] = Absent

\* undo keeps the bytes it replaces (restored, deleted_created), and none for a file
\* that the apply deleted, whatever has come there since.
Replaced(f) == IF kind = "undo" /\ new[cur][f] = Absent THEN Absent ELSE ws[f]

WriteTarget(f) ==
    /\ pc = "write" /\ f \in todo /\ ~Gone(f)
    /\ Put(f, Goal(f), Owner) /\ Succeeds
    /\ todo' = todo \ {f} /\ done' = done \cup {f}
    /\ seen' = [seen EXCEPT ![f] = Replaced(f)]
    /\ UNCHANGED <<pc, kind, cur, rec, boot, disk, journal, dstat, plan, mem, bounds>>

\* The target may have been replaced when the write raises; `applied' (here
\* done) does not name it.
WriteTargetFails(f) ==
    /\ pc = "write" /\ f \in todo
    /\ \/ Gone(f) /\ Succeeds /\ UNCHANGED <<ws, writer>>
       \/ Raises("target") /\ UNCHANGED <<ws, writer>>
       \/ Raises("target") /\ ~Gone(f) /\ Put(f, Goal(f), Owner)
    /\ GotoWith("rollback", {})
    /\ UNCHANGED <<disk, journal, dstat, plan, mem, bounds>>

\* What rolling f back leaves there: apply writes the original it validated,
\* undo the bytes it replaced.
RolledBackTo(f) == IF kind = "undo" THEN seen[f] ELSE base[cur][f]
RollBackOwner(f) ==
    IF kind = "undo" /\ seen[f] = new[cur][f] THEN cur ELSE NoSet

\* Best-effort rollback of the writes that returned: an error is passed over.
RollBack(f) ==
    /\ pc = "rollback" /\ f \in done
    /\ \/ Put(f, RolledBackTo(f), RollBackOwner(f)) /\ Succeeds
       \/ Raises("target") /\ UNCHANGED <<ws, writer>>
    /\ done' = done \ {f}
    /\ UNCHANGED <<pc, kind, cur, todo, seen, rec, boot, disk, journal, dstat,
                   plan, mem, bounds>>

RolledBack ==
    /\ pc = "rollback" /\ done = {}
    /\ pc' = IF kind = "apply" THEN "markfail" ELSE "rcheck"
    /\ rec' = IF kind = "apply" THEN "none" ELSE "error"
    /\ UNCHANGED <<kind, cur, todo, done, seen, boot>>
    /\ UNCHANGED <<ws, disk, journal, dstat, plan, mem, writer, faults, bounds>>

\* The failed apply is recorded; what is left of it is recovered.
MarkFailed ==
    /\ pc = "markfail" /\ Mark("failed")
    /\ IF journal[cur] = "none" THEN Return
       ELSE /\ pc' = "rcheck" /\ rec' = "failed"
            /\ UNCHANGED <<kind, cur, todo, done, seen, boot>>
    /\ UNCHANGED <<ws, disk, journal, plan, writer, bounds>>

MarkFailedFails ==
    /\ pc = "markfail" /\ MarkRaises("failed") /\ Return
    /\ UNCHANGED <<ws, disk, journal, plan, writer, bounds>>

\* All targets are written: the new status is the commit point.
Outcome == IF kind = "apply" THEN "applied" ELSE "undone"

Commit ==
    /\ pc = "write" /\ todo = {} /\ Mark(Outcome)
    /\ GotoWith("finish", {})
    /\ UNCHANGED <<ws, disk, journal, plan, writer, bounds>>

CommitFails ==
    /\ pc = "write" /\ todo = {} /\ MarkRaises(Outcome) /\ Return
    /\ UNCHANGED <<ws, disk, journal, plan, writer, bounds>>

\* _finish_publish; undo then deletes the stage.
FinishPublish ==
    /\ pc = "finish" /\ SetJournal("none") /\ Succeeds
    /\ IF kind = "apply" THEN Return ELSE Goto("rmstage")
    /\ UNCHANGED <<ws, disk, dstat, plan, mem, writer, bounds>>

FinishPublishFails ==
    /\ pc = "finish" /\ Raises("finish")
    /\ journal' = journal \/ SetJournal("none")
    /\ Return
    /\ UNCHANGED <<ws, disk, dstat, plan, mem, writer, bounds>>

---------------------------------------------------------------------------
(* shutil.rmtree of a stage, by undo and by discard, one file at a time *)

Holds(c) == {f \in Files : staged[c][f] # Absent \/ backup[c][f] # Absent}

RemoveStaged(f) ==
    /\ pc \in {"rmstage", "remove"} /\ f \in Holds(cur)
    /\ staged' = [staged EXCEPT ![cur][f] = Absent]
    /\ backup' = [backup EXCEPT ![cur][f] = Absent]
    /\ UNCHANGED <<ws, stageDir, undoDir, journal, dstat, plan, mem, pc, call,
                   writer, faults, bounds>>

RemoveStage ==
    /\ pc \in {"rmstage", "remove"} /\ Holds(cur) = {}
    /\ stageDir' = [stageDir EXCEPT ![cur] = FALSE]
    /\ undoDir' = [undoDir EXCEPT ![cur] = FALSE]
    /\ IF pc = "remove" THEN Goto("record") ELSE Return
    /\ UNCHANGED <<ws, staged, backup, journal, dstat, plan, mem, writer,
                   faults, bounds>>

\* undo ignores the error, discard raises before it records anything.
RemoveStageFails ==
    /\ pc \in {"rmstage", "remove"} /\ Raises("clean") /\ Return
    /\ UNCHANGED <<ws, disk, journal, dstat, plan, mem, writer, bounds>>

---------------------------------------------------------------------------
(* discard: under the service's lock only; the journal is not consulted *)

Discard(c) ==
    /\ pc = "idle" /\ mem[c] \in {"pending", "draft"}
    /\ kind' = "discard" /\ cur' = c
    /\ pc' = IF stageDir[c] THEN "remove" ELSE "record"
    /\ UNCHANGED <<todo, done, seen, rec, boot>>
    /\ UNCHANGED <<ws, disk, journal, dstat, plan, mem, writer, faults, bounds>>

\* Memory first, then the metadata.
RecordDiscard ==
    /\ pc = "record"
    /\ mem' = [mem EXCEPT ![cur] = "discarded"]
    /\ \/ dstat' = [dstat EXCEPT ![cur] = "discarded"] /\ Succeeds
       \/ /\ Raises("mark")
          /\ dstat' \in {dstat, [dstat EXCEPT ![cur] = "discarded"]}
    /\ Return
    /\ UNCHANGED <<ws, disk, journal, plan, writer, bounds>>

---------------------------------------------------------------------------
(* _recover_publish *)

\* Where the caller goes on: the next journal of the start-up, the validation
\* of the call that found the journal, or the end of the call that failed.
Resume ==
    IF rec = "entry" /\ kind # "boot"
    THEN /\ pc' = "check" /\ rec' = "none" /\ todo' = {}
         /\ UNCHANGED <<kind, cur, done, seen, boot>>
    ELSE Return

\* The publication had reached its commit point.
RecoverCommitted ==
    /\ pc = "rcheck" /\ journal[cur] # "none" /\ mem[cur] = Committed
    /\ Goto("rfinish")
    /\ UNCHANGED <<ws, disk, journal, dstat, plan, mem, writer, faults, bounds>>

\* Every target holds its old or its new content, and what has to be put back
\* is at hand with the right hash.
\* Mutant: recovery overwrites whatever it finds.
RecoverAnyway ==
    /\ journal[cur] # "none" /\ stageDir[cur]
    /\ \A f \in Changed(cur) :
        ws[f] # Desired(f) /\ Desired(f) # Absent => Source(f) = Desired(f)

Recoverable ==
    /\ journal[cur] # "none" /\ stageDir[cur]
    /\ \A f \in Changed(cur) :
        /\ ws[f] \in {base[cur][f], new[cur][f]}
        /\ ws[f] # Desired(f) /\ Desired(f) # Absent => Source(f) = Desired(f)

RecoverRefused ==
    /\ pc = "rcheck" /\ ~Recoverable
    /\ journal[cur] = "none" \/ mem[cur] # Committed
    /\ Goto("rfail")
    /\ UNCHANGED <<ws, disk, journal, dstat, plan, mem, writer, faults, bounds>>

RecoverBegin ==
    /\ pc = "rcheck" /\ Recoverable /\ mem[cur] # Committed
    /\ GotoWith("restore", {f \in Changed(cur) : ws[f] # Desired(f)})
    /\ UNCHANGED <<ws, disk, journal, dstat, plan, mem, writer, faults, bounds>>

RestoredOwner == IF journal[cur] = "apply" THEN NoSet ELSE cur

Restore(f) ==
    /\ pc = "restore" /\ f \in todo /\ Put(f, Desired(f), RestoredOwner) /\ Succeeds
    /\ GotoWith("restore", todo \ {f})
    /\ UNCHANGED <<disk, journal, dstat, plan, mem, bounds>>

RestoreFails(f) ==
    /\ pc = "restore" /\ f \in todo /\ Raises("target")
    /\ UNCHANGED <<ws, writer>> \/ Put(f, Desired(f), RestoredOwner)
    /\ GotoWith("rfail", {})
    /\ UNCHANGED <<disk, journal, dstat, plan, mem, bounds>>

RecoveredStatus ==
    IF rec = "failed" THEN "failed"
    ELSE IF journal[cur] = "apply" THEN "pending" ELSE "applied"

\* Mutant: the ChangeSet is reopened before its files are back.
MarkedEarly ==
    /\ pc = "restore" /\ Mark(RecoveredStatus)
    /\ Goto(IF journal[cur] = "apply" THEN "rclean" ELSE "rfinish")
    /\ UNCHANGED <<ws, disk, journal, plan, writer, bounds>>

MarkRecovered ==
    /\ pc = "restore" /\ todo = {} /\ Mark(RecoveredStatus)
    /\ Goto(IF journal[cur] = "apply" THEN "rclean" ELSE "rfinish")
    /\ UNCHANGED <<ws, disk, journal, plan, writer, bounds>>

MarkRecoveredFails ==
    /\ pc = "restore" /\ todo = {} /\ MarkRaises(RecoveredStatus)
    /\ Goto("rfail")
    /\ UNCHANGED <<ws, disk, journal, plan, writer, bounds>>

\* A recovered apply deletes its backups: the next apply makes its own.
CleanBackup(f) ==
    /\ pc = "rclean" /\ backup[cur][f] # Absent
    /\ backup' = [backup EXCEPT ![cur][f] = Absent]
    /\ UNCHANGED <<ws, staged, stageDir, undoDir, journal, dstat, plan, mem, pc,
                   call, writer, faults, bounds>>

CleanUndoDir ==
    /\ pc = "rclean" /\ \A f \in Files : backup[cur][f] = Absent
    /\ undoDir' = [undoDir EXCEPT ![cur] = FALSE]
    /\ Goto("rfinish")
    /\ UNCHANGED <<ws, staged, backup, stageDir, journal, dstat, plan, mem,
                   writer, faults, bounds>>

CleanFails ==
    /\ pc = "rclean" /\ Raises("clean") /\ Goto("rfail")
    /\ UNCHANGED <<ws, disk, journal, dstat, plan, mem, writer, bounds>>

RecoverFinish ==
    /\ pc = "rfinish" /\ SetJournal("none") /\ Succeeds /\ Resume
    /\ UNCHANGED <<ws, disk, dstat, plan, mem, writer, bounds>>

RecoverFinishFails ==
    /\ pc = "rfinish" /\ Raises("finish")
    /\ journal' = journal \/ SetJournal("none")
    /\ Goto("rfail")
    /\ UNCHANGED <<ws, disk, dstat, plan, mem, writer, bounds>>

\* The exception handler: the ChangeSet is set aside, its journal stays.
RefusedStatus == IF rec = "failed" THEN "failed" ELSE "conflicted"

\* Mutants: the refused recovery forgets its journal, or to set the ChangeSet aside.
RefusedAndForgotten ==
    /\ pc = "rfail" /\ Mark(RefusedStatus) /\ Resume /\ SetJournal("none")
    /\ UNCHANGED <<ws, disk, plan, writer, bounds>>

RefusedUnmarked ==
    /\ pc = "rfail" /\ Succeeds /\ Resume
    /\ UNCHANGED <<ws, disk, journal, dstat, plan, mem, writer, bounds>>

MarkRefused ==
    /\ pc = "rfail" /\ Mark(RefusedStatus) /\ Resume
    /\ UNCHANGED <<ws, disk, journal, plan, writer, bounds>>

\* A second error escapes: the call raises, at start-up the process ends.
MarkRefusedFails ==
    /\ pc = "rfail" /\ Raises("mark")
    /\ dstat' \in {dstat, [dstat EXCEPT ![cur] = RefusedStatus]}
    /\ NoCall
    /\ IF kind = "boot"
       THEN pc' = "down" /\ boot' = {} /\ mem' = [c \in ChangeSets |-> "none"]
       ELSE pc' = "idle" /\ UNCHANGED <<boot, mem>>
    /\ UNCHANGED <<ws, disk, journal, plan, writer, bounds>>

---------------------------------------------------------------------------
(* Process death, start-up, and the other writers of the workspace *)

Crash ==
    /\ pc # "down" /\ crashes < MaxCrashes
    /\ crashes' = crashes + 1
    /\ pc' = "down" /\ NoCall /\ boot' = {}
    /\ mem' = [c \in ChangeSets |-> "none"]
    /\ UNCHANGED <<ws, disk, journal, dstat, plan, writer, faults, edits>>

\* Mutants: start-up leaves journals alone, those of undo or all of them.
StartWith(journals) ==
    /\ pc = "down"
    /\ mem' = dstat
    /\ boot' = {c \in ChangeSets : dstat[c] # "none" /\ journal[c] \in journals}
    /\ pc' = "boot"
    /\ UNCHANGED <<kind, cur, todo, done, seen, rec>>
    /\ UNCHANGED <<ws, disk, journal, dstat, plan, writer, faults, bounds>>
StartWithoutUndo == StartWith({"apply"})
StartWithoutRecovery == StartWith({})

\* __init__: load the metadata, then recover each journal that exists.
Start ==
    /\ pc = "down"
    /\ mem' = dstat
    /\ boot' = {c \in ChangeSets : dstat[c] # "none" /\ journal[c] # "none"}
    /\ pc' = "boot"
    /\ UNCHANGED <<kind, cur, todo, done, seen, rec>>
    /\ UNCHANGED <<ws, disk, journal, dstat, plan, writer, faults, bounds>>

BootRecover(c) ==
    /\ pc = "boot" /\ c \in boot
    /\ pc' = "rcheck" /\ kind' = "boot" /\ cur' = c /\ rec' = "entry"
    /\ boot' = boot \ {c}
    /\ UNCHANGED <<todo, done, seen>>
    /\ UNCHANGED <<ws, disk, journal, dstat, plan, mem, writer, faults, bounds>>

BootDone ==
    /\ pc = "boot" /\ boot = {} /\ pc' = "idle"
    /\ UNCHANGED call
    /\ UNCHANGED <<ws, disk, journal, dstat, plan, mem, writer, faults, bounds>>

Edit(f, v) ==
    /\ edits < MaxEdits /\ edits' = edits + 1
    /\ v # ws[f] /\ Put(f, v, NoSet)
    /\ UNCHANGED <<disk, journal, dstat, plan, mem, pc, call, crashes, faults>>

\* A save, creation or deletion through the files API: it holds the workspace
\* lock, which discard does not take.
ManagedSave(f, v) ==
    /\ "managed" \in Edits
    /\ pc = "idle" \/ kind = "discard"
    /\ Edit(f, v)

\* A manual correction while the application is closed.
OfflineEdit(f, v) == "offline" \in Edits /\ pc = "down" /\ Edit(f, v)

\* Another editor saves while the application runs: the lock does not bind it.
ExternalEdit(f, v) == "external" \in Edits /\ pc # "down" /\ Edit(f, v)

\* A staged file changes after review.
StageEdit(c, f, v) ==
    /\ "stage" \in Edits /\ edits < MaxEdits /\ edits' = edits + 1
    /\ stageDir[c] /\ cur # c /\ f \in Changed(c) /\ v # staged[c][f]
    /\ staged' = [staged EXCEPT ![c][f] = v]
    /\ UNCHANGED <<ws, backup, stageDir, undoDir, journal, dstat, plan, mem, pc,
                   call, writer, crashes, faults>>

---------------------------------------------------------------------------
\* The steps of the call in progress: once entered, the thread runs on.
CallStep ==
    \/ ApplyRefused \/ ApplyRejected \/ ApplyValidated
    \/ UndoRefused \/ UndoValidated
    \/ MakeUndoDir \/ MakeUndoDirFails
    \/ BeginPublish \/ BeginPublishFails
    \/ RolledBack \/ MarkFailed \/ MarkFailedFails
    \/ Commit \/ CommitFails \/ FinishPublish \/ FinishPublishFails
    \/ RemoveStage \/ RemoveStageFails \/ RecordDiscard
    \/ RecoverCommitted \/ RecoverRefused \/ RecoverBegin
    \/ MarkRecovered \/ MarkRecoveredFails
    \/ CleanUndoDir \/ CleanFails \/ RecoverFinish \/ RecoverFinishFails
    \/ MarkRefused \/ MarkRefusedFails
    \/ BootDone
    \/ \E f \in Files :
        \/ BackUp(f) \/ BackUpFails(f)
        \/ WriteTarget(f) \/ WriteTargetFails(f) \/ RollBack(f)
        \/ RemoveStaged(f) \/ CleanBackup(f)
        \/ Restore(f) \/ RestoreFails(f)
    \/ \E c \in ChangeSets : BootRecover(c)

Environment ==
    \/ Crash \/ Start
    \/ \E c \in ChangeSets :
        \/ TakeBaseline(c)
        \/ \E tree \in Tree, s \in {"pending", "draft"} : Create(c, tree, s)
        \/ Enter(c, "apply") \/ Enter(c, "undo") \/ Discard(c)
        \/ \E f \in Files, v \in Contents \cup {Absent} : StageEdit(c, f, v)
    \/ \E f \in Files, v \in Contents \cup {Absent} :
        ManagedSave(f, v) \/ OfflineEdit(f, v) \/ ExternalEdit(f, v)

Next == CallStep \/ Environment

Spec == Init /\ [][Next]_vars

\* A call that was entered keeps running until it returns or the process dies.
FairSpec == Spec /\ WF_vars(CallStep)

---------------------------------------------------------------------------
(* Properties *)

\* Write-ahead: as long as an apply can still be rolled back, the original of
\* every file it has overwritten is in the backup directory (the comment above
\* _begin_publish in _apply_locked).
WriteAhead ==
    \A c \in ChangeSets : journal[c] = "apply" =>
        \A f \in Changed(c) : writer[f] = c => backup[c][f] = base[c][f]

\* At rest a journal belongs to a ChangeSet that can no longer be discarded or
\* edited: it is set aside, or its commit is already recorded.
JournalSetAside ==
    pc = "idle" => \A c \in ChangeSets :
        journal[c] # "none" => mem[c] \in {"conflicted", "failed", "applied", "undone"}

\* All or nothing: at rest, a file that a publication wrote last belongs to an
\* applied ChangeSet, or to one whose journal still says how to put it back.
NoOrphanPublication ==
    pc = "idle" => \A f \in Files, c \in ChangeSets :
        writer[f] = c => mem[c] = "applied" \/ journal[c] # "none"

\* Publication, rollback and recovery overwrite a file only where it holds what
\* the ChangeSet recorded for it, its old or its new content: never an edit
\* made by anybody else since.
PublisherPreservesEdits ==
    [][\A f \in Files : ws'[f] # ws[f] /\ edits' = edits
            => ws[f] \in {base[cur][f], new[cur][f]}]_vars

\* The commit of an apply leaves the workspace equal to the whole reviewed tree,
\* the commit of an undo has every changed file back at its baseline.
CommitMatchesReview ==
    [][\A c \in ChangeSets :
        /\ dstat[c] = "pending" /\ dstat'[c] = "applied" => ws' = new[c]
        /\ dstat[c] = "applied" /\ dstat'[c] = "undone"
            => \A f \in Changed(c) : ws'[f] = base[c][f]]_vars

\* A status committed on disk survives the start-up that finds the journal of
\* the same publication.
CommitSurvivesRestart ==
    [][\A c \in ChangeSets :
        /\ kind = "boot" /\ journal[c] = "apply" /\ dstat[c] = "applied"
            => dstat'[c] = "applied"
        /\ kind = "boot" /\ journal[c] = "undo" /\ dstat[c] = "undone"
            => dstat'[c] = "undone"]_vars

\* The workspace as recovery would leave it: what an unfinished publication has
\* written so far is masked.
Unfinished(c) == /\ journal[c] # "none"
                 /\ dstat[c] # IF journal[c] = "apply" THEN "applied" ELSE "undone"
Masks(c, f) == /\ Unfinished(c) /\ f \in Changed(c)
               /\ IF journal[c] = "apply" THEN writer[f] = c
                  ELSE writer[f] = NoSet /\ ws[f] = base[c][f]
Visible ==
    [f \in Files |->
        IF \E c \in ChangeSets : Masks(c, f)
        THEN LET c == CHOOSE c \in ChangeSets : Masks(c, f)
             IN IF journal[c] = "apply" THEN base[c][f] ELSE new[c][f]
        ELSE ws[f]]

\* apply and undo are atomic: through any interleaving of their steps with
\* process death, recovery and edits, the service behaves as AtomicPublish.
Atomic == INSTANCE AtomicPublish WITH tree <- Visible, status <- dstat, others <- edits
ImplementsAtomic == Atomic!Spec

\* No ChangeSet is left half-published while another one is published.  Start-up
\* deals with every journal before it serves a call, and a call with its own: only
\* a recovery that is refused breaks it, and the theorems that need it say so.
OneUnfinished ==
    \A c, d \in ChangeSets : Unfinished(c) /\ Unfinished(d) => c = d

\* Start-up deals with the journal of every ChangeSet it has loaded: the service
\* opens with the publication rolled back or confirmed, or with the ChangeSet
\* set aside, unless the process ends first.
StartSettles ==
    \A c \in ChangeSets :
        (pc = "boot" /\ mem[c] # "none" /\ journal[c] # "none")
            ~> \/ pc = "down"
               \/ pc = "idle" /\ (journal[c] = "none" \/ mem[c] \in {"conflicted", "failed"})

---------------------------------------------------------------------------
(* The inductive strengthening of WriteAhead and JournalSetAside (for      *)
(* "mark" \notin Faults), in named parts.                                  *)

\* Which call each step belongs to.
KindOfStep ==
    /\ pc \in {"down", "boot", "idle"} => kind = "none"
    /\ pc \in {"mkdir", "backup", "markfail"} => kind = "apply"
    /\ pc \in {"begin", "rmstage"} => kind = "undo"
    /\ pc \in {"check", "write", "rollback", "finish"} => kind \in {"apply", "undo"}
    /\ pc \in {"remove", "record"} => kind = "discard"
    /\ pc \in {"rcheck", "restore", "rclean", "rfinish", "rfail"}
          => kind \in {"apply", "undo", "boot"}
    /\ boot # {} => pc = "boot" \/ kind = "boot"

\* Memory mirrors the metadata; a ChangeSet without metadata has no trace.
MemoryMirrorsDisk ==
    /\ pc # "down" => mem = dstat
    /\ cur # NoSet => dstat[cur] # "none"
    /\ \A c \in ChangeSets : dstat[c] = "none" =>
          /\ journal[c] = "none" /\ c \notin boot
          /\ \A f \in Files : writer[f] # c

\* What the call in progress knows of its journal.
JournalOfStep ==
    /\ pc \in {"mkdir", "backup", "begin", "rmstage", "remove", "record"}
          => journal[cur] = "none"
    /\ pc = "check" => journal[cur] = "none" \/ mem[cur] = "conflicted"
    /\ pc \in {"write", "rollback", "finish"} => journal[cur] = kind
    /\ pc = "restore" => journal[cur] # "none"
    /\ pc = "rclean" => journal[cur] = "apply"
    /\ pc = "finish" => mem[cur] \in {"applied", "undone"}

\* The ChangeSet of a journal is being dealt with, will be, or is set aside.
JournalInHand ==
    pc # "down" => \A c \in ChangeSets :
        \/ journal[c] = "none"
        \/ mem[c] \in {"conflicted", "failed", "applied", "undone"}
        \/ c \in boot
        \/ /\ c = cur
           /\ pc \in {"write", "rollback", "markfail", "rcheck", "restore",
                       "rclean", "rfinish", "rfail"}

\* An owner's content is what it published.
OwnerContent == \A f \in Files, c \in ChangeSets : writer[f] = c => ws[f] = new[c][f]

\* Backups exist only below __undo__, and they are complete before any write.
BackupsComplete ==
    /\ \A c \in ChangeSets : ~undoDir[c] => \A f \in Files : backup[c][f] = Absent
    /\ pc = "backup" =>
          /\ undoDir[cur]
          /\ \A f \in Changed(cur) \ todo : backup[cur][f] = base[cur][f]
    /\ pc = "write" /\ kind = "apply" =>
          \A f \in Changed(cur) : backup[cur][f] = base[cur][f]

\* A recovered apply owns nothing any more when its backups are deleted.
RestoredFirst ==
    /\ pc = "restore" /\ journal[cur] = "apply" =>
          \A f \in Changed(cur) \ todo : writer[f] # cur
    /\ pc = "rclean" => \A f \in Changed(cur) : writer[f] # cur

IInv ==
    /\ TypeOK
    /\ KindOfStep
    /\ MemoryMirrorsDisk
    /\ JournalOfStep
    /\ JournalInHand
    /\ OwnerContent
    /\ BackupsComplete
    /\ RestoredFirst
    /\ WriteAhead

---------------------------------------------------------------------------
(* The inductive strengthening of NoOrphanPublication and                  *)
(* CommitSurvivesRestart (for Faults \cap {"mark", "journal", "finish"} =  *)
(* {}), on top of IInv.                                                    *)

\* A file belongs to a ChangeSet that changes it, was not undone, and is applied
\* or has a journal.
OwnersAnswer ==
    \A f \in Files, c \in ChangeSets : writer[f] = c =>
        /\ f \in Changed(c)
        /\ dstat[c] # "undone"
        /\ dstat[c] = "applied" \/ journal[c] # "none"

\* The files a call has before it, or behind it, are its ChangeSet's.
TargetsChanged ==
    /\ pc \in {"write", "restore"} => todo \subseteq Changed(cur)
    /\ pc \in {"write", "rollback"} => done \subseteq Changed(cur)
    /\ pc = "write" /\ kind = "undo" => \A f \in Changed(cur) \ todo : writer[f] # cur
    /\ done # {} => pc \in {"write", "rollback", "finish", "rmstage"}

\* What is recorded for the ChangeSet at each step of its call.
StatusOfStep ==
    /\ pc \in {"mkdir", "backup", "markfail"} => dstat[cur] = "pending"
    /\ pc = "begin" => dstat[cur] = "applied"
    /\ pc \in {"write", "rollback"}
          => dstat[cur] = IF kind = "apply" THEN "pending" ELSE "applied"
    /\ pc = "finish" => dstat[cur] = Outcome
    /\ pc \in {"remove", "record"} => dstat[cur] \in {"pending", "draft"}

\* A recovery has a journal; it restores and refuses what was not committed, and
\* when it is about to delete the journal nothing depends on it.
RecoveryOfStep ==
    /\ pc \in {"rcheck", "restore", "rclean", "rfinish", "rfail"} => journal[cur] # "none"
    /\ cur \notin boot /\ \A c \in boot : journal[c] # "none"
    /\ pc = "markfail" => journal[cur] # "undo"
    /\ pc \in {"restore", "rclean", "rfail"} => dstat[cur] # Committed
    /\ pc = "rfinish" => dstat[cur] = "applied" \/ \A f \in Files : writer[f] # cur
    /\ rec = "failed" => journal[cur] = "apply"
          /\ pc \in {"rcheck", "restore", "rclean", "rfinish", "rfail"}

OInv ==
    /\ IInv
    /\ OwnersAnswer
    /\ TargetsChanged
    /\ StatusOfStep
    /\ RecoveryOfStep

---------------------------------------------------------------------------
(* The inductive strengthening of PublisherPreservesEdits and              *)
(* CommitMatchesReview (for "external" \notin Edits).                       *)

\* A call is about a registered ChangeSet.
CallerKnown ==
    /\ cur # NoSet => mem[cur] # "none"
    /\ \A c \in boot : mem[c] # "none"
    /\ pc # "down" => \A c \in ChangeSets : dstat[c] # "none" => mem[c] # "none"

\* What the validated call still knows of its targets.
TargetsKnown ==
    /\ pc \in {"mkdir", "backup"} => ws = base[cur]
    /\ pc = "begin" => \A f \in Changed(cur) : ws[f] = new[cur][f]
    /\ pc = "write" =>
          /\ todo \subseteq Changed(cur) /\ Changed(cur) \subseteq todo \cup done
          /\ \A f \in todo : ws[f] = Prior(f)
          /\ kind = "apply" => \A f \in Files \ Changed(cur) : ws[f] = base[cur][f]
    /\ pc \in {"write", "rollback"} =>
          /\ done \subseteq Changed(cur)
          /\ \A f \in done : ws[f] = Goal(f) /\ seen[f] = Prior(f)
    /\ done # {} => pc \in {"write", "rollback", "finish", "rmstage"}
    /\ pc = "restore" =>
          \A f \in todo : ws[f] \in {base[cur][f], new[cur][f]}

\* Only what was applied is undone; a recovered apply was not committed.
AppliedBeforeUndo ==
    /\ \A c \in ChangeSets :
          journal[c] = "undo" \/ mem[c] = "applied"
              => dstat[c] \notin {"none", "draft", "pending"}
    /\ pc = "begin" => mem[cur] = "applied"
    /\ pc = "restore" => journal[cur] # "none" /\ mem[cur] # Committed

EInv ==
    /\ TypeOK
    /\ KindOfStep
    /\ CallerKnown
    /\ TargetsKnown
    /\ AppliedBeforeUndo

---------------------------------------------------------------------------
(* What the refinement of AtomicPublish needs on top of OInv and EInv.     *)

\* The statuses a journal can meet.
JournalStatus ==
    \A c \in ChangeSets :
        /\ journal[c] = "apply" => dstat[c] \in {"pending", "failed", "conflicted", "applied"}
        /\ journal[c] = "undo" => dstat[c] \in {"applied", "conflicted", "undone"}

\* Where the files are that the call has dealt with.
FilesOfStep ==
    /\ pc \in {"write", "rollback"} => \A f \in done : writer[f] = Owner
    /\ pc = "restore" => \A f \in Changed(cur) \ todo : ws[f] = Desired(f)
    /\ pc = "rfinish" /\ journal[cur] = "undo" /\ dstat[cur] # "undone"
          => \A f \in Changed(cur) : ws[f] = new[cur][f]
    /\ rec = "failed" => dstat[cur] = "failed"

AInv ==
    /\ OInv
    /\ EInv
    /\ JournalStatus
    /\ FilesOfStep

---------------------------------------------------------------------------
(* The inductive strengthening of OneUnfinished, for the case in which     *)
(* nothing but a backup fails to be written (Faults \subseteq {"backup"})  *)
(* and nobody writes behind the lock (Edits \subseteq {"managed"}): every  *)
(* recovery then succeeds.                                                 *)

\* An unfinished publication is in progress, or its recovery is or will be.
UnfinishedInHand ==
    /\ pc \notin {"rollback", "rfail"}
    /\ \A c \in ChangeSets : Unfinished(c) =>
        \/ pc = "down"
        \/ c \in boot
        \/ c = cur /\ pc \in {"write", "rcheck", "restore", "rclean", "rfinish"}

\* The stage is whole from the validation of an apply to the commit of the undo.
StagesWhole ==
    /\ \A c \in ChangeSets :
        Unfinished(c) \/ dstat[c] = "applied" \/ (c = cur /\ pc \in {"mkdir", "backup"})
            => stageDir[c] /\ ManifestIntact(c)
    /\ pc = "rmstage" => dstat[cur] = "undone"
    /\ pc = "markfail" => journal[cur] = "none"

\* What has to be put back is at hand.
OriginalsAtHand ==
    /\ \A c \in ChangeSets : Unfinished(c) => \A f \in Changed(c) :
        /\ ws[f] \in {base[c][f], new[c][f]}
        /\ journal[c] = "apply" /\ ws[f] # base[c][f] => backup[c][f] = base[c][f]
    /\ pc = "rclean" => \A f \in Changed(cur) : ws[f] = base[cur][f]

UInv ==
    /\ AInv
    /\ OneUnfinished
    /\ UnfinishedInHand
    /\ StagesWhole
    /\ OriginalsAtHand
=============================================================================

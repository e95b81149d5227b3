--------------------------- MODULE AtomicPublish ---------------------------
(***************************************************************************)
(* What ChangeSetService promises its callers, without journals, backups   *)
(* or process death: apply and undo change the workspace in one step       *)
(* together with the ChangeSet's status, and nothing else that happens to  *)
(* a ChangeSet changes the workspace, but for a recovery that takes what   *)
(* somebody else has written for its own publication, because the contents *)
(* are the same.                                                           *)
(***************************************************************************)
EXTENDS Naturals

CONSTANTS Files, Contents, ChangeSets, Absent

VARIABLES
    tree,       \* the workspace, as recovery would leave it
    status,     \* status[c]: the recorded status of c
    base, new,  \* base[c], new[c]: the tree reviewed and the tree it becomes
    others      \* how often somebody else has written

avars == <<tree, status, base, new, others>>

Trees == [Files -> Contents \cup {Absent}]
Touches(c) == {f \in Files : base[c][f] # new[c][f]}
Holds(t, c) == \A f \in Touches(c) : tree[f] = t[c][f]
SetStatus(c, s) == status' = [status EXCEPT ![c] = s]

Init ==
    /\ tree \in Trees
    /\ status = [c \in ChangeSets |-> "none"]
    /\ base = [c \in ChangeSets |-> [f \in Files |-> Absent]]
    /\ new = base /\ others = 0

\* A run takes a baseline, from the live workspace or from one in transit.
Baseline(c) ==
    /\ status[c] = "none"
    /\ \E t \in Trees : base' = [base EXCEPT ![c] = t]
    /\ UNCHANGED <<tree, status, new, others>>

Register(c) ==
    /\ status[c] = "none"
    /\ \E t \in Trees, s \in {"pending", "draft"} :
        t # base[c] /\ new' = [new EXCEPT ![c] = t] /\ SetStatus(c, s)
    /\ UNCHANGED <<tree, base, others>>

\* The whole reviewed tree, over exactly the tree that was reviewed.
Apply(c) ==
    /\ status[c] = "pending" /\ tree = base[c]
    /\ tree' = new[c] /\ SetStatus(c, "applied")
    /\ UNCHANGED <<base, new, others>>

\* Every changed file back, none of them edited since.
Undo(c) ==
    /\ status[c] = "applied" /\ Holds(new, c)
    /\ tree' = [f \in Files |-> IF f \in Touches(c) THEN base[c][f] ELSE tree[f]]
    /\ SetStatus(c, "undone")
    /\ UNCHANGED <<base, new, others>>

\* A publication that cannot go ahead or be completed.
SetAside(c) ==
    /\ \/ status[c] = "pending" /\ \E s \in {"conflicted", "failed"} : SetStatus(c, s)
       \/ status[c] \in {"applied", "failed"} /\ SetStatus(c, "conflicted")
    /\ UNCHANGED <<tree, base, new, others>>

\* A later recovery succeeds: the files are where that status says they are.
Reopen(c) ==
    /\ status[c] \in {"conflicted", "failed"}
    /\ \/ Holds(base, c) /\ SetStatus(c, "pending")
       \/ Holds(new, c) /\ SetStatus(c, "applied")
    /\ UNCHANGED <<tree, base, new, others>>

Discard(c) ==
    /\ status[c] \in {"pending", "draft"} /\ SetStatus(c, "discarded")
    /\ UNCHANGED <<tree, base, new, others>>

\* A recovery finds the published content in a file and takes it back, or finds
\* the original there and publishes it again, whoever wrote it.
TakeBack(c, f) ==
    /\ f \in Touches(c)
    /\ \/ /\ status[c] \in {"pending", "conflicted", "failed"}
          /\ tree[f] = new[c][f] /\ tree' = [tree EXCEPT ![f] = base[c][f]]
       \/ /\ status[c] \in {"applied", "conflicted"}
          /\ tree[f] = base[c][f] /\ tree' = [tree EXCEPT ![f] = new[c][f]]
    /\ UNCHANGED <<status, base, new, others>>

\* Somebody else writes, to the workspace or to a stage.
Edit(f) ==
    /\ \E v \in Contents \cup {Absent} : tree' = [tree EXCEPT ![f] = v]
    /\ others' = others + 1
    /\ UNCHANGED <<status, base, new>>

Next ==
    \/ \E c \in ChangeSets :
        \/ Baseline(c) \/ Register(c) \/ Apply(c) \/ Undo(c)
        \/ SetAside(c) \/ Reopen(c) \/ Discard(c)
        \/ \E f \in Files : TakeBack(c, f)
    \/ \E f \in Files : Edit(f)

Spec == Init /\ [][Next]_avars
=============================================================================

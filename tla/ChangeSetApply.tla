--------------------------- MODULE ChangeSetApply ---------------------------
(***************************************************************************)
(* ApplyChangeSet of services/brain/internal/workflow/apply.go: freeze the *)
(* files of a change set, stage a copy of the tree, edit and verify the    *)
(* copy, then promote the files one rename at a time, or put them back.    *)
(*                                                                         *)
(* No lock is taken: calls run against editors, git and each other, and a  *)
(* process may die between any two system calls.  Every read of the tree   *)
(* and every rename is a step.  A body stands for its digest; all the      *)
(* change sets were made against Base, and the edits of call a turn Base   *)
(* into After(a).                                                          *)
(***************************************************************************)
EXTENDS Naturals

CONSTANTS
    Appliers,       \* calls of ApplyChangeSet
    NumFiles,       \* files of the tree
    NumPaths,       \* the first NumPaths of them, in order, are edited
    Base,           \* the body the change sets were made against
    Others,         \* bodies that editors write
    Missing,        \* no file
    MaxEdits        \* bound of the model

Files == 1 .. NumFiles
Targets == 1 .. NumPaths   \* uniqueEditPaths

After(a) == <<"after", a>>
Body == {Base} \cup Others \cup {After(a) : a \in Appliers}
File == Body \cup {Missing}

ASSUME ConstantsAssumption ==
    /\ NumFiles \in Nat /\ NumPaths \in 1 .. NumFiles
    /\ MaxEdits \in Nat
    /\ "editor" \notin Appliers
    /\ Base \notin Others \cup {Missing}
    /\ \A a \in Appliers : After(a) \notin Others \cup {Base, Missing}

VARIABLES
    git,       \* the root is a git worktree
    tree,      \* the working tree
    commit,    \* the files of HEAD
    atBase,    \* HEAD is the commit the change sets name
    edits,     \* changes made by editors
    pc, next,  \* next[a]: the path call a is at; those before it are promoted
    stage,     \* the staged tree of a call
    broken     \* restoring a file failed

\* Observations: no action reads them.
VARIABLES
    before,    \* the tree when the call began
    touched,   \* files others wrote since then
    unseen     \* others wrote the current path since it was compared

world == <<git, commit, atBase, edits>>
vars == <<tree, world, pc, next, stage, broken, before, touched, unseen>>

Labels == {"idle", "freeze", "head", "status", "stage", "edit", "verify",
           "check", "write", "rollback", "applied", "failed", "crashed"}

Clean == [f \in Files |-> Base]
NoStage == [f \in Files |-> Missing]

Init ==
    /\ git \in BOOLEAN
    /\ tree = Clean /\ commit = Clean /\ atBase = TRUE
    /\ edits = 0
    /\ pc = [a \in Appliers |-> "idle"]
    /\ next = [a \in Appliers |-> 1]
    /\ stage = [a \in Appliers |-> NoStage]
    /\ broken = [a \in Appliers |-> FALSE]
    /\ before = [a \in Appliers |-> Clean]
    /\ touched = [a \in Appliers |-> {}]
    /\ unseen = [a \in Appliers |-> FALSE]

-----------------------------------------------------------------------------
(* Steps.                                                                  *)

Goto(a, l) == pc' = [pc EXCEPT ![a] = l]

At(a, n) == next' = [next EXCEPT ![a] = n]

\* The deferred cleanup, which runs on every return but not on a crash.
Cleanup(a) == stage' = [stage EXCEPT ![a] = NoStage]

\* The calls whose current path is f, read and compared but not yet renamed over.
About(f) == {c \in Appliers : pc[c] = "write" /\ next[c] = f}

\* A file changes hands by rename or by an editor's save; who, or "editor".
Put(who, f, b) ==
    /\ tree' = [tree EXCEPT ![f] = b]
    /\ touched' = [c \in Appliers |-> IF c = who THEN touched[c] ELSE touched[c] \cup {f}]
    /\ unseen' = [c \in Appliers |-> unseen[c] \/ (c # who /\ c \in About(f))]

Fixed == UNCHANGED <<tree, world, touched>>

\* From path n on: freeze, compare and promote walk the targets in order.
Walk(a, again, done) ==
    IF next[a] < NumPaths
    THEN At(a, next[a] + 1) /\ Goto(a, again)
    ELSE At(a, 1) /\ Goto(a, done)

\* The request passes the checks that read no file.
Begin(a) ==
    /\ pc[a] = "idle"
    /\ Goto(a, "freeze")
    /\ before' = [before EXCEPT ![a] = tree]
    /\ touched' = [touched EXCEPT ![a] = {}]
    /\ UNCHANGED <<tree, world, next, stage, broken, unseen>>

\* Any error return before the promotion: a malformed request, a failed
\* system call or git command, a digest other than predicted, a verification
\* command that fails, the deadline.
Refuse(a) ==
    /\ pc[a] \in {"idle", "freeze", "head", "status", "stage", "edit", "verify"}
    /\ Goto(a, "failed")
    /\ before' = [before EXCEPT ![a] = IF pc[a] = "idle" THEN tree ELSE @]
    /\ touched' = [touched EXCEPT ![a] = IF pc[a] = "idle" THEN {} ELSE @]
    /\ Cleanup(a)
    /\ UNCHANGED <<tree, world, next, broken, unseen>>

Freeze(a) ==
    /\ pc[a] = "freeze"
    /\ tree[next[a]] = Base
    /\ Walk(a, "freeze", IF git THEN "head" ELSE "stage")
    /\ Fixed /\ UNCHANGED <<stage, broken, before, unseen>>

\* The file is gone, or is not the one the change set was made against.
FreezeStale(a) ==
    /\ pc[a] = "freeze"
    /\ tree[next[a]] # Base
    /\ Goto(a, "failed")
    /\ Fixed /\ UNCHANGED <<next, stage, broken, before, unseen>>

\* verifyGitBase: HEAD first, the status after it.
VerifyHead(a) ==
    /\ pc[a] = "head"
    /\ Goto(a, IF atBase THEN "status" ELSE "failed")
    /\ Fixed /\ UNCHANGED <<next, stage, broken, before, unseen>>

\* An error of the first git command, whatever its cause, reads as "no worktree":
\* HEAD and the status are not looked at.
ProbeFails(a) ==
    /\ pc[a] = "head"
    /\ Goto(a, "stage")
    /\ Fixed /\ UNCHANGED <<next, stage, broken, before, unseen>>

VerifyStatus(a) ==
    /\ pc[a] = "status"
    /\ Goto(a, IF tree = commit THEN "stage" ELSE "failed")
    /\ Fixed /\ UNCHANGED <<next, stage, broken, before, unseen>>

\* A detached worktree of the base commit.
StageGit(a) ==
    /\ pc[a] = "stage" /\ git /\ next[a] = 1
    /\ stage' = [stage EXCEPT ![a] = Clean]
    /\ Goto(a, "edit")
    /\ Fixed /\ UNCHANGED <<next, broken, before, unseen>>

\* copyTree, a file at a time: outside git, or where the probe of stageTree fails.
StageCopy(a) ==
    /\ pc[a] = "stage"
    /\ stage' = [stage EXCEPT ![a][next[a]] = tree[next[a]]]
    /\ IF next[a] < NumFiles THEN At(a, next[a] + 1) /\ UNCHANGED pc
                             ELSE At(a, 1) /\ Goto(a, "edit")
    /\ Fixed /\ UNCHANGED <<broken, before, unseen>>

\* The edits are applied in the stage if it holds what was frozen.
StageEdits(a) ==
    /\ pc[a] = "edit"
    /\ IF \A f \in Targets : stage[a][f] = Base
       THEN /\ stage' = [stage EXCEPT ![a] = [f \in Files |->
                            IF f \in Targets THEN After(a) ELSE stage[a][f]]]
            /\ Goto(a, "verify")
       ELSE Goto(a, "failed") /\ Cleanup(a)
    /\ Fixed /\ UNCHANGED <<next, broken, before, unseen>>

\* The verification commands pass.
Verified(a) ==
    /\ pc[a] = "verify"
    /\ Goto(a, "check")
    /\ Fixed /\ UNCHANGED <<next, stage, broken, before, unseen>>

-----------------------------------------------------------------------------
(* Promotion and rollback.                                                 *)

\* Mutant: the path is not read again before it is promoted.
MutCheck(a) ==
    /\ pc[a] = "check"
    /\ Goto(a, "write")
    /\ unseen' = [unseen EXCEPT ![a] = FALSE]
    /\ Fixed /\ UNCHANGED <<next, stage, broken, before>>

Check(a) ==
    /\ pc[a] = "check"
    /\ tree[next[a]] = Base
    /\ Goto(a, "write")
    /\ unseen' = [unseen EXCEPT ![a] = FALSE]
    /\ Fixed /\ UNCHANGED <<next, stage, broken, before>>

\* Mutant: a concurrent change aborts without the rollback.
MutCheckStale(a) ==
    /\ pc[a] = "check"
    /\ tree[next[a]] # Base
    /\ Goto(a, "failed")
    /\ Fixed /\ UNCHANGED <<next, stage, broken, before, unseen>>

CheckStale(a) ==
    /\ pc[a] = "check"
    /\ tree[next[a]] # Base
    /\ Goto(a, "rollback")
    /\ Fixed /\ UNCHANGED <<next, stage, broken, before, unseen>>

\* Mutant: the loop ends a path early.
MutPromote(a) ==
    /\ pc[a] = "write"
    /\ Put(a, next[a], After(a))
    /\ At(a, next[a] + 1)
    /\ IF next[a] + 1 < NumPaths THEN Goto(a, "check") /\ UNCHANGED stage
                                 ELSE Goto(a, "applied") /\ Cleanup(a)
    /\ UNCHANGED <<world, broken, before>>

\* Mutant: the promotion walks the paths from the other end.
MutPromoteOrder(a) ==
    /\ pc[a] = "write"
    /\ Put(a, NumPaths + 1 - next[a], After(a))
    /\ At(a, next[a] + 1)
    /\ IF next[a] < NumPaths THEN Goto(a, "check") /\ UNCHANGED stage
                             ELSE Goto(a, "applied") /\ Cleanup(a)
    /\ UNCHANGED <<world, broken, before>>

\* atomicWrite: the rename is its only step others see.
Promote(a) ==
    /\ pc[a] = "write"
    /\ Put(a, next[a], After(a))
    /\ At(a, next[a] + 1)
    /\ IF next[a] < NumPaths THEN Goto(a, "check") /\ UNCHANGED stage
                             ELSE Goto(a, "applied") /\ Cleanup(a)
    /\ UNCHANGED <<world, broken, before>>

\* FailDuringPromotion and FailDuringRollback: abort after the first rename.
PromoteInjected(a) ==
    /\ pc[a] = "write" /\ next[a] = 1
    /\ Put(a, 1, After(a))
    /\ At(a, 2)
    /\ Goto(a, "rollback")
    /\ UNCHANGED <<world, stage, broken, before>>

PromoteFails(a) ==
    /\ pc[a] = "write"
    /\ Goto(a, "rollback")
    /\ Fixed /\ UNCHANGED <<next, stage, broken, before, unseen>>

\* Promoted paths are restored last first, whatever they hold by now.
Restore(a) ==
    /\ pc[a] = "rollback" /\ next[a] > 1
    /\ Put(a, next[a] - 1, Base)
    /\ At(a, next[a] - 1)
    /\ UNCHANGED <<world, pc, stage, broken, before>>

RestoreFails(a) ==
    /\ pc[a] = "rollback" /\ next[a] > 1
    /\ broken' = [broken EXCEPT ![a] = TRUE]
    /\ At(a, next[a] - 1)
    /\ Fixed /\ UNCHANGED <<pc, stage, before, unseen>>

\* Mutant: an abort waits until every file is restored.
MutAborted(a) ==
    /\ pc[a] = "rollback" /\ next[a] = 1 /\ ~broken[a]
    /\ Goto(a, "failed") /\ Cleanup(a)
    /\ Fixed /\ UNCHANGED <<next, broken, before, unseen>>

Aborted(a) ==
    /\ pc[a] = "rollback" /\ next[a] = 1
    /\ Goto(a, "failed") /\ Cleanup(a)
    /\ Fixed /\ UNCHANGED <<next, broken, before, unseen>>

-----------------------------------------------------------------------------
(* Editors, git, and the operating system.                                 *)

Edit(f, b) ==
    /\ edits < MaxEdits
    /\ tree[f] # b
    /\ Put("editor", f, b)
    /\ edits' = edits + 1
    /\ UNCHANGED <<git, commit, atBase, pc, next, stage, broken, before>>

GitCommit ==
    /\ git
    /\ tree # commit
    /\ commit' = tree
    /\ atBase' = FALSE
    /\ UNCHANGED <<git, tree, edits, pc, next, stage, broken, before, touched, unseen>>

Crash(a) ==
    /\ pc[a] \notin {"idle", "applied", "failed", "crashed"}
    /\ Goto(a, "crashed")
    /\ Fixed /\ UNCHANGED <<next, stage, broken, before, unseen>>

Step(a) ==
    \/ Freeze(a) \/ FreezeStale(a) \/ VerifyHead(a) \/ VerifyStatus(a)
    \/ StageGit(a) \/ StageCopy(a) \/ StageEdits(a) \/ Verified(a)
    \/ Check(a) \/ CheckStale(a) \/ Promote(a)
    \/ Restore(a) \/ Aborted(a)

Next ==
    \/ \E a \in Appliers : Begin(a) \/ Refuse(a) \/ Step(a) \/ ProbeFails(a)
                              \/ PromoteInjected(a) \/ PromoteFails(a)
                              \/ RestoreFails(a) \/ Crash(a)
    \/ \E f \in Files, b \in Others \cup {Base, Missing} : Edit(f, b)
    \/ GitCommit

Spec == Init /\ [][Next]_vars

FairSpec == Spec /\ \A a \in Appliers : WF_vars(Step(a))

-----------------------------------------------------------------------------
(* Properties.                                                             *)

TypeOK ==
    /\ git \in BOOLEAN
    /\ tree \in [Files -> File]
    /\ commit \in [Files -> File]
    /\ atBase \in BOOLEAN
    /\ edits \in Nat
    /\ pc \in [Appliers -> Labels]
    /\ next \in [Appliers -> 1 .. NumFiles + 1]
    /\ stage \in [Appliers -> [Files -> File]]
    /\ broken \in [Appliers -> BOOLEAN]
    /\ before \in [Appliers -> [Files -> File]]
    /\ touched \in [Appliers -> SUBSET Files]
    /\ unseen \in [Appliers -> BOOLEAN]

\* A call that returns has promoted every target or left every file as it found
\* it, apart from files others wrote meanwhile; only a restore that itself failed
\* (reported, RolledBack false) is excepted.
Transactional ==
    \A a \in Appliers : \A f \in Files \ touched[a] :
        /\ pc[a] = "applied" => tree[f] = IF f \in Targets THEN After(a) ELSE before[a][f]
        /\ pc[a] = "failed" /\ ~broken[a] => tree[f] = before[a][f]

\* A call that fails leaves none of its bodies in the tree, not even where
\* others wrote meanwhile or where another call was promoting the same files.
NoResidue ==
    \A a \in Appliers : pc[a] = "failed" /\ ~broken[a] =>
        \A f \in Files : tree[f] # After(a)

\* A process that dies in ApplyChangeSet, promoting or rolling back, leaves some
\* number of paths new, the first ones in path order, and every other file as it
\* found it, apart from files others wrote meanwhile.
CrashLeavesPrefix ==
    \A a \in Appliers : pc[a] = "crashed" /\ ~broken[a] =>
        \E n \in 1 .. NumPaths + 1 : \A f \in Files \ touched[a] :
            tree[f] = IF f < n THEN After(a) ELSE before[a][f]

\* What a promotion replaces is what the change set was made against, unless
\* someone wrote the file between the comparison and the rename.
ReplacesBase ==
    [][\A a \in Appliers : Promote(a) => tree[next[a]] = Base \/ unseen[a]]_vars

\* A call returns, unless its process dies.
Returns ==
    \A a \in Appliers : pc[a] = "freeze" ~> pc[a] \in {"applied", "failed", "crashed"}

\* After a crash at any boundary the targets are all old or all new.
NeverMixture ==
    (\A a \in Appliers : pc[a] \in {"idle", "applied", "failed", "crashed"} /\ ~broken[a]) =>
        \/ \A f \in Targets : tree[f] = Base
        \/ \E a \in Appliers : \A f \in Targets : tree[f] = After(a)

-----------------------------------------------------------------------------
(* The inductive invariant behind Transactional and NoResidue.             *)

Early == {"idle", "freeze", "head", "status", "stage", "edit", "verify"}
Promoting == {"check", "write", "rollback"}

\* The walks stay within the targets, and start at the first.
NextInv ==
    \A a \in Appliers :
        /\ pc[a] \in {"idle", "head", "status", "edit", "verify"} => next[a] = 1
        /\ pc[a] = "stage" => next[a] <= NumFiles
        /\ pc[a] \in {"freeze", "check", "write"} => next[a] <= NumPaths
        /\ pc[a] = "rollback" => next[a] <= NumPaths + 1
        /\ broken[a] => pc[a] \in {"rollback", "failed", "crashed"}

\* Where others did not write, the frozen files were found at Base, and the tree
\* is as found but for the paths promoted so far.
TransAt(a) ==
    \A f \in Files \ touched[a] :
        /\ pc[a] = "freeze" /\ f < next[a] => before[a][f] = Base
        /\ pc[a] \in (Early \ {"idle", "freeze"}) \cup Promoting /\ f \in Targets =>
               before[a][f] = Base
        /\ pc[a] \in Early \ {"idle"} => tree[f] = before[a][f]
        /\ pc[a] \in Promoting /\ ~broken[a] =>
               tree[f] = IF f < next[a] THEN After(a) ELSE before[a][f]
        /\ pc[a] = "applied" => tree[f] = IF f \in Targets THEN After(a) ELSE before[a][f]
        /\ pc[a] = "failed" /\ ~broken[a] => tree[f] = before[a][f]

\* A body of a call is only where the call has promoted it.
ResidueAt(a) ==
    \A f \in Files : tree[f] = After(a) =>
        /\ pc[a] \notin Early
        /\ pc[a] \in Promoting => f < next[a] \/ broken[a]
        /\ pc[a] = "failed" => broken[a]

ApplyInv == \A a \in Appliers : TransAt(a) /\ ResidueAt(a)

\* A path that was compared holds what it was compared with until it is renamed
\* over, unless someone else wrote it.
ComparedInv ==
    \A a \in Appliers : pc[a] = "write" => tree[next[a]] = Base \/ unseen[a]

=============================================================================

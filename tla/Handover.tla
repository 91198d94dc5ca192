------------------------------ MODULE Handover ------------------------------
(***************************************************************************)
(* The fenced local-to-Modal handover of services/broker/internal/handover:*)
(* a Coordinator under one mutex, the Modal executor, the callers of       *)
(* ResumeTarget (each releases the mutex while the leaf runs), the source  *)
(* worker that may still commit under the fence it was started with, and   *)
(* a caller of Cleanup.                                                    *)
(***************************************************************************)
EXTENDS Integers

CONSTANTS
    Callers,      \* goroutines that call ResumeTarget
    Bundles,      \* digests of the bundles a task may be checkpointed with
    None,         \* no checkpoint, no receipt
    MaxAttempts   \* bound: calls of ResumeTarget that reach the executor

ASSUME ConstantsAssumption ==
    /\ MaxAttempts \in Nat
    /\ None \notin Bundles \cup {"local", "modal"}
    /\ None \notin [fence : Nat, realm : {"local", "modal"}, attempt : Nat,
                    result : Bundles \X {"local", "modal"} \X Nat]

VARIABLES
    fence, state, checkpoint, completion, revoked, cleaning, targetActive,
    attempts,   \* the fields of Coordinator
    app,        \* ModalExecutor.apps holds the task
    pc,         \* where each caller of ResumeTarget is
    mine,       \* its local copies of the fence and the attempt
    cleanup,    \* where the call of Cleanup is
    got,        \* the receipt each caller (and "source") was handed
    overlap     \* history: a target run was started while another one ran

coordinator == <<fence, checkpoint, revoked, cleaning, attempts>>
vars == <<fence, state, checkpoint, completion, revoked, cleaning, targetActive,
          attempts, app, pc, mine, cleanup, got, overlap>>

SourceFence == 1   \* NewCoordinator starts the task under the local realm with it

State == {"running_source", "prepared", "fence_advanced", "running_target",
          "paused", "completed", "cancelled"}
Result == Bundles \X {"local", "modal"} \X Nat
Receipt == [fence : Nat, realm : {"local", "modal"}, attempt : Nat, result : Result]
Label == {"idle", "run", "ran", "failed", "commit"}

Init ==
    /\ fence = SourceFence /\ state = "running_source"
    /\ checkpoint = None /\ completion = None
    /\ revoked = FALSE /\ cleaning = FALSE /\ targetActive = FALSE /\ attempts = 0
    /\ app = FALSE
    /\ pc = [r \in Callers |-> "idle"]
    /\ mine = [r \in Callers |-> [fence |-> 0, attempt |-> 0]]
    /\ cleanup = "idle"
    /\ got = [r \in Callers \cup {"source"} |-> None]
    /\ overlap = FALSE

\* Checkpoint: quiesce, seal, prepared, in one critical section.  The state
\* is never left at quiescing, so one checkpoint is all a task ever has.
Checkpoint(b) ==
    /\ ~revoked /\ state = "running_source"
    /\ checkpoint' = b
    /\ state' = "prepared"
    /\ UNCHANGED <<fence, completion, revoked, cleaning, targetActive, attempts, app,
                   pc, mine, cleanup, got, overlap>>

\* Transfer to the Modal realm; every other target is refused.
Transfer ==
    /\ ~revoked /\ state = "prepared" /\ checkpoint # None
    /\ fence' = fence + 1
    /\ state' = "fence_advanced"
    /\ UNCHANGED <<checkpoint, completion, revoked, cleaning, targetActive, attempts,
                   app, pc, mine, cleanup, got, overlap>>

\* The states in which a target run may start.
Resumable == {"fence_advanced", "running_target", "paused"}

MutResume(r) ==   \* a cleanup in progress is not looked at
    /\ pc[r] = "idle" /\ attempts < MaxAttempts
    /\ ~revoked /\ completion = None
    /\ state \in Resumable /\ checkpoint # None
    /\ attempts' = attempts + 1
    /\ mine' = [mine EXCEPT ![r] = [fence |-> fence, attempt |-> attempts + 1]]
    /\ state' = "running_target"
    /\ targetActive' = TRUE
    /\ overlap' = (overlap \/ targetActive)
    /\ pc' = [pc EXCEPT ![r] = "run"]
    /\ UNCHANGED <<fence, checkpoint, completion, revoked, cleaning, app, cleanup, got>>

\* ResumeTarget up to its first unlock, when it goes on to the executor.
Resume(r) ==
    /\ pc[r] = "idle" /\ attempts < MaxAttempts
    /\ ~revoked /\ ~cleaning /\ completion = None
    /\ state \in Resumable /\ checkpoint # None
    /\ attempts' = attempts + 1
    /\ mine' = [mine EXCEPT ![r] = [fence |-> fence, attempt |-> attempts + 1]]
    /\ state' = "running_target"
    /\ targetActive' = TRUE
    /\ overlap' = (overlap \/ targetActive)
    /\ pc' = [pc EXCEPT ![r] = "run"]
    /\ UNCHANGED <<fence, checkpoint, completion, revoked, cleaning, app, cleanup, got>>

\* ResumeTarget of a task that is completed: the original receipt.
ResumeDuplicate(r) ==
    /\ pc[r] = "idle"
    /\ ~revoked /\ ~cleaning /\ completion # None
    /\ got' = [got EXCEPT ![r] = completion]
    /\ UNCHANGED <<fence, state, checkpoint, completion, revoked, cleaning, targetActive,
                   attempts, app, pc, mine, cleanup, overlap>>

\* ModalExecutor.Run, outside the coordinator's mutex: the app is recorded,
\* or the run fails before it.
Run(r) ==
    /\ pc[r] = "run"
    /\ \/ app' = TRUE /\ pc' = [pc EXCEPT ![r] = "ran"]
       \/ app' = app /\ pc' = [pc EXCEPT ![r] = "failed"]
    /\ UNCHANGED <<coordinator, state, completion, targetActive, mine, cleanup, got, overlap>>

MutRunFailed(r) ==   \* the state is set without looking at it again
    /\ pc[r] = "failed"
    /\ targetActive' = FALSE
    /\ state' = "paused"
    /\ pc' = [pc EXCEPT ![r] = "idle"]
    /\ UNCHANGED <<coordinator, completion, app, mine, cleanup, got, overlap>>

MutRunFailedActive(r) ==   \* an early return before targetActive is reset
    /\ pc[r] = "failed"
    /\ state' = IF ~revoked /\ completion = None /\ state \notin {"completed", "cancelled"}
                THEN "paused" ELSE state
    /\ pc' = [pc EXCEPT ![r] = "idle"]
    /\ UNCHANGED <<coordinator, completion, targetActive, app, mine, cleanup, got, overlap>>

\* The second critical section of ResumeTarget after a failed run.
RunFailed(r) ==
    /\ pc[r] = "failed"
    /\ targetActive' = FALSE
    /\ state' = IF ~revoked /\ completion = None /\ state \notin {"completed", "cancelled"}
                THEN "paused" ELSE state
    /\ pc' = [pc EXCEPT ![r] = "idle"]
    /\ UNCHANGED <<coordinator, completion, app, mine, cleanup, got, overlap>>

\* The second critical section after a run that succeeded; commit is a third.
RunReturned(r) ==
    /\ pc[r] = "ran"
    /\ targetActive' = FALSE
    /\ pc' = [pc EXCEPT ![r] = "commit"]
    /\ UNCHANGED <<coordinator, state, completion, app, mine, cleanup, got, overlap>>

MutCommit(who, f, receipt) ==   \* the fence is not compared
    IF revoked THEN UNCHANGED <<state, completion, got>>
    ELSE IF completion # None
    THEN got' = [got EXCEPT ![who] = completion] /\ UNCHANGED <<state, completion>>
    ELSE /\ completion' = receipt
         /\ state' = "completed"
         /\ got' = [got EXCEPT ![who] = receipt]

MutCommitTwice(who, f, receipt) ==   \* a second commit replaces the first
    IF revoked \/ f # fence THEN UNCHANGED <<state, completion, got>>
    ELSE /\ completion' = receipt
         /\ state' = "completed"
         /\ got' = [got EXCEPT ![who] = receipt]

\* commit: what it does to the coordinator, and the receipt it hands to who.
Commit(who, f, receipt) ==
    IF revoked \/ f # fence THEN UNCHANGED <<state, completion, got>>
    ELSE IF completion # None
    THEN got' = [got EXCEPT ![who] = completion] /\ UNCHANGED <<state, completion>>
    ELSE /\ completion' = receipt
         /\ state' = "completed"
         /\ got' = [got EXCEPT ![who] = receipt]

CommitTarget(r) ==
    /\ pc[r] = "commit"
    /\ Commit(r, mine[r].fence,
              [fence |-> mine[r].fence, realm |-> "modal", attempt |-> mine[r].attempt,
               result |-> <<checkpoint, "modal", mine[r].fence>>])
    /\ pc' = [pc EXCEPT ![r] = "idle"]
    /\ UNCHANGED <<coordinator, targetActive, app, mine, cleanup, overlap>>

\* CommitUnderFence by the source worker, which holds the fence it started with.
CommitSource(b) ==
    /\ Commit("source", SourceFence,
              [fence |-> SourceFence, realm |-> "local", attempt |-> 0,
               result |-> <<b, "local", SourceFence>>])
    /\ UNCHANGED <<coordinator, targetActive, app, pc, mine, cleanup, overlap>>

Revoke ==
    /\ revoked' = TRUE
    /\ state' = "cancelled"
    /\ UNCHANGED <<fence, checkpoint, completion, cleaning, targetActive, attempts, app,
                   pc, mine, cleanup, got, overlap>>

\* Cleanup: no new target run from here on, then wait for the one in flight.
CleanupBegin ==
    /\ cleanup = "idle"
    /\ cleaning' = TRUE
    /\ cleanup' = "check"
    /\ UNCHANGED <<fence, state, checkpoint, completion, revoked, targetActive, attempts,
                   app, pc, mine, got, overlap>>

\* The loop looks at targetActive under the mutex ...
CleanupCheck ==
    /\ cleanup = "check"
    /\ cleanup' = IF targetActive THEN "sleep" ELSE "teardown"
    /\ UNCHANGED <<coordinator, state, completion, targetActive, app, pc, mine, got, overlap>>

\* ... and sleeps without it.
CleanupWakes ==
    /\ cleanup = "sleep"
    /\ cleanup' = "check"
    /\ UNCHANGED <<coordinator, state, completion, targetActive, app, pc, mine, got, overlap>>

\* The context of the caller ends while it sleeps: an incomplete receipt.
CleanupGivesUp ==
    /\ cleanup = "sleep"
    /\ cleanup' = "gave_up"
    /\ UNCHANGED <<coordinator, state, completion, targetActive, app, pc, mine, got, overlap>>

\* The executors forget the task (the local one has nothing: nothing calls
\* its Run), and the merged receipt says Complete.
CleanupTeardown ==
    /\ cleanup = "teardown"
    /\ app' = FALSE
    /\ cleanup' = "complete"
    /\ UNCHANGED <<coordinator, state, completion, targetActive, pc, mine, got, overlap>>

CallerStep(r) == Run(r) \/ RunFailed(r) \/ RunReturned(r) \/ CommitTarget(r)
CleanupStep == CleanupCheck \/ CleanupWakes \/ CleanupTeardown

Next ==
    \/ \E b \in Bundles : Checkpoint(b) \/ CommitSource(b)
    \/ Transfer \/ Revoke
    \/ \E r \in Callers : Resume(r) \/ ResumeDuplicate(r) \/ CallerStep(r)
    \/ CleanupBegin \/ CleanupGivesUp \/ CleanupStep

Spec == Init /\ [][Next]_vars

\* A goroutine that runs goes on running: the leaf is a bounded computation
\* and the waiting loop of Cleanup polls.  Nobody is obliged to call anything.
FairSpec ==
    /\ Spec
    /\ \A r \in Callers : WF_vars(CallerStep(r))
    /\ WF_vars(CleanupStep)

-----------------------------------------------------------------------------

TypeOK ==
    /\ fence \in Nat /\ state \in State /\ attempts \in Nat
    /\ checkpoint \in Bundles \cup {None}
    /\ completion \in Receipt \cup {None}
    /\ revoked \in BOOLEAN /\ cleaning \in BOOLEAN /\ targetActive \in BOOLEAN
    /\ app \in BOOLEAN /\ overlap \in BOOLEAN
    /\ pc \in [Callers -> Label]
    /\ mine \in [Callers -> [fence : Nat, attempt : Nat]]
    /\ cleanup \in {"idle", "check", "sleep", "teardown", "complete", "gave_up"}
    /\ got \in [Callers \cup {"source"} -> Receipt \cup {None}]

\* Exactly one completion: whatever a caller of ResumeTarget or the source is
\* handed, first commit or ErrDuplicate, is the one recorded receipt, and that
\* receipt is of the realm which holds the fence (coordinator.go:107, "source
\* permanently loses commit rights") and of the one sealed checkpoint.
OneCompletion ==
    /\ \A w \in Callers \cup {"source"} : got[w] # None => got[w] = completion
    /\ completion # None =>
           /\ completion.fence = fence
           /\ completion.realm = (IF fence = SourceFence THEN "local" ELSE "modal")
           /\ completion.realm = "modal" => completion.result = <<checkpoint, "modal", fence>>

\* A late failure of one of several runs never takes the task back from
\* completed or cancelled (coordinator.go:153, "Never regress a
\* terminal/revoked state to paused"), and no run starts it again.
TerminalStays ==
    [][/\ state = "cancelled" => state' = "cancelled"
       /\ state = "completed" => state' \in {"completed", "cancelled"}]_vars

\* Cleanup that reported Complete left no Modal app behind, as long as target
\* runs did not overlap: it waited for the run in flight, and no other started.
CleanupComplete == cleanup = "complete" /\ ~overlap => ~app

\* Cleanup always returns: the run it waits for ends, and it blocks new ones.
CleanupReturns == cleanup = "check" ~> cleanup \in {"complete", "gave_up"}

\* The coordinator implements the task with one holder and one outcome.
Task == INSTANCE FencedTask WITH
    Open <- None,
    holder <- IF fence = SourceFence THEN "local" ELSE "modal",
    outcome <- IF completion = None THEN None ELSE completion.realm,
    cancelled <- revoked

ImplementsTask == Task!Spec

=============================================================================

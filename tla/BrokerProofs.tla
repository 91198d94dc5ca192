---------------------------- MODULE BrokerProofs ----------------------------
(***************************************************************************)
(* Proofs about the two state machines of services/broker: Handover, for   *)
(* any number of callers and attempts, and DraftPR, for any number of      *)
(* callers, processes, requests, faults and changes by others.             *)
(***************************************************************************)
EXTENDS Handover, DraftPR, Sequences, TLAPS

Running == {"run", "ran", "failed"}

\* The fence, the state and the flags of the coordinator move together, and
\* whoever is inside ResumeTarget holds the advanced fence.
CoordInv ==
    /\ fence \in {1, 2}
    /\ state \in {"running_source", "prepared"} => fence = 1
    /\ state \in Resumable => fence = 2
    /\ state = "prepared" \/ fence = 2 => checkpoint # None
    /\ completion # None => state \in {"completed", "cancelled"}
    /\ state = "completed" => completion # None
    /\ revoked <=> state = "cancelled"
    /\ \A r \in Callers : pc[r] # "idle" => mine[r].fence = 2 /\ fence = 2

\* Without overlapping runs targetActive is exact, and nothing runs once
\* Cleanup has seen it FALSE.
CleanInv ==
    /\ cleanup # "idle" => cleaning
    /\ ~overlap =>
         /\ \A r, s \in Callers : pc[r] \in Running /\ pc[s] \in Running => r = s
         /\ \A r \in Callers : pc[r] \in Running => targetActive
         /\ cleanup \in {"teardown", "complete"} =>
                \A r \in Callers : pc[r] \notin Running

IInv == TypeOK /\ CoordInv /\ OneCompletion /\ CleanInv /\ CleanupComplete

-----------------------------------------------------------------------------

LEMMA InitHolds == Init => IInv
<1> SUFFICES ASSUME Init PROVE IInv
  OBVIOUS
<1>1. TypeOK
  BY ConstantsAssumption, Zenon DEF Init, TypeOK, SourceFence, State, Label
<1>2. CoordInv /\ CleanInv /\ CleanupComplete
  BY DEF Init, CoordInv, CleanInv, CleanupComplete, SourceFence, Resumable, Running
<1>3. OneCompletion
  BY DEF Init, OneCompletion
<1> QED
  BY <1>1, <1>2, <1>3 DEF IInv

\* The type of every successor.
LEMMA TypeStep == TypeOK /\ CoordInv /\ [Next]_vars => TypeOK'
<1> SUFFICES ASSUME TypeOK, CoordInv, [Next]_vars PROVE TypeOK'
  OBVIOUS
<1>1. ASSUME NEW b \in Bundles, Checkpoint(b) PROVE TypeOK'
  BY <1>1 DEF Checkpoint, TypeOK, State
<1>2. ASSUME NEW b \in Bundles, CommitSource(b) PROVE TypeOK'
  <2> DEFINE rc == [fence |-> SourceFence, realm |-> "local", attempt |-> 0,
                    result |-> <<b, "local", SourceFence>>]
  <2>1. rc \in Receipt
    BY DEF Receipt, Result, SourceFence
  <2> HIDE DEF rc
  <2>2. Commit("source", SourceFence, rc)
    BY <1>2 DEF CommitSource, rc
  <2>3. UNCHANGED <<coordinator, targetActive, app, pc, mine, cleanup, overlap>>
    BY <1>2 DEF CommitSource
  <2> QED
    BY <2>1, <2>2, <2>3 DEF Commit, coordinator, TypeOK, State
<1>3. CASE Transfer
  BY <1>3 DEF Transfer, TypeOK, State
<1>4. CASE Revoke
  BY <1>4 DEF Revoke, TypeOK, State
<1>5. ASSUME NEW r \in Callers, Resume(r) PROVE TypeOK'
  BY <1>5 DEF Resume, TypeOK, State, Label
<1>6. ASSUME NEW r \in Callers, ResumeDuplicate(r) PROVE TypeOK'
  BY <1>6 DEF ResumeDuplicate, TypeOK
<1>7. ASSUME NEW r \in Callers, CallerStep(r) PROVE TypeOK'
  <2>1. CASE Run(r)
    <3>1. pc' \in [Callers -> Label]
      BY <2>1 DEF Run, TypeOK, Label
    <3>2. app' \in BOOLEAN
      BY <2>1, Zenon DEF Run, TypeOK
    <3>3. UNCHANGED <<coordinator, state, completion, targetActive, mine, cleanup, got, overlap>>
      BY <2>1, Zenon DEF Run
    <3> QED
      BY ONLY <3>1, <3>2, <3>3, TypeOK DEF TypeOK, coordinator
  <2>2. CASE RunFailed(r)
    BY <2>2, Zenon DEF RunFailed, coordinator, TypeOK, Label, State
  <2>3. CASE RunReturned(r)
    BY <2>3, Zenon DEF RunReturned, coordinator, TypeOK, Label
  <2>4. CASE CommitTarget(r)
    <3> DEFINE rc == [fence |-> mine[r].fence, realm |-> "modal", attempt |-> mine[r].attempt,
                      result |-> <<checkpoint, "modal", mine[r].fence>>]
    <3>1. checkpoint \in Bundles
      BY <2>4 DEF CommitTarget, CoordInv, TypeOK
    <3>2. mine[r].fence \in Nat /\ mine[r].attempt \in Nat
      BY DEF TypeOK
    <3>3. rc \in Receipt
      BY <3>1, <3>2 DEF Receipt, Result
    <3> HIDE DEF rc
    <3>4. Commit(r, mine[r].fence, rc) /\ pc' = [pc EXCEPT ![r] = "idle"]
      BY <2>4 DEF CommitTarget, rc
    <3>5. UNCHANGED <<coordinator, targetActive, app, mine, cleanup, overlap>>
      BY <2>4 DEF CommitTarget
    <3> QED
      BY <3>3, <3>4, <3>5 DEF Commit, coordinator, TypeOK, State, Label
  <2> QED
    BY <1>7, <2>1, <2>2, <2>3, <2>4 DEF CallerStep
<1>8. CASE CleanupBegin
  BY <1>8 DEF CleanupBegin, TypeOK
<1>9. CASE CleanupGivesUp \/ CleanupStep
  BY <1>9, Zenon DEF CleanupGivesUp, CleanupStep, CleanupCheck, CleanupWakes, CleanupTeardown,
              coordinator, TypeOK
<1>10. CASE UNCHANGED vars
  BY <1>10 DEF vars, TypeOK
<1> QED
  BY <1>1, <1>2, <1>3, <1>4, <1>5, <1>6, <1>7, <1>8, <1>9, <1>10 DEF Next

\* A commit, by whoever holds a fence, leaves the coordinator as it was or
\* records the first receipt, and what it hands out is the recorded one.
LEMMA CommitStep ==
  ASSUME TypeOK, CoordInv, OneCompletion, NEW who \in Callers \cup {"source"},
         NEW f \in {1, 2}, NEW rc \in Receipt, Commit(who, f, rc), UNCHANGED coordinator,
         rc.fence = f, rc.realm = (IF f = 1 THEN "local" ELSE "modal"),
         f = 2 => rc.result = <<checkpoint, "modal", 2>>
  PROVE  /\ OneCompletion'
         /\ \/ UNCHANGED <<state, completion>>
            \/ completion = None /\ ~revoked /\ completion' = rc /\ f = fence
               /\ state' = "completed" /\ completion' # None
<1>1. CASE revoked \/ f # fence
  <2>1. UNCHANGED <<state, completion, got, fence, checkpoint>>
    BY <1>1 DEF Commit, coordinator
  <2> QED
    BY <2>1 DEF OneCompletion
<1>2. CASE ~(revoked \/ f # fence) /\ completion # None
  <2>1. /\ got' = [got EXCEPT ![who] = completion]
        /\ UNCHANGED <<state, completion, fence, checkpoint>>
    BY <1>2 DEF Commit, coordinator
  <2> QED
    BY <2>1 DEF OneCompletion, TypeOK
<1>3. CASE ~(revoked \/ f # fence) /\ completion = None
  <2>1. /\ completion' = rc /\ state' = "completed"
        /\ got' = [got EXCEPT ![who] = rc]
        /\ fence' = fence /\ checkpoint' = checkpoint /\ f = fence /\ ~revoked
    BY <1>3 DEF Commit, coordinator
  <2>2. rc # None
    BY ConstantsAssumption DEF Receipt, Result
  <2>3. \A w \in Callers \cup {"source"} : got[w] = None
    BY <1>3 DEF OneCompletion
  <2>4. \A w \in Callers \cup {"source"} : got'[w] # None => got'[w] = rc
    BY <2>1, <2>3 DEF TypeOK
  <2>5. OneCompletion'
    BY <2>1, <2>2, <2>4 DEF OneCompletion, SourceFence
  <2> QED
    BY <1>3, <2>1, <2>2, <2>5
<1> QED
  BY <1>1, <1>2, <1>3

\* The two calls of commit satisfy what CommitStep asks of a receipt.
LEMMA CommitCalls ==
  ASSUME IInv
  PROVE  /\ \A b \in Bundles : CommitSource(b) =>
                /\ OneCompletion'
                /\ \/ UNCHANGED <<state, completion>>
                   \/ /\ completion = None /\ ~revoked /\ fence = 1
                      /\ state' = "completed" /\ completion' # None
                      /\ completion'.realm = "local"
         /\ \A r \in Callers : CommitTarget(r) =>
                /\ OneCompletion'
                /\ \/ UNCHANGED <<state, completion>>
                   \/ /\ completion = None /\ ~revoked /\ fence = 2
                      /\ state' = "completed" /\ completion' # None
                      /\ completion'.realm = "modal"
<1>1. ASSUME NEW b \in Bundles, CommitSource(b)
      PROVE  /\ OneCompletion'
             /\ \/ UNCHANGED <<state, completion>>
                \/ /\ completion = None /\ ~revoked /\ fence = 1
                   /\ state' = "completed" /\ completion' # None
                   /\ completion'.realm = "local"
  <2> DEFINE rc == [fence |-> SourceFence, realm |-> "local", attempt |-> 0,
                    result |-> <<b, "local", SourceFence>>]
  <2>1. rc \in Receipt /\ rc.fence = 1 /\ rc.realm = "local" /\ SourceFence = 1
    BY DEF Receipt, Result, SourceFence
  <2> HIDE DEF rc
  <2>2. Commit("source", 1, rc) /\ UNCHANGED coordinator
    BY <1>1, <2>1 DEF CommitSource, rc
  <2>3. /\ OneCompletion'
        /\ \/ UNCHANGED <<state, completion>>
           \/ completion = None /\ ~revoked /\ completion' = rc /\ 1 = fence
              /\ state' = "completed" /\ completion' # None
    BY <2>1, <2>2, CommitStep DEF IInv
  <2> QED
    BY <2>1, <2>3
<1>2. ASSUME NEW r \in Callers, CommitTarget(r)
      PROVE  /\ OneCompletion'
             /\ \/ UNCHANGED <<state, completion>>
                \/ /\ completion = None /\ ~revoked /\ fence = 2
                   /\ state' = "completed" /\ completion' # None
                   /\ completion'.realm = "modal"
  <2> DEFINE rc == [fence |-> mine[r].fence, realm |-> "modal", attempt |-> mine[r].attempt,
                    result |-> <<checkpoint, "modal", mine[r].fence>>]
  <2>1. mine[r].fence = 2 /\ fence = 2 /\ checkpoint \in Bundles
    BY <1>2 DEF IInv, CommitTarget, CoordInv, TypeOK
  <2>2. mine[r].attempt \in Nat
    BY DEF IInv, TypeOK
  <2>3. /\ rc \in Receipt /\ rc.fence = 2 /\ rc.realm = "modal"
        /\ rc.result = <<checkpoint, "modal", 2>>
    BY <2>1, <2>2 DEF Receipt, Result
  <2> HIDE DEF rc
  <2>4. Commit(r, 2, rc) /\ UNCHANGED coordinator
    BY <1>2, <2>1 DEF CommitTarget, rc
  <2>5. /\ OneCompletion'
        /\ \/ UNCHANGED <<state, completion>>
           \/ completion = None /\ ~revoked /\ completion' = rc /\ 2 = fence
              /\ state' = "completed" /\ completion' # None
    BY <2>3, <2>4, CommitStep DEF IInv
  <2> QED
    BY <2>3, <2>5
<1> QED
  BY <1>1, <1>2

\* The coordinator's fields keep moving together.
LEMMA CoordStep == IInv /\ [Next]_vars => CoordInv'
<1> SUFFICES ASSUME IInv, [Next]_vars PROVE CoordInv'
  OBVIOUS
<1>0. TypeOK /\ CoordInv
  BY DEF IInv
<1>1. ASSUME NEW b \in Bundles, Checkpoint(b) PROVE CoordInv'
  BY <1>0, <1>1, ConstantsAssumption DEF Checkpoint, CoordInv, Resumable
<1>2. ASSUME NEW b \in Bundles, CommitSource(b) PROVE CoordInv'
  <2>1. UNCHANGED <<fence, checkpoint, revoked, pc, mine>>
    BY <1>2 DEF CommitSource, coordinator
  <2>2. \/ UNCHANGED <<state, completion>>
        \/ completion = None /\ ~revoked /\ fence = 1 /\ state' = "completed" /\ completion' # None
    BY <1>2, CommitCalls
  <2> QED
    BY ONLY <1>0, <2>1, <2>2 DEF CoordInv, Resumable
<1>3. CASE Transfer
  BY <1>0, <1>3 DEF Transfer, CoordInv, Resumable
<1>4. CASE Revoke
  BY <1>0, <1>4 DEF Revoke, CoordInv, Resumable
<1>5. ASSUME NEW r \in Callers, Resume(r) PROVE CoordInv'
  BY <1>0, <1>5 DEF Resume, CoordInv, TypeOK, Resumable
<1>6. ASSUME NEW r \in Callers, ResumeDuplicate(r) PROVE CoordInv'
  BY <1>0, <1>6 DEF ResumeDuplicate, CoordInv
<1>7. ASSUME NEW r \in Callers, CallerStep(r) PROVE CoordInv'
  <2>1. CASE Run(r)
    BY <1>0, <2>1 DEF Run, coordinator, TypeOK, CoordInv
  <2>2. CASE RunFailed(r)
    BY <1>0, <2>2 DEF RunFailed, coordinator, TypeOK, CoordInv, Resumable
  <2>3. CASE RunReturned(r)
    BY <1>0, <2>3 DEF RunReturned, coordinator, TypeOK, CoordInv
  <2>4. CASE CommitTarget(r)
    <3>1. UNCHANGED <<fence, checkpoint, revoked, mine>> /\ pc' = [pc EXCEPT ![r] = "idle"]
      BY <2>4 DEF CommitTarget, coordinator
    <3>2. \/ UNCHANGED <<state, completion>>
          \/ completion = None /\ ~revoked /\ fence = 2 /\ state' = "completed" /\ completion' # None
      BY <2>4, CommitCalls
    <3> QED
      BY ONLY <1>0, <3>1, <3>2 DEF CoordInv, TypeOK, Resumable
  <2> QED
    BY <1>7, <2>1, <2>2, <2>3, <2>4 DEF CallerStep
<1>8. CASE CleanupBegin
  BY <1>0, <1>8 DEF CleanupBegin, CoordInv
<1>9. CASE CleanupGivesUp \/ CleanupStep
  BY <1>0, <1>9 DEF CleanupGivesUp, CleanupStep, CleanupCheck, CleanupWakes, CleanupTeardown,
                    coordinator, CoordInv
<1>10. CASE UNCHANGED vars
  BY <1>0, <1>10 DEF vars, CoordInv
<1> QED
  BY <1>1, <1>2, <1>3, <1>4, <1>5, <1>6, <1>7, <1>8, <1>9, <1>10 DEF Next

\* The receipts: Transfer comes too early to change the fence of a completion.
LEMMA ReceiptStep == IInv /\ [Next]_vars => OneCompletion'
<1> SUFFICES ASSUME IInv, [Next]_vars PROVE OneCompletion'
  OBVIOUS
<1>0. TypeOK /\ CoordInv /\ OneCompletion
  BY DEF IInv
<1>1. ASSUME NEW b \in Bundles, Checkpoint(b) PROVE OneCompletion'
  BY <1>0, <1>1 DEF Checkpoint, CoordInv, OneCompletion
<1>2. ASSUME NEW b \in Bundles, CommitSource(b) PROVE OneCompletion'
  BY <1>2, CommitCalls
<1>3. CASE Transfer
  BY <1>0, <1>3 DEF Transfer, CoordInv, OneCompletion
<1>4. CASE Revoke \/ CleanupBegin
  BY <1>0, <1>4 DEF Revoke, CleanupBegin, OneCompletion
<1>5. ASSUME NEW r \in Callers, Resume(r) PROVE OneCompletion'
  BY <1>0, <1>5 DEF Resume, OneCompletion
<1>6. ASSUME NEW r \in Callers, ResumeDuplicate(r) PROVE OneCompletion'
  BY <1>0, <1>6 DEF ResumeDuplicate, TypeOK, OneCompletion
<1>7. ASSUME NEW r \in Callers, CallerStep(r) PROVE OneCompletion'
  BY <1>0, <1>7, CommitCalls DEF CallerStep, Run, RunFailed, RunReturned, coordinator, OneCompletion
<1>8. CASE CleanupGivesUp \/ CleanupStep
  BY <1>0, <1>8 DEF CleanupGivesUp, CleanupStep, CleanupCheck, CleanupWakes, CleanupTeardown,
                    coordinator, OneCompletion
<1>9. CASE UNCHANGED vars
  BY <1>0, <1>9 DEF vars, OneCompletion
<1> QED
  BY <1>1, <1>2, <1>3, <1>4, <1>5, <1>6, <1>7, <1>8, <1>9 DEF Next

\* targetActive stays exact while runs do not overlap, and Cleanup stays alone.
LEMMA CleanStep == IInv /\ [Next]_vars => CleanInv' /\ CleanupComplete'
<1> SUFFICES ASSUME IInv, [Next]_vars PROVE CleanInv' /\ CleanupComplete'
  OBVIOUS
<1>0. TypeOK /\ CleanInv /\ CleanupComplete
  BY DEF IInv
<1>1. ASSUME UNCHANGED <<pc, cleanup, cleaning, overlap, targetActive, app>>
      PROVE  CleanInv' /\ CleanupComplete'
  BY <1>0, <1>1 DEF CleanInv, CleanupComplete
<1>2. ASSUME NEW b \in Bundles, Checkpoint(b) \/ CommitSource(b)
      PROVE  UNCHANGED <<pc, cleanup, cleaning, overlap, targetActive, app>>
  BY <1>2 DEF Checkpoint, CommitSource, coordinator
<1>3. ASSUME Transfer \/ Revoke \/ UNCHANGED vars
      PROVE  UNCHANGED <<pc, cleanup, cleaning, overlap, targetActive, app>>
  BY <1>3 DEF Transfer, Revoke, vars
<1>4. ASSUME NEW r \in Callers, ResumeDuplicate(r)
      PROVE  UNCHANGED <<pc, cleanup, cleaning, overlap, targetActive, app>>
  BY <1>4 DEF ResumeDuplicate
<1>5. ASSUME NEW r \in Callers, Resume(r) PROVE CleanInv' /\ CleanupComplete'
  <2>1. /\ cleanup = "idle" /\ cleanup' = "idle" /\ overlap' = (overlap \/ targetActive)
        /\ targetActive' /\ pc' = [pc EXCEPT ![r] = "run"]
    BY <1>0, <1>5 DEF Resume, CleanInv
  <2>2. ~overlap' => \A s \in Callers : pc[s] \notin Running
    BY <1>0, <2>1, Zenon DEF CleanInv
  <2>3. ~overlap' => \A s, t \in Callers : pc'[s] \in Running /\ pc'[t] \in Running => s = t
    BY <1>0, <2>1, <2>2 DEF TypeOK
  <2> QED
    BY <2>1, <2>3 DEF CleanInv, CleanupComplete
<1>6. ASSUME NEW r \in Callers, CallerStep(r) PROVE CleanInv' /\ CleanupComplete'
  <2>1. UNCHANGED <<cleanup, cleaning, overlap>>
    BY <1>6 DEF CallerStep, Run, RunFailed, RunReturned, CommitTarget, coordinator
  <2>2. CASE Run(r)
    <3>1. /\ pc[r] \in Running /\ targetActive' = targetActive
          /\ \A s \in Callers : pc'[s] \in Running <=> pc[s] \in Running
      BY <1>0, <2>2 DEF Run, Running, TypeOK
    <3> QED
      BY <1>0, <2>1, <3>1 DEF CleanInv, CleanupComplete
  <2>3. CASE RunFailed(r) \/ RunReturned(r)
    <3>1. /\ pc[r] \in Running /\ pc'[r] \notin Running /\ app' = app
          /\ \A s \in Callers : s # r => pc'[s] = pc[s]
      BY <1>0, <2>3 DEF RunFailed, RunReturned, Running, TypeOK
    <3>2. ~overlap => \A s \in Callers : pc'[s] \notin Running
      BY <1>0, <3>1 DEF CleanInv
    <3> QED
      BY <1>0, <2>1, <3>1, <3>2 DEF CleanInv, CleanupComplete
  <2>4. CASE CommitTarget(r)
    <3>1. /\ app' = app /\ targetActive' = targetActive
          /\ \A s \in Callers : pc'[s] \in Running <=> pc[s] \in Running
      BY <1>0, <2>4 DEF CommitTarget, Running, TypeOK
    <3> QED
      BY <1>0, <2>1, <3>1 DEF CleanInv, CleanupComplete
  <2> QED
    BY <1>6, <2>2, <2>3, <2>4 DEF CallerStep
<1>7. CASE CleanupBegin
  BY <1>0, <1>7 DEF CleanupBegin, CleanInv, CleanupComplete
<1>8. CASE CleanupGivesUp \/ CleanupStep
  BY <1>0, <1>8 DEF CleanupGivesUp, CleanupStep, CleanupCheck, CleanupWakes, CleanupTeardown,
                    coordinator, CleanInv, CleanupComplete
<1> QED
  BY <1>1, <1>2, <1>3, <1>4, <1>5, <1>6, <1>7, <1>8 DEF Next

LEMMA Invariance == Spec => []IInv
<1>1. IInv /\ [Next]_vars => IInv'
  BY TypeStep, CoordStep, ReceiptStep, CleanStep DEF IInv
<1> QED
  BY <1>1, InitHolds, PTL DEF Spec

-----------------------------------------------------------------------------

\* The coordinator and its callers keep their types.
THEOREM TypeCorrect == Spec => []TypeOK
<1>1. IInv => TypeOK
  BY DEF IInv
<1> QED
  BY <1>1, Invariance, PTL

\* However many callers resume, retry and fail, and whenever the source
\* commits, every receipt handed out by ResumeTarget or CommitUnderFence is
\* the one recorded completion, of the realm that holds the fence.
THEOREM ExactlyOnce == Spec => []OneCompletion
<1>1. IInv => OneCompletion
  BY DEF IInv
<1> QED
  BY <1>1, Invariance, PTL

\* Cleanup that reports Complete leaves no app, if target runs never overlap.
THEOREM NoAppLeft == Spec => []CleanupComplete
<1>1. IInv => CleanupComplete
  BY DEF IInv
<1> QED
  BY <1>1, Invariance, PTL

\* A completed or cancelled handover never becomes paused or running again.
THEOREM NoRegression == Spec => TerminalStays
<1> DEFINE Stays == /\ state = "cancelled" => state' = "cancelled"
                    /\ state = "completed" => state' \in {"completed", "cancelled"}
<1>1. ASSUME IInv, [Next]_vars PROVE [Stays]_vars
  <2>0. CoordInv
    BY <1>1 DEF IInv
  <2>1. ASSUME NEW b \in Bundles, Checkpoint(b) \/ CommitSource(b) PROVE Stays
    BY <1>1, <2>0, <2>1, CommitCalls DEF Checkpoint, CoordInv
  <2>2. CASE Transfer \/ Revoke \/ CleanupBegin
    BY <2>0, <2>2 DEF Transfer, Revoke, CleanupBegin
  <2>3. ASSUME NEW r \in Callers, Resume(r) \/ ResumeDuplicate(r) PROVE Stays
    BY <2>0, <2>3 DEF Resume, ResumeDuplicate, Resumable
  <2>4. ASSUME NEW r \in Callers, CallerStep(r) PROVE Stays
    BY <1>1, <2>0, <2>4, CommitCalls DEF CallerStep, Run, RunFailed, RunReturned, CoordInv
  <2>5. CASE CleanupGivesUp \/ CleanupStep
    BY <2>5 DEF CleanupGivesUp, CleanupStep, CleanupCheck, CleanupWakes, CleanupTeardown
  <2> QED
    BY <1>1, <2>1, <2>2, <2>3, <2>4, <2>5 DEF Next
<1> QED
  BY <1>1, Invariance, PTL DEF Spec, TerminalStays

\* The coordinator implements FencedTask: Transfer moves the task, the first
\* commit under the current fence finishes it, Revoke cancels it, and every
\* other step, whoever takes it, is invisible.
THEOREM Refinement == Spec => ImplementsTask
<1>1. Init => Task!Init
  BY DEF Init, Task!Init, SourceFence
<1>2. ASSUME IInv, [Next]_vars PROVE [Task!Next]_(Task!vars)
  <2>0. CoordInv /\ TypeOK
    BY <1>2 DEF IInv
  <2>1. ASSUME UNCHANGED <<fence, completion, revoked>> PROVE UNCHANGED Task!vars
    BY <2>1 DEF Task!vars
  <2>2. ASSUME NEW b \in Bundles, Checkpoint(b) PROVE UNCHANGED <<fence, completion, revoked>>
    BY <2>2 DEF Checkpoint
  <2>3. ASSUME NEW b \in Bundles, CommitSource(b) PROVE [Task!Next]_(Task!vars)
    <3>1. UNCHANGED <<fence, revoked>>
      BY <2>3 DEF CommitSource, coordinator
    <3>2. \/ completion' = completion
          \/ /\ completion = None /\ ~revoked /\ fence = 1
             /\ completion' # None /\ completion'.realm = "local"
      BY <1>2, <2>3, CommitCalls
    <3> QED
      BY <2>1, <3>1, <3>2 DEF Task!Next, Task!Finish, SourceFence
  <2>4. CASE Transfer
    <3>1. fence = SourceFence /\ completion = None /\ ~revoked
      BY <2>0, <2>4 DEF Transfer, CoordInv, SourceFence
    <3>2. fence' # SourceFence /\ UNCHANGED <<completion, revoked>>
      BY <2>4, <3>1 DEF Transfer, SourceFence
    <3> QED
      BY ONLY <3>1, <3>2 DEF Task!Next, Task!Move
  <2>5. CASE Revoke
    BY <2>5 DEF Revoke, Task!Next, Task!Cancel
  <2>6. ASSUME NEW r \in Callers, Resume(r) \/ ResumeDuplicate(r)
        PROVE  UNCHANGED <<fence, completion, revoked>>
    BY <2>6 DEF Resume, ResumeDuplicate
  <2>7. ASSUME NEW r \in Callers, CommitTarget(r) PROVE [Task!Next]_(Task!vars)
    <3>1. UNCHANGED <<fence, revoked>>
      BY <2>7 DEF CommitTarget, coordinator
    <3>2. \/ completion' = completion
          \/ /\ completion = None /\ ~revoked /\ fence = 2
             /\ completion' # None /\ completion'.realm = "modal"
      BY <1>2, <2>7, CommitCalls
    <3> QED
      BY <2>1, <3>1, <3>2 DEF Task!Next, Task!Finish, SourceFence
  <2>8. ASSUME NEW r \in Callers, Run(r) \/ RunFailed(r) \/ RunReturned(r)
        PROVE  UNCHANGED <<fence, completion, revoked>>
    BY <2>8 DEF Run, RunFailed, RunReturned, coordinator
  <2>9. ASSUME CleanupBegin \/ CleanupGivesUp \/ CleanupStep \/ UNCHANGED vars
        PROVE  UNCHANGED <<fence, completion, revoked>>
    BY <2>9 DEF CleanupBegin, CleanupGivesUp, CleanupStep, CleanupCheck, CleanupWakes,
                CleanupTeardown, coordinator, vars
  <2> QED
    BY <1>2, <2>1, <2>2, <2>3, <2>4, <2>5, <2>6, <2>7, <2>8, <2>9 DEF Next, CallerStep
<1> QED
  BY <1>1, <1>2, Invariance, PTL DEF Spec, ImplementsTask, Task!Spec

-----------------------------------------------------------------------------
(* The draft pull request.                                                 *)

\* A step of worker w leaves the calls of the others alone and takes its own to
\* label a, or ends it.
CallTo(w, a) ==
    /\ call' \in [Workers -> Call] /\ call'[w].at = a
    /\ call'[w].proc = call[w].proc /\ call'[w].request = call[w].request
    /\ call'[w].fresh = call[w].fresh
    /\ \A v \in Workers : v # w => call'[v] = call[v]
CallEnds(w) ==
    /\ call' \in [Workers -> Call] /\ call'[w].at = "idle"
    /\ \A v \in Workers : v # w => call'[v] = call[v]

\* It sets the row of its process to state s and receipt t.
RowTo(w, s, t) ==
    LET q == call[w].proc IN
    /\ q \in Procs /\ outbox[q] # Nothing /\ outbox'[q] # Nothing
    /\ outbox' \in [Procs -> OutboxRow \cup {Nothing}] /\ outbox'[q].state = s
    /\ outbox'[q].request = outbox[q].request /\ outbox'[q].receipt = t
    /\ \A p \in Procs : p # q => outbox'[p] = outbox[p]

LEMMA PRGoto ==
    ASSUME PRTypeOK, NEW w \in Workers, NEW a \in Labels, Goto(w, a)
    PROVE  CallTo(w, a)
BY Zenon DEF PRTypeOK, Goto, Call, CallTo

LEMMA PRReturn ==
    ASSUME PRTypeOK, NEW w \in Workers, Return(w)
    PROVE  CallEnds(w)
BY DEF PRTypeOK, Return, Call, Idle, Labels, CallEnds

LEMMA PRFound ==
    ASSUME PRTypeOK, NEW w \in Workers, NEW i \in Nat, Found(w, i)
    PROVE  CallTo(w, "commit") /\ call'[w].pr = i
<1> DEFINE o == call[w]
           c == [o EXCEPT !.at = "commit", !.pr = i]
<1>1. call' = [call EXCEPT ![w] = c] /\ call \in [Workers -> Call] /\ o \in Call
  BY DEF PRTypeOK, Found
<1>2. /\ c \in Call /\ c.at = "commit" /\ c.pr = i /\ c.proc = o.proc
      /\ c.request = o.request /\ c.fresh = o.fresh
  <2> HIDE DEF o
  <2> QED
    BY ONLY <1>1, i \in Nat, Zenon DEF Call, Labels
<1> HIDE DEF c
<1> QED
  BY ONLY <1>1, <1>2, w \in Workers DEF CallTo

LEMMA PRSetRow ==
    ASSUME PRConstants, PRTypeOK, NEW w \in Workers, call[w].at # "idle",
           NEW s \in States, NEW t \in PRReceipt \cup {Nothing},
           outbox' = [outbox EXCEPT ![call[w].proc] = [Row(w) EXCEPT !.state = s, !.receipt = t]]
    PROVE  RowTo(w, s, t)
<1> DEFINE q == call[w].proc
<1>1. q \in Procs /\ outbox[q] # Nothing /\ outbox \in [Procs -> OutboxRow \cup {Nothing}]
  BY DEF PRTypeOK
<1> DEFINE r == [outbox[q] EXCEPT !.state = s, !.receipt = t]
<1>2. outbox[q] \in OutboxRow /\ outbox' = [outbox EXCEPT ![q] = r]
  BY <1>1 DEF Row
<1> HIDE DEF q, r
<1>3. outbox'[q] = r /\ \A p \in Procs : p # q => outbox'[p] = outbox[p]
  BY ONLY <1>1, <1>2
<1>4. outbox'[q] \in OutboxRow /\ outbox'[q].state = s
      /\ outbox'[q].request = outbox[q].request /\ outbox'[q].receipt = t
  <2> DEFINE r1 == [outbox[q] EXCEPT !.state = s]
  <2>1. r1 \in OutboxRow /\ r1.state = s /\ r1.request = outbox[q].request
    BY ONLY <1>2, s \in States DEF OutboxRow
  <2>2. r = [r1 EXCEPT !.receipt = t]
    BY DEF r
  <2> HIDE DEF r1
  <2> QED
    BY ONLY <1>3, <2>1, <2>2, t \in PRReceipt \cup {Nothing} DEF OutboxRow
<1>5. outbox'[q] # Nothing
  BY ONLY <1>4, PRConstants DEF PRConstants
<1>6. outbox' \in [Procs -> OutboxRow \cup {Nothing}]
  BY ONLY <1>1, <1>2, <1>3, <1>4
<1> QED
  BY ONLY <1>1, <1>3, <1>4, <1>5, <1>6 DEF q, RowTo

LEMMA PRSetState ==
    ASSUME PRConstants, PRTypeOK, NEW w \in Workers, call[w].at # "idle",
           NEW s \in States, SetState(w, s)
    PROVE  RowTo(w, s, outbox[call[w].proc].receipt)
<1> DEFINE q == call[w].proc
<1>1. q \in Procs /\ outbox[q] # Nothing /\ outbox \in [Procs -> OutboxRow \cup {Nothing}]
  BY DEF PRTypeOK
<1>2. outbox[q] \in OutboxRow /\ outbox' = [outbox EXCEPT ![q].state = s]
  BY <1>1 DEF SetState
<1> HIDE DEF q
<1>3. outbox'[q] = [outbox[q] EXCEPT !.state = s] /\ \A p \in Procs : p # q => outbox'[p] = outbox[p]
  BY ONLY <1>1, <1>2
<1>4. outbox'[q] \in OutboxRow /\ outbox'[q].state = s
      /\ outbox'[q].request = outbox[q].request /\ outbox'[q].receipt = outbox[q].receipt
  BY ONLY <1>2, <1>3, s \in States DEF OutboxRow
<1>5. outbox'[q] # Nothing
  BY ONLY <1>4, PRConstants DEF PRConstants
<1>6. outbox' \in [Procs -> OutboxRow \cup {Nothing}]
  BY ONLY <1>1, <1>2, <1>3, <1>4
<1> QED
  BY ONLY <1>1, <1>3, <1>4, <1>5, <1>6 DEF q, RowTo

LEMMA PRInitType == PRConstants /\ PRInit => PRTypeOK
<1> SUFFICES ASSUME PRConstants, PRInit PROVE PRTypeOK
  OBVIOUS
<1>1. Idle \in Call /\ Idle.at = "idle"
  BY DEF Idle, Call, Labels
<1>2. outbox \in [Procs -> OutboxRow \cup {Nothing}] /\ call \in [Workers -> Call]
      /\ \A p \in Procs : outbox[p] = Nothing
  BY <1>1 DEF PRInit
<1>3. \A w \in Workers : call[w].at = "idle"
  BY <1>1 DEF PRInit
<1>4. prs \in Seq(PullRequest) /\ given \subseteq Receipts
  BY DEF PRInit
<1>5. /\ base \in {"approved", "moved"} /\ head \in {Nothing, "approved", "other"}
      /\ pushed \in BOOLEAN /\ outside \in Nat /\ faults \in Nat
  BY Zenon DEF PRInit
<1> QED
  BY ONLY <1>2, <1>3, <1>4, <1>5 DEF PRTypeOK

\* The new pull request comes after the others, which stay as they are.
LEMMA PROpened ==
    ASSUME PRConstants, PRTypeOK, NEW w \in Workers, call[w].at # "idle",
           NEW d \in BOOLEAN, Accepts, NewPR(w, d)
    PROVE  LET n == Len(prs) + 1 IN
           /\ n \in Nat /\ prs' \in Seq(PullRequest) /\ Len(prs') = n
           /\ DOMAIN prs' = DOMAIN prs \cup {n} /\ n \notin DOMAIN prs
           /\ \A i \in DOMAIN prs : prs'[i] = prs[i] /\ ~prs[i].open
           /\ prs'[n] = [made |-> Content(w), content |-> Content(w), draft |-> d,
                         open |-> TRUE, head |-> head, fresh |-> call[w].fresh]
<1> DEFINE e == [made |-> Content(w), content |-> Content(w), draft |-> d,
                 open |-> TRUE, head |-> head, fresh |-> call[w].fresh]
<1>1. prs \in Seq(PullRequest) /\ prs' = Append(prs, e)
  BY DEF PRTypeOK, NewPR
<1>2. Content(w) \in Contents
  <2>1. outbox[call[w].proc] \in OutboxRow /\ call[w].request = outbox[call[w].proc].request
    BY DEF PRTypeOK
  <2> QED
    BY <2>1 DEF OutboxRow, Content, Contents
<1>3. head \in {"approved", "other"} /\ call[w].fresh \in BOOLEAN
  BY DEF PRTypeOK, Accepts, Call
<1>4. e \in PullRequest
  BY <1>2, <1>3 DEF PullRequest
<1>5. \A i \in DOMAIN prs : ~prs[i].open
  BY DEF Accepts
<1> HIDE DEF e
<1>6. Len(prs) \in Nat /\ DOMAIN prs = 1 .. Len(prs)
  BY ONLY <1>1
<1>7. /\ prs' \in Seq(PullRequest) /\ Len(prs') = Len(prs) + 1 /\ prs'[Len(prs) + 1] = e
      /\ DOMAIN prs' = 1 .. (Len(prs) + 1) /\ \A i \in 1 .. Len(prs) : prs'[i] = prs[i]
  BY ONLY <1>1, <1>4
<1>8. DOMAIN prs' = DOMAIN prs \cup {Len(prs) + 1} /\ Len(prs) + 1 \notin DOMAIN prs
  BY ONLY <1>6, <1>7
<1> QED
  BY ONLY <1>5, <1>6, <1>7, <1>8 DEF e

\* Others close pull requests and edit them.
LEMMA PRTouched ==
    ASSUME PRTypeOK, Outside
    PROVE  /\ prs' \in Seq(PullRequest) /\ Len(prs') = Len(prs) /\ DOMAIN prs' = DOMAIN prs
           /\ \A i \in DOMAIN prs :
                 /\ prs'[i].made = prs[i].made /\ prs'[i].draft = prs[i].draft
                 /\ prs'[i].head = prs[i].head /\ prs'[i].fresh = prs[i].fresh
                 /\ prs'[i].content \in {prs[i].content, "edited"}
<1>0. prs \in Seq(PullRequest)
  BY DEF PRTypeOK
<1>1. Len(prs) \in Nat /\ DOMAIN prs = 1 .. Len(prs) /\ prs \in [1 .. Len(prs) -> PullRequest]
  BY ONLY <1>0
<1>2. CASE prs' = prs
  BY <1>0, <1>2
<1>3. CASE prs' = Closed
  <2>1. prs' = [i \in 1 .. Len(prs) |-> [prs[i] EXCEPT !.open = FALSE]]
    BY <1>1, <1>3 DEF Closed
  <2>2. \A i \in 1 .. Len(prs) :
           /\ prs'[i] \in PullRequest
           /\ prs'[i].made = prs[i].made /\ prs'[i].draft = prs[i].draft
           /\ prs'[i].head = prs[i].head /\ prs'[i].fresh = prs[i].fresh
           /\ prs'[i].content = prs[i].content
    BY ONLY <1>1, <2>1, Zenon DEF PullRequest
  <2>3. prs' \in [1 .. Len(prs) -> PullRequest]
    BY ONLY <2>1, <2>2
  <2>4. prs' \in Seq(PullRequest) /\ Len(prs') = Len(prs) /\ DOMAIN prs' = DOMAIN prs
    BY ONLY <1>1, <2>3
  <2> QED
    BY ONLY <1>1, <2>2, <2>4
<1>4. ASSUME NEW j \in DOMAIN prs, prs' = [prs EXCEPT ![j].content = "edited"]
      PROVE  /\ prs' \in [1 .. Len(prs) -> PullRequest]
             /\ \A i \in DOMAIN prs :
                   /\ prs'[i].made = prs[i].made /\ prs'[i].draft = prs[i].draft
                   /\ prs'[i].head = prs[i].head /\ prs'[i].fresh = prs[i].fresh
                   /\ prs'[i].content \in {prs[i].content, "edited"}
  <2> DEFINE e == [prs[j] EXCEPT !.content = "edited"]
  <2>1. prs' = [prs EXCEPT ![j] = e] /\ prs[j] \in PullRequest
    BY <1>1, <1>4
  <2>2. /\ e \in PullRequest /\ e.made = prs[j].made /\ e.draft = prs[j].draft
        /\ e.head = prs[j].head /\ e.fresh = prs[j].fresh /\ e.content = "edited"
    BY ONLY <2>1 DEF PullRequest
  <2> HIDE DEF e
  <2> QED
    BY ONLY <1>1, <2>1, <2>2, j \in DOMAIN prs
<1>5. prs' \in [1 .. Len(prs) -> PullRequest]
          => prs' \in Seq(PullRequest) /\ Len(prs') = Len(prs) /\ DOMAIN prs' = DOMAIN prs
  BY ONLY <1>1
<1> QED
  BY <1>2, <1>3, <1>4, <1>5 DEF Outside

\* The parts of a step that only moves a call; of one that sets its row too; and
\* of one that opens a pull request.
CallMoves(w) ==
    /\ call[w].at # "idle" /\ UNCHANGED <<outbox, prs, given, base>>
    /\ head' = head \/ (head = Nothing /\ head' = "approved" /\ call[w].at = "mkref")
    /\ CallEnds(w) \/ \E a \in Labels : CallTo(w, a) /\ (a = "commit" => call'[w].pr \in DOMAIN prs)
RowMoves(w) ==
    /\ call[w].at # "idle" /\ UNCHANGED <<prs, base, head, pushed, outside, faults>>
    /\ CallEnds(w) \/ \E a \in {"base1", "base2", "pr"} : CallTo(w, a)
    /\ \E s \in States, t \in Receipts \cup {Nothing} :
          RowTo(w, s, t) /\ (s = "pr_created" => t # Nothing)
    /\ given' \subseteq Receipts
Opens(w) ==
    /\ call[w].at = "create" /\ UNCHANGED <<outbox, base, head, given>>
    /\ Accepts
    /\ \/ NewPR(w, TRUE) /\ CallTo(w, "relist")
       \/ NewPR(w, TRUE) /\ CallTo(w, "commit") /\ call'[w].pr = Len(prs) + 1
       \/ NewPR(w, FALSE) /\ CallTo(w, "conflict")
BoundsKept == pushed' = pushed /\ outside' = outside /\ faults' \in Nat

LEMMA PRFaults ==
    ASSUME PRTypeOK, Fault \/ UNCHANGED bounds
    PROVE  BoundsKept
BY DEF PRTypeOK, Fault, bounds, BoundsKept

LEMMA PRCallMoves ==
    ASSUME PRConstants, PRTypeOK, NEW w \in Workers,
           \/ CallFails(w) \/ CheckBase(w) \/ ReconcileHead(w) \/ CreateRef(w)
           \/ LookAgain(w) \/ Lookup(w) \/ LookupAgain(w)
    PROVE  CallMoves(w) /\ BoundsKept
<1>0. Len(prs) \in Nat /\ DOMAIN prs = 1 .. Len(prs)
  <2>1. prs \in Seq(PullRequest)
    BY DEF PRTypeOK
  <2> QED
    BY ONLY <2>1
<1>6. \A i \in DOMAIN prs : i \in Nat
  BY ONLY <1>0
<1> USE PRGoto, PRReturn DEF Labels, provider
<1>1. CASE CallFails(w)
  BY <1>1, PRFaults DEF CallFails, CallMoves
<1>2. CASE CheckBase(w)
  BY <1>2, PRFaults DEF CheckBase, CallMoves
<1>3. CASE ReconcileHead(w)
  BY <1>3, PRFaults DEF ReconcileHead, CallMoves
<1>4. CASE CreateRef(w)
  BY <1>4, PRFaults DEF CreateRef, CallMoves
<1>5. CASE LookAgain(w)
  BY <1>5, PRFaults DEF LookAgain, CallMoves
<1>7. CASE Lookup(w)
  <2>1. 1 \in Nat /\ (~(Len(prs) = 0) => 1 \in DOMAIN prs)
    BY ONLY <1>0
  <2>2. Found(w, 1) /\ ~(Len(prs) = 0) => CallTo(w, "commit") /\ call'[w].pr \in DOMAIN prs
    <3>1. Found(w, 1) => CallTo(w, "commit") /\ call'[w].pr = 1
      BY <2>1, PRFound
    <3> QED
      BY ONLY <2>1, <3>1
  <2> QED
    BY <1>7, <2>2, PRFaults DEF Lookup, CallMoves
<1>8. CASE LookupAgain(w)
  <2>1. ASSUME NEW i \in DOMAIN prs, Found(w, i)
        PROVE  CallTo(w, "commit") /\ call'[w].pr \in DOMAIN prs
    BY <1>6, <2>1, PRFound
  <2> QED
    BY <1>8, <2>1, PRFaults DEF LookupAgain, CallMoves
<1> QED
  BY <1>1, <1>2, <1>3, <1>4, <1>5, <1>7, <1>8

LEMMA PRRowMoves ==
    ASSUME PRConstants, PRTypeOK, NEW w \in Workers,
           \/ EnterBranch(w) \/ BranchPublished(w) \/ EnterPR(w)
           \/ CommitPRSuccess(w) \/ MarkEnd(w)
    PROVE  \/ RowMoves(w)
           \/ call[w].at = "branch" /\ CallMoves(w) /\ BoundsKept /\ UNCHANGED bounds
           \/ /\ call[w].at = "pr" /\ outbox' = outbox /\ CallEnds(w)
              /\ UNCHANGED <<prs, base, head, pushed, outside, faults>>
              /\ Row(w).state = "pr_created" /\ given' = given \cup {Row(w).receipt}
<1>0. call[w].at # "idle" /\ given \subseteq Receipts
  BY DEF EnterBranch, BranchPublished, EnterPR, CommitPRSuccess, MarkEnd, PRTypeOK
<1> DEFINE old == outbox[call[w].proc].receipt
<1>1. old \in Receipts \cup {Nothing}
  BY <1>0 DEF PRTypeOK
<1>2. ASSUME NEW s \in States \ {"pr_created"}, SetState(w, s)
      PROVE  RowTo(w, s, old)
  BY <1>0, <1>2, PRSetState
<1> HIDE DEF old
<1>3. ASSUME NEW s \in States \ {"pr_created"}, SetState(w, s),
             UNCHANGED <<prs, base, head, given, pushed, outside, faults>>,
             CallEnds(w) \/ \E a \in {"base1", "base2", "pr"} : CallTo(w, a)
      PROVE  RowMoves(w)
  <2>1. RowTo(w, s, old)
    BY <1>2, <1>3
  <2> QED
    BY ONLY <1>0, <1>1, <1>3, <2>1 DEF RowMoves
<1>4. /\ {"branch_in_flight", "branch_published", "pr_in_flight", "terminal_conflict",
           "pr_already_closed"} \subseteq States \ {"pr_created"}
      /\ {"base1", "base2", "pr"} \subseteq Labels
  BY DEF States, PastBranch, Settled, Labels
<1>5. CASE EnterBranch(w)
  <2>1. CASE Row(w).state \in PastBranch
    BY <1>0, <1>5, <2>1, PRGoto, PRFaults DEF EnterBranch, CallMoves, provider, Labels
  <2>2. CASE ~(Row(w).state \in PastBranch)
    <3>1. Goto(w, "base1") /\ SetState(w, "branch_in_flight")
          /\ UNCHANGED <<prs, base, head, given, pushed, outside, faults>>
      BY <1>5, <2>2, Zenon DEF EnterBranch, provider, bounds
    <3>2. CallTo(w, "base1")
      BY <1>4, <3>1, PRGoto
    <3> QED
      BY <1>3, <1>4, <3>1, <3>2
  <2> QED
    BY <2>1, <2>2
<1>6. CASE BranchPublished(w)
  <2>1. Goto(w, "pr") /\ SetState(w, "branch_published")
        /\ UNCHANGED <<prs, base, head, given, pushed, outside, faults>>
    BY <1>6, Zenon DEF BranchPublished, provider, bounds
  <2>2. CallTo(w, "pr")
    BY <1>4, <2>1, PRGoto
  <2> QED
    BY <1>3, <1>4, <2>1, <2>2
<1>7. CASE EnterPR(w)
  <2>1. CASE Row(w).state = "pr_created"
    BY <1>7, <2>1, PRReturn, Zenon DEF EnterPR, provider, bounds
  <2>2. CASE ~(Row(w).state = "pr_created")
    <3>1. Goto(w, "base2") /\ SetState(w, "pr_in_flight")
          /\ UNCHANGED <<prs, base, head, given, pushed, outside, faults>>
      BY <1>7, <2>2, Zenon DEF EnterPR, provider, bounds
    <3>2. CallTo(w, "base2")
      BY <1>4, <3>1, PRGoto
    <3> QED
      BY <1>3, <1>4, <3>1, <3>2
  <2> QED
    BY <2>1, <2>2
<1>8. CASE CommitPRSuccess(w)
  <2> DEFINE r == [pr |-> call[w].pr, content |-> Content(w)]
  <2>1. /\ call[w].at = "commit" /\ Return(w) /\ given' = given \cup {r}
        /\ outbox' = [outbox EXCEPT ![call[w].proc] =
                         [Row(w) EXCEPT !.state = "pr_created", !.receipt = r]]
        /\ UNCHANGED <<prs, base, head, pushed, outside, faults>>
    BY <1>8 DEF CommitPRSuccess, provider, bounds
  <2>2. r \in Receipts /\ r \in PRReceipt
    <3>1. outbox[call[w].proc] \in OutboxRow /\ call[w].request = outbox[call[w].proc].request
          /\ call[w].pr \in DOMAIN prs /\ call[w].pr \in Nat
      BY <2>1 DEF PRTypeOK, Call
    <3>2. Content(w) \in Contents
      BY <3>1 DEF OutboxRow, Content, Contents
    <3> QED
      BY <3>1, <3>2, Zenon DEF Receipts, PRReceipt
  <2>3. r # Nothing /\ "pr_created" \in States
    BY <2>2 DEF PRConstants, States, PastBranch
  <2> HIDE DEF r
  <2>4. RowTo(w, "pr_created", r)
    BY <1>0, <2>1, <2>2, <2>3, PRSetRow, Zenon
  <2>5. CallEnds(w)
    BY <2>1, PRReturn
  <2> QED
    BY <1>0, <2>1, <2>2, <2>3, <2>4, <2>5 DEF RowMoves
<1>9. CASE MarkEnd(w)
  <2>1. /\ SetState(w, "terminal_conflict") \/ SetState(w, "pr_already_closed")
        /\ Return(w) /\ UNCHANGED <<prs, base, head, given, pushed, outside, faults>>
    BY <1>9, Zenon DEF MarkEnd, provider, bounds
  <2>2. CallEnds(w)
    BY <2>1, PRReturn
  <2> QED
    BY <1>3, <1>4, <2>1, <2>2
<1> QED
  BY <1>5, <1>6, <1>7, <1>8, <1>9, Zenon

LEMMA PRCreates ==
    ASSUME PRTypeOK, NEW w \in Workers, Create(w) \/ CreateFails(w)
    PROVE  BoundsKept /\ (Opens(w) \/ (CallMoves(w) /\ call'[w].at = "relist"))
<1>1. Len(prs) + 1 \in Nat
  <2>1. prs \in Seq(PullRequest)
    BY DEF PRTypeOK
  <2> QED
    BY ONLY <2>1
<1>2. CASE Create(w)
  <2>1. CallTo(w, "commit") /\ call'[w].pr = Len(prs) + 1
    BY <1>1, <1>2, PRFound DEF Create
  <2> QED
    BY <1>2, <2>1, PRFaults, Zenon DEF Create, Opens
<1>3. CASE CreateFails(w)
  <2>1. Goto(w, "relist") => CallTo(w, "relist") /\ call'[w].at = "relist"
    BY PRGoto DEF Labels, CallTo
  <2>2. Goto(w, "conflict") => CallTo(w, "conflict")
    BY PRGoto DEF Labels
  <2>3. call[w].at = "create" /\ UNCHANGED <<outbox, base, head, given>> /\ "relist" \in Labels
    BY <1>3 DEF CreateFails, Labels
  <2>4. \/ BoundsKept /\ prs' = prs /\ Goto(w, "relist")
        \/ BoundsKept /\ Accepts /\ NewPR(w, TRUE) /\ Goto(w, "relist")
        \/ BoundsKept /\ Accepts /\ NewPR(w, FALSE) /\ Goto(w, "conflict")
    BY <1>3, PRFaults, Zenon DEF CreateFails
  <2> QED
    BY <2>1, <2>2, <2>3, <2>4, Zenon DEF Opens, CallMoves
<1> QED
  BY <1>2, <1>3

LEMMA PRTypeCalls ==
    ASSUME PRConstants, PRTypeOK, NEW w \in Workers, CallStep(w)
    PROVE  PRTypeOK'
<1>1. CASE CallMoves(w) /\ BoundsKept
  <2>1. CASE CallEnds(w)
    BY ONLY <1>1, <2>1, PRTypeOK DEF CallMoves, CallEnds, BoundsKept, PRTypeOK, Receipts
  <2>2. ASSUME NEW a \in Labels, CallTo(w, a), a = "commit" => call'[w].pr \in DOMAIN prs
        PROVE  PRTypeOK'
    BY ONLY <1>1, <2>2, PRTypeOK DEF CallMoves, CallTo, BoundsKept, PRTypeOK, Receipts
  <2> QED
    BY <1>1, <2>1, <2>2, Zenon DEF CallMoves
<1>2. CASE RowMoves(w)
  <2> PICK s \in States, t \in Receipts \cup {Nothing} :
          RowTo(w, s, t) /\ (s = "pr_created" => t # Nothing)
    BY <1>2 DEF RowMoves
  <2>1. /\ UNCHANGED <<prs, base, head, pushed, outside, faults>> /\ given' \subseteq Receipts
        /\ Receipts' = Receipts
    BY <1>2, Zenon DEF RowMoves, Receipts
  <2>2. /\ outbox' \in [Procs -> OutboxRow \cup {Nothing}]
        /\ \A p \in Procs : outbox'[p] # Nothing =>
              /\ outbox'[p].receipt \in Receipts \cup {Nothing}
              /\ outbox'[p].state = "pr_created" => outbox'[p].receipt # Nothing
    BY DEF RowTo, PRTypeOK
  <2>3. \A p \in Procs : outbox[p] # Nothing =>
           outbox'[p] # Nothing /\ outbox'[p].request = outbox[p].request
    BY DEF RowTo
  <2>4. /\ call' \in [Workers -> Call]
        /\ \A v \in Workers : call'[v].at # "idle" =>
              /\ call[v].at # "idle" /\ call'[v].proc = call[v].proc
              /\ call'[v].request = call[v].request
              /\ call'[v].at = "commit" => call'[v] = call[v]
    BY <1>2 DEF RowMoves, CallEnds, CallTo
  <2>5. \A v \in Workers : call[v].at # "idle" =>
           /\ call[v].proc \in Procs /\ outbox[call[v].proc] # Nothing
           /\ call[v].request = outbox[call[v].proc].request
           /\ call[v].at = "commit" => call[v].pr \in DOMAIN prs
    BY DEF PRTypeOK
  <2>6. \A v \in Workers : call'[v].at # "idle" =>
           /\ call'[v].proc \in Procs /\ outbox'[call'[v].proc] # Nothing
           /\ call'[v].request = outbox'[call'[v].proc].request
           /\ call'[v].at = "commit" => call'[v].pr \in DOMAIN prs
    <3> SUFFICES ASSUME NEW v \in Workers, call'[v].at # "idle"
                 PROVE  /\ call'[v].proc \in Procs /\ outbox'[call'[v].proc] # Nothing
                        /\ call'[v].request = outbox'[call'[v].proc].request
                        /\ call'[v].at = "commit" => call'[v].pr \in DOMAIN prs
      OBVIOUS
    <3>1. /\ call[v].at # "idle" /\ call'[v].proc = call[v].proc
          /\ call'[v].request = call[v].request
          /\ call'[v].at = "commit" => call'[v] = call[v]
      BY <2>4
    <3>2. /\ call[v].proc \in Procs /\ outbox[call[v].proc] # Nothing
          /\ call[v].request = outbox[call[v].proc].request
          /\ call[v].at = "commit" => call[v].pr \in DOMAIN prs
      BY <2>5, <3>1
    <3> QED
      BY ONLY <2>3, <3>1, <3>2
  <2> QED
    BY ONLY <2>1, <2>2, <2>4, <2>6, PRTypeOK DEF PRTypeOK
<1>3. CASE /\ call[w].at = "pr" /\ outbox' = outbox /\ CallEnds(w)
           /\ UNCHANGED <<prs, base, head, pushed, outside, faults>>
           /\ Row(w).state = "pr_created" /\ given' = given \cup {Row(w).receipt}
  <2>1. Row(w).receipt \in Receipts
    BY <1>3 DEF PRTypeOK, Row
  <2> QED
    BY ONLY <1>3, <2>1, PRTypeOK DEF CallEnds, PRTypeOK, Receipts
<1>4. CASE Opens(w) /\ BoundsKept
  <2> DEFINE n == Len(prs) + 1
  <2>1. n \in Nat /\ prs' \in Seq(PullRequest) /\ DOMAIN prs' = DOMAIN prs \cup {n}
    BY <1>4, PROpened, Zenon DEF Opens
  <2> HIDE DEF n
  <2>2. PICK a \in {"relist", "commit", "conflict"} : CallTo(w, a) /\ (a = "commit" => call'[w].pr = n)
    BY <1>4, Zenon DEF Opens, n
  <2>3. call[w].at # "idle" /\ UNCHANGED <<outbox, base, head, given>>
    BY <1>4 DEF Opens
  <2> QED
    BY ONLY <1>4, <2>1, <2>2, <2>3, PRTypeOK DEF CallTo, BoundsKept, PRTypeOK, Receipts
<1> QED
  BY <1>1, <1>2, <1>3, <1>4, PRCallMoves, PRRowMoves, PRCreates DEF CallStep

\* A call begins: in a row of its request that is there, or a new one.
Begins(w, p, r) ==
    /\ UNCHANGED <<prs, base, head, given, pushed, outside, faults>>
    /\ call[w].at = "idle" /\ call' \in [Workers -> Call]
    /\ call'[w].at = "branch" /\ call'[w].proc = p /\ call'[w].request = r
    /\ call'[w].fresh = (prs = <<>>)
    /\ \A v \in Workers : v # w => call'[v] = call[v]
    /\ outbox' \in [Procs -> OutboxRow \cup {Nothing}]
    /\ \A q \in Procs : q # p => outbox'[q] = outbox[q]
    /\ outbox'[p] # Nothing /\ outbox'[p].request = r
    /\ \/ outbox[p] # Nothing /\ outbox' = outbox
       \/ outbox[p] = Nothing /\ outbox'[p].state = "branch_pending" /\ outbox'[p].receipt = Nothing

LEMMA PRBegins ==
    ASSUME PRConstants, PRTypeOK, NEW w \in Workers, NEW p \in Procs,
           NEW r \in Requests, Begin(w, p, r)
    PROVE  Begins(w, p, r)
<1>1. UNCHANGED <<prs, base, head, given, pushed, outside, faults>> /\ call[w].at = "idle"
  BY DEF Begin, provider, bounds
<1> DEFINE c == [Idle EXCEPT !.at = "branch", !.proc = p, !.request = r, !.fresh = (prs = <<>>)]
<1>2. c \in Call /\ c.at = "branch" /\ c.proc = p /\ c.request = r /\ c.fresh = (prs = <<>>)
  BY Zenon DEF Idle, Call, Labels
<1>3. call' = [call EXCEPT ![w] = c] /\ call \in [Workers -> Call]
  BY DEF Begin, PRTypeOK
<1> HIDE DEF c
<1>4. /\ call' \in [Workers -> Call] /\ call'[w] = c
      /\ \A v \in Workers : v # w => call'[v] = call[v]
  BY ONLY <1>2, <1>3
<1> DEFINE new == [request |-> r, state |-> "branch_pending", receipt |-> Nothing]
<1>5. new \in OutboxRow /\ new.request = r /\ new.state = "branch_pending" /\ new.receipt = Nothing
  BY DEF OutboxRow, States
<1>6. outbox \in [Procs -> OutboxRow \cup {Nothing}]
      /\ outbox' = (IF outbox[p] # Nothing THEN outbox ELSE [outbox EXCEPT ![p] = new])
      /\ (outbox[p] # Nothing => outbox[p].request = r)
  BY DEF Begin, PRTypeOK
<1> HIDE DEF new
<1>7. new # Nothing
  BY ONLY <1>5, PRConstants DEF PRConstants
<1>8. CASE outbox[p] # Nothing
  BY ONLY <1>1, <1>2, <1>4, <1>6, <1>8 DEF Begins
<1>9. CASE outbox[p] = Nothing
  <2>1. outbox' = [outbox EXCEPT ![p] = new]
    BY ONLY <1>6, <1>9
  <2>2. /\ outbox' \in [Procs -> OutboxRow \cup {Nothing}] /\ outbox'[p] = new
        /\ \A q \in Procs : q # p => outbox'[q] = outbox[q]
    BY ONLY <1>5, <1>6, <2>1, p \in Procs
  <2> QED
    BY ONLY <1>1, <1>2, <1>4, <1>5, <1>7, <1>9, <2>2 DEF Begins
<1> QED
  BY ONLY <1>8, <1>9

\* A process dies: its row and its calls are gone.
LEMMA PRCrashes ==
    ASSUME PRTypeOK, NEW p \in Procs, Crash(p)
    PROVE  /\ UNCHANGED <<prs, base, head, given>> /\ BoundsKept
           /\ outbox' \in [Procs -> OutboxRow \cup {Nothing}] /\ outbox'[p] = Nothing
           /\ \A q \in Procs : q # p => outbox'[q] = outbox[q]
           /\ call' \in [Workers -> Call]
           /\ \A w \in Workers : \/ call'[w].at = "idle"
                                 \/ call[w].proc # p /\ call'[w] = call[w]
<1>1. Idle \in Call /\ Idle.at = "idle"
  BY DEF Idle, Call, Labels
<1>2. /\ UNCHANGED <<prs, base, head, given>> /\ outbox' = [outbox EXCEPT ![p] = Nothing]
      /\ call' = [w \in Workers |-> IF call[w].proc = p THEN Idle ELSE call[w]]
      /\ outbox \in [Procs -> OutboxRow \cup {Nothing}] /\ call \in [Workers -> Call]
  BY DEF Crash, PRTypeOK, provider
<1>3. BoundsKept
  BY PRFaults DEF Crash
<1> QED
  BY ONLY <1>1, <1>2, <1>3, p \in Procs

LEMMA PRTypeStep ==
    ASSUME PRConstants
    PROVE  PRTypeOK /\ [PRNext]_PRvars => PRTypeOK'
<1> SUFFICES ASSUME PRTypeOK, [PRNext]_PRvars PROVE PRTypeOK'
  OBVIOUS
<1>1. ASSUME NEW w \in Workers, NEW p \in Procs, NEW r \in Requests, Begin(w, p, r)
      PROVE  PRTypeOK'
  <2>1. Begins(w, p, r)
    BY <1>1, PRBegins
  <2>2. Receipts' = Receipts
    BY ONLY <2>1 DEF Begins, Receipts
  <2>3. \A q \in Procs : outbox'[q] # Nothing =>
           /\ outbox'[q].receipt \in Receipts \cup {Nothing}
           /\ outbox'[q].state = "pr_created" => outbox'[q].receipt # Nothing
    BY ONLY <2>1, PRTypeOK, p \in Procs DEF Begins, PRTypeOK
  <2>4. \A v \in Workers : call'[v].at # "idle" =>
           /\ call'[v].proc \in Procs /\ outbox'[call'[v].proc] # Nothing
           /\ call'[v].request = outbox'[call'[v].proc].request
           /\ call'[v].at = "commit" => call'[v].pr \in DOMAIN prs
    <3> SUFFICES ASSUME NEW v \in Workers, call'[v].at # "idle"
                 PROVE  /\ call'[v].proc \in Procs /\ outbox'[call'[v].proc] # Nothing
                        /\ call'[v].request = outbox'[call'[v].proc].request
                        /\ call'[v].at = "commit" => call'[v].pr \in DOMAIN prs
      OBVIOUS
    <3>1. CASE v = w
      BY ONLY <2>1, <3>1, p \in Procs DEF Begins
    <3>2. CASE v # w
      <4>1. call'[v] = call[v] /\ \A q \in Procs : outbox[q] # Nothing =>
               outbox'[q] # Nothing /\ outbox'[q].request = outbox[q].request
        BY ONLY <2>1, <3>2, v \in Workers DEF Begins
      <4>2. call[v].at # "idle" =>
               /\ call[v].proc \in Procs /\ outbox[call[v].proc] # Nothing
               /\ call[v].request = outbox[call[v].proc].request
               /\ call[v].at = "commit" => call[v].pr \in DOMAIN prs
        BY ONLY PRTypeOK, v \in Workers DEF PRTypeOK
      <4> QED
        BY ONLY <4>1, <4>2, call'[v].at # "idle"
    <3> QED
      BY ONLY <3>1, <3>2
  <2> QED
    BY ONLY <2>1, <2>2, <2>3, <2>4, PRTypeOK, Zenon DEF Begins, PRTypeOK
<1>2. ASSUME NEW w \in Workers, NEW p \in Procs, NEW r \in Requests, Replay(w, p, r)
      PROVE  PRTypeOK'
  <2>1. outbox[p].receipt \in Receipts
    BY <1>2 DEF Replay, PRTypeOK
  <2>2. given' = given \cup {outbox[p].receipt}
        /\ UNCHANGED <<outbox, call, base, head, prs, pushed, outside, faults>>
    BY <1>2, Zenon DEF Replay, provider, bounds
  <2> QED
    BY ONLY <2>1, <2>2, PRTypeOK DEF PRTypeOK, Receipts
<1>3. ASSUME NEW p \in Procs, Crash(p) PROVE PRTypeOK'
  <2>1. /\ UNCHANGED <<prs, base, head, given>> /\ BoundsKept
        /\ outbox' \in [Procs -> OutboxRow \cup {Nothing}] /\ outbox'[p] = Nothing
        /\ \A q \in Procs : q # p => outbox'[q] = outbox[q]
        /\ call' \in [Workers -> Call]
        /\ \A w \in Workers : call'[w].at = "idle" \/ (call[w].proc # p /\ call'[w] = call[w])
    BY <1>3, PRCrashes
  <2>2. Receipts' = Receipts
    BY ONLY <2>1 DEF Receipts
  <2>3. \A q \in Procs : outbox'[q] # Nothing =>
           /\ outbox'[q].receipt \in Receipts \cup {Nothing}
           /\ outbox'[q].state = "pr_created" => outbox'[q].receipt # Nothing
    <3>1. \A q \in Procs : outbox[q] # Nothing =>
             /\ outbox[q].receipt \in Receipts \cup {Nothing}
             /\ outbox[q].state = "pr_created" => outbox[q].receipt # Nothing
      BY ONLY PRTypeOK DEF PRTypeOK
    <3> QED
      BY ONLY <2>1, <3>1
  <2>4. \A v \in Workers : call'[v].at # "idle" =>
           /\ call'[v].proc \in Procs /\ outbox'[call'[v].proc] # Nothing
           /\ call'[v].request = outbox'[call'[v].proc].request
           /\ call'[v].at = "commit" => call'[v].pr \in DOMAIN prs
    <3>1. \A v \in Workers : call[v].at # "idle" =>
             /\ call[v].proc \in Procs /\ outbox[call[v].proc] # Nothing
             /\ call[v].request = outbox[call[v].proc].request
             /\ call[v].at = "commit" => call[v].pr \in DOMAIN prs
      BY ONLY PRTypeOK DEF PRTypeOK
    <3>2. ASSUME NEW v \in Workers, call'[v].at # "idle"
          PROVE  /\ call'[v].proc \in Procs /\ outbox'[call'[v].proc] # Nothing
                 /\ call'[v].request = outbox'[call'[v].proc].request
                 /\ call'[v].at = "commit" => call'[v].pr \in DOMAIN prs
      <4>1. call[v].proc # p /\ call'[v] = call[v]
        BY ONLY <2>1, <3>2
      <4>2. call[v].proc \in Procs
        BY ONLY <3>1, <3>2, <4>1
      <4>3. outbox'[call[v].proc] = outbox[call[v].proc]
        BY ONLY <2>1, <4>1, <4>2
      <4> QED
        BY ONLY <3>1, <3>2, <4>1, <4>2, <4>3
    <3> QED
      BY ONLY <3>2
  <2> QED
    BY ONLY <2>1, <2>2, <2>3, <2>4, PRTypeOK DEF BoundsKept, PRTypeOK
<1>4. CASE Outside
  <2>1. prs' \in Seq(PullRequest) /\ DOMAIN prs' = DOMAIN prs
    BY <1>4, PRTouched
  <2>2. /\ base' \in {"moved", base} /\ head' \in {Nothing, "other", head}
        /\ UNCHANGED <<outbox, call, given, faults>>
    BY <1>4 DEF Outside
  <2>3. outside' \in Nat
    BY <1>4 DEF Outside, PRTypeOK
  <2>4. pushed' \in BOOLEAN
    <3>1. pushed' = TRUE \/ pushed' = pushed
      BY <1>4 DEF Outside
    <3> QED
      BY <3>1, Zenon DEF PRTypeOK
  <2> QED
    BY ONLY <2>1, <2>2, <2>3, <2>4, PRTypeOK DEF PRTypeOK, Receipts
<1>5. CASE UNCHANGED PRvars
  BY <1>5 DEF PRvars, provider, bounds, PRTypeOK, Receipts
<1> QED
  BY <1>1, <1>2, <1>3, <1>4, <1>5, PRTypeCalls DEF PRNext, WorkerStep

\* Rows, calls and receipts keep their types; a receipt is of a pull request that is
\* there, a row that is done has one, and a call works on the row of its request.
THEOREM PRTypeCorrect == PRSpec => []PRTypeOK
BY PRConstants, PRInitType, PRTypeStep, PTL DEF PRSpec

\* From where to where a call goes, and what it has seen.
From(w, a, b) == call[w].at = a /\ CallTo(w, b)
CallTable(w) ==
    \/ CallEnds(w)
    \/ From(w, "branch", "pr") /\ Row(w).state \in PastBranch
    \/ From(w, "branch", "base1") \/ From(w, "base1", "head") \/ From(w, "base2", "list")
    \/ (From(w, "base1", "conflict") \/ From(w, "base2", "conflict")) /\ base # "approved"
    \/ From(w, "head", "mkref") \/ From(w, "mkref", "relook")
    \/ From(w, "mkref", "published") /\ head' = "approved"
    \/ (From(w, "head", "published") \/ From(w, "relook", "published")) /\ head = "approved"
    \/ (From(w, "head", "conflict") \/ From(w, "relook", "conflict")) /\ head \notin {Nothing, "approved"}
    \/ From(w, "published", "pr") \/ From(w, "pr", "base2")
    \/ From(w, "list", "create") /\ Len(prs) = 0
    \/ From(w, "list", "conflict") /\ Len(prs) # 0 /\ (Len(prs) > 1 \/ (prs[1].open /\ ~Exact(w, 1)))
    \/ From(w, "list", "closed") /\ Len(prs) # 0 /\ ~prs[1].open
    \/ From(w, "list", "commit") /\ Len(prs) # 0 /\ call'[w].pr = 1 /\ Exact(w, 1)
    \/ From(w, "create", "relist") \/ From(w, "create", "conflict") \/ From(w, "create", "commit")
    \/ From(w, "relist", "commit") /\ call'[w].pr \in DOMAIN prs /\ Exact(w, call'[w].pr)

LEMMA PRTable ==
    ASSUME PRTypeOK, NEW w \in Workers, CallStep(w)
    PROVE  CallTable(w)
<1>0. ASSUME NEW a \in Labels, Goto(w, a) PROVE From(w, call[w].at, a)
  BY <1>0, PRGoto DEF From
<1>1. Return(w) => CallEnds(w)
  BY PRReturn
<1>2. Len(prs) \in Nat /\ DOMAIN prs = 1 .. Len(prs) /\ \A i \in DOMAIN prs : i \in Nat
  BY DEF PRTypeOK
<1>3. ASSUME NEW i \in Nat, Found(w, i) PROVE From(w, call[w].at, "commit") /\ call'[w].pr = i
  BY <1>3, PRFound DEF From
<1>4. CASE CallFails(w) \/ MarkEnd(w) \/ CommitPRSuccess(w)
  BY <1>1, <1>4 DEF CallFails, MarkEnd, CommitPRSuccess, CallTable
<1>5. CASE EnterBranch(w)
  BY <1>0, <1>5 DEF EnterBranch, CallTable, Labels
<1>6. CASE CheckBase(w)
  BY <1>0, <1>6 DEF CheckBase, CallTable, Labels
<1>7. CASE ReconcileHead(w)
  BY <1>0, <1>7 DEF ReconcileHead, CallTable, Labels
<1>8. CASE CreateRef(w)
  BY <1>0, <1>8 DEF CreateRef, CallTable, Labels
<1>9. CASE LookAgain(w)
  BY <1>0, <1>1, <1>9 DEF LookAgain, CallTable, Labels
<1>10. CASE BranchPublished(w)
  BY <1>0, <1>10 DEF BranchPublished, CallTable, Labels
<1>11. CASE EnterPR(w)
  BY <1>0, <1>1, <1>11, Zenon DEF EnterPR, CallTable, Labels
<1>12. CASE Lookup(w)
  <2>1. CASE Len(prs) = 0
    BY <1>0, <1>12, <2>1 DEF Lookup, CallTable, Labels
  <2>2. CASE Len(prs) > 1
    <3>1. Len(prs) # 0 /\ Goto(w, "conflict") /\ call[w].at = "list"
      BY <1>2, <1>12, <2>2 DEF Lookup
    <3> QED
      BY <1>0, <2>2, <3>1, Zenon DEF CallTable, Labels
  <2>3. CASE ~(Len(prs) = 0) /\ ~(Len(prs) > 1)
    <3>1. call[w].at = "list" /\ IF ~prs[1].open THEN Goto(w, "closed")
                                 ELSE IF Exact(w, 1) THEN Found(w, 1) ELSE Goto(w, "conflict")
      BY <1>12, <2>3 DEF Lookup
    <3> QED
      BY <1>0, <1>3, <2>3, <3>1, Zenon DEF CallTable, Labels
  <2> QED
    BY <2>1, <2>2, <2>3
<1>13. CASE Create(w)
  <2>1. Len(prs) + 1 \in Nat
    BY <1>2
  <2> QED
    BY <1>3, <1>13, <2>1, Zenon DEF Create, CallTable
<1>14. CASE CreateFails(w)
  BY <1>0, <1>14 DEF CreateFails, CallTable, Labels
<1>15. CASE LookupAgain(w)
  <2>1. ASSUME NEW i \in DOMAIN prs, Exact(w, i), Found(w, i), call[w].at = "relist"
        PROVE  CallTable(w)
    BY <1>2, <1>3, <2>1 DEF CallTable
  <2> QED
    BY <1>1, <1>15, <2>1 DEF LookupAgain, CallTable
<1> QED
  BY <1>4, <1>5, <1>6, <1>7, <1>8, <1>9, <1>10, <1>11, <1>12, <1>13, <1>14, <1>15 DEF CallStep

\* What a call does to the provider and to the other rows.
LEMMA PRAround ==
    ASSUME PRConstants, PRTypeOK, NEW w \in Workers, CallStep(w)
    PROVE  /\ call[w].at # "idle" /\ base' = base /\ BoundsKept
           /\ head' = head \/ (head = Nothing /\ head' = "approved")
           /\ prs' = prs \/ Opens(w)
           /\ call[w].at # "create" => prs' = prs
           /\ \A p \in Procs : p # call[w].proc => outbox'[p] = outbox[p]
           /\ \A v \in Workers : v # w => call'[v] = call[v]
<1>1. CASE CallMoves(w) /\ BoundsKept
  BY <1>1 DEF CallMoves, CallEnds, CallTo
<1>2. CASE RowMoves(w)
  <2>1. \A p \in Procs : p # call[w].proc => outbox'[p] = outbox[p]
    BY <1>2 DEF RowMoves, RowTo
  <2>2. \A v \in Workers : v # w => call'[v] = call[v]
    BY <1>2 DEF RowMoves, CallEnds, CallTo
  <2>3. call[w].at # "idle" /\ UNCHANGED <<prs, base, head, pushed, outside, faults>>
    BY <1>2, Zenon DEF RowMoves
  <2>4. BoundsKept
    BY <2>3 DEF BoundsKept, PRTypeOK
  <2> QED
    BY ONLY <2>1, <2>2, <2>3, <2>4, Zenon
<1>3. CASE /\ call[w].at = "pr" /\ outbox' = outbox /\ CallEnds(w)
           /\ UNCHANGED <<prs, base, head, pushed, outside, faults>>
  BY <1>3 DEF CallEnds, BoundsKept, PRTypeOK
<1>4. CASE Opens(w) /\ BoundsKept
  BY <1>4, Zenon DEF Opens, CallTo
<1> QED
  BY <1>1, <1>2, <1>3, <1>4, PRCallMoves, PRRowMoves, PRCreates DEF CallStep

\* What a call does to its row, and the receipt it returns.
ReceiptOf(w) == [pr |-> call[w].pr, content |-> Content(w)]
RowTable(w) ==
    LET old == outbox[call[w].proc].receipt IN
    \/ outbox' = outbox
    \/ call[w].at = "branch" /\ RowTo(w, "branch_in_flight", old)
    \/ call[w].at = "published" /\ RowTo(w, "branch_published", old)
    \/ call[w].at = "pr" /\ RowTo(w, "pr_in_flight", old)
    \/ call[w].at = "commit" /\ RowTo(w, "pr_created", ReceiptOf(w))
    \/ call[w].at = "conflict" /\ RowTo(w, "terminal_conflict", old)
    \/ call[w].at = "closed" /\ RowTo(w, "pr_already_closed", old)
GivenTable(w) ==
    \/ given' = given
    \/ /\ call[w].at = "pr" /\ Row(w).state = "pr_created"
       /\ given' = given \cup {Row(w).receipt}
    \/ call[w].at = "commit" /\ given' = given \cup {ReceiptOf(w)}

LEMMA PRRowTable ==
    ASSUME PRConstants, PRTypeOK, NEW w \in Workers, CallStep(w)
    PROVE  RowTable(w) /\ GivenTable(w)
<1>0. call[w].at # "idle"
  BY PRAround
<1> DEFINE old == outbox[call[w].proc].receipt
<1>1. ASSUME NEW s \in States, SetState(w, s) PROVE RowTo(w, s, old)
  BY <1>0, <1>1, PRSetState, Zenon
<1>2. CASE CommitPRSuccess(w)
  <2>1. /\ call[w].at = "commit" /\ given' = given \cup {ReceiptOf(w)}
        /\ outbox' = [outbox EXCEPT ![call[w].proc] =
                         [Row(w) EXCEPT !.state = "pr_created", !.receipt = ReceiptOf(w)]]
    BY <1>2 DEF CommitPRSuccess, ReceiptOf
  <2>2. ReceiptOf(w) \in PRReceipt
    <3>1. outbox[call[w].proc] \in OutboxRow /\ call[w].request = outbox[call[w].proc].request
          /\ call[w].pr \in Nat
      BY <1>0 DEF PRTypeOK, Call
    <3>2. Content(w) \in Contents
      BY <3>1 DEF OutboxRow, Content, Contents
    <3> QED
      BY <3>1, <3>2 DEF PRReceipt, ReceiptOf
  <2>3. RowTo(w, "pr_created", ReceiptOf(w))
    BY <1>0, <2>1, <2>2, PRSetRow DEF States, PastBranch
  <2> QED
    BY <2>1, <2>3 DEF RowTable, GivenTable
<1> HIDE DEF old
<1>3. CASE EnterBranch(w)
  BY <1>1, <1>3 DEF EnterBranch, RowTable, GivenTable, States, old
<1>4. CASE BranchPublished(w)
  BY <1>1, <1>4 DEF BranchPublished, RowTable, GivenTable, States, PastBranch, old
<1>5. CASE EnterPR(w)
  BY <1>1, <1>5 DEF EnterPR, RowTable, GivenTable, States, PastBranch, old
<1>6. CASE MarkEnd(w)
  BY <1>1, <1>6, Zenon DEF MarkEnd, RowTable, GivenTable, States, Settled, old
<1>7. CASE \/ CallFails(w) \/ CheckBase(w) \/ ReconcileHead(w) \/ CreateRef(w)
           \/ LookAgain(w) \/ Lookup(w) \/ LookupAgain(w) \/ Create(w) \/ CreateFails(w)
  BY <1>7, Zenon DEF CallFails, CheckBase, ReconcileHead, CreateRef, LookAgain, Lookup,
              LookupAgain, Create, CreateFails, RowTable, GivenTable
<1> QED
  BY <1>2, <1>3, <1>4, <1>5, <1>6, <1>7 DEF CallStep

\* The pull request a call opens.
LEMMA PROpens ==
    ASSUME PRConstants, PRTypeOK, NEW w \in Workers, Opens(w)
    PROVE  LET n == Len(prs) + 1 IN
           /\ n \in Nat /\ Len(prs') = n /\ DOMAIN prs' = DOMAIN prs \cup {n} /\ n \notin DOMAIN prs
           /\ \A i \in DOMAIN prs : prs'[i] = prs[i] /\ ~prs[i].open
           /\ prs'[n].made = Content(w) /\ prs'[n].content = Content(w) /\ prs'[n].open
           /\ prs'[n].head = head /\ prs'[n].fresh = call[w].fresh
           /\ prs'[n].draft = (call'[w].at # "conflict")
           /\ call'[w].at \in {"relist", "commit", "conflict"}
           /\ call'[w].at = "commit" => call'[w].pr = n
<1> DEFINE n == Len(prs) + 1
<1>0. call[w].at # "idle" /\ Accepts
  BY DEF Opens
<1>1. /\ call'[w].at \in {"relist", "commit", "conflict"}
      /\ call'[w].at = "commit" => call'[w].pr = n
      /\ call'[w].at # "conflict" => NewPR(w, TRUE)
      /\ call'[w].at = "conflict" => NewPR(w, FALSE)
  BY Zenon DEF Opens, CallTo
<1>2. PICK d \in BOOLEAN : NewPR(w, d) /\ d = (call'[w].at # "conflict")
  BY <1>1, Zenon
<1> DEFINE r == [made |-> Content(w), content |-> Content(w), draft |-> d,
                 open |-> TRUE, head |-> head, fresh |-> call[w].fresh]
<1>3. /\ n \in Nat /\ Len(prs') = n /\ DOMAIN prs' = DOMAIN prs \cup {n} /\ n \notin DOMAIN prs
      /\ \A i \in DOMAIN prs : prs'[i] = prs[i] /\ ~prs[i].open
      /\ prs'[n] = r
  BY <1>0, <1>2, PROpened, Zenon
<1> HIDE DEF n
<1>4. /\ r.made = Content(w) /\ r.content = Content(w) /\ r.open
      /\ r.head = head /\ r.fresh = call[w].fresh /\ r.draft = d
  BY ONLY TRUE
<1> HIDE DEF r
<1>5. /\ prs'[n].made = Content(w) /\ prs'[n].content = Content(w) /\ prs'[n].open
      /\ prs'[n].head = head /\ prs'[n].fresh = call[w].fresh /\ prs'[n].draft = d
  BY ONLY <1>3, <1>4
<1> QED
  BY ONLY <1>1, <1>2, <1>3, <1>5, Zenon DEF n

-----------------------------------------------------------------------------
(* The head ref.                                                           *)

HeadKept == head = "approved" \/ pushed

LEMMA PRHeadCalls ==
    ASSUME PRConstants, PRTypeOK, HeadInv, NEW w \in Workers, CallStep(w)
    PROVE  HeadInv'
<1>0. HeadKept => HeadKept'
  BY PRAround DEF HeadKept, BoundsKept
<1>1. pushed' = pushed /\ \A i \in DOMAIN prs : prs[i].head = "approved" \/ pushed
  BY PRAround, Zenon DEF BoundsKept, HeadInv, HeadExact
<1>2. CASE call[w].at \in AfterBranch
  <2>1. HeadKept /\ HeadKept'
    BY <1>0, <1>2 DEF HeadInv, HeadKept
  <2>2. HeadExact'
    <3>1. CASE prs' = prs
      BY ONLY <1>1, <3>1 DEF HeadExact
    <3>2. CASE Opens(w)
      <4> DEFINE n == Len(prs) + 1
      <4>1. /\ DOMAIN prs' = DOMAIN prs \cup {n} /\ \A i \in DOMAIN prs : prs'[i] = prs[i]
            /\ prs'[n].head = head
        BY <3>2, PROpens, Zenon
      <4> HIDE DEF n
      <4> QED
        BY ONLY <1>1, <2>1, <4>1 DEF HeadExact, HeadKept
    <3> QED
      BY <3>1, <3>2, PRAround
  <2> QED
    BY ONLY <2>1, <2>2 DEF HeadInv, HeadKept
<1>3. CASE call[w].at \notin AfterBranch
  <2>1. /\ prs' = prs /\ call[w].proc \in Procs /\ outbox[call[w].proc] # Nothing
        /\ \A p \in Procs : p # call[w].proc => outbox'[p] = outbox[p]
        /\ \A v \in Workers : v # w => call'[v] = call[v]
    BY <1>3, PRAround DEF AfterBranch, PRTypeOK
  <2>2. call'[w].at \in AfterBranch => HeadKept'
    <3>1. CallTable(w)
      BY PRTable
    <3>2. \A b : CallTo(w, b) => call'[w].at = b
      BY DEF CallTo
    <3>3. CallEnds(w) => call'[w].at = "idle"
      BY DEF CallEnds
    <3>4. Row(w).state \in PastBranch => HeadKept
      BY <2>1 DEF HeadInv, Row, HeadKept
    <3>5. (head = "approved" => HeadKept) /\ (head' = "approved" => HeadKept')
      BY DEF HeadKept
    <3> HIDE DEF HeadKept
    <3>6. \/ call[w].at \in AfterBranch \/ call'[w].at \notin AfterBranch
          \/ HeadKept \/ HeadKept'
      BY ONLY <3>1, <3>2, <3>3, <3>4, <3>5 DEF CallTable, From, AfterBranch
    <3> QED
      BY ONLY <1>0, <1>3, <3>6
  <2>3. outbox' = outbox \/ outbox'[call[w].proc].state \notin PastBranch
    BY <1>3, PRRowTable DEF RowTable, RowTo, AfterBranch, PastBranch
  <2>4. HeadExact'
    BY ONLY <1>1, <2>1, Zenon DEF HeadExact
  <2>5. /\ \A v \in Workers : call[v].at \in AfterBranch => HeadKept
        /\ \A p \in Procs : outbox[p] # Nothing /\ outbox[p].state \in PastBranch => HeadKept
        /\ prs # <<>> => HeadKept
    BY DEF HeadInv, HeadKept
  <2>6. /\ \A v \in Workers : call'[v].at \in AfterBranch => HeadKept'
        /\ \A p \in Procs : outbox'[p] # Nothing /\ outbox'[p].state \in PastBranch => HeadKept'
        /\ prs' # <<>> => HeadKept'
    BY ONLY <1>0, <2>1, <2>2, <2>3, <2>5, w \in Workers
  <2> QED
    BY ONLY <2>4, <2>6 DEF HeadInv, HeadKept
<1> QED
  BY <1>2, <1>3

LEMMA PRHeadStep ==
    ASSUME PRConstants
    PROVE  PRTypeOK /\ HeadInv /\ [PRNext]_PRvars => HeadInv'
<1> SUFFICES ASSUME PRTypeOK, HeadInv, [PRNext]_PRvars PROVE HeadInv'
  OBVIOUS
<1>1. ASSUME NEW w \in Workers, NEW p \in Procs, NEW r \in Requests, Begin(w, p, r)
      PROVE  HeadInv'
  <2>1. Begins(w, p, r)
    BY <1>1, PRBegins
  <2>2. \A v \in Workers : call'[v].at \in AfterBranch => call[v].at \in AfterBranch
    BY ONLY <2>1 DEF Begins, AfterBranch
  <2>3. \A q \in Procs : outbox'[q] # Nothing /\ outbox'[q].state \in PastBranch
                            => outbox[q] # Nothing /\ outbox[q].state \in PastBranch
    BY ONLY <2>1 DEF Begins, PastBranch
  <2>4. UNCHANGED <<prs, head, pushed>>
    BY <2>1 DEF Begins
  <2> QED
    BY ONLY <2>2, <2>3, <2>4, HeadInv DEF HeadInv, HeadExact
<1>2. ASSUME NEW w \in Workers, NEW p \in Procs, NEW r \in Requests, Replay(w, p, r)
      PROVE  HeadInv'
  BY <1>2 DEF Replay, provider, bounds, HeadInv, HeadExact
<1>3. ASSUME NEW p \in Procs, Crash(p) PROVE HeadInv'
  <2>1. \A v \in Workers : call'[v].at \in AfterBranch => call[v].at \in AfterBranch
    BY <1>3, PRCrashes DEF AfterBranch
  <2>2. \A q \in Procs : outbox'[q] # Nothing => outbox'[q] = outbox[q]
    BY <1>3, PRCrashes
  <2>3. UNCHANGED <<prs, head, pushed>>
    BY <1>3, PRCrashes DEF BoundsKept
  <2> QED
    BY ONLY <2>1, <2>2, <2>3, HeadInv, Zenon DEF HeadInv, HeadExact
<1>4. CASE Outside
  <2>1. DOMAIN prs' = DOMAIN prs /\ (\A i \in DOMAIN prs : prs'[i].head = prs[i].head)
        /\ Len(prs') = Len(prs) /\ prs' \in Seq(PullRequest) /\ prs \in Seq(PullRequest)
    BY <1>4, PRTouched DEF PRTypeOK
  <2>2. prs' # <<>> => prs # <<>>
    BY ONLY <2>1
  <2>3. UNCHANGED <<outbox, call>> /\ (pushed' \/ (head' = head /\ pushed' = pushed))
    BY <1>4 DEF Outside
  <2> QED
    BY ONLY <2>1, <2>2, <2>3, HeadInv DEF HeadInv, HeadExact
<1>5. CASE UNCHANGED PRvars
  BY <1>5 DEF PRvars, provider, bounds, HeadInv, HeadExact
<1> QED
  BY <1>1, <1>2, <1>3, <1>4, <1>5, PRHeadCalls DEF PRNext, WorkerStep

\* No pull request is opened from a head ref at another commit than the approved
\* one, unless others moved it after the first phase had found or made it.
THEOREM PRHeadExact == PRSpec => []HeadExact
<1>1. PRInit => HeadInv
  BY DEF PRInit, Idle, HeadInv, HeadExact, AfterBranch
<1>2. HeadInv => HeadExact
  BY DEF HeadInv
<1> QED
  BY <1>1, <1>2, PRConstants, PRInitType, PRTypeStep, PRHeadStep, PTL DEF PRSpec

-----------------------------------------------------------------------------
(* No second pull request.                                                 *)

\* What a step of a call leaves of its locals.
LEMMA PRGoes ==
    ASSUME PRConstants, PRTypeOK, NEW w \in Workers, CallStep(w)
    PROVE  /\ CallTable(w)
           /\ \A b : CallTo(w, b) => call'[w].at = b
           /\ CallEnds(w) => call'[w].at = "idle"
           /\ call'[w].at = "idle" \/ (call'[w].request = call[w].request /\ call'[w].fresh = call[w].fresh)
<1> DEFINE Kept == call'[w].request = call[w].request /\ call'[w].fresh = call[w].fresh
<1>1. CallTable(w)
  BY PRTable
<1>2. \A b : CallTo(w, b) => call'[w].at = b /\ Kept
  BY ONLY TRUE DEF CallTo
<1>3. CallEnds(w) => call'[w].at = "idle"
  BY ONLY TRUE DEF CallEnds
<1> HIDE DEF Kept
<1>4. call'[w].at = "idle" \/ Kept
  BY ONLY <1>1, <1>2, <1>3 DEF CallTable, From
<1> QED
  BY <1>1, <1>2, <1>3, <1>4 DEF Kept

LEMMA PRDupCalls ==
    ASSUME PRConstants, PRTypeOK, DupInv, NEW w \in Workers, CallStep(w)
    PROVE  DupInv'
<1>0. /\ call[w].at # "idle" /\ (prs' = prs \/ Opens(w))
      /\ \A v \in Workers : v # w => call'[v] = call[v]
  BY PRAround
<1>1. prs \in Seq(PullRequest) /\ (Len(prs) = 0 => prs = <<>>)
  BY DEF PRTypeOK
<1>2. /\ call'[w].at = "idle" \/ call'[w].fresh = call[w].fresh
      /\ call'[w].at = "create" => prs = <<>>
  <2>1. /\ CallTable(w) /\ (CallEnds(w) => call'[w].at = "idle")
        /\ \A b : CallTo(w, b) => call'[w].at = b
        /\ call'[w].at = "idle" \/ call'[w].fresh = call[w].fresh
    BY PRGoes
  <2>2. call'[w].at = "create" => Len(prs) = 0
    BY ONLY <2>1 DEF CallTable, From
  <2> QED
    BY ONLY <1>1, <2>1, <2>2
<1>3. /\ \A v \in Workers : call[v].at # "idle" /\ (prs = <<>> \/ call[v].at = "create") => call[v].fresh
      /\ \A i \in DOMAIN prs : prs[i].fresh
  BY Zenon DEF DupInv, NoDuplicate
<1>4. CASE prs' = prs
  BY ONLY <1>0, <1>2, <1>3, <1>4, w \in Workers DEF DupInv, NoDuplicate
<1>5. CASE Opens(w)
  <2> DEFINE n == Len(prs) + 1
  <2>1. /\ DOMAIN prs' = DOMAIN prs \cup {n} /\ \A i \in DOMAIN prs : prs'[i] = prs[i]
        /\ prs'[n].fresh = call[w].fresh /\ call'[w].at # "create"
    BY <1>5, PROpens, Zenon
  <2>2. prs' # <<>>
    <3>1. n \in DOMAIN prs'
      BY ONLY <2>1
    <3>2. DOMAIN <<>> = {}
      BY ONLY TRUE
    <3> QED
      BY ONLY <3>1, <3>2
  <2>3. call[w].fresh
    BY <1>3, <1>5 DEF Opens
  <2> HIDE DEF n
  <2>4. \A i \in DOMAIN prs' : prs'[i].fresh
    BY ONLY <1>3, <2>1, <2>3, Zenon
  <2>5. \A v \in Workers : call'[v].at = "create" => call'[v].fresh
    BY ONLY <1>0, <1>3, <2>1, w \in Workers
  <2> QED
    BY ONLY <2>2, <2>4, <2>5 DEF DupInv, NoDuplicate
<1> QED
  BY <1>0, <1>4, <1>5

LEMMA PRDupStep ==
    ASSUME PRConstants
    PROVE  PRTypeOK /\ DupInv /\ [PRNext]_PRvars => DupInv'
<1> SUFFICES ASSUME PRTypeOK, DupInv, [PRNext]_PRvars PROVE DupInv'
  OBVIOUS
<1>1. ASSUME NEW w \in Workers, NEW p \in Procs, NEW r \in Requests, Begin(w, p, r)
      PROVE  DupInv'
  <2>1. Begins(w, p, r)
    BY <1>1, PRBegins
  <2> QED
    BY ONLY <2>1, DupInv, w \in Workers DEF Begins, DupInv, NoDuplicate
<1>2. ASSUME NEW w \in Workers, NEW p \in Procs, NEW r \in Requests, Replay(w, p, r)
      PROVE  DupInv'
  BY <1>2 DEF Replay, provider, DupInv, NoDuplicate
<1>3. ASSUME NEW p \in Procs, Crash(p) PROVE DupInv'
  BY ONLY <1>3, PRCrashes, PRTypeOK, DupInv DEF DupInv, NoDuplicate
<1>4. CASE Outside
  <2>1. DOMAIN prs' = DOMAIN prs /\ (\A i \in DOMAIN prs : prs'[i].fresh = prs[i].fresh)
        /\ Len(prs') = Len(prs) /\ prs' \in Seq(PullRequest) /\ prs \in Seq(PullRequest)
    BY <1>4, PRTouched DEF PRTypeOK
  <2>2. prs' = <<>> => prs = <<>>
    BY ONLY <2>1
  <2>3. call' = call
    BY <1>4 DEF Outside
  <2> QED
    BY ONLY <2>1, <2>2, <2>3, DupInv DEF DupInv, NoDuplicate
<1>5. CASE UNCHANGED PRvars
  BY <1>5 DEF PRvars, provider, DupInv, NoDuplicate
<1> QED
  BY <1>1, <1>2, <1>3, <1>4, <1>5, PRDupCalls DEF PRNext, WorkerStep

\* A call that begins when the tuple has a pull request never opens another, with
\* any number of calls, processes, crashes, lost answers and closed pull requests.
THEOREM PRNoDuplicate == PRSpec => []NoDuplicate
<1>1. PRInit => DupInv
  BY DEF PRInit, Idle, DupInv, NoDuplicate
<1>2. DupInv => NoDuplicate
  BY DEF DupInv
<1> QED
  BY <1>1, <1>2, PRConstants, PRInitType, PRTypeStep, PRDupStep, PTL DEF PRSpec

-----------------------------------------------------------------------------
(* Receipts.                                                               *)

\* What a pull request was opened with does not change.
LEMMA PRDraftKept ==
    ASSUME PRConstants, PRTypeOK, [PRNext]_PRvars, NEW i \in DOMAIN prs
    PROVE  i \in DOMAIN prs' /\ prs'[i].made = prs[i].made /\ prs'[i].draft = prs[i].draft
<1>1. ASSUME NEW w \in Workers, CallStep(w)
      PROVE  i \in DOMAIN prs' /\ prs'[i] = prs[i]
  BY <1>1, PRAround, PROpens
<1>2. CASE Outside
  BY <1>2, PRTouched
<1> QED
  BY <1>1, <1>2, PRBegins, PRCrashes DEF PRNext, WorkerStep, PRvars, Replay, provider, Begins

LEMMA PRReceiptCalls ==
    ASSUME PRConstants, PRTypeOK, ReceiptInv, NEW w \in Workers, CallStep(w)
    PROVE  ReceiptInv'
<1> DEFINE q == call[w].proc
<1> DEFINE Good(i, c) == DraftOf(prs', i, c)
<1>0. /\ call[w].at # "idle" /\ (prs' = prs \/ Opens(w)) /\ q \in Procs /\ outbox[q] # Nothing
      /\ \A p \in Procs : p # q => outbox'[p] = outbox[p]
      /\ \A v \in Workers : v # w => call'[v] = call[v]
  BY PRAround DEF PRTypeOK
<1>1. \A i \in DOMAIN prs : prs'[i].made = prs[i].made /\ prs'[i].draft = prs[i].draft
  BY PRDraftKept DEF PRNext, WorkerStep
<1>2. \A i \in DOMAIN prs' : prs'[i].content \in {prs'[i].made, "edited"}
  <2>1. \A i \in DOMAIN prs : prs[i].content \in {prs[i].made, "edited"}
    BY DEF ReceiptInv
  <2>2. CASE Opens(w)
    <3> DEFINE n == Len(prs) + 1
    <3>1. /\ DOMAIN prs' = DOMAIN prs \cup {n} /\ \A i \in DOMAIN prs : prs'[i] = prs[i]
          /\ prs'[n].made = Content(w) /\ prs'[n].content = Content(w)
      BY <2>2, PROpens, Zenon
    <3> HIDE DEF n
    <3> QED
      BY ONLY <2>1, <3>1
  <2> QED
    BY <1>0, <2>1, <2>2
<1>3. call[w].at = "commit" => Good(ReceiptOf(w).pr, ReceiptOf(w).content)
  BY <1>1, Zenon DEF PRTypeOK, ReceiptInv, DraftOf, ReceiptOf
<1>4. \A g \in given : Good(g.pr, g.content)
  BY <1>1 DEF PRTypeOK, Receipts, ReceiptInv, DraftOf
<1>5. \A p \in Procs : outbox[p] # Nothing /\ outbox[p].receipt # Nothing
                          => Good(outbox[p].receipt.pr, outbox[p].receipt.content)
  BY <1>1 DEF PRTypeOK, Receipts, ReceiptInv, DraftOf
<1>6. \A v \in Workers : call[v].at = "commit" => Good(call[v].pr, Content(v))
  BY <1>1 DEF PRTypeOK, ReceiptInv, DraftOf
<1>7. call'[w].at = "commit" => Good(call'[w].pr, call'[w].request.content)
  <2> SUFFICES ASSUME call'[w].at = "commit" PROVE Good(call'[w].pr, Content(w))
    <3>1. call'[w].at = "commit" => call'[w].request = call[w].request
      BY PRGoes
    <3> QED
      BY <3>1, Zenon DEF Content
  <2>1. \/ call'[w].pr \in DOMAIN prs /\ Exact(w, call'[w].pr) /\ prs' = prs
        \/ Opens(w)
    <3>1. CASE call[w].at = "create"
      <4>1. Opens(w) \/ call'[w].at = "relist"
        BY <3>1, PRCreates DEF CallStep, CallFails, EnterBranch, CheckBase,
           ReconcileHead, CreateRef, LookAgain, BranchPublished, EnterPR, Lookup,
           LookupAgain, CommitPRSuccess, MarkEnd
      <4> QED
        BY <4>1
    <3>2. CASE call[w].at # "create"
      <4>1. prs' = prs /\ Len(prs) \in Nat /\ DOMAIN prs = 1 .. Len(prs)
        <5>1. prs' = prs
          BY <3>2, PRAround
        <5>2. Len(prs) \in Nat /\ DOMAIN prs = 1 .. Len(prs)
          BY DEF PRTypeOK
        <5> QED
          BY ONLY <5>1, <5>2
      <4>2. \/ Len(prs) # 0 /\ call'[w].pr = 1 /\ Exact(w, 1)
            \/ call'[w].pr \in DOMAIN prs /\ Exact(w, call'[w].pr)
        <5>1. /\ CallTable(w) /\ (CallEnds(w) => call'[w].at = "idle")
              /\ \A b : CallTo(w, b) => call'[w].at = b
          BY PRGoes
        <5>2. ASSUME NEW a, NEW b, b # "commit" PROVE ~From(w, a, b)
          BY ONLY <5>1, <5>2, call'[w].at = "commit" DEF From
        <5>3. ~CallEnds(w) /\ ~From(w, "create", "commit")
          BY ONLY <3>2, <5>1, call'[w].at = "commit" DEF From
        <5>4. \A b \in {"pr", "base1", "head", "list", "conflict", "mkref", "relook", "published",
                        "base2", "create", "closed", "relist"} : b # "commit"
          OBVIOUS
        <5> QED
          BY ONLY <5>1, <5>2, <5>3, <5>4, Zenon DEF CallTable
      <4> QED
        BY <4>1, <4>2
    <3> QED
      BY <3>1, <3>2, Zenon
  <2>2. CASE Opens(w)
    BY <2>2, PROpens, Zenon DEF DraftOf
  <2>3. CASE call'[w].pr \in DOMAIN prs /\ Exact(w, call'[w].pr) /\ prs' = prs
    <3>1. Content(w) # "edited"
      <4>1. outbox \in [Procs -> OutboxRow \cup {Nothing}]
        BY DEF PRTypeOK
      <4>2. call[w].at # "idle" => call[w].request = outbox[q].request
        BY DEF PRTypeOK
      <4>3. outbox[q] \in OutboxRow /\ call[w].request = outbox[q].request
        BY ONLY <1>0, <4>1, <4>2
      <4> QED
        BY <4>3 DEF OutboxRow, Content, Contents, PRConstants
    <3>2. prs[call'[w].pr].content \in {prs[call'[w].pr].made, "edited"}
      BY <2>3 DEF ReceiptInv
    <3> QED
      BY <2>3, <3>1, <3>2 DEF Exact, DraftOf
  <2> QED
    BY <2>1, <2>2, <2>3
<1>8. \A p \in Procs : outbox'[p] # Nothing /\ outbox'[p].receipt # Nothing
                          => Good(outbox'[p].receipt.pr, outbox'[p].receipt.content)
  <2>1. \/ outbox' = outbox \/ outbox'[q].receipt = outbox[q].receipt
        \/ call[w].at = "commit" /\ outbox'[q].receipt = ReceiptOf(w)
    BY PRRowTable DEF RowTable, RowTo
  <2> HIDE DEF Good
  <2> QED
    BY ONLY <1>0, <1>3, <1>5, <2>1
<1>9. \A g \in given' : Good(g.pr, g.content)
  <2>1. \/ given' = given
        \/ call[w].at = "commit" /\ given' = given \cup {ReceiptOf(w)}
        \/ outbox[q].state = "pr_created" /\ given' = given \cup {outbox[q].receipt}
    BY PRRowTable, Zenon DEF GivenTable, Row
  <2>2. outbox[q].state = "pr_created" => outbox[q].receipt # Nothing
    BY <1>0 DEF PRTypeOK
  <2> HIDE DEF Good
  <2> QED
    BY ONLY <1>0, <1>3, <1>4, <1>5, <2>1, <2>2
<1>10. \A v \in Workers : call'[v].at = "commit" => Good(call'[v].pr, call'[v].request.content)
  BY <1>0, <1>6, <1>7 DEF Content
<1> QED
  BY ONLY <1>2, <1>8, <1>9, <1>10 DEF ReceiptInv, Content

LEMMA PRReceiptStep ==
    ASSUME PRConstants
    PROVE  PRTypeOK /\ ReceiptInv /\ [PRNext]_PRvars => ReceiptInv'
<1> SUFFICES ASSUME PRTypeOK, ReceiptInv, [PRNext]_PRvars PROVE ReceiptInv'
  OBVIOUS
<1>1. ASSUME NEW w \in Workers, NEW p \in Procs, NEW r \in Requests, Begin(w, p, r)
      PROVE  ReceiptInv'
  <2>1. Begins(w, p, r)
    BY <1>1, PRBegins
  <2>2. \A v \in Workers : call'[v].at = "commit" => call'[v] = call[v]
    BY ONLY <2>1, Zenon DEF Begins
  <2>3. \A q \in Procs : outbox'[q] # Nothing /\ outbox'[q].receipt # Nothing => outbox'[q] = outbox[q]
    BY ONLY <2>1 DEF Begins
  <2>4. prs' = prs /\ given' = given
    BY <2>1 DEF Begins
  <2> QED
    BY ONLY <2>2, <2>3, <2>4, ReceiptInv DEF ReceiptInv, Content
<1>2. ASSUME NEW w \in Workers, NEW p \in Procs, NEW r \in Requests, Replay(w, p, r)
      PROVE  ReceiptInv'
  <2>1. UNCHANGED <<outbox, call, prs>> /\ given' = given \cup {outbox[p].receipt}
        /\ outbox[p] # Nothing /\ outbox[p].receipt # Nothing
    BY <1>2 DEF Replay, provider, PRTypeOK
  <2> QED
    BY ONLY <2>1, ReceiptInv, p \in Procs, Zenon DEF ReceiptInv, Content
<1>3. ASSUME NEW p \in Procs, Crash(p) PROVE ReceiptInv'
  <2>1. \A v \in Workers : call'[v].at = "commit" => call'[v] = call[v]
    BY <1>3, PRCrashes
  <2>2. \A q \in Procs : outbox'[q] # Nothing => outbox'[q] = outbox[q]
    BY <1>3, PRCrashes
  <2>3. prs' = prs /\ given' = given
    BY <1>3, PRCrashes
  <2> QED
    BY ONLY <2>1, <2>2, <2>3, ReceiptInv DEF ReceiptInv, Content
<1>4. CASE Outside
  <2>1. DOMAIN prs' = DOMAIN prs /\ \A i \in DOMAIN prs :
           prs'[i].made = prs[i].made /\ prs'[i].draft = prs[i].draft
           /\ prs'[i].content \in {prs[i].content, "edited"}
    BY <1>4, PRTouched
  <2>2. UNCHANGED <<outbox, call, given>>
    BY <1>4 DEF Outside
  <2>3. /\ \A g \in given : g.pr \in DOMAIN prs
        /\ \A p \in Procs : outbox[p] # Nothing /\ outbox[p].receipt # Nothing
                               => outbox[p].receipt.pr \in DOMAIN prs
        /\ \A w \in Workers : call[w].at = "commit" => call[w].pr \in DOMAIN prs
    BY DEF PRTypeOK, Receipts
  <2> QED
    BY ONLY <2>1, <2>2, <2>3, ReceiptInv DEF ReceiptInv, Content, DraftOf
<1>5. CASE UNCHANGED PRvars
  BY <1>5 DEF PRvars, provider, ReceiptInv, Content
<1> QED
  BY <1>1, <1>2, <1>3, <1>4, <1>5, PRReceiptCalls DEF PRNext, WorkerStep

LEMMA PRAloneCalls ==
    ASSUME PRConstants, PRTypeOK, AloneInv, outside = 0, NEW w \in Workers,
           CallStep(w)
    PROVE  AloneInv'
<1> DEFINE q == call[w].proc
<1>0. /\ call[w].at # "idle" /\ q \in Procs /\ outbox[q] # Nothing
      /\ call[w].request = outbox[q].request
      /\ \A p \in Procs : p # q => outbox'[p] = outbox[p]
      /\ \A v \in Workers : v # w => call'[v] = call[v]
  BY PRAround DEF PRTypeOK
<1>1. base = "approved" /\ base' = base /\ ~pushed' /\ (head' = head \/ (head = Nothing /\ head' = "approved"))
  BY PRAround, Zenon DEF BoundsKept, AloneInv
<1>2. prs \in Seq(PullRequest) /\ Len(prs) \in Nat /\ DOMAIN prs = 1 .. Len(prs) /\ Len(prs) <= 1
  <2>1. Len(prs) <= 1
    BY Zenon DEF AloneInv
  <2>2. prs \in Seq(PullRequest)
    BY DEF PRTypeOK
  <2> QED
    BY ONLY <2>1, <2>2
<1>3. \A i \in DOMAIN prs : prs[i].open /\ prs[i].content = prs[i].made
  BY DEF AloneInv
<1>4. Opens(w) => /\ Len(prs) = 0 /\ Len(prs') = 1 /\ DOMAIN prs' = {1}
                  /\ prs'[1].open /\ prs'[1].content = prs'[1].made
                  /\ call'[w].at = "conflict" => ~prs'[1].draft
  <2> SUFFICES ASSUME Opens(w)
               PROVE  /\ Len(prs) = 0 /\ Len(prs') = 1 /\ DOMAIN prs' = {1}
                      /\ prs'[1].open /\ prs'[1].content = prs'[1].made
                      /\ call'[w].at = "conflict" => ~prs'[1].draft
    OBVIOUS
  <2>1. \A i \in DOMAIN prs : ~prs[i].open
    BY PROpens
  <2>2. Len(prs) = 0 /\ DOMAIN prs = {}
    BY ONLY <1>2, <1>3, <2>1
  <2>3. /\ Len(prs') = 1 /\ DOMAIN prs' = {1} /\ prs'[1].open
        /\ prs'[1].content = Content(w) /\ prs'[1].made = Content(w)
        /\ prs'[1].draft = (call'[w].at # "conflict")
    <3> DEFINE n == Len(prs) + 1
    <3>1. /\ Len(prs') = n /\ DOMAIN prs' = DOMAIN prs \cup {n} /\ prs'[n].open
          /\ prs'[n].content = Content(w) /\ prs'[n].made = Content(w)
          /\ prs'[n].draft = (call'[w].at # "conflict")
      BY PROpens, Zenon
    <3>2. n = 1
      BY ONLY <2>2
    <3> HIDE DEF n
    <3> QED
      BY ONLY <2>2, <3>1, <3>2
  <2> QED
    BY ONLY <2>2, <2>3, Zenon
<1>5. Len(prs') <= 1 /\ \A i \in DOMAIN prs' : prs'[i].open /\ prs'[i].content = prs'[i].made
  <2>1. CASE prs' = prs
    BY ONLY <1>2, <1>3, <2>1
  <2>2. CASE Opens(w)
    <3>1. Len(prs') = 1 /\ DOMAIN prs' = {1} /\ prs'[1].open /\ prs'[1].content = prs'[1].made
      BY ONLY <1>4, <2>2
    <3>2. \A i \in DOMAIN prs' : prs'[i].open /\ prs'[i].content = prs'[i].made
      BY ONLY <3>1
    <3>3. Len(prs') <= 1
      BY ONLY <3>1
    <3> QED
      BY <3>2, <3>3
  <2> QED
    BY <2>1, <2>2, PRAround, Zenon
<1>6. ASSUME NEW c, Taken(head, prs, c) PROVE Taken(head', prs', c)
  <2>1. CASE prs' = prs
    BY <1>1, <1>6, <2>1 DEF Taken, PRConstants
  <2>2. CASE Opens(w)
    <3>1. head = "other"
      BY ONLY <1>4, <1>6, <2>2 DEF Taken
    <3>2. head' = "other"
      BY ONLY <1>1, <3>1, PRConstants DEF PRConstants
    <3> QED
      BY ONLY <3>2 DEF Taken
  <2> QED
    BY <2>1, <2>2, PRAround, Zenon
<1>7. call'[w].at # "closed"
      /\ (call'[w].at = "conflict" => Taken(head', prs', call'[w].request.content))
  <2>1. /\ CallTable(w) /\ (CallEnds(w) => call'[w].at = "idle")
        /\ \A b : CallTo(w, b) => call'[w].at = b
        /\ call'[w].at = "idle" \/ call'[w].request = call[w].request
    BY PRGoes
  <2>2. CASE call[w].at = "create"
    <3>1. Opens(w) \/ call'[w].at = "relist"
      BY <2>2, PRCreates DEF CallStep, CallFails, EnterBranch, CheckBase,
         ReconcileHead, CreateRef, LookAgain, BranchPublished, EnterPR, Lookup,
         LookupAgain, CommitPRSuccess, MarkEnd
    <3>2. Opens(w) => call'[w].at # "closed"
      BY PROpens
    <3> QED
      BY ONLY <1>4, <3>1, <3>2 DEF Taken
  <2>3. CASE call[w].at # "create"
    <3>1. prs' = prs
      BY <2>3, PRAround
    <3>2. Len(prs) # 0 => prs[1].open /\ 1 \in DOMAIN prs /\ Len(prs) = 1
      BY ONLY <1>2, <1>3
    <3>3. call'[w].at # "closed"
      BY ONLY <2>1, <3>2 DEF CallTable, From
    <3>4. ASSUME call'[w].at = "conflict" PROVE call'[w].request = call[w].request
      BY ONLY <2>1, <3>4
    <3>5. ASSUME call'[w].at = "conflict"
          PROVE  head = "other" \/ (Len(prs) = 1 /\ prs[1].open /\ ~Exact(w, 1))
      <4>1. \/ head \notin {Nothing, "approved"}
            \/ Len(prs) # 0 /\ (Len(prs) > 1 \/ (prs[1].open /\ ~Exact(w, 1)))
        BY ONLY <1>1, <2>1, <2>3, <3>5 DEF CallTable, From
      <4>2. head \in {Nothing, "approved", "other"}
        BY DEF PRTypeOK
      <4> QED
        BY ONLY <1>2, <3>2, <4>1, <4>2
    <3>6. head = "other" => head' = "other"
      BY <1>1 DEF PRConstants
    <3> QED
      BY <3>1, <3>3, <3>4, <3>5, <3>6 DEF Taken, Exact, Content
  <2> QED
    BY <2>2, <2>3
<1>8. outbox' = outbox \/
      /\ outbox'[q].request = outbox[q].request /\ outbox'[q].state # "pr_already_closed"
      /\ outbox'[q].state = "terminal_conflict" => Taken(head, prs, outbox[q].request.content)
  <2>1. call[w].at # "closed" /\ (call[w].at = "conflict" => Taken(head, prs, Content(w)))
    BY DEF AloneInv
  <2>2. Content(w) = outbox[q].request.content
    BY <1>0 DEF Content
  <2> QED
    BY <2>1, <2>2, PRRowTable DEF RowTable, RowTo
<1> HIDE DEF q
<1>9. \A v \in Workers : /\ call'[v].at # "closed"
                         /\ call'[v].at = "conflict" => Taken(head', prs', call'[v].request.content)
  <2>1. \A v \in Workers : /\ call[v].at # "closed"
                           /\ call[v].at = "conflict" => Taken(head, prs, call[v].request.content)
    BY DEF AloneInv, Content
  <2> QED
    BY ONLY <1>0, <1>6, <1>7, <2>1
<1>10. \A p \in Procs : outbox'[p] # Nothing =>
          /\ outbox'[p].state # "pr_already_closed"
          /\ outbox'[p].state = "terminal_conflict" => Taken(head', prs', outbox'[p].request.content)
  <2>1. \A p \in Procs : outbox[p] # Nothing =>
          /\ outbox[p].state # "pr_already_closed"
          /\ outbox[p].state = "terminal_conflict" => Taken(head, prs, outbox[p].request.content)
    BY Zenon DEF AloneInv
  <2> QED
    BY ONLY <1>0, <1>6, <1>8, <2>1
<1> QED
  BY ONLY <1>1, <1>5, <1>9, <1>10 DEF AloneInv, Content

LEMMA PRAloneStep ==
    ASSUME PRConstants
    PROVE  PRTypeOK /\ AloneInv /\ [PRNext]_PRvars => AloneInv'
<1> SUFFICES ASSUME PRTypeOK, AloneInv, [PRNext]_PRvars, outside' = 0
             PROVE  AloneInv'
  BY DEF AloneInv
<1>1. ASSUME NEW w \in Workers, NEW p \in Procs, NEW r \in Requests, Begin(w, p, r)
      PROVE  AloneInv'
  <2>1. Begins(w, p, r)
    BY <1>1, PRBegins
  <2>2. \A v \in Workers : call'[v].at \in {"closed", "conflict"} => call'[v] = call[v]
    BY ONLY <2>1 DEF Begins
  <2>3. \A q \in Procs : outbox'[q] # Nothing /\ outbox'[q].state \in {"pr_already_closed", "terminal_conflict"}
                            => outbox'[q] = outbox[q]
    BY ONLY <2>1 DEF Begins
  <2>4. UNCHANGED <<prs, head, base, pushed, outside>>
    BY <2>1 DEF Begins
  <2> QED
    BY ONLY <2>2, <2>3, <2>4, AloneInv, Zenon DEF AloneInv, Content
<1>2. ASSUME NEW w \in Workers, NEW p \in Procs, NEW r \in Requests, Replay(w, p, r)
      PROVE  AloneInv'
  <2>1. UNCHANGED <<outbox, call, prs, head, base, pushed, outside>>
    BY <1>2 DEF Replay, provider, bounds
  <2> QED
    BY ONLY <2>1, AloneInv, Zenon DEF AloneInv, Content
<1>3. ASSUME NEW p \in Procs, Crash(p) PROVE AloneInv'
  <2>1. \A v \in Workers : call'[v].at \in {"closed", "conflict"} => call'[v] = call[v]
    BY <1>3, PRCrashes
  <2>2. \A q \in Procs : outbox'[q] # Nothing => outbox'[q] = outbox[q]
    BY <1>3, PRCrashes
  <2>3. UNCHANGED <<prs, head, base, pushed, outside>>
    BY <1>3, PRCrashes DEF BoundsKept
  <2> QED
    BY ONLY <2>1, <2>2, <2>3, AloneInv, Zenon DEF AloneInv, Content
<1>4. ASSUME Outside PROVE FALSE
  <2>1. outside \in Nat /\ outside' = outside + 1
    BY <1>4 DEF Outside, PRTypeOK, PRConstants
  <2> QED
    BY <2>1
<1>5. CASE UNCHANGED PRvars
  BY <1>5, Zenon DEF PRvars, provider, bounds, AloneInv, Content
<1>6. ASSUME NEW w \in Workers, CallStep(w) PROVE AloneInv'
  <2>1. outside = 0
    BY <1>6, PRAround, Zenon DEF BoundsKept
  <2> QED
    BY <1>6, <2>1, PRAloneCalls
<1> QED
  BY <1>1, <1>2, <1>3, <1>4, <1>5, <1>6 DEF PRNext, WorkerStep

\* Everything the two theorems on receipts rest on.
ReceiptFacts == PRTypeOK /\ HeadInv /\ ReceiptInv /\ AloneInv

LEMMA PRReceiptAlways == PRSpec => []ReceiptFacts
<1>1. PRInit => ReceiptFacts
  <2> SUFFICES ASSUME PRInit PROVE ReceiptFacts
    OBVIOUS
  <2>1. PRTypeOK
    BY PRConstants, PRInitType
  <2>2. prs = <<>> /\ given = {} /\ (\A p \in Procs : outbox[p] = Nothing)
        /\ (\A w \in Workers : call[w].at = "idle")
    BY DEF PRInit, Idle
  <2>3. base = "approved" /\ ~pushed
    BY DEF PRInit
  <2>4. DOMAIN prs = {} /\ Len(prs) <= 1
    BY <2>2
  <2> QED
    BY <2>1, <2>2, <2>3, <2>4
       DEF ReceiptFacts, HeadInv, HeadExact, AfterBranch, ReceiptInv, AloneInv
<1>2. ReceiptFacts /\ [PRNext]_PRvars => ReceiptFacts'
  BY PRConstants, PRTypeStep, PRHeadStep, PRReceiptStep, PRAloneStep DEF ReceiptFacts
<1> QED
  BY <1>1, <1>2, PTL DEF PRSpec

\* All receipts that calls return, over concurrent calls, retries, processes and
\* restarts, name one pull request and the content it was opened with; there are
\* two only if others closed one under a call.
THEOREM PROneReceipt == PRSpec => []OneReceipt
<1>1. ReceiptFacts => OneReceipt
  <2> SUFFICES ASSUME ReceiptFacts, NEW g \in given, NEW h \in given
               PROVE  /\ g.content = prs[g.pr].made
                      /\ g = h \/ (Len(prs) > 1 /\ outside > 0)
    BY DEF OneReceipt
  <2>1. g.content = prs[g.pr].made /\ h.content = prs[h.pr].made
    BY DEF ReceiptFacts, ReceiptInv, DraftOf
  <2>2. /\ g \in PRReceipt /\ h \in PRReceipt
        /\ g.pr \in DOMAIN prs /\ h.pr \in DOMAIN prs
        /\ DOMAIN prs = 1 .. Len(prs) /\ Len(prs) \in Nat /\ outside \in Nat
    <3>1. given \subseteq Receipts /\ prs \in Seq(PullRequest) /\ outside \in Nat
      BY DEF ReceiptFacts, PRTypeOK
    <3>2. DOMAIN prs = 1 .. Len(prs) /\ Len(prs) \in Nat
      BY ONLY <3>1
    <3>3. g \in Receipts /\ h \in Receipts
      BY ONLY <3>1, g \in given, h \in given
    <3>4. ASSUME NEW r \in Receipts PROVE r \in PRReceipt /\ r.pr \in DOMAIN prs
      BY ONLY <3>2, r \in Receipts DEF Receipts, PRReceipt
    <3> QED
      BY ONLY <3>1, <3>2, <3>3, <3>4
  <2>3. Len(prs) <= 1 => g.pr = h.pr
    BY ONLY <2>2
  <2>4. g.pr = h.pr => g = h
    <3>1. g.pr = h.pr => g.content = h.content
      BY ONLY <2>1
    <3>2. g \in PRReceipt /\ h \in PRReceipt
      BY ONLY <2>2
    <3>3. g.pr = h.pr /\ g.content = h.content => g = h
      BY ONLY <3>2 DEF PRReceipt
    <3> QED
      BY ONLY <3>1, <3>3
  <2>5. outside = 0 => Len(prs) <= 1
    BY DEF ReceiptFacts, AloneInv
  <2> QED
    BY ONLY <2>1, <2>2, <2>3, <2>4, <2>5
<1> QED
  BY <1>1, PRReceiptAlways, PTL

\* While nobody else touches the repository, a content that has a receipt is in
\* conflict, or closed, in no process: a call that meets another's branch or pull
\* request recognises it as its own.
THEOREM PRReceiptRepeats == PRSpec => []ReceiptRepeats
<1>1. ReceiptFacts => ReceiptRepeats
  <2> SUFFICES ASSUME ReceiptFacts, outside = 0, NEW g \in given, NEW p \in Procs,
                      outbox[p] # Nothing, outbox[p].request.content = g.content
               PROVE  outbox[p].state \notin {"terminal_conflict", "pr_already_closed"}
    BY DEF ReceiptRepeats
  <2>1. g.pr \in DOMAIN prs /\ DOMAIN prs = 1 .. Len(prs) /\ Len(prs) \in Nat
    <3>1. given \subseteq Receipts /\ prs \in Seq(PullRequest)
      BY DEF ReceiptFacts, PRTypeOK
    <3>2. DOMAIN prs = 1 .. Len(prs) /\ Len(prs) \in Nat
      BY ONLY <3>1
    <3> QED
      BY ONLY <3>1, <3>2, g \in given DEF Receipts
  <2>2. /\ Len(prs) <= 1
        /\ \A i \in DOMAIN prs : prs[i].content = prs[i].made
        /\ outbox[p].state # "pr_already_closed"
        /\ outbox[p].state = "terminal_conflict" => Taken(head, prs, g.content)
    <3>1. AloneInv
      BY DEF ReceiptFacts
    <3>2. Len(prs) <= 1 /\ \A i \in DOMAIN prs : prs[i].content = prs[i].made
      BY ONLY <3>1, outside = 0 DEF AloneInv
    <3>3. /\ outbox[p].state # "pr_already_closed"
          /\ outbox[p].state = "terminal_conflict" =>
                Taken(head, prs, outbox[p].request.content)
      BY ONLY <3>1, outside = 0, p \in Procs, outbox[p] # Nothing DEF AloneInv
    <3> QED
      BY ONLY <3>2, <3>3, outbox[p].request.content = g.content, Zenon
  <2>3. g.pr = 1
    BY ONLY <2>1, <2>2
  <2>4. prs[1].draft /\ prs[1].content = g.content
    BY <2>1, <2>2, <2>3 DEF ReceiptFacts, ReceiptInv, DraftOf
  <2>5. head = "approved"
    <3>1. prs # <<>>
      <4>1. Len(prs) # 0
        BY ONLY <2>1
      <4> QED
        BY ONLY <4>1
    <3>2. ~pushed
      BY DEF ReceiptFacts, AloneInv
    <3> QED
      BY <3>1, <3>2 DEF ReceiptFacts, HeadInv
  <2>6. ~Taken(head, prs, g.content)
    BY <2>4, <2>5 DEF Taken
  <2> QED
    BY <2>2, <2>6
<1> QED
  BY <1>1, PRReceiptAlways, PTL

-----------------------------------------------------------------------------
(* A call that nothing disturbs.                                           *)

\* A fault ends it; any other step of a call leaves it as it is.
LEMMA PRDisturbs ==
    ASSUME NEW w \in Workers, CallStep(w)
    PROVE  undisturbed' = undisturbed \/ undisturbed' = {}
<1> USE DEF bounds, Fault
<1>1. CASE CallFails(w) \/ EnterBranch(w) \/ CheckBase(w) \/ ReconcileHead(w)
  BY <1>1 DEF CallFails, EnterBranch, CheckBase, ReconcileHead
<1>2. CASE CreateRef(w)
  BY <1>2 DEF CreateRef
<1>3. CASE LookAgain(w) \/ BranchPublished(w) \/ EnterPR(w) \/ Lookup(w)
  BY <1>3 DEF LookAgain, BranchPublished, EnterPR, Lookup
<1>4. CASE Create(w) \/ CreateFails(w)
  BY <1>4 DEF Create, CreateFails
<1>5. CASE LookupAgain(w) \/ CommitPRSuccess(w) \/ MarkEnd(w)
  BY <1>5 DEF LookupAgain, CommitPRSuccess, MarkEnd
<1> QED
  BY <1>1, <1>2, <1>3, <1>4, <1>5 DEF CallStep

\* How it comes to the three labels where UndisturbedInv says more.
LEMMA PRRefused ==
    ASSUME PRConstants, PRTypeOK, UndisturbedInv, NEW w \in undisturbed, w \in undisturbed',
           CallStep(w)
    PROVE  /\ call'[w].at = "relook" => head' # Nothing
           /\ call'[w].at = "create" => prs' = <<>>
           /\ call'[w].at = "relist" => head' = Nothing
<1>0. w \in Workers
  BY DEF UndisturbedInv
<1>1. CallTable(w) /\ (\A b : CallTo(w, b) => call'[w].at = b) /\ (CallEnds(w) => call'[w].at = "idle")
  BY <1>0, PRGoes
<1>2. /\ call'[w].at = "relook" => call[w].at = "mkref"
      /\ call'[w].at = "create" => call[w].at = "list" /\ Len(prs) = 0
      /\ call'[w].at = "relist" => call[w].at = "create"
  BY ONLY <1>1 DEF CallTable, From
<1>3. prs \in Seq(PullRequest) /\ (Len(prs) = 0 => prs = <<>>)
  BY DEF PRTypeOK
<1>4. call[w].at # "create" => prs' = prs
  BY <1>0, PRAround
<1>5. ASSUME call'[w].at = "relook" PROVE head' # Nothing
  <2>1. CreateRef(w)
    <3>1. call[w].at = "mkref"
      BY <1>2, <1>5
    <3> QED
      BY <3>1 DEF CallStep, CallFails, EnterBranch, CheckBase, ReconcileHead, LookAgain, BranchPublished,
                  EnterPR, Lookup, Create, CreateFails, LookupAgain, CommitPRSuccess, MarkEnd
  <2>2. ~Fault
    BY DEF Fault
  <2>3. ~(Goto(w, "published"))
    BY <1>0, <1>1, <1>5, PRGoto DEF Labels
  <2> QED
    BY <2>1, <2>2, <2>3 DEF CreateRef
<1>6. ASSUME call'[w].at = "relist" PROVE head' = Nothing
  <2>1. call[w].at = "create" /\ prs = <<>>
    BY <1>2, <1>6 DEF UndisturbedInv
  <2>2. Create(w) \/ CreateFails(w)
    BY <2>1 DEF CallStep, CallFails, EnterBranch, CheckBase, ReconcileHead, CreateRef, LookAgain,
                BranchPublished, EnterPR, Lookup, LookupAgain, CommitPRSuccess, MarkEnd
  <2>3. ~Create(w)
    <3>1. Len(prs) + 1 \in Nat
      BY <1>3
    <3> QED
      BY <1>0, <1>1, <1>6, <3>1, PRFound DEF Create
  <2>4. ~Fault
    BY DEF Fault
  <2>5. ~Accepts /\ head' = head
    BY <2>2, <2>3, <2>4 DEF CreateFails
  <2>6. \A i \in DOMAIN prs : FALSE
    BY ONLY <2>1
  <2> QED
    BY <2>5, <2>6 DEF Accepts
<1> QED
  BY <1>2, <1>3, <1>4, <1>5, <1>6

LEMMA PRUndisturbedStep ==
    ASSUME PRConstants
    PROVE  PRTypeOK /\ UndisturbedInv /\ [PRNext]_PRvars => UndisturbedInv'
<1> SUFFICES ASSUME PRTypeOK, UndisturbedInv, [PRNext]_PRvars PROVE UndisturbedInv'
  OBVIOUS
<1>0. undisturbed' = {} => UndisturbedInv'
  BY DEF UndisturbedInv
<1>1. ASSUME NEW w \in Workers, NEW p \in Procs, NEW r \in Requests, Begin(w, p, r)
      PROVE  UndisturbedInv'
  <2>1. Begins(w, p, r)
    BY <1>1, PRBegins
  <2>2. undisturbed' \subseteq {w}
        /\ (w \in undisturbed' => \A v \in Workers \ {w} : call[v].at = "idle")
    BY <1>1 DEF Begin
  <2>3. call'[w].at = "branch" /\ \A v \in Workers : v # w => call'[v] = call[v]
    BY ONLY <2>1 DEF Begins
  <2>4. ASSUME NEW u \in undisturbed'
        PROVE  u = w /\ \A v \in Workers \ {u} : call'[v].at = "idle"
    BY ONLY <2>2, <2>3, <2>4
  <2>5. undisturbed' \subseteq Workers
    BY ONLY <2>2, w \in Workers
  <2> QED
    BY ONLY <2>3, <2>4, <2>5 DEF UndisturbedInv
<1>2. ASSUME NEW w \in Workers, NEW p \in Procs, NEW r \in Requests, Replay(w, p, r)
      PROVE  UndisturbedInv'
  BY <1>2 DEF Replay, provider, bounds, UndisturbedInv
<1>3. CASE Outside \/ \E p \in Procs : Crash(p)
  BY <1>0, <1>3 DEF Outside, Crash, Fault
<1>4. CASE UNCHANGED PRvars
  BY <1>4 DEF PRvars, provider, bounds, UndisturbedInv
<1>5. ASSUME NEW w \in Workers, CallStep(w) PROVE UndisturbedInv'
  <2> SUFFICES ASSUME undisturbed' = undisturbed PROVE UndisturbedInv'
    BY <1>0, <1>5, PRDisturbs
  <2>1. call[w].at # "idle" /\ \A v \in Workers : v # w => call'[v] = call[v]
    BY <1>5, PRAround
  <2>2. \A u \in undisturbed : u = w
    BY <2>1 DEF UndisturbedInv
  <2>3. w \in undisturbed =>
           /\ call'[w].at = "relook" => head' # Nothing
           /\ call'[w].at = "create" => prs' = <<>>
           /\ call'[w].at = "relist" => head' = Nothing
    BY <1>5, PRRefused
  <2> QED
    BY ONLY <2>1, <2>2, <2>3, undisturbed' = undisturbed, UndisturbedInv DEF UndisturbedInv
<1> QED
  BY <1>1, <1>2, <1>3, <1>4, <1>5 DEF PRNext, WorkerStep

\* The step with which an undisturbed call returns.
LEMMA PRSettlesStep ==
    ASSUME PRConstants, PRTypeOK, HeadInv, UndisturbedInv, NEW w \in undisturbed,
           w \in undisturbed', [PRNext]_PRvars, call[w].at # "idle", call'[w].at = "idle"
    PROVE  outbox'[call[w].proc].state \in Settled \/ (head = Nothing /\ pushed)
<1>0. w \in Workers
  BY DEF UndisturbedInv
<1>1. CallStep(w)
  <2>1. ASSUME NEW v \in Workers, NEW p \in Procs, NEW r \in Requests, Begin(v, p, r) PROVE FALSE
    <3>1. Begins(v, p, r)
      BY <2>1, PRBegins
    <3> QED
      BY ONLY <1>0, <3>1, call[w].at # "idle", call'[w].at = "idle" DEF Begins
  <2>2. ASSUME NEW v \in Workers, CallStep(v), v # w PROVE FALSE
    BY <1>0, <2>2, PRAround
  <2>3. ~Outside /\ \A p \in Procs : ~Crash(p)
    BY DEF Outside, Crash, Fault
  <2>4. call' # call
    OBVIOUS
  <2> QED
    BY <2>1, <2>2, <2>3, <2>4 DEF PRNext, WorkerStep, Replay, PRvars
<1>2. ~Fault
  BY DEF Fault
<1>3. ASSUME NEW a \in Labels, Goto(w, a) PROVE a = "idle"
  <2>1. CallTo(w, a)
    BY <1>0, <1>3, PRGoto
  <2> QED
    BY <2>1 DEF CallTo
<1>4. ASSUME NEW i \in Nat PROVE ~Found(w, i)
  <2>1. Found(w, i) => CallTo(w, "commit")
    BY <1>0, PRFound
  <2> QED
    BY <2>1 DEF CallTo
<1>6. CASE LookAgain(w) \/ LookupAgain(w)
  <2>1. CASE LookAgain(w)
    <3>1. ~Goto(w, "published") /\ ~Goto(w, "conflict")
      BY <1>3 DEF Labels
    <3>2. head = Nothing /\ call[w].at = "relook"
      BY <2>1, <3>1 DEF LookAgain
    <3> QED
      BY <3>2 DEF UndisturbedInv
  <2>2. CASE LookupAgain(w)
    <3>1. call[w].at = "relist"
      BY <2>2 DEF LookupAgain
    <3>2. head = Nothing
      BY <3>1 DEF UndisturbedInv
    <3>3. head = "approved" \/ pushed
      BY <1>0, <3>1 DEF HeadInv, AfterBranch
    <3> QED
      BY <3>2, <3>3, PRConstants DEF PRConstants
  <2> QED
    BY <1>6, <2>1, <2>2
<1>7. CASE EnterPR(w)
  <2>1. ~Goto(w, "base2")
    BY <1>3 DEF Labels
  <2> QED
    BY <1>7, <2>1 DEF EnterPR, Row, Settled
<1>8. CASE CommitPRSuccess(w) \/ MarkEnd(w)
  <2> DEFINE q == call[w].proc
  <2>1. q \in Procs /\ outbox[q] \in OutboxRow /\ outbox \in [Procs -> OutboxRow \cup {Nothing}]
    BY <1>0 DEF PRTypeOK
  <2>2. ASSUME NEW t, outbox' = [outbox EXCEPT ![q] = [outbox[q] EXCEPT !.state = "pr_created", !.receipt = t]]
        PROVE  outbox'[q].state = "pr_created"
    <3> HIDE DEF q
    <3> QED
      BY ONLY <2>1, <2>2 DEF OutboxRow
  <2>3. ASSUME NEW s \in Settled, SetState(w, s) PROVE outbox'[q].state = s
    <3>1. outbox' = [outbox EXCEPT ![q].state = s]
      BY <2>3 DEF SetState
    <3> HIDE DEF q
    <3> QED
      BY ONLY <2>1, <3>1 DEF OutboxRow
  <2>4. CASE CommitPRSuccess(w)
    BY <2>2, <2>4 DEF CommitPRSuccess, Row, Settled
  <2>5. CASE MarkEnd(w)
    BY <2>3, <2>5 DEF MarkEnd, Settled
  <2> QED
    BY <1>8, <2>4, <2>5
<1>9. CASE CallFails(w)
  BY <1>2, <1>9 DEF CallFails
<1>10. CASE EnterBranch(w) \/ CheckBase(w) \/ ReconcileHead(w) \/ BranchPublished(w)
  BY <1>3, <1>10 DEF EnterBranch, CheckBase, ReconcileHead, BranchPublished, Labels
<1>11. CASE CreateRef(w)
  BY <1>3, <1>11 DEF CreateRef, Labels
<1>12. CASE Lookup(w)
  BY <1>3, <1>4, <1>12 DEF Lookup, Labels
<1>13. CASE Create(w) \/ CreateFails(w)
  <2>1. Len(prs) + 1 \in Nat
    BY DEF PRTypeOK
  <2> QED
    BY <1>3, <1>4, <1>13, <2>1 DEF Create, CreateFails, Labels
<1> QED
  BY <1>1, <1>6, <1>7, <1>8, <1>9, <1>10, <1>11, <1>12, <1>13 DEF CallStep

\* Whatever a publication has been through, one call of Publish that nothing
\* disturbs settles it: it returns with the row in pr_created, in conflict or
\* closed, or the head ref has been deleted by others.
THEOREM PRCallSettles == PRSpec => CallSettles
<1> DEFINE A == \A w \in Workers :
              w \in undisturbed \cap undisturbed' /\ call[w].at # "idle" /\ call'[w].at = "idle"
                  => outbox'[call[w].proc].state \in Settled \/ (head = Nothing /\ pushed)
<1>1. PRInit => UndisturbedInv
  BY DEF PRInit, UndisturbedInv
<1>2. PRInit => HeadInv
  BY DEF PRInit, Idle, HeadInv, HeadExact, AfterBranch
<1>3. PRTypeOK /\ HeadInv /\ UndisturbedInv /\ [PRNext]_PRvars => [A]_PRvars
  BY PRConstants, PRSettlesStep
<1> QED
  BY <1>1, <1>2, <1>3, PRConstants, PRInitType, PRTypeStep, PRHeadStep, PRUndisturbedStep, PTL
     DEF PRSpec, CallSettles

=============================================================================

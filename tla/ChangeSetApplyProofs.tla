------------------------ MODULE ChangeSetApplyProofs ------------------------
(***************************************************************************)
(* Proofs about ChangeSetApply, for any number of calls, files and edits:  *)
(* a call that returns promoted all of its targets or left the tree as it  *)
(* found it, a failed call leaves none of its bodies behind, and a dead    *)
(* one leaves the first paths new and the rest old.                        *)
(***************************************************************************)
EXTENDS ChangeSetApply, TLAPS

\* Different calls produce different bodies, none of them one that was there.
LEMMA AfterDistinct ==
    /\ \A a, c \in Appliers : After(a) = After(c) => a = c
    /\ \A a \in Appliers : After(a) \notin Others \cup {Base, Missing}
BY ConstantsAssumption DEF After

LEMMA Ranges ==
    /\ Targets \subseteq Files
    /\ NumFiles \in Nat /\ NumPaths \in Nat /\ 1 <= NumPaths /\ NumPaths <= NumFiles
    /\ {Base, Missing} \subseteq File /\ Others \subseteq File
    /\ \A a \in Appliers : After(a) \in File
BY ConstantsAssumption DEF Targets, Files, File, Body

LEMMA Sizes == NumFiles \in Nat /\ NumPaths \in Nat /\ 1 <= NumPaths /\ NumPaths <= NumFiles
BY Ranges

LEMMA FilesAreNumbers == \A f \in Files : f \in Nat /\ 1 <= f
BY Sizes DEF Files

\* No file comes before the first.
LEMMA NoneBeforeFirst == \A i : i = 1 => \A g \in Files : ~(g < i)
<1> SUFFICES ASSUME NEW g \in Files PROVE ~(g < 1)
  OBVIOUS
<1>1. g \in Nat /\ 1 <= g
  BY FilesAreNumbers
<1> QED
  BY <1>1

LEMMA TypeInit == Init => TypeOK
BY Ranges DEF Init, TypeOK, Clean, NoStage, Labels

\* Writing a file keeps the types.
LEMMA PutType ==
    ASSUME TypeOK, NEW who, NEW f, NEW b \in File, f \in Files, Put(who, f, b)
    PROVE  /\ tree' \in [Files -> File]
           /\ touched' \in [Appliers -> SUBSET Files]
           /\ unseen' \in [Appliers -> BOOLEAN]
BY DEF TypeOK, Put

LEMMA NextType ==
    ASSUME TypeOK, NextInv, NEW a \in Appliers
    PROVE  /\ next[a] \in Nat /\ 1 <= next[a] /\ next[a] <= NumFiles + 1
           /\ pc[a] \in {"freeze", "check", "write"} =>
                  next[a] \in Targets /\ next[a] \in Files
           /\ pc[a] = "stage" => next[a] \in Files
BY Ranges DEF TypeOK, NextInv, Targets, Files

LEMMA CleanupType ==
    ASSUME TypeOK, NEW a \in Appliers, Cleanup(a)
    PROVE  stage' \in [Appliers -> [Files -> File]]
<1>1. NoStage \in [Files -> File]
  BY Ranges DEF NoStage
<1> QED
  BY <1>1 DEF Cleanup, TypeOK

\* The types and the range of the walks are inductive together.
LEMMA TypeStep == TypeOK /\ NextInv /\ [Next]_vars => TypeOK' /\ NextInv'
<1> SUFFICES ASSUME TypeOK, NextInv, [Next]_vars
             PROVE  TypeOK' /\ NextInv'
  OBVIOUS
<1> USE Ranges DEF world, Fixed, Goto, At, Promoting
<1>0. ASSUME NEW a \in Appliers, NEW l \in Labels, Goto(a, l)
      PROVE  /\ pc' \in [Appliers -> Labels] /\ pc'[a] = l
             /\ \A c \in Appliers : c # a => pc'[c] = pc[c]
  BY <1>0 DEF TypeOK
<1>1. ASSUME NEW a \in Appliers, Begin(a)
      PROVE  TypeOK' /\ NextInv'
  <2>1. TypeOK'
    BY <1>1 DEF Begin, TypeOK, Labels
  <2>2. NextInv'
    BY <1>1 DEF Begin, TypeOK, NextInv, Labels
  <2> QED
    BY <2>1, <2>2
<1>2. ASSUME NEW a \in Appliers, Refuse(a)
      PROVE  TypeOK' /\ NextInv'
  <2>1. TypeOK'
    BY <1>2, CleanupType DEF Refuse, TypeOK, Labels
  <2>2. NextInv'
    BY <1>2 DEF Refuse, TypeOK, NextInv, Labels
  <2> QED
    BY <2>1, <2>2
<1>3. ASSUME NEW a \in Appliers, Freeze(a)
      PROVE  TypeOK' /\ NextInv'
  <2>1. next[a] \in Nat /\ 1 <= next[a] /\ next[a] <= NumPaths
    BY <1>3, NextType DEF Freeze, NextInv
  <2>2. TypeOK'
    <3>1. CASE next[a] < NumPaths
      BY <1>3, <2>1, <3>1 DEF Freeze, Walk, TypeOK, Labels
    <3>2. CASE ~(next[a] < NumPaths)
      <4>1. next' \in [Appliers -> 1 .. NumFiles + 1]
        BY <1>3, <3>2 DEF Freeze, Walk, TypeOK
      <4>2. pc' \in [Appliers -> Labels]
        BY <1>3, <3>2 DEF Freeze, Walk, TypeOK, Labels
      <4> QED
        BY <1>3, <4>1, <4>2 DEF Freeze, TypeOK
    <3> QED
      BY <3>1, <3>2
  <2>3. NextInv'
    <3>1. CASE next[a] < NumPaths
      BY <1>3, <2>1, <3>1 DEF Freeze, Walk, TypeOK, NextInv
    <3>2. CASE ~(next[a] < NumPaths)
      <4>1. next'[a] = 1 /\ pc'[a] = (IF git THEN "head" ELSE "stage") /\ ~broken[a]
        BY <1>3, <3>2 DEF Freeze, Walk, TypeOK, NextInv
      <4>2. \A c \in Appliers : c # a => next'[c] = next[c] /\ pc'[c] = pc[c]
        BY <1>3, <3>2 DEF Freeze, Walk, TypeOK
      <4>3. broken' = broken /\ git' = git
        BY <1>3 DEF Freeze
      <4> QED
        BY <4>1, <4>2, <4>3 DEF NextInv
    <3> QED
      BY <3>1, <3>2
  <2> QED
    BY <2>2, <2>3
<1>4. ASSUME NEW a \in Appliers,
             FreezeStale(a) \/ VerifyHead(a) \/ VerifyStatus(a) \/ Verified(a) \/ Check(a)
                \/ CheckStale(a) \/ ProbeFails(a) \/ PromoteFails(a) \/ Aborted(a) \/ Crash(a)
      PROVE  TypeOK' /\ NextInv'
  <2>1. PICK l \in Labels : Goto(a, l)
    BY <1>4 DEF FreezeStale, VerifyHead, VerifyStatus, Verified, Check, CheckStale, PromoteFails,
                ProbeFails, Aborted, Crash, Labels
  <2>2. /\ UNCHANGED <<tree, commit, atBase, edits, git, next, broken, before, touched>>
        /\ unseen' \in [Appliers -> BOOLEAN]
        /\ stage' \in [Appliers -> [Files -> File]]
    BY <1>4, CleanupType DEF FreezeStale, VerifyHead, VerifyStatus, Verified, Check, CheckStale, PromoteFails,
                ProbeFails, Aborted, Crash, TypeOK
  <2>3. TypeOK'
    BY <2>1, <2>2 DEF TypeOK
  <2>4. /\ pc'[a] \in {"idle", "head", "status", "edit", "verify"} => next[a] = 1
        /\ pc'[a] = "stage" => next[a] <= NumFiles
        /\ pc'[a] \in {"freeze", "check", "write"} => next[a] <= NumPaths
        /\ pc'[a] = "rollback" => next[a] <= NumPaths + 1
        /\ broken[a] => pc'[a] \in {"rollback", "failed", "crashed"}
    BY <1>4 DEF FreezeStale, VerifyHead, VerifyStatus, Verified, Check, CheckStale, PromoteFails,
                ProbeFails, Aborted, Crash, TypeOK, NextInv
  <2> QED
    BY <1>0, <2>1, <2>2, <2>3, <2>4 DEF NextInv
<1>5. ASSUME NEW a \in Appliers, StageGit(a)
      PROVE  TypeOK' /\ NextInv'
  <2>1. TypeOK'
    BY <1>5 DEF StageGit, Clean, TypeOK, Labels
  <2> QED
    BY <1>5, <2>1 DEF StageGit, TypeOK, NextInv
<1>6. ASSUME NEW a \in Appliers, StageCopy(a)
      PROVE  TypeOK' /\ NextInv'
  <2>1. next[a] \in Files /\ next[a] \in Nat
    BY <1>6, NextType DEF StageCopy
  <2>2. next' \in [Appliers -> 1 .. NumFiles + 1] /\ pc' \in [Appliers -> Labels]
    <3>1. CASE next[a] < NumFiles
      <4>1. next[a] + 1 \in 1 .. NumFiles + 1
        BY <2>1, <3>1 DEF Files
      <4> QED
        BY <1>6, <3>1, <4>1 DEF StageCopy, TypeOK
    <3>2. CASE ~(next[a] < NumFiles)
      <4>1. 1 \in 1 .. NumFiles + 1
        OBVIOUS
      <4> QED
        BY <1>6, <3>2, <4>1 DEF StageCopy, TypeOK, Labels
    <3> QED
      BY <3>1, <3>2
  <2>3. stage' \in [Appliers -> [Files -> File]]
    BY <1>6, <2>1 DEF StageCopy, TypeOK
  <2>4. TypeOK'
    BY <1>6, <2>2, <2>3 DEF StageCopy, TypeOK
  <2>5. CASE next[a] < NumFiles
    <3>1. pc' = pc /\ pc[a] = "stage" /\ broken' = broken
      BY <1>6, <2>5 DEF StageCopy
    <3>2. \A c \in Appliers : c # a => next'[c] = next[c]
      BY <1>6, <2>5 DEF StageCopy, TypeOK
    <3>3. next'[a] = next[a] + 1
      BY <1>6, <2>1, <2>5 DEF StageCopy, TypeOK
    <3>5. next'[a] <= NumFiles
      BY ONLY <2>1, <2>5, <3>3, Sizes
    <3>4. NextInv'
      BY ONLY NextInv, <3>1, <3>2, <3>5 DEF NextInv
    <3> QED
      BY <2>4, <3>4
  <2>6. CASE ~(next[a] < NumFiles)
    <3>1. pc[a] = "stage" /\ pc'[a] = "edit" /\ next'[a] = 1 /\ broken' = broken
      BY <1>6, <2>6 DEF StageCopy, TypeOK
    <3>2. \A c \in Appliers : c # a => next'[c] = next[c] /\ pc'[c] = pc[c]
      BY <1>6, <2>6 DEF StageCopy, TypeOK
    <3>3. NextInv'
      BY ONLY NextInv, <3>1, <3>2 DEF NextInv
    <3> QED
      BY <2>4, <3>3
  <2> QED
    BY <2>5, <2>6
<1>7. ASSUME NEW a \in Appliers, StageEdits(a)
      PROVE  TypeOK' /\ NextInv'
  <2>1. stage' \in [Appliers -> [Files -> File]]
    <3> DEFINE edited == [f \in Files |-> IF f \in Targets THEN After(a) ELSE stage[a][f]]
    <3>1. edited \in [Files -> File]
      BY DEF TypeOK
    <3>2. Cleanup(a) \/ stage' = [stage EXCEPT ![a] = edited]
      BY <1>7 DEF StageEdits
    <3> HIDE DEF edited
    <3> QED
      BY <3>1, <3>2, CleanupType DEF TypeOK
  <2>2. PICK l \in {"verify", "failed"} : Goto(a, l)
    BY <1>7 DEF StageEdits
  <2>3. UNCHANGED <<tree, commit, atBase, edits, git, next, broken, before, touched, unseen>>
    BY <1>7 DEF StageEdits
  <2>4. TypeOK'
    BY <2>1, <2>2, <2>3 DEF TypeOK, Labels
  <2> QED
    BY <1>7, <2>2, <2>3, <2>4 DEF StageEdits, TypeOK, NextInv
<1>8. ASSUME NEW a \in Appliers, Promote(a)
      PROVE  TypeOK' /\ NextInv'
  <2>1. next[a] \in Files /\ next[a] \in Nat /\ 1 <= next[a] /\ next[a] <= NumPaths
    BY <1>8, NextType DEF Promote, NextInv
  <2>2. stage' \in [Appliers -> [Files -> File]]
    BY <1>8, CleanupType DEF Promote, TypeOK
  <2>3. PICK l \in {"check", "applied"} : Goto(a, l) /\ (l = "check" => next[a] < NumPaths)
    BY <1>8 DEF Promote
  <2>4. pc' \in [Appliers -> Labels]
    BY <2>3 DEF TypeOK, Labels
  <2>5. next' \in [Appliers -> 1 .. NumFiles + 1] /\ next'[a] = next[a] + 1
    BY <1>8, <2>1 DEF Promote, TypeOK
  <2>6. /\ tree' \in [Files -> File] /\ touched' \in [Appliers -> SUBSET Files]
        /\ unseen' \in [Appliers -> BOOLEAN]
    BY <1>8, <2>1, PutType DEF Promote
  <2>7. UNCHANGED <<git, commit, atBase, edits, broken, before>>
    BY <1>8 DEF Promote
  <2>8. TypeOK'
    BY <2>2, <2>4, <2>5, <2>6, <2>7 DEF TypeOK
  <2>9. \A c \in Appliers : c # a => next'[c] = next[c] /\ pc'[c] = pc[c]
    BY <1>8, <2>3 DEF Promote, TypeOK
  <2>10. pc'[a] = l /\ ~broken[a]
    BY <1>8, <2>3 DEF Promote, TypeOK, NextInv
  <2>11. NextInv'
    BY <2>1, <2>3, <2>5, <2>7, <2>9, <2>10 DEF NextInv
  <2> QED
    BY <2>8, <2>11
<1>9. ASSUME NEW a \in Appliers, Restore(a)
      PROVE  TypeOK' /\ NextInv'
  <2>1. next[a] - 1 \in Files /\ next[a] \in Nat /\ 1 < next[a] /\ next[a] <= NumPaths + 1
    BY <1>9, NextType DEF Restore, NextInv, Files
  <2>2. TypeOK'
    BY <1>9, <2>1, PutType DEF Restore, TypeOK
  <2> QED
    BY <1>9, <2>1, <2>2 DEF Restore, TypeOK, NextInv
<1>10. ASSUME NEW a \in Appliers, RestoreFails(a)
       PROVE  TypeOK' /\ NextInv'
  <2>1. next[a] \in Nat /\ 1 < next[a] /\ next[a] <= NumPaths + 1
    BY <1>10, NextType DEF RestoreFails, NextInv
  <2>2. TypeOK'
    BY <1>10, <2>1 DEF RestoreFails, TypeOK
  <2> QED
    BY <1>10, <2>1, <2>2 DEF RestoreFails, TypeOK, NextInv
<1>11. ASSUME NEW f \in Files, NEW b \in Others \cup {Base, Missing}, Edit(f, b)
       PROVE  TypeOK' /\ NextInv'
  BY <1>11, PutType DEF Edit, TypeOK, NextInv
<1>12. CASE GitCommit
  BY <1>12 DEF GitCommit, TypeOK, NextInv
<1>13. CASE UNCHANGED vars
  BY <1>13 DEF vars, TypeOK, NextInv
<1>14. ASSUME NEW a \in Appliers, PromoteInjected(a)
       PROVE  TypeOK' /\ NextInv'
  <2>1. 1 \in Files /\ 2 \in 1 .. NumFiles + 1 /\ 2 <= NumPaths + 1
    BY DEF Files
  <2>2. TypeOK'
    BY <1>14, <2>1, PutType DEF PromoteInjected, TypeOK, Labels
  <2> QED
    BY <1>14, <2>1, <2>2 DEF PromoteInjected, TypeOK, NextInv
<1> QED
  BY <1>1, <1>2, <1>3, <1>4, <1>5, <1>6, <1>7, <1>8, <1>9, <1>10, <1>11, <1>12, <1>13, <1>14
     DEF Next, Step

LEMMA NextInit == Init => NextInv
BY Ranges DEF Init, NextInv, Promoting

\* The state keeps its type, whatever interleaves with the calls.
THEOREM TypeCorrect == Spec => []TypeOK
<1>1. Init => TypeOK /\ NextInv
  BY TypeInit, NextInit
<1> QED
  BY <1>1, TypeStep, PTL DEF Spec

-----------------------------------------------------------------------------
(* One call's invariant under the steps of everybody else.                 *)

\* What a step must leave alone for call c to be where it was.
Kept(c) ==
    /\ pc'[c] = pc[c] /\ next'[c] = next[c]
    /\ broken'[c] = broken[c] /\ before'[c] = before[c]

\* A step that neither moves the call nor writes the tree.
LEMMA Unmoved ==
    ASSUME NEW c \in Appliers, TransAt(c), ResidueAt(c), Kept(c),
           tree' = tree, touched'[c] = touched[c]
    PROVE  TransAt(c)' /\ ResidueAt(c)'
<1>1. TransAt(c)'
  BY DEF TransAt, Kept
<1>2. ResidueAt(c)'
  BY DEF ResidueAt, Kept
<1> QED
  BY <1>1, <1>2

\* Somebody else writes a file: the file no longer counts, and gets a body that
\* is not the call's.
LEMMA ByOther ==
    ASSUME TypeOK, NEW c \in Appliers, TransAt(c), ResidueAt(c), Kept(c),
           NEW who, NEW f \in Files, NEW b, Put(who, f, b), who # c, b # After(c)
    PROVE  TransAt(c)' /\ ResidueAt(c)'
<1>1. tree' = [tree EXCEPT ![f] = b] /\ touched'[c] = touched[c] \cup {f}
  BY DEF Put
<1>2. \A g \in Files : g # f => tree'[g] = tree[g]
  BY <1>1 DEF TypeOK
<1>3. tree'[f] = b
  BY <1>1 DEF TypeOK
<1>4. TransAt(c)'
  <2> SUFFICES ASSUME NEW g \in Files \ touched'[c]
               PROVE  g \in Files \ touched[c] /\ tree'[g] = tree[g]
    BY DEF TransAt, Kept
  <2> QED
    BY <1>1, <1>2
<1>5. ResidueAt(c)'
  BY <1>2, <1>3 DEF ResidueAt, Kept
<1> QED
  BY <1>4, <1>5

\* The steps of call a itself, before the promotion.
LEMMA EarlyStep ==
    ASSUME TypeOK, NextInv, NEW a \in Appliers, TransAt(a), ResidueAt(a),
           pc[a] \in Early \ {"idle", "freeze"},
           pc'[a] \in {"failed", "crashed", "status", "stage", "edit", "verify"}
               \/ (pc'[a] = "check" /\ next'[a] = 1),
           broken'[a] = broken[a], before'[a] = before[a],
           tree' = tree, touched'[a] = touched[a]
    PROVE  TransAt(a)' /\ ResidueAt(a)'
<1>1. TransAt(a)'
  BY DEF TransAt, Early, Promoting, Files
<1>2. ResidueAt(a)'
  BY DEF ResidueAt, Early, Promoting
<1> QED
  BY <1>1, <1>2

\* A path is promoted.
LEMMA PromoteStep ==
    ASSUME TypeOK, NextInv, NEW a \in Appliers, TransAt(a), ResidueAt(a), Promote(a)
    PROVE  TransAt(a)' /\ ResidueAt(a)'
<1>1. next[a] \in Files /\ next[a] \in Nat /\ next[a] <= NumPaths /\ ~broken[a]
  BY NextType DEF Promote, NextInv, Promoting
<1>2. /\ tree' = [tree EXCEPT ![next[a]] = After(a)] /\ touched'[a] = touched[a]
      /\ next'[a] = next[a] + 1 /\ broken'[a] = broken[a] /\ before'[a] = before[a]
      /\ pc[a] = "write" /\ pc'[a] = IF next[a] < NumPaths THEN "check" ELSE "applied"
  BY DEF Promote, Put, At, Goto, TypeOK
<1>3. \A g \in Files : tree'[g] = IF g = next[a] THEN After(a) ELSE tree[g]
  BY <1>1, <1>2 DEF TypeOK
<1>4. ASSUME NEW g \in Files \ touched[a]
      PROVE  /\ tree'[g] = IF g < next[a] + 1 THEN After(a) ELSE before[a][g]
             /\ g \in Targets => before[a][g] = Base
             /\ ~(next[a] < NumPaths) => (g < next[a] + 1 <=> g \in Targets)
  <2>1. tree[g] = (IF g < next[a] THEN After(a) ELSE before[a][g])
    BY <1>1, <1>2 DEF TransAt, Promoting
  <2>2. g \in Targets => before[a][g] = Base
    BY <1>2 DEF TransAt, Promoting
  <2>3. g \in Nat /\ 1 <= g
    BY FilesAreNumbers
  <2>4. g < next[a] + 1 <=> g < next[a] \/ g = next[a]
    BY ONLY <1>1, <2>3
  <2>5. ~(next[a] < NumPaths) => (g < next[a] + 1 <=> g \in Targets)
    BY ONLY <1>1, <2>3, Sizes DEF Targets
  <2>6. tree'[g] = IF g < next[a] + 1 THEN After(a) ELSE before[a][g]
    BY ONLY <1>3, <2>1, <2>4
  <2> QED
    BY <2>2, <2>5, <2>6
<1>5. TransAt(a)'
  <2>1. CASE next[a] < NumPaths
    <3>1. pc'[a] = "check"
      BY <1>2, <2>1
    <3> QED
      BY ONLY <1>2, <1>4, <3>1 DEF TransAt, Early, Promoting
  <2>2. CASE ~(next[a] < NumPaths)
    <3>1. pc'[a] = "applied"
      BY <1>2, <2>2
    <3> QED
      BY ONLY <1>2, <1>4, <2>2, <3>1 DEF TransAt, Early, Promoting
  <2> QED
    BY <2>1, <2>2
<1>6. ResidueAt(a)'
  <2>1. pc'[a] \in {"check", "applied"}
    BY <1>2
  <2>2. ASSUME NEW g \in Files, tree'[g] = After(a)
        PROVE  g < next[a] + 1
    <3>1. g = next[a] \/ g < next[a]
      BY <1>1, <1>2, <1>3, <2>2 DEF ResidueAt, Early, Promoting
    <3>2. g \in Nat
      BY FilesAreNumbers
    <3> QED
      BY ONLY <1>1, <3>1, <3>2
  <2> QED
    BY ONLY <1>2, <2>1, <2>2 DEF ResidueAt, Early, Promoting
<1> QED
  BY <1>5, <1>6

\* The first path is promoted and the call aborts at once.
LEMMA InjectedStep ==
    ASSUME TypeOK, NextInv, NEW a \in Appliers, TransAt(a), ResidueAt(a), PromoteInjected(a)
    PROVE  TransAt(a)' /\ ResidueAt(a)'
<1>0. 1 \in Files /\ 1 \in Targets
  BY ONLY Sizes DEF Files, Targets
<1>1. 1 \in Files /\ 1 \in Targets /\ ~broken[a]
  BY <1>0 DEF PromoteInjected, NextInv
<1>2. /\ tree' = [tree EXCEPT ![1] = After(a)] /\ touched'[a] = touched[a]
      /\ next[a] = 1 /\ next'[a] = 2 /\ broken'[a] = broken[a] /\ before'[a] = before[a]
      /\ pc[a] = "write" /\ pc'[a] = "rollback"
  BY DEF PromoteInjected, Put, At, Goto, TypeOK
<1>3. \A g \in Files : tree'[g] = IF g = 1 THEN After(a) ELSE tree[g]
  BY <1>1, <1>2 DEF TypeOK
<1>4. \A g \in Files : ~(g < 1) /\ (g < 2 <=> g = 1)
  BY FilesAreNumbers
<1>5. ASSUME NEW g \in Files \ touched[a]
      PROVE  /\ tree'[g] = IF g < 2 THEN After(a) ELSE before[a][g]
             /\ g \in Targets => before[a][g] = Base
  <2>1. tree[g] = before[a][g] /\ (g \in Targets => before[a][g] = Base)
    BY <1>1, <1>2, <1>4 DEF TransAt, Promoting
  <2> QED
    BY <1>3, <1>4, <2>1
<1>6. TransAt(a)'
  BY <1>1, <1>2, <1>5 DEF TransAt, Early, Promoting
<1>7. ResidueAt(a)'
  BY <1>1, <1>2, <1>3, <1>4 DEF ResidueAt, Early, Promoting
<1> QED
  BY <1>6, <1>7

\* A promoted path is restored.
LEMMA RestoreStep ==
    ASSUME TypeOK, NextInv, NEW a \in Appliers, TransAt(a), ResidueAt(a), Restore(a)
    PROVE  TransAt(a)' /\ ResidueAt(a)'
<1>1. next[a] \in Nat /\ 1 < next[a] /\ next[a] <= NumPaths + 1
  BY NextType DEF Restore, NextInv, Promoting
<1>2. next[a] - 1 \in Files /\ next[a] - 1 \in Targets
  BY <1>1, Ranges DEF Files, Targets
<1>3. /\ tree' = [tree EXCEPT ![next[a] - 1] = Base] /\ touched'[a] = touched[a]
      /\ next'[a] = next[a] - 1 /\ broken'[a] = broken[a] /\ before'[a] = before[a]
      /\ pc[a] = "rollback" /\ pc'[a] = "rollback"
  BY DEF Restore, Put, At, TypeOK
<1>4. \A g \in Files : tree'[g] = IF g = next[a] - 1 THEN Base ELSE tree[g]
  BY <1>2, <1>3 DEF TypeOK
<1>5. ASSUME NEW g \in Files \ touched[a]
      PROVE  /\ ~broken[a] => tree'[g] = IF g < next[a] - 1 THEN After(a) ELSE before[a][g]
             /\ g \in Targets => before[a][g] = Base
  <2>1. ~broken[a] => tree[g] = (IF g < next[a] THEN After(a) ELSE before[a][g])
    BY <1>3 DEF TransAt, Promoting
  <2>2. g \in Targets => before[a][g] = Base
    BY <1>3 DEF TransAt, Promoting
  <2>3. g \in Nat
    BY FilesAreNumbers
  <2>4. g < next[a] <=> g < next[a] - 1 \/ g = next[a] - 1
    BY ONLY <1>1, <2>3
  <2>5. ~(next[a] - 1 < next[a] - 1)
    BY ONLY <1>1
  <2>6. ~broken[a] => tree'[g] = IF g < next[a] - 1 THEN After(a) ELSE before[a][g]
    BY ONLY <1>2, <1>4, <2>1, <2>2, <2>4, <2>5
  <2> QED
    BY <2>2, <2>6
<1>6. TransAt(a)'
  BY ONLY <1>3, <1>5 DEF TransAt, Early, Promoting
<1>7. ResidueAt(a)'
  <2> SUFFICES ASSUME NEW g \in Files, tree'[g] = After(a), ~broken[a]
               PROVE  g < next[a] - 1
    BY <1>3 DEF ResidueAt, Early, Promoting
  <2>1. g # next[a] - 1 /\ tree[g] = After(a)
    BY <1>4, AfterDistinct
  <2>2. g < next[a]
    BY <1>3, <2>1 DEF ResidueAt, Promoting
  <2> QED
    BY <1>1, <2>1, <2>2 DEF Files
<1> QED
  BY <1>6, <1>7

\* A target is frozen: it is as found, and found at Base.
LEMMA FreezeStep ==
    ASSUME TypeOK, NextInv, NEW a \in Appliers, TransAt(a), ResidueAt(a), Freeze(a)
    PROVE  TransAt(a)' /\ ResidueAt(a)'
<1>1. next[a] \in Files /\ next[a] \in Nat /\ next[a] <= NumPaths
  BY NextType DEF Freeze, NextInv
<1>2. /\ tree' = tree /\ touched' = touched /\ broken' = broken /\ before' = before
      /\ pc[a] = "freeze" /\ tree[next[a]] = Base
  BY DEF Freeze, Fixed
<1>3. ASSUME NEW g \in Files \ touched[a], g <= next[a]
      PROVE  before[a][g] = Base
  <2>1. g \in Nat
    BY FilesAreNumbers
  <2>2. g < next[a] \/ g = next[a]
    BY ONLY <1>1, <1>3, <2>1
  <2>3. g < next[a] => before[a][g] = Base
    BY <1>2 DEF TransAt
  <2>4. tree[g] = before[a][g]
    BY <1>2 DEF TransAt, Early
  <2> QED
    BY ONLY <1>2, <2>2, <2>3, <2>4
<1>4. CASE next[a] < NumPaths
  <2>1. next'[a] = next[a] + 1 /\ pc'[a] = "freeze"
    BY <1>4 DEF Freeze, Walk, At, Goto, TypeOK
  <2>4. ASSUME NEW g \in Files \ touched[a], g < next[a] + 1
        PROVE  before[a][g] = Base
    <3>1. g \in Nat
      BY FilesAreNumbers
    <3>2. g <= next[a]
      BY ONLY <1>1, <2>4, <3>1
    <3> QED
      BY <1>3, <3>2
  <2>5. \A g \in Files \ touched[a] : tree[g] = before[a][g]
    BY <1>2 DEF TransAt, Early
  <2>2. TransAt(a)'
    BY ONLY <1>2, <2>1, <2>4, <2>5 DEF TransAt, Early, Promoting
  <2>3. ResidueAt(a)'
    BY <1>2, <2>1 DEF ResidueAt, Early, Promoting
  <2> QED
    BY <2>2, <2>3
<1>5. CASE ~(next[a] < NumPaths)
  <2>1. pc'[a] \in {"head", "stage"}
    BY <1>5 DEF Freeze, Walk, At, Goto, TypeOK
  <2>2. \A g \in Targets : g <= next[a]
    BY <1>1, <1>5, Ranges DEF Targets
  <2>3. TransAt(a)'
    BY <1>2, <1>3, <2>1, <2>2 DEF TransAt, Early, Promoting
  <2>4. ResidueAt(a)'
    BY <1>2, <2>1 DEF ResidueAt, Early, Promoting
  <2> QED
    BY <2>3, <2>4
<1> QED
  BY <1>4, <1>5

\* The remaining steps of call a during promotion and rollback.
LEMMA LateStep ==
    ASSUME TypeOK, NextInv, NEW a \in Appliers, TransAt(a), ResidueAt(a),
           Check(a) \/ CheckStale(a) \/ PromoteFails(a) \/ RestoreFails(a) \/ Aborted(a)
    PROVE  TransAt(a)' /\ ResidueAt(a)'
<1> USE DEF Fixed, Goto, At
<1>1. tree' = tree /\ touched' = touched /\ before' = before /\ pc[a] \in Promoting
  BY DEF Check, CheckStale, PromoteFails, RestoreFails, Aborted, Promoting
<1>2. CASE Check(a) \/ CheckStale(a) \/ PromoteFails(a)
  <2>1. next' = next /\ broken' = broken /\ pc'[a] \in Promoting
    BY <1>2 DEF Check, CheckStale, PromoteFails, Promoting, TypeOK
  <2>2. TransAt(a)'
    BY <1>1, <2>1 DEF TransAt, Promoting, Early
  <2>3. ResidueAt(a)'
    BY <1>1, <2>1 DEF ResidueAt, Promoting, Early
  <2> QED
    BY <2>2, <2>3
<1>3. CASE RestoreFails(a)
  <2>1. broken'[a] /\ pc' = pc /\ pc[a] = "rollback"
    BY <1>3 DEF RestoreFails, TypeOK
  <2>2. TransAt(a)'
    BY <1>1, <2>1 DEF TransAt, Promoting, Early
  <2>3. ResidueAt(a)'
    BY <1>1, <2>1 DEF ResidueAt, Promoting, Early
  <2> QED
    BY <2>2, <2>3
<1>4. CASE Aborted(a)
  <2>1. next[a] = 1 /\ broken' = broken /\ pc'[a] = "failed"
    BY <1>4 DEF Aborted, TypeOK
  <2>2. \A g \in Files : ~(g < next[a])
    BY ONLY <2>1, NoneBeforeFirst
  <2>3. TransAt(a)'
    BY <1>1, <2>1, <2>2 DEF TransAt, Promoting, Early
  <2>4. ResidueAt(a)'
    BY <1>1, <2>1, <2>2 DEF ResidueAt, Promoting, Early
  <2> QED
    BY <2>3, <2>4
<1> QED
  BY <1>2, <1>3, <1>4

\* The first step of call a, and the ways it may end early.
LEMMA EdgeStep ==
    ASSUME TypeOK, NextInv, NEW a \in Appliers, TransAt(a), ResidueAt(a),
           Begin(a) \/ Refuse(a) \/ FreezeStale(a) \/ Crash(a)
    PROVE  TransAt(a)' /\ ResidueAt(a)'
<1> USE DEF Fixed, Goto
<1>1. CASE Begin(a)
  <2>1. /\ tree' = tree /\ before'[a] = tree /\ pc[a] = "idle" /\ pc'[a] = "freeze"
        /\ next'[a] = 1
    BY <1>1 DEF Begin, TypeOK, NextInv
  <2>2. \A g \in Files : ~(g < next'[a])
    BY ONLY <2>1, NoneBeforeFirst
  <2>4. TransAt(a)'
    BY ONLY <2>1, <2>2 DEF TransAt, Early, Promoting
  <2>3. ResidueAt(a)'
    BY <2>1 DEF ResidueAt, Early, Promoting
  <2> QED
    BY <2>3, <2>4
<1>2. CASE Refuse(a) \/ FreezeStale(a)
  <2>1. tree' = tree /\ pc[a] \in Early /\ pc'[a] = "failed"
    BY <1>2 DEF Refuse, FreezeStale, TypeOK, Early
  <2>2. \/ before'[a] = tree
        \/ before'[a] = before[a] /\ touched'[a] = touched[a] /\ pc[a] # "idle"
    BY <1>2 DEF Refuse, FreezeStale, TypeOK
  <2>3. TransAt(a)'
    BY <2>1, <2>2 DEF TransAt, Early, Promoting
  <2>4. ResidueAt(a)'
    BY <2>1 DEF ResidueAt, Early, Promoting
  <2> QED
    BY <2>3, <2>4
<1>3. CASE Crash(a)
  <2>1. pc'[a] = "crashed"
    BY <1>3 DEF Crash, TypeOK
  <2> QED
    BY <2>1 DEF TransAt, ResidueAt, Early, Promoting
<1> QED
  BY <1>1, <1>2, <1>3

\* Every step of call a keeps its own invariant.
LEMMA OwnStep ==
    ASSUME TypeOK, NextInv, NEW a \in Appliers, TransAt(a), ResidueAt(a),
           Begin(a) \/ Refuse(a) \/ Step(a) \/ ProbeFails(a) \/ PromoteInjected(a)
               \/ PromoteFails(a) \/ RestoreFails(a) \/ Crash(a)
    PROVE  TransAt(a)' /\ ResidueAt(a)'
<1> USE DEF Fixed, Goto, At
<1>1. CASE VerifyHead(a) \/ ProbeFails(a) \/ VerifyStatus(a) \/ StageGit(a) \/ StageEdits(a)
              \/ Verified(a)
  <2>1. /\ broken' = broken /\ before' = before /\ tree' = tree /\ touched' = touched
        /\ pc[a] \in Early \ {"idle", "freeze"} /\ next' = next
    BY <1>1 DEF VerifyHead, ProbeFails, VerifyStatus, StageGit, StageEdits, Verified, Early
  <2>2. \/ pc'[a] \in {"failed", "status", "stage", "edit", "verify"}
        \/ pc'[a] = "check" /\ pc[a] = "verify"
    BY <1>1 DEF VerifyHead, ProbeFails, VerifyStatus, StageGit, StageEdits, Verified, TypeOK
  <2>3. pc[a] = "verify" => next[a] = 1
    BY DEF NextInv
  <2> QED
    BY <2>1, <2>2, <2>3, EarlyStep
<1>2. CASE StageCopy(a)
  <2>1. /\ broken' = broken /\ before' = before /\ tree' = tree /\ touched' = touched
        /\ pc[a] \in Early \ {"idle", "freeze"} /\ pc'[a] \in {"stage", "edit"}
    BY <1>2 DEF StageCopy, Early, TypeOK
  <2> QED
    BY <2>1, EarlyStep
<1> QED
  BY <1>1, <1>2, EdgeStep, LateStep, FreezeStep, PromoteStep, InjectedStep, RestoreStep DEF Step

\* Steps of call a seen from another call c: they leave it where it was, and write
\* no file or one, with a body that is not the call's.
LEMMA OtherEffect ==
    ASSUME TypeOK, NextInv, NEW a \in Appliers, NEW c \in Appliers \ {a},
           Begin(a) \/ Refuse(a) \/ Step(a) \/ ProbeFails(a) \/ PromoteInjected(a)
               \/ PromoteFails(a) \/ RestoreFails(a) \/ Crash(a)
    PROVE  /\ Kept(c)
           /\ \/ tree' = tree /\ touched'[c] = touched[c]
              \/ \E b : \E f \in Files : Put(a, f, b) /\ b # After(c)
<1> USE DEF Fixed, Goto, At, Kept
<1>1. CASE Begin(a) \/ Refuse(a) \/ FreezeStale(a) \/ Crash(a) \/ VerifyHead(a) \/ ProbeFails(a)
              \/ VerifyStatus(a)
  <2>1. Kept(c) /\ tree' = tree /\ touched'[c] = touched[c]
    BY <1>1 DEF Begin, Refuse, FreezeStale, Crash, VerifyHead, ProbeFails, VerifyStatus, TypeOK
  <2> QED
    BY ONLY <2>1
<1>2. CASE StageGit(a) \/ StageCopy(a) \/ StageEdits(a) \/ Verified(a) \/ Freeze(a)
  <2>1. Kept(c) /\ tree' = tree /\ touched'[c] = touched[c]
    BY <1>2 DEF StageGit, StageCopy, StageEdits, Verified, Freeze, Walk, TypeOK
  <2> QED
    BY ONLY <2>1
<1>3. CASE Check(a) \/ CheckStale(a) \/ PromoteFails(a) \/ RestoreFails(a) \/ Aborted(a)
  <2>1. Kept(c) /\ tree' = tree /\ touched'[c] = touched[c]
    BY <1>3 DEF Check, CheckStale, PromoteFails, RestoreFails, Aborted, TypeOK
  <2> QED
    BY ONLY <2>1
<1>4. CASE Promote(a)
  <2>1. Kept(c) /\ next[a] \in Files /\ Put(a, next[a], After(a))
    BY <1>4, NextType DEF Promote, Promoting, TypeOK
  <2>2. After(a) # After(c)
    BY AfterDistinct
  <2> QED
    BY ONLY <2>1, <2>2
<1>5. CASE Restore(a)
  <2>1. Kept(c) /\ Put(a, next[a] - 1, Base)
    BY <1>5 DEF Restore, TypeOK
  <2>2. next[a] - 1 \in Files
    <3>1. next[a] \in Nat /\ 1 < next[a] /\ next[a] <= NumPaths + 1
      BY <1>5, NextType DEF Restore, NextInv
    <3> QED
      BY <3>1, Sizes DEF Files
  <2>3. Base # After(c)
    BY AfterDistinct
  <2> QED
    BY ONLY <2>1, <2>2, <2>3
<1>6. CASE PromoteInjected(a)
  <2>1. Kept(c) /\ 1 \in Files /\ Put(a, 1, After(a))
    BY <1>6, Ranges DEF PromoteInjected, TypeOK, Files
  <2>2. After(a) # After(c)
    BY AfterDistinct
  <2> QED
    BY ONLY <2>1, <2>2
<1> QED
  BY <1>1, <1>2, <1>3, <1>4, <1>5, <1>6 DEF Step

LEMMA OtherStep ==
    ASSUME TypeOK, NextInv, NEW a \in Appliers, NEW c \in Appliers \ {a}, TransAt(c), ResidueAt(c),
           Begin(a) \/ Refuse(a) \/ Step(a) \/ ProbeFails(a) \/ PromoteInjected(a)
               \/ PromoteFails(a) \/ RestoreFails(a) \/ Crash(a)
    PROVE  TransAt(c)' /\ ResidueAt(c)'
<1>1. /\ Kept(c)
      /\ \/ tree' = tree /\ touched'[c] = touched[c]
         \/ \E b : \E f \in Files : Put(a, f, b) /\ b # After(c)
  BY OtherEffect
<1> QED
  BY <1>1, Unmoved, ByOther

-----------------------------------------------------------------------------
(* The theorems.                                                           *)

LEMMA ApplyInit == Init => ApplyInv
<1> SUFFICES ASSUME Init, NEW a \in Appliers
             PROVE  TransAt(a) /\ ResidueAt(a)
  BY DEF ApplyInv
<1>1. pc[a] = "idle" /\ \A f \in Files : tree[f] = Base
  BY DEF Init, Clean
<1> QED
  BY <1>1, AfterDistinct DEF TransAt, ResidueAt, Early, Promoting

LEMMA ApplyStep == TypeOK /\ NextInv /\ ApplyInv /\ [Next]_vars => ApplyInv'
<1> SUFFICES ASSUME TypeOK, NextInv, [Next]_vars, NEW c \in Appliers, TransAt(c), ResidueAt(c)
             PROVE  TransAt(c)' /\ ResidueAt(c)'
  BY DEF ApplyInv
<1>1. ASSUME NEW a \in Appliers,
             Begin(a) \/ Refuse(a) \/ Step(a) \/ ProbeFails(a) \/ PromoteInjected(a)
               \/ PromoteFails(a) \/ RestoreFails(a) \/ Crash(a)
      PROVE  TransAt(c)' /\ ResidueAt(c)'
  <2>1. CASE a = c
    BY <1>1, <2>1, OwnStep
  <2>2. CASE a # c
    BY <1>1, <2>2, OtherStep
  <2> QED
    BY <2>1, <2>2
<1>2. ASSUME NEW f \in Files, NEW b \in Others \cup {Base, Missing}, Edit(f, b)
      PROVE  TransAt(c)' /\ ResidueAt(c)'
  <2>1. Kept(c) /\ Put("editor", f, b)
    BY <1>2 DEF Edit, Kept
  <2>2. "editor" # c /\ b # After(c)
    BY ConstantsAssumption, AfterDistinct
  <2> QED
    BY <2>1, <2>2, ByOther
<1>3. CASE GitCommit \/ UNCHANGED vars
  <2>1. Kept(c) /\ tree' = tree /\ touched'[c] = touched[c]
    BY <1>3 DEF GitCommit, vars, Kept
  <2> QED
    BY <2>1, Unmoved
<1> QED
  BY <1>1, <1>2, <1>3 DEF Next

LEMMA Inductive == Spec => [](TypeOK /\ NextInv /\ ApplyInv)
<1>1. Init => TypeOK /\ NextInv /\ ApplyInv
  BY TypeInit, NextInit, ApplyInit
<1>2. TypeOK /\ NextInv /\ ApplyInv /\ [Next]_vars => (TypeOK /\ NextInv /\ ApplyInv)'
  BY TypeStep, ApplyStep
<1> QED
  BY <1>1, <1>2, PTL DEF Spec

\* ApplyChangeSet is all or nothing on the files nobody else writes meanwhile, as
\* long as its process lives and its restores succeed.
THEOREM AllOrNothing == Spec => []Transactional
<1>1. ApplyInv => Transactional
  BY DEF ApplyInv, TransAt, Transactional
<1> QED
  BY <1>1, Inductive, PTL

\* A failed ApplyChangeSet leaves nothing of its change set in the tree, whoever
\* else writes the same files.
THEOREM NothingLeft == Spec => []NoResidue
<1>1. ApplyInv => NoResidue
  BY DEF ApplyInv, ResidueAt, NoResidue
<1> QED
  BY <1>1, Inductive, PTL

-----------------------------------------------------------------------------
(* What a crash leaves.                                                    *)

\* The first n - 1 paths are those of call c, and the rest as it found them, where
\* nobody else wrote.
PrefixAt(c, n) ==
    \A f \in Files \ touched[c] : tree[f] = IF f < n THEN After(c) ELSE before[c][f]

\* What others write no longer counts.
LEMMA PrefixKept ==
    ASSUME TypeOK, NEW c \in Appliers, NEW n, PrefixAt(c, n), Kept(c),
           \/ tree' = tree /\ touched'[c] = touched[c]
           \/ \E who, b : \E f \in Files : who # c /\ Put(who, f, b)
    PROVE  PrefixAt(c, n)'
<1>1. \A g \in Files \ touched'[c] : g \in Files \ touched[c] /\ tree'[g] = tree[g]
  <2>1. CASE tree' = tree /\ touched'[c] = touched[c]
    BY ONLY <2>1
  <2>2. ASSUME NEW who, NEW b, NEW f \in Files, who # c, Put(who, f, b)
        PROVE  \A g \in Files \ touched'[c] : g \in Files \ touched[c] /\ tree'[g] = tree[g]
    <3>1. touched'[c] = touched[c] \cup {f}
      BY ONLY <2>2, c \in Appliers DEF Put
    <3>2. \A g \in Files : g # f => tree'[g] = tree[g]
      BY ONLY <2>2, TypeOK DEF Put, TypeOK
    <3> QED
      BY ONLY <3>1, <3>2
  <2> QED
    BY <2>1, <2>2
<1>2. before'[c] = before[c]
  BY DEF Kept
<1> QED
  BY ONLY <1>1, <1>2, PrefixAt(c, n) DEF PrefixAt

\* Where a call stands when it dies decides how many paths are new.
LEMMA PrefixAtCrash ==
    ASSUME TypeOK, NextInv, NEW c \in Appliers, TransAt(c), ~broken[c],
           pc[c] \in (Early \ {"idle"}) \cup Promoting
    PROVE  \E n \in 1 .. NumPaths + 1 : PrefixAt(c, n)
<1>1. CASE pc[c] \in Early \ {"idle"}
  <2>1. 1 \in 1 .. NumPaths + 1
    BY Sizes
  <2>2. PrefixAt(c, 1)
    BY <1>1, NoneBeforeFirst DEF TransAt, PrefixAt
  <2> QED
    BY ONLY <2>1, <2>2
<1>2. CASE pc[c] \in Promoting
  <2>1. next[c] \in 1 .. NumPaths + 1
    <3>1. next[c] \in Nat /\ 1 <= next[c]
      BY NextType
    <3>2. next[c] <= NumPaths \/ next[c] <= NumPaths + 1
      BY <1>2 DEF NextInv, Promoting
    <3> QED
      BY ONLY <3>1, <3>2, Sizes
  <2>2. PrefixAt(c, next[c])
    BY <1>2 DEF TransAt, PrefixAt
  <2> QED
    BY ONLY <2>1, <2>2
<1> QED
  BY <1>1, <1>2

\* Only a crash ends a call that way.
LEMMA OwnAlive ==
    ASSUME TypeOK, NEW a \in Appliers,
           Begin(a) \/ Refuse(a) \/ Step(a) \/ ProbeFails(a) \/ PromoteInjected(a)
               \/ PromoteFails(a) \/ RestoreFails(a)
    PROVE  pc'[a] # "crashed"
<1>0. pc \in [Appliers -> Labels]
  BY DEF TypeOK
<1>1. CASE Begin(a) \/ Refuse(a) \/ ProbeFails(a) \/ PromoteInjected(a) \/ PromoteFails(a)
              \/ RestoreFails(a)
  BY ONLY <1>0, <1>1, a \in Appliers
     DEF Begin, Refuse, ProbeFails, PromoteInjected, PromoteFails, RestoreFails, Goto
<1>2. CASE FreezeStale(a) \/ VerifyHead(a) \/ VerifyStatus(a) \/ Verified(a) \/ Freeze(a)
  BY ONLY <1>0, <1>2, a \in Appliers
     DEF FreezeStale, VerifyHead, VerifyStatus, Verified, Freeze, Walk, Goto
<1>3. CASE StageGit(a) \/ StageCopy(a) \/ StageEdits(a)
  BY ONLY <1>0, <1>3, a \in Appliers DEF StageGit, StageCopy, StageEdits, Goto
<1>4. CASE Check(a) \/ CheckStale(a) \/ Promote(a) \/ Restore(a) \/ Aborted(a)
  BY ONLY <1>0, <1>4, a \in Appliers DEF Check, CheckStale, Promote, Restore, Aborted, Goto
<1> QED
  BY <1>1, <1>2, <1>3, <1>4 DEF Step

LEMMA PrefixStep ==
    TypeOK /\ NextInv /\ ApplyInv /\ CrashLeavesPrefix /\ [Next]_vars => CrashLeavesPrefix'
<1> SUFFICES ASSUME TypeOK, NextInv, ApplyInv, CrashLeavesPrefix, [Next]_vars,
                    NEW c \in Appliers, pc'[c] = "crashed", ~broken'[c]
             PROVE  \E n \in 1 .. NumPaths + 1 : PrefixAt(c, n)'
  BY DEF CrashLeavesPrefix, PrefixAt
<1>1. ASSUME Kept(c),
             \/ tree' = tree /\ touched'[c] = touched[c]
             \/ \E who, b : \E f \in Files : who # c /\ Put(who, f, b)
      PROVE  \E n \in 1 .. NumPaths + 1 : PrefixAt(c, n)'
  <2>1. pc[c] = "crashed" /\ ~broken[c]
    BY <1>1 DEF Kept
  <2>2. PICK n \in 1 .. NumPaths + 1 : PrefixAt(c, n)
    BY <2>1 DEF CrashLeavesPrefix, PrefixAt
  <2>3. PrefixAt(c, n)'
    BY <1>1, <2>2, PrefixKept
  <2> QED
    BY ONLY <2>3
<1>2. CASE Crash(c)
  <2>1. /\ pc[c] \notin {"idle", "applied", "failed", "crashed"}
        /\ tree' = tree /\ touched' = touched /\ before' = before /\ broken' = broken
    BY <1>2 DEF Crash, Fixed
  <2>2. pc[c] \in (Early \ {"idle"}) \cup Promoting
    BY <2>1 DEF TypeOK, Labels, Early, Promoting
  <2>3. TransAt(c) /\ ~broken[c]
    BY <2>1 DEF ApplyInv
  <2>4. PICK n \in 1 .. NumPaths + 1 : PrefixAt(c, n)
    BY <2>2, <2>3, PrefixAtCrash
  <2>5. PrefixAt(c, n)'
    BY ONLY <2>1, <2>4 DEF PrefixAt
  <2> QED
    BY ONLY <2>5
<1>3. ASSUME NEW a \in Appliers,
             Begin(a) \/ Refuse(a) \/ Step(a) \/ ProbeFails(a) \/ PromoteInjected(a)
               \/ PromoteFails(a) \/ RestoreFails(a) \/ Crash(a)
      PROVE  \E n \in 1 .. NumPaths + 1 : PrefixAt(c, n)'
  <2>1. CASE a = c
    BY <1>2, <1>3, <2>1, OwnAlive
  <2>2. CASE a # c
    <3>1. /\ Kept(c)
          /\ \/ tree' = tree /\ touched'[c] = touched[c]
             \/ \E b : \E f \in Files : Put(a, f, b) /\ b # After(c)
      BY <1>3, <2>2, OtherEffect
    <3> QED
      BY <1>1, <2>2, <3>1
  <2> QED
    BY <2>1, <2>2
<1>4. ASSUME NEW f \in Files, NEW b \in Others \cup {Base, Missing}, Edit(f, b)
      PROVE  \E n \in 1 .. NumPaths + 1 : PrefixAt(c, n)'
  <2>1. Kept(c) /\ Put("editor", f, b) /\ "editor" # c
    BY <1>4, ConstantsAssumption DEF Edit, Kept
  <2> QED
    BY <1>1, <2>1
<1>5. CASE GitCommit \/ UNCHANGED vars
  <2>1. Kept(c) /\ tree' = tree /\ touched'[c] = touched[c]
    BY <1>5 DEF GitCommit, vars, Kept
  <2> QED
    BY <1>1, <2>1
<1> QED
  BY <1>3, <1>4, <1>5 DEF Next

\* A process that dies in ApplyChangeSet leaves the first paths new, however many,
\* and the other files as it found them, where nobody else wrote: there is a
\* mixture, but never one with a gap.
THEOREM CrashIsPrefix == Spec => []CrashLeavesPrefix
<1>1. Init => CrashLeavesPrefix
  BY DEF Init, CrashLeavesPrefix
<1> QED
  BY <1>1, Inductive, PrefixStep, PTL DEF Spec

-----------------------------------------------------------------------------
(* What a promotion replaces.                                              *)

\* A step that leaves the tree alone brings no other call to its rename.
LEMMA ComparedUnmoved ==
    ASSUME ComparedInv, tree' = tree,
           \A c \in Appliers : /\ pc'[c] = "write" => pc[c] = "write" /\ next'[c] = next[c]
                               /\ unseen'[c] = unseen[c]
    PROVE  ComparedInv'
BY DEF ComparedInv

\* A write by somebody who is not about to rename: whoever is, at that path, has
\* it marked as written by others.
LEMMA ComparedPut ==
    ASSUME TypeOK, NextInv, ComparedInv, NEW who, NEW f \in Files, NEW b, Put(who, f, b),
           who \in Appliers => pc'[who] # "write",
           \A c \in Appliers : c # who => pc'[c] = pc[c] /\ next'[c] = next[c]
    PROVE  ComparedInv'
<1> SUFFICES ASSUME NEW c \in Appliers, pc'[c] = "write"
             PROVE  tree'[next'[c]] = Base \/ unseen'[c]
  BY DEF ComparedInv
<1>1. c # who /\ pc[c] = "write" /\ next'[c] = next[c]
  OBVIOUS
<1>2. tree[next[c]] = Base \/ unseen[c]
  BY <1>1 DEF ComparedInv
<1>3. next[c] \in Files
  BY <1>1, NextType
<1>4. CASE next[c] = f
  BY <1>1, <1>4 DEF Put, About
<1>5. CASE next[c] # f
  BY <1>1, <1>2, <1>3, <1>5 DEF Put, TypeOK
<1> QED
  BY <1>4, <1>5

LEMMA ComparedStep ==
    ASSUME TypeOK, NextInv, ComparedInv, [Next]_vars
    PROVE  ComparedInv'
<1>1. CASE UNCHANGED vars
  BY <1>1 DEF vars, ComparedInv
<1>2. ASSUME NEW a \in Appliers,
             Begin(a) \/ Refuse(a) \/ VerifyHead(a) \/ ProbeFails(a) \/ VerifyStatus(a)
             \/ StageGit(a) \/ StageCopy(a) \/ StageEdits(a) \/ Verified(a)
             \/ FreezeStale(a) \/ CheckStale(a) \/ PromoteFails(a) \/ RestoreFails(a)
             \/ Aborted(a) \/ Crash(a)
      PROVE  ComparedInv'
  <2>1. /\ tree' = tree
        /\ \A c \in Appliers : /\ pc'[c] = "write" => pc[c] = "write" /\ next'[c] = next[c]
                               /\ unseen'[c] = unseen[c]
    <3>1. tree' = tree /\ unseen' = unseen
      BY <1>2 DEF Begin, Refuse, VerifyHead, ProbeFails, VerifyStatus, StageGit, StageCopy,
          StageEdits, Verified, FreezeStale, CheckStale, PromoteFails, RestoreFails, Aborted,
          Crash, Fixed
    <3>2. (\E s : s # "write" /\ Goto(a, s)) \/ (pc' = pc /\ pc[a] # "write")
      BY <1>2 DEF Begin, Refuse, VerifyHead, ProbeFails, VerifyStatus, StageGit, StageCopy,
          StageEdits, Verified, FreezeStale, CheckStale, PromoteFails, RestoreFails, Aborted,
          Crash
    <3>3. next' = next \/ \E n : At(a, n)
      BY <1>2 DEF Begin, Refuse, VerifyHead, ProbeFails, VerifyStatus, StageGit, StageCopy,
          StageEdits, Verified, FreezeStale, CheckStale, PromoteFails, RestoreFails, Aborted,
          Crash
    <3>4. DOMAIN pc = Appliers /\ DOMAIN next = Appliers
      BY DEF TypeOK
    <3>5. pc'[a] # "write" /\ \A c \in Appliers : c # a => pc'[c] = pc[c]
      BY ONLY <3>2, <3>4, a \in Appliers DEF Goto
    <3>6. \A c \in Appliers : c # a => next'[c] = next[c]
      BY ONLY <3>3, <3>4 DEF At
    <3> QED
      BY ONLY <3>1, <3>5, <3>6
  <2> QED
    BY <2>1, ComparedUnmoved
<1>3. ASSUME NEW a \in Appliers, Freeze(a) PROVE ComparedInv'
  <2>1. tree' = tree /\ unseen' = unseen
    BY <1>3 DEF Freeze, Fixed
  <2>2. \A c \in Appliers : pc'[c] = "write" => pc[c] = "write" /\ next'[c] = next[c]
    BY <1>3 DEF Freeze, Walk, At, Goto, TypeOK
  <2> QED
    BY <2>1, <2>2, ComparedUnmoved
<1>4. ASSUME NEW a \in Appliers, Check(a) PROVE ComparedInv'
  BY <1>4 DEF Check, Fixed, Goto, ComparedInv, TypeOK
<1>5. ASSUME NEW a \in Appliers, Promote(a) \/ PromoteInjected(a) \/ Restore(a)
      PROVE  ComparedInv'
  <2>1. PICK f \in Files, b \in File : Put(a, f, b)
    <3>1. CASE Promote(a)
      BY <3>1, NextType, Ranges DEF Promote
    <3>2. CASE PromoteInjected(a)
      <4>1. 1 \in Files
        BY ONLY Sizes DEF Files
      <4> QED
        BY <3>2, <4>1, Ranges DEF PromoteInjected
    <3>3. CASE Restore(a)
      <4>1. next[a] - 1 \in Files
        <5>1. next[a] \in Nat /\ next[a] <= NumFiles + 1
          BY NextType
        <5>2. next[a] > 1
          BY <3>3 DEF Restore
        <5> QED
          BY ONLY <5>1, <5>2, Sizes DEF Files
      <4> QED
        BY <3>3, <4>1, Ranges DEF Restore
    <3> QED
      BY <1>5, <3>1, <3>2, <3>3
  <2>2. pc'[a] # "write"
    BY <1>5 DEF Promote, PromoteInjected, Restore, Goto, TypeOK
  <2>3. \A c \in Appliers : c # a => pc'[c] = pc[c] /\ next'[c] = next[c]
    BY <1>5 DEF Promote, PromoteInjected, Restore, Goto, At, TypeOK
  <2> QED
    BY ONLY TypeOK, NextInv, ComparedInv, <2>1, <2>2, <2>3, ComparedPut
<1>6. ASSUME NEW f \in Files, NEW b \in Others \cup {Base, Missing}, Edit(f, b)
      PROVE  ComparedInv'
  BY <1>6, ComparedPut, ConstantsAssumption DEF Edit
<1>7. CASE GitCommit
  BY <1>7, ComparedUnmoved DEF GitCommit
<1> QED
  BY <1>1, <1>2, <1>3, <1>4, <1>5, <1>6, <1>7 DEF Next, Step

\* A promotion of ApplyChangeSet replaces the body the change set was made
\* against, unless someone wrote the file between the comparison and the rename.
THEOREM ReplacesItsBase == Spec => ReplacesBase
<1>1. Init => TypeOK /\ NextInv /\ ComparedInv
  BY TypeInit, NextInit DEF Init, ComparedInv
<1>2. TypeOK /\ NextInv /\ ComparedInv /\ [Next]_vars => (TypeOK /\ NextInv /\ ComparedInv)'
  BY TypeStep, ComparedStep
<1>3. ComparedInv => \A a \in Appliers : Promote(a) => tree[next[a]] = Base \/ unseen[a]
  BY DEF ComparedInv, Promote
<1> QED
  BY <1>1, <1>2, <1>3, PTL DEF Spec, ReplacesBase

=============================================================================

--------------------------- MODULE CodeIndexProofs ---------------------------
(***************************************************************************)
(* Theorems about CodeIndex, for every value of its constants: types, what *)
(* the gob and the caches hold, and what a request returns while others    *)
(* edit.                                                                   *)
(***************************************************************************)
EXTENDS CodeIndex, TLAPS

-----------------------------------------------------------------------------
(* The values the model builds have the types it declares.                 *)

LEMMA CrawledType ==
    ASSUME NEW s \in Stamp, NEW b \in Bodies
    PROVE  /\ Crawled(s, b) \in Entry
           /\ Crawled(s, b).stamp = s
           /\ Crawled(s, b).body = b
BY DEF Crawled, Entry

LEMMA NewStampType ==
    ASSUME NEW b, NEW n \in Nat
    PROVE  [size |-> SizeOf(b), mtime |-> n] \in Stamp
BY DEF SizeOf, Stamp

LEMMA RebuildType ==
    ASSUME tree \in [Files -> Entry \cup {None}]
    PROVE  Rebuild \in Index
BY DEF Rebuild, Index, indexableFile

LEMMA FreshType ==
    ASSUME NEW j \in Jobs, NEW s \in [Files -> SUBSET (Bodies \cup {None})]
    PROVE  Fresh(j, s) \in Locals
BY DEF Fresh, Locals, EmptyIndex, Index

LEMMA GoneType == Gone \in Locals
BY FreshType DEF Gone, Jobs, Requests

\* A change of the tree leaves alone what a request has loaded.
LEMMA ChangeKeeps ==
    ASSUME TypeOK, NEW f, NEW e, Change(f, e), NEW w \in Workers
    PROVE  loc'[w].sid = loc[w].sid /\ loc'[w].prev = loc[w].prev
<1>1. loc[w] \in Locals
  BY DEF TypeOK
<1>2. CASE pc[w] = "idle"
  BY <1>2, Zenon DEF Change
<1>3. CASE pc[w] # "idle"
  <2> DEFINE seen == [loc[w].seen EXCEPT ![f] = @ \cup {BodyOf(e)}]
  <2>1. loc'[w] = [loc[w] EXCEPT !.seen = seen, !.quiet = FALSE]
    BY <1>3, Zenon DEF Change
  <2> HIDE DEF seen
  <2> QED
    BY <1>1, <2>1 DEF Locals
<1> QED
  BY <1>2, <1>3

LEMMA ChangePrev ==
    ASSUME TypeOK, PrevLoaded, NEW f, NEW e, Change(f, e)
    PROVE  PrevLoaded'
<1>1. pc' = pc
  BY Zenon DEF Change
<1>2. \A w \in Workers : loc'[w].prev = loc[w].prev
  BY ChangeKeeps
<1> QED
  BY <1>1, <1>2 DEF PrevLoaded

LEMMA NoneIsNoGob == None \notin Gob
BY NoneAssumption

LEMMA InitType == Init => TypeOK
<1> SUFFICES ASSUME Init PROVE TypeOK
  OBVIOUS
<1>1. tree \in [Files -> Entry \cup {None}]
  <2>1. \A b \in Bodies : Crawled([size |-> SizeOf(b), mtime |-> 0], b) \in Entry
    BY NewStampType, CrawledType
  <2> DEFINE first == {Crawled([size |-> SizeOf(b), mtime |-> 0], b) : b \in Bodies}
  <2>2. first \subseteq Entry
    BY <2>1, Zenon
  <2>3. tree \in [Files -> {None} \cup first]
    BY DEF Init
  <2> HIDE DEF first
  <2> QED
    BY <2>2, <2>3
<1>2. gob \in Gob \cup {None}
  BY <1>1, RebuildType DEF Init, Gob
<1>3. loc \in [Workers -> Locals]
  BY GoneType DEF Init
<1> QED
  BY <1>1, <1>2, <1>3 DEF Init, TypeOK, Labels

\* A step that gives one worker well-typed locals keeps loc in its type.
LEMMA SetType ==
    ASSUME loc \in [Workers -> Locals], NEW w \in Workers,
           NEW l, Set(w, l), loc'[w] \in Locals
    PROVE  loc' \in [Workers -> Locals]
BY DEF Set

LEMMA SetDone ==
    ASSUME TypeOK, NEW w \in Workers, NEW l, Set(w, l)
    PROVE  loc'[w] = l /\ \A v \in Workers : v # w => loc'[v] = loc[v]
BY DEF Set, TypeOK

\* A step of a worker leaves its locals in their type.
LEMMA LocalsType ==
    ASSUME TypeOK, PrevLoaded, NEW w \in Workers,
           Step(w) \/ IgnoresFail(w) \/ SaveFails(w)
    PROVE  loc' \in [Workers -> Locals]
<1>0. loc[w] \in Locals /\ loc \in [Workers -> Locals]
  BY DEF TypeOK
<1>1. CASE IdentityStat(w)
  <2>1. loc'[w] \in Locals
    BY <1>0, <1>1, Zenon DEF Locals, TypeOK, IdentityStat, Set, Gob
  <2> QED
    BY <1>0, <1>1, <2>1, SetType DEF IdentityStat
<1>2. CASE CacheServe(w)
  <2>1. loc'[w] \in Locals
    <3>1. cache[ProcOf[w]].snap \in Gob
      BY <1>2, ConstantsAssumption DEF CacheServe, CacheHit, TypeOK
    <3> QED
      BY <1>0, <1>2, <3>1, Zenon DEF Locals, TypeOK, CacheServe, Set
  <2> QED
    BY <1>0, <1>2, <2>1, SetType DEF CacheServe
<1>3. CASE LoadError(w)
  <2>1. loc'[w] \in Locals
    BY <1>0, <1>3, Zenon DEF Locals, TypeOK, LoadError, Set, Jobs, Requests
  <2> QED
    BY <1>0, <1>3, <2>1, SetType DEF LoadError
<1>4. CASE LoadIndex(w)
  <2>1. loc'[w] \in Locals
    BY <1>0, <1>4, Zenon DEF Locals, TypeOK, LoadIndex, Set, Decodes
  <2> QED
    BY <1>0, <1>4, <2>1, SetType DEF LoadIndex
<1>5. CASE LoadForIngest(w)
  <2>1. loc'[w] \in Locals
    BY <1>0, <1>5, Zenon DEF Locals, TypeOK, LoadForIngest, Set, Decodes, Gob
  <2> QED
    BY <1>0, <1>5, <2>1, SetType DEF LoadForIngest
<1>6. CASE WarmHit(w)
  <2>1. loc'[w] \in Locals
    BY <1>0, <1>6, Zenon DEF Locals, TypeOK, WarmHit, Set, PrevLoaded, Gob
  <2> QED
    BY <1>0, <1>6, <2>1, SetType DEF WarmHit
<1>7. CASE WarmMiss(w)
  <2>1. loc'[w] \in Locals
    BY <1>0, <1>7, Zenon DEF Locals, TypeOK, WarmMiss, Set
  <2> QED
    BY <1>0, <1>7, <2>1, SetType DEF WarmMiss
<1>8. CASE WalkEnd(w)
  <2>1. loc'[w] \in Locals
    BY <1>0, <1>8, Zenon DEF Locals, TypeOK, WalkEnd, Set, Truncated
  <2> QED
    BY <1>0, <1>8, <2>1, SetType DEF WalkEnd
<1>9. CASE IgnoresFail(w)
  <2>1. loc'[w] \in Locals
    BY <1>0, <1>9, GoneType DEF TypeOK, IgnoresFail, Set, Leave
  <2> QED
    BY <1>0, <1>9, <2>1, SetType DEF IgnoresFail, Leave
<1>10. CASE Invalidate(w)
  <2>1. loc'[w] \in Locals
    BY <1>0, <1>10, Zenon DEF Locals, TypeOK, Invalidate, Set, Jobs, Requests
  <2> QED
    BY <1>0, <1>10, <2>1, SetType DEF Invalidate
<1>11. CASE InvalidateFailed(w)
  <2>1. loc'[w] \in Locals
    BY <1>0, <1>11, GoneType DEF TypeOK, InvalidateFailed, Set, Leave
  <2> QED
    BY <1>0, <1>11, <2>1, SetType DEF InvalidateFailed, Leave
<1>12. CASE Return(w)
  <2>1. loc'[w] \in Locals
    BY <1>0, <1>12, GoneType DEF TypeOK, Return, Set, Leave
  <2> QED
    BY <1>0, <1>12, <2>1, SetType DEF Return, Leave
<1>13. ASSUME NEW f \in Files, WarmVisit(w, f) PROVE loc' \in [Workers -> Locals]
  <2>1. loc'[w] \in Locals
    BY <1>0, <1>13, Zenon DEF Locals, TypeOK, WarmVisit, Set, StampMatches
  <2> QED
    BY <1>0, <1>13, <2>1, SetType DEF WarmVisit
<1>14. ASSUME NEW f \in Files, WalkVisit(w, f) PROVE loc' \in [Workers -> Locals]
  <2>1. loc'[w] \in Locals
    BY <1>0, <1>14, Zenon DEF Locals, TypeOK, WalkVisit, Set
  <2> QED
    BY <1>0, <1>14, <2>1, SetType DEF WalkVisit
<1>15. ASSUME NEW f \in Files, StatGone(w, f) PROVE loc' \in [Workers -> Locals]
  <2>1. loc'[w] \in Locals
    BY <1>0, <1>15, Zenon DEF Locals, TypeOK, StatGone, Set
  <2> QED
    BY <1>0, <1>15, <2>1, SetType DEF StatGone
<1>16. ASSUME NEW f \in Files, StatHit(w, f) PROVE loc' \in [Workers -> Locals]
  <2>1. loc'[w] \in Locals
    <3>1. Crawled(tree[f].stamp, PrevEntry(w, f).body) \in Entry
      <4>1. tree[f] \in Entry
        BY <1>16 DEF StatHit, StatOK, TypeOK, indexableFile
      <4>2. PrevEntry(w, f) \in Entry
        BY <1>0, <1>16 DEF StatHit, StampHit, PrevEntry, Locals, Gob, Index
      <4> QED
        BY <4>1, <4>2 DEF Crawled, Entry
    <3> QED
      BY <1>0, <1>16, <3>1, Zenon DEF Locals, TypeOK, StatHit, Set, Index
  <2> QED
    BY <1>0, <1>16, <2>1, SetType DEF StatHit
<1>17. ASSUME NEW f \in Files, StatMiss(w, f) PROVE loc' \in [Workers -> Locals]
  <2>1. loc'[w] \in Locals
    <3> DEFINE stat == [loc[w].stat EXCEPT ![f] = tree[f].stamp]
    <3>1. tree[f] \in Entry
      BY <1>17 DEF StatMiss, StatOK, TypeOK, indexableFile
    <3>2. stat \in [Files -> Stamp \cup {None}]
      BY <1>0, <3>1 DEF Locals, Entry
    <3>3. loc'[w] = [loc[w] EXCEPT !.stat = stat]
      BY <1>17 DEF StatMiss, Set, TypeOK
    <3> HIDE DEF stat
    <3> QED
      BY <1>0, <3>2, <3>3, Zenon DEF Locals
  <2> QED
    BY <1>0, <1>17, <2>1, SetType DEF StatMiss
<1>18. ASSUME NEW f \in Files, ReadGone(w, f) PROVE loc' \in [Workers -> Locals]
  <2>1. loc'[w] \in Locals
    BY <1>0, <1>18, Zenon DEF Locals, TypeOK, ReadGone, Set
  <2> QED
    BY <1>0, <1>18, <2>1, SetType DEF ReadGone
<1>19. ASSUME NEW f \in Files, ReadFile(w, f) PROVE loc' \in [Workers -> Locals]
  <2>1. loc'[w] \in Locals
    <3>1. Crawled(loc[w].stat[f], tree[f].body) \in Entry
      BY <1>0, <1>19 DEF Crawled, Entry, ReadFile, TypeOK, Locals
    <3> QED
      BY <1>0, <1>19, <3>1, Zenon DEF Locals, TypeOK, ReadFile, Set, Index
  <2> QED
    BY <1>0, <1>19, <2>1, SetType DEF ReadFile
<1>20. ASSUME NEW f \in Files, IngestStat(w, f) PROVE loc' \in [Workers -> Locals]
  <2>1. loc'[w] \in Locals
    BY <1>0, <1>20, Zenon DEF Locals, TypeOK, IngestStat, Set, indexableFile, Entry
  <2> QED
    BY <1>0, <1>20, <2>1, SetType DEF IngestStat
<1>21. ASSUME NEW f \in Files, IngestGone(w, f) PROVE loc' \in [Workers -> Locals]
  <2>1. loc'[w] \in Locals
    BY <1>0, <1>21, Zenon DEF Locals, TypeOK, IngestGone, Set, Index
  <2> QED
    BY <1>0, <1>21, <2>1, SetType DEF IngestGone
<1>22. ASSUME NEW f \in Files, IngestSkip(w, f) PROVE loc' \in [Workers -> Locals]
  <2>1. loc'[w] \in Locals
    BY <1>0, <1>22, Zenon DEF Locals, TypeOK, IngestSkip, Set
  <2> QED
    BY <1>0, <1>22, <2>1, SetType DEF IngestSkip
<1>23. ASSUME NEW f \in Files, IngestRead(w, f) PROVE loc' \in [Workers -> Locals]
  <2>1. loc'[w] \in Locals
    <3>1. Crawled(loc[w].stat[f], tree[f].body) \in Entry
      BY <1>0, <1>23 DEF Crawled, Entry, IngestRead, TypeOK, Locals
    <3> QED
      BY <1>0, <1>23, <3>1, Zenon DEF Locals, TypeOK, IngestRead, Set, Index
  <2> QED
    BY <1>0, <1>23, <2>1, SetType DEF IngestRead
<1>24. CASE ScanEnd(w)
  <2>1. CASE ToSave(w)
    <3>1. Fresh(loc[w].job, loc[w].seen) \in Locals
      BY <1>0, FreshType DEF Locals
    <3>2. loc'[w] \in Locals
      BY <1>0, <2>1, <3>1, Zenon DEF Locals, TypeOK, ToSave, Set
    <3> QED
      BY <1>0, <2>1, <3>2, SetType DEF ToSave
  <2> QED
    BY <1>0, <1>24, <2>1 DEF ScanEnd
<1>25. CASE loc' = loc
  BY <1>0, <1>25
<1> QED
  BY <1>1, <1>2, <1>3, <1>4, <1>5, <1>6, <1>7, <1>8, <1>9, <1>10, <1>11, <1>12, <1>13, <1>14, <1>15, <1>16, <1>17, <1>18, <1>19, <1>20, <1>21, <1>22, <1>23, <1>24, <1>25 DEF Step, CacheMiss, LoadGuard, RestatIdentity, CachePut, LockGuard, LockFile, CreateTmp, EncodeTmp, RenameTmp, SaveFails, Unlock

\* The steps that touch only the worker itself and, around a Load, the guard.
PrivateStep(w) ==
    \/ IdentityStat(w) \/ CacheServe(w) \/ CacheMiss(w) \/ LoadGuard(w)
    \/ LoadError(w) \/ LoadIndex(w) \/ LoadForIngest(w) \/ RestatIdentity(w) \/ WarmHit(w)
    \/ WarmMiss(w) \/ WalkEnd(w) \/ IgnoresFail(w) \/ ScanEnd(w) \/ Return(w)
    \/ \E f \in Files :
          \/ WarmVisit(w, f) \/ WalkVisit(w, f) \/ StatGone(w, f)
          \/ StatHit(w, f) \/ StatMiss(w, f) \/ ReadGone(w, f)
          \/ ReadFile(w, f) \/ IngestStat(w, f) \/ IngestGone(w, f)
          \/ IngestSkip(w, f) \/ IngestRead(w, f)

\* The steps that change what workers share.
SharedStep(w) ==
    \/ CachePut(w) \/ LockGuard(w) \/ LockFile(w) \/ CreateTmp(w)
    \/ EncodeTmp(w) \/ RenameTmp(w) \/ SaveFails(w) \/ Unlock(w)
    \/ Invalidate(w) \/ InvalidateFailed(w)

LEMMA StepKinds ==
    ASSUME NEW w
    PROVE  (Step(w) \/ IgnoresFail(w) \/ SaveFails(w)) <=> (PrivateStep(w) \/ SharedStep(w))
BY DEF Step, PrivateStep, SharedStep

LEMMA PrivateUnchanged ==
    ASSUME NEW w, PrivateStep(w)
    PROVE  /\ UNCHANGED <<tree, clock, head, gob, saves, tmp, flock, cache, ops>>
           /\ guard' = guard \/ \E g \in {w, None} : guard' = [guard EXCEPT ![ProcOf[w]] = g]
           /\ pc' = pc \/ \E l \in Labels : pc' = [pc EXCEPT ![w] = l]
           /\ loc' = loc \/ \E l : Set(w, l)
BY Zenon DEF PrivateStep, world, store, Goto, Labels, IdentityStat, CacheServe, CacheMiss, LoadGuard, Decoding, LoadError, LoadIndex, LoadForIngest, RestatIdentity, WarmHit, WarmMiss, WarmVisit, WalkVisit, WalkEnd, IgnoresFail, Leave, StatGone, StatHit, StatMiss, ReadGone, ReadFile, ScanEnd, ToSave, IngestStat, IngestGone, IngestSkip, IngestRead, Return

LEMMA WorkerType ==
    ASSUME TypeOK, PrevLoaded, NEW w \in Workers,
           Step(w) \/ IgnoresFail(w) \/ SaveFails(w)
    PROVE  TypeOK'
<1>1. loc' \in [Workers -> Locals]
  BY LocalsType
<1>2. CASE PrivateStep(w)
  <2>1. pc' \in [Workers -> Labels]
    BY <1>2, PrivateUnchanged DEF TypeOK
  <2>2. guard' \in [Procs -> Workers \cup {None}]
    BY <1>2, PrivateUnchanged, ConstantsAssumption DEF TypeOK
  <2> QED
    BY <1>1, <1>2, <2>1, <2>2, PrivateUnchanged DEF TypeOK
<1>3. CASE CachePut(w)
  <2>1. [id |-> loc[w].sid, snap |-> loc[w].prev] \in [id : Nat, snap : Gob]
    BY <1>3 DEF CachePut, PrevLoaded, TypeOK, Locals
  <2> QED
    BY <1>1, <1>3, <2>1, ConstantsAssumption, Zenon DEF CachePut, TypeOK, Goto, Labels, world
<1>4. CASE LockGuard(w)
  BY <1>1, <1>4, ConstantsAssumption, Zenon DEF LockGuard, TypeOK, Goto, Labels, world
<1>5. CASE LockFile(w)
  BY <1>1, <1>5 DEF LockFile, TypeOK, Goto, Labels, world
<1>6. CASE CreateTmp(w)
  <2>1. loc[w].acc \in Index
    BY DEF TypeOK, Locals
  <2> QED
    BY <1>1, <1>6, <2>1 DEF CreateTmp, TypeOK, Draft, Goto, Labels, world
<1>7. CASE EncodeTmp(w)
  BY <1>1, <1>7, Zenon DEF EncodeTmp, TypeOK, Draft, Goto, Labels, world
<1>8. CASE RenameTmp(w)
  <2>1. gob' \in Gob
    <3>1. tmp \in Draft /\ saves \in Nat
      BY <1>8 DEF RenameTmp, TypeOK
    <3>2. gob' = [id |-> saves + 1, idx |-> tmp.idx, head |-> tmp.head, full |-> tmp.full]
      BY <1>8 DEF RenameTmp
    <3>3. saves + 1 \in Nat
      BY ONLY <3>1
    <3>4. tmp.idx \in Index /\ tmp.head \in Nat /\ tmp.full \in BOOLEAN
      BY ONLY <3>1 DEF Draft
    <3> QED
      BY ONLY <3>2, <3>3, <3>4, Zenon DEF Gob
  <2> QED
    BY <1>1, <1>8, <2>1 DEF RenameTmp, TypeOK, Goto, Labels, world
<1>9. CASE SaveFails(w)
  BY <1>1, <1>9 DEF SaveFails, TypeOK, Goto, Labels, world
<1>10. CASE Unlock(w)
  BY <1>1, <1>10, ConstantsAssumption, Zenon DEF Unlock, TypeOK, Goto, Labels, world
<1>11. CASE Invalidate(w)
  BY <1>1, <1>11, ConstantsAssumption, Zenon DEF Invalidate, TypeOK, Goto, Labels, world
<1>12. CASE InvalidateFailed(w)
  BY <1>1, <1>12, ConstantsAssumption, Zenon DEF InvalidateFailed, Leave, TypeOK, Goto, Labels, world
<1> QED
  BY <1>2, <1>3, <1>4, <1>5, <1>6, <1>7, <1>8, <1>9, <1>10, <1>11, <1>12,
     StepKinds DEF SharedStep

\* A step of a worker leaves the other workers alone.
LEMMA OthersUnchanged ==
    ASSUME TypeOK, NEW w \in Workers, Step(w) \/ IgnoresFail(w) \/ SaveFails(w),
           NEW v \in Workers, v # w
    PROVE  pc'[v] = pc[v] /\ loc'[v] = loc[v]
<1>1. pc' = pc \/ \E l : pc' = [pc EXCEPT ![w] = l]
  <2>1. CASE PrivateStep(w)
    BY <2>1, PrivateUnchanged
  <2> QED
    BY <2>1, StepKinds, Zenon DEF SharedStep, CachePut, LockGuard, LockFile, CreateTmp,
       EncodeTmp, RenameTmp, SaveFails, Unlock, Invalidate, InvalidateFailed,
       Leave, Goto
<1>2. loc' = loc \/ \E l : Set(w, l)
  <2>1. CASE PrivateStep(w)
    BY <2>1, PrivateUnchanged
  <2> QED
    BY <2>1, StepKinds, Zenon DEF SharedStep, CachePut, LockGuard, LockFile, CreateTmp,
       EncodeTmp, RenameTmp, SaveFails, Unlock, Invalidate, InvalidateFailed, Leave
<1> QED
  BY <1>1, <1>2 DEF TypeOK, Set

\* Only CacheServe, LoadIndex and RestatIdentity lead a request past its Load.
LEMMA WorkerPrevLoaded ==
    ASSUME TypeOK, PrevLoaded, NEW w \in Workers,
           Step(w) \/ IgnoresFail(w) \/ SaveFails(w)
    PROVE  PrevLoaded'
<1>1. ASSUME NEW v \in Workers, v # w
      PROVE  pc'[v] = pc[v] /\ loc'[v] = loc[v]
  BY <1>1, OthersUnchanged
<1>2. pc'[w] \in {"restat", "cachePut", "warm"} => loc'[w].prev \in Gob
  <2>1. CASE CacheServe(w)
    <3>1. cache[ProcOf[w]].snap \in Gob
      BY <2>1, ConstantsAssumption DEF CacheServe, CacheHit, TypeOK
    <3> QED
      BY <2>1, <3>1 DEF CacheServe, Set, TypeOK, Locals
  <2>2. CASE LoadIndex(w)
    BY <2>2 DEF LoadIndex, Decodes, Set, TypeOK, Locals
  <2>3. CASE RestatIdentity(w) \/ CachePut(w)
    BY <2>3 DEF RestatIdentity, CachePut, Goto, PrevLoaded, TypeOK
  <2>4. ASSUME NEW f \in Files, WarmVisit(w, f)
        PROVE  loc'[w].prev \in Gob
    BY <2>4 DEF WarmVisit, PrevLoaded, Set, TypeOK, Locals
  <2> QED
    <3> DEFINE away == pc'[w] \notin {"restat", "cachePut", "warm"}
    <3>1. ASSUME \/ IdentityStat(w) \/ CacheMiss(w) \/ LoadGuard(w) \/ LoadError(w)
                 \/ LoadForIngest(w) \/ WarmHit(w) \/ WarmMiss(w) \/ WalkEnd(w)
          PROVE  away
      BY <3>1 DEF IdentityStat, CacheMiss, LoadGuard, LoadError, LoadForIngest, WarmHit, WarmMiss,
         WalkEnd, Goto, TypeOK
    <3>2. ASSUME IgnoresFail(w) \/ ScanEnd(w) \/ Return(w)
          PROVE  away
      BY <3>2 DEF IgnoresFail, Leave, ScanEnd, ToSave, Return, Goto, TypeOK
    <3>3. ASSUME NEW f \in Files,
                 \/ WalkVisit(w, f) \/ StatGone(w, f) \/ StatHit(w, f) \/ StatMiss(w, f)
                 \/ ReadGone(w, f) \/ ReadFile(w, f)
          PROVE  away
      BY <3>3 DEF WalkVisit, Scanning, StatGone, StatHit, StatMiss, ReadGone, ReadFile
    <3>4. ASSUME NEW f \in Files,
                 \/ IngestStat(w, f) \/ IngestGone(w, f) \/ IngestSkip(w, f) \/ IngestRead(w, f)
          PROVE  away
      BY <3>4 DEF IngestStat, IngestGone, IngestSkip, IngestRead, Goto, TypeOK
    <3>5. ASSUME \/ LockGuard(w) \/ LockFile(w) \/ CreateTmp(w) \/ EncodeTmp(w) \/ RenameTmp(w)
                 \/ SaveFails(w) \/ Unlock(w) \/ Invalidate(w) \/ InvalidateFailed(w)
          PROVE  away
      BY <3>5 DEF LockGuard, LockFile, CreateTmp, EncodeTmp, RenameTmp, SaveFails, Unlock,
         Invalidate, InvalidateFailed, Leave, Goto, TypeOK
    <3>6. PrivateStep(w) \/ SharedStep(w)
      BY StepKinds
    <3> HIDE DEF away
    <3>7. (\E f \in Files : WarmVisit(w, f)) \/ CacheServe(w) \/ LoadIndex(w)
          \/ RestatIdentity(w) \/ CachePut(w) \/ away
      BY ONLY <3>1, <3>2, <3>3, <3>4, <3>5, <3>6, Zenon DEF PrivateStep, SharedStep
    <3> QED
      BY <2>1, <2>2, <2>3, <2>4, <3>7 DEF away
<1> QED
  BY <1>1, <1>2 DEF PrevLoaded

LEMMA ChangeType ==
    ASSUME TypeOK, NEW f \in Files, NEW e \in Entry \cup {None}, Change(f, e)
    PROVE  loc' \in [Workers -> Locals] /\ tree' \in [Files -> Entry \cup {None}]
<1>1. BodyOf(e) \in Bodies \cup {None}
  BY DEF BodyOf, Entry
<1>2. \A l \in Locals : [l EXCEPT !.seen[f] = @ \cup {BodyOf(e)}, !.quiet = FALSE] \in Locals
  BY <1>1 DEF Locals
<1> QED
  BY <1>2, Zenon DEF Change, TypeOK

LEMMA TypeInit == Init => TypeOK /\ PrevLoaded
BY InitType DEF Init, PrevLoaded

LEMMA TypeStep == TypeOK /\ PrevLoaded /\ [Next]_vars => TypeOK' /\ PrevLoaded'
<1> SUFFICES ASSUME TypeOK, PrevLoaded, [Next]_vars
             PROVE  TypeOK' /\ PrevLoaded'
  OBVIOUS
<1>1. ASSUME NEW f \in Files, NEW b \in Bodies, Edit(f, b)
      PROVE  TypeOK' /\ PrevLoaded'
  <2>1. Crawled([size |-> SizeOf(b), mtime |-> clock + 1], b) \in Entry
    BY CrawledType, NewStampType DEF TypeOK
  <2>2. loc' \in [Workers -> Locals] /\ tree' \in [Files -> Entry \cup {None}]
    BY <1>1, <2>1, ChangeType DEF Edit
  <2>3. TypeOK'
    <3>1. clock' \in Nat
      <4>1. clock' = clock + 1
        BY <1>1 DEF Edit
      <4>2. clock \in Nat
        BY DEF TypeOK
      <4> QED
        BY ONLY <4>1, <4>2
    <3>2. UNCHANGED <<head, gob, saves, tmp, flock, guard, cache, ops, pc>>
      BY <1>1, Zenon DEF Edit, Change, store
    <3> QED
      BY <2>2, <3>1, <3>2 DEF TypeOK
  <2>4. PrevLoaded'
    <3> DEFINE e == Crawled([size |-> SizeOf(b), mtime |-> clock + 1], b)
    <3>1. Change(f, e)
      BY <1>1 DEF Edit
    <3> HIDE DEF e
    <3> QED
      BY <3>1, ChangePrev
  <2> QED
    BY <2>3, <2>4
<1>2. ASSUME NEW f \in Files, Delete(f)
      PROVE  TypeOK' /\ PrevLoaded'
  <2>1. loc' \in [Workers -> Locals] /\ tree' \in [Files -> Entry \cup {None}]
    BY <1>2, ChangeType DEF Delete
  <2>2. TypeOK'
    BY <1>2, <2>1, Zenon DEF Delete, Change, TypeOK, store
  <2>3. PrevLoaded'
    BY <1>2, ChangePrev DEF Delete
  <2> QED
    BY <2>2, <2>3
<1>3. CASE GitCommit
  BY <1>3 DEF GitCommit, TypeOK, PrevLoaded, store
<1>4. ASSUME NEW w \in Workers, NEW j \in Requests, Begin(w, j)
      PROVE  TypeOK' /\ PrevLoaded'
  <2> DEFINE s == [f \in Files |-> {BodyOf(tree[f])}]
  <2>1. s \in [Files -> SUBSET (Bodies \cup {None})]
    BY DEF TypeOK, BodyOf, Entry
  <2>2. Fresh(j, s) \in Locals
    BY <2>1, FreshType DEF Jobs
  <2>3. loc' \in [Workers -> Locals]
    BY <1>4, <2>2 DEF Begin, Set, TypeOK
  <2>4. pc' \in [Workers -> Labels] /\ pc'[w] \in {"identity", "walk", "load"}
    BY <1>4 DEF Begin, Goto, Requests, TypeOK, Labels
  <2>5. TypeOK'
    BY <1>4, <2>3, <2>4 DEF Begin, TypeOK, world, store
  <2>6. PrevLoaded'
    BY <1>4, <2>4, Zenon DEF Begin, Goto, Set, PrevLoaded, TypeOK
  <2> QED
    BY <2>5, <2>6
<1>5. ASSUME NEW w \in Workers, Step(w) \/ IgnoresFail(w) \/ SaveFails(w)
      PROVE  TypeOK' /\ PrevLoaded'
  BY <1>5, WorkerType, WorkerPrevLoaded
<1>6. ASSUME NEW p \in Procs, Crash(p)
      PROVE  TypeOK' /\ PrevLoaded'
  <2>1. loc' \in [Workers -> Locals]
    BY <1>6, GoneType DEF Crash, TypeOK
  <2>2. TypeOK'
    BY <1>6, <2>1 DEF Crash, TypeOK, Labels, world
  <2>3. PrevLoaded'
    BY <1>6 DEF Crash, PrevLoaded, TypeOK
  <2> QED
    BY <2>2, <2>3
<1>7. CASE UNCHANGED vars
  BY <1>7 DEF vars, world, store, TypeOK, PrevLoaded
<1> QED
  BY <1>1, <1>2, <1>3, <1>4, <1>5, <1>6, <1>7 DEF Next

\* Every variable of the index keeps its type, and a request past its Load
\* holds a decoded index: the warm path and the cache never use a nil one.
THEOREM TypeCorrect == Spec => [](TypeOK /\ PrevLoaded)
BY TypeInit, TypeStep, PTL DEF Spec

-----------------------------------------------------------------------------
(* Stamps are sound.                                                       *)

\* An edit or a deletion of one path keeps every entry made before it good:
\* no entry carries the new stamp yet.
LEMMA EntriesOutliveChange ==
    ASSUME NEW t \in [Files -> Entry \cup {None}], NEW c \in Nat,
           NEW f \in Files, NEW e \in Entry \cup {None}, NEW d \in Nat, c <= d,
           e # None => e.stamp.mtime > c
    PROVE  /\ \A i \in Index : GoodIndex(t, c, i) => GoodIndex([t EXCEPT ![f] = e], d, i)
           /\ \A l \in Locals : GoodLocals(t, c, l) => GoodLocals([t EXCEPT ![f] = e], d, l)
<1>1. ASSUME NEW g \in Files, NEW x \in Entry, GoodEntry(t, c, g, x)
      PROVE  GoodEntry([t EXCEPT ![f] = e], d, g, x)
  <2>1. x.stamp.mtime \in Nat
    BY DEF Entry, Stamp
  <2>2. CASE x # None
    <3>1. x.stamp.mtime <= c /\ x.stamp.mtime <= d
      BY <1>1, <2>1, <2>2 DEF GoodEntry
    <3>2. CASE g = f
      <4>1. e # None => e.stamp.mtime \in Nat
        BY DEF Entry, Stamp
      <4>2. e # None => x.stamp # e.stamp
        BY <2>1, <3>1, <4>1
      <4> QED
        BY <3>1, <3>2, <4>2 DEF GoodEntry
    <3>3. CASE g # f
      BY <1>1, <3>1, <3>3 DEF GoodEntry
    <3> QED
      BY <3>2, <3>3
  <2> QED
    BY <2>2 DEF GoodEntry
<1>2. ASSUME NEW i \in Index, GoodIndex(t, c, i)
      PROVE  GoodIndex([t EXCEPT ![f] = e], d, i)
  <2> SUFFICES ASSUME NEW g \in Files PROVE GoodEntry([t EXCEPT ![f] = e], d, g, i[g])
    BY Zenon DEF GoodIndex
  <2>1. CASE i[g] = None
    BY <2>1 DEF GoodEntry
  <2>2. CASE i[g] \in Entry
    BY <1>1, <1>2, <2>2, Zenon DEF GoodIndex
  <2> QED
    BY <2>1, <2>2 DEF Index
<1>3. ASSUME NEW l \in Locals, GoodLocals(t, c, l)
      PROVE  GoodLocals([t EXCEPT ![f] = e], d, l)
  <2>1. GoodIndex([t EXCEPT ![f] = e], d, l.acc)
    BY <1>2, <1>3, Zenon DEF GoodLocals, Locals
  <2>2. l.prev # None => GoodIndex([t EXCEPT ![f] = e], d, l.prev.idx)
    BY <1>2, <1>3, Zenon DEF GoodLocals, Locals, Gob
  <2>3. \A g \in Files : l.stat[g] # None => l.stat[g].mtime <= d
    BY <1>3 DEF GoodLocals, Locals, Stamp
  <2> QED
    BY <2>1, <2>2, <2>3 DEF GoodLocals
<1> QED
  BY <1>2, <1>3, Zenon

\* An entry read after its stat is good, whatever happened in between.
LEMMA ReadIsGood ==
    ASSUME NEW t \in [Files -> Entry \cup {None}], NEW c \in Nat, NEW f \in Files,
           t[f] # None, NEW s \in Stamp, s.mtime <= c
    PROVE  GoodEntry(t, c, f, Crawled(s, t[f].body))
BY DEF GoodEntry, Crawled

\* So is an entry reused because its stamp is the stamp of the file.
LEMMA ReuseIsGood ==
    ASSUME NEW t \in [Files -> Entry \cup {None}], NEW c \in Nat, NEW f \in Files,
           t[f] # None, NEW e \in Entry, e # None, GoodEntry(t, c, f, e),
           StampEqual(e.stamp, t[f].stamp)
    PROVE  GoodEntry(t, c, f, Crawled(t[f].stamp, e.body)) /\ e.body = t[f].body
<1>1. e.stamp = t[f].stamp
  BY DEF StampEqual, Entry, Stamp
<1> QED
  BY <1>1 DEF GoodEntry, Crawled

LEMMA FreshIsGood ==
    ASSUME NEW t, NEW c, NEW j, NEW b
    PROVE  GoodLocals(t, c, Fresh(j, b))
BY DEF Fresh, GoodLocals, GoodIndex, GoodEntry, EmptyIndex

\* Every step of a worker leaves it with good entries only.
LEMMA WorkerSound ==
    ASSUME TypeOK, PrevLoaded, SoundInv, NEW w \in Workers, PrivateStep(w) \/ SharedStep(w)
    PROVE  GoodLocals(tree, clock, loc'[w])
<1> DEFINE G(l) == GoodLocals(tree, clock, l)
<1>0. loc[w] \in Locals /\ G(loc[w]) /\ loc \in [Workers -> Locals]
  BY DEF TypeOK, SoundInv
<1>1. CASE IdentityStat(w)
  BY <1>0, <1>1 DEF IdentityStat, Set, Locals, GoodLocals
<1>2. CASE CacheServe(w)
  <2>1. cache[ProcOf[w]].snap \in Gob /\ GoodIndex(tree, clock, cache[ProcOf[w]].snap.idx)
    BY <1>2, ConstantsAssumption DEF CacheServe, CacheHit, TypeOK, SoundInv
  <2> QED
    BY <1>0, <1>2, <2>1 DEF CacheServe, Set, Locals, GoodLocals
<1>3. CASE LoadError(w) \/ Invalidate(w)
  <2>1. CASE LoadError(w)
    BY <1>0, <2>1 DEF LoadError, Set, Locals, GoodLocals
  <2>2. CASE Invalidate(w)
    BY <1>0, <2>2 DEF Invalidate, Set, Locals, GoodLocals
  <2> QED
    BY <1>3, <2>1, <2>2
<1>4. CASE LoadIndex(w)
  BY <1>0, <1>4 DEF LoadIndex, Decodes, SoundInv, Set, Locals, GoodLocals
<1>5. CASE LoadForIngest(w)
  BY <1>0, <1>5 DEF LoadForIngest, Decodes, SoundInv, Set, Locals, GoodLocals
<1>6. CASE WarmHit(w)
  <2>1. GoodIndex(tree, clock, loc[w].prev.idx)
    <3>1. CASE loc[w].prev # None
      BY <1>0, <3>1 DEF GoodLocals
    <3>2. CASE loc[w].prev = None
      BY <1>6, <3>2, NoneIsNoGob DEF WarmHit, PrevLoaded
    <3> QED
      BY <3>1, <3>2
  <2> QED
    BY <1>0, <1>6, <2>1 DEF WarmHit, Set, Locals, GoodLocals
<1>7. CASE WarmMiss(w) \/ WalkEnd(w)
  <2>1. CASE WarmMiss(w)
    BY <1>0, <2>1 DEF WarmMiss, Set, Locals, GoodLocals
  <2>2. CASE WalkEnd(w)
    BY <1>0, <2>2 DEF WalkEnd, Set, Locals, GoodLocals
  <2> QED
    BY <1>7, <2>1, <2>2
<1>8. CASE IgnoresFail(w) \/ Return(w) \/ InvalidateFailed(w)
  <2>1. loc'[w] = Gone \/ loc'[w] = loc[w]
    BY <1>0, <1>8 DEF IgnoresFail, Return, InvalidateFailed, Leave, Set
  <2> QED
    BY <1>0, <2>1, FreshIsGood DEF Gone
<1>9. CASE ScanEnd(w)
  <2>1. CASE ToSave(w)
    BY <1>0, <2>1 DEF ToSave, Set, Fresh, Locals, GoodLocals
  <2> QED
    BY <1>0, <1>9, <2>1 DEF ScanEnd
<1>10. ASSUME NEW f \in Files,
              WarmVisit(w, f) \/ WalkVisit(w, f) \/ StatGone(w, f)
       PROVE  G(loc'[w])
  <2>1. CASE WarmVisit(w, f)
    BY <1>0, <2>1 DEF WarmVisit, Set, Locals, GoodLocals
  <2>2. CASE WalkVisit(w, f)
    BY <1>0, <2>2 DEF WalkVisit, Set, Locals, GoodLocals
  <2>3. CASE StatGone(w, f)
    BY <1>0, <2>3 DEF StatGone, Set, Locals, GoodLocals
  <2> QED
    BY <1>10, <2>1, <2>2, <2>3
<1>11. ASSUME NEW f \in Files, ReadGone(w, f) \/ IngestSkip(w, f)
       PROVE  G(loc'[w])
  <2>1. CASE ReadGone(w, f)
    BY <1>0, <2>1 DEF ReadGone, Set, Locals, GoodLocals
  <2>2. CASE IngestSkip(w, f)
    BY <1>0, <2>2 DEF IngestSkip, Set, Locals, GoodLocals
  <2> QED
    BY <1>11, <2>1, <2>2
<1>12. ASSUME NEW f \in Files, IngestGone(w, f)
       PROVE  G(loc'[w])
  BY <1>0, <1>12 DEF IngestGone, Set, Locals, GoodLocals, GoodIndex, GoodEntry, Index
<1>13. ASSUME NEW f \in Files, StatMiss(w, f) \/ IngestStat(w, f)
       PROVE  G(loc'[w])
  <2>1. tree[f] # None /\ tree[f].stamp.mtime <= clock
    BY <1>13 DEF StatMiss, StatOK, IngestStat, indexableFile, SoundInv
  <2> QED
    <3>1. CASE StatMiss(w, f)
      BY <1>0, <2>1, <3>1 DEF StatMiss, Set, Locals, GoodLocals
    <3>2. CASE IngestStat(w, f)
      BY <1>0, <2>1, <3>2 DEF IngestStat, Set, Locals, GoodLocals
    <3> QED
      BY <1>13, <3>1, <3>2
<1>14. ASSUME NEW f \in Files, StatHit(w, f)
       PROVE  G(loc'[w])
  <2> DEFINE e == PrevEntry(w, f)
  <2>1. tree[f] # None /\ tree \in [Files -> Entry \cup {None}] /\ clock \in Nat
    BY <1>14 DEF StatHit, StatOK, indexableFile, TypeOK
  <2>2. e \in Entry /\ e # None /\ GoodEntry(tree, clock, f, e)
    BY <1>0, <1>14 DEF StatHit, StampHit, PrevEntry, Locals, Gob, Index, GoodLocals, GoodIndex
  <2>3. GoodEntry(tree, clock, f, Crawled(tree[f].stamp, e.body))
    BY <1>14, <2>1, <2>2, ReuseIsGood DEF StatHit, StampHit
  <2> QED
    BY <1>0, <1>14, <2>3 DEF StatHit, Set, Locals, GoodLocals, GoodIndex, Index
<1>15. ASSUME NEW f \in Files, ReadFile(w, f) \/ IngestRead(w, f)
       PROVE  G(loc'[w])
  <2>1. tree[f] # None /\ tree \in [Files -> Entry \cup {None}] /\ clock \in Nat
    BY <1>15 DEF ReadFile, IngestRead, TypeOK
  <2>2. loc[w].stat[f] \in Stamp /\ loc[w].stat[f].mtime <= clock
    BY <1>0, <1>15 DEF ReadFile, IngestRead, Locals, GoodLocals
  <2>3. GoodEntry(tree, clock, f, Crawled(loc[w].stat[f], tree[f].body))
    BY <2>1, <2>2, ReadIsGood
  <2> QED
    <3>1. CASE ReadFile(w, f)
      BY <1>0, <2>3, <3>1 DEF ReadFile, Set, Locals, GoodLocals, GoodIndex, Index
    <3>2. CASE IngestRead(w, f)
      BY <1>0, <2>3, <3>2 DEF IngestRead, Set, Locals, GoodLocals, GoodIndex, Index
    <3> QED
      BY <1>15, <3>1, <3>2
<1>16. CASE loc' = loc
  BY <1>0, <1>16
<1> QED
  BY <1>1, <1>2, <1>3, <1>4, <1>5, <1>6, <1>7, <1>8, <1>9, <1>10, <1>11, <1>12,
     <1>13, <1>14, <1>15, <1>16
  DEF PrivateStep, SharedStep, CacheMiss, LoadGuard, RestatIdentity, CachePut, LockGuard, LockFile,
      CreateTmp, EncodeTmp, RenameTmp, SaveFails, Unlock

LEMMA SoundInit == Init => SoundInv
<1> SUFFICES ASSUME Init PROVE SoundInv
  OBVIOUS
<1>1. \A f \in Files : tree[f] # None => tree[f].stamp.mtime <= clock
  <2> SUFFICES ASSUME NEW f \in Files, tree[f] # None PROVE tree[f].stamp.mtime <= clock
    OBVIOUS
  <2>1. PICK b \in Bodies : tree[f] = Crawled([size |-> SizeOf(b), mtime |-> 0], b)
    BY DEF Init
  <2>2. tree[f].stamp.mtime = 0
    BY ONLY <2>1 DEF Crawled
  <2>3. clock = 0
    BY DEF Init
  <2> QED
    BY ONLY <2>2, <2>3
<1>2. gob # None => GoodIndex(tree, clock, gob.idx)
  BY <1>1 DEF Init, Rebuild, GoodIndex, GoodEntry
<1>3. \A w \in Workers : GoodLocals(tree, clock, loc[w])
  BY FreshIsGood DEF Init, Gone
<1> QED
  BY <1>1, <1>2, <1>3 DEF Init, SoundInv

\* What a worker writes to the gob, the temporary file or a cache is good.
LEMMA StoreSound ==
    ASSUME TypeOK, PrevLoaded, SoundInv, NEW w \in Workers, PrivateStep(w) \/ SharedStep(w)
    PROVE  /\ tree' = tree /\ clock' = clock
           /\ gob' # None => GoodIndex(tree, clock, gob'.idx)
           /\ tmp' # None => GoodIndex(tree, clock, tmp'.idx)
           /\ \A p \in Procs : cache'[p] # None => GoodIndex(tree, clock, cache'[p].snap.idx)
<1>1. CASE PrivateStep(w)
  BY <1>1, PrivateUnchanged DEF SoundInv
<1>2. CASE CachePut(w)
  <2>1. GoodIndex(tree, clock, loc[w].prev.idx)
    BY <1>2, NoneIsNoGob DEF CachePut, PrevLoaded, SoundInv, GoodLocals
  <2> QED
    BY <1>2, <2>1, ConstantsAssumption, Zenon DEF CachePut, SoundInv, TypeOK, world
<1>3. CASE CreateTmp(w)
  <2>1. GoodIndex(tree, clock, loc[w].acc)
    BY DEF SoundInv, GoodLocals
  <2> QED
    BY <1>3, <2>1, Zenon DEF CreateTmp, SoundInv, world
<1>4. CASE EncodeTmp(w)
  <2>1. tmp' # None => tmp'.idx = tmp.idx /\ tmp # None
    BY <1>4 DEF EncodeTmp, TypeOK
  <2> QED
    BY <1>4, <2>1 DEF EncodeTmp, SoundInv, world
<1>5. CASE RenameTmp(w)
  BY <1>5 DEF RenameTmp, SoundInv, world
<1>6. CASE SaveFails(w) \/ LockGuard(w) \/ LockFile(w) \/ Unlock(w)
  BY <1>6 DEF SaveFails, LockGuard, LockFile, Unlock, SoundInv, world
<1>7. CASE Invalidate(w) \/ InvalidateFailed(w)
  BY <1>7, ConstantsAssumption DEF Invalidate, InvalidateFailed, SoundInv, TypeOK, world
<1> QED
  BY <1>1, <1>2, <1>3, <1>4, <1>5, <1>6, <1>7 DEF SharedStep

LEMMA SoundStep == TypeOK /\ PrevLoaded /\ SoundInv /\ [Next]_vars => SoundInv'
<1> SUFFICES ASSUME TypeOK, PrevLoaded, SoundInv, [Next]_vars
             PROVE  SoundInv'
  OBVIOUS
<1>1. ASSUME NEW f \in Files, NEW e \in Entry \cup {None}, Change(f, e),
             clock' \in Nat, clock <= clock',
             e # None => e.stamp.mtime > clock /\ e.stamp.mtime <= clock'
      PROVE  SoundInv'
  <2>1. tree \in [Files -> Entry \cup {None}] /\ clock \in Nat
    BY DEF TypeOK
  <2>2. tree' = [tree EXCEPT ![f] = e]
    BY <1>1 DEF Change
  <2>3. /\ \A i \in Index : GoodIndex(tree, clock, i) => GoodIndex(tree', clock', i)
        /\ \A l \in Locals : GoodLocals(tree, clock, l) => GoodLocals(tree', clock', l)
    BY <1>1, <2>1, <2>2, EntriesOutliveChange
  <2>4. \A g \in Files : tree'[g] # None => tree'[g].stamp.mtime <= clock'
    <3> SUFFICES ASSUME NEW g \in Files, tree'[g] # None PROVE tree'[g].stamp.mtime <= clock'
      OBVIOUS
    <3>1. CASE g = f
      <4>1. tree'[g] = e
        BY ONLY <2>1, <2>2, <3>1
      <4> QED
        BY ONLY <1>1, <4>1, tree'[g] # None
    <3>2. CASE g # f
      <4>1. tree'[g] = tree[g]
        BY ONLY <2>1, <2>2, <3>2, g \in Files
      <4>2. tree[g] \in Entry
        BY ONLY <2>1, <4>1, tree'[g] # None, g \in Files
      <4>3. tree[g].stamp.mtime \in Nat
        BY ONLY <4>2 DEF Entry, Stamp
      <4>4. tree[g].stamp.mtime <= clock
        BY <4>1 DEF SoundInv
      <4> QED
        BY ONLY <1>1, <2>1, <4>1, <4>3, <4>4
    <3> QED
      BY ONLY <3>1, <3>2
  <2>5. gob' # None => GoodIndex(tree', clock', gob'.idx)
    BY <1>1, <2>3 DEF Change, store, SoundInv, TypeOK, Gob
  <2>6. tmp' # None => GoodIndex(tree', clock', tmp'.idx)
    BY <1>1, <2>3 DEF Change, store, SoundInv, TypeOK, Draft
  <2>7. \A p \in Procs : cache'[p] # None => GoodIndex(tree', clock', cache'[p].snap.idx)
    BY <1>1, <2>3 DEF Change, store, SoundInv, TypeOK, Gob
  <2>8. \A w \in Workers : GoodLocals(tree', clock', loc'[w])
    <3> SUFFICES ASSUME NEW w \in Workers PROVE GoodLocals(tree', clock', loc'[w])
      OBVIOUS
    <3>1. GoodLocals(tree', clock', loc[w]) /\ loc[w] \in Locals
      BY <2>3 DEF SoundInv, TypeOK
    <3>2. loc'[w].acc = loc[w].acc /\ loc'[w].prev = loc[w].prev /\ loc'[w].stat = loc[w].stat
      BY <1>1, <3>1, Zenon DEF Change, Locals
    <3> QED
      BY <3>1, <3>2, Zenon DEF GoodLocals
  <2> QED
    BY <2>4, <2>5, <2>6, <2>7, <2>8 DEF SoundInv
<1>2. ASSUME NEW f \in Files, NEW b \in Bodies, Edit(f, b)
      PROVE  SoundInv'
  <2> DEFINE e == Crawled([size |-> SizeOf(b), mtime |-> clock + 1], b)
  <2>1. clock \in Nat /\ clock' = clock + 1
    BY <1>2 DEF Edit, TypeOK
  <2>2. e \in Entry /\ e.stamp.mtime = clock + 1
    BY <2>1, NewStampType, CrawledType
  <2>3. Change(f, e)
    BY <1>2 DEF Edit
  <2> HIDE DEF e
  <2> QED
    BY <1>1, <2>1, <2>2, <2>3
<1>3. ASSUME NEW f \in Files, Delete(f)
      PROVE  SoundInv'
  <2>1. Change(f, None) /\ clock' = clock
    BY <1>3 DEF Delete
  <2>2. clock \in Nat
    BY DEF TypeOK
  <2> QED
    BY <1>1, <2>1, <2>2
<1>4. CASE GitCommit
  BY <1>4 DEF GitCommit, SoundInv, store
<1>5. ASSUME NEW w \in Workers, NEW j \in Requests, Begin(w, j)
      PROVE  SoundInv'
  <2>1. \A v \in Workers : GoodLocals(tree, clock, loc'[v])
    BY <1>5, FreshIsGood DEF Begin, Set, SoundInv, TypeOK
  <2> QED
    BY <1>5, <2>1 DEF Begin, SoundInv, world, store
<1>6. ASSUME NEW w \in Workers, Step(w) \/ IgnoresFail(w) \/ SaveFails(w)
      PROVE  SoundInv'
  <2>1. PrivateStep(w) \/ SharedStep(w)
    BY <1>6, StepKinds
  <2>2. GoodLocals(tree, clock, loc'[w])
    BY <2>1, WorkerSound
  <2>3. \A v \in Workers : GoodLocals(tree, clock, loc'[v])
    BY <1>6, <2>2, OthersUnchanged DEF SoundInv
  <2> QED
    BY <2>1, <2>3, StoreSound, Zenon DEF SoundInv
<1>7. ASSUME NEW p \in Procs, Crash(p)
      PROVE  SoundInv'
  <2>1. GoodLocals(tree, clock, Gone)
    BY FreshIsGood DEF Gone
  <2> QED
    BY <1>7, <2>1, Zenon DEF Crash, SoundInv, TypeOK, world
<1>8. CASE UNCHANGED vars
  BY <1>8 DEF vars, world, store, SoundInv
<1> QED
  BY <1>2, <1>3, <1>4, <1>5, <1>6, <1>7, <1>8 DEF Next

\* In the gob and in every cache an entry with a file's current stamp has the
\* file's current body, for any number of editors, workers and processes: the
\* fast paths that trust a stamp never reuse a stale entry.
THEOREM StampSoundness == Spec => []StampSound
<1>1. SoundInv => StampSound
  BY Zenon DEF SoundInv, StampSound, GoodIndex, GoodEntry, SoundIndex, SoundEntry
<1> QED
  BY <1>1, TypeInit, TypeStep, SoundInit, SoundStep, PTL DEF Spec

-----------------------------------------------------------------------------
(* The cache is coherent.                                                  *)

\* What CacheInv says of one worker, given the gob and the identities so far.
CacheLocal(g, n, l, where) ==
    /\ l.sid <= n
    /\ (where \in {"restat", "cachePut"} /\ g # None /\ g.id = l.sid) => l.prev = g

LEMMA CacheInvSplit ==
    CacheInv <=>
        /\ gob # None => gob.id <= saves
        /\ \A p \in Procs :
              cache[p] # None =>
                  /\ cache[p].id <= saves
                  /\ (gob # None /\ gob.id = cache[p].id) => cache[p].snap = gob
        /\ \A w \in Workers : CacheLocal(gob, saves, loc[w], pc[w])
BY DEF CacheInv, CacheLocal

LEMMA CacheInit == Init => CacheInv
<1> SUFFICES ASSUME Init PROVE CacheInv
  OBVIOUS
<1>1. saves \in Nat /\ (gob # None => gob.id = saves)
  <2> DEFINE g == [id |-> 1, idx |-> Rebuild, head |-> 0, full |-> TRUE]
  <2>1. saves \in {0, 1} /\ gob = IF saves = 0 THEN None ELSE g
    BY Zenon DEF Init
  <2>2. g.id = 1
    BY ONLY DEF g
  <2> HIDE DEF g
  <2> QED
    BY ONLY <2>1, <2>2
<1>2. \A p \in Procs : cache[p] = None
  BY DEF Init
<1>3. \A w \in Workers : loc[w].sid = 0 /\ pc[w] = "idle"
  BY DEF Init, Gone, Fresh
<1> QED
  BY <1>1, <1>2, <1>3 DEF CacheInv

\* A private step of a worker keeps its part: the identity it holds was read
\* from the gob, and so was the index it holds once past its Load.
LEMMA PrivateCache ==
    ASSUME TypeOK, CacheInv, NEW w \in Workers, PrivateStep(w)
    PROVE  CacheLocal(gob, saves, loc'[w], pc'[w])
<1>0. loc[w] \in Locals /\ CacheLocal(gob, saves, loc[w], pc[w]) /\ saves \in Nat
  BY CacheInvSplit, Zenon DEF TypeOK
<1>1. CASE IdentityStat(w)
  <2>1. loc'[w].sid <= saves
    BY <1>0, <1>1 DEF IdentityStat, Set, TypeOK, Locals, CacheInv
  <2> QED
    BY <1>1, <2>1 DEF IdentityStat, Goto, TypeOK, CacheLocal
<1>2. CASE LoadIndex(w)
  BY <1>0, <1>2 DEF LoadIndex, Set, TypeOK, Locals, CacheLocal
<1>3. CASE IgnoresFail(w) \/ Return(w)
  <2>1. (loc'[w] = Gone /\ pc'[w] = "idle") \/ (loc'[w] = loc[w] /\ pc'[w] = "walk")
    BY <1>3, Zenon DEF IgnoresFail, Return, Leave, Set, Goto, TypeOK
  <2>2. Gone.sid = 0
    BY DEF Gone, Fresh
  <2>3. loc'[w].sid = 0 \/ loc'[w].sid = loc[w].sid
    BY <2>1, <2>2, Zenon
  <2>4. loc[w].sid <= saves /\ 0 <= saves
    <3>1. 0 <= saves
      BY ONLY <1>0
    <3>2. loc[w].sid <= saves
      BY DEF CacheInv
    <3> QED
      BY ONLY <3>1, <3>2
  <2>5. loc'[w].sid <= saves
    BY <2>3, <2>4
  <2> QED
    BY <2>1, <2>5 DEF CacheLocal
<1>4. CASE ScanEnd(w)
  <2>1. CASE ToSave(w)
    <3>1. loc'[w].sid = 0 /\ pc'[w] = "guard"
      BY <1>0, <2>1 DEF ToSave, Fresh, Set, Goto, TypeOK, Locals
    <3> QED
      BY <1>0, <3>1 DEF CacheLocal
  <2>2. CASE ~ToSave(w)
    BY <1>0, <1>4, <2>2 DEF ScanEnd, Goto, CacheLocal, TypeOK
  <2> QED
    BY <2>1, <2>2
<1>5. CASE RestatIdentity(w) \/ CacheMiss(w) \/ LoadGuard(w)
  BY <1>0, <1>5 DEF RestatIdentity, CacheMiss, LoadGuard, Goto, CacheLocal, TypeOK
<1>6. CASE \/ CacheServe(w) \/ LoadError(w) \/ LoadForIngest(w) \/ WarmHit(w)
           \/ WarmMiss(w) \/ WalkEnd(w)
  <2>1. pc'[w] \notin {"restat", "cachePut"}
    BY <1>6 DEF CacheServe, LoadError, LoadForIngest, WarmHit, WarmMiss, WalkEnd, Goto, TypeOK
  <2>2. loc'[w].sid = loc[w].sid
    <3>1. CASE CacheServe(w)
      BY <1>0, <3>1 DEF CacheServe, Set, TypeOK, Locals
    <3>2. CASE LoadError(w)
      BY <1>0, <3>2 DEF LoadError, Set, TypeOK, Locals
    <3>3. CASE LoadForIngest(w)
      BY <1>0, <3>3 DEF LoadForIngest, Set, TypeOK, Locals
    <3>4. CASE WarmHit(w)
      BY <1>0, <3>4 DEF WarmHit, Set, TypeOK, Locals
    <3>5. CASE WarmMiss(w)
      BY <1>0, <3>5 DEF WarmMiss, Set, TypeOK, Locals
    <3>6. CASE WalkEnd(w)
      BY <1>0, <3>6 DEF WalkEnd, Set, TypeOK, Locals
    <3> QED
      BY <1>6, <3>1, <3>2, <3>3, <3>4, <3>5, <3>6
  <2> QED
    BY <1>0, <2>1, <2>2 DEF CacheLocal
<1>7. ASSUME NEW f \in Files,
             \/ WarmVisit(w, f) \/ WalkVisit(w, f) \/ StatGone(w, f)
             \/ StatHit(w, f) \/ StatMiss(w, f) \/ ReadGone(w, f)
             \/ ReadFile(w, f) \/ IngestStat(w, f) \/ IngestGone(w, f)
             \/ IngestSkip(w, f) \/ IngestRead(w, f)
      PROVE  CacheLocal(gob, saves, loc'[w], pc'[w])
  <2>1. pc'[w] \notin {"restat", "cachePut"}
    BY <1>7 DEF WarmVisit, WalkVisit, Scanning, StatGone, StatHit, StatMiss, ReadGone, ReadFile,
       IngestStat, IngestGone, IngestSkip, IngestRead, Goto, TypeOK
  <2>2. loc'[w].sid = loc[w].sid
    <3>1. CASE WarmVisit(w, f)
      BY <1>0, <3>1 DEF WarmVisit, Set, TypeOK, Locals
    <3>2. CASE WalkVisit(w, f)
      BY <1>0, <3>2 DEF WalkVisit, Set, TypeOK, Locals
    <3>3. CASE StatGone(w, f)
      BY <1>0, <3>3 DEF StatGone, Set, TypeOK, Locals
    <3>4. CASE StatHit(w, f)
      BY <1>0, <3>4 DEF StatHit, Set, TypeOK, Locals
    <3>5. CASE StatMiss(w, f)
      BY <1>0, <3>5 DEF StatMiss, Set, TypeOK, Locals
    <3>6. CASE ReadGone(w, f)
      BY <1>0, <3>6 DEF ReadGone, Set, TypeOK, Locals
    <3>7. CASE ReadFile(w, f)
      BY <1>0, <3>7 DEF ReadFile, Set, TypeOK, Locals
    <3>8. CASE IngestStat(w, f)
      BY <1>0, <3>8 DEF IngestStat, Set, TypeOK, Locals
    <3>9. CASE IngestGone(w, f)
      BY <1>0, <3>9 DEF IngestGone, Set, TypeOK, Locals
    <3>10. CASE IngestSkip(w, f)
      BY <1>0, <3>10 DEF IngestSkip, Set, TypeOK, Locals
    <3>11. CASE IngestRead(w, f)
      BY <1>0, <3>11 DEF IngestRead, Set, TypeOK, Locals
    <3> QED
      BY <1>7, <3>1, <3>2, <3>3, <3>4, <3>5, <3>6, <3>7, <3>8, <3>9, <3>10, <3>11, Zenon
  <2> QED
    BY <1>0, <2>1, <2>2 DEF CacheLocal
<1> QED
  BY <1>1, <1>2, <1>3, <1>4, <1>5, <1>6, <1>7 DEF PrivateStep

LEMMA CacheStep == TypeOK /\ PrevLoaded /\ CacheInv /\ [Next]_vars => CacheInv'
<1> SUFFICES ASSUME TypeOK, PrevLoaded, CacheInv, [Next]_vars
             PROVE  CacheInv'
  OBVIOUS
<1>0. saves \in Nat /\ (gob # None => gob.id \in Nat)
  BY DEF TypeOK, Gob
<1>1. ASSUME NEW f \in Files, NEW e, Change(f, e)
      PROVE  CacheInv'
  <2>1. \A w \in Workers : loc'[w].sid = loc[w].sid /\ loc'[w].prev = loc[w].prev
    BY <1>1, ChangeKeeps
  <2> QED
    BY <1>1, <2>1, Zenon DEF Change, CacheInv, store
<1>2. CASE GitCommit
  BY <1>2, Zenon DEF GitCommit, CacheInv, store
<1>3. ASSUME NEW w \in Workers, NEW j \in Requests, Begin(w, j)
      PROVE  CacheInv'
  <2>1. loc'[w].sid = 0 /\ pc'[w] \notin {"restat", "cachePut"}
    BY <1>3 DEF Begin, Set, Goto, Fresh, Requests, TypeOK
  <2>2. \A v \in Workers : v # w => loc'[v] = loc[v] /\ pc'[v] = pc[v]
    BY <1>3 DEF Begin, Set, Goto, TypeOK
  <2> QED
    BY <1>0, <1>3, <2>1, <2>2 DEF Begin, CacheInv, store
<1>4. ASSUME NEW w \in Workers, PrivateStep(w)
      PROVE  CacheInv'
  <2>1. CacheLocal(gob, saves, loc'[w], pc'[w])
    BY <1>4, PrivateCache
  <2>2. \A v \in Workers : v # w => loc'[v] = loc[v] /\ pc'[v] = pc[v]
    BY <1>4, StepKinds, OthersUnchanged
  <2>3. UNCHANGED <<gob, saves, cache>>
    BY <1>4, PrivateUnchanged
  <2> QED
    BY <2>1, <2>2, <2>3 DEF CacheInv, CacheLocal
<1>5. ASSUME NEW w \in Workers, CachePut(w)
      PROVE  CacheInv'
  BY <1>5, ConstantsAssumption DEF CachePut, CacheInv, TypeOK, Goto
<1>6. ASSUME NEW w \in Workers,
             \/ LockGuard(w) \/ LockFile(w) \/ CreateTmp(w) \/ EncodeTmp(w)
             \/ SaveFails(w) \/ Unlock(w)
      PROVE  CacheInv'
  <2>1. pc'[w] \notin {"restat", "cachePut"}
    BY <1>6 DEF LockGuard, LockFile, CreateTmp, EncodeTmp, SaveFails, Unlock, Goto, TypeOK
  <2>2. /\ UNCHANGED <<gob, saves, cache, loc>>
        /\ \A v \in Workers : v # w => pc'[v] = pc[v]
    BY <1>6 DEF LockGuard, LockFile, CreateTmp, EncodeTmp, SaveFails, Unlock, Goto, TypeOK
  <2> QED
    BY <2>1, <2>2, Zenon DEF CacheInv
<1>7. ASSUME NEW w \in Workers, RenameTmp(w)
      PROVE  CacheInv'
  <2>1. gob'.id = saves + 1 /\ saves' = saves + 1 /\ UNCHANGED <<cache, loc>>
    BY <1>7 DEF RenameTmp
  <2>2. \A p \in Procs : cache[p] # None => cache[p].id \in Nat
    BY DEF TypeOK
  <2>3. \A v \in Workers : loc[v].sid \in Nat
    BY DEF TypeOK, Locals
  <2> QED
    <3>1. saves \in Nat /\ CacheInv
      BY <1>0 DEF TypeOK
    <3>2. ASSUME NEW p \in Procs, cache[p] # None
          PROVE  cache[p].id <= saves + 1 /\ cache[p].id # saves + 1
      <4>1. cache[p].id <= saves /\ cache[p].id \in Nat
        BY <2>2, <3>1, <3>2 DEF CacheInv
      <4> QED
        BY ONLY <3>1, <4>1
    <3>3. ASSUME NEW v \in Workers
          PROVE  loc[v].sid <= saves + 1 /\ loc[v].sid # saves + 1
      <4>1. loc[v].sid <= saves /\ loc[v].sid \in Nat
        BY <2>3, <3>1 DEF CacheInv
      <4> QED
        BY ONLY <3>1, <4>1
    <3>4. gob'.id <= saves'
      BY ONLY <2>1, <3>1
    <3> QED
      BY ONLY <2>1, <3>2, <3>3, <3>4 DEF CacheInv
<1>8. ASSUME NEW w \in Workers, Invalidate(w)
      PROVE  CacheInv'
  <2>1. loc'[w].sid = loc[w].sid /\ pc'[w] \notin {"restat", "cachePut"}
    BY <1>8 DEF Invalidate, Set, Goto, TypeOK, Locals
  <2>2. \A v \in Workers : v # w => loc'[v] = loc[v] /\ pc'[v] = pc[v]
    BY <1>8 DEF Invalidate, Set, Goto, TypeOK
  <2>3. UNCHANGED <<gob, saves>> /\ \A p \in Procs : cache'[p] = cache[p] \/ cache'[p] = None
    BY <1>8 DEF Invalidate, TypeOK
  <2> QED
    BY <2>1, <2>2, <2>3, Zenon DEF CacheInv
<1>9. ASSUME NEW w \in Workers, InvalidateFailed(w)
      PROVE  CacheInv'
  <2>1. loc'[w].sid = 0 /\ pc'[w] = "idle"
    BY <1>9, Zenon DEF InvalidateFailed, Leave, Gone, Fresh, Set, Goto, TypeOK
  <2>2. \A v \in Workers : v # w => loc'[v] = loc[v] /\ pc'[v] = pc[v]
    BY <1>9 DEF InvalidateFailed, Leave, Set, Goto, TypeOK
  <2>3. UNCHANGED <<gob, saves>> /\ \A p \in Procs : cache'[p] = cache[p] \/ cache'[p] = None
    BY <1>9 DEF InvalidateFailed, TypeOK
  <2>4. \A v \in Workers :
           /\ loc'[v].sid <= saves'
           /\ (pc'[v] \in {"restat", "cachePut"} /\ gob' # None /\ gob'.id = loc'[v].sid)
                 => loc'[v].prev = gob'
    <3> SUFFICES ASSUME NEW v \in Workers
                 PROVE  /\ loc'[v].sid <= saves'
                        /\ (pc'[v] \in {"restat", "cachePut"} /\ gob' # None /\ gob'.id = loc'[v].sid)
                              => loc'[v].prev = gob'
      OBVIOUS
    <3>1. CASE v = w
      BY <1>0, <2>1, <2>3, <3>1
    <3>2. CASE v # w
      BY <2>2, <2>3, <3>2 DEF CacheInv
    <3> QED
      BY <3>1, <3>2
  <2> QED
    BY <2>3, <2>4 DEF CacheInv
<1>10. ASSUME NEW p \in Procs, Crash(p)
       PROVE  CacheInv'
  <2>1. \A v \in Workers :
           \/ loc'[v] = loc[v] /\ pc'[v] = pc[v]
           \/ loc'[v].sid = 0 /\ pc'[v] = "idle"
    BY <1>10 DEF Crash, Gone, Fresh
  <2>2. UNCHANGED <<gob, saves>> /\ \A q \in Procs : cache'[q] = cache[q] \/ cache'[q] = None
    BY <1>10 DEF Crash, TypeOK
  <2>3. \A v \in Workers :
           /\ loc'[v].sid <= saves'
           /\ (pc'[v] \in {"restat", "cachePut"} /\ gob' # None /\ gob'.id = loc'[v].sid)
                 => loc'[v].prev = gob'
    <3> SUFFICES ASSUME NEW v \in Workers
                 PROVE  /\ loc'[v].sid <= saves'
                        /\ (pc'[v] \in {"restat", "cachePut"} /\ gob' # None /\ gob'.id = loc'[v].sid)
                              => loc'[v].prev = gob'
      OBVIOUS
    <3>1. CASE loc'[v].sid = 0 /\ pc'[v] = "idle"
      BY <1>0, <2>2, <3>1
    <3>2. CASE loc'[v] = loc[v] /\ pc'[v] = pc[v]
      BY <2>2, <3>2 DEF CacheInv
    <3> QED
      BY <2>1, <3>1, <3>2
  <2> QED
    BY <2>2, <2>3 DEF CacheInv
<1>11. CASE UNCHANGED vars
  BY <1>11 DEF vars, store, CacheInv
<1> QED
  <2>1. ASSUME NEW w \in Workers, Step(w) \/ IgnoresFail(w) \/ SaveFails(w)
        PROVE  CacheInv'
    BY <2>1, <1>4, <1>5, <1>6, <1>7, <1>8, <1>9, StepKinds DEF SharedStep
  <2>2. ASSUME NEW f \in Files, (\E b \in Bodies : Edit(f, b)) \/ Delete(f)
        PROVE  CacheInv'
    BY <2>2, <1>1 DEF Edit, Delete
  <2> QED
    BY <1>2, <1>3, <1>10, <1>11, <2>1, <2>2 DEF Next

\* No process ever holds, under the identity of the gob on disk, an index that
\* is not that gob: loadCached cannot serve a replaced index.
THEOREM CacheCoherence == Spec => []CacheCoherent
<1>1. CacheInv => CacheCoherent
  BY DEF CacheInv, CacheCoherent
<1> QED
  BY <1>1, TypeInit, TypeStep, CacheInit, CacheStep, PTL DEF Spec

-----------------------------------------------------------------------------
(* The lock file and the temporary file.                                   *)

\* The program counters between LockFile and Unlock on the success path.
Writing == {"create", "encode", "rename", "release"}

LEMMA LockInit == Init => LockInv
<1> SUFFICES ASSUME Init PROVE LockInv
  OBVIOUS
<1>1. \A w \in Workers : pc[w] = "idle"
  BY DEF Init
<1>2. gob # None => gob.full
  <2>1. gob = None \/ gob = [id |-> 1, idx |-> Rebuild, head |-> 0, full |-> TRUE]
    BY DEF Init
  <2> QED
    BY ONLY <2>1
<1> QED
  BY ONLY <1>1, <1>2 DEF LockInv

\* A step outside Save leaves the lock, the gob and the temporary file alone,
\* and moves no worker into or out of the section the lock protects.
LEMMA PrivateLock ==
    ASSUME TypeOK, NEW w \in Workers, PrivateStep(w)
    PROVE  pc'[w] \notin Writing
<1>1. ASSUME NEW f \in Files,
             \/ WarmVisit(w, f) \/ WalkVisit(w, f) \/ StatGone(w, f) \/ StatHit(w, f)
             \/ StatMiss(w, f) \/ ReadGone(w, f) \/ ReadFile(w, f)
      PROVE  pc'[w] \in {"warm", "walk", "scan"}
  BY <1>1 DEF WarmVisit, WalkVisit, StatGone, StatHit, StatMiss, ReadGone, ReadFile,
     Scanning, TypeOK
<1>2. ASSUME NEW f \in Files,
             \/ IngestStat(w, f) \/ IngestGone(w, f) \/ IngestSkip(w, f) \/ IngestRead(w, f)
      PROVE  pc'[w] \in {"ingestRead", "guard"}
  BY <1>2 DEF IngestStat, IngestGone, IngestSkip, IngestRead, Goto, TypeOK
<1>3. ASSUME \/ IdentityStat(w) \/ CacheServe(w) \/ CacheMiss(w) \/ LoadGuard(w)
             \/ LoadError(w) \/ LoadIndex(w) \/ LoadForIngest(w) \/ RestatIdentity(w)
             \/ WarmHit(w) \/ WarmMiss(w) \/ WalkEnd(w)
      PROVE  pc'[w] \notin Writing
  BY <1>3 DEF IdentityStat, CacheServe, CacheMiss, LoadGuard, LoadError, LoadIndex, LoadForIngest,
     RestatIdentity, WarmHit, WarmMiss, WalkEnd, Goto, TypeOK, Writing
<1>4. ASSUME ScanEnd(w) \/ IgnoresFail(w) \/ Return(w)
      PROVE  pc'[w] \notin Writing
  BY <1>4 DEF ScanEnd, ToSave, IgnoresFail, Return, Leave, Goto, TypeOK, Writing
<1> QED
  BY <1>1, <1>2, <1>3, <1>4 DEF PrivateStep, Writing

LEMMA LockStep == TypeOK /\ LockInv /\ [Next]_vars => LockInv'
<1> SUFFICES ASSUME TypeOK, LockInv, [Next]_vars
             PROVE  LockInv'
  OBVIOUS
<1>1. ASSUME UNCHANGED <<gob, tmp, flock, pc>>
      PROVE  LockInv'
  BY <1>1, Zenon DEF LockInv
<1>2. ASSUME NEW w \in Workers, UNCHANGED <<gob, tmp, flock>>, pc'[w] \notin Writing,
             \A v \in Workers : v # w => pc'[v] = pc[v]
      PROVE  LockInv'
  BY <1>2 DEF LockInv, Writing
<1>3. ASSUME NEW w \in Workers, NEW j \in Requests, Begin(w, j)
      PROVE  LockInv'
  <2>1. pc'[w] \notin Writing /\ \A v \in Workers : v # w => pc'[v] = pc[v]
    BY <1>3 DEF Begin, Goto, Requests, TypeOK, Writing
  <2> QED
    BY <1>2, <1>3, <2>1 DEF Begin, store
<1>4. ASSUME NEW w \in Workers, PrivateStep(w)
      PROVE  LockInv'
  <2>1. \A v \in Workers : v # w => pc'[v] = pc[v]
    BY <1>4, StepKinds, OthersUnchanged
  <2> QED
    BY <1>2, <1>4, <2>1, PrivateLock, PrivateUnchanged
<1>5. ASSUME NEW w \in Workers, CachePut(w) \/ LockGuard(w) \/ Invalidate(w) \/ InvalidateFailed(w)
      PROVE  LockInv'
  <2>1. pc'[w] \notin Writing /\ \A v \in Workers : v # w => pc'[v] = pc[v]
    BY <1>5 DEF CachePut, LockGuard, Invalidate, InvalidateFailed, Leave, Goto, TypeOK, Writing
  <2> QED
    BY <1>2, <1>5, <2>1 DEF CachePut, LockGuard, Invalidate, InvalidateFailed
<1>6. ASSUME NEW w \in Workers, LockFile(w)
      PROVE  LockInv'
  BY <1>6, ConstantsAssumption DEF LockFile, LockInv, Goto, TypeOK
<1>7. ASSUME NEW w \in Workers, CreateTmp(w)
      PROVE  LockInv'
  <2>1. tmp' \in Draft /\ tmp'.by = w
    BY <1>7, Zenon DEF CreateTmp, Draft, TypeOK, Locals
  <2> QED
    BY <1>7, <2>1, NoneAssumption, ConstantsAssumption DEF CreateTmp, LockInv, Goto, TypeOK
<1>8. ASSUME NEW w \in Workers, EncodeTmp(w)
      PROVE  LockInv'
  <2>1. tmp # None /\ tmp.by = w /\ tmp' = [tmp EXCEPT !.full = TRUE]
    BY <1>8 DEF EncodeTmp, LockInv
  <2>2. tmp \in Draft
    BY <2>1 DEF TypeOK
  <2>3. tmp' \in Draft /\ tmp'.by = w /\ tmp'.full
    BY <2>1, <2>2, Zenon DEF Draft
  <2> QED
    BY <1>8, <2>3, NoneAssumption, ConstantsAssumption, Zenon DEF EncodeTmp, LockInv, Goto, TypeOK
<1>9. ASSUME NEW w \in Workers, RenameTmp(w)
      PROVE  LockInv'
  <2>1. gob'.full
    BY <1>9 DEF RenameTmp, LockInv
  <2> QED
    BY <1>9, <2>1, ConstantsAssumption DEF RenameTmp, LockInv, Goto, TypeOK
<1>10. ASSUME NEW w \in Workers, SaveFails(w) \/ Unlock(w)
       PROVE  LockInv'
  <2>1. gob' = gob /\ \A v \in Workers : v # w => pc'[v] = pc[v]
    BY <1>10 DEF SaveFails, Unlock, Goto, TypeOK
  <2>2. pc'[w] \in {"abort", "invalidate", "abortInvalidate"}
    BY <1>10 DEF SaveFails, Unlock, Goto, TypeOK
  <2>3. CASE SaveFails(w)
    <3>1. flock' = flock /\ (tmp' = tmp \/ flock = w)
      BY <2>3 DEF SaveFails, LockInv
    <3> QED
      BY <2>1, <2>2, <3>1 DEF LockInv
  <2>4. CASE Unlock(w)
    <3>1. tmp' = tmp /\ (flock' = flock \/ flock = w)
      BY <2>4 DEF Unlock
    <3> QED
      BY <2>1, <2>2, <3>1 DEF LockInv
  <2> QED
    BY <1>10, <2>3, <2>4
<1>11. ASSUME NEW p \in Procs, Crash(p)
       PROVE  LockInv'
  <2>1. \A v \in Workers : pc'[v] \in Writing => pc'[v] = pc[v] /\ ProcOf[v] # p
    BY <1>11, Zenon DEF Crash, Writing
  <2> QED
    BY <1>11, <2>1, ConstantsAssumption DEF Crash, LockInv, TypeOK, Writing
<1> QED
  <2>1. ASSUME NEW w \in Workers, Step(w) \/ IgnoresFail(w) \/ SaveFails(w)
        PROVE  LockInv'
    BY <2>1, <1>4, <1>5, <1>6, <1>7, <1>8, <1>9, <1>10, StepKinds DEF SharedStep
  <2>2. ASSUME NEW f \in Files, (\E b \in Bodies : Edit(f, b)) \/ Delete(f)
        PROVE  LockInv'
    BY <2>2, <1>1, Zenon DEF Edit, Delete, Change, store
  <2>3. CASE GitCommit \/ UNCHANGED vars
    BY <2>3, <1>1 DEF GitCommit, vars, store
  <2> QED
    BY <1>3, <1>11, <2>1, <2>2, <2>3 DEF Next

\* The index path never holds a partial gob, whichever writers race, whatever
\* call of Save fails and whenever a process dies: the durability contract in
\* Save's comment.
THEOREM GobIntegrity == Spec => []GobComplete
<1>1. LockInv => GobComplete
  BY DEF LockInv, GobComplete
<1> QED
  BY <1>1, TypeInit, TypeStep, LockInit, LockStep, PTL DEF Spec

-----------------------------------------------------------------------------
(* What a refresh returns is current.                                      *)

LEMMA BodyIn ==
    ASSUME TypeOK, NEW f \in Files, tree[f] # None
    PROVE  tree[f] \in Entry /\ BodyOf(tree[f]) = tree[f].body
BY DEF TypeOK, BodyOf

LEMMA SameStamp ==
    ASSUME NEW a \in Stamp, NEW b \in Stamp, StampEqual(a, b)
    PROVE  a = b
BY DEF StampEqual, Stamp

\* An entry of the loaded index whose stamp is the file's has the file's body.
LEMMA PrevEntryCurrent ==
    ASSUME TypeOK, SoundInv, NEW w \in Workers, NEW f \in Files, tree[f] # None,
           loc[w].prev \in Gob, loc[w].prev.idx[f] # None,
           StampEqual(loc[w].prev.idx[f].stamp, tree[f].stamp)
    PROVE  /\ loc[w].prev.idx[f] \in Entry
           /\ loc[w].prev.idx[f].body = tree[f].body
           /\ loc[w].prev.idx[f].stamp = tree[f].stamp
           /\ loc[w].prev.idx[f] = tree[f]
<1> DEFINE e == loc[w].prev.idx[f]
<1>1. e \in Entry /\ tree[f] \in Entry
  BY BodyIn DEF Gob, Index
<1>2. e.stamp = tree[f].stamp
  BY <1>1, SameStamp DEF Entry
<1>3. GoodIndex(tree, clock, loc[w].prev.idx)
  BY NoneIsNoGob DEF SoundInv, GoodLocals
<1>4. e.body = tree[f].body
  BY <1>2, <1>3 DEF GoodIndex, GoodEntry
<1>5. e = tree[f]
  <2> HIDE DEF e
  <2> QED
    BY ONLY <1>1, <1>2, <1>4 DEF Entry
<1> QED
  BY <1>1, <1>2, <1>4, <1>5

\* An index of a request gets an entry whose body the file has had since it began.
LEMMA ServedFill ==
    ASSUME NEW t, NEW l \in Locals, NEW m, NEW f \in Files, NEW c, NEW a, NEW b, ServedAt(t, l, a),
           a \in {"scan", "ingestRead"}, b \in {"scan", "guard"}, c.body \in l.seen[f],
           m.acc = [l.acc EXCEPT ![f] = c], m.seen = l.seen, m.job = l.job
    PROVE  ServedAt(t, m, b)
<1>1. l.acc \in [Files -> Entry \cup {None}]
  BY DEF Locals, Index
<1>2. \A g \in Files : m.acc[g] = IF g = f THEN c ELSE l.acc[g]
  BY <1>1
<1> QED
  BY <1>2 DEF ServedAt, BeforeWarm

\* The steps of a request that fill its index.
LEMMA FillServed ==
    ASSUME TypeOK, SoundInv, NEW w \in Workers, ServedAt(tree, loc[w], pc[w]),
           NEW f \in Files, StatHit(w, f) \/ ReadFile(w, f) \/ IngestRead(w, f)
    PROVE  ServedAt(tree, loc'[w], pc'[w])
<1> DEFINE l == loc[w]
<1> DEFINE m == loc'[w]
<1>0. l \in Locals /\ pc \in [Workers -> Labels] /\ tree \in [Files -> Entry \cup {None}]
  BY Zenon DEF TypeOK
<1>1. tree[f] # None
  BY DEF StatHit, ReadFile, IngestRead, StatOK, indexableFile
<1>2. pc[w] \in {"scan", "ingestRead"} /\ pc'[w] \in {"scan", "guard"}
  BY <1>0 DEF StatHit, ReadFile, IngestRead, Scanning, Goto
<1>3. tree[f].body \in l.seen[f]
  BY <1>1, <1>2, BodyIn DEF ServedAt
<1>4. f \in Files /\ ServedAt(tree, l, pc[w])
  OBVIOUS
<1>5. CASE StatHit(w, f)
  <2>1. l.prev \in Gob /\ l.prev.idx[f] # None /\ StampEqual(l.prev.idx[f].stamp, tree[f].stamp)
        /\ PrevEntry(w, f) = l.prev.idx[f]
    BY <1>0, <1>5 DEF StatHit, StampHit, PrevEntry, Locals
  <2>2. l.prev.idx[f].body = tree[f].body
    BY <1>1, <2>1, PrevEntryCurrent, Zenon
  <2>3. m = [l EXCEPT !.acc[f] = Crawled(tree[f].stamp, tree[f].body),
                      !.paths = @ \ {f}, !.reused = TRUE]
    BY <1>0, <1>5, <2>1, <2>2, SetDone DEF StatHit
  <2>4. m.acc = [l.acc EXCEPT ![f] = Crawled(tree[f].stamp, tree[f].body)]
        /\ m.seen = l.seen /\ m.job = l.job
    BY ONLY <1>0, <2>3 DEF Locals
  <2> DEFINE c == Crawled(tree[f].stamp, tree[f].body)
  <2>5. m.acc = [l.acc EXCEPT ![f] = c] /\ c.body \in l.seen[f]
    BY <1>3, <2>4 DEF Crawled
  <2> HIDE DEF c, l, m
  <2>6. ServedAt(tree, m, pc'[w])
    BY ONLY <1>0, <1>2, <2>4, <2>5, <1>4, ServedFill
  <2> QED
    BY <2>6 DEF m
<1>6. CASE ReadFile(w, f) \/ IngestRead(w, f)
  <2> DEFINE c == Crawled(l.stat[f], tree[f].body)
  <2>1. m.acc = [l.acc EXCEPT ![f] = c] /\ m.seen = l.seen /\ m.job = l.job
    <3> HIDE DEF c
    <3>1. CASE ReadFile(w, f)
      <4> DEFINE ch == l.changed \/ ~HashHit(w, f)
      <4> DEFINE re == l.reused \/ HashHit(w, f)
      <4>1. m = [l EXCEPT !.acc[f] = c, !.paths = @ \ {f}, !.stat[f] = None,
                          !.changed = ch, !.reused = re]
        BY <3>1, SetDone DEF ReadFile, c
      <4> HIDE DEF ch, re
      <4> QED
        BY ONLY <1>0, <4>1 DEF Locals
    <3>2. CASE IngestRead(w, f)
      <4>1. m = [l EXCEPT !.acc[f] = c, !.stat[f] = None]
        BY <3>2, SetDone DEF IngestRead, c
      <4> QED
        BY ONLY <1>0, <4>1 DEF Locals
    <3> QED
      BY <1>6, <3>1, <3>2, Zenon
  <2>2. c.body \in l.seen[f]
    BY <1>3 DEF Crawled
  <2> HIDE DEF c, l, m
  <2>3. ServedAt(tree, m, pc'[w])
    BY ONLY <1>0, <1>2, <2>1, <2>2, <1>4, ServedFill
  <2> QED
    BY <2>3 DEF m
<1> QED
  BY <1>5, <1>6

\* A step that keeps the index of a request, on its way from the crawl on.
LEMMA ServedKept ==
    ASSUME NEW t, NEW l, NEW m, NEW a, NEW b, ServedAt(t, l, a), a # "idle",
           m.acc = l.acc, m.seen = l.seen, m.job = l.job, b \notin BeforeWarm \cup {"warm"}
    PROVE  ServedAt(t, m, b)
BY DEF ServedAt

\* A request that begins, or goes on to the index it loaded, has read nothing.
LEMMA ServedUntouched ==
    ASSUME NEW t, NEW m, NEW b, Untouched(m), \A f \in Files : BodyOf(t[f]) \in m.seen[f]
    PROVE  ServedAt(t, m, b)
BY DEF ServedAt, Untouched, EmptyIndex

LEMMA LoadServed ==
    ASSUME TypeOK, NEW w \in Workers, ServedAt(tree, loc[w], pc[w]),
           IdentityStat(w) \/ CacheServe(w) \/ CacheMiss(w) \/ LoadGuard(w) \/ LoadIndex(w)
           \/ LoadError(w) \/ RestatIdentity(w) \/ CachePut(w)
    PROVE  Untouched(loc'[w]) /\ ServedAt(tree, loc'[w], pc'[w])
<1> DEFINE l == loc[w]
<1> DEFINE m == loc'[w]
<1>0. l \in Locals
  BY Zenon DEF TypeOK
<1>1. pc[w] \in BeforeWarm
  BY DEF IdentityStat, CacheServe, CacheMiss, LoadIndex, LoadError, RestatIdentity, CachePut,
         LoadGuard, Decoding, BeforeWarm
<1>2. Untouched(l) /\ \A f \in Files : BodyOf(tree[f]) \in l.seen[f]
  BY <1>1 DEF ServedAt, BeforeWarm
<1>3. m.acc = l.acc /\ m.todo = l.todo /\ m.paths = l.paths /\ m.stat = l.stat /\ m.seen = l.seen
  <2>1. CASE IdentityStat(w)
    BY <1>0, <2>1, SetDone DEF IdentityStat, Locals
  <2>2. CASE CacheServe(w)
    BY <1>0, <2>2, SetDone DEF CacheServe, Locals
  <2>3. CASE LoadIndex(w)
    BY <1>0, <2>3, SetDone DEF LoadIndex, Locals
  <2>4. CASE LoadError(w)
    BY <1>0, <2>4, SetDone DEF LoadError, Locals
  <2>5. CASE CacheMiss(w) \/ LoadGuard(w) \/ RestatIdentity(w) \/ CachePut(w)
    BY <2>5 DEF CacheMiss, LoadGuard, RestatIdentity, CachePut
  <2> QED
    BY <2>1, <2>2, <2>3, <2>4, <2>5, Zenon
<1>4. Untouched(m)
  BY ONLY <1>2, <1>3 DEF Untouched
<1>5. \A f \in Files : BodyOf(tree[f]) \in m.seen[f]
  BY ONLY <1>2, <1>3
<1> QED
  BY ONLY <1>4, <1>5, ServedUntouched

LEMMA WarmServed ==
    ASSUME TypeOK, PrevLoaded, SoundInv, NEW w \in Workers, ServedAt(tree, loc[w], pc[w]),
           WarmHit(w) \/ \E f \in Files : WarmVisit(w, f)
    PROVE  ServedAt(tree, loc'[w], pc'[w])
<1> DEFINE l == loc[w]
<1> DEFINE m == loc'[w]
<1>0. l \in Locals /\ pc[w] = "warm" /\ l.prev \in Gob
  BY Zenon DEF TypeOK, PrevLoaded, WarmHit, WarmVisit
<1>1. CASE WarmHit(w)
  <2>1. m = [l EXCEPT !.acc = l.prev.idx] /\ pc'[w] = "done" /\ l.todo = {} /\ l.warm
    BY <1>1, SetDone DEF WarmHit, AllStampsMatched, Goto, TypeOK
  <2>2. m.acc = l.prev.idx /\ m.seen = l.seen
    BY ONLY <1>0, <2>1 DEF Locals
  <2> QED
    BY ONLY <1>0, <2>1, <2>2, ServedAt(tree, l, pc[w]) DEF ServedAt, BeforeWarm
<1>2. ASSUME NEW f \in Files, WarmVisit(w, f) PROVE ServedAt(tree, m, pc'[w])
  <2>1. /\ m = [l EXCEPT !.todo = @ \ {f}, !.warm = @ /\ StampMatches(l.prev.idx[f], tree[f])]
        /\ pc'[w] = "warm"
    BY <1>0, <1>2, SetDone, Zenon DEF WarmVisit
  <2>2. /\ m.acc = l.acc /\ m.seen = l.seen /\ m.job = l.job /\ m.prev = l.prev
        /\ m.todo = l.todo \ {f} /\ m.warm = (l.warm /\ StampMatches(l.prev.idx[f], tree[f]))
    BY ONLY <1>0, <2>1 DEF Locals
  <2>3. m.warm /\ l.prev.idx[f] # None => l.prev.idx[f].body \in l.seen[f]
    <3> SUFFICES ASSUME m.warm, l.prev.idx[f] # None PROVE l.prev.idx[f].body \in l.seen[f]
      OBVIOUS
    <3>1. tree[f] # None /\ StampEqual(l.prev.idx[f].stamp, tree[f].stamp)
      BY <2>2 DEF StampMatches
    <3>2. l.prev.idx[f].body = BodyOf(tree[f])
      BY <1>0, <3>1, PrevEntryCurrent, BodyIn
    <3> QED
      BY <1>0, <3>2 DEF ServedAt
  <2> QED
    BY ONLY <1>0, <2>1, <2>2, <2>3, ServedAt(tree, l, pc[w]), Zenon DEF ServedAt, BeforeWarm
<1> QED
  BY <1>1, <1>2

LEMMA WorkerServed ==
    ASSUME TypeOK, PrevLoaded, SoundInv, NEW w \in Workers, ServedAt(tree, loc[w], pc[w]),
           PrivateStep(w) \/ SharedStep(w)
    PROVE  ServedAt(tree, loc'[w], pc'[w])
<1> DEFINE l == loc[w]
<1> DEFINE m == loc'[w]
<1> DEFINE later == pc[w] # "idle" /\ pc'[w] \notin BeforeWarm \cup {"warm"}
<1> DEFINE keeps == m.acc = l.acc /\ m.seen = l.seen /\ m.job = l.job
<1>0. l \in Locals /\ pc \in [Workers -> Labels]
  BY DEF TypeOK
<1>1. CASE later /\ keeps
  BY ONLY <1>1, ServedKept, ServedAt(tree, l, pc[w])
<1>2. CASE Leave(w)
  BY <1>0, <1>2 DEF Leave, Goto, ServedAt
<1>3. CASE WarmMiss(w) \/ WalkEnd(w)
  <2>1. later
    BY <1>0, <1>3 DEF WarmMiss, WalkEnd, Goto, BeforeWarm
  <2>2. CASE WarmMiss(w)
    <3>1. m = [l EXCEPT !.todo = Files, !.warm = TRUE]
      BY <2>2, SetDone DEF WarmMiss
    <3>2. keeps
      BY ONLY <1>0, <3>1 DEF Locals
    <3> QED
      BY ONLY <1>1, <2>1, <3>2, Zenon
  <2>3. CASE WalkEnd(w)
    <3>1. m = [l EXCEPT !.paths = IF l.prev = None THEN Truncated(@) ELSE @]
      BY <2>3, SetDone DEF WalkEnd
    <3>2. keeps
      BY ONLY <1>0, <3>1 DEF Locals
    <3> QED
      BY ONLY <1>1, <2>1, <3>2, Zenon
  <2> QED
    BY <1>3, <2>2, <2>3, Zenon
<1>4. CASE ScanEnd(w)
  <2>1. later
    BY <1>0, <1>4 DEF ScanEnd, ToSave, Goto, BeforeWarm
  <2>2. CASE ToSave(w)
    <3>1. m = [Fresh(l.job, l.seen) EXCEPT !.acc = l.acc, !.quiet = l.quiet]
      BY <2>2, SetDone DEF ToSave
    <3> QED
      BY <1>1, <2>1, <3>1 DEF Fresh
  <2> QED
    BY <1>1, <1>4, <2>1, <2>2, Zenon DEF ScanEnd
<1>5. ASSUME NEW f \in Files, WalkVisit(w, f) \/ StatGone(w, f) \/ StatMiss(w, f)
                              \/ ReadGone(w, f) \/ IngestStat(w, f) \/ IngestSkip(w, f)
      PROVE  ServedAt(tree, m, pc'[w])
  <2>1. later
    BY <1>0, <1>5 DEF WalkVisit, StatGone, StatMiss, ReadGone, IngestStat, IngestSkip,
                      Scanning, Goto, BeforeWarm
  <2>2. CASE WalkVisit(w, f)
    <3>1. m = [l EXCEPT !.todo = @ \ {f},
                      !.paths = IF indexableFile(tree[f]) THEN @ \cup {f} ELSE @]
      BY <2>2, SetDone DEF WalkVisit
    <3>2. keeps
      BY ONLY <1>0, <3>1 DEF Locals
    <3> QED
      BY ONLY <1>1, <2>1, <3>2
  <2>3. CASE StatGone(w, f)
    <3>1. m = [l EXCEPT !.paths = @ \ {f}]
      BY <2>3, SetDone DEF StatGone
    <3>2. keeps
      BY ONLY <1>0, <3>1 DEF Locals
    <3> QED
      BY ONLY <1>1, <2>1, <3>2
  <2>4. CASE StatMiss(w, f)
    <3>1. m = [l EXCEPT !.stat[f] = tree[f].stamp]
      BY <2>4, SetDone DEF StatMiss
    <3>2. keeps
      BY ONLY <1>0, <3>1 DEF Locals
    <3> QED
      BY ONLY <1>1, <2>1, <3>2
  <2>5. CASE ReadGone(w, f)
    <3>1. m = [l EXCEPT !.paths = @ \ {f}, !.stat[f] = None]
      BY <2>5, SetDone DEF ReadGone
    <3>2. keeps
      BY ONLY <1>0, <3>1 DEF Locals
    <3> QED
      BY ONLY <1>1, <2>1, <3>2
  <2>6. CASE IngestStat(w, f)
    <3>1. m = [l EXCEPT !.stat[f] = tree[f].stamp]
      BY <2>6, SetDone DEF IngestStat
    <3>2. keeps
      BY ONLY <1>0, <3>1 DEF Locals
    <3> QED
      BY ONLY <1>1, <2>1, <3>2
  <2>7. CASE IngestSkip(w, f)
    <3>1. m = [l EXCEPT !.stat[f] = None]
      BY <2>7, SetDone DEF IngestSkip
    <3>2. keeps
      BY ONLY <1>0, <3>1 DEF Locals
    <3> QED
      BY ONLY <1>1, <2>1, <3>2
  <2> QED
    BY <1>5, <2>2, <2>3, <2>4, <2>5, <2>6, <2>7, Zenon
<1>6. ASSUME NEW f \in Files, IngestGone(w, f) PROVE ServedAt(tree, m, pc'[w])
  <2>1. m = [l EXCEPT !.acc[f] = None] /\ pc[w] = "ingestStat" /\ pc'[w] = "guard"
    BY <1>0, <1>6, SetDone DEF IngestGone, Goto
  <2>2. m.acc = [l.acc EXCEPT ![f] = None] /\ m.seen = l.seen /\ m.job = l.job
    BY ONLY <1>0, <2>1 DEF Locals
  <2> QED
    BY ONLY <1>0, <2>1, <2>2, ServedAt(tree, l, pc[w]) DEF ServedAt, BeforeWarm, Locals, Index
<1>7. CASE LoadForIngest(w)
  <2>1. m = [l EXCEPT !.acc = gob.idx] /\ pc[w] = "decode" /\ pc'[w] = "ingestStat"
        /\ l.job = "ingest"
    BY <1>0, <1>7, SetDone DEF LoadForIngest, Decoding, Goto
  <2>2. m.seen = l.seen /\ m.job = l.job
    BY ONLY <1>0, <2>1 DEF Locals
  <2> QED
    BY ONLY <2>1, <2>2, ServedAt(tree, l, pc[w]) DEF ServedAt, BeforeWarm
<1>8. CASE Invalidate(w)
  <2>1. /\ m = [l EXCEPT !.job = IF @ = "rebuild" THEN "ingest" ELSE @]
        /\ pc[w] = "invalidate" /\ pc'[w] \in {"ingestStat", "done"}
    BY <1>0, <1>8, SetDone DEF Invalidate, Goto
  <2>2. m.acc = l.acc /\ m.seen = l.seen /\ (m.job # "ingest" => l.job # "ingest")
    BY ONLY <1>0, <2>1 DEF Locals
  <2> QED
    BY ONLY <2>1, <2>2, ServedAt(tree, l, pc[w]) DEF ServedAt, BeforeWarm
<1>9. CASE LockGuard(w) \/ LockFile(w) \/ CreateTmp(w) \/ EncodeTmp(w) \/ RenameTmp(w)
           \/ SaveFails(w) \/ Unlock(w)
  <2>1. later
    BY <1>0, <1>9 DEF LockGuard, LockFile, CreateTmp, EncodeTmp, RenameTmp, SaveFails, Unlock,
                      Goto, BeforeWarm
  <2>2. loc' = loc
    BY <1>9 DEF LockGuard, LockFile, CreateTmp, EncodeTmp, RenameTmp, SaveFails, Unlock
  <2> QED
    BY ONLY <1>1, <2>1, <2>2
<1>10. CASE IgnoresFail(w)
  <2>1. CASE pc[w] = "warm" /\ Goto(w, "walk") /\ UNCHANGED loc
    <3>1. later
      BY <1>0, <2>1 DEF Goto, BeforeWarm
    <3> QED
      BY ONLY <1>1, <2>1, <3>1
  <2> QED
    BY <1>2, <1>10, <2>1 DEF IgnoresFail
<1>11. CASE Return(w) \/ InvalidateFailed(w)
  BY <1>2, <1>11 DEF Return, InvalidateFailed
<1> HIDE DEF l, m
<1> QED
  BY <1>3, <1>4, <1>5, <1>6, <1>7, <1>8, <1>9, <1>10, <1>11, LoadServed, WarmServed, FillServed, Zenon
     DEF PrivateStep, SharedStep, m

LEMMA ServedStep ==
    TypeOK /\ PrevLoaded /\ SoundInv /\ ServedInv /\ [Next]_vars => ServedInv'
<1> SUFFICES ASSUME TypeOK, PrevLoaded, SoundInv, ServedInv, [Next]_vars PROVE ServedInv'
  OBVIOUS
<1>1. ASSUME NEW f \in Files, NEW e, Change(f, e) PROVE ServedInv'
  <2> SUFFICES ASSUME NEW w \in Workers, pc[w] # "idle"
               PROVE  ServedAt(tree', loc'[w], pc[w])
    BY <1>1 DEF Change, ServedInv, ServedAt
  <2> DEFINE l == loc[w]
  <2> DEFINE m == loc'[w]
  <2>1. l \in Locals /\ ServedAt(tree, l, pc[w]) /\ tree \in [Files -> Entry \cup {None}]
    BY DEF TypeOK, ServedInv
  <2> DEFINE seen == [l.seen EXCEPT ![f] = @ \cup {BodyOf(e)}]
  <2>2. m = [l EXCEPT !.seen = seen, !.quiet = FALSE] /\ tree' = [tree EXCEPT ![f] = e]
    BY <1>1, Zenon DEF Change
  <2>3. m.seen = seen /\ m.acc = l.acc /\ m.job = l.job /\ m.prev = l.prev /\ m.todo = l.todo
        /\ m.warm = l.warm /\ m.paths = l.paths /\ m.stat = l.stat
    BY ONLY <2>1, <2>2 DEF Locals
  <2>4. \A g \in Files : l.seen[g] \subseteq m.seen[g] /\ BodyOf(tree'[g]) \in m.seen[g]
    <3>1. l.seen \in [Files -> SUBSET (Bodies \cup {None})]
      BY <2>1 DEF Locals
    <3>2. \A g \in Files : BodyOf(tree[g]) \in l.seen[g]
      BY <2>1 DEF ServedAt
    <3> QED
      BY ONLY <2>1, <2>2, <2>3, <3>1, <3>2
  <2> HIDE DEF seen
  <2> QED
    BY ONLY <2>1, <2>3, <2>4 DEF ServedAt, Untouched
<1>2. CASE GitCommit
  BY <1>2, Zenon DEF GitCommit, ServedInv
<1>3. ASSUME NEW w \in Workers, NEW j \in Requests, Begin(w, j) PROVE ServedInv'
  <2> DEFINE bodies == [f \in Files |-> {BodyOf(tree[f])}]
  <2>1. /\ loc'[w] = Fresh(j, bodies) /\ tree' = tree
        /\ \A v \in Workers : v # w => loc'[v] = loc[v] /\ pc'[v] = pc[v]
    BY <1>3, SetDone DEF Begin, Goto, TypeOK, world
  <2>2. Untouched(loc'[w]) /\ \A f \in Files : BodyOf(tree[f]) \in loc'[w].seen[f]
    <3> DEFINE m == Fresh(j, bodies)
    <3>1. m.acc = EmptyIndex /\ m.todo = Files /\ m.paths = {} /\ m.stat = [f \in Files |-> None]
          /\ m.seen = bodies
      BY ONLY DEF Fresh
    <3>2. \A f \in Files : m.stat[f] = None /\ BodyOf(tree[f]) \in m.seen[f]
      BY ONLY <3>1
    <3> QED
      BY ONLY <2>1, <3>1, <3>2 DEF Untouched
  <2>3. ServedAt(tree, loc'[w], pc'[w])
    BY ONLY <2>2, ServedUntouched
  <2> QED
    BY ONLY <2>1, <2>3, ServedInv DEF ServedInv
<1>4. ASSUME NEW w \in Workers, Step(w) \/ IgnoresFail(w) \/ SaveFails(w) PROVE ServedInv'
  <2>1. PrivateStep(w) \/ SharedStep(w)
    BY <1>4, StepKinds
  <2>2. ServedAt(tree, loc'[w], pc'[w]) /\ tree' = tree
    BY <2>1, WorkerServed, StoreSound, Zenon DEF ServedInv
  <2>3. \A v \in Workers : v # w => loc'[v] = loc[v] /\ pc'[v] = pc[v]
    BY <1>4, OthersUnchanged
  <2> QED
    BY ONLY <2>2, <2>3, ServedInv DEF ServedInv
<1>5. ASSUME NEW p \in Procs, Crash(p) PROVE ServedInv'
  BY <1>5, Zenon DEF Crash, ServedInv, ServedAt, world
<1>6. CASE UNCHANGED vars
  BY <1>6 DEF vars, world, ServedInv
<1> QED
  BY <1>1, <1>2, <1>3, <1>4, <1>5, <1>6, Zenon DEF Next, Edit, Delete

LEMMA ServedInit == Init => ServedInv
BY Zenon DEF Init, ServedInv, ServedAt

LEMMA ServedAlways == Spec => [](TypeOK /\ PrevLoaded /\ SoundInv /\ ServedInv)
BY TypeInit, TypeStep, SoundInit, SoundStep, ServedInit, ServedStep, PTL DEF Spec

\* OpenOrRefresh never returns a body that was gone from its path when the request
\* began, whatever is edited while it runs and whichever fast path it takes.
THEOREM RefreshIsCurrent == Spec => []ServedCurrent
<1>1. ServedInv => ServedCurrent
  BY Zenon DEF ServedInv, ServedAt, ServedCurrent
<1> QED
  BY <1>1, ServedAlways, PTL

==============================================================================

---------------------------- MODULE RefreshProofs ----------------------------
(***************************************************************************)
(* Theorems about a refresh of CodeIndex during which nobody edits: what   *)
(* it returns and what it leaves on disk.                                  *)
(***************************************************************************)
EXTENDS CodeIndexProofs, FiniteSetTheorems, TLAPS

-----------------------------------------------------------------------------
(* A refresh during which nobody edits misses nothing.                     *)

LEMMA ListedFacts ==
    ASSUME NEW t, NEW p
    PROVE  /\ Listed(t, p) \subseteq Indexable(t)
           /\ Truncated(Indexable(t)) \subseteq Listed(t, p)
           /\ \A f \in Indexable(t) : f \in Files /\ t[f] # None /\ t[f].body # Irregular
BY DEF Listed, Truncated, Indexable, indexableFile

\* An entry made from a file's stamp and body is the file's.
LEMMA CrawledIs ==
    ASSUME NEW e \in Entry
    PROVE  Crawled(e.stamp, e.body) = e
BY DEF Crawled, Entry

LEMMA UntouchedQuiet ==
    ASSUME NEW t, NEW m, NEW b \in BeforeWarm \cup {"warm", "walk"}, Untouched(m)
    PROVE  QuietAt(t, m, b)
<1>1. CensusSoFar(t, m)
  BY DEF Untouched, CensusSoFar
<1>2. WalkSoFar(t, m)
  BY DEF Untouched, WalkSoFar, Indexable
<1> QED
  BY <1>1, <1>2 DEF QuietAt, BeforeWarm, Saving

\* The census, and the index it finds current.
LEMMA WarmQuiet ==
    ASSUME TypeOK, PrevLoaded, SoundInv, NEW w \in Workers, QuietAt(tree, loc[w], pc[w]),
           WarmHit(w) \/ WarmMiss(w) \/ \E f \in Files : WarmVisit(w, f)
    PROVE  QuietAt(tree, loc'[w], pc'[w])
<1> DEFINE l == loc[w]
<1> DEFINE m == loc'[w]
<1>0. l \in Locals /\ pc[w] = "warm" /\ l.prev \in Gob /\ pc \in [Workers -> Labels]
  BY Zenon DEF TypeOK, PrevLoaded, WarmHit, WarmMiss, WarmVisit
<1>1. CASE WarmHit(w)
  <2>1. m = [l EXCEPT !.acc = l.prev.idx] /\ pc'[w] = "done" /\ l.todo = {} /\ l.warm
    BY <1>0, <1>1, SetDone DEF WarmHit, AllStampsMatched, Goto
  <2>2. m.acc = l.prev.idx /\ m.quiet = l.quiet /\ m.job = l.job
    BY ONLY <1>0, <2>1 DEF Locals
  <2>3. ASSUME l.quiet, l.job # "ingest" PROVE Complete(tree, l.prev.idx)
    <3>1. \A f \in Files : StampMatches(l.prev.idx[f], tree[f])
      BY <1>0, <2>1, <2>3 DEF QuietAt, CensusSoFar
    <3>2. ASSUME NEW f \in Files, f \in Truncated(Indexable(tree)) PROVE l.prev.idx[f] = tree[f]
      <4>1. tree[f] # None
        BY <3>2, ListedFacts
      <4>2. l.prev.idx[f] # None /\ StampEqual(l.prev.idx[f].stamp, tree[f].stamp)
        BY <3>1, <4>1 DEF StampMatches
      <4> QED
        BY <1>0, <4>1, <4>2, PrevEntryCurrent
    <3>3. \A f \in Files : tree[f] = None => l.prev.idx[f] = None
      BY <3>1 DEF StampMatches
    <3> QED
      BY <3>2, <3>3 DEF Complete
  <2> QED
    BY ONLY <2>1, <2>2, <2>3 DEF QuietAt
<1>2. CASE WarmMiss(w)
  <2>1. m = [l EXCEPT !.todo = Files, !.warm = TRUE] /\ pc'[w] = "walk"
    BY <1>0, <1>2, SetDone DEF WarmMiss, Goto
  <2>2. m.acc = l.acc /\ m.quiet = l.quiet /\ m.job = l.job /\ m.todo = Files
        /\ m.paths = l.paths /\ m.stat = l.stat
    BY ONLY <1>0, <2>1 DEF Locals
  <2>3. ASSUME l.quiet, l.job # "ingest" PROVE Untouched(m)
    BY ONLY <1>0, <2>2, <2>3, QuietAt(tree, l, pc[w]), Zenon DEF QuietAt, CensusSoFar, Untouched
  <2>4. CASE l.quiet /\ l.job # "ingest"
    BY <2>1, <2>3, <2>4, UntouchedQuiet
  <2> QED
    BY <2>2, <2>4, Zenon DEF QuietAt
<1>3. ASSUME NEW f \in Files, WarmVisit(w, f) PROVE QuietAt(tree, m, pc'[w])
  <2>1. /\ m = [l EXCEPT !.todo = @ \ {f}, !.warm = @ /\ StampMatches(l.prev.idx[f], tree[f])]
        /\ pc'[w] = "warm"
    BY <1>0, <1>3, SetDone, Zenon DEF WarmVisit
  <2>2. /\ m.acc = l.acc /\ m.quiet = l.quiet /\ m.job = l.job /\ m.prev = l.prev
        /\ m.paths = l.paths /\ m.stat = l.stat
        /\ m.todo = l.todo \ {f} /\ m.warm = (l.warm /\ StampMatches(l.prev.idx[f], tree[f]))
    BY ONLY <1>0, <2>1 DEF Locals
  <2>3. CensusSoFar(tree, l) => CensusSoFar(tree, m)
    BY ONLY <2>2 DEF CensusSoFar
  <2> QED
    BY ONLY <1>0, <2>1, <2>2, <2>3, QuietAt(tree, l, pc[w]) DEF QuietAt, Saving
<1> QED
  BY <1>1, <1>2, <1>3

LEMMA WalkQuiet ==
    ASSUME TypeOK, NEW w \in Workers, QuietAt(tree, loc[w], pc[w]),
           WalkEnd(w) \/ \E f \in Files : WalkVisit(w, f)
    PROVE  QuietAt(tree, loc'[w], pc'[w])
<1> DEFINE l == loc[w]
<1> DEFINE m == loc'[w]
<1>0. l \in Locals /\ pc[w] = "walk" /\ pc \in [Workers -> Labels]
  BY Zenon DEF TypeOK, WalkEnd, WalkVisit
<1>1. CASE WalkEnd(w)
  <2>1. /\ m = [l EXCEPT !.paths = IF l.prev = None THEN Truncated(@) ELSE @]
        /\ pc'[w] = "scan" /\ l.todo = {}
    BY <1>0, <1>1, SetDone DEF WalkEnd, Goto
  <2>2. /\ m.acc = l.acc /\ m.quiet = l.quiet /\ m.job = l.job /\ m.prev = l.prev
        /\ m.stat = l.stat /\ m.paths = IF l.prev = None THEN Truncated(l.paths) ELSE l.paths
    BY ONLY <1>0, <2>1 DEF Locals
  <2>3. ASSUME WalkSoFar(tree, l) PROVE ScanSoFar(tree, m)
    <3>1. m.paths = Listed(tree, m.prev)
      BY <2>1, <2>2, <2>3 DEF WalkSoFar, Listed
    <3>2. m.acc = EmptyIndex /\ \A f \in Files : m.stat[f] = None
      BY <2>2, <2>3, Zenon DEF WalkSoFar
    <3> QED
      BY ONLY <3>1, <3>2 DEF ScanSoFar, EmptyIndex
  <2> QED
    BY ONLY <1>0, <2>1, <2>2, <2>3, QuietAt(tree, l, pc[w]) DEF QuietAt, Saving
<1>2. ASSUME NEW f \in Files, WalkVisit(w, f) PROVE QuietAt(tree, m, pc'[w])
  <2>1. /\ m = [l EXCEPT !.todo = @ \ {f},
                         !.paths = IF indexableFile(tree[f]) THEN @ \cup {f} ELSE @]
        /\ pc'[w] = "walk" /\ f \in l.todo
    BY <1>0, <1>2, SetDone, Zenon DEF WalkVisit, NextInWalk
  <2>2. /\ m.acc = l.acc /\ m.quiet = l.quiet /\ m.job = l.job /\ m.stat = l.stat
        /\ m.todo = l.todo \ {f}
        /\ m.paths = IF indexableFile(tree[f]) THEN l.paths \cup {f} ELSE l.paths
    BY ONLY <1>0, <2>1 DEF Locals
  <2>3. l.paths = Indexable(tree) \ l.todo => m.paths = Indexable(tree) \ m.todo
    BY ONLY <2>1, <2>2, f \in Files DEF Indexable
  <2>4. WalkSoFar(tree, l) => WalkSoFar(tree, m)
    BY ONLY <2>2, <2>3 DEF WalkSoFar
  <2> QED
    BY ONLY <1>0, <2>1, <2>2, <2>4, QuietAt(tree, l, pc[w]) DEF QuietAt, Saving
<1> QED
  BY <1>1, <1>2

\* A path is taken off the list with the entry the tree holds for it.
LEMMA ScanFilled ==
    ASSUME NEW t, NEW l \in Locals, NEW m, NEW f \in Files, ScanSoFar(t, l),
           m.acc = [l.acc EXCEPT ![f] = t[f]], m.paths = l.paths \ {f}, m.prev = l.prev,
           \A g \in Files : g # f => m.stat[g] = l.stat[g], f \in l.paths
    PROVE  ScanSoFar(t, m)
BY DEF ScanSoFar, Locals, Index

LEMMA ScanQuiet ==
    ASSUME TypeOK, SoundInv, NEW w \in Workers, QuietAt(tree, loc[w], pc[w]), NEW f \in Files,
           StatGone(w, f) \/ StatHit(w, f) \/ StatMiss(w, f) \/ ReadGone(w, f) \/ ReadFile(w, f)
    PROVE  QuietAt(tree, loc'[w], pc'[w])
<1> DEFINE l == loc[w]
<1> DEFINE m == loc'[w]
<1> DEFINE keeps == m.quiet = l.quiet /\ m.job = l.job /\ m.prev = l.prev
<1>0. l \in Locals /\ pc[w] = "scan" /\ pc'[w] = "scan" /\ f \in l.paths
  BY DEF TypeOK, StatGone, StatHit, StatMiss, ReadGone, ReadFile, Scanning, NextInWalk
<1>1. ASSUME l.quiet, l.job # "ingest"
      PROVE  ScanSoFar(tree, l) /\ tree[f] # None /\ tree[f] \in Entry /\ StatOK(w, f)
  <2>1. ScanSoFar(tree, l)
    BY ONLY <1>0, <1>1, QuietAt(tree, l, pc[w]) DEF QuietAt
  <2>2. f \in Indexable(tree)
    BY <1>0, <2>1, ListedFacts DEF ScanSoFar
  <2> QED
    BY <2>1, <2>2, ListedFacts, BodyIn DEF StatOK, Indexable
<1>2. keeps /\ (ScanSoFar(tree, m) \/ ~l.quiet \/ l.job = "ingest") => QuietAt(tree, m, pc'[w])
  BY ONLY <1>0 DEF QuietAt, Saving
<1>3. CASE StatGone(w, f) \/ ReadGone(w, f)
  <2>1. ~l.quiet \/ l.job = "ingest"
    BY <1>1, <1>3 DEF StatGone, ReadGone
  <2>2. keeps
    <3>1. CASE StatGone(w, f)
      <4>1. m = [l EXCEPT !.paths = @ \ {f}]
        BY <3>1, SetDone DEF StatGone
      <4> QED
        BY ONLY <1>0, <4>1 DEF Locals
    <3>2. CASE ReadGone(w, f)
      <4>1. m = [l EXCEPT !.paths = @ \ {f}, !.stat[f] = None]
        BY <3>2, SetDone DEF ReadGone
      <4> QED
        BY ONLY <1>0, <4>1 DEF Locals
    <3> QED
      BY <1>3, <3>1, <3>2, Zenon
  <2> QED
    BY ONLY <1>2, <2>1, <2>2, Zenon
<1>4. CASE StatHit(w, f)
  <2> DEFINE c == Crawled(tree[f].stamp, PrevEntry(w, f).body)
  <2>1. m = [l EXCEPT !.acc[f] = c, !.paths = @ \ {f}, !.reused = TRUE]
    BY <1>4, SetDone DEF StatHit
  <2>2. ASSUME l.quiet, l.job # "ingest" PROVE c = tree[f]
    <3>1. l.prev \in Gob /\ l.prev.idx[f] # None /\ PrevEntry(w, f) = l.prev.idx[f]
          /\ StampEqual(l.prev.idx[f].stamp, tree[f].stamp)
      BY <1>0, <1>4 DEF StatHit, StampHit, PrevEntry, Locals
    <3>2. PrevEntry(w, f).body = tree[f].body
      BY <1>1, <2>2, <3>1, PrevEntryCurrent, Zenon
    <3> QED
      BY <1>1, <2>2, <3>2, CrawledIs
  <2> HIDE DEF c
  <2>3. keeps /\ m.acc = [l.acc EXCEPT ![f] = c] /\ m.paths = l.paths \ {f} /\ m.stat = l.stat
    BY ONLY <1>0, <2>1 DEF Locals
  <2>4. l.quiet /\ l.job # "ingest" => ScanSoFar(tree, m)
    BY ONLY <1>0, <1>1, <2>2, <2>3, ScanFilled, f \in Files
  <2> QED
    BY ONLY <1>2, <2>3, <2>4, Zenon
<1>5. CASE ReadFile(w, f)
  <2> DEFINE c == Crawled(l.stat[f], tree[f].body)
  <2> DEFINE ch == l.changed \/ ~HashHit(w, f)
  <2> DEFINE re == l.reused \/ HashHit(w, f)
  <2>1. m = [l EXCEPT !.acc[f] = c, !.paths = @ \ {f}, !.stat[f] = None,
                      !.changed = ch, !.reused = re]
    BY <1>5, SetDone DEF ReadFile
  <2>2. ASSUME l.quiet, l.job # "ingest" PROVE c = tree[f]
    <3>1. l.stat[f] = tree[f].stamp
      BY <1>0, <1>1, <1>5, <2>2 DEF ReadFile, ScanSoFar
    <3> QED
      BY <1>1, <2>2, <3>1, CrawledIs, Zenon
  <2> HIDE DEF c, ch, re
  <2>3. keeps /\ m.acc = [l.acc EXCEPT ![f] = c] /\ m.paths = l.paths \ {f}
    BY ONLY <1>0, <2>1 DEF Locals
  <2>4. \A g \in Files : g # f => m.stat[g] = l.stat[g]
    BY ONLY <1>0, <2>1 DEF Locals
  <2>5. l.quiet /\ l.job # "ingest" => ScanSoFar(tree, m)
    BY ONLY <1>0, <1>1, <2>2, <2>3, <2>4, ScanFilled, f \in Files
  <2> QED
    BY ONLY <1>2, <2>3, <2>5, Zenon
<1>6. CASE StatMiss(w, f)
  <2>1. m = [l EXCEPT !.stat[f] = tree[f].stamp]
    BY <1>6, SetDone DEF StatMiss
  <2>2. keeps /\ m.acc = l.acc /\ m.paths = l.paths
    BY ONLY <1>0, <2>1 DEF Locals
  <2>3. \A g \in Files : m.stat[g] = IF g = f THEN tree[f].stamp ELSE l.stat[g]
    BY ONLY <1>0, <2>1 DEF Locals
  <2>4. ScanSoFar(tree, l) => ScanSoFar(tree, m)
    BY ONLY <2>2, <2>3 DEF ScanSoFar
  <2> QED
    BY ONLY <1>1, <1>2, <2>2, <2>4, Zenon
<1> QED
  BY <1>3, <1>4, <1>5, <1>6, Zenon

LEMMA ScanEndQuiet ==
    ASSUME TypeOK, NEW w \in Workers, QuietAt(tree, loc[w], pc[w]), ScanEnd(w)
    PROVE  QuietAt(tree, loc'[w], pc'[w])
<1> DEFINE l == loc[w]
<1> DEFINE m == loc'[w]
<1>0. pc[w] = "scan" /\ l.paths = {} /\ pc \in [Workers -> Labels]
  BY DEF TypeOK, ScanEnd
<1>1. pc'[w] \in {"guard", "done"} /\ m.acc = l.acc /\ m.quiet = l.quiet /\ m.job = l.job
  <2>1. CASE ToSave(w)
    <3>1. m = [Fresh(l.job, l.seen) EXCEPT !.acc = l.acc, !.quiet = l.quiet]
      BY <2>1, SetDone DEF ToSave
    <3>2. pc'[w] = "guard"
      BY <1>0, <2>1 DEF ToSave, Goto
    <3> QED
      BY <3>1, <3>2 DEF Fresh
  <2>2. CASE Goto(w, "done") /\ UNCHANGED loc
    BY <1>0, <2>2 DEF Goto
  <2> QED
    BY <2>1, <2>2, Zenon DEF ScanEnd
<1>2. ASSUME ScanSoFar(tree, l) PROVE Complete(tree, l.acc)
  <2>1. ASSUME NEW f \in Files PROVE f \in Truncated(Indexable(tree)) => l.acc[f] = tree[f]
    BY <1>0, <1>2, ListedFacts DEF ScanSoFar
  <2>2. ASSUME NEW f \in Files PROVE tree[f] = None => l.acc[f] = None
    BY <1>0, <1>2, ListedFacts DEF ScanSoFar
  <2> QED
    BY <2>1, <2>2 DEF Complete
<1> QED
  BY ONLY <1>0, <1>1, <1>2, QuietAt(tree, l, pc[w]) DEF QuietAt, Saving

LEMMA WorkerQuiet ==
    ASSUME TypeOK, PrevLoaded, SoundInv, NEW w \in Workers,
           ServedAt(tree, loc[w], pc[w]), QuietAt(tree, loc[w], pc[w]),
           PrivateStep(w) \/ SharedStep(w)
    PROVE  QuietAt(tree, loc'[w], pc'[w])
<1> DEFINE l == loc[w]
<1> DEFINE m == loc'[w]
<1>0. l \in Locals /\ pc \in [Workers -> Labels]
  BY DEF TypeOK
<1>1. CASE Leave(w)
  BY <1>0, <1>1, Zenon DEF Leave, Goto, QuietAt
<1>2. CASE IdentityStat(w) \/ CacheServe(w) \/ CacheMiss(w) \/ LoadGuard(w) \/ LoadIndex(w)
           \/ LoadError(w) \/ RestatIdentity(w) \/ CachePut(w)
  <2>1. Untouched(m)
    BY <1>2, LoadServed, Zenon
  <2>2. pc'[w] \in BeforeWarm \cup {"warm", "walk"}
    BY <1>0, <1>2 DEF IdentityStat, CacheServe, CacheMiss, LoadGuard, LoadIndex, LoadError,
                      RestatIdentity, CachePut, Goto, BeforeWarm
  <2> QED
    BY ONLY <2>1, <2>2, UntouchedQuiet
<1>3. CASE LoadForIngest(w)
  <2>1. m = [l EXCEPT !.acc = gob.idx] /\ l.job = "ingest"
    BY <1>0, <1>3, SetDone DEF LoadForIngest
  <2>2. m.job = "ingest"
    BY ONLY <1>0, <2>1 DEF Locals
  <2> QED
    BY ONLY <2>2, Zenon DEF QuietAt
<1>4. ASSUME NEW f \in Files, IngestStat(w, f) \/ IngestGone(w, f) \/ IngestSkip(w, f)
                              \/ IngestRead(w, f)
      PROVE  QuietAt(tree, m, pc'[w])
  <2>1. pc[w] \in {"ingestStat", "ingestRead"}
    BY <1>4 DEF IngestStat, IngestGone, IngestSkip, IngestRead
  <2>2. ~l.quiet \/ l.job = "ingest"
    BY ONLY <2>1, QuietAt(tree, l, pc[w]) DEF QuietAt
  <2>3. m.quiet = l.quiet /\ m.job = l.job
    <3>1. CASE IngestStat(w, f)
      <4>1. m = [l EXCEPT !.stat[f] = tree[f].stamp]
        BY <3>1, SetDone DEF IngestStat
      <4> QED
        BY ONLY <1>0, <4>1 DEF Locals
    <3>2. CASE IngestGone(w, f)
      <4>1. m = [l EXCEPT !.acc[f] = None]
        BY <3>2, SetDone DEF IngestGone
      <4> QED
        BY ONLY <1>0, <4>1 DEF Locals
    <3>3. CASE IngestSkip(w, f)
      <4>1. m = [l EXCEPT !.stat[f] = None]
        BY <3>3, SetDone DEF IngestSkip
      <4> QED
        BY ONLY <1>0, <4>1 DEF Locals
    <3>4. CASE IngestRead(w, f)
      <4> DEFINE c == Crawled(l.stat[f], tree[f].body)
      <4>1. m = [l EXCEPT !.acc[f] = c, !.stat[f] = None]
        BY <3>4, SetDone DEF IngestRead
      <4> HIDE DEF c
      <4> QED
        BY ONLY <1>0, <4>1 DEF Locals
    <3> QED
      BY <1>4, <3>1, <3>2, <3>3, <3>4, Zenon
  <2> QED
    BY ONLY <2>2, <2>3 DEF QuietAt
<1>5. CASE LockGuard(w) \/ LockFile(w) \/ CreateTmp(w) \/ EncodeTmp(w) \/ RenameTmp(w)
           \/ SaveFails(w) \/ Unlock(w)
  <2>1. /\ pc[w] \in Saving \cup {"abort"} /\ pc'[w] \in Saving \cup {"abort", "abortInvalidate"}
        /\ pc[w] = "abort" => pc'[w] = "abortInvalidate"
        /\ loc' = loc
    BY <1>0, <1>5 DEF LockGuard, LockFile, CreateTmp, EncodeTmp, RenameTmp, SaveFails, Unlock,
                      Goto, Saving
  <2> QED
    BY ONLY <2>1, QuietAt(tree, l, pc[w]), Zenon DEF QuietAt, Saving
<1>6. CASE Invalidate(w)
  <2>1. /\ m = [l EXCEPT !.job = IF @ = "rebuild" THEN "ingest" ELSE @]
        /\ pc[w] = "invalidate" /\ (l.job # "rebuild" => pc'[w] = "done")
    BY <1>0, <1>6, SetDone DEF Invalidate, Goto
  <2>2. /\ m.acc = l.acc /\ m.quiet = l.quiet
        /\ m.job = IF l.job = "rebuild" THEN "ingest" ELSE l.job
    BY ONLY <1>0, <2>1 DEF Locals
  <2> QED
    BY ONLY <2>1, <2>2, QuietAt(tree, l, pc[w]) DEF QuietAt, Saving
<1>7. CASE IgnoresFail(w)
  <2>1. CASE pc[w] = "warm" /\ l.todo = Files /\ Goto(w, "walk") /\ UNCHANGED loc
    <3>1. pc'[w] = "walk" /\ m = l
      BY <1>0, <2>1 DEF Goto
    <3>2. CensusSoFar(tree, l) => WalkSoFar(tree, l)
      BY ONLY <2>1 DEF CensusSoFar, WalkSoFar, Indexable
    <3> QED
      BY ONLY <2>1, <3>1, <3>2, QuietAt(tree, l, pc[w]), Zenon DEF QuietAt, Saving
  <2> QED
    BY <1>1, <1>7, <2>1 DEF IgnoresFail
<1>8. CASE Return(w) \/ InvalidateFailed(w)
  BY <1>1, <1>8 DEF Return, InvalidateFailed
<1> HIDE DEF l, m
<1> QED
  BY <1>2, <1>3, <1>4, <1>5, <1>6, <1>7, <1>8, WarmQuiet, WalkQuiet, ScanQuiet, ScanEndQuiet, Zenon
     DEF PrivateStep, SharedStep, m

LEMMA QuietStep ==
    TypeOK /\ PrevLoaded /\ SoundInv /\ ServedInv /\ QuietInv /\ [Next]_vars => QuietInv'
<1> SUFFICES ASSUME TypeOK, PrevLoaded, SoundInv, ServedInv, QuietInv, [Next]_vars
             PROVE  QuietInv'
  OBVIOUS
<1>1. ASSUME NEW f \in Files, NEW e, Change(f, e) PROVE QuietInv'
  <2> SUFFICES ASSUME NEW w \in Workers, pc[w] # "idle" PROVE ~loc'[w].quiet
    BY <1>1 DEF Change, QuietInv, QuietAt
  <2>1. loc[w] \in Locals
    BY DEF TypeOK
  <2> DEFINE seen == [loc[w].seen EXCEPT ![f] = @ \cup {BodyOf(e)}]
  <2>2. loc'[w] = [loc[w] EXCEPT !.seen = seen, !.quiet = FALSE]
    BY <1>1 DEF Change
  <2> HIDE DEF seen
  <2> QED
    BY ONLY <2>1, <2>2 DEF Locals
<1>2. CASE GitCommit
  BY <1>2 DEF GitCommit, QuietInv
<1>3. ASSUME NEW w \in Workers, NEW j \in Requests, Begin(w, j) PROVE QuietInv'
  <2> DEFINE bodies == [f \in Files |-> {BodyOf(tree[f])}]
  <2>1. /\ loc'[w] = Fresh(j, bodies) /\ tree' = tree
        /\ pc'[w] \in BeforeWarm \cup {"warm", "walk"}
        /\ \A v \in Workers : v # w => loc'[v] = loc[v] /\ pc'[v] = pc[v]
    BY <1>3, SetDone DEF Begin, Goto, TypeOK, world, BeforeWarm, Requests
  <2>2. Untouched(loc'[w])
    BY ONLY <2>1 DEF Fresh, Untouched
  <2>3. QuietAt(tree, loc'[w], pc'[w])
    BY ONLY <2>1, <2>2, UntouchedQuiet
  <2> QED
    BY ONLY <2>1, <2>3, QuietInv DEF QuietInv
<1>4. ASSUME NEW w \in Workers, Step(w) \/ IgnoresFail(w) \/ SaveFails(w) PROVE QuietInv'
  <2>1. PrivateStep(w) \/ SharedStep(w)
    BY <1>4, StepKinds
  <2>2. QuietAt(tree, loc'[w], pc'[w]) /\ tree' = tree
    BY <2>1, WorkerQuiet, StoreSound DEF QuietInv, ServedInv
  <2>3. \A v \in Workers : v # w => loc'[v] = loc[v] /\ pc'[v] = pc[v]
    BY <1>4, OthersUnchanged
  <2> QED
    BY ONLY <2>2, <2>3, QuietInv DEF QuietInv
<1>5. ASSUME NEW p \in Procs, Crash(p) PROVE QuietInv'
  BY <1>5 DEF Crash, QuietInv, QuietAt, world
<1>6. CASE UNCHANGED vars
  BY <1>6 DEF vars, world, QuietInv
<1> QED
  BY <1>1, <1>2, <1>3, <1>4, <1>5, <1>6 DEF Next, Edit, Delete

LEMMA QuietInit == Init => QuietInv
BY DEF Init, QuietInv, QuietAt

LEMMA QuietAlways == Spec => [](TypeOK /\ PrevLoaded /\ SoundInv /\ ServedInv /\ QuietInv)
BY ServedAlways, QuietInit, QuietStep, PTL DEF Spec

\* A refresh during which nobody edits returns every file a clean rebuild has, as
\* it is, and no file that is gone, by way of the warm path, the delta or the full
\* crawl, with every other worker, crash and failed Save around it.
THEOREM QuietRefreshComplete == Spec => []QuietComplete
<1>1. QuietInv => QuietComplete
  BY DEF QuietInv, QuietAt, QuietComplete
<1> QED
  BY <1>1, QuietAlways, PTL

\* A tree within MaxIndexableFiles is not truncated.
LEMMA NotTruncated ==
    ASSUME NumFiles <= MaxIndexableFiles, NEW S \in SUBSET Files
    PROVE  Truncated(S) = S
<1> SUFFICES ASSUME NEW f \in S PROVE Cardinality({g \in S : g < f}) < MaxIndexableFiles
  BY DEF Truncated
<1> DEFINE T == {g \in S : g < f}
<1>1. IsFiniteSet(Files) /\ Cardinality(Files) = NumFiles /\ f \in Files
  <2>1. 1 \in Int /\ NumFiles \in Int /\ NumFiles \in Nat
    BY ConstantsAssumption
  <2>2. IsFiniteSet(1 .. NumFiles)
        /\ Cardinality(1 .. NumFiles) = IF 1 > NumFiles THEN 0 ELSE NumFiles - 1 + 1
    BY ONLY <2>1, FS_Interval
  <2> QED
    BY <2>1, <2>2 DEF Files
<1>2. T \in SUBSET Files /\ f \notin T
  <2>1. f \in Int
    BY ConstantsAssumption DEF Files
  <2>2. ~(f < f)
    BY ONLY <2>1
  <2> QED
    BY ONLY <2>2, S \in SUBSET Files
<1>3. IsFiniteSet(T) /\ Cardinality(T) <= NumFiles /\ Cardinality(T) # NumFiles
  BY <1>1, <1>2, FS_Subset
<1>4. Cardinality(T) \in Nat
  BY <1>3, FS_CardinalityType
<1> QED
  BY <1>3, <1>4, ConstantsAssumption

\* Where no file is irregular and the tree is within MaxIndexableFiles, what a
\* quiet refresh returns is the clean rebuild, and nothing else is in it.  Both
\* conditions are needed: CrawlDeltaFrom neither truncates its list nor rejects a
\* file that grew too large after it was listed.
THEOREM RefreshIsRebuild ==
    ASSUME Irregular \notin Bodies, NumFiles <= MaxIndexableFiles
    PROVE  Spec => []RefreshEqualsRebuild
<1>1. TypeOK /\ QuietInv => RefreshEqualsRebuild
  <2> SUFFICES ASSUME TypeOK, QuietInv, NEW w \in Workers,
                      pc[w] = "done", loc[w].job # "ingest", loc[w].quiet
               PROVE  loc[w].acc = Rebuild
    BY DEF RefreshEqualsRebuild
  <2>1. Complete(tree, loc[w].acc)
    BY DEF QuietInv, QuietAt
  <2>2. \A f \in Files : f \in Indexable(tree) <=> tree[f] # None
    BY DEF TypeOK, Entry, Indexable, indexableFile
  <2>3. Truncated(Indexable(tree)) = Indexable(tree)
    BY NotTruncated DEF Indexable
  <2>4. Rebuild = [f \in Files |-> IF f \in Indexable(tree) THEN tree[f] ELSE None]
    BY <2>3 DEF Rebuild, Indexable
  <2>5. loc[w].acc \in [Files -> Entry \cup {None}]
    BY DEF TypeOK, Locals, Index
  <2> QED
    BY ONLY <2>1, <2>2, <2>3, <2>4, <2>5 DEF Complete
<1> QED
  BY <1>1, QuietAlways, PTL

-----------------------------------------------------------------------------
(* The index file a quiet refresh leaves behind.                           *)

LEMMA CacheAlways ==
    Spec => [](TypeOK /\ PrevLoaded /\ SoundInv /\ ServedInv /\ QuietInv /\ CacheInv)
BY QuietAlways, CacheInit, CacheStep, PTL DEF Spec

\* The steps from the start of a request to the census.
LEMMA LoadDurable ==
    ASSUME TypeOK, CacheInv, NEW w \in Workers, DurableAt(tree, gob, tmp, loc[w], pc[w]),
           IdentityStat(w) \/ CacheServe(w) \/ CacheMiss(w) \/ LoadGuard(w) \/ LoadIndex(w)
           \/ LoadError(w) \/ RestatIdentity(w) \/ CachePut(w)
    PROVE  DurableAt(tree, gob, tmp, loc'[w], pc'[w])
<1> DEFINE l == loc[w]
<1> DEFINE m == loc'[w]
<1>0. l \in Locals /\ pc \in [Workers -> Labels]
  BY DEF TypeOK
<1>1. CASE IdentityStat(w)
  <2>1. /\ m = [l EXCEPT !.sid = IF gob = None THEN 0 ELSE gob.id] /\ pc[w] = "identity"
        /\ pc'[w] = IF gob = None THEN "load" ELSE "lookup"
    BY <1>0, <1>1, SetDone DEF IdentityStat, Goto
  <2>2. m.quiet = l.quiet /\ m.job = l.job /\ m.prev = l.prev
        /\ m.sid = IF gob = None THEN 0 ELSE gob.id
    BY ONLY <1>0, <2>1 DEF Locals
  <2> QED
    BY ONLY <2>1, <2>2, DurableAt(tree, gob, tmp, l, pc[w]) DEF DurableAt
<1>2. CASE CacheServe(w)
  <2> DEFINE c == cache[ProcOf[w]]
  <2>1. m = [l EXCEPT !.prev = c.snap] /\ pc[w] = "lookup" /\ pc'[w] = "warm"
        /\ c # None /\ c.id = l.sid
    BY <1>0, <1>2, SetDone DEF CacheServe, CacheHit, Goto
  <2>2. ProcOf[w] \in Procs
    BY ConstantsAssumption
  <2>3. gob # None /\ gob.id = l.sid => c.snap = gob
    BY <2>1, <2>2 DEF CacheInv
  <2> HIDE DEF c
  <2>4. m.quiet = l.quiet /\ m.job = l.job /\ m.prev = c.snap
    BY ONLY <1>0, <2>1 DEF Locals
  <2> QED
    BY ONLY <2>1, <2>3, <2>4, DurableAt(tree, gob, tmp, l, pc[w]) DEF DurableAt
<1>3. CASE LoadIndex(w)
  <2>1. m = [l EXCEPT !.prev = gob] /\ pc[w] = "decode" /\ pc'[w] \in {"warm", "restat"}
    BY <1>0, <1>3, SetDone DEF LoadIndex, Decoding, Goto
  <2>2. m.prev = gob
    BY ONLY <1>0, <2>1 DEF Locals
  <2> QED
    BY ONLY <2>1, <2>2 DEF DurableAt
<1>4. CASE LoadError(w)
  <2>1. m = [l EXCEPT !.job = IF @ = "ingest" THEN "rebuild" ELSE @]
        /\ pc[w] = "decode" /\ pc'[w] = "walk"
    BY <1>0, <1>4, SetDone DEF LoadError, Decoding, Goto
  <2>2. m.quiet = l.quiet /\ m.prev = l.prev /\ (l.job # "ingest" => m.job = l.job)
    BY ONLY <1>0, <2>1 DEF Locals
  <2> QED
    BY ONLY <2>1, <2>2, DurableAt(tree, gob, tmp, l, pc[w]) DEF DurableAt
<1>5. CASE CacheMiss(w) \/ LoadGuard(w) \/ RestatIdentity(w) \/ CachePut(w)
  <2>1. m = l /\ \/ pc[w] = "lookup" /\ pc'[w] = "load"
                 \/ pc[w] = "load" /\ pc'[w] = "decode"
                 \/ pc[w] = "restat" /\ pc'[w] \in {"cachePut", "warm"}
                 \/ pc[w] = "cachePut" /\ pc'[w] = "warm"
    BY <1>0, <1>5 DEF CacheMiss, LoadGuard, RestatIdentity, CachePut, Goto
  <2> QED
    BY ONLY <2>1, DurableAt(tree, gob, tmp, l, pc[w]) DEF DurableAt
<1> QED
  BY <1>1, <1>2, <1>3, <1>4, <1>5

LEMMA CompleteHasBodies ==
    ASSUME NEW t, NEW i, Complete(t, i)
    PROVE  HasBodies(t, i)
<1> SUFFICES ASSUME NEW f \in Truncated(Indexable(t)) PROVE i[f] # None /\ i[f].body = t[f].body
  BY DEF HasBodies
<1>1. f \in Files /\ t[f] # None
  BY ListedFacts
<1> QED
  BY <1>1 DEF Complete

LEMMA WarmDurable ==
    ASSUME TypeOK, PrevLoaded, SoundInv, NEW w \in Workers, QuietAt(tree, loc[w], pc[w]),
           DurableAt(tree, gob, tmp, loc[w], pc[w]),
           WarmHit(w) \/ WarmMiss(w) \/ \E f \in Files : WarmVisit(w, f)
    PROVE  DurableAt(tree, gob, tmp, loc'[w], pc'[w])
<1> DEFINE l == loc[w]
<1> DEFINE m == loc'[w]
<1>0. l \in Locals /\ pc[w] = "warm" /\ l.prev # None /\ pc \in [Workers -> Labels]
  BY NoneIsNoGob DEF TypeOK, PrevLoaded, WarmHit, WarmMiss, WarmVisit
<1>1. CASE WarmHit(w)
  <2>1. m = [l EXCEPT !.acc = l.prev.idx] /\ pc'[w] = "done"
    BY <1>0, <1>1, SetDone DEF WarmHit, Goto
  <2>2. m.acc = l.prev.idx /\ m.quiet = l.quiet /\ m.job = l.job
    BY ONLY <1>0, <2>1 DEF Locals
  <2>3. QuietAt(tree, m, pc'[w])
    BY <1>1, WarmQuiet
  <2>4. m.quiet /\ m.job # "ingest" => HasBodies(tree, l.prev.idx)
    BY ONLY <2>1, <2>2, <2>3, CompleteHasBodies DEF QuietAt
  <2> QED
    BY ONLY <1>0, <2>1, <2>2, <2>4, DurableAt(tree, gob, tmp, l, pc[w]) DEF DurableAt
<1>2. CASE WarmMiss(w)
  <2>1. m = [l EXCEPT !.todo = Files, !.warm = TRUE] /\ pc'[w] = "walk"
    BY <1>0, <1>2, SetDone DEF WarmMiss, Goto
  <2>2. m.quiet = l.quiet /\ m.job = l.job /\ m.prev = l.prev
    BY ONLY <1>0, <2>1 DEF Locals
  <2> QED
    BY ONLY <1>0, <2>1, <2>2, DurableAt(tree, gob, tmp, l, pc[w]) DEF DurableAt
<1>3. ASSUME NEW f \in Files, WarmVisit(w, f) PROVE DurableAt(tree, gob, tmp, m, pc'[w])
  <2> DEFINE ok == l.warm /\ StampMatches(l.prev.idx[f], tree[f])
  <2>1. m = [l EXCEPT !.todo = @ \ {f}, !.warm = ok] /\ pc'[w] = "warm"
    BY <1>0, <1>3, SetDone DEF WarmVisit
  <2> HIDE DEF ok
  <2>2. m.quiet = l.quiet /\ m.job = l.job /\ m.prev = l.prev
    BY ONLY <1>0, <2>1 DEF Locals
  <2> QED
    BY ONLY <1>0, <2>1, <2>2, DurableAt(tree, gob, tmp, l, pc[w]) DEF DurableAt
<1> QED
  BY <1>1, <1>2, <1>3

LEMMA WalkDurable ==
    ASSUME TypeOK, NEW w \in Workers, QuietAt(tree, loc[w], pc[w]),
           DurableAt(tree, gob, tmp, loc[w], pc[w]),
           WalkEnd(w) \/ \E f \in Files : WalkVisit(w, f)
    PROVE  DurableAt(tree, gob, tmp, loc'[w], pc'[w])
<1> DEFINE l == loc[w]
<1> DEFINE m == loc'[w]
<1>0. l \in Locals /\ pc[w] = "walk" /\ pc \in [Workers -> Labels]
  BY DEF TypeOK, WalkEnd, WalkVisit
<1>1. CASE WalkEnd(w)
  <2>1. /\ m = [l EXCEPT !.paths = IF l.prev = None THEN Truncated(@) ELSE @]
        /\ pc'[w] = "scan" /\ l.todo = {}
    BY <1>0, <1>1, SetDone DEF WalkEnd, Goto
  <2>2. /\ m.quiet = l.quiet /\ m.job = l.job /\ m.prev = l.prev
        /\ l.prev # None => m.paths = l.paths
    BY ONLY <1>0, <2>1 DEF Locals
  <2>3. WalkSoFar(tree, l) => l.paths = Indexable(tree)
    BY <2>1 DEF WalkSoFar
  <2> QED
    BY ONLY <1>0, <2>1, <2>2, <2>3, QuietAt(tree, l, pc[w]), DurableAt(tree, gob, tmp, l, pc[w])
       DEF QuietAt, DurableAt, Unmoved
<1>2. ASSUME NEW f \in Files, WalkVisit(w, f) PROVE DurableAt(tree, gob, tmp, m, pc'[w])
  <2>1. /\ m = [l EXCEPT !.todo = @ \ {f},
                         !.paths = IF indexableFile(tree[f]) THEN @ \cup {f} ELSE @]
        /\ pc'[w] = "walk"
    BY <1>0, <1>2, SetDone DEF WalkVisit
  <2>2. m.quiet = l.quiet /\ m.job = l.job /\ m.prev = l.prev
    BY ONLY <1>0, <2>1 DEF Locals
  <2> QED
    BY ONLY <1>0, <2>1, <2>2, DurableAt(tree, gob, tmp, l, pc[w]) DEF DurableAt
<1> QED
  BY <1>1, <1>2

LEMMA ScanDurable ==
    ASSUME TypeOK, SoundInv, NEW w \in Workers, QuietAt(tree, loc[w], pc[w]),
           DurableAt(tree, gob, tmp, loc[w], pc[w]), NEW f \in Files,
           StatGone(w, f) \/ StatHit(w, f) \/ StatMiss(w, f) \/ ReadGone(w, f) \/ ReadFile(w, f)
    PROVE  DurableAt(tree, gob, tmp, loc'[w], pc'[w])
<1> DEFINE l == loc[w]
<1> DEFINE m == loc'[w]
<1> DEFINE keeps == m.quiet = l.quiet /\ m.job = l.job /\ m.prev = l.prev
<1> DEFINE free == ~l.quiet \/ l.job = "ingest"
<1>0. l \in Locals /\ pc[w] = "scan" /\ pc'[w] = "scan" /\ f \in l.paths
  BY DEF TypeOK, StatGone, StatHit, StatMiss, ReadGone, ReadFile, Scanning, NextInWalk
<1>1. free \/ (ScanSoFar(tree, l) /\ Unmoved(tree, gob, l))
  BY ONLY <1>0, QuietAt(tree, l, pc[w]), DurableAt(tree, gob, tmp, l, pc[w]) DEF QuietAt, DurableAt
<1>2. keeps /\ (free \/ Unmoved(tree, gob, m)) => DurableAt(tree, gob, tmp, m, pc'[w])
  BY ONLY <1>0 DEF DurableAt
<1>3. free \/ (tree[f] # None /\ StatOK(w, f))
  <2>1. CASE ~free
    <3>1. f \in Indexable(tree)
      BY <1>0, <1>1, <2>1, ListedFacts DEF ScanSoFar
    <3> QED
      BY <3>1, ListedFacts DEF StatOK, Indexable
  <2> QED
    BY <2>1
<1>4. CASE StatGone(w, f) \/ ReadGone(w, f)
  <2>1. free
    BY <1>3, <1>4 DEF StatGone, ReadGone
  <2>2. keeps
    <3>1. CASE StatGone(w, f)
      <4>1. m = [l EXCEPT !.paths = @ \ {f}]
        BY <3>1, SetDone DEF StatGone
      <4> QED
        BY ONLY <1>0, <4>1 DEF Locals
    <3>2. CASE ReadGone(w, f)
      <4>1. m = [l EXCEPT !.paths = @ \ {f}, !.stat[f] = None]
        BY <3>2, SetDone DEF ReadGone
      <4> QED
        BY ONLY <1>0, <4>1 DEF Locals
    <3> QED
      BY <1>4, <3>1, <3>2
  <2> QED
    BY ONLY <1>2, <2>1, <2>2
<1>5. CASE StatHit(w, f)
  <2> DEFINE c == Crawled(tree[f].stamp, PrevEntry(w, f).body)
  <2>1. m = [l EXCEPT !.acc[f] = c, !.paths = @ \ {f}, !.reused = TRUE]
    BY <1>5, SetDone DEF StatHit
  <2>2. l.prev \in Gob /\ l.prev.idx[f] # None
        /\ StampEqual(l.prev.idx[f].stamp, tree[f].stamp)
    BY <1>0, <1>5 DEF StatHit, StampHit, PrevEntry, Locals
  <2>3. free \/ l.prev.idx[f].body = tree[f].body
    BY <1>3, <2>2, PrevEntryCurrent
  <2> HIDE DEF c
  <2>4. keeps /\ m.paths = l.paths \ {f} /\ m.changed = l.changed
    BY ONLY <1>0, <2>1 DEF Locals
  <2>5. free \/ Unmoved(tree, gob, m)
    BY ONLY <1>1, <2>2, <2>3, <2>4 DEF Unmoved
  <2> QED
    BY ONLY <1>2, <2>4, <2>5
<1>6. CASE ReadFile(w, f)
  <2> DEFINE c == Crawled(l.stat[f], tree[f].body)
  <2> DEFINE ch == l.changed \/ ~HashHit(w, f)
  <2> DEFINE re == l.reused \/ HashHit(w, f)
  <2>1. m = [l EXCEPT !.acc[f] = c, !.paths = @ \ {f}, !.stat[f] = None,
                      !.changed = ch, !.reused = re]
    BY <1>6, SetDone DEF ReadFile
  <2>2. ~ch => ~l.changed /\ l.prev.idx[f] # None /\ l.prev.idx[f].body = tree[f].body
    BY DEF HashHit, PrevEntry
  <2> HIDE DEF c, ch, re
  <2>3. keeps /\ m.paths = l.paths \ {f} /\ m.changed = ch
    BY ONLY <1>0, <2>1 DEF Locals
  <2>4. free \/ Unmoved(tree, gob, m)
    BY ONLY <1>1, <2>2, <2>3 DEF Unmoved
  <2> QED
    BY ONLY <1>2, <2>3, <2>4
<1>7. CASE StatMiss(w, f)
  <2>1. m = [l EXCEPT !.stat[f] = tree[f].stamp]
    BY <1>7, SetDone DEF StatMiss
  <2>2. keeps /\ m.paths = l.paths /\ m.changed = l.changed
    BY ONLY <1>0, <2>1 DEF Locals
  <2>3. free \/ Unmoved(tree, gob, m)
    BY ONLY <1>1, <2>2 DEF Unmoved
  <2> QED
    BY ONLY <1>2, <2>2, <2>3
<1> QED
  BY <1>4, <1>5, <1>6, <1>7

LEMMA ScanEndDurable ==
    ASSUME TypeOK, NEW w \in Workers, DurableAt(tree, gob, tmp, loc[w], pc[w]), ScanEnd(w)
    PROVE  DurableAt(tree, gob, tmp, loc'[w], pc'[w])
<1>0. pc[w] = "scan" /\ loc[w].paths = {} /\ pc \in [Workers -> Labels]
  BY DEF TypeOK, ScanEnd
<1>1. CASE NeedsSave(w)
  <2>1. pc'[w] = "guard"
    BY <1>0, <1>1 DEF ScanEnd, ToSave, Goto
  <2> QED
    BY ONLY <2>1 DEF DurableAt
<1>2. CASE ~NeedsSave(w)
  <2>1. pc'[w] = "done" /\ loc' = loc /\ loc[w].prev # None /\ ~loc[w].changed
    BY <1>0, <1>2 DEF ScanEnd, Goto, NeedsSave
  <2>2. Unmoved(tree, gob, loc[w]) => gob # None /\ HasBodies(tree, gob.idx)
    BY <1>0, <2>1, ListedFacts DEF Unmoved, HasBodies
  <2> QED
    BY ONLY <1>0, <2>1, <2>2, DurableAt(tree, gob, tmp, loc[w], pc[w]) DEF DurableAt
<1> QED
  BY <1>1, <1>2

LEMMA SaveDurable ==
    ASSUME TypeOK, NEW w \in Workers, QuietAt(tree, loc[w], pc[w]),
           DurableAt(tree, gob, tmp, loc[w], pc[w]),
           LockGuard(w) \/ LockFile(w) \/ CreateTmp(w) \/ EncodeTmp(w) \/ RenameTmp(w)
           \/ SaveFails(w) \/ Unlock(w) \/ Invalidate(w)
    PROVE  DurableAt(tree, gob', tmp', loc'[w], pc'[w])
<1> DEFINE l == loc[w]
<1> DEFINE m == loc'[w]
<1>0. l \in Locals /\ pc \in [Workers -> Labels]
  BY DEF TypeOK
<1>1. CASE LockGuard(w) \/ LockFile(w) \/ SaveFails(w)
  <2>1. pc'[w] \in {"flock", "create", "abort"}
    BY <1>0, <1>1 DEF LockGuard, LockFile, SaveFails, Goto
  <2> QED
    BY ONLY <2>1 DEF DurableAt
<1>2. CASE CreateTmp(w)
  <2>1. pc'[w] = "encode" /\ m = l /\ tmp' = [by |-> w, idx |-> l.acc, head |-> head, full |-> FALSE]
    BY <1>0, <1>2 DEF CreateTmp, Goto
  <2>2. tmp' \in Draft
    BY <1>0, <2>1 DEF TypeOK, Draft, Locals
  <2>3. tmp' # None
    BY ONLY <2>2, NoneAssumption
  <2>4. tmp'.idx = l.acc
    BY ONLY <2>1
  <2> QED
    BY ONLY <2>1, <2>3, <2>4 DEF DurableAt
<1>3. CASE EncodeTmp(w)
  <2>1. /\ pc[w] = "encode" /\ pc'[w] = "rename" /\ m = l
        /\ tmp' = IF tmp # None /\ tmp.by = w THEN [tmp EXCEPT !.full = TRUE] ELSE tmp
    BY <1>0, <1>3 DEF EncodeTmp, Goto
  <2>2. tmp # None => tmp' # None /\ tmp'.idx = tmp.idx
    <3> SUFFICES ASSUME tmp # None PROVE tmp' # None /\ tmp'.idx = tmp.idx
      OBVIOUS
    <3>1. tmp \in Draft
      BY DEF TypeOK
    <3>2. tmp' \in Draft /\ tmp'.idx = tmp.idx
      BY ONLY <2>1, <3>1 DEF Draft
    <3> QED
      BY ONLY <3>2, NoneAssumption
  <2> QED
    BY ONLY <2>1, <2>2, DurableAt(tree, gob, tmp, l, pc[w]) DEF DurableAt
<1>4. CASE RenameTmp(w)
  <2>1. /\ pc[w] = "rename" /\ pc'[w] = "release" /\ m = l /\ tmp # None
        /\ gob' = [id |-> saves + 1, idx |-> tmp.idx, head |-> tmp.head, full |-> tmp.full]
    BY <1>0, <1>4 DEF RenameTmp, Goto
  <2>2. gob' \in Gob
    <3>1. tmp \in Draft /\ saves \in Nat
      BY <2>1 DEF TypeOK
    <3>2. saves + 1 \in Nat
      BY ONLY <3>1
    <3>3. tmp.idx \in Index /\ tmp.head \in Nat /\ tmp.full \in BOOLEAN
      BY ONLY <3>1 DEF Draft
    <3> QED
      BY ONLY <2>1, <3>2, <3>3, Zenon DEF Gob
  <2>3. gob' # None
    BY ONLY <2>2, NoneAssumption
  <2>4. gob'.idx = tmp.idx
    BY ONLY <2>1
  <2> QED
    BY ONLY <2>1, <2>3, <2>4, DurableAt(tree, gob, tmp, l, pc[w]) DEF DurableAt
<1>5. CASE Unlock(w)
  <2>1. /\ \/ pc[w] = "release" /\ pc'[w] = "invalidate"
           \/ pc[w] = "abort" /\ pc'[w] = "abortInvalidate"
        /\ m = l /\ gob' = gob
    BY <1>0, <1>5 DEF Unlock, Goto
  <2> QED
    BY ONLY <2>1, DurableAt(tree, gob, tmp, l, pc[w]) DEF DurableAt
<1>6. CASE Invalidate(w)
  <2>1. /\ m = [l EXCEPT !.job = IF @ = "rebuild" THEN "ingest" ELSE @]
        /\ pc[w] = "invalidate" /\ pc'[w] \in {"ingestStat", "done"} /\ gob' = gob
    BY <1>0, <1>6, SetDone DEF Invalidate, Goto
  <2>2. m.quiet = l.quiet /\ (m.job # "ingest" => l.job # "ingest")
    BY ONLY <1>0, <2>1 DEF Locals
  <2>3. l.quiet /\ l.job # "ingest" => HasBodies(tree, l.acc)
    BY ONLY <2>1, CompleteHasBodies, QuietAt(tree, l, pc[w]) DEF QuietAt, Saving
  <2> QED
    BY ONLY <2>1, <2>2, <2>3, DurableAt(tree, gob, tmp, l, pc[w]) DEF DurableAt
<1> QED
  BY <1>1, <1>2, <1>3, <1>4, <1>5, <1>6

LEMMA WorkerDurable ==
    ASSUME TypeOK, PrevLoaded, SoundInv, CacheInv, NEW w \in Workers,
           QuietAt(tree, loc[w], pc[w]), DurableAt(tree, gob, tmp, loc[w], pc[w]),
           PrivateStep(w) \/ SharedStep(w)
    PROVE  DurableAt(tree, gob', tmp', loc'[w], pc'[w])
<1>0. pc \in [Workers -> Labels]
  BY DEF TypeOK
<1>1. PrivateStep(w) \/ CachePut(w) => gob' = gob /\ tmp' = tmp
  BY PrivateUnchanged DEF CachePut
<1>2. CASE Return(w) \/ InvalidateFailed(w)
  BY <1>0, <1>2 DEF Return, InvalidateFailed, Leave, Goto, DurableAt
<1>3. ASSUME NEW f \in Files, IngestStat(w, f) \/ IngestGone(w, f) \/ IngestSkip(w, f)
                              \/ IngestRead(w, f)
      PROVE  DurableAt(tree, gob', tmp', loc'[w], pc'[w])
  <2>1. pc'[w] \in {"ingestRead", "guard"}
    BY <1>0, <1>3 DEF IngestStat, IngestGone, IngestSkip, IngestRead, Goto
  <2> QED
    BY ONLY <2>1 DEF DurableAt
<1>4. CASE LoadForIngest(w)
  <2>1. pc'[w] = "ingestStat"
    BY <1>0, <1>4 DEF LoadForIngest, Goto
  <2> QED
    BY ONLY <2>1 DEF DurableAt
<1>5. CASE IgnoresFail(w)
  <2>1. CASE Leave(w)
    BY <1>0, <2>1 DEF Leave, Goto, DurableAt
  <2>2. CASE pc[w] = "warm" /\ Goto(w, "walk") /\ UNCHANGED loc
    <3>1. pc'[w] = "walk" /\ loc' = loc
      BY <1>0, <2>2 DEF Goto
    <3>2. gob' = gob /\ tmp' = tmp
      BY <1>1, <1>5 DEF PrivateStep
    <3> QED
      BY ONLY <2>2, <3>1, <3>2, DurableAt(tree, gob, tmp, loc[w], pc[w]) DEF DurableAt
  <2> QED
    BY <1>5, <2>1, <2>2 DEF IgnoresFail
<1>6. CASE SharedStep(w)
  BY <1>1, <1>2, <1>6, LoadDurable, SaveDurable DEF SharedStep
<1>7. CASE PrivateStep(w)
  BY <1>1, <1>2, <1>3, <1>4, <1>5, <1>7, LoadDurable, WarmDurable, WalkDurable, ScanDurable,
     ScanEndDurable DEF PrivateStep
<1> QED
  BY <1>6, <1>7

LEMMA DurableStep ==
    ASSUME \A v, w \in Workers : v = w
    PROVE  TypeOK /\ PrevLoaded /\ SoundInv /\ QuietInv /\ CacheInv /\ DurableInv /\ [Next]_vars
               => DurableInv'
<1> SUFFICES ASSUME TypeOK, PrevLoaded, SoundInv, QuietInv, CacheInv, DurableInv, [Next]_vars
             PROVE  DurableInv'
  OBVIOUS
<1>1. ASSUME NEW f \in Files, NEW e, Change(f, e) PROVE DurableInv'
  <2> SUFFICES ASSUME NEW w \in Workers, pc[w] # "idle"
               PROVE  ~loc'[w].quiet /\ loc'[w].prev = loc[w].prev
    BY <1>1 DEF Change, DurableInv, DurableAt
  <2>1. loc[w] \in Locals
    BY DEF TypeOK
  <2> DEFINE seen == [loc[w].seen EXCEPT ![f] = @ \cup {BodyOf(e)}]
  <2>2. loc'[w] = [loc[w] EXCEPT !.seen = seen, !.quiet = FALSE]
    BY <1>1 DEF Change
  <2> HIDE DEF seen
  <2> QED
    BY ONLY <2>1, <2>2 DEF Locals
<1>2. CASE GitCommit
  BY <1>2 DEF GitCommit, DurableInv, store
<1>3. ASSUME NEW w \in Workers, NEW j \in Requests, Begin(w, j) PROVE DurableInv'
  <2> DEFINE bodies == [f \in Files |-> {BodyOf(tree[f])}]
  <2>1. loc'[w] = Fresh(j, bodies) /\ pc'[w] \in {"identity", "walk", "load"}
    BY <1>3, SetDone DEF Begin, Goto, TypeOK, Requests
  <2>2. loc'[w].prev = None
    <3>1. Fresh(j, bodies).prev = None
      BY ONLY DEF Fresh
    <3> QED
      BY ONLY <2>1, <3>1
  <2>3. DurableAt(tree', gob', tmp', loc'[w], pc'[w])
    BY ONLY <2>1, <2>2 DEF DurableAt
  <2> QED
    BY <2>3 DEF DurableInv
<1>4. ASSUME NEW w \in Workers, Step(w) \/ IgnoresFail(w) \/ SaveFails(w) PROVE DurableInv'
  <2>1. PrivateStep(w) \/ SharedStep(w)
    BY <1>4, StepKinds
  <2>2. DurableAt(tree, gob', tmp', loc'[w], pc'[w]) /\ tree' = tree
    BY <2>1, WorkerDurable, StoreSound DEF DurableInv, QuietInv
  <2> QED
    BY <2>2 DEF DurableInv
<1>5. ASSUME NEW p \in Procs, Crash(p) PROVE DurableInv'
  BY <1>5 DEF Crash, DurableInv, DurableAt, world
<1>6. CASE UNCHANGED vars
  BY <1>6 DEF vars, world, store, DurableInv
<1> QED
  BY <1>1, <1>2, <1>3, <1>4, <1>5, <1>6 DEF Next, Edit, Delete

\* The index file a quiet refresh leaves behind, written or not, has the body of
\* every file the clean rebuild has, after any history of edits, crashes and failed
\* Saves, when one worker uses the file.  With several the file may be replaced by
\* another's older index between this request's Save and its return.
THEOREM FileIsCurrent ==
    ASSUME \A v, w \in Workers : v = w
    PROVE  Spec => []DurableCurrent
<1>1. Init => DurableInv
  BY DEF Init, DurableInv, DurableAt
<1>2. DurableInv => DurableCurrent
  <2> SUFFICES ASSUME DurableInv, NEW w \in Workers, pc[w] = "done", loc[w].job # "ingest",
                      loc[w].quiet, NEW f \in Files, Rebuild[f] # None
               PROVE  gob.idx[f] # None /\ gob.idx[f].body = Rebuild[f].body
    BY DEF DurableCurrent
  <2>1. HasBodies(tree, gob.idx)
    BY DEF DurableInv, DurableAt
  <2>2. f \in Truncated(Indexable(tree)) /\ Rebuild[f] = tree[f]
    BY DEF Rebuild, Indexable
  <2> QED
    BY <2>1, <2>2 DEF HasBodies
<1> QED
  BY <1>1, <1>2, CacheAlways, DurableStep, PTL DEF Spec

==============================================================================

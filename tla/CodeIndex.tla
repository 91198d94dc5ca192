------------------------------ MODULE CodeIndex ------------------------------
(***************************************************************************)
(* The durable working-tree code index of services/brain/internal/         *)
(* codecrawl: OpenOrRefresh (persist.go), loadCached (index_cache.go),     *)
(* CrawlDir (crawl.go), CrawlDeltaFrom (delta.go), Save and Load           *)
(* (persist.go), and the read-modify-write of the ingest_paths verb        *)
(* (codeserve/handle.go, verbs.go).                                        *)
(*                                                                         *)
(* Several workers (request goroutines) of several OS processes refresh    *)
(* one gob while editors change the tree under them.  A worker is a        *)
(* program counter and its locals; every system call whose answer another  *)
(* actor can change (stat, read, rename, lock) is a step of its own.       *)
(*                                                                         *)
(* An index entry is the stamp and the body it was built from: postings,   *)
(* symbols, hashes and edges are functions of the body.                    *)
(***************************************************************************)
EXTENDS Naturals, FiniteSets

CONSTANTS
    NumFiles,           \* source paths are 1..NumFiles, in walk order
    Workers,            \* request goroutines
    Procs,              \* OS processes sharing the gob
    ProcOf,             \* the process a worker runs in
    Bodies,             \* file contents
    EmptyBody,          \* the zero-length content
    Irregular,          \* a symlink or a file above MaxIndexableFileBytes
    MaxIndexableFiles,  \* crawl.go:40
    None,               \* no file, no entry, no gob, no lock holder
    MaxClock, MaxHead, MaxOps   \* bounds of the model: edits, commits, requests

Files == 1 .. NumFiles

ASSUME ConstantsAssumption ==
    /\ NumFiles \in Nat
    /\ MaxIndexableFiles \in Nat
    /\ ProcOf \in [Workers -> Procs]
    /\ None \notin Bodies
    /\ None \notin Workers
    /\ \A n \in {MaxClock, MaxHead, MaxOps} : n \in Nat

-----------------------------------------------------------------------------
(* Stamps, entries, indexes.                                               *)

\* FileStamp: an edit gives the file a modification time no file had before.
Stamp == [size : {0, 1}, mtime : Nat]

Entry == [stamp : Stamp, body : Bodies]

\* Index: what each path contributes, None for a path that is not indexed.
Index == [Files -> Entry \cup {None}]

EmptyIndex == [f \in Files |-> None]

Gob == [id : Nat, idx : Index, head : Nat, full : BOOLEAN]

\* gobPath.tmp while a Save writes it.
Draft == [by : Workers, idx : Index, head : Nat, full : BOOLEAN]

ASSUME NoneAssumption == None \notin Gob /\ None \notin Entry /\ None \notin Draft

SizeOf(b) == IF b = EmptyBody THEN 0 ELSE 1

\* The content a tree or an index holds for a path, None when it holds none.
BodyOf(e) == IF e = None THEN None ELSE e.body

\* Mutant: the modification time is not compared.
MutStampEqual(a, b) == a.size = b.size /\ a.size > 0

StampEqual(a, b) == a.size = b.size /\ a.mtime = b.mtime /\ a.size > 0

indexableFile(e) == e # None /\ e.body # Irregular

\* The entry of a path whose stat answered s and whose read answered b.
Crawled(s, b) == [stamp |-> s, body |-> b]

IndexedFiles(i) == {f \in Files : i[f] # None}

\* The first MaxIndexableFiles paths of a walk.
Truncated(S) == {f \in S : Cardinality({g \in S : g < f}) < MaxIndexableFiles}

-----------------------------------------------------------------------------
VARIABLES
    tree,     \* the working tree: path -> Entry or None
    clock,    \* the modification time of the latest edit
    head,     \* git HEAD
    gob,      \* the index file: a Gob or None
    saves,    \* identities handed out to gobs so far
    tmp,      \* gobPath.tmp: None or the writer, its snapshot, completeness
    flock,    \* exclusive holder of gobPath.lock, or None
    guard,    \* per process: holder of persistGuard(path), or None
    cache,    \* per process: indexCache entry, or None
    ops       \* operations begun

world == <<tree, clock, head>>
store == <<gob, saves, tmp, flock, guard, cache>>

VARIABLES
    pc,       \* per worker: where it stands
    loc       \* per worker: the request's local variables

vars == <<world, store, ops, pc, loc>>

\* "rebuild" is an ingest whose Load failed and that crawls the tree first.
Requests == {"refresh", "force", "ingest"}
Jobs == Requests \cup {"rebuild"}

Labels ==
    {"idle", "identity", "lookup", "load", "decode", "restat", "cachePut",
     "warm", "walk", "scan", "ingestStat", "ingestRead", "guard", "flock", "create",
     "encode", "rename", "release", "invalidate", "done", "abort",
     "abortInvalidate"}

Locals ==
    [job     : Jobs,
     sid     : Nat,                  \* identity loadCached statted, 0 for none
     prev    : Gob \cup {None},      \* the index a delta starts from
     acc     : Index,                \* the index being built and returned
     todo    : SUBSET Files,         \* paths a walk has yet to visit
     paths   : SUBSET Files,         \* paths listed, still to be scanned
     stat    : [Files -> Stamp \cup {None}],   \* stamps awaiting their read
     warm    : BOOLEAN,              \* stAllStampsMatch has not failed yet
     changed : BOOLEAN,              \* Stats.Changed > 0
     reused  : BOOLEAN,              \* Stats.Unchanged > 0
     seen    : [Files -> SUBSET (Bodies \cup {None})],
                                     \* observation: bodies since the start
     quiet   : BOOLEAN]              \* observation: no edit since the start

\* The locals of a request that begins when the tree holds these bodies.
Fresh(j, bodies) ==
    [job |-> j, sid |-> 0, prev |-> None, acc |-> EmptyIndex, todo |-> Files,
     paths |-> {}, stat |-> [f \in Files |-> None], warm |-> TRUE,
     changed |-> FALSE, reused |-> FALSE, seen |-> bodies, quiet |-> TRUE]

Gone == Fresh("refresh", [f \in Files |-> {}])

\* The index a crawl of the tree as it stands builds from nothing.
Rebuild ==
    LET listed == Truncated({f \in Files : indexableFile(tree[f])}) IN
    [f \in Files |-> IF f \in listed THEN tree[f] ELSE None]

\* The index file is missing, or was built from the tree as it stands.
Init ==
    /\ tree \in [Files -> {None} \cup {Crawled([size |-> SizeOf(b), mtime |-> 0], b) : b \in Bodies}]
    /\ clock = 0
    /\ head = 0
    /\ saves \in {0, 1}
    /\ gob = IF saves = 0 THEN None
             ELSE [id |-> 1, idx |-> Rebuild, head |-> 0, full |-> TRUE]
    /\ tmp = None
    /\ flock = None
    /\ guard = [p \in Procs |-> None]
    /\ cache = [p \in Procs |-> None]
    /\ ops = 0
    /\ pc = [w \in Workers |-> "idle"]
    /\ loc = [w \in Workers |-> Gone]

-----------------------------------------------------------------------------
(* The environment: editors and git.                                       *)

\* A path comes to hold e; every request in flight saw the change.
Change(f, e) ==
    /\ tree' = [tree EXCEPT ![f] = e]
    /\ loc' = [w \in Workers |->
                 IF pc[w] = "idle" THEN loc[w]
                 ELSE [loc[w] EXCEPT !.seen[f] = @ \cup {BodyOf(e)}, !.quiet = FALSE]]
    /\ UNCHANGED <<head, store, ops, pc>>

\* Writing, creating or touching a file stamps it with a new time.
Edit(f, b) ==
    /\ clock < MaxClock
    /\ clock' = clock + 1
    /\ Change(f, Crawled([size |-> SizeOf(b), mtime |-> clock + 1], b))

Delete(f) ==
    /\ tree[f] # None
    /\ Change(f, None)
    /\ UNCHANGED clock

GitCommit ==
    /\ head < MaxHead
    /\ head' = head + 1
    /\ UNCHANGED <<tree, clock, store, ops, pc, loc>>

Goto(w, l) == pc' = [pc EXCEPT ![w] = l]

Set(w, l) == loc' = [loc EXCEPT ![w] = l]

-----------------------------------------------------------------------------
(* OpenOrRefresh and ingest_paths begin.                                   *)

Begin(w, j) ==
    /\ pc[w] = "idle"
    /\ ops < MaxOps
    /\ ops' = ops + 1
    /\ Goto(w, CASE j = "refresh" -> "identity"
                 [] j = "force"   -> "walk"
                 [] j = "ingest"  -> "load")
    /\ Set(w, Fresh(j, [f \in Files |-> {BodyOf(tree[f])}]))
    /\ UNCHANGED <<world, store>>

-----------------------------------------------------------------------------
(* loadCached and Load.                                                    *)

IdentityStat(w) ==
    /\ pc[w] = "identity"
    /\ Set(w, [loc[w] EXCEPT !.sid = IF gob = None THEN 0 ELSE gob.id])
    /\ Goto(w, IF gob = None THEN "load" ELSE "lookup")
    /\ UNCHANGED <<world, store, ops>>

CacheHit(w) == cache[ProcOf[w]] # None /\ cache[ProcOf[w]].id = loc[w].sid

CacheServe(w) ==
    /\ pc[w] = "lookup"
    /\ CacheHit(w)
    /\ Set(w, [loc[w] EXCEPT !.prev = cache[ProcOf[w]].snap])
    /\ Goto(w, "warm")
    /\ UNCHANGED <<world, store, ops>>

CacheMiss(w) ==
    /\ pc[w] = "lookup"
    /\ ~CacheHit(w)
    /\ Goto(w, "load")
    /\ UNCHANGED <<world, store, ops, loc>>

\* Load takes the guard of its process first and holds it while it waits for
\* the lock file, whoever holds that.
LoadGuard(w) ==
    /\ pc[w] = "load"
    /\ guard[ProcOf[w]] = None
    /\ guard' = [guard EXCEPT ![ProcOf[w]] = w]
    /\ Goto(w, "decode")
    /\ UNCHANGED <<world, gob, saves, tmp, flock, cache, ops, loc>>

\* The file is open and read; the deferred guard.Unlock is part of the return.
Decoding(w) ==
    /\ pc[w] = "decode"
    /\ guard' = [guard EXCEPT ![ProcOf[w]] = None]
    /\ UNCHANGED <<world, gob, saves, tmp, flock, cache, ops>>

Decodes == gob # None /\ gob.full

\* No gob, or one that does not decode: OpenOrRefresh crawls from nothing, and
\* ingest_paths rebuilds by force.
LoadError(w) ==
    /\ Decoding(w)
    /\ ~Decodes
    /\ Set(w, [loc[w] EXCEPT !.job = IF @ = "ingest" THEN "rebuild" ELSE @])
    /\ Goto(w, "walk")

LoadIndex(w) ==
    /\ Decoding(w)
    /\ Decodes
    /\ loc[w].job = "refresh"
    /\ Set(w, [loc[w] EXCEPT !.prev = gob])
    /\ Goto(w, IF loc[w].sid = 0 THEN "warm" ELSE "restat")

LoadForIngest(w) ==
    /\ Decoding(w)
    /\ Decodes
    /\ loc[w].job = "ingest"
    /\ Set(w, [loc[w] EXCEPT !.acc = gob.idx])
    /\ Goto(w, "ingestStat")

\* The lock file is shared with other loads and excludes the holder of flock.  It
\* is best effort: a load that cannot lock (a read-only directory) reads all the
\* same, beside a Save that may be under way.
MayShareLock(w) == pc[w] = "decode" => flock = None

\* The file decoded is the file statted before: its identity has not moved.
SameIdentity(w) == gob # None /\ gob.id = loc[w].sid

RestatIdentity(w) ==
    /\ pc[w] = "restat"
    /\ Goto(w, IF SameIdentity(w) THEN "cachePut" ELSE "warm")
    /\ UNCHANGED <<world, store, ops, loc>>

\* Mutant: the entry is keyed by the identity the file has when it is inserted.
MutCachePut(w) ==
    /\ pc[w] = "cachePut"
    /\ cache' = [cache EXCEPT ![ProcOf[w]] = [id |-> gob.id, snap |-> loc[w].prev]]
    /\ Goto(w, "warm")
    /\ UNCHANGED <<world, gob, saves, tmp, flock, guard, ops, loc>>

CachePut(w) ==
    /\ pc[w] = "cachePut"
    /\ cache' = [cache EXCEPT ![ProcOf[w]] = [id |-> loc[w].sid, snap |-> loc[w].prev]]
    /\ Goto(w, "warm")
    /\ UNCHANGED <<world, gob, saves, tmp, flock, guard, ops, loc>>

-----------------------------------------------------------------------------
(* stAllStampsMatch: the warm path.                                        *)

NextInWalk(S, f) == f \in S /\ \A g \in S : f <= g

\* Mutant: paths the index does not know are not counted.
MutStampMatches(e, t) == e = None \/ (t # None /\ StampEqual(e.stamp, t.stamp))

\* The census takes every source path, indexable or not.
StampMatches(e, t) ==
    IF e = None THEN t = None ELSE t # None /\ StampEqual(e.stamp, t.stamp)

WarmVisit(w, f) ==
    /\ pc[w] = "warm"
    /\ NextInWalk(loc[w].todo, f)
    /\ Set(w, [loc[w] EXCEPT !.todo = @ \ {f},
                             !.warm = @ /\ StampMatches(loc[w].prev.idx[f], tree[f])])
    /\ UNCHANGED <<world, store, ops, pc>>

AllStampsMatched(w) == loc[w].warm /\ IndexedFiles(loc[w].prev.idx) # {}

\* Every stamp matched: the previous index is the answer.
WarmHit(w) ==
    /\ pc[w] = "warm"
    /\ loc[w].todo = {}
    /\ AllStampsMatched(w)
    /\ Set(w, [loc[w] EXCEPT !.acc = loc[w].prev.idx])
    /\ Goto(w, "done")
    /\ UNCHANGED <<world, store, ops>>

WarmMiss(w) ==
    /\ pc[w] = "warm"
    /\ loc[w].todo = {}
    /\ ~AllStampsMatched(w)
    /\ Set(w, [loc[w] EXCEPT !.todo = Files, !.warm = TRUE])
    /\ Goto(w, "walk")
    /\ UNCHANGED <<world, store, ops>>

-----------------------------------------------------------------------------
(* CrawlDir (prev = None) and CrawlDeltaFrom (prev # None).                *)

WalkVisit(w, f) ==
    /\ pc[w] = "walk"
    /\ NextInWalk(loc[w].todo, f)
    /\ Set(w, [loc[w] EXCEPT !.todo = @ \ {f},
                             !.paths = IF indexableFile(tree[f]) THEN @ \cup {f} ELSE @])
    /\ UNCHANGED <<world, store, ops, pc>>

\* Only the full crawl applies MaxIndexableFiles.
WalkEnd(w) ==
    /\ pc[w] = "walk"
    /\ loc[w].todo = {}
    /\ Set(w, [loc[w] EXCEPT !.paths = IF loc[w].prev = None THEN Truncated(@) ELSE @])
    /\ Goto(w, "scan")
    /\ UNCHANGED <<world, store, ops>>

\* The request ends and its locals with it.
Leave(w) ==
    /\ Set(w, Gone)
    /\ Goto(w, "idle")

\* repoignore.Load fails: a crawl or an ingest returns the error and nothing is
\* written; the stamp census only answers that the stamps do not match.
IgnoresFail(w) ==
    /\ \/ pc[w] = "walk" /\ loc[w].todo = Files /\ Leave(w)
       \/ pc[w] = "ingestStat" /\ Leave(w)
       \/ pc[w] = "warm" /\ loc[w].todo = Files /\ Goto(w, "walk") /\ UNCHANGED loc
    /\ UNCHANGED <<world, store, ops>>

\* The delta scans its list in order; the goroutines of a full crawl do not.
Scanning(w, f) ==
    /\ pc[w] = "scan"
    /\ IF loc[w].prev = None THEN f \in loc[w].paths ELSE NextInWalk(loc[w].paths, f)

\* What the previous index holds for a path.
PrevEntry(w, f) == IF loc[w].prev = None THEN None ELSE loc[w].prev.idx[f]

\* The previous entry still describes the file on disk.
StampHit(w, f) ==
    PrevEntry(w, f) # None /\ StampEqual(PrevEntry(w, f).stamp, tree[f].stamp)

\* os.Stat answers; the full crawl also asks for an indexable file again.
StatOK(w, f) == IF loc[w].prev = None THEN indexableFile(tree[f]) ELSE tree[f] # None

StatGone(w, f) ==
    /\ Scanning(w, f)
    /\ loc[w].stat[f] = None
    /\ ~StatOK(w, f)
    /\ Set(w, [loc[w] EXCEPT !.paths = @ \ {f}])
    /\ UNCHANGED <<world, store, ops, pc>>

\* A stamp hit reuses the previous entry without reading the body.
StatHit(w, f) ==
    /\ Scanning(w, f)
    /\ loc[w].stat[f] = None
    /\ StatOK(w, f)
    /\ StampHit(w, f)
    /\ Set(w, [loc[w] EXCEPT !.acc[f] = Crawled(tree[f].stamp, PrevEntry(w, f).body),
                             !.paths = @ \ {f},
                             !.reused = TRUE])
    /\ UNCHANGED <<world, store, ops, pc>>

StatMiss(w, f) ==
    /\ Scanning(w, f)
    /\ loc[w].stat[f] = None
    /\ StatOK(w, f)
    /\ ~StampHit(w, f)
    /\ Set(w, [loc[w] EXCEPT !.stat[f] = tree[f].stamp])
    /\ UNCHANGED <<world, store, ops, pc>>

ReadGone(w, f) ==
    /\ Scanning(w, f)
    /\ loc[w].stat[f] # None
    /\ tree[f] = None
    /\ Set(w, [loc[w] EXCEPT !.paths = @ \ {f}, !.stat[f] = None])
    /\ UNCHANGED <<world, store, ops, pc>>

\* The body hashes to what the previous index holds for the path.
HashHit(w, f) == PrevEntry(w, f) # None /\ PrevEntry(w, f).body = tree[f].body

\* Mutant: the stamp is taken after the read, in a step of its own.
MutReadFile(w, f) ==
    /\ Scanning(w, f)
    /\ loc[w].stat[f] # None
    /\ tree[f] # None
    /\ Set(w, IF loc[w].acc[f] = None
              THEN [loc[w] EXCEPT !.acc[f] = Crawled(loc[w].stat[f], tree[f].body),
                                  !.changed = @ \/ ~HashHit(w, f),
                                  !.reused = @ \/ HashHit(w, f)]
              ELSE [loc[w] EXCEPT !.acc[f] = Crawled(tree[f].stamp, @.body),
                                  !.paths = @ \ {f},
                                  !.stat[f] = None])
    /\ UNCHANGED <<world, store, ops, pc>>

ReadFile(w, f) ==
    /\ Scanning(w, f)
    /\ loc[w].stat[f] # None
    /\ tree[f] # None
    /\ Set(w, [loc[w] EXCEPT !.acc[f] = Crawled(loc[w].stat[f], tree[f].body),
                             !.paths = @ \ {f},
                             !.stat[f] = None,
                             !.changed = @ \/ ~HashHit(w, f),
                             !.reused = @ \/ HashHit(w, f)])
    /\ UNCHANGED <<world, store, ops, pc>>

\* Mutant: changed files are counted as reused.
MutNeedsSave(w) ==
    \/ loc[w].prev = None
    \/ ~(loc[w].changed \/ loc[w].reused)
    \/ loc[w].prev.head # head

\* wrote || meta.GitHead != gitHead(root), persist.go:375-376.
NeedsSave(w) ==
    \/ loc[w].prev = None
    \/ loc[w].changed \/ ~loc[w].reused
    \/ loc[w].prev.head # head

\* The locals Save does not use are dead from here on.
ToSave(w) ==
    /\ Set(w, [Fresh(loc[w].job, loc[w].seen) EXCEPT !.acc = loc[w].acc,
                                                     !.quiet = loc[w].quiet])
    /\ Goto(w, "guard")

ScanEnd(w) ==
    /\ pc[w] = "scan"
    /\ loc[w].paths = {}
    /\ IF NeedsSave(w) THEN ToSave(w) ELSE Goto(w, "done") /\ UNCHANGED loc
    /\ UNCHANGED <<world, store, ops>>

-----------------------------------------------------------------------------
(* IngestPaths: one path of the request, stat before read.                 *)

IngestStat(w, f) ==
    /\ pc[w] = "ingestStat"
    /\ indexableFile(tree[f])
    /\ Set(w, [loc[w] EXCEPT !.stat[f] = tree[f].stamp])
    /\ Goto(w, "ingestRead")
    /\ UNCHANGED <<world, store, ops>>

\* A path that is gone leaves the index.
IngestGone(w, f) ==
    /\ pc[w] = "ingestStat"
    /\ tree[f] = None
    /\ Set(w, [loc[w] EXCEPT !.acc[f] = None])
    /\ Goto(w, "guard")
    /\ UNCHANGED <<world, store, ops>>

\* A path that cannot be indexed, or vanishes before the read, is skipped.
IngestSkip(w, f) ==
    /\ \/ pc[w] = "ingestStat" /\ tree[f] # None /\ ~indexableFile(tree[f])
       \/ pc[w] = "ingestRead" /\ loc[w].stat[f] # None /\ tree[f] = None
    /\ Set(w, [loc[w] EXCEPT !.stat[f] = None])
    /\ Goto(w, "guard")
    /\ UNCHANGED <<world, store, ops>>

IngestRead(w, f) ==
    /\ pc[w] = "ingestRead"
    /\ loc[w].stat[f] # None
    /\ tree[f] # None
    /\ Set(w, [loc[w] EXCEPT !.acc[f] = Crawled(loc[w].stat[f], tree[f].body),
                             !.stat[f] = None])
    /\ Goto(w, "guard")
    /\ UNCHANGED <<world, store, ops>>

-----------------------------------------------------------------------------
(* Save.                                                                   *)

LockGuard(w) ==
    /\ pc[w] = "guard"
    /\ guard[ProcOf[w]] = None
    /\ guard' = [guard EXCEPT ![ProcOf[w]] = w]
    /\ Goto(w, "flock")
    /\ UNCHANGED <<world, gob, saves, tmp, flock, cache, ops, loc>>

\* Mutant: a writer goes on without the exclusive lock.
MutLockFile(w) ==
    /\ pc[w] = "flock"
    /\ flock' = w
    /\ Goto(w, "create")
    /\ UNCHANGED <<world, gob, saves, tmp, guard, cache, ops, loc>>

LockFile(w) ==
    /\ pc[w] = "flock"
    /\ flock = None
    /\ flock' = w
    /\ Goto(w, "create")
    /\ UNCHANGED <<world, gob, saves, tmp, guard, cache, ops, loc>>

\* The HEAD recorded is the one of this moment, not the one of the crawl.
CreateTmp(w) ==
    /\ pc[w] = "create"
    /\ tmp' = [by |-> w, idx |-> loc[w].acc, head |-> head, full |-> FALSE]
    /\ Goto(w, "encode")
    /\ UNCHANGED <<world, gob, saves, flock, guard, cache, ops, loc>>

\* The descriptor outlives the name: bytes reach the file under the name only
\* while it is the one this worker created.
EncodeTmp(w) ==
    /\ pc[w] = "encode"
    /\ tmp' = IF tmp # None /\ tmp.by = w THEN [tmp EXCEPT !.full = TRUE] ELSE tmp
    /\ Goto(w, "rename")
    /\ UNCHANGED <<world, gob, saves, flock, guard, cache, ops, loc>>

RenameTmp(w) ==
    /\ pc[w] = "rename"
    /\ tmp # None
    /\ saves' = saves + 1
    /\ gob' = [id |-> saves + 1, idx |-> tmp.idx, head |-> tmp.head, full |-> tmp.full]
    /\ tmp' = None
    /\ Goto(w, "release")
    /\ UNCHANGED <<world, flock, guard, cache, ops, loc>>

\* Any system call of Save may fail.  The temporary file is removed by name
\* once it may exist; a failed directory sync leaves the new gob in place.
SaveFails(w) ==
    /\ pc[w] \in {"flock", "create", "encode", "rename", "release"}
    /\ tmp' = IF pc[w] \in {"create", "encode", "rename"} THEN None ELSE tmp
    /\ Goto(w, "abort")
    /\ UNCHANGED <<world, gob, saves, flock, guard, cache, ops, loc>>

\* Mutant: an error return forgets the lock file.
MutUnlock(w) ==
    /\ pc[w] \in {"release", "abort"}
    /\ flock' = IF flock = w /\ pc[w] = "release" THEN None ELSE flock
    /\ guard' = [guard EXCEPT ![ProcOf[w]] = None]
    /\ Goto(w, IF pc[w] = "release" THEN "invalidate" ELSE "abortInvalidate")
    /\ UNCHANGED <<world, gob, saves, tmp, cache, ops, loc>>

\* The deferred release and guard.Unlock.
Unlock(w) ==
    /\ pc[w] \in {"release", "abort"}
    /\ flock' = IF flock = w THEN None ELSE flock
    /\ guard' = [guard EXCEPT ![ProcOf[w]] = None]
    /\ Goto(w, IF pc[w] = "release" THEN "invalidate" ELSE "abortInvalidate")
    /\ UNCHANGED <<world, gob, saves, tmp, cache, ops, loc>>

\* The deferred invalidateCachedIndex runs last.
Invalidate(w) ==
    /\ pc[w] = "invalidate"
    /\ cache' = [cache EXCEPT ![ProcOf[w]] = None]
    /\ Goto(w, IF loc[w].job = "rebuild" THEN "ingestStat" ELSE "done")
    /\ Set(w, [loc[w] EXCEPT !.job = IF @ = "rebuild" THEN "ingest" ELSE @])
    /\ UNCHANGED <<world, gob, saves, tmp, flock, guard, ops>>

InvalidateFailed(w) ==
    /\ pc[w] = "abortInvalidate"
    /\ cache' = [cache EXCEPT ![ProcOf[w]] = None]
    /\ Leave(w)
    /\ UNCHANGED <<world, gob, saves, tmp, flock, guard, ops>>

Return(w) ==
    /\ pc[w] = "done"
    /\ Leave(w)
    /\ UNCHANGED <<world, store, ops>>

-----------------------------------------------------------------------------
(* A process dies: its memory and its locks go, its files stay.            *)

Crash(p) ==
    /\ \E w \in Workers : ProcOf[w] = p /\ pc[w] # "idle"
    /\ pc' = [w \in Workers |-> IF ProcOf[w] = p THEN "idle" ELSE pc[w]]
    /\ flock' = IF flock # None /\ ProcOf[flock] = p THEN None ELSE flock
    /\ guard' = [guard EXCEPT ![p] = None]
    /\ cache' = [cache EXCEPT ![p] = None]
    /\ loc' = [w \in Workers |-> IF ProcOf[w] = p THEN Gone ELSE loc[w]]
    /\ UNCHANGED <<world, gob, saves, tmp, ops>>

Step(w) ==
    \/ IdentityStat(w) \/ CacheServe(w) \/ CacheMiss(w) \/ LoadGuard(w)
    \/ LoadError(w) \/ LoadIndex(w) \/ LoadForIngest(w) \/ RestatIdentity(w)
    \/ CachePut(w) \/ WarmHit(w) \/ WarmMiss(w)
    \/ WalkEnd(w) \/ ScanEnd(w)
    \/ \E f \in Files :
          \/ WarmVisit(w, f) \/ WalkVisit(w, f)
          \/ StatGone(w, f) \/ StatHit(w, f) \/ StatMiss(w, f)
          \/ ReadGone(w, f) \/ ReadFile(w, f)
          \/ IngestStat(w, f) \/ IngestGone(w, f) \/ IngestSkip(w, f)
          \/ IngestRead(w, f)
    \/ LockGuard(w) \/ LockFile(w) \/ CreateTmp(w) \/ EncodeTmp(w)
    \/ RenameTmp(w) \/ Unlock(w) \/ Invalidate(w) \/ InvalidateFailed(w)
    \/ Return(w)

Next ==
    \/ \E f \in Files, b \in Bodies : Edit(f, b)
    \/ \E f \in Files : Delete(f)
    \/ GitCommit
    \/ \E w \in Workers :
          \/ \E j \in Requests : Begin(w, j)
          \/ Step(w)
          \/ IgnoresFail(w)
          \/ SaveFails(w)
    \/ \E p \in Procs : Crash(p)

Spec == Init /\ [][Next]_vars

\* A goroutine that can run does, and flock and the guard wake a waiter.  Nothing
\* is assumed of a load whose lock is held elsewhere: it is not counted on to fail
\* to lock and to read without it.
Fairness == \A w \in Workers : WF_vars(MayShareLock(w) /\ Step(w))

FairSpec == Spec /\ Fairness

-----------------------------------------------------------------------------
(* Properties.                                                             *)

TypeOK ==
    /\ tree \in [Files -> Entry \cup {None}]
    /\ clock \in Nat /\ head \in Nat /\ saves \in Nat /\ ops \in Nat
    /\ gob \in Gob \cup {None}
    /\ tmp \in Draft \cup {None}
    /\ flock \in Workers \cup {None}
    /\ guard \in [Procs -> Workers \cup {None}]
    /\ cache \in [Procs -> [id : Nat, snap : Gob] \cup {None}]
    /\ pc \in [Workers -> Labels]
    /\ loc \in [Workers -> Locals]

\* An entry that carries the stamp the file has now has the file's body.
SoundEntry(f, e) ==
    (e # None /\ tree[f] # None /\ e.stamp = tree[f].stamp) => e.body = tree[f].body

SoundIndex(i) == \A f \in Files : SoundEntry(f, i[f])

\* No index a request can start from claims a stamp whose body it does not
\* hold, in the gob or in the cache of any process: the stamp fast paths of
\* stAllStampsMatch and CrawlDeltaFrom may trust it.  Rests on the order
\* "stat, then read" of CrawlDir, CrawlDeltaFrom and IngestPaths.
StampSound ==
    /\ gob # None => SoundIndex(gob.idx)
    /\ \A p \in Procs : cache[p] # None => SoundIndex(cache[p].snap.idx)

\* A cache entry filed under the identity of the gob on disk is that gob:
\* loadCached never serves a replaced index, whatever Save landed while it
\* was decoding.
CacheCoherent ==
    \A p \in Procs :
        (cache[p] # None /\ gob # None /\ cache[p].id = gob.id) => cache[p].snap = gob

\* A crash, a failed write or a second writer never leaves a partial gob
\* under the index path (the promise in Save's comment, persist.go:140-142).
GobComplete == gob # None => gob.full

\* What a refresh returns for a path is what the path held at some moment of
\* the request: stamp reuse never serves content older than the request.
ServedCurrent ==
    \A w \in Workers :
        (pc[w] = "done" /\ loc[w].job # "ingest") =>
            \A f \in Files : loc[w].acc[f] # None => loc[w].acc[f].body \in loc[w].seen[f]

\* A refresh during which nobody edits returns what a clean rebuild would:
\* additions, changes, deletions and renames since the previous index are all
\* in it, and nothing else is.
RefreshEqualsRebuild ==
    \A w \in Workers :
        (pc[w] = "done" /\ loc[w].job # "ingest" /\ loc[w].quiet) => loc[w].acc = Rebuild

\* Every request returns: neither the guard and the lock file, of which a load or
\* a save holds the first while it waits for a save of another process to give up
\* the second (persist.go:157-163, 240-248), nor a writer that failed or died can
\* block a request for ever.
RequestsReturn == \A w \in Workers : pc[w] # "idle" ~> pc[w] = "idle"

\* The index file a quiet refresh leaves behind, written or not, has the body of
\* every file the clean rebuild has; all that may be old in it are stamps of files
\* whose body is unchanged and files that are gone, as a refresh that finds only
\* those is not written out (persist.go:375).
DurableCurrent ==
    \A w \in Workers : (pc[w] = "done" /\ loc[w].job # "ingest" /\ loc[w].quiet) =>
        \A f \in Files : Rebuild[f] # None => gob.idx[f] # None /\ gob.idx[f].body = Rebuild[f].body

-----------------------------------------------------------------------------
(* The inductive invariant behind the safety properties.                   *)

\* A request past its Load holds the index it loaded.
PrevLoaded ==
    \A w \in Workers : pc[w] \in {"restat", "cachePut", "warm"} => loc[w].prev \in Gob

\* An entry for f, held anywhere while the tree is t and the latest edit c,
\* was stamped no later than c, and has f's body if it has f's stamp.
GoodEntry(t, c, f, e) ==
    e # None =>
        /\ e.stamp.mtime <= c
        /\ (t[f] # None /\ e.stamp = t[f].stamp) => e.body = t[f].body

GoodIndex(t, c, i) == \A f \in Files : GoodEntry(t, c, f, i[f])

GoodLocals(t, c, l) ==
    /\ GoodIndex(t, c, l.acc)
    /\ l.prev # None => GoodIndex(t, c, l.prev.idx)
    /\ \A f \in Files : l.stat[f] # None => l.stat[f].mtime <= c

\* StampSound extended to the indexes in flight, and to the clock.
SoundInv ==
    /\ \A f \in Files : tree[f] # None => tree[f].stamp.mtime <= clock
    /\ gob # None => GoodIndex(tree, clock, gob.idx)
    /\ tmp # None => GoodIndex(tree, clock, tmp.idx)
    /\ \A p \in Procs : cache[p] # None => GoodIndex(tree, clock, cache[p].snap.idx)
    /\ \A w \in Workers : GoodLocals(tree, clock, loc[w])

\* CacheCoherent extended to the index a request is about to cache.
CacheInv ==
    /\ gob # None => gob.id <= saves
    /\ \A p \in Procs :
          cache[p] # None =>
              /\ cache[p].id <= saves
              /\ (gob # None /\ gob.id = cache[p].id) => cache[p].snap = gob
    /\ \A w \in Workers :
          /\ loc[w].sid <= saves
          /\ (pc[w] \in {"restat", "cachePut"} /\ gob # None /\ gob.id = loc[w].sid)
                => loc[w].prev = gob

\* The holder of the lock file owns the temporary file.
LockInv ==
    /\ gob # None => gob.full
    /\ \A w \in Workers :
          /\ pc[w] \in {"create", "encode", "rename", "release"} => flock = w
          /\ pc[w] \in {"encode", "rename"} => tmp # None /\ tmp.by = w
          /\ pc[w] = "rename" => tmp.full

IndInv == PrevLoaded /\ SoundInv /\ CacheInv /\ LockInv

-----------------------------------------------------------------------------
(* What a request holds at each point of its way: ServedCurrent,           *)
(* RefreshEqualsRebuild and DurableCurrent extended to requests in flight. *)

BeforeWarm == {"identity", "lookup", "load", "decode", "restat", "cachePut"}
Saving == {"guard", "flock", "create", "encode", "rename", "release", "invalidate"}

\* Nothing is listed, statted or read yet.
Untouched(l) ==
    l.acc = EmptyIndex /\ l.todo = Files /\ l.paths = {} /\ \A f \in Files : l.stat[f] = None

\* A request that is not an ingest holds only bodies its paths have had since it
\* began, and so does the index it loaded where the census has found it current.
ServedAt(t, l, at) ==
    at # "idle" =>
        /\ \A f \in Files : BodyOf(t[f]) \in l.seen[f]
        /\ at \in BeforeWarm => Untouched(l)
        /\ l.job # "ingest" => \A f \in Files : l.acc[f] # None => l.acc[f].body \in l.seen[f]
        /\ at = "warm" /\ l.warm =>
               \A f \in Files \ l.todo :
                   l.prev.idx[f] # None => l.prev.idx[f].body \in l.seen[f]

ServedInv == \A w \in Workers : ServedAt(tree, loc[w], pc[w])

\* The paths a crawl of the tree t lists.
Indexable(t) == {f \in Files : indexableFile(t[f])}
Listed(t, prev) == IF prev = None THEN Truncated(Indexable(t)) ELSE Indexable(t)

\* Index i has every file a clean rebuild from t has, as it is, and no file that
\* is gone.
Complete(t, i) ==
    \A f \in Files : /\ f \in Truncated(Indexable(t)) => i[f] = t[f]
                     /\ t[f] = None => i[f] = None

\* A request during which nobody edits has, of the paths it has visited, what the
\* tree holds: in the census, in the walk, and in the scan.
CensusSoFar(t, l) ==
    /\ l.acc = EmptyIndex /\ l.paths = {} /\ \A f \in Files : l.stat[f] = None
    /\ l.warm => \A f \in Files \ l.todo : StampMatches(l.prev.idx[f], t[f])

WalkSoFar(t, l) ==
    /\ l.acc = EmptyIndex /\ \A f \in Files : l.stat[f] = None
    /\ l.paths = Indexable(t) \ l.todo

ScanSoFar(t, l) ==
    /\ l.paths \subseteq Listed(t, l.prev)
    /\ \A f \in Files :
           /\ f \in l.paths => l.stat[f] \in {None, t[f].stamp}
           /\ f \in Listed(t, l.prev) \ l.paths => l.acc[f] = t[f]
           /\ f \notin Listed(t, l.prev) => l.acc[f] = None

QuietAt(t, l, at) ==
    at # "idle" /\ l.quiet /\ l.job # "ingest" =>
        /\ at \notin {"ingestStat", "ingestRead"}
        /\ at = "warm" => CensusSoFar(t, l)
        /\ at = "walk" => WalkSoFar(t, l)
        /\ at = "scan" => ScanSoFar(t, l)
        /\ at \in Saving \cup {"done"} => Complete(t, l.acc)

QuietInv == \A w \in Workers : QuietAt(tree, loc[w], pc[w])

\* What a refresh returns when nobody edits while it runs, also where there are
\* irregular files and more files than MaxIndexableFiles.
QuietComplete ==
    \A w \in Workers :
        (pc[w] = "done" /\ loc[w].job # "ingest" /\ loc[w].quiet) => Complete(tree, loc[w].acc)

\* Index i has the body of every file a clean rebuild from t has.
HasBodies(t, i) ==
    \A f \in Truncated(Indexable(t)) : i[f] # None /\ i[f].body = t[f].body

\* The index loaded is the one on disk, and as long as nothing is found changed it
\* has the bodies of the paths scanned.
Unmoved(t, g, l) ==
    l.prev # None =>
        /\ l.prev = g
        /\ ~l.changed => \A f \in Indexable(t) \ l.paths :
                             g.idx[f] # None /\ g.idx[f].body = t[f].body

\* What the index file g, and the temporary file d, are to the only request at
\* work on them, when nobody edits.
DurableAt(t, g, d, l, at) ==
    /\ at \in {"identity", "lookup", "load", "decode"} => l.prev = None
    /\ at # "idle" /\ l.quiet /\ l.job # "ingest" =>
           /\ at = "lookup" => g # None /\ g.id = l.sid
           /\ at \in {"restat", "cachePut", "warm"} => l.prev = g
           /\ at = "walk" /\ l.prev # None => l.prev = g
           /\ at = "scan" => Unmoved(t, g, l)
           /\ at \in {"encode", "rename"} => d # None /\ d.idx = l.acc
           /\ at \in {"release", "invalidate"} => g # None /\ g.idx = l.acc
           /\ at = "done" => g # None /\ HasBodies(t, g.idx)

DurableInv == \A w \in Workers : DurableAt(tree, gob, tmp, loc[w], pc[w])

=============================================================================

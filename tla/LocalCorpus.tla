---------------------------- MODULE LocalCorpus ----------------------------
(***************************************************************************)
(* services/brain/internal/hosted, durableStore: the corpus of a local     *)
(* brain, held in memory by MemoryChunkStore and written to chunks.jsonl   *)
(* and sidecars.jsonl, each with an append-only delta that a restart lays  *)
(* over it.  Calls update memory, mark what they changed under mu, and     *)
(* flush under mu.  A document is one chunk, as DocumentsToChunks makes it. *)
(***************************************************************************)
EXTENDS Integers, FiniteSets

CONSTANTS
    Docs,       \* document ids
    Texts,      \* the texts of a chunk or a sidecar
    Procs,      \* the goroutines that call the store
    Calls,      \* the kinds of call each of them makes
    Limit,      \* compactDeltaLines
    MaxCalls,   \* bound: the calls
    MaxFaults,  \* bound: the writes that fail
    None,       \* no record, no call, no flush
    Unknown     \* nothing was promised about a document

Files == {"chunks", "sidecars"}
Kinds == {"upsert", "burst", "warm", "delete"}
Records == [Docs -> Texts \cup {None}]
Op == [kind : Kinds, docs : SUBSET Docs, text : Texts \cup {None},
       todo : SUBSET Docs, unmarked : SUBSET Docs]
Flush == [by : Procs, file : Files, step : {"write", "compact", "drop", "hot"}, forced : BOOLEAN,
          snap : [Files -> Records]]

ASSUME ConstantsAssumption ==
    /\ Calls \in [Procs -> SUBSET Kinds] /\ Limit \in Nat \ {0}
    /\ MaxCalls \in Nat /\ MaxFaults \in Nat
    /\ IsFiniteSet(Docs) /\ Texts # {}
    /\ {None, Unknown} \cap Texts = {} /\ None # Unknown
    /\ None \notin Op \cup Flush

VARIABLES
    mem,        \* inner.chunks, inner.sidecars
    dirty,      \* dirty, dirtySidecars
    force,      \* forceFullFlush
    deferFlush, \* the bursts between beginBatch and endBatch
    base,       \* chunks.jsonl, sidecars.jsonl
    delta,      \* of each delta file, the last readable line of a document
    lines,      \* its lines
    torn,       \* it ends in part of a line
    at, op,     \* where the call of each goroutine is, and the call
    flush,      \* the flush that holds mu, with its copy of memory
    told,       \* what the last call on a document left, when it reported success
    claimed,    \* of these, the ones its last flush did not write
    lost,       \* documents whose last record went onto a torn line
    calls,      \* the calls so far
    faults      \* the writes that failed

disk == <<base, delta, lines, torn, lost>>
marks == <<dirty, force, deferFlush>>
promises == <<told, claimed>>
vars == <<mem, marks, disk, at, op, flush, promises, calls, faults>>

Empty == [d \in Docs |-> None]
NoDelta == [f \in Files |-> Empty]

\* load: base, then delta.
Loaded(f) == [d \in Docs |-> IF delta[f][d] # None THEN delta[f][d] ELSE base[f][d]]

\* After CreateLocal.
Init ==
    /\ mem = NoDelta /\ base = NoDelta /\ delta = NoDelta
    /\ dirty = [f \in Files |-> {}] /\ force = FALSE /\ deferFlush = 0
    /\ lines = [f \in Files |-> 0] /\ torn = [f \in Files |-> FALSE]
    /\ at = [p \in Procs |-> "idle"] /\ op = [p \in Procs |-> None] /\ flush = None
    /\ told = [f \in Files |-> [d \in Docs |-> Unknown]]
    /\ claimed = [f \in Files |-> {}] /\ lost = [f \in Files |-> {}]
    /\ calls = 0 /\ faults = 0

\* The files a call changes.
Target(kind) == CASE kind = "warm" -> {"sidecars"}
                  [] kind = "delete" -> Files
                  [] OTHER -> {"chunks"}
Touches(o, f, d) == o # None /\ f \in Target(o.kind) /\ d \in o.docs

\* A call begins: from here on the last promise about its documents is void.
Start(p, o, pc) ==
    /\ calls < MaxCalls /\ calls' = calls + 1
    /\ at[p] = "idle" /\ o.kind \in Calls[p] /\ o.docs # {}
    /\ at' = [at EXCEPT ![p] = pc] /\ op' = [op EXCEPT ![p] = o]
    /\ told' = [f \in Files |-> [d \in Docs |-> IF Touches(o, f, d) THEN Unknown ELSE told[f][d]]]
    /\ claimed' = [f \in Files |-> {d \in claimed[f] : ~Touches(o, f, d)}]

\* inner.UpsertChunks, inner.WarmSidecars: under inner.mu only.
Store(f, D, t) == mem' = [mem EXCEPT ![f] = [d \in Docs |-> IF d \in D THEN t ELSE @[d]]]

NewOp(kind, D, t) ==
    [kind |-> kind, docs |-> D, text |-> t, todo |-> IF kind = "burst" THEN D ELSE {},
     unmarked |-> IF kind = "burst" THEN {} ELSE D]

Upsert(p, D, t) ==
    /\ Start(p, NewOp("upsert", D, t), "mark")
    /\ Store("chunks", D, t)
    /\ UNCHANGED <<marks, disk, flush, faults>>

Warm(p, D, t) ==
    /\ Start(p, NewOp("warm", D, t), "mark")
    /\ Store("sidecars", D, t)
    /\ UNCHANGED <<marks, disk, flush, faults>>

\* inner.DeleteDocuments takes chunks and sidecars; with no chunk to delete it returns.
Delete(p, D) ==
    /\ \E d \in D : mem["chunks"][d] # None
    /\ Start(p, NewOp("delete", D, None), "mark")
    /\ mem' = [f \in Files |-> [d \in Docs |-> IF d \in D THEN None ELSE mem[f][d]]]
    /\ UNCHANGED <<marks, disk, flush, faults>>

\* BurstIngestLocal, BurstUpsert: beginBatch, then one worker per document.
Burst(p, D, t) ==
    /\ Start(p, NewOp("burst", D, t), "work")
    /\ deferFlush' = deferFlush + 1
    /\ UNCHANGED <<mem, dirty, force, disk, flush, faults>>

Work(p, d) ==
    /\ at[p] = "work" /\ d \in op[p].todo
    /\ Store("chunks", {d}, op[p].text)
    /\ op' = [op EXCEPT ![p].todo = @ \ {d}, ![p].unmarked = @ \cup {d}]
    /\ UNCHANGED <<marks, disk, at, flush, promises, calls, faults>>

\* The marks, under mu.  A worker of a burst finds deferFlush above zero.
MarkWork(p, d) ==
    /\ at[p] = "work" /\ flush = None /\ d \in op[p].unmarked
    /\ dirty' = [dirty EXCEPT !["chunks"] = @ \cup {d}]
    /\ op' = [op EXCEPT ![p].unmarked = @ \ {d}]
    /\ UNCHANGED <<mem, force, deferFlush, disk, at, flush, promises, calls, faults>>

Mark(p) ==
    /\ at[p] = "mark" /\ flush = None
    /\ IF op[p].kind = "delete"
       THEN force' = TRUE /\ dirty' = [dirty EXCEPT !["chunks"] = {}]
       ELSE /\ dirty' = [f \in Files |-> IF f \in Target(op[p].kind) THEN dirty[f] \cup op[p].docs ELSE dirty[f]]
            /\ UNCHANGED force
    /\ op' = [op EXCEPT ![p].unmarked = {}]
    /\ at' = [at EXCEPT ![p] = IF op[p].kind = "upsert" THEN "check" ELSE "lock"]
    /\ UNCHANGED <<mem, deferFlush, disk, flush, promises, calls, faults>>

\* The call returns.  When it reports success, that covers what memory holds of its
\* documents, but for those another call is at.
Return(p, ok, flushed) ==
    LET mine(f, d) == Touches(op[p], f, d) /\ \A q \in Procs \ {p} : ~Touches(op[q], f, d) IN
    /\ at' = [at EXCEPT ![p] = "idle"] /\ op' = [op EXCEPT ![p] = None]
    /\ told' = [f \in Files |-> [d \in Docs |-> IF ok /\ mine(f, d) THEN mem[f][d] ELSE told[f][d]]]
    /\ claimed' = [f \in Files |-> {d \in Docs : IF ok /\ mine(f, d) THEN ~flushed ELSE d \in claimed[f]}]

\* UpsertChunks: while any burst is between beginBatch and endBatch, no flush.
Check(p) ==
    /\ at[p] = "check"
    /\ IF deferFlush > 0 THEN Return(p, TRUE, FALSE)
       ELSE at' = [at EXCEPT ![p] = "lock"] /\ UNCHANGED <<op, promises>>
    /\ UNCHANGED <<mem, marks, disk, flush, calls, faults>>

\* The last endBatch flushes; BurstIngestLocal flushes once more in any case.
EndBatch(p) ==
    /\ at[p] = "work" /\ op[p].todo = {} /\ op[p].unmarked = {}
    /\ deferFlush' = deferFlush - 1
    /\ at' = [at EXCEPT ![p] = IF deferFlush = 1 THEN "lock" ELSE "again"]
    /\ UNCHANGED <<mem, dirty, force, disk, op, flush, promises, calls, faults>>

-----------------------------------------------------------------------------

\* What the call does with the flush's result: DeleteDocuments and the second
\* flush of BurstIngestLocal drop the error.
Flushed(p, ok) ==
    IF at[p] = "lock" /\ op[p].kind = "burst" /\ ok
    THEN at' = [at EXCEPT ![p] = "again"] /\ UNCHANGED <<op, promises>>
    ELSE Return(p, ok \/ op[p].kind = "delete" \/ at[p] = "again", ok)

Fault == faults < MaxFaults /\ faults' = faults + 1

\* mu, meta.json, and the copy of memory.
BeginFlush(p) ==
    /\ at[p] \in {"lock", "again"} /\ flush = None
    /\ flush' = [by |-> p, file |-> "chunks", step |-> "write", forced |-> force,
                 snap |-> mem]
    /\ UNCHANGED <<mem, marks, disk, at, op, promises, calls, faults>>

\* A write of flush fails: of meta.json, a base, a delta before its first byte, or hotlex.gob.
FlushFails ==
    /\ flush # None /\ flush.step # "drop"
    /\ Fault
    /\ flush' = None
    /\ Flushed(flush.by, FALSE)
    /\ UNCHANGED <<mem, marks, disk, calls>>

\* Mutant: forceFullFlush is cleared once the chunks are written.
MutNextFile ==
    IF flush.file = "chunks"
    THEN flush' = [flush EXCEPT !.file = "sidecars", !.step = "write"] /\ force' = FALSE
    ELSE flush' = [flush EXCEPT !.step = "hot"] /\ UNCHANGED force

\* The next part of flush: the sidecars, then hotlex.gob, once forceFullFlush is cleared.
NextFile ==
    IF flush.file = "chunks"
    THEN flush' = [flush EXCEPT !.file = "sidecars", !.step = "write"] /\ UNCHANGED force
    ELSE flush' = [flush EXCEPT !.step = "hot"] /\ force' = FALSE

\* Mutant: a forced rewrite does not reach the sidecars.
MutFull(f) == IF f = "sidecars" THEN base[f] = Empty
              ELSE flush.forced \/ (base[f] = Empty /\ flush.snap[f] # Empty)

\* needFull; flushSidecarsLocked rewrites an empty base even if it stays empty.
Full(f) == flush.forced \/ (base[f] = Empty /\ (f = "sidecars" \/ flush.snap[f] # Empty))

\* durablefile: the new base, whole.
Rewrite(f) ==
    /\ flush # None /\ flush.file = f
    /\ (flush.step = "write" /\ Full(f)) \/ flush.step = "compact"
    /\ base' = [base EXCEPT ![f] = flush.snap[f]]
    /\ flush' = [flush EXCEPT !.step = "drop"]
    /\ UNCHANGED <<mem, marks, delta, lines, torn, lost, at, op, promises, calls, faults>>

\* Then the delta and the marks go.
Drop(f) ==
    /\ flush # None /\ flush.file = f /\ flush.step = "drop"
    /\ delta' = [delta EXCEPT ![f] = Empty]
    /\ lines' = [lines EXCEPT ![f] = 0] /\ torn' = [torn EXCEPT ![f] = FALSE]
    /\ lost' = [lost EXCEPT ![f] = {}]
    /\ dirty' = [dirty EXCEPT ![f] = {}]
    /\ NextFile
    /\ UNCHANGED <<mem, deferFlush, base, at, op, promises, calls, faults>>

Skip(f) ==
    /\ flush # None /\ flush.file = f /\ flush.step = "write" /\ ~Full(f) /\ dirty[f] = {}
    /\ NextFile
    /\ UNCHANGED <<mem, dirty, deferFlush, disk, at, op, promises, calls, faults>>

\* The lines of S at the end of the delta.  After a torn line the first of them is
\* unreadable, and loading skips it.
AppendLines(f, S) ==
    \E bad \in SUBSET S :
        /\ Cardinality(bad) = IF torn[f] /\ S # {} THEN 1 ELSE 0
        /\ delta' = [delta EXCEPT ![f] = [d \in Docs |-> IF d \in S \ bad THEN flush.snap[f][d] ELSE @[d]]]
        /\ lost' = [lost EXCEPT ![f] = (@ \ S) \cup bad]
        /\ lines' = [lines EXCEPT ![f] = @ + Cardinality(S)]

Appended(f) == {d \in dirty[f] : flush.snap[f][d] # None}

\* Append, sync, clear the marks; compact a delta that has grown.
Append(f) ==
    /\ flush # None /\ flush.file = f /\ flush.step = "write" /\ ~Full(f) /\ dirty[f] # {}
    /\ AppendLines(f, Appended(f))
    /\ torn' = [torn EXCEPT ![f] = @ /\ Appended(f) = {}]
    /\ dirty' = [dirty EXCEPT ![f] = {}]
    /\ IF lines'[f] + (IF torn'[f] THEN 1 ELSE 0) >= Limit
       THEN flush' = [flush EXCEPT !.step = "compact"] /\ UNCHANGED force
       ELSE NextFile
    /\ UNCHANGED <<mem, deferFlush, base, at, op, promises, calls, faults>>

\* The append fails after some lines, inside the next one, or in Sync or Close
\* after all of them.
AppendFails(f, S) ==
    /\ flush # None /\ flush.file = f /\ flush.step = "write" /\ ~Full(f) /\ dirty[f] # {}
    /\ S \subseteq Appended(f)
    /\ Fault
    /\ AppendLines(f, S)
    /\ \E cut \in {FALSE, S # Appended(f)} : torn' = [torn EXCEPT ![f] = cut \/ (@ /\ S = {})]
    /\ flush' = None
    /\ Flushed(flush.by, FALSE)
    /\ UNCHANGED <<mem, marks, base, calls>>

EndFlush ==
    /\ flush # None /\ flush.step = "hot"
    /\ flush' = None
    /\ Flushed(flush.by, TRUE)
    /\ UNCHANGED <<mem, marks, disk, calls, faults>>

\* The process dies, and OpenLocal loads.
Crash ==
    /\ mem' = [f \in Files |-> Loaded(f)]
    /\ dirty' = [f \in Files |-> {}] /\ force' = FALSE /\ deferFlush' = 0
    /\ at' = [p \in Procs |-> "idle"] /\ op' = [p \in Procs |-> None]
    /\ flush' = None
    /\ told' = [f \in Files |-> [d \in Docs |-> IF d \in lost[f] \cup claimed[f] THEN Unknown ELSE told[f][d]]]
    /\ lost' = [f \in Files |-> {}] /\ claimed' = [f \in Files |-> {}]
    /\ UNCHANGED <<base, delta, lines, torn, calls, faults>>

CallStep(p) ==
    \/ \E D \in SUBSET Docs : \/ Delete(p, D)
                             \/ \E t \in Texts : Upsert(p, D, t) \/ Warm(p, D, t) \/ Burst(p, D, t)
    \/ \E d \in Docs : Work(p, d) \/ MarkWork(p, d)
    \/ Mark(p) \/ Check(p) \/ EndBatch(p) \/ BeginFlush(p)

FlushStep ==
    \/ \E f \in Files : \/ Rewrite(f) \/ Drop(f) \/ Skip(f) \/ Append(f)
                        \/ \E S \in SUBSET Docs : AppendFails(f, S)
    \/ FlushFails \/ EndFlush

Next == (\E p \in Procs : CallStep(p)) \/ FlushStep \/ Crash

Spec == Init /\ [][Next]_vars

-----------------------------------------------------------------------------

TypeOK ==
    /\ mem \in [Files -> Records] /\ base \in [Files -> Records]
    /\ delta \in [Files -> Records]
    /\ dirty \in [Files -> SUBSET Docs] /\ force \in BOOLEAN /\ deferFlush \in Int
    /\ lines \in [Files -> Nat] /\ torn \in [Files -> BOOLEAN]
    /\ at \in [Procs -> {"idle", "work", "mark", "check", "lock", "again"}]
    /\ op \in [Procs -> Op \cup {None}] /\ \A p \in Procs : at[p] = "idle" <=> op[p] = None
    /\ flush \in Flush \cup {None}
    /\ told \in [Files -> [Docs -> Texts \cup {None, Unknown}]]
    /\ claimed \in [Files -> SUBSET Docs] /\ lost \in [Files -> SUBSET Docs]
    /\ calls \in Nat /\ faults \in Nat

\* Between two flushes whatever memory holds is what a restart would load, or is
\* marked for the next flush, or is about to be marked (UpsertChunks,
\* DeleteDocuments and flush clear a mark only for what they wrote).
Owed ==
    flush = None =>
        \A f \in Files, d \in Docs :
            \/ Loaded(f)[d] = mem[f][d]
            \/ force \/ d \in dirty[f] \cup lost[f]
            \/ \E p \in Procs : Touches(op[p], f, d) /\ d \in op[p].unmarked

\* A restart at any moment, between any two writes of any flush, loads what a call
\* that flushed has reported, be it a text or a deletion; all it can miss is a
\* record that was appended to a torn line.
Kept ==
    \A f \in Files : \A d \in Docs \ (claimed[f] \cup lost[f]) :
        told[f][d] # Unknown => Loaded(f)[d] = told[f][d]

=============================================================================

--------------------------- MODULE ArtifactVault ---------------------------
(***************************************************************************)
(* The encrypted artifact vault of services/brain/internal/artifactvault   *)
(* with its SQLite metadata (localstorage/artifact.go): one artifact of    *)
(* one tenant, its generations, and concurrent calls that stage, publish,  *)
(* reconcile, read and delete them.  A metadata operation is one           *)
(* transaction; a call takes many of them, with object writes, reads and   *)
(* deletes in between, and the process may crash anywhere.                 *)
(***************************************************************************)
EXTENDS Integers

CONSTANTS
    Callers,      \* concurrent calls
    Generations,  \* 1 .. n
    Contents,     \* what a manifest may describe
    FrameCount,   \* frames of a manifest
    None,         \* no record
    MaxStages,    \* bound: reservations
    MaxFaults     \* bound: crashes, damaged objects, failing deletes and writes,
                  \* interrupted reads

Statuses == {"staged", "published", "tombstoned", "purged", "quarantined"}
Record == [content : Contents, status : Statuses, fence : Nat, complete : BOOLEAN]

ASSUME ConstantsAssumption ==
    /\ FrameCount \in Nat \ {0}
    /\ Generations \subseteq Nat \ {0}
    /\ {MaxStages, MaxFaults} \subseteq Nat
    /\ None \notin Record

VARIABLES
    record,     \* the metadata of each generation
    current,    \* the current generation, 0 before the first publication
    next,       \* the last reservation fence
    objects,    \* the objects in the store: <<fence, frame>>; a fence has its own locator
    damaged,    \* those whose bytes the disk changed
    call,       \* the calls in flight
    promised,   \* history: the staged receipts given out
    leaked,     \* history: objects whose deletion or whose cleanup failed
    faults      \* the faults so far

vars == <<record, current, next, objects, damaged, call, promised, leaked, faults>>

metadata == <<record, current, next>>
store == <<objects, damaged>>
history == <<promised, leaked>>

Ops == {"idle", "stage", "publish", "reconcile", "read", "purge"}
Steps == {"idle", "put", "abort", "verify", "quarantine", "delete"}
Idle == [op |-> "idle", at |-> "idle", gen |-> 0, content |-> None, fence |-> 0, frame |-> 0,
         created |-> 0]

Init ==
    /\ record = [g \in Generations |-> None]
    /\ current = 0 /\ next = 0
    /\ objects = {} /\ damaged = {}
    /\ call = [c \in Callers |-> Idle]
    /\ promised = {} /\ leaked = {}
    /\ faults = 0

Start(c, op, at, g, x, f) ==
    call' = [call EXCEPT ![c] = [op |-> op, at |-> at, gen |-> g, content |-> x,
                                 fence |-> f, frame |-> 1, created |-> 0]]
Goto(c, at) == call' = [call EXCEPT ![c].at = at]
NextFrame(c) == call' = [call EXCEPT ![c].frame = @ + 1]
Abort(c) ==
    call' = [call EXCEPT ![c] = [@ EXCEPT !.at = "abort", !.created = call[c].frame - 1, !.frame = 1]]
Return(c) == call' = [call EXCEPT ![c] = Idle]
SetStatus(g, s) == record' = [record EXCEPT ![g].status = s]
Fault == faults < MaxFaults /\ faults' = faults + 1

-----------------------------------------------------------------------------
\* StageContent.  A request is for the generation after the one it expects to
\* be current; a stale one is refused and changes nothing.

\* Mutant: a record that exists already is not looked at.
MutStageBegin(c, g, x) ==
    /\ call[c] = Idle /\ g = current + 1 /\ next < MaxStages
    /\ next' = next + 1
    /\ record' = [record EXCEPT ![g] = [content |-> x, status |-> "staged",
                                        fence |-> next + 1, complete |-> FALSE]]
    /\ Start(c, "stage", "put", g, x, next + 1)
    /\ UNCHANGED <<current, store, history, faults>>

\* BeginStage reserves the generation.  Every reservation has a new fence and a
\* new random locator, so its objects are its own.
StageBegin(c, g, x) ==
    /\ call[c] = Idle /\ g = current + 1 /\ record[g] = None /\ next < MaxStages
    /\ next' = next + 1
    /\ record' = [record EXCEPT ![g] = [content |-> x, status |-> "staged",
                                        fence |-> next + 1, complete |-> FALSE]]
    /\ Start(c, "stage", "put", g, x, next + 1)
    /\ UNCHANGED <<current, store, history, faults>>

\* The same manifest, completely staged before: the duplicate receipt.  A changed
\* manifest, or a stage in progress, is a conflict.  Stage without content does
\* the same.
StageDuplicate(c, g, x) ==
    /\ call[c] = Idle /\ g = current + 1 /\ record[g] # None
    /\ record[g].content = x /\ record[g].complete
    /\ promised' = promised \cup {<<g, x>>}
    /\ UNCHANGED <<metadata, store, call, leaked, faults>>

\* putIfAbsent links a synced temporary file under the object's name.
StagePut(c) ==
    /\ call[c].at = "put" /\ call[c].frame <= FrameCount
    /\ objects' = objects \cup {<<call[c].fence, call[c].frame>>}
    /\ NextFrame(c)
    /\ UNCHANGED <<metadata, damaged, history, faults>>

\* The content ends early, goes on, or has another digest; a put fails: the
\* frame is not among those the abort will delete, and putIfAbsent's own
\* cleanup of the linked object may fail as well.
StageFails(c) ==
    /\ call[c].at = "put"
    /\ Abort(c)
    /\ \/ UNCHANGED <<objects, leaked, faults>>
       \/ /\ call[c].frame <= FrameCount
          /\ objects' = objects \cup {<<call[c].fence, call[c].frame>>}
          /\ leaked' = leaked \cup {<<call[c].fence, call[c].frame>>}
          /\ Fault
    /\ UNCHANGED <<metadata, damaged, promised>>

\* CompleteStage, for the reservation that holds the fence.
StageComplete(c) ==
    LET g == call[c].gen IN
    /\ call[c].at = "put" /\ call[c].frame > FrameCount
    /\ IF record[g] # None /\ record[g].fence = call[c].fence
          /\ record[g].status = "staged" /\ ~record[g].complete
       THEN /\ record' = [record EXCEPT ![g].complete = TRUE]
            /\ promised' = promised \cup {<<g, call[c].content>>}
            /\ Return(c)
       ELSE Abort(c) /\ UNCHANGED <<record, promised>>
    /\ UNCHANGED <<current, next, store, leaked, faults>>

\* abort deletes what the call created, in order, and goes on past a delete that
\* fails.
AbortDelete(c) ==
    LET o == <<call[c].fence, call[c].frame>> IN
    /\ call[c].at = "abort" /\ call[c].frame <= call[c].created
    /\ NextFrame(c)
    /\ \/ objects' = objects \ {o} /\ UNCHANGED <<leaked, faults>>
       \/ leaked' = leaked \cup {o} /\ Fault /\ UNCHANGED objects
    /\ UNCHANGED <<metadata, damaged, promised>>

\* Mutant: the reservation is removed first.
MutAbortReservation(c) ==
    LET g == call[c].gen IN
    /\ call[c].at = "abort"
    /\ record[g] # None /\ record[g].fence = call[c].fence
    /\ record[g].status = "staged" /\ ~record[g].complete
    /\ record' = [record EXCEPT ![g] = None]
    /\ IF call[c].frame > call[c].created THEN Return(c) ELSE UNCHANGED call
    /\ UNCHANGED <<current, next, store, history, faults>>

\* AbortStage, last: only the caller's own incomplete reservation.  It may fail.
AbortReservation(c) ==
    LET g == call[c].gen IN
    /\ call[c].at = "abort" /\ call[c].frame > call[c].created
    /\ \/ /\ record[g] # None /\ record[g].fence = call[c].fence
          /\ record[g].status = "staged" /\ ~record[g].complete
          /\ record' = [record EXCEPT ![g] = None] /\ UNCHANGED faults
       \/ Fault /\ UNCHANGED record
    /\ Return(c)
    /\ UNCHANGED <<current, next, store, history>>

-----------------------------------------------------------------------------
\* Publish, Reconcile and HydrateRange copy the record, release the store and
\* read the objects of that copy one by one.

VerifyBegin(c, op, g) ==
    /\ call[c] = Idle /\ op \in {"publish", "reconcile"}
    /\ record[g] # None /\ record[g].complete /\ record[g].status \in {"staged", "published"}
    /\ Start(c, op, "verify", g, record[g].content, record[g].fence)
    /\ UNCHANGED <<metadata, store, history, faults>>

\* readable: a published generation only.
ReadBegin(c, g) ==
    /\ call[c] = Idle
    /\ record[g] # None /\ record[g].status = "published"
    /\ Start(c, "read", "verify", g, record[g].content, record[g].fence)
    /\ UNCHANGED <<metadata, store, history, faults>>

\* readFrame: an absent or changed object is an integrity failure.  A read skips
\* the frames outside its range.
VerifyFrame(c) ==
    LET o == <<call[c].fence, call[c].frame>> IN
    /\ call[c].at = "verify" /\ call[c].frame <= FrameCount
    /\ \/ o \in objects \ damaged /\ NextFrame(c)
       \/ o \notin objects \ damaged /\ Goto(c, "quarantine")
       \/ call[c].op = "read" /\ NextFrame(c)
    /\ UNCHANGED <<metadata, store, history, faults>>

\* resolveForRead or readFrame returns another error: the context ended, the
\* key or the file could not be opened.  The code takes the same path.
VerifyInterrupted(c) ==
    /\ call[c].at = "verify" /\ call[c].frame <= FrameCount
    /\ Fault
    /\ Goto(c, "quarantine")
    /\ UNCHANGED <<metadata, store, history>>

\* Mutant: a purged generation as well.
MutQuarantine(c) ==
    LET g == call[c].gen IN
    /\ call[c].at = "quarantine"
    /\ IF record[g] # None THEN SetStatus(g, "quarantined") ELSE UNCHANGED record
    /\ Return(c)
    /\ UNCHANGED <<current, next, store, history, faults>>

\* Quarantine, by generation: every state but purged.
Quarantine(c) ==
    LET g == call[c].gen IN
    /\ call[c].at = "quarantine"
    /\ IF record[g] # None /\ record[g].status # "purged"
       THEN SetStatus(g, "quarantined") ELSE UNCHANGED record
    /\ Return(c)
    /\ UNCHANGED <<current, next, store, history, faults>>

\* Mutant: the generation is published and the pointer stays.
MutVerifyEnd(c) ==
    LET g == call[c].gen IN
    /\ call[c].at = "verify" /\ call[c].frame > FrameCount
    /\ IF call[c].op = "publish" /\ current = g - 1 /\ record[g] # None
          /\ record[g].complete /\ record[g].content = call[c].content
          /\ record[g].status = "staged"
       THEN SetStatus(g, "published") ELSE UNCHANGED record
    /\ Return(c)
    /\ UNCHANGED <<current, next, store, history, faults>>

\* The Publish transaction of the repository, or the end of a read.
VerifyEnd(c) ==
    LET g == call[c].gen IN
    /\ call[c].at = "verify" /\ call[c].frame > FrameCount
    /\ IF call[c].op = "publish" /\ current = g - 1 /\ record[g] # None
          /\ record[g].complete /\ record[g].content = call[c].content
          /\ record[g].status = "staged"
       THEN SetStatus(g, "published") /\ current' = g
       ELSE UNCHANGED <<record, current>>
    /\ Return(c)
    /\ UNCHANGED <<next, store, history, faults>>

-----------------------------------------------------------------------------
\* Delete: Tombstone, then Purge with the receipt of the tombstone.

\* Only the current generation; a repetition changes nothing.
Tombstone(c, g) ==
    /\ call[c] = Idle /\ g = current
    /\ record[g] # None /\ record[g].status \in {"published", "tombstoned"}
    /\ SetStatus(g, "tombstoned")
    /\ UNCHANGED <<current, next, store, call, history, faults>>

\* PreparePurge, at any time after: the record stores the receipt.  A generation
\* purged already is a success at once, any other is refused.
PreparePurge(c, g) ==
    /\ call[c] = Idle /\ record[g] # None /\ record[g].status = "tombstoned"
    /\ Start(c, "purge", "delete", g, record[g].content, record[g].fence)
    /\ UNCHANGED <<metadata, store, history, faults>>

\* Mutant: a delete that fails is ignored.
MutPurgeDelete(c) ==
    LET o == <<call[c].fence, call[c].frame>> IN
    /\ call[c].at = "delete" /\ call[c].frame <= FrameCount
    /\ \/ objects' = objects \ {o} /\ NextFrame(c) /\ UNCHANGED faults
       \/ NextFrame(c) /\ Fault /\ UNCHANGED objects
    /\ UNCHANGED <<metadata, damaged, history>>

\* The frames in order; a delete that fails ends the call.
PurgeDelete(c) ==
    LET o == <<call[c].fence, call[c].frame>> IN
    /\ call[c].at = "delete" /\ call[c].frame <= FrameCount
    /\ \/ objects' = objects \ {o} /\ NextFrame(c) /\ UNCHANGED faults
       \/ Return(c) /\ Fault /\ UNCHANGED objects
    /\ UNCHANGED <<metadata, damaged, history>>

CompletePurge(c) ==
    LET g == call[c].gen IN
    /\ call[c].at = "delete" /\ call[c].frame > FrameCount
    /\ IF record[g] # None /\ record[g].fence = call[c].fence
          /\ record[g].status = "tombstoned"
       THEN SetStatus(g, "purged") ELSE UNCHANGED record
    /\ Return(c)
    /\ UNCHANGED <<current, next, store, history, faults>>

-----------------------------------------------------------------------------
\* The process dies: the metadata and the objects are on disk, the calls are gone.
Crash ==
    /\ Fault
    /\ call' = [c \in Callers |-> Idle]
    /\ UNCHANGED <<metadata, store, history>>

\* The disk changes the bytes of an object.
Damage(o) ==
    /\ Fault
    /\ damaged' = damaged \cup {o}
    /\ UNCHANGED <<metadata, objects, call, history>>

CallStep(c) ==
    \/ StagePut(c) \/ StageFails(c) \/ StageComplete(c)
    \/ AbortDelete(c) \/ AbortReservation(c)
    \/ VerifyFrame(c) \/ VerifyInterrupted(c) \/ VerifyEnd(c) \/ Quarantine(c)
    \/ PurgeDelete(c) \/ CompletePurge(c)

Next ==
    \/ \E c \in Callers :
         \/ CallStep(c)
         \/ \E g \in Generations :
              \/ \E x \in Contents : StageBegin(c, g, x) \/ StageDuplicate(c, g, x)
              \/ \E op \in {"publish", "reconcile"} : VerifyBegin(c, op, g)
              \/ ReadBegin(c, g) \/ Tombstone(c, g) \/ PreparePurge(c, g)
    \/ \E o \in objects : Damage(o)
    \/ Crash

Spec == Init /\ [][Next]_vars

-----------------------------------------------------------------------------

TypeOK ==
    /\ record \in [Generations -> Record \cup {None}]
    /\ current \in Nat /\ next \in Nat /\ faults \in Nat
    /\ objects \subseteq Nat \X (1 .. FrameCount)
    /\ damaged \subseteq Nat \X (1 .. FrameCount) /\ leaked \subseteq Nat \X (1 .. FrameCount)
    /\ promised \subseteq Generations \X Contents
    /\ call \in [Callers -> [op : Ops, at : Steps, gen : Generations \cup {0},
                             content : Contents \cup {None}, fence : Nat,
                             frame : 0 .. FrameCount + 1, created : 0 .. FrameCount]]

Complete(g) == record[g] # None /\ record[g].complete
ObjectsOf(g) == {<<record[g].fence, i>> : i \in 1 .. FrameCount}

\* A staged receipt is kept: the generation holds that manifest, completely, and
\* no later call, crash or failed stage takes it back or puts another in its
\* place; its objects stay until it is tombstoned (StageContent, BeginStage,
\* CompleteStage, AbortStage).
StagedKept ==
    /\ \A p \in promised : Complete(p[1]) /\ record[p[1]].content = p[2]
    /\ \A g \in Generations :
         Complete(g) /\ record[g].status \in {"staged", "published"} => ObjectsOf(g) \subseteq objects

\* A purged generation has no object left, whatever deletes failed or crashed
\* before (Purge: "then marks metadata purged").
PurgedGone ==
    \A g \in Generations :
        record[g] # None /\ record[g].status = "purged" => ObjectsOf(g) \cap objects = {}

\* No object is forgotten: an object that no record names is one whose deletion
\* failed.  The order in abort (objects first, reservation last) is what makes
\* it survive a crash.
NoOrphan ==
    \A o \in objects \ leaked :
        \E g \in Generations : record[g] # None /\ o \in ObjectsOf(g)

\* The current pointer: every generation up to it was published completely, the
\* next one alone may be staged, and nothing lies beyond.
CurrentComplete ==
    \A g \in Generations :
        /\ g <= current => Complete(g) /\ record[g].status # "staged"
        /\ record[g] # None /\ record[g].status \in {"published", "tombstoned", "purged"}
               => g <= current
        /\ g > current + 1 => record[g] = None

\* A status only moves forward (types.go:43), and a deleted or quarantined
\* generation never becomes readable again.
Rank == [staged |-> 0, published |-> 1, tombstoned |-> 2, quarantined |-> 3, purged |-> 3]
ForwardOnly ==
    [][\A g \in Generations : Complete(g) =>
          /\ record'[g] # None
          /\ record'[g].content = record[g].content /\ record'[g].fence = record[g].fence
          /\ \/ record'[g].status = record[g].status
             \/ Rank[record'[g].status] > Rank[record[g].status]]_vars

=============================================================================

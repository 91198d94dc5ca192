------------------------- MODULE LocalCorpusProofs -------------------------
(***************************************************************************)
(* Proofs about the local corpus, for any documents, texts, goroutines,    *)
(* compaction limit and numbers of calls and failing writes.               *)
(***************************************************************************)
EXTENDS LocalCorpus, FiniteSetTheorems, TLAPS

\* The latest change to a document, made in memory and not marked yet.
InWin(f, d) ==
    \E p \in Procs : Touches(op[p], f, d) /\ d \in op[p].unmarked /\ mem[f][d] = op[p].text

CallInv ==
    \A p \in Procs :
        /\ op[p] # None => /\ op[p].unmarked \subseteq op[p].docs /\ op[p].todo \subseteq op[p].docs
                           /\ op[p].kind = "delete" <=> op[p].text = None
        /\ at[p] \in {"check", "lock", "again"} => op[p].unmarked = {}
        /\ at[p] = "work" => op[p].kind = "burst"

Owner == flush # None => flush.by \in Procs /\ at[flush.by] \in {"lock", "again"}

\* A promise is about what memory still holds.
Promised ==
    \A f \in Files, d \in Docs :
        told[f][d] # Unknown => told[f][d] = mem[f][d] /\ \A p \in Procs : ~Touches(op[p], f, d)

\* The files a flush is done with, or has compacted all but the base of.
Passed(f) == flush.step = "hot" \/ (f = "chunks" /\ flush.file = "sidecars")
             \/ (f = flush.file /\ flush.step = "compact")
Dropping(f) == flush.file = f /\ flush.step = "drop"

\* What a flush holds is memory, but for what changed since.
Copy == flush # None => \A f \in Files, d \in Docs : flush.snap[f][d] = mem[f][d] \/ InWin(f, d)

\* How far a flush is.
Written ==
    flush # None => \A f \in Files :
        /\ Dropping(f) => base[f] = flush.snap[f]
        /\ ~Dropping(f) => \A d \in Docs :
             \/ Loaded(f)[d] = flush.snap[f][d] \/ d \in lost[f] \/ InWin(f, d)
             \/ ~Passed(f) /\ (flush.forced \/ (d \in dirty[f] /\ flush.snap[f][d] # None))

Forced == flush # None /\ flush.step # "hot" => force = flush.forced

\* Owed, with a mark counting only for a document that is there.
OwedInv ==
    flush = None => \A f \in Files, d \in Docs :
        \/ Loaded(f)[d] = mem[f][d] \/ d \in lost[f] \/ InWin(f, d)
        \/ force \/ (d \in dirty[f] /\ mem[f][d] # None)

IInv == TypeOK /\ CallInv /\ Owner /\ Promised /\ Copy /\ Written /\ Forced /\ OwedInv /\ Kept

LEMMA InitIInv == Init => IInv
  <1> SUFFICES ASSUME Init PROVE IInv
    OBVIOUS
  <1>1. /\ mem = NoDelta /\ base = NoDelta /\ delta = NoDelta /\ flush = None
        /\ op = [p \in Procs |-> None] /\ at = [p \in Procs |-> "idle"]
        /\ told = [f \in Files |-> [d \in Docs |-> Unknown]]
    BY DEF Init
  <1>2. NoDelta \in [Files -> Records]
    BY DEF NoDelta, Empty, Records
  <1>3. TypeOK
    <2>1. /\ dirty \in [Files -> SUBSET Docs] /\ claimed \in [Files -> SUBSET Docs]
          /\ lost \in [Files -> SUBSET Docs]
      BY DEF Init
    <2>2. torn \in [Files -> BOOLEAN]
      BY DEF Init
    <2>3. told \in [Files -> [Docs -> Texts \cup {None, Unknown}]]
      BY <1>1
    <2>4. deferFlush \in Int /\ lines \in [Files -> Nat] /\ calls \in Nat /\ faults \in Nat
      BY DEF Init
    <2>5. force \in BOOLEAN
      BY DEF Init
    <2> QED
      BY <1>1, <1>2, <2>1, <2>2, <2>3, <2>4, <2>5 DEF TypeOK
  <1>4. CallInv /\ Owner /\ Promised /\ Kept
    BY <1>1 DEF CallInv, Owner, Promised, Kept
  <1>5. Copy /\ Written /\ Forced
    BY <1>1 DEF Copy, Written, Forced
  <1>6. OwedInv
    BY <1>1 DEF OwedInv, Loaded, NoDelta, Empty
  <1> QED
    BY <1>3, <1>4, <1>5, <1>6 DEF IInv

-----------------------------------------------------------------------------
(* Steps that change memory, or end a call, while the disk and the marks stay. *)

LEMMA WindowStep ==
  ASSUME Copy, Written, Forced, OwedInv, UNCHANGED <<disk, dirty, force, flush>>,
         \A f \in Files, d \in Docs : InWin(f, d)' \/ (mem'[f][d] = mem[f][d] /\ ~InWin(f, d))
  PROVE  Copy' /\ Written' /\ Forced' /\ OwedInv'
  <1>1. /\ base' = base /\ lost' = lost /\ dirty' = dirty /\ force' = force /\ flush' = flush
        /\ \A f \in Files : Loaded(f)' = Loaded(f)
    BY DEF disk, Loaded
  <1>2. Copy'
    BY <1>1 DEF Copy
  <1>3. Written'
    BY <1>1 DEF Written, Passed, Dropping
  <1>4. Forced'
    BY <1>1 DEF Forced
  <1>5. OwedInv'
    BY <1>1 DEF OwedInv
  <1> QED
    BY <1>2, <1>3, <1>4, <1>5

LEMMA StartIInv ==
  ASSUME IInv, NEW p \in Procs, NEW o \in Op, NEW pc \in {"mark", "work"}, Start(p, o, pc),
         o.unmarked \subseteq o.docs, o.todo \subseteq o.docs, o.kind = "delete" <=> o.text = None,
         pc = "work" => o.kind = "burst",
         UNCHANGED <<disk, dirty, force, flush, faults>>, deferFlush' \in Int,
         mem' \in [Files -> Records],
         \A f \in Files, d \in Docs :
            \/ mem'[f][d] = mem[f][d]
            \/ Touches(o, f, d) /\ d \in o.unmarked /\ mem'[f][d] = o.text
  PROVE  IInv'
  <1>1. /\ TypeOK /\ CallInv /\ Owner /\ Promised /\ Copy /\ Written /\ Forced /\ OwedInv /\ Kept
        /\ None \notin Op
    BY ConstantsAssumption DEF IInv
  <1>2. /\ at[p] = "idle" /\ calls' = calls + 1
        /\ at' = [at EXCEPT ![p] = pc] /\ op' = [op EXCEPT ![p] = o]
        /\ told' = [f \in Files |-> [d \in Docs |-> IF Touches(o, f, d) THEN Unknown ELSE told[f][d]]]
        /\ claimed' = [f \in Files |-> {d \in claimed[f] : ~Touches(o, f, d)}]
    BY DEF Start
  <1>3. /\ op[p] = None /\ op'[p] = o /\ at'[p] = pc /\ o # None
        /\ \A q \in Procs : q # p => op'[q] = op[q] /\ at'[q] = at[q]
    BY <1>1, <1>2 DEF TypeOK
  <1>4. /\ base' = base /\ lost' = lost /\ flush' = flush
        /\ \A f \in Files : Loaded(f)' = Loaded(f)
    BY DEF disk, Loaded
  <1>5. \A f \in Files, d \in Docs : InWin(f, d)' \/ (mem'[f][d] = mem[f][d] /\ ~InWin(f, d))
    <2> SUFFICES ASSUME NEW f \in Files, NEW d \in Docs
                 PROVE  InWin(f, d)' \/ (mem'[f][d] = mem[f][d] /\ ~InWin(f, d))
      OBVIOUS
    <2>1. CASE Touches(o, f, d) /\ d \in o.unmarked /\ mem'[f][d] = o.text
      BY <2>1, <1>3 DEF InWin
    <2>2. CASE mem'[f][d] = mem[f][d]
      BY <2>2, <1>3 DEF InWin, Touches
    <2> QED
      BY <2>1, <2>2
  <1>6. Copy' /\ Written' /\ Forced' /\ OwedInv'
    BY <1>1, <1>5, WindowStep
  <1>7. \A f \in Files, d \in Docs : told'[f][d] # Unknown =>
            /\ ~Touches(o, f, d) /\ told'[f][d] = told[f][d] /\ mem'[f][d] = mem[f][d]
            /\ d \in claimed[f] => d \in claimed'[f]
    BY <1>2
  <1>8. Promised'
    BY <1>1, <1>3, <1>7 DEF Promised
  <1>9. Kept'
    BY <1>1, <1>4, <1>7 DEF Kept
  <1>10. CallInv'
    BY <1>1, <1>3 DEF CallInv
  <1>11. Owner'
    BY <1>1, <1>2, <1>3, <1>4 DEF Owner
  <1>12. TypeOK'
    <2>1. /\ at' \in [Procs -> {"idle", "work", "mark", "check", "lock", "again"}]
          /\ op' \in [Procs -> Op \cup {None}]
      BY <1>1, <1>2 DEF TypeOK
    <2>2. \A q \in Procs : at'[q] = "idle" <=> op'[q] = None
      BY <1>1, <1>3 DEF TypeOK
    <2>3. told' \in [Files -> [Docs -> Texts \cup {None, Unknown}]]
      BY <1>1, <1>2 DEF TypeOK
    <2>4. claimed' \in [Files -> SUBSET Docs]
      BY <1>1, <1>2 DEF TypeOK
    <2>5. calls' \in Nat
      BY <1>1, <1>2 DEF TypeOK
    <2> QED
      BY <1>1, <2>1, <2>2, <2>3, <2>4, <2>5 DEF TypeOK, disk
  <1> QED
    BY <1>6, <1>8, <1>9, <1>10, <1>11, <1>12 DEF IInv

LEMMA UpsertIInv ==
  ASSUME IInv, NEW p \in Procs, NEW D \in SUBSET Docs, NEW t \in Texts,
         Upsert(p, D, t) \/ Warm(p, D, t)
  PROVE  IInv'
  <1>1. PICK kind \in {"upsert", "warm"}, g \in Files :
            /\ Start(p, NewOp(kind, D, t), "mark") /\ Store(g, D, t) /\ Target(kind) = {g}
            /\ UNCHANGED <<marks, disk, flush, faults>>
    BY DEF Upsert, Warm, Target, Files
  <1> DEFINE o == NewOp(kind, D, t)
  <1>2. /\ o \in Op /\ o.kind = kind /\ o.docs = D /\ o.text = t /\ o.unmarked = D
        /\ o.todo \subseteq o.docs /\ None \notin Texts
    <2>1. t # None /\ None \notin Texts
      BY ConstantsAssumption
    <2>2. kind \in Kinds /\ kind # "delete" /\ kind # "burst"
      BY DEF Kinds
    <2>3. t \in Texts \cup {None}
      OBVIOUS
    <2> QED
      BY <2>1, <2>2, <2>3 DEF NewOp, Op
  <1>3. o # None
    BY <1>2, ConstantsAssumption
  <1> HIDE DEF o
  <1>4. mem \in [Files -> Records] /\ deferFlush \in Int
    BY DEF IInv, TypeOK
  <1>5. /\ mem' \in [Files -> Records]
        /\ \A f \in Files, d \in Docs : IF f = g /\ d \in D THEN mem'[f][d] = t ELSE mem'[f][d] = mem[f][d]
    BY <1>1, <1>4 DEF Store, Records
  <1>6. \A f \in Files, d \in Docs :
            \/ mem'[f][d] = mem[f][d]
            \/ Touches(o, f, d) /\ d \in o.unmarked /\ mem'[f][d] = o.text
    BY <1>1, <1>2, <1>3, <1>5 DEF Touches
  <1>7. UNCHANGED <<disk, dirty, force, flush, faults>> /\ deferFlush' \in Int
    BY <1>1, <1>4 DEF marks
  <1>8. Start(p, o, "mark")
    BY <1>1 DEF o
  <1> QED
    BY <1>2, <1>5, <1>6, <1>7, <1>8, StartIInv

LEMMA DeleteIInv ==
  ASSUME IInv, NEW p \in Procs, NEW D \in SUBSET Docs, Delete(p, D)
  PROVE  IInv'
  <1> DEFINE o == NewOp("delete", D, None)
  <1>1. /\ Start(p, o, "mark") /\ UNCHANGED <<marks, disk, flush, faults>>
        /\ mem' = [f \in Files |-> [d \in Docs |-> IF d \in D THEN None ELSE mem[f][d]]]
    BY DEF Delete
  <1>2. /\ o \in Op /\ o.kind = "delete" /\ o.docs = D /\ o.text = None /\ o.unmarked = D
        /\ o.todo \subseteq o.docs
    BY DEF NewOp, Op, Kinds
  <1>3. o # None
    BY <1>2, ConstantsAssumption
  <1> HIDE DEF o
  <1>4. mem \in [Files -> Records] /\ deferFlush \in Int
    BY DEF IInv, TypeOK
  <1>5. mem' \in [Files -> Records]
    BY <1>1, <1>4 DEF Records
  <1>6. \A f \in Files, d \in Docs :
            \/ mem'[f][d] = mem[f][d]
            \/ Touches(o, f, d) /\ d \in o.unmarked /\ mem'[f][d] = o.text
    BY <1>1, <1>2, <1>3 DEF Touches, Target
  <1>7. UNCHANGED <<disk, dirty, force, flush, faults>> /\ deferFlush' \in Int
    BY <1>1, <1>4 DEF marks
  <1> QED
    BY <1>1, <1>2, <1>5, <1>6, <1>7, StartIInv

LEMMA BurstIInv ==
  ASSUME IInv, NEW p \in Procs, NEW D \in SUBSET Docs, NEW t \in Texts, Burst(p, D, t)
  PROVE  IInv'
  <1> DEFINE o == NewOp("burst", D, t)
  <1>1. /\ Start(p, o, "work") /\ deferFlush' = deferFlush + 1
        /\ UNCHANGED <<mem, dirty, force, disk, flush, faults>>
    BY DEF Burst
  <1>2. /\ o \in Op /\ o.kind = "burst" /\ o.text = t /\ None \notin Texts
        /\ o.unmarked \subseteq o.docs /\ o.todo \subseteq o.docs
    <2>1. t # None /\ None \notin Texts
      BY ConstantsAssumption
    <2>2. "burst" \in Kinds
      BY DEF Kinds
    <2>3. t \in Texts \cup {None}
      OBVIOUS
    <2> QED
      BY <2>1, <2>2, <2>3 DEF NewOp, Op
  <1> HIDE DEF o
  <1>3. mem \in [Files -> Records] /\ deferFlush \in Int
    BY DEF IInv, TypeOK
  <1>4. mem' \in [Files -> Records] /\ deferFlush' \in Int
    BY <1>1, <1>3
  <1>5. UNCHANGED <<disk, dirty, force, flush, faults>> /\ \A f \in Files, d \in Docs : mem'[f][d] = mem[f][d]
    BY <1>1
  <1> QED
    BY <1>1, <1>2, <1>4, <1>5, StartIInv

LEMMA WorkIInv ==
  ASSUME IInv, NEW p \in Procs, NEW d0 \in Docs, Work(p, d0)
  PROVE  IInv'
  <1> DEFINE o == [op[p] EXCEPT !.todo = @ \ {d0}, !.unmarked = @ \cup {d0}]
  <1>1. /\ TypeOK /\ CallInv /\ Owner /\ Promised /\ Copy /\ Written /\ Forced /\ OwedInv /\ Kept
        /\ None \notin Op /\ None \notin Texts
    BY ConstantsAssumption DEF IInv
  <1>2. /\ at[p] = "work" /\ d0 \in op[p].todo /\ Store("chunks", {d0}, op[p].text)
        /\ op' = [op EXCEPT ![p] = o]
        /\ UNCHANGED <<marks, disk, at, flush, promises, calls, faults>>
    BY DEF Work
  <1>3. op[p] \in Op /\ op[p] # None /\ op[p].kind = "burst"
    BY <1>1, <1>2 DEF TypeOK, CallInv
  <1>4. /\ o \in Op /\ o.kind = "burst" /\ o.docs = op[p].docs /\ o.text = op[p].text
        /\ o.todo = op[p].todo \ {d0} /\ o.unmarked = op[p].unmarked \cup {d0}
    BY <1>3 DEF Op
  <1> HIDE DEF o
  <1>5. /\ o # None /\ d0 \in o.docs /\ o.unmarked \subseteq o.docs /\ o.todo \subseteq o.docs
        /\ o.kind = "delete" <=> o.text = None
    BY <1>1, <1>2, <1>3, <1>4 DEF CallInv
  <1>6. op'[p] = o /\ \A q \in Procs : q # p => op'[q] = op[q]
    BY <1>1, <1>2 DEF TypeOK
  <1>7. /\ mem' \in [Files -> Records]
        /\ \A f \in Files, d \in Docs :
              mem'[f][d] = IF f = "chunks" /\ d = d0 THEN o.text ELSE mem[f][d]
    <2>1. mem \in [Files -> Records]
      BY <1>1 DEF TypeOK
    <2>2. o.text \in Texts \cup {None}
      BY <1>4 DEF Op
    <2> QED
      BY <1>2, <1>4, <2>1, <2>2 DEF Store, Records, Files
  <1>8. \A f \in Files, d \in Docs, q \in Procs : Touches(op'[q], f, d) <=> Touches(op[q], f, d)
    BY <1>3, <1>4, <1>5, <1>6 DEF Touches
  <1>9. Touches(op[p], "chunks", d0)
    BY <1>3, <1>4, <1>5 DEF Touches, Target
  <1>10. \A f \in Files, d \in Docs : InWin(f, d)' \/ (mem'[f][d] = mem[f][d] /\ ~InWin(f, d))
    <2> SUFFICES ASSUME NEW f \in Files, NEW d \in Docs
                 PROVE  InWin(f, d)' \/ (mem'[f][d] = mem[f][d] /\ ~InWin(f, d))
      OBVIOUS
    <2>1. CASE f = "chunks" /\ d = d0
      BY <2>1, <1>4, <1>6, <1>7, <1>8, <1>9 DEF InWin
    <2>2. CASE ~(f = "chunks" /\ d = d0)
      BY <2>2, <1>4, <1>6, <1>7, <1>8 DEF InWin
    <2> QED
      BY <2>1, <2>2
  <1>11. UNCHANGED <<disk, dirty, force, flush, deferFlush, at, told, claimed, calls, faults>>
    BY <1>2 DEF marks, promises
  <1>12. Copy' /\ Written' /\ Forced' /\ OwedInv'
    BY <1>1, <1>10, <1>11, WindowStep
  <1>13. Promised'
    <2>1. told["chunks"][d0] = Unknown
      BY <1>1, <1>9 DEF Promised, Files
    <2> QED
      BY <1>1, <1>7, <1>8, <1>11, <2>1 DEF Promised
  <1>14. Kept'
    <2>1. lost' = lost /\ \A f \in Files : Loaded(f)' = Loaded(f)
      BY <1>11 DEF disk, Loaded
    <2> QED
      BY <1>1, <1>11, <2>1 DEF Kept
  <1>15. CallInv'
    <2>1. at'[p] = "work" /\ \A q \in Procs : at'[q] = at[q]
      BY <1>2, <1>11
    <2> QED
      BY <1>1, <1>4, <1>5, <1>6, <2>1 DEF CallInv
  <1>16. Owner'
    BY <1>1, <1>11 DEF Owner
  <1>17. TypeOK'
    <2>1. op' \in [Procs -> Op \cup {None}]
      BY <1>1, <1>2, <1>4 DEF TypeOK
    <2>2. \A q \in Procs : at'[q] = "idle" <=> op'[q] = None
      BY <1>1, <1>2, <1>5, <1>6, <1>11 DEF TypeOK
    <2> QED
      BY <1>1, <1>7, <1>11, <2>1, <2>2 DEF TypeOK, disk
  <1> QED
    BY <1>12, <1>13, <1>14, <1>15, <1>16, <1>17 DEF IInv

-----------------------------------------------------------------------------
(* Marks. *)

\* A step between flushes that changes marks, and takes documents from unmarked.
LEMMA MarkStep ==
  ASSUME IInv, NEW p \in Procs, NEW o \in Op, op[p] # None, op' = [op EXCEPT ![p] = o],
         o.kind = op[p].kind, o.docs = op[p].docs, o.text = op[p].text, o.todo = op[p].todo,
         o.unmarked \subseteq op[p].unmarked,
         NEW pc \in {"work", "check", "lock"}, at' = [at EXCEPT ![p] = pc],
         pc # "work" => o.unmarked = {}, pc = "work" => at[p] = "work",
         flush = None, flush' = None, UNCHANGED <<mem, disk, deferFlush, promises, calls, faults>>,
         dirty' \in [Files -> SUBSET Docs], force' \in BOOLEAN, OwedInv'
  PROVE  IInv'
  <1>1. /\ TypeOK /\ CallInv /\ Promised /\ Kept /\ None \notin Op
    BY ConstantsAssumption DEF IInv
  <1>2. /\ op'[p] = o /\ at'[p] = pc /\ o # None
        /\ \A q \in Procs : q # p => op'[q] = op[q] /\ at'[q] = at[q]
    BY <1>1 DEF TypeOK
  <1>3. \A f \in Files, d \in Docs, q \in Procs : Touches(op'[q], f, d) <=> Touches(op[q], f, d)
    BY <1>2 DEF Touches
  <1>4. Promised'
    BY <1>1, <1>3 DEF Promised, promises
  <1>5. Kept'
    BY <1>1 DEF Kept, promises, disk, Loaded
  <1>6. CallInv'
    BY <1>1, <1>2 DEF CallInv
  <1>7. Owner' /\ Copy' /\ Written' /\ Forced'
    BY DEF Owner, Copy, Written, Forced
  <1>8. TypeOK'
    <2>1. op' \in [Procs -> Op \cup {None}]
      BY <1>1 DEF TypeOK
    <2>2. at' \in [Procs -> {"idle", "work", "mark", "check", "lock", "again"}]
      BY <1>1 DEF TypeOK
    <2>3. \A q \in Procs : at'[q] = "idle" <=> op'[q] = None
      BY <1>1, <1>2 DEF TypeOK
    <2> QED
      BY <1>1, <2>1, <2>2, <2>3 DEF TypeOK, disk, promises
  <1> QED
    BY <1>4, <1>5, <1>6, <1>7, <1>8 DEF IInv

LEMMA MarkIInv ==
  ASSUME IInv, NEW p \in Procs, Mark(p)
  PROVE  IInv'
  <1> DEFINE o == [op[p] EXCEPT !.unmarked = {}]
             pc == IF op[p].kind = "upsert" THEN "check" ELSE "lock"
  <1>1. TypeOK /\ CallInv /\ OwedInv /\ None \notin Op /\ None \notin Texts
    BY ConstantsAssumption DEF IInv
  <1>2. /\ at[p] = "mark" /\ flush = None /\ op' = [op EXCEPT ![p] = o]
        /\ at' = [at EXCEPT ![p] = pc]
        /\ UNCHANGED <<mem, deferFlush, disk, flush, promises, calls, faults>>
    BY DEF Mark
  <1>3. op[p] \in Op /\ op[p] # None
    BY <1>1, <1>2 DEF TypeOK
  <1>4. /\ o \in Op /\ o.kind = op[p].kind /\ o.docs = op[p].docs /\ o.text = op[p].text
        /\ o.todo = op[p].todo /\ o.unmarked = {}
    BY <1>3 DEF Op
  <1>5. op[p].kind = "delete" => force' = TRUE /\ dirty' = [dirty EXCEPT !["chunks"] = {}]
    BY DEF Mark
  <1>6. op[p].kind # "delete" =>
            /\ dirty' = [f \in Files |-> IF f \in Target(op[p].kind) THEN dirty[f] \cup op[p].docs ELSE dirty[f]]
            /\ force' = force
    BY DEF Mark
  <1> HIDE DEF o
  <1>7. op'[p] = o /\ \A q \in Procs : q # p => op'[q] = op[q]
    BY <1>1, <1>2 DEF TypeOK
  <1>8. dirty' \in [Files -> SUBSET Docs] /\ force' \in BOOLEAN
    <2>1. op[p].docs \subseteq Docs /\ dirty \in [Files -> SUBSET Docs] /\ force \in BOOLEAN
      BY <1>1, <1>3 DEF TypeOK, Op
    <2>2. dirty' \in [Files -> SUBSET Docs]
      BY <1>5, <1>6, <2>1
    <2>3. force' \in BOOLEAN
      BY <1>5, <1>6, <2>1
    <2> QED
      BY <2>2, <2>3
  <1>9. OwedInv'
    <2>1. /\ lost' = lost /\ mem' = mem /\ flush' = None
          /\ \A f \in Files : Loaded(f)' = Loaded(f)
      BY <1>2 DEF disk, Loaded
    <2>2. CASE op[p].kind = "delete"
      BY <1>5, <2>2 DEF OwedInv
    <2>3. CASE op[p].kind # "delete"
      <3>1. op[p].text # None
        BY <1>1, <1>3, <2>3 DEF CallInv
      <3>2. \A f \in Files, d \in Docs :
                InWin(f, d) => InWin(f, d)' \/ (d \in dirty'[f] /\ mem[f][d] # None)
        <4> SUFFICES ASSUME NEW f \in Files, NEW d \in Docs, NEW q \in Procs,
                            Touches(op[q], f, d), d \in op[q].unmarked, mem[f][d] = op[q].text
                     PROVE  InWin(f, d)' \/ (d \in dirty'[f] /\ mem[f][d] # None)
          BY DEF InWin
        <4>1. CASE q = p
          BY <4>1, <1>6, <2>3, <3>1 DEF Touches
        <4>2. CASE q # p
          BY <4>2, <1>7, <2>1 DEF InWin
        <4> QED
          BY <4>1, <4>2
      <3>3. force' = force /\ \A f \in Files : dirty[f] \subseteq dirty'[f]
        BY <1>6, <2>3
      <3> QED
        BY <1>1, <1>2, <2>1, <3>2, <3>3 DEF OwedInv
    <2> QED
      BY <2>2, <2>3
  <1>10. pc \in {"work", "check", "lock"} /\ pc # "work"
    OBVIOUS
  <1> HIDE DEF pc
  <1> QED
    BY <1>2, <1>3, <1>4, <1>8, <1>9, <1>10, MarkStep

LEMMA MarkWorkIInv ==
  ASSUME IInv, NEW p \in Procs, NEW d0 \in Docs, MarkWork(p, d0)
  PROVE  IInv'
  <1> DEFINE o == [op[p] EXCEPT !.unmarked = @ \ {d0}]
  <1>1. TypeOK /\ CallInv /\ OwedInv /\ None \notin Op /\ None \notin Texts
    BY ConstantsAssumption DEF IInv
  <1>2. /\ at[p] = "work" /\ flush = None /\ op' = [op EXCEPT ![p] = o] /\ at' = at
        /\ dirty' = [dirty EXCEPT !["chunks"] = @ \cup {d0}] /\ force' = force
        /\ UNCHANGED <<mem, deferFlush, disk, flush, promises, calls, faults>>
    BY DEF MarkWork
  <1>3. op[p] \in Op /\ op[p] # None /\ op[p].kind = "burst"
    BY <1>1, <1>2 DEF TypeOK, CallInv
  <1>4. /\ o \in Op /\ o.kind = op[p].kind /\ o.docs = op[p].docs /\ o.text = op[p].text
        /\ o.todo = op[p].todo /\ o.unmarked = op[p].unmarked \ {d0}
    BY <1>3 DEF Op
  <1> HIDE DEF o
  <1>5. op'[p] = o /\ o # None /\ \A q \in Procs : q # p => op'[q] = op[q]
    BY <1>1, <1>2, <1>4 DEF TypeOK
  <1>6. /\ dirty' \in [Files -> SUBSET Docs] /\ force' \in BOOLEAN /\ d0 \in dirty'["chunks"]
        /\ \A f \in Files : dirty[f] \subseteq dirty'[f]
    BY <1>1, <1>2 DEF TypeOK, Files
  <1>7. OwedInv'
    <2>1. /\ lost' = lost /\ mem' = mem /\ flush' = None
          /\ \A f \in Files : Loaded(f)' = Loaded(f)
      BY <1>2 DEF disk, Loaded
    <2>2. op[p].text # None
      BY <1>1, <1>3 DEF CallInv
    <2>3. \A f \in Files, d \in Docs :
              InWin(f, d) => InWin(f, d)' \/ (d \in dirty'[f] /\ mem[f][d] # None)
      <3> SUFFICES ASSUME NEW f \in Files, NEW d \in Docs, NEW q \in Procs,
                          Touches(op[q], f, d), d \in op[q].unmarked, mem[f][d] = op[q].text
                   PROVE  InWin(f, d)' \/ (d \in dirty'[f] /\ mem[f][d] # None)
        BY DEF InWin
      <3>1. CASE q = p /\ d = d0
        <4>1. f = "chunks"
          BY <3>1, <1>3 DEF Touches, Target
        <4> QED
          BY <3>1, <4>1, <1>6, <2>2
      <3>2. CASE q = p /\ d # d0
        <4>1. Touches(op'[p], f, d) /\ d \in op'[p].unmarked /\ mem'[f][d] = op'[p].text
          BY <3>2, <1>4, <1>5, <2>1 DEF Touches
        <4> QED
          BY <4>1 DEF InWin
      <3>3. CASE q # p
        BY <3>3, <1>5, <2>1 DEF InWin
      <3> QED
        BY <3>1, <3>2, <3>3
    <2> QED
      BY <1>1, <1>2, <1>6, <2>1, <2>3 DEF OwedInv
  <1>8. at' = [at EXCEPT ![p] = "work"]
    BY <1>1, <1>2 DEF TypeOK
  <1> QED
    BY <1>2, <1>3, <1>4, <1>6, <1>7, <1>8, MarkStep

-----------------------------------------------------------------------------
(* Calls that move on or return. *)

\* Where the goroutines are after such a step, and what they were promised: what had
\* been, or, after a flush, what memory holds and no call is about to mark.
Moves(flushed) ==
    /\ at' \in [Procs -> {"idle", "work", "mark", "check", "lock", "again"}]
    /\ op' \in [Procs -> Op \cup {None}] /\ \A q \in Procs : at'[q] = "idle" <=> op'[q] = None
    /\ told' \in [Files -> [Docs -> Texts \cup {None, Unknown}]]
    /\ claimed' \in [Files -> SUBSET Docs]
    /\ CallInv' /\ Promised'
    /\ \A f \in Files, d \in Docs :
          /\ InWin(f, d)' <=> InWin(f, d)
          /\ told'[f][d] # Unknown /\ d \notin claimed'[f] =>
               \/ told'[f][d] = told[f][d] /\ d \notin claimed[f]
               \/ flushed /\ told'[f][d] = mem[f][d] /\ ~InWin(f, d)

LEMMA ReturnMoves ==
  ASSUME IInv, NEW p \in Procs, op[p] # None, op[p].unmarked = {}, NEW ok \in BOOLEAN,
         NEW flushed \in BOOLEAN, Return(p, ok, flushed), mem' = mem
  PROVE  Moves(flushed)
  <1> DEFINE mine(f, d) == Touches(op[p], f, d) /\ \A q \in Procs \ {p} : ~Touches(op[q], f, d)
  <1>1. TypeOK /\ CallInv /\ Promised
    BY DEF IInv
  <1>2. /\ at' = [at EXCEPT ![p] = "idle"] /\ op' = [op EXCEPT ![p] = None]
        /\ told' = [f \in Files |-> [d \in Docs |-> IF ok /\ mine(f, d) THEN mem[f][d] ELSE told[f][d]]]
        /\ claimed' = [f \in Files |-> {d \in Docs : IF ok /\ mine(f, d) THEN ~flushed ELSE d \in claimed[f]}]
    BY DEF Return
  <1>3. /\ op'[p] = None /\ at'[p] = "idle"
        /\ \A q \in Procs : q # p => op'[q] = op[q] /\ at'[q] = at[q]
    BY <1>1, <1>2 DEF TypeOK
  <1>4. \A f \in Files, d \in Docs :
            \/ ok /\ mine(f, d) /\ told'[f][d] = mem[f][d] /\ (d \in claimed'[f] <=> ~flushed)
            \/ ~(ok /\ mine(f, d)) /\ told'[f][d] = told[f][d] /\ (d \in claimed'[f] <=> d \in claimed[f])
    BY <1>2
  <1>5. \A f \in Files, d \in Docs : mine(f, d) => \A q \in Procs : ~Touches(op'[q], f, d)
    BY <1>3 DEF Touches
  <1>6. \A f \in Files, d \in Docs : InWin(f, d)' <=> InWin(f, d)
    BY <1>3 DEF InWin, Touches
  <1>7. \A f \in Files, d \in Docs : mine(f, d) => ~InWin(f, d)
    BY DEF InWin
  <1>8. \A q \in Procs, f \in Files, d \in Docs : Touches(op'[q], f, d) => Touches(op[q], f, d)
    BY <1>3 DEF Touches
  <1>9. /\ told' \in [Files -> [Docs -> Texts \cup {None, Unknown}]]
        /\ claimed' \in [Files -> SUBSET Docs]
    <2>1. \A f \in Files, d \in Docs : mem[f][d] \in Texts \cup {None}
      BY <1>1 DEF TypeOK, Records
    <2>2. told \in [Files -> [Docs -> Texts \cup {None, Unknown}]]
      BY <1>1 DEF TypeOK
    <2> HIDE DEF mine
    <2> QED
      BY <1>2, <2>1, <2>2
  <1> HIDE DEF mine
  <1>10. Promised'
    <2> SUFFICES ASSUME NEW f \in Files, NEW d \in Docs, told'[f][d] # Unknown
                 PROVE  told'[f][d] = mem[f][d] /\ \A q \in Procs : ~Touches(op'[q], f, d)
      BY DEF Promised
    <2>1. CASE ok /\ mine(f, d)
      BY <2>1, <1>4, <1>5
    <2>2. CASE ~(ok /\ mine(f, d))
      <3>1. told'[f][d] = told[f][d]
        BY ONLY <1>4, <2>2, f \in Files, d \in Docs
      <3>2. told[f][d] = mem[f][d] /\ \A q \in Procs : ~Touches(op[q], f, d)
        BY ONLY <1>1, <3>1, f \in Files, d \in Docs, told'[f][d] # Unknown DEF Promised
      <3> QED
        BY ONLY <1>8, <3>1, <3>2, f \in Files, d \in Docs
    <2> QED
      BY <2>1, <2>2
  <1>11. CallInv'
    BY <1>1, <1>3 DEF CallInv
  <1>12. \A f \in Files, d \in Docs : told'[f][d] # Unknown /\ d \notin claimed'[f] =>
               \/ told'[f][d] = told[f][d] /\ d \notin claimed[f]
               \/ flushed /\ told'[f][d] = mem[f][d] /\ ~InWin(f, d)
    <2> SUFFICES ASSUME NEW f \in Files, NEW d \in Docs, d \notin claimed'[f]
                 PROVE  \/ told'[f][d] = told[f][d] /\ d \notin claimed[f]
                        \/ flushed /\ told'[f][d] = mem[f][d] /\ ~InWin(f, d)
      OBVIOUS
    <2>1. CASE ok /\ mine(f, d)
      BY <2>1, <1>4, <1>7
    <2>2. CASE ~(ok /\ mine(f, d))
      BY <2>2, <1>4
    <2> QED
      BY <2>1, <2>2
  <1>13. /\ at' \in [Procs -> {"idle", "work", "mark", "check", "lock", "again"}]
         /\ op' \in [Procs -> Op \cup {None}]
    BY <1>1, <1>2 DEF TypeOK
  <1>14. \A q \in Procs : at'[q] = "idle" <=> op'[q] = None
    BY <1>1, <1>3 DEF TypeOK
  <1> QED
    BY <1>6, <1>9, <1>10, <1>11, <1>12, <1>13, <1>14 DEF Moves

\* The call goes on to its next flush.
LEMMA NextMoves ==
  ASSUME IInv, NEW p \in Procs, at[p] \in {"check", "lock"} \/ (at[p] = "work" /\ op[p].unmarked = {}),
         NEW pc \in {"lock", "again"}, at' = [at EXCEPT ![p] = pc], UNCHANGED <<mem, op, promises>>
  PROVE  Moves(FALSE)
  <1>1. TypeOK /\ CallInv /\ Promised
    BY DEF IInv
  <1>2. at'[p] = pc /\ \A q \in Procs : q # p => at'[q] = at[q]
    BY <1>1 DEF TypeOK
  <1>3. op' = op /\ told' = told /\ claimed' = claimed /\ mem' = mem
    BY DEF promises
  <1>4. CallInv'
    BY <1>1, <1>2, <1>3 DEF CallInv
  <1>5. Promised' /\ \A f \in Files, d \in Docs : InWin(f, d)' <=> InWin(f, d)
    BY <1>1, <1>3 DEF Promised, InWin
  <1>6. \A q \in Procs : at'[q] = "idle" <=> op'[q] = None
    BY <1>1, <1>2, <1>3 DEF TypeOK
  <1>7. at' \in [Procs -> {"idle", "work", "mark", "check", "lock", "again"}]
    BY <1>1 DEF TypeOK
  <1>8. /\ op' \in [Procs -> Op \cup {None}] /\ claimed' \in [Files -> SUBSET Docs]
        /\ told' \in [Files -> [Docs -> Texts \cup {None, Unknown}]]
    BY <1>1, <1>3 DEF TypeOK
  <1> QED
    BY <1>3, <1>4, <1>5, <1>6, <1>7, <1>8 DEF Moves

LEMMA FlushedMoves ==
  ASSUME IInv, NEW p \in Procs, at[p] \in {"lock", "again"}, NEW ok \in BOOLEAN, Flushed(p, ok), mem' = mem
  PROVE  Moves(ok)
  <1>1. op[p] # None /\ op[p].unmarked = {}
    BY DEF IInv, TypeOK, CallInv
  <1>2. CASE at[p] = "lock" /\ op[p].kind = "burst" /\ ok
    <2>1. Moves(FALSE)
      BY <1>2, NextMoves DEF Flushed
    <2> QED
      BY <2>1 DEF Moves
  <1>3. CASE ~(at[p] = "lock" /\ op[p].kind = "burst" /\ ok)
    <2> DEFINE good == ok \/ op[p].kind = "delete" \/ at[p] = "again"
    <2>1. Return(p, good, ok) /\ good \in BOOLEAN
      BY <1>3 DEF Flushed
    <2> HIDE DEF good
    <2> QED
      BY <1>1, <2>1, ReturnMoves
  <1> QED
    BY <1>2, <1>3

LEMMA MovesIInv ==
  ASSUME IInv, Moves(FALSE), UNCHANGED <<mem, dirty, force, disk, flush, calls, faults>>,
         deferFlush' \in Int, Owner'
  PROVE  IInv'
  <1>1. TypeOK /\ Copy /\ Written /\ Forced /\ OwedInv /\ Kept
    BY DEF IInv
  <1>2. Copy' /\ Written' /\ Forced' /\ OwedInv'
    <2>1. \A f \in Files, d \in Docs : InWin(f, d)' \/ (mem'[f][d] = mem[f][d] /\ ~InWin(f, d))
      BY DEF Moves
    <2> QED
      BY <1>1, <2>1, WindowStep
  <1>3. Kept'
    <2>1. lost' = lost /\ \A f \in Files : Loaded(f)' = Loaded(f)
      BY DEF disk, Loaded
    <2>2. \A f \in Files, d \in Docs : told'[f][d] # Unknown /\ d \notin claimed'[f] =>
              told'[f][d] = told[f][d] /\ d \notin claimed[f]
      BY DEF Moves
    <2>3. Kept
      BY <1>1
    <2>4. ASSUME NEW f \in Files, NEW d \in Docs \ (claimed'[f] \cup lost'[f]), told'[f][d] # Unknown
          PROVE  Loaded(f)'[d] = told'[f][d]
      <3>1. told'[f][d] = told[f][d] /\ d \in Docs \ (claimed[f] \cup lost[f])
        BY ONLY <2>1, <2>2, <2>4, f \in Files
      <3>2. Loaded(f)[d] = told[f][d]
        BY ONLY <2>3, <2>4, <3>1, f \in Files DEF Kept
      <3>3. Loaded(f)' = Loaded(f)
        BY ONLY <2>1, f \in Files
      <3> QED
        BY ONLY <3>1, <3>2, <3>3
    <2> QED
      BY ONLY <2>4 DEF Kept
  <1>4. TypeOK'
    BY <1>1 DEF TypeOK, Moves, disk
  <1> QED
    BY <1>2, <1>3, <1>4 DEF IInv, Moves

LEMMA CheckIInv ==
  ASSUME IInv, NEW p \in Procs, Check(p)
  PROVE  IInv'
  <1>1. at[p] = "check" /\ UNCHANGED <<mem, marks, disk, flush, calls, faults>>
    BY DEF Check
  <1>2. TypeOK /\ Owner /\ op[p] # None /\ op[p].unmarked = {}
    BY <1>1 DEF IInv, TypeOK, CallInv
  <1>3. deferFlush' \in Int /\ UNCHANGED <<mem, dirty, force, disk, flush, calls, faults>>
    BY <1>1, <1>2 DEF marks, TypeOK
  <1>4. PICK pc : at' = [at EXCEPT ![p] = pc]
    BY DEF Check, Return
  <1>5. Owner'
    BY <1>1, <1>2, <1>4 DEF Owner, TypeOK
  <1>6. Moves(FALSE)
    <2>1. CASE deferFlush > 0
      BY <2>1, <1>1, <1>2, ReturnMoves DEF Check
    <2>2. CASE ~(deferFlush > 0)
      BY <2>2, <1>1, NextMoves DEF Check
    <2> QED
      BY <2>1, <2>2
  <1> QED
    BY <1>3, <1>5, <1>6, MovesIInv

LEMMA EndBatchIInv ==
  ASSUME IInv, NEW p \in Procs, EndBatch(p)
  PROVE  IInv'
  <1> DEFINE pc == IF deferFlush = 1 THEN "lock" ELSE "again"
  <1>1. /\ at[p] = "work" /\ op[p].unmarked = {} /\ deferFlush' = deferFlush - 1
        /\ at' = [at EXCEPT ![p] = pc] /\ pc \in {"lock", "again"}
        /\ UNCHANGED <<mem, dirty, force, disk, op, flush, promises, calls, faults>>
    BY DEF EndBatch
  <1> HIDE DEF pc
  <1>2. TypeOK /\ Owner
    BY DEF IInv
  <1>3. deferFlush' \in Int
    <2>1. deferFlush \in Int
      BY <1>2 DEF TypeOK
    <2> QED
      BY ONLY <1>1, <2>1
  <1>4. Owner'
    BY <1>1, <1>2 DEF Owner, TypeOK
  <1>5. Moves(FALSE)
    BY <1>1, NextMoves
  <1> QED
    BY <1>1, <1>3, <1>4, <1>5, MovesIInv

-----------------------------------------------------------------------------
(* The steps of a flush. *)

LEMMA BeginFlushIInv ==
  ASSUME IInv, NEW p \in Procs, BeginFlush(p)
  PROVE  IInv'
  <1> DEFINE r == [by |-> p, file |-> "chunks", step |-> "write", forced |-> force, snap |-> mem]
  <1>1. /\ at[p] \in {"lock", "again"} /\ flush = None /\ flush' = r
        /\ UNCHANGED <<mem, marks, disk, at, op, promises, calls, faults>>
    BY DEF BeginFlush
  <1>2. TypeOK /\ CallInv /\ Promised /\ OwedInv /\ Kept
    BY DEF IInv
  <1>3. r \in Flush
    <2>1. mem \in [Files -> Records]
      BY <1>2 DEF TypeOK
    <2>2. force \in BOOLEAN
      BY <1>2 DEF TypeOK
    <2> QED
      BY <2>1, <2>2 DEF Flush, Files
  <1>4. r.by = p /\ r.file = "chunks" /\ r.step = "write" /\ r.snap = mem
    OBVIOUS
  <1>5. r.forced = force
    OBVIOUS
  <1>6. r # None
    BY <1>3, ConstantsAssumption
  <1> HIDE DEF r
  <1>7. UNCHANGED <<mem, dirty, force, deferFlush, base, delta, lines, torn, lost, at, op, told, claimed, calls, faults>>
    BY <1>1 DEF marks, disk, promises
  <1>8. (\A f \in Files : Loaded(f)' = Loaded(f)) /\ \A f \in Files, d \in Docs : InWin(f, d)' <=> InWin(f, d)
    BY <1>7 DEF Loaded, InWin
  <1>9. TypeOK'
    BY <1>1, <1>2, <1>3, <1>7 DEF TypeOK
  <1>10. CallInv' /\ Promised' /\ Kept'
    <2>1. CallInv'
      BY ONLY <1>2, <1>7 DEF CallInv
    <2>2. Promised'
      BY ONLY <1>2, <1>7 DEF Promised
    <2>3. Kept'
      BY ONLY <1>2, <1>7, <1>8 DEF Kept
    <2> QED
      BY <2>1, <2>2, <2>3
  <1>11. Owner'
    BY <1>1, <1>4, <1>7 DEF Owner
  <1>12. Copy'
    BY <1>1, <1>4, <1>7 DEF Copy
  <1>13. Forced'
    BY <1>1, <1>5, <1>7 DEF Forced
  <1>14. OwedInv'
    BY <1>1, <1>6 DEF OwedInv
  <1>15. Written'
    <2>1. \A f \in Files : ~Dropping(f)' /\ ~Passed(f)'
      BY <1>1, <1>4 DEF Dropping, Passed
    <2>2. \A f \in Files, d \in Docs :
              \/ Loaded(f)[d] = mem[f][d] \/ d \in lost[f] \/ InWin(f, d)
              \/ force \/ (d \in dirty[f] /\ mem[f][d] # None)
      BY <1>1, <1>2 DEF OwedInv
    <2> QED
      BY <1>1, <1>4, <1>5, <1>7, <1>8, <2>1, <2>2 DEF Written
  <1> QED
    BY <1>9, <1>10, <1>11, <1>12, <1>13, <1>14, <1>15 DEF IInv

\* A flush ends, with or without an error, at a file whose lines may be partly written.
LEMMA EndIInv ==
  ASSUME IInv, NEW ok \in BOOLEAN, Moves(ok), flush # None, flush' = None, UNCHANGED <<mem, marks, calls>>,
         faults' \in Nat, base' \in [Files -> Records], delta' \in [Files -> Records],
         lines' \in [Files -> Nat], torn' \in [Files -> BOOLEAN], lost' \in [Files -> SUBSET Docs],
         flush.step # "drop", ok => flush.step = "hot",
         \A f \in Files, d \in Docs :
            \/ Loaded(f)'[d] = Loaded(f)[d] /\ (d \in lost'[f] <=> d \in lost[f])
            \/ d \in lost'[f]
            \/ Loaded(f)'[d] = flush.snap[f][d] /\ (told[f][d] # Unknown => flush.snap[f][d] = mem[f][d])
  PROVE  IInv'
  <1>1. TypeOK /\ Promised /\ Copy /\ Written /\ Forced /\ Kept
    BY DEF IInv
  <1>2. mem' = mem /\ dirty' = dirty /\ force' = force /\ deferFlush' = deferFlush /\ calls' = calls
    BY DEF marks
  <1>3. \A f \in Files, d \in Docs :
            /\ flush.snap[f][d] = mem[f][d] \/ InWin(f, d)
            /\ \/ Loaded(f)[d] = flush.snap[f][d] \/ d \in lost[f] \/ InWin(f, d)
               \/ ~Passed(f) /\ (flush.forced \/ (d \in dirty[f] /\ flush.snap[f][d] # None))
    BY <1>1 DEF Copy, Written, Dropping
  <1>4. flush.step = "hot" => \A f \in Files : Passed(f)
    BY DEF Passed
  <1>5. flush.forced => force \/ \A f \in Files : Passed(f)
    BY <1>1, <1>4 DEF Forced
  <1>6. OwedInv'
    <2> SUFFICES ASSUME NEW f \in Files, NEW d \in Docs, ~InWin(f, d), d \notin lost'[f]
                 PROVE  \/ Loaded(f)'[d] = mem[f][d] \/ force
                        \/ (d \in dirty[f] /\ mem[f][d] # None)
      <3>1. \A f \in Files, d \in Docs : InWin(f, d)' <=> InWin(f, d)
        BY DEF Moves
      <3> QED
        BY <3>1, <1>2 DEF OwedInv
    <2>1. /\ flush.snap[f][d] = mem[f][d]
          /\ \/ Loaded(f)[d] = flush.snap[f][d] \/ d \in lost[f]
             \/ force \/ (d \in dirty[f] /\ flush.snap[f][d] # None)
      BY <1>3, <1>5
    <2>2. \/ Loaded(f)'[d] = Loaded(f)[d] /\ d \notin lost[f]
          \/ Loaded(f)'[d] = flush.snap[f][d]
      OBVIOUS
    <2> QED
      BY <2>1, <2>2
  <1>7. Kept'
    <2> SUFFICES ASSUME NEW f \in Files, NEW d \in Docs, told'[f][d] # Unknown, d \notin claimed'[f],
                        d \notin lost'[f]
                 PROVE  Loaded(f)'[d] = told'[f][d]
      BY DEF Kept
    <2>1. CASE told'[f][d] = told[f][d] /\ d \notin claimed[f]
      <3>1. told[f][d] = mem[f][d] /\ (d \notin lost[f] => Loaded(f)[d] = told[f][d])
        BY <2>1, <1>1 DEF Kept, Promised
      <3>2. \/ Loaded(f)'[d] = Loaded(f)[d] /\ d \notin lost[f]
            \/ Loaded(f)'[d] = mem[f][d]
        BY <2>1
      <3> QED
        BY <2>1, <3>1, <3>2
    <2>2. CASE ok /\ told'[f][d] = mem[f][d] /\ ~InWin(f, d)
      <3>1. Passed(f)
        BY <2>2, <1>4
      <3>2. flush.snap[f][d] = mem[f][d] /\ (Loaded(f)[d] = mem[f][d] \/ d \in lost[f])
        BY <2>2, <3>1, <1>3
      <3>3. \/ Loaded(f)'[d] = Loaded(f)[d] /\ d \notin lost[f]
            \/ Loaded(f)'[d] = flush.snap[f][d]
        OBVIOUS
      <3> QED
        BY <2>2, <3>2, <3>3
    <2> QED
      BY <2>1, <2>2 DEF Moves
  <1>8. TypeOK'
    BY <1>1, <1>2 DEF TypeOK, Moves
  <1>9. Owner' /\ Copy' /\ Written' /\ Forced'
    BY DEF Owner, Copy, Written, Forced
  <1> QED
    BY <1>6, <1>7, <1>8, <1>9 DEF IInv, Moves

LEMMA EndFlushIInv ==
  ASSUME IInv, EndFlush \/ FlushFails
  PROVE  IInv'
  <1>1. PICK ok \in BOOLEAN : /\ Flushed(flush.by, ok) /\ (ok => flush.step = "hot")
                             /\ flush # None /\ flush.step # "drop" /\ flush' = None
                             /\ UNCHANGED <<mem, marks, disk, calls>>
    BY DEF EndFlush, FlushFails
  <1>2. TypeOK /\ Owner
    BY DEF IInv
  <1>3. Moves(ok)
    BY <1>1, <1>2, FlushedMoves DEF Owner
  <1>4. faults' \in Nat
    <2>1. faults' = faults \/ faults' = faults + 1
      BY DEF EndFlush, FlushFails, Fault
    <2>2. faults \in Nat
      BY <1>2 DEF TypeOK
    <2> QED
      BY ONLY <2>1, <2>2
  <1>5. /\ base' \in [Files -> Records] /\ delta' \in [Files -> Records]
        /\ lines' \in [Files -> Nat] /\ lost' \in [Files -> SUBSET Docs]
    BY <1>1, <1>2 DEF TypeOK, disk
  <1>6. torn' \in [Files -> BOOLEAN]
    BY <1>1, <1>2 DEF TypeOK, disk
  <1>7. \A f \in Files, d \in Docs : Loaded(f)'[d] = Loaded(f)[d] /\ (d \in lost'[f] <=> d \in lost[f])
    BY <1>1 DEF disk, Loaded
  <1> QED
    BY <1>1, <1>3, <1>4, <1>5, <1>6, <1>7, EndIInv

\* Nothing promised is about to change, so a flush has it as memory does.
LEMMA PromisedCopy ==
  ASSUME Promised, Copy, flush # None, NEW f \in Files, NEW d \in Docs, told[f][d] # Unknown
  PROVE  flush.snap[f][d] = mem[f][d] /\ told[f][d] = mem[f][d]
  BY DEF Promised, Copy, InWin

LEMMA AppendFacts ==
  ASSUME TypeOK, flush # None, NEW g \in Files, NEW S \in SUBSET Docs, S \subseteq Appended(g),
         AppendLines(g, S), base' = base
  PROVE  /\ delta' \in [Files -> Records] /\ lines' \in [Files -> Nat] /\ lost' \in [Files -> SUBSET Docs]
         /\ \A f \in Files, d \in Docs :
               IF f = g /\ d \in S
               THEN d \in lost'[f] \/ Loaded(f)'[d] = flush.snap[f][d]
               ELSE Loaded(f)'[d] = Loaded(f)[d] /\ (d \in lost'[f] <=> d \in lost[f])
  <1>1. PICK bad \in SUBSET S :
            /\ delta' = [delta EXCEPT ![g] = [d \in Docs |-> IF d \in S \ bad THEN flush.snap[g][d] ELSE @[d]]]
            /\ lost' = [lost EXCEPT ![g] = (@ \ S) \cup bad]
            /\ lines' = [lines EXCEPT ![g] = @ + Cardinality(S)]
    BY DEF AppendLines
  <1>2. /\ delta \in [Files -> Records] /\ base \in [Files -> Records]
        /\ lost \in [Files -> SUBSET Docs] /\ lines \in [Files -> Nat]
    BY DEF TypeOK
  <1>3. \A d \in Docs : flush.snap[g][d] \in Texts \cup {None}
    <2>1. flush.snap \in [Files -> Records]
      BY DEF TypeOK, Flush
    <2> QED
      BY <2>1 DEF Records
  <1>4. \A d \in S : flush.snap[g][d] # None
    BY DEF Appended
  <1>5. lines' \in [Files -> Nat]
    <2>1. IsFiniteSet(S)
      BY ConstantsAssumption, FS_Subset
    <2>2. Cardinality(S) \in Nat
      BY <2>1, FS_CardinalityType
    <2> QED
      BY <1>1, <1>2, <2>2
  <1>6. lost' \in [Files -> SUBSET Docs]
    BY <1>1, <1>2
  <1>7. delta' \in [Files -> Records]
    BY <1>1, <1>2, <1>3 DEF Records
  <1>8. \A f \in Files, d \in Docs :
            IF f = g /\ d \in S
            THEN d \in lost'[f] \/ Loaded(f)'[d] = flush.snap[f][d]
            ELSE Loaded(f)'[d] = Loaded(f)[d] /\ (d \in lost'[f] <=> d \in lost[f])
    <2> SUFFICES ASSUME NEW f \in Files, NEW d \in Docs
                 PROVE  IF f = g /\ d \in S
                        THEN d \in lost'[f] \/ Loaded(f)'[d] = flush.snap[f][d]
                        ELSE Loaded(f)'[d] = Loaded(f)[d] /\ (d \in lost'[f] <=> d \in lost[f])
      OBVIOUS
    <2>1. CASE f = g /\ d \in bad
      BY <2>1, <1>1, <1>2
    <2>2. CASE f = g /\ d \in S \ bad
      <3>1. delta'[f][d] = flush.snap[f][d]
        BY <2>2, <1>1, <1>2
      <3> QED
        BY <2>2, <1>4, <3>1 DEF Loaded
    <2>3. CASE ~(f = g /\ d \in S)
      <3>1. delta'[f][d] = delta[f][d] /\ (d \in lost'[f] <=> d \in lost[f])
        BY <2>3, <1>1, <1>2
      <3> QED
        BY <2>3, <3>1 DEF Loaded
    <2> QED
      BY <2>1, <2>2, <2>3
  <1> QED
    BY <1>5, <1>6, <1>7, <1>8

LEMMA AppendFailsIInv ==
  ASSUME IInv, NEW g \in Files, NEW S \in SUBSET Docs, AppendFails(g, S)
  PROVE  IInv'
  <1>1. /\ flush # None /\ flush.step = "write" /\ S \subseteq Appended(g) /\ AppendLines(g, S)
        /\ flush' = None /\ Flushed(flush.by, FALSE) /\ base' = base /\ UNCHANGED <<mem, marks, calls>>
    BY DEF AppendFails
  <1>2. TypeOK /\ Owner /\ Promised /\ Copy
    BY DEF IInv
  <1>3. Moves(FALSE)
    BY <1>1, <1>2, FlushedMoves DEF Owner
  <1>4. faults' \in Nat
    <2>1. faults' = faults + 1
      BY DEF AppendFails, Fault
    <2>2. faults \in Nat
      BY <1>2 DEF TypeOK
    <2> QED
      BY ONLY <2>1, <2>2
  <1>5. torn' \in [Files -> BOOLEAN]
    <2>1. \E c \in BOOLEAN : torn' = [torn EXCEPT ![g] = c]
      BY DEF AppendFails
    <2>2. torn \in [Files -> BOOLEAN]
      BY <1>2 DEF TypeOK
    <2> QED
      BY ONLY <2>1, <2>2
  <1>6. base' \in [Files -> Records]
    BY <1>1, <1>2 DEF TypeOK
  <1>7. /\ delta' \in [Files -> Records] /\ lines' \in [Files -> Nat] /\ lost' \in [Files -> SUBSET Docs]
        /\ \A f \in Files, d \in Docs :
              IF f = g /\ d \in S
              THEN d \in lost'[f] \/ Loaded(f)'[d] = flush.snap[f][d]
              ELSE Loaded(f)'[d] = Loaded(f)[d] /\ (d \in lost'[f] <=> d \in lost[f])
    BY <1>1, <1>2, AppendFacts
  <1>8. \A f \in Files, d \in Docs : told[f][d] # Unknown => flush.snap[f][d] = mem[f][d]
    BY <1>1, <1>2, PromisedCopy
  <1>9. \A f \in Files, d \in Docs :
            \/ Loaded(f)'[d] = Loaded(f)[d] /\ (d \in lost'[f] <=> d \in lost[f])
            \/ d \in lost'[f]
            \/ Loaded(f)'[d] = flush.snap[f][d] /\ (told[f][d] # Unknown => flush.snap[f][d] = mem[f][d])
    <2> SUFFICES ASSUME NEW f \in Files, NEW d \in Docs
                 PROVE  \/ Loaded(f)'[d] = Loaded(f)[d] /\ (d \in lost'[f] <=> d \in lost[f])
                        \/ d \in lost'[f]
                        \/ Loaded(f)'[d] = flush.snap[f][d] /\ (told[f][d] # Unknown => flush.snap[f][d] = mem[f][d])
      OBVIOUS
    <2>1. told[f][d] # Unknown => flush.snap[f][d] = mem[f][d]
      BY <1>8
    <2>2. IF f = g /\ d \in S
          THEN d \in lost'[f] \/ Loaded(f)'[d] = flush.snap[f][d]
          ELSE Loaded(f)'[d] = Loaded(f)[d] /\ (d \in lost'[f] <=> d \in lost[f])
      BY <1>7
    <2> QED
      BY ONLY <2>1, <2>2
  <1> QED
    BY <1>1, <1>3, <1>4, <1>5, <1>6, <1>7, <1>9, EndIInv

\* A flush goes on.
LEMMA GoOnIInv ==
  ASSUME IInv, flush # None, flush' \in Flush, flush'.by = flush.by, flush'.snap = flush.snap,
         UNCHANGED <<mem, deferFlush, at, op, promises, calls, faults>>,
         dirty' \in [Files -> SUBSET Docs], force' \in BOOLEAN,
         base' \in [Files -> Records], delta' \in [Files -> Records],
         lines' \in [Files -> Nat], torn' \in [Files -> BOOLEAN], lost' \in [Files -> SUBSET Docs],
         Written', Forced',
         \A f \in Files, d \in Docs :
            \/ Loaded(f)'[d] = Loaded(f)[d] /\ (d \in lost'[f] <=> d \in lost[f])
            \/ d \in lost'[f] \/ Loaded(f)'[d] = flush.snap[f][d]
  PROVE  IInv'
  <1>1. TypeOK /\ CallInv /\ Owner /\ Promised /\ Copy /\ Kept
    BY DEF IInv
  <1>2. /\ mem' = mem /\ at' = at /\ op' = op /\ told' = told /\ claimed' = claimed
        /\ deferFlush' = deferFlush /\ calls' = calls /\ faults' = faults
    BY DEF promises
  <1>3. flush' # None
    BY ConstantsAssumption
  <1>4. CallInv' /\ Promised'
    <2>1. CallInv'
      BY ONLY <1>1, <1>2 DEF CallInv
    <2>2. Promised'
      BY ONLY <1>1, <1>2 DEF Promised
    <2> QED
      BY <2>1, <2>2
  <1>5. Owner'
    BY <1>1, <1>2 DEF Owner
  <1>6. Copy'
    <2>1. \A f \in Files, d \in Docs : InWin(f, d)' <=> InWin(f, d)
      BY ONLY <1>2 DEF InWin
    <2>2. flush'.snap = flush.snap /\ flush # None
      OBVIOUS
    <2> QED
      BY ONLY <1>1, <1>2, <2>1, <2>2 DEF Copy
  <1>7. OwedInv'
    BY <1>3 DEF OwedInv
  <1>8. Kept'
    <2> SUFFICES ASSUME NEW f \in Files, NEW d \in Docs, told[f][d] # Unknown, d \notin claimed[f],
                        d \notin lost'[f]
                 PROVE  Loaded(f)'[d] = told[f][d]
      BY <1>2 DEF Kept
    <2>1. flush.snap[f][d] = mem[f][d] /\ told[f][d] = mem[f][d]
      BY <1>1, PromisedCopy
    <2>2. d \notin lost[f] => Loaded(f)[d] = told[f][d]
      BY <1>1 DEF Kept
    <2> QED
      BY <2>1, <2>2
  <1>9. TypeOK'
    BY <1>1, <1>2 DEF TypeOK
  <1> QED
    BY <1>4, <1>5, <1>6, <1>7, <1>8, <1>9 DEF IInv

LEMMA RewriteIInv ==
  ASSUME IInv, NEW g \in Files, Rewrite(g)
  PROVE  IInv'
  <1>1. /\ flush # None /\ flush.file = g /\ flush.step \in {"write", "compact"}
        /\ base' = [base EXCEPT ![g] = flush.snap[g]] /\ flush' = [flush EXCEPT !.step = "drop"]
        /\ UNCHANGED <<mem, marks, delta, lines, torn, lost, at, op, promises, calls, faults>>
    BY DEF Rewrite
  <1>2. TypeOK /\ Written /\ Forced
    BY DEF IInv
  <1>3. flush \in Flush /\ flush.snap \in [Files -> Records]
    BY <1>1, <1>2 DEF TypeOK, Flush
  <1>4. /\ flush' \in Flush /\ flush'.by = flush.by /\ flush'.snap = flush.snap
        /\ flush'.file = g /\ flush'.step = "drop"
    BY <1>1, <1>3 DEF Flush
  <1>5. flush'.forced = flush.forced
    BY <1>1, <1>3 DEF Flush
  <1>6. /\ dirty' = dirty /\ force' = force /\ deferFlush' = deferFlush
        /\ UNCHANGED <<mem, delta, lines, torn, lost, at, op, promises, calls, faults>>
    BY <1>1 DEF marks
  <1>7. base' \in [Files -> Records] /\ base'[g] = flush.snap[g] /\ \A f \in Files : f # g => base'[f] = base[f]
    BY <1>1, <1>2, <1>3 DEF TypeOK
  <1>8. \A f \in Files : f # g => Loaded(f)' = Loaded(f)
    BY <1>6, <1>7 DEF Loaded
  <1>9. \A d \in Docs : Loaded(g)'[d] = Loaded(g)[d] \/ Loaded(g)'[d] = flush.snap[g][d]
    BY <1>6, <1>7 DEF Loaded
  <1>10. \A f \in Files : IF f = g THEN Dropping(f)'
                                   ELSE ~Dropping(f)' /\ ~Dropping(f) /\ (Passed(f)' <=> Passed(f))
    BY <1>1, <1>4 DEF Dropping, Passed
  <1>11. Written'
    <2>1. \A f \in Files, d \in Docs : InWin(f, d)' <=> InWin(f, d)
      BY <1>6 DEF InWin
    <2>2. Dropping(g)' /\ base'[g] = flush'.snap[g]
      BY <1>4, <1>7, <1>10
    <2>3. ASSUME NEW f \in Files, f # g, NEW d \in Docs
          PROVE  /\ ~Dropping(f)'
                 /\ \/ Loaded(f)'[d] = flush'.snap[f][d] \/ d \in lost'[f] \/ InWin(f, d)'
                    \/ ~Passed(f)' /\ (flush'.forced \/ (d \in dirty'[f] /\ flush'.snap[f][d] # None))
      <3>1. ~Dropping(f)' /\ ~Dropping(f) /\ (Passed(f)' <=> Passed(f)) /\ Loaded(f)' = Loaded(f)
        BY <2>3, <1>8, <1>10
      <3>2. \/ Loaded(f)[d] = flush.snap[f][d] \/ d \in lost[f] \/ InWin(f, d)
            \/ ~Passed(f) /\ (flush.forced \/ (d \in dirty[f] /\ flush.snap[f][d] # None))
        BY <3>1, <1>1, <1>2 DEF Written
      <3> QED
        BY <2>1, <3>1, <3>2, <1>4, <1>5, <1>6
    <2>4. \A f \in Files : f # g => ~Dropping(f)'
      BY <1>10
    <2> QED
      BY <2>2, <2>3, <2>4 DEF Written
  <1>12. Forced'
    BY <1>1, <1>2, <1>4, <1>5, <1>6 DEF Forced
  <1>13. \A f \in Files, d \in Docs :
            \/ Loaded(f)'[d] = Loaded(f)[d] /\ (d \in lost'[f] <=> d \in lost[f])
            \/ d \in lost'[f] \/ Loaded(f)'[d] = flush.snap[f][d]
    BY <1>6, <1>8, <1>9
  <1>14. /\ dirty' \in [Files -> SUBSET Docs] /\ delta' \in [Files -> Records]
         /\ lines' \in [Files -> Nat] /\ lost' \in [Files -> SUBSET Docs]
    BY <1>2, <1>6 DEF TypeOK
  <1>15. force' \in BOOLEAN /\ torn' \in [Files -> BOOLEAN]
    BY <1>2, <1>6 DEF TypeOK
  <1> QED
    BY <1>1, <1>4, <1>6, <1>7, <1>11, <1>12, <1>13, <1>14, <1>15, GoOnIInv

\* The flush is done with the file it was at.
LEMMA NextFileFacts ==
  ASSUME TypeOK, Written, Forced, flush # None, flush.step # "hot", NEW g \in Files, flush.file = g,
         NextFile, UNCHANGED <<mem, op>>,
         \A f \in Files : f # g => Loaded(f)' = Loaded(f) /\ lost'[f] = lost[f] /\ dirty'[f] = dirty[f],
         \A d \in Docs : Loaded(g)'[d] = flush.snap[g][d] \/ d \in lost'[g] \/ InWin(g, d)
  PROVE  /\ flush' \in Flush /\ flush'.by = flush.by /\ flush'.snap = flush.snap
         /\ force' \in BOOLEAN /\ Written' /\ Forced'
  <1>1. flush \in Flush /\ flush.file \in {"chunks", "sidecars"}
    BY DEF TypeOK, Flush, Files
  <1>2. flush'.forced = flush.forced
    BY <1>1 DEF NextFile, Flush
  <1>3. /\ flush' \in Flush /\ flush'.by = flush.by /\ flush'.snap = flush.snap
        /\ flush'.file = "sidecars" /\ flush'.step = IF flush.file = "chunks" THEN "write" ELSE "hot"
    <2>1. CASE flush.file = "chunks"
      <3>1. flush' = [flush EXCEPT !.file = "sidecars", !.step = "write"]
        BY <2>1 DEF NextFile
      <3> QED
        BY <1>1, <2>1, <3>1 DEF Flush, Files
    <2>2. CASE flush.file = "sidecars"
      <3>1. flush' = [flush EXCEPT !.step = "hot"]
        BY <2>2 DEF NextFile
      <3> QED
        BY <1>1, <2>2, <3>1 DEF Flush, Files
    <2> QED
      BY <1>1, <2>1, <2>2
  <1>4. IF flush.file = "chunks" THEN force' = force ELSE force' = FALSE
    BY DEF NextFile
  <1>5. force' \in BOOLEAN
    BY <1>4 DEF TypeOK
  <1>6. Forced'
    <2>1. flush'.step # "hot" => flush.file = "chunks"
      BY <1>3
    <2> QED
      BY <2>1, <1>2, <1>4 DEF Forced
  <1>7. Written'
    <2>1. \A f \in Files : ~Dropping(f)'
      BY <1>3 DEF Dropping
    <2>2. \A f \in Files, d \in Docs : InWin(f, d)' <=> InWin(f, d)
      BY DEF InWin
    <2>3. ASSUME NEW f \in Files, NEW d \in Docs
          PROVE  \/ Loaded(f)'[d] = flush.snap[f][d] \/ d \in lost'[f] \/ InWin(f, d)
                 \/ ~Passed(f)' /\ (flush.forced \/ (d \in dirty'[f] /\ flush.snap[f][d] # None))
      <3>1. CASE f = g
        BY <3>1
      <3>2. CASE f # g
        <4>1. ~Dropping(f)
          BY <3>2 DEF Dropping
        <4>2. Passed(f)' => Passed(f)
          BY <3>2, <1>1, <1>3 DEF Passed, Files
        <4>3. \/ Loaded(f)[d] = flush.snap[f][d] \/ d \in lost[f] \/ InWin(f, d)
              \/ ~Passed(f) /\ (flush.forced \/ (d \in dirty[f] /\ flush.snap[f][d] # None))
          BY <4>1 DEF Written
        <4> QED
          BY <3>2, <4>2, <4>3
      <3> QED
        BY <3>1, <3>2
    <2>4. \A f \in Files, d \in Docs :
             \/ Loaded(f)'[d] = flush'.snap[f][d] \/ d \in lost'[f] \/ InWin(f, d)'
             \/ ~Passed(f)' /\ (flush'.forced \/ (d \in dirty'[f] /\ flush'.snap[f][d] # None))
      BY ONLY <1>2, <1>3, <2>2, <2>3
    <2> QED
      BY ONLY <2>1, <2>4 DEF Written
  <1> QED
    BY <1>3, <1>5, <1>6, <1>7

LEMMA DropIInv ==
  ASSUME IInv, NEW g \in Files, Drop(g)
  PROVE  IInv'
  <1>1. /\ flush # None /\ flush.file = g /\ flush.step = "drop" /\ NextFile
        /\ delta' = [delta EXCEPT ![g] = Empty] /\ lines' = [lines EXCEPT ![g] = 0]
        /\ lost' = [lost EXCEPT ![g] = {}] /\ dirty' = [dirty EXCEPT ![g] = {}]
        /\ UNCHANGED <<mem, deferFlush, base, at, op, promises, calls, faults>>
    BY DEF Drop
  <1>2. TypeOK /\ Written /\ Forced
    BY DEF IInv
  <1>3. /\ dirty' \in [Files -> SUBSET Docs] /\ lines' \in [Files -> Nat] /\ lost' \in [Files -> SUBSET Docs]
        /\ \A f \in Files : f # g => dirty'[f] = dirty[f] /\ lost'[f] = lost[f]
    BY <1>1, <1>2 DEF TypeOK
  <1>4. torn' \in [Files -> BOOLEAN]
    <2>1. torn' = [torn EXCEPT ![g] = FALSE]
      BY DEF Drop
    <2>2. torn \in [Files -> BOOLEAN]
      BY <1>2 DEF TypeOK
    <2> QED
      BY ONLY <2>1, <2>2
  <1>5. /\ delta' \in [Files -> Records] /\ base' \in [Files -> Records] /\ delta'[g] = Empty
        /\ \A f \in Files : f # g => delta'[f] = delta[f]
    <2>1. Empty \in Records
      BY DEF Empty, Records
    <2> QED
      BY <1>1, <1>2, <2>1 DEF TypeOK
  <1>6. \A f \in Files : f # g => Loaded(f)' = Loaded(f)
    BY <1>1, <1>5 DEF Loaded
  <1>7. \A d \in Docs : Loaded(g)'[d] = flush.snap[g][d]
    <2>1. base[g] = flush.snap[g]
      BY <1>1, <1>2 DEF Written, Dropping
    <2> QED
      BY <1>1, <1>5, <2>1 DEF Loaded, Empty
  <1>8. /\ flush' \in Flush /\ flush'.by = flush.by /\ flush'.snap = flush.snap
        /\ force' \in BOOLEAN /\ Written' /\ Forced'
    BY <1>1, <1>2, <1>3, <1>6, <1>7, NextFileFacts
  <1>9. \A f \in Files, d \in Docs :
            \/ Loaded(f)'[d] = Loaded(f)[d] /\ (d \in lost'[f] <=> d \in lost[f])
            \/ d \in lost'[f] \/ Loaded(f)'[d] = flush.snap[f][d]
    BY <1>3, <1>6, <1>7
  <1> QED
    BY <1>1, <1>3, <1>4, <1>5, <1>8, <1>9, GoOnIInv

LEMMA SkipIInv ==
  ASSUME IInv, NEW g \in Files, Skip(g)
  PROVE  IInv'
  <1>1. /\ flush # None /\ flush.file = g /\ flush.step = "write" /\ ~flush.forced /\ dirty[g] = {}
        /\ NextFile /\ UNCHANGED <<mem, dirty, deferFlush, disk, at, op, promises, calls, faults>>
    BY DEF Skip, Full
  <1>2. TypeOK /\ Written /\ Forced
    BY DEF IInv
  <1>3. /\ UNCHANGED <<base, delta, lines, torn, lost, dirty>>
        /\ \A f \in Files : Loaded(f)' = Loaded(f)
    BY <1>1 DEF disk, Loaded
  <1>4. \A d \in Docs : Loaded(g)'[d] = flush.snap[g][d] \/ d \in lost'[g] \/ InWin(g, d)
    <2>1. ~Dropping(g)
      BY <1>1 DEF Dropping
    <2> QED
      BY <1>1, <1>2, <1>3, <2>1 DEF Written
  <1>5. /\ flush' \in Flush /\ flush'.by = flush.by /\ flush'.snap = flush.snap
        /\ force' \in BOOLEAN /\ Written' /\ Forced'
    BY <1>1, <1>2, <1>3, <1>4, NextFileFacts
  <1>6. /\ dirty' \in [Files -> SUBSET Docs] /\ delta' \in [Files -> Records] /\ base' \in [Files -> Records]
        /\ lines' \in [Files -> Nat] /\ lost' \in [Files -> SUBSET Docs]
    BY <1>2, <1>3 DEF TypeOK
  <1>7. torn' \in [Files -> BOOLEAN]
    BY <1>2, <1>3 DEF TypeOK
  <1>8. \A f \in Files, d \in Docs : Loaded(f)'[d] = Loaded(f)[d] /\ (d \in lost'[f] <=> d \in lost[f])
    BY <1>3
  <1> QED
    BY <1>1, <1>5, <1>6, <1>7, <1>8, GoOnIInv

LEMMA AppendIInv ==
  ASSUME IInv, NEW g \in Files, Append(g)
  PROVE  IInv'
  <1> DEFINE S == Appended(g)
  <1>1. /\ flush # None /\ flush.file = g /\ flush.step = "write" /\ ~flush.forced
        /\ AppendLines(g, S) /\ dirty' = [dirty EXCEPT ![g] = {}] /\ base' = base
        /\ (flush' = [flush EXCEPT !.step = "compact"] /\ force' = force) \/ NextFile
        /\ UNCHANGED <<mem, deferFlush, base, at, op, promises, calls, faults>>
    BY DEF Append, Full
  <1>2. TypeOK /\ Written /\ Forced
    BY DEF IInv
  <1>3. /\ S \in SUBSET Docs /\ S \subseteq Appended(g)
        /\ \A d \in Docs : d \in dirty[g] /\ flush.snap[g][d] # None => d \in S
    BY <1>2 DEF TypeOK, Appended
  <1>4. torn' \in [Files -> BOOLEAN]
    <2>1. torn' = [torn EXCEPT ![g] = @ /\ S = {}]
      BY DEF Append
    <2>2. torn \in [Files -> BOOLEAN]
      BY <1>2 DEF TypeOK
    <2> HIDE DEF S
    <2>3. (torn[g] /\ S = {}) \in BOOLEAN
      OBVIOUS
    <2> QED
      BY ONLY <2>1, <2>2, <2>3
  <1> HIDE DEF S
  <1>5. /\ delta' \in [Files -> Records] /\ lines' \in [Files -> Nat] /\ lost' \in [Files -> SUBSET Docs]
        /\ \A f \in Files, d \in Docs :
              IF f = g /\ d \in S
              THEN d \in lost'[f] \/ Loaded(f)'[d] = flush.snap[f][d]
              ELSE Loaded(f)'[d] = Loaded(f)[d] /\ (d \in lost'[f] <=> d \in lost[f])
    BY <1>1, <1>2, <1>3, AppendFacts
  <1>6. /\ dirty' \in [Files -> SUBSET Docs] /\ base' \in [Files -> Records]
        /\ \A f \in Files : f # g => dirty'[f] = dirty[f]
    BY <1>1, <1>2 DEF TypeOK
  <1>7. \A f \in Files : f # g => Loaded(f)' = Loaded(f) /\ lost'[f] = lost[f]
    <2> SUFFICES ASSUME NEW f \in Files, f # g
                 PROVE  Loaded(f)' = Loaded(f) /\ lost'[f] = lost[f]
      OBVIOUS
    <2>1. \A d \in Docs : Loaded(f)'[d] = Loaded(f)[d]
      BY <1>5
    <2>2. Loaded(f)' = Loaded(f)
      BY <2>1 DEF Loaded
    <2>3. lost[f] \subseteq Docs /\ lost'[f] \subseteq Docs
      BY <1>2, <1>5 DEF TypeOK
    <2> QED
      BY <1>5, <2>2, <2>3
  <1>8. \A d \in Docs : Loaded(g)'[d] = flush.snap[g][d] \/ d \in lost'[g] \/ InWin(g, d)
    <2>1. ~Dropping(g)
      BY <1>1 DEF Dropping
    <2>2. \A d \in Docs : \/ Loaded(g)[d] = flush.snap[g][d] \/ d \in lost[g] \/ InWin(g, d)
                          \/ d \in S
      BY <1>1, <1>2, <1>3, <2>1 DEF Written
    <2> QED
      BY <1>5, <2>2
  <1>9. /\ flush' \in Flush /\ flush'.by = flush.by /\ flush'.snap = flush.snap
        /\ force' \in BOOLEAN /\ Written' /\ Forced'
    <2>1. CASE NextFile
      BY <2>1, <1>1, <1>2, <1>6, <1>7, <1>8, NextFileFacts
    <2>2. CASE flush' = [flush EXCEPT !.step = "compact"] /\ force' = force
      <3>1. flush \in Flush
        BY <1>1, <1>2 DEF TypeOK
      <3>2. /\ flush' \in Flush /\ flush'.by = flush.by /\ flush'.snap = flush.snap
            /\ flush'.file = g /\ flush'.step = "compact"
        BY <2>2, <3>1, <1>1 DEF Flush
      <3>3. flush'.forced = flush.forced
        BY <2>2, <3>1 DEF Flush
      <3>4. force' \in BOOLEAN
        BY <2>2, <1>2 DEF TypeOK
      <3>5. Forced'
        BY <2>2, <3>2, <3>3, <1>1, <1>2 DEF Forced
      <3>6. Written'
        <4> SUFFICES ASSUME NEW f \in Files
                     PROVE  /\ ~Dropping(f)'
                            /\ \A d \in Docs :
                                 \/ Loaded(f)'[d] = flush.snap[f][d] \/ d \in lost'[f] \/ InWin(f, d)
                                 \/ ~Passed(f)' /\ (flush.forced \/ (d \in dirty'[f] /\ flush.snap[f][d] # None))
          BY <3>2, <3>3, <1>1 DEF Written, InWin
        <4>1. ~Dropping(f)' /\ ~Dropping(f)
          BY <3>2, <1>1 DEF Dropping
        <4>2. CASE f = g
          BY <4>1, <4>2, <1>8
        <4>3. CASE f # g
          <5>1. Passed(f)' => Passed(f)
            BY <4>3, <3>2, <1>1 DEF Passed
          <5> QED
            BY <4>1, <4>3, <5>1, <1>1, <1>2, <1>6, <1>7 DEF Written
        <4> QED
          BY <4>2, <4>3
      <3> QED
        BY <3>2, <3>4, <3>5, <3>6
    <2> QED
      BY <1>1, <2>1, <2>2
  <1>10. \A f \in Files, d \in Docs :
            \/ Loaded(f)'[d] = Loaded(f)[d] /\ (d \in lost'[f] <=> d \in lost[f])
            \/ d \in lost'[f] \/ Loaded(f)'[d] = flush.snap[f][d]
    BY ONLY <1>5
  <1> QED
    BY <1>1, <1>4, <1>5, <1>6, <1>9, <1>10, GoOnIInv

-----------------------------------------------------------------------------

LEMMA CrashIInv ==
  ASSUME IInv, Crash
  PROVE  IInv'
  <1>1. /\ mem' = [f \in Files |-> Loaded(f)]
        /\ dirty' = [f \in Files |-> {}] /\ force' = FALSE /\ deferFlush' = 0
        /\ at' = [p \in Procs |-> "idle"] /\ op' = [p \in Procs |-> None] /\ flush' = None
        /\ told' = [f \in Files |-> [d \in Docs |-> IF d \in lost[f] \cup claimed[f] THEN Unknown ELSE told[f][d]]]
        /\ lost' = [f \in Files |-> {}] /\ claimed' = [f \in Files |-> {}]
        /\ UNCHANGED <<base, delta, lines, torn, calls, faults>>
    BY DEF Crash
  <1>2. TypeOK /\ Kept
    BY DEF IInv
  <1>3. \A f \in Files : Loaded(f)' = Loaded(f) /\ mem'[f] = Loaded(f)
    BY <1>1 DEF Loaded
  <1>4. \A f \in Files, d \in Docs : told'[f][d] # Unknown => told'[f][d] = Loaded(f)[d]
    BY <1>1, <1>2 DEF Kept
  <1>5. TypeOK'
    <2>1. mem' \in [Files -> Records]
      <3>1. \A f \in Files : Loaded(f) \in Records
        BY <1>2 DEF TypeOK, Loaded, Records
      <3> QED
        BY <1>1, <3>1
    <2>2. /\ dirty' \in [Files -> SUBSET Docs] /\ lost' \in [Files -> SUBSET Docs]
          /\ claimed' \in [Files -> SUBSET Docs]
      BY <1>1
    <2>3. force' \in BOOLEAN
      BY <1>1
    <2>4. told' \in [Files -> [Docs -> Texts \cup {None, Unknown}]]
      <3>1. told \in [Files -> [Docs -> Texts \cup {None, Unknown}]]
        BY <1>2 DEF TypeOK
      <3> QED
        BY ONLY <1>1, <3>1
    <2>5. deferFlush' \in Int /\ flush' = None
      <3>1. deferFlush' = 0 /\ flush' = None
        BY <1>1
      <3> QED
        BY ONLY <3>1
    <2>6. at' = [p \in Procs |-> "idle"] /\ op' = [p \in Procs |-> None]
      BY <1>1
    <2>7. /\ op' \in [Procs -> Op \cup {None}]
          /\ at' \in [Procs -> {"idle", "work", "mark", "check", "lock", "again"}]
          /\ \A p \in Procs : at'[p] = "idle" <=> op'[p] = None
      BY ONLY <2>6
    <2> QED
      BY <1>1, <1>2, <2>1, <2>2, <2>3, <2>4, <2>5, <2>7 DEF TypeOK
  <1>6. CallInv'
    BY <1>1 DEF CallInv
  <1>7. Promised'
    BY <1>1, <1>3, <1>4 DEF Promised, Touches
  <1>8. Owner' /\ Copy' /\ Written' /\ Forced'
    BY <1>1 DEF Owner, Copy, Written, Forced
  <1>9. OwedInv'
    BY <1>3 DEF OwedInv
  <1>10. Kept'
    BY <1>3, <1>4 DEF Kept
  <1> QED
    BY <1>5, <1>6, <1>7, <1>8, <1>9, <1>10 DEF IInv

LEMMA NextIInv == IInv /\ [Next]_vars => IInv'
  <1> SUFFICES ASSUME IInv, [Next]_vars PROVE IInv'
    OBVIOUS
  <1>1. ASSUME NEW p \in Procs, CallStep(p) PROVE IInv'
    <2>1. CASE \E D \in SUBSET Docs : Delete(p, D)
      BY <2>1, DeleteIInv
    <2>2. CASE \E D \in SUBSET Docs, t \in Texts : Upsert(p, D, t) \/ Warm(p, D, t)
      BY <2>2, UpsertIInv
    <2>3. CASE \E D \in SUBSET Docs, t \in Texts : Burst(p, D, t)
      BY <2>3, BurstIInv
    <2>4. CASE \E d \in Docs : Work(p, d)
      BY <2>4, WorkIInv
    <2>5. CASE \E d \in Docs : MarkWork(p, d)
      BY <2>5, MarkWorkIInv
    <2>6. CASE Mark(p)
      BY <2>6, MarkIInv
    <2>7. CASE Check(p)
      BY <2>7, CheckIInv
    <2>8. CASE EndBatch(p)
      BY <2>8, EndBatchIInv
    <2>9. CASE BeginFlush(p)
      BY <2>9, BeginFlushIInv
    <2> QED
      BY <1>1, <2>1, <2>2, <2>3, <2>4, <2>5, <2>6, <2>7, <2>8, <2>9 DEF CallStep
  <1>2. ASSUME FlushStep PROVE IInv'
    <2>1. ASSUME NEW f \in Files, Rewrite(f) PROVE IInv'
      BY <2>1, RewriteIInv
    <2>2. ASSUME NEW f \in Files, Drop(f) PROVE IInv'
      BY <2>2, DropIInv
    <2>3. ASSUME NEW f \in Files, Skip(f) PROVE IInv'
      BY <2>3, SkipIInv
    <2>4. ASSUME NEW f \in Files, Append(f) PROVE IInv'
      BY <2>4, AppendIInv
    <2>5. ASSUME NEW f \in Files, NEW S \in SUBSET Docs, AppendFails(f, S) PROVE IInv'
      BY <2>5, AppendFailsIInv
    <2>6. CASE FlushFails \/ EndFlush
      BY <2>6, EndFlushIInv
    <2> QED
      BY <1>2, <2>1, <2>2, <2>3, <2>4, <2>5, <2>6 DEF FlushStep
  <1>3. CASE Crash
    BY <1>3, CrashIInv
  <1>4. CASE UNCHANGED vars
    <2>1. UNCHANGED <<mem, dirty, force, deferFlush, base, delta, lines, torn, lost, at, op, flush, told, claimed, calls, faults>>
      BY <1>4 DEF vars, marks, disk, promises
    <2>2. /\ \A f \in Files : Loaded(f)' = Loaded(f)
          /\ \A f \in Files, d \in Docs : InWin(f, d)' <=> InWin(f, d)
      BY <2>1 DEF Loaded, InWin
    <2>3. TypeOK'
      BY <2>1 DEF IInv, TypeOK
    <2>4. CallInv' /\ Owner' /\ Promised' /\ Forced'
      BY <2>1 DEF IInv, CallInv, Owner, Promised, Forced
    <2>5. Kept' /\ Copy'
      <3>1. Kept /\ Copy
        BY DEF IInv
      <3>2. Kept'
        BY ONLY <2>1, <2>2, <3>1 DEF Kept
      <3>3. Copy'
        BY ONLY <2>1, <2>2, <3>1 DEF Copy
      <3> QED
        BY <3>2, <3>3
    <2>6. Written'
      BY <2>1, <2>2 DEF IInv, Written, Dropping, Passed
    <2>7. OwedInv'
      BY <2>1, <2>2 DEF IInv, OwedInv
    <2> QED
      BY <2>3, <2>4, <2>5, <2>6, <2>7 DEF IInv
  <1> QED
    BY <1>1, <1>2, <1>3, <1>4 DEF Next

LEMMA AlwaysIInv == Spec => []IInv
  BY InitIInv, NextIInv, PTL DEF Spec

\* TypeOK holds for every set of documents and goroutines: in particular a call is
\* under way exactly when its goroutine is between its first and last step.
THEOREM TypeCorrect == Spec => []TypeOK
  <1>1. IInv => TypeOK
    BY DEF IInv
  <1> QED
    BY <1>1, AlwaysIInv, PTL

\* Owed holds for every set of documents and goroutines and any failing writes: no
\* flush, marking or failure drops a change that is not on disk.
THEOREM NothingForgotten == Spec => []Owed
  <1>1. IInv => Owed
    BY DEF IInv, OwedInv, InWin, Owed
  <1> QED
    BY <1>1, AlwaysIInv, PTL

\* Kept holds for every set of documents and goroutines, any failing writes and any
\* crashes: what a flushed call reported survives a restart from any intermediate
\* state of the four files.
THEOREM ReportsSurvive == Spec => []Kept
  <1>1. IInv => Kept
    BY DEF IInv
  <1> QED
    BY <1>1, AlwaysIInv, PTL

=============================================================================

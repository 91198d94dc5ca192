------------------------ MODULE ArtifactVaultProofs ------------------------
(***************************************************************************)
(* Proofs about ArtifactVault, for any number of calls, generations,       *)
(* frames, reservations and faults.                                        *)
(***************************************************************************)
EXTENDS ArtifactVault, TLAPS

Deleted == {"tombstoned", "purged", "quarantined"}
Frames == 1 .. FrameCount

\* A call that stages owns the incomplete reservation it made; what it has
\* written lies before its frame, what it has yet to delete from there on.
StageInv(c) ==
    /\ call[c].at \in {"put", "abort"}
    /\ call[c].gen \in Generations /\ call[c].content \in Contents
    /\ call[c].fence \in 1 .. next /\ call[c].frame \in 1 .. FrameCount + 1
    /\ record[call[c].gen] = [content |-> call[c].content, status |-> "staged",
                              fence |-> call[c].fence, complete |-> FALSE]
    /\ call[c].at = "put" => \A i \in Frames : i < call[c].frame => <<call[c].fence, i>> \in objects
    /\ call[c].at = "put" => \A i \in Frames :
           <<call[c].fence, i>> \in objects \ leaked => i < call[c].frame
    /\ call[c].at = "abort" => \A i \in Frames :
           <<call[c].fence, i>> \in objects \ leaked => call[c].frame <= i /\ i <= call[c].created

\* A call that reads or deletes holds the fence of a complete generation.
HoldsComplete(c) ==
    /\ call[c].gen \in Generations /\ Complete(call[c].gen)
    /\ call[c].content = record[call[c].gen].content
    /\ call[c].fence = record[call[c].gen].fence
    /\ call[c].frame \in 1 .. FrameCount + 1

VerifyInv(c) == call[c].at \in {"verify", "quarantine"} /\ HoldsComplete(c)

PurgeInv(c) ==
    /\ call[c].at = "delete" /\ HoldsComplete(c)
    /\ record[call[c].gen].status \in Deleted
    /\ \A i \in Frames : i < call[c].frame => <<call[c].fence, i>> \notin objects

CallInv(c) ==
    \/ call[c] = Idle
    \/ call[c].op = "stage" /\ StageInv(c)
    \/ call[c].op \in {"publish", "reconcile", "read"} /\ VerifyInv(c)
    \/ call[c].op = "purge" /\ PurgeInv(c)

RecordInv(g) ==
    record[g] # None =>
        /\ record[g].fence \in 1 .. next
        /\ ~record[g].complete => record[g].status = "staged"
        /\ record[g].complete /\ record[g].status \in {"staged", "published"} =>
               \A i \in Frames : <<record[g].fence, i>> \in objects
        /\ record[g].status = "purged" => \A i \in Frames : <<record[g].fence, i>> \notin objects

\* Every fence is one reservation's.
FenceInv ==
    /\ \A g, h \in Generations :
         record[g] # None /\ record[h] # None /\ record[g].fence = record[h].fence => g = h
    /\ \A c, d \in Callers :
         call[c].op = "stage" /\ call[d].op = "stage" /\ call[c].fence = call[d].fence => c = d
    /\ \A o \in objects : o[1] \in 1 .. next

PromiseInv == \A p \in promised : Complete(p[1]) /\ record[p[1]].content = p[2]

IInv ==
    /\ TypeOK /\ FenceInv /\ PromiseInv /\ NoOrphan /\ CurrentComplete
    /\ \A c \in Callers : CallInv(c)
    /\ \A g \in Generations : RecordInv(g)

-----------------------------------------------------------------------------

LEMMA IdleOp == Idle.op = "idle" /\ Idle.op # "stage"
  BY DEF Idle

LEMMA CallFields ==
  ASSUME NEW op, NEW at, NEW g, NEW x, NEW f, NEW y,
         y = [op |-> op, at |-> at, gen |-> g, content |-> x, fence |-> f, frame |-> 1, created |-> 0]
  PROVE  /\ y.op = op /\ y.at = at /\ y.gen = g /\ y.content = x /\ y.fence = f
         /\ y.frame = 1 /\ y.created = 0
  OBVIOUS

LEMMA RecordNotNone == \A y \in Record : y # None
  BY ConstantsAssumption

\* What the steps of a call leave of its record.
SameCall(c) ==
    /\ call'[c].op = call[c].op /\ call'[c].gen = call[c].gen
    /\ call'[c].content = call[c].content /\ call'[c].fence = call[c].fence

LEMMA CallUpdate ==
  ASSUME TypeOK, NEW c \in Callers
  PROVE  /\ \A at : Goto(c, at) => /\ SameCall(c) /\ call'[c].at = at
                                  /\ call'[c].frame = call[c].frame
         /\ NextFrame(c) => /\ SameCall(c) /\ call'[c].at = call[c].at
                            /\ call'[c].frame = call[c].frame + 1
                            /\ call'[c].created = call[c].created
         /\ Abort(c) => /\ SameCall(c) /\ call'[c].at = "abort" /\ call'[c].frame = 1
                        /\ call'[c].created = call[c].frame - 1
         /\ Return(c) => call'[c] = Idle
         /\ \A op, at, g, x, f : Start(c, op, at, g, x, f) =>
                call'[c] = [op |-> op, at |-> at, gen |-> g, content |-> x, fence |-> f, frame |-> 1, created |-> 0]
         /\ \A at, op, g, x, f : Goto(c, at) \/ NextFrame(c) \/ Abort(c) \/ Return(c) \/ Start(c, op, at, g, x, f)
                => \A d \in Callers : d # c => call'[d] = call[d]
<1> DEFINE CT == [op : Ops, at : Steps, gen : Generations \cup {0},
                  content : Contents \cup {None}, fence : Nat,
                  frame : 0 .. FrameCount + 1, created : 0 .. FrameCount]
<1>0. call \in [Callers -> CT] /\ call[c] \in CT
  BY DEF TypeOK
<1>1. ASSUME NEW r, call' = [call EXCEPT ![c] = r]
      PROVE  call'[c] = r /\ \A d \in Callers : d # c => call'[d] = call[d]
  BY <1>0, <1>1
<1>2. ASSUME NEW at, Goto(c, at)
      PROVE  /\ SameCall(c) /\ call'[c].at = at /\ call'[c].frame = call[c].frame
             /\ \A d \in Callers : d # c => call'[d] = call[d]
  BY <1>0, <1>2 DEF Goto, SameCall
<1>3. ASSUME NextFrame(c)
      PROVE  /\ SameCall(c) /\ call'[c].at = call[c].at /\ call'[c].frame = call[c].frame + 1
             /\ call'[c].created = call[c].created
             /\ \A d \in Callers : d # c => call'[d] = call[d]
  BY <1>0, <1>3 DEF NextFrame, SameCall
<1>4. ASSUME Abort(c)
      PROVE  /\ SameCall(c) /\ call'[c].at = "abort" /\ call'[c].frame = 1
             /\ call'[c].created = call[c].frame - 1
             /\ \A d \in Callers : d # c => call'[d] = call[d]
  BY <1>0, <1>4 DEF Abort, SameCall
<1> QED
  BY <1>1, <1>2, <1>3, <1>4 DEF Return, Start

LEMMA StartUpdate ==
  ASSUME TypeOK, NEW c \in Callers, NEW op, NEW at, NEW g, NEW x, NEW f, Start(c, op, at, g, x, f)
  PROVE  /\ call'[c] = [op |-> op, at |-> at, gen |-> g, content |-> x, fence |-> f,
                        frame |-> 1, created |-> 0]
         /\ \A d \in Callers : d # c => call'[d] = call[d]
  BY DEF TypeOK, Start

\* A call that does not move keeps its invariant, if complete generations stay
\* what they are and nobody touches the reservation or the objects it holds.
KeepsComplete ==
    \A g \in Generations : Complete(g) =>
        /\ Complete(g)' /\ record'[g].content = record[g].content
        /\ record'[g].fence = record[g].fence
        /\ record[g].status \in Deleted => record'[g].status \in Deleted

SameObjects(f) ==
    \A i \in Frames : /\ <<f, i>> \in objects' <=> <<f, i>> \in objects
                      /\ <<f, i>> \in leaked' <=> <<f, i>> \in leaked

LEMMA OtherCall ==
  ASSUME NEW d \in Callers, CallInv(d), call'[d] = call[d],
         next \in Nat, next' \in Nat, next <= next', KeepsComplete,
         call[d].op = "stage" => /\ record'[call[d].gen] = record[call[d].gen]
                                 /\ SameObjects(call[d].fence),
         call[d].op = "purge" => \A i \in Frames :
             <<call[d].fence, i>> \in objects' => <<call[d].fence, i>> \in objects
  PROVE  CallInv(d)'
<1>1. CASE call[d] = Idle
  BY <1>1 DEF CallInv, Idle
<1>2. CASE call[d].op = "stage" /\ StageInv(d)
  <2>1. StageInv(d)'
    BY <1>2 DEF StageInv, SameObjects, Frames
  <2> QED
    BY <1>2, <2>1 DEF CallInv
<1>3. CASE call[d].op \in {"publish", "reconcile", "read"} /\ VerifyInv(d)
  <2>1. VerifyInv(d)'
    BY <1>3 DEF VerifyInv, HoldsComplete, KeepsComplete
  <2> QED
    BY <1>3, <2>1 DEF CallInv
<1>4. CASE call[d].op = "purge" /\ PurgeInv(d)
  <2>1. PurgeInv(d)'
    BY <1>4 DEF PurgeInv, HoldsComplete, KeepsComplete, Frames
  <2> QED
    BY <1>4, <2>1 DEF CallInv
<1> QED
  BY <1>1, <1>2, <1>3, <1>4 DEF CallInv

\* No call moves, and nothing it holds changes.
LEMMA CallsKept ==
  ASSUME IInv, UNCHANGED <<record, next, objects, leaked, call>>
  PROVE  \A d \in Callers : CallInv(d)'
<1> SUFFICES ASSUME NEW d \in Callers PROVE CallInv(d)'
  OBVIOUS
<1>1. KeepsComplete
  BY DEF KeepsComplete, Complete
<1> QED
  BY <1>1, OtherCall DEF IInv, TypeOK, SameObjects

LEMMA InitHolds == Init => IInv
<1> SUFFICES ASSUME Init PROVE IInv
  OBVIOUS
<1>1. TypeOK
  BY ConstantsAssumption DEF Init, TypeOK, Idle, Ops, Steps
<1>2. FenceInv /\ PromiseInv /\ NoOrphan
  BY DEF Init, FenceInv, PromiseInv, NoOrphan, Idle
<1>3. CurrentComplete
  BY ConstantsAssumption DEF Init, CurrentComplete
<1>4. \A c \in Callers : CallInv(c)
  BY DEF Init, CallInv
<1>5. \A g \in Generations : RecordInv(g)
  BY DEF Init, RecordInv
<1> QED
  BY <1>1, <1>2, <1>3, <1>4, <1>5 DEF IInv

\* What IInv says of a call that stages.
LEMMA Stager ==
  ASSUME IInv, NEW d \in Callers, call[d].op = "stage"
  PROVE  /\ StageInv(d) /\ record[call[d].gen] # None /\ ~record[call[d].gen].complete
         /\ call[d].gen \in Generations /\ record[call[d].gen].fence = call[d].fence
         /\ record[call[d].gen].status = "staged" /\ record[call[d].gen] \in Record
         /\ record[call[d].gen].content = call[d].content /\ call[d].content \in Contents
         /\ \A g \in Generations : record[g] # None /\ record[g].fence = call[d].fence
                                   => g = call[d].gen
<1>1. StageInv(d)
  BY DEF IInv, CallInv, Idle
<1>2. record[call[d].gen] # None /\ ~record[call[d].gen].complete
      /\ record[call[d].gen].fence = call[d].fence /\ call[d].gen \in Generations
      /\ record[call[d].gen].status = "staged" /\ record[call[d].gen] \in Record
      /\ record[call[d].gen].content = call[d].content /\ call[d].content \in Contents
  <2>1. record[call[d].gen] \in Record
    BY <1>1 DEF StageInv, Record, Statuses, IInv, TypeOK
  <2>2. record[call[d].gen] # None
    BY <2>1, RecordNotNone
  <2> QED
    BY <1>1, <2>1, <2>2 DEF StageInv
<1> QED
  BY <1>1, <1>2 DEF IInv, FenceInv

\* What it says of a call that purges.
LEMMA Purger ==
  ASSUME IInv, NEW d \in Callers, call[d].op = "purge"
  PROVE  /\ PurgeInv(d) /\ call[d].gen \in Generations /\ Complete(call[d].gen)
         /\ call[d].fence = record[call[d].gen].fence
<1>1. CallInv(d)
  BY DEF IInv
<1>2. call[d] # Idle
  BY DEF Idle
<1>3. PurgeInv(d)
  BY <1>1, <1>2 DEF CallInv
<1> QED
  BY <1>3 DEF PurgeInv, HoldsComplete

\* Where a call is tells which invariant it satisfies.
LEMMA CallAt ==
  ASSUME IInv, NEW c \in Callers
  PROVE  /\ call[c].at \in {"put", "abort"} => call[c].op = "stage" /\ StageInv(c)
         /\ call[c].at \in {"verify", "quarantine"} =>
                call[c].op \in {"publish", "reconcile", "read"} /\ VerifyInv(c)
         /\ call[c].at = "delete" => call[c].op = "purge" /\ PurgeInv(c)
<1>1. CallInv(c)
  BY DEF IInv
<1>2. call[c] = Idle => call[c].at = "idle"
  BY DEF Idle
<1>3. StageInv(c) => call[c].at \in {"put", "abort"}
  BY DEF StageInv
<1>4. VerifyInv(c) => call[c].at \in {"verify", "quarantine"}
  BY DEF VerifyInv
<1>5. PurgeInv(c) => call[c].at = "delete"
  BY DEF PurgeInv
<1> QED
  BY <1>1, <1>2, <1>3, <1>4, <1>5 DEF CallInv

LEMMA StageBeginStep ==
  ASSUME IInv, NEW c \in Callers, NEW g \in Generations, NEW x \in Contents, StageBegin(c, g, x)
  PROVE  IInv'
<1> DEFINE r == [content |-> x, status |-> "staged", fence |-> next + 1, complete |-> FALSE]
<1>0. TypeOK /\ FenceInv /\ PromiseInv /\ NoOrphan /\ CurrentComplete
  BY DEF IInv
<1>1. /\ call[c] = Idle /\ g = current + 1 /\ record[g] = None
      /\ next' = next + 1 /\ record' = [record EXCEPT ![g] = r]
      /\ UNCHANGED <<current, objects, damaged, promised, leaked, faults>>
  BY DEF StageBegin, store, history
<1>2. /\ call'[c] = [op |-> "stage", at |-> "put", gen |-> g, content |-> x,
                     fence |-> next + 1, frame |-> 1, created |-> 0]
      /\ \A d \in Callers : d # c => call'[d] = call[d]
  BY <1>0, CallUpdate DEF StageBegin
<1>3. r \in Record /\ next \in Nat /\ r # None
  <2>1. next \in Nat
    BY <1>0 DEF TypeOK
  <2>2. r \in Record
    BY <2>1 DEF Record, Statuses
  <2> QED
    BY <2>1, <2>2, RecordNotNone
<1> HIDE DEF r
<1>4. record'[g] = r /\ \A h \in Generations : h # g => record'[h] = record[h]
  BY <1>0, <1>1 DEF TypeOK
<1>5. KeepsComplete
  BY <1>1, <1>4 DEF KeepsComplete, Complete
<1>6. \A d \in Callers : d # c => CallInv(d)'
  <2> SUFFICES ASSUME NEW d \in Callers, d # c PROVE CallInv(d)'
    OBVIOUS
  <2>1. call[d].op = "stage" => record'[call[d].gen] = record[call[d].gen]
    BY <1>1, <1>4, Stager DEF StageInv
  <2> QED
    BY <1>1, <1>2, <1>3, <1>5, <2>1, OtherCall DEF IInv, SameObjects
<1>7. \A i \in Frames : <<next + 1, i>> \notin objects
  BY <1>0, <1>3 DEF FenceInv
<1>8. CallInv(c)'
  <2>1. /\ next + 1 \in 1 .. next' /\ 1 \in 1 .. FrameCount + 1
        /\ \A i \in Frames : ~(i < 1)
    BY <1>1, <1>3, ConstantsAssumption DEF Frames
  <2>2. StageInv(c)'
    BY <1>1, <1>2, <1>4, <1>7, <2>1 DEF StageInv, r
  <2> QED
    BY <1>2, <2>2 DEF CallInv
<1>9. \A h \in Generations : RecordInv(h)'
  BY <1>1, <1>3, <1>4 DEF IInv, RecordInv, r
<1>10. FenceInv'
  <2>1. \A h \in Generations : record[h] # None => record[h].fence # next + 1
    BY <1>3 DEF IInv, RecordInv
  <2>2. \A d \in Callers : call[d].op = "stage" => call[d].fence # next + 1
    <3>1. \A d \in Callers : call[d].op = "stage" => call[d].fence \in 1 .. next
      BY Stager DEF StageInv
    <3> QED
      BY ONLY <1>3, <3>1
  <2>3. r.fence = next + 1
    BY DEF r
  <2>4. \A h, k \in Generations :
           record'[h] # None /\ record'[k] # None /\ record'[h].fence = record'[k].fence => h = k
    BY <1>0, <1>4, <2>1, <2>3 DEF FenceInv
  <2>5. \A d, e \in Callers :
           call'[d].op = "stage" /\ call'[e].op = "stage" /\ call'[d].fence = call'[e].fence => d = e
    BY <1>0, <1>2, <2>2 DEF FenceInv
  <2>6. \A o \in objects' : o[1] \in 1 .. next'
    BY <1>0, <1>1, <1>3 DEF FenceInv
  <2> QED
    BY <2>4, <2>5, <2>6 DEF FenceInv
<1>11. PromiseInv'
  BY <1>0, <1>1, <1>4 DEF PromiseInv, Complete, TypeOK
<1>12. NoOrphan'
  BY <1>0, <1>1, <1>4 DEF NoOrphan, ObjectsOf
<1>13. CurrentComplete'
  BY <1>0, <1>1, <1>3, <1>4, ConstantsAssumption DEF CurrentComplete, Complete, TypeOK, r
<1>14. TypeOK'
  <2>1. call' \in [Callers -> [op : Ops, at : Steps, gen : Generations \cup {0},
                             content : Contents \cup {None}, fence : Nat, frame : 0 .. FrameCount + 1, created : 0 .. FrameCount]]
    <3>1. call' = [call EXCEPT ![c] = [op |-> "stage", at |-> "put", gen |-> g, content |-> x,
                                       fence |-> next + 1, frame |-> 1, created |-> 0]]
      BY DEF StageBegin, Start
    <3> QED
      BY <1>0, <1>3, <3>1, ConstantsAssumption DEF TypeOK, Ops, Steps
  <2> QED
    BY <1>0, <1>1, <1>3, <2>1 DEF TypeOK
<1> QED
  BY <1>6, <1>8, <1>9, <1>10, <1>11, <1>12, <1>13, <1>14 DEF IInv

\* A step that changes neither the records nor the objects.
LEMMA QuietStep ==
  ASSUME IInv, UNCHANGED <<record, current, next, objects, leaked>>, TypeOK', PromiseInv',
         NEW c \in Callers, CallInv(c)', call'[c].op = "stage" => SameCall(c),
         \A d \in Callers : d # c => call'[d] = call[d]
  PROVE  IInv'
<1>1. \A d \in Callers : d # c => CallInv(d)'
  <2> SUFFICES ASSUME NEW d \in Callers, d # c PROVE CallInv(d)'
    OBVIOUS
  <2>1. KeepsComplete
    BY DEF KeepsComplete, Complete
  <2> QED
    BY <2>1, OtherCall DEF IInv, TypeOK, SameObjects
<1>2. FenceInv'
  BY DEF IInv, FenceInv, SameCall
<1>3. NoOrphan' /\ CurrentComplete'
  BY DEF IInv, NoOrphan, ObjectsOf, CurrentComplete, Complete
<1>4. \A g \in Generations : RecordInv(g)'
  BY DEF IInv, RecordInv
<1> QED
  BY <1>1, <1>2, <1>3, <1>4 DEF IInv

\* The type of a call that satisfies its invariant.
CallType == [op : Ops, at : Steps, gen : Generations \cup {0}, content : Contents \cup {None},
             fence : Nat, frame : 0 .. FrameCount + 1, created : 0 .. FrameCount]

LEMMA MoveType ==
  ASSUME TypeOK, NEW c \in Callers
  PROVE  /\ \A at \in Steps : Goto(c, at) => call' \in [Callers -> CallType]
         /\ NextFrame(c) /\ call[c].frame <= FrameCount => call' \in [Callers -> CallType]
         /\ Return(c) => call' \in [Callers -> CallType]
         /\ \A op \in Ops, at \in Steps, g \in Generations, x \in Contents, f \in Nat :
               Start(c, op, at, g, x, f) => call' \in [Callers -> CallType]
<1> USE DEF CallType
<1>1. call \in [Callers -> CallType]
  BY DEF TypeOK
<1>2. ASSUME NEW at \in Steps, Goto(c, at) PROVE call' \in [Callers -> CallType]
  BY <1>1, <1>2 DEF Goto
<1>3. ASSUME NextFrame(c), call[c].frame <= FrameCount PROVE call' \in [Callers -> CallType]
  <2>1. call[c].frame + 1 \in 0 .. FrameCount + 1
    BY <1>1, <1>3, ConstantsAssumption
  <2> QED
    BY <1>1, <1>3, <2>1 DEF NextFrame
<1>4. ASSUME Return(c) PROVE call' \in [Callers -> CallType]
  <2>1. Idle \in CallType
    BY ConstantsAssumption DEF Idle, Ops, Steps
  <2> QED
    BY <1>1, <1>4, <2>1 DEF Return
<1>5. ASSUME NEW op \in Ops, NEW at \in Steps, NEW g \in Generations, NEW x \in Contents,
             NEW f \in Nat, Start(c, op, at, g, x, f)
      PROVE  call' \in [Callers -> CallType]
  <2>1. 1 \in 0 .. FrameCount + 1 /\ 0 \in 0 .. FrameCount
    BY ConstantsAssumption
  <2> QED
    BY <1>1, <1>5, <2>1 DEF Start
<1> QED
  BY <1>2, <1>3, <1>4, <1>5

LEMMA TypeNext ==
  ASSUME TypeOK, call' \in [Callers -> CallType],
         record' \in [Generations -> Record \cup {None}], current' \in Nat, next' \in Nat,
         faults' \in Nat, objects' \subseteq Nat \X (1 .. FrameCount),
         damaged' \subseteq Nat \X (1 .. FrameCount), leaked' \subseteq Nat \X (1 .. FrameCount),
         promised' \subseteq Generations \X Contents
  PROVE  TypeOK'
  BY DEF TypeOK, CallType

LEMMA StageDuplicateStep ==
  ASSUME IInv, NEW c \in Callers, NEW g \in Generations, NEW x \in Contents,
         StageDuplicate(c, g, x)
  PROVE  IInv'
<1>1. /\ UNCHANGED <<record, current, next, objects, damaged, call, leaked, faults>>
      /\ promised' = promised \cup {<<g, x>>} /\ Complete(g) /\ record[g].content = x
  BY DEF StageDuplicate, metadata, store, Complete
<1>2. TypeOK'
  BY <1>1 DEF IInv, TypeOK
<1>3. PromiseInv'
  BY <1>1 DEF IInv, PromiseInv, Complete
<1>4. CallInv(c)'
  BY <1>1, CallsKept
<1> QED
  BY <1>1, <1>2, <1>3, <1>4, QuietStep DEF SameCall

\* Reads begin, go on, and give up without changing records or objects.
LEMMA VerifySteps ==
  ASSUME IInv, NEW c \in Callers,
         \/ \E g \in Generations, op \in {"publish", "reconcile"} : VerifyBegin(c, op, g)
         \/ \E g \in Generations : ReadBegin(c, g)
         \/ VerifyFrame(c) \/ VerifyInterrupted(c)
  PROVE  IInv'
<1>0. /\ UNCHANGED <<record, current, next, objects, damaged, promised, leaked>>
      /\ faults' \in Nat /\ TypeOK /\ PromiseInv'
  <2>1. TypeOK /\ PromiseInv
    BY DEF IInv
  <2>2. UNCHANGED <<record, current, next, objects, damaged, promised, leaked>>
    BY DEF VerifyBegin, ReadBegin, VerifyFrame, VerifyInterrupted, metadata, store, history
  <2>3. faults' \in {faults, faults + 1}
    BY DEF VerifyBegin, ReadBegin, VerifyFrame, VerifyInterrupted, Fault
  <2>4. faults' \in Nat
    BY <2>1, <2>3 DEF TypeOK
  <2>5. PromiseInv'
    BY ONLY <2>1, <2>2 DEF PromiseInv, Complete
  <2> QED
    BY <2>1, <2>2, <2>4, <2>5
<1>1. ASSUME NEW g \in Generations, NEW op \in {"publish", "reconcile", "read"}, Complete(g),
             Start(c, op, "verify", g, record[g].content, record[g].fence)
      PROVE  IInv'
  <2>1. record[g] \in Record
    BY <1>0, <1>1 DEF TypeOK, Complete
  <2>2. record[g].content \in Contents /\ record[g].fence \in Nat
    BY <2>1 DEF Record
  <2>3. call' \in [Callers -> CallType]
    BY <1>0, <1>1, <2>2, MoveType DEF Ops, Steps
  <2>4. TypeOK'
    BY <1>0, <2>3, TypeNext DEF TypeOK
  <2>5. /\ call'[c] = [op |-> op, at |-> "verify", gen |-> g, content |-> record[g].content,
                       fence |-> record[g].fence, frame |-> 1, created |-> 0]
        /\ \A d \in Callers : d # c => call'[d] = call[d]
    BY <1>1, StartUpdate DEF IInv
  <2>5a. /\ call'[c].op = op /\ call'[c].at = "verify" /\ call'[c].gen = g /\ call'[c].frame = 1
         /\ call'[c].content = record[g].content /\ call'[c].fence = record[g].fence
    BY ONLY <2>5, CallFields
  <2>6. VerifyInv(c)'
    BY <1>0, <1>1, <2>5a, ConstantsAssumption DEF VerifyInv, HoldsComplete, Complete
  <2>7. CallInv(c)'
    BY <1>1, <2>5a, <2>6 DEF CallInv
  <2>8. call'[c].op # "stage"
    BY <1>1, <2>5a
  <2>9. UNCHANGED <<record, current, next, objects, leaked>> /\ PromiseInv'
    BY <1>0
  <2>10. \A d \in Callers : d # c => call'[d] = call[d]
    BY <2>5
  <2> QED
    BY <2>4, <2>7, <2>8, <2>9, <2>10, QuietStep
<1>2. ASSUME call[c].at = "verify", call[c].frame <= FrameCount,
             NextFrame(c) \/ Goto(c, "quarantine")
      PROVE  IInv'
  <2>1. call' \in [Callers -> CallType]
    BY <1>0, <1>2, MoveType DEF Steps
  <2>2. TypeOK'
    BY <1>0, <2>1, TypeNext DEF TypeOK
  <2>3. call[c].op \in {"publish", "reconcile", "read"} /\ VerifyInv(c)
    BY <1>2, CallAt
  <2>4. /\ SameCall(c) /\ call'[c].at \in {"verify", "quarantine"}
        /\ call'[c].frame \in {call[c].frame, call[c].frame + 1}
        /\ \A d \in Callers : d # c => call'[d] = call[d]
    BY <1>0, <1>2, CallUpdate
  <2>5. call'[c].frame \in 1 .. FrameCount + 1
    <3>1. call[c].frame \in 1 .. FrameCount + 1 /\ call[c].frame <= FrameCount
      BY <1>2, <2>3 DEF VerifyInv, HoldsComplete
    <3>2. FrameCount \in Nat
      BY ConstantsAssumption
    <3> QED
      BY ONLY <2>4, <3>1, <3>2
  <2>6. VerifyInv(c)'
    BY <1>0, <2>3, <2>4, <2>5 DEF VerifyInv, HoldsComplete, Complete, SameCall
  <2>7. CallInv(c)'
    BY <2>3, <2>4, <2>6 DEF CallInv, SameCall
  <2> QED
    BY <1>0, <2>2, <2>4, <2>7, QuietStep
<1> QED
  BY <1>1, <1>2 DEF VerifyBegin, ReadBegin, VerifyFrame, VerifyInterrupted, Complete, IInv, RecordInv

\* A call that ends is idle, and has the type of a call.
LEMMA Ends ==
  ASSUME TypeOK, NEW c \in Callers, Return(c)
  PROVE  /\ call' \in [Callers -> CallType] /\ CallInv(c)' /\ call'[c].op # "stage"
         /\ \A d \in Callers : d # c => call'[d] = call[d]
<1>1. call'[c] = Idle /\ \A d \in Callers : d # c => call'[d] = call[d]
  BY CallUpdate
<1>2. call' \in [Callers -> CallType]
  BY MoveType
<1>3. CallInv(c)' /\ call'[c].op # "stage"
  BY <1>1 DEF CallInv, Idle
<1> QED
  BY <1>1, <1>2, <1>3

\* A call that ends without having changed anything more.
LEMMA QuietEnd ==
  ASSUME IInv, NEW c \in Callers, Return(c), faults' \in Nat,
         UNCHANGED <<record, current, next, objects, damaged, leaked, promised>>
  PROVE  IInv'
<1>1. TypeOK'
  BY Ends, TypeNext DEF IInv, TypeOK
<1>2. PromiseInv'
  BY DEF IInv, PromiseInv, Complete
<1> QED
  BY <1>1, <1>2, Ends, QuietStep DEF IInv

LEMMA PreparePurgeStep ==
  ASSUME IInv, NEW c \in Callers, NEW g \in Generations, PreparePurge(c, g)
  PROVE  IInv'
<1>0. /\ UNCHANGED <<record, current, next, objects, damaged, promised, leaked, faults>>
      /\ TypeOK /\ PromiseInv' /\ record[g] # None /\ record[g].status = "tombstoned"
  BY DEF IInv, PreparePurge, metadata, store, history, TypeOK, PromiseInv, Complete
<1>1. Complete(g)
  BY <1>0 DEF IInv, RecordInv, Complete, TypeOK, Record
<1>2. record[g] \in Record
  BY <1>0 DEF TypeOK
<1>3. record[g].content \in Contents /\ record[g].fence \in Nat
  BY <1>2 DEF Record
<1>4. Start(c, "purge", "delete", g, record[g].content, record[g].fence)
  BY DEF PreparePurge
<1>5. call' \in [Callers -> CallType]
  BY <1>0, <1>3, <1>4, MoveType DEF Ops, Steps
<1>6. /\ call'[c] = [op |-> "purge", at |-> "delete", gen |-> g, content |-> record[g].content,
                     fence |-> record[g].fence, frame |-> 1, created |-> 0]
      /\ \A d \in Callers : d # c => call'[d] = call[d]
  <2>1. Callers = DOMAIN call
    BY <1>0 DEF TypeOK
  <2> QED
    BY <1>0, <1>4, <2>1 DEF Start, TypeOK
<1>6a. /\ call'[c].op = "purge" /\ call'[c].at = "delete" /\ call'[c].gen = g /\ call'[c].frame = 1
       /\ call'[c].content = record[g].content /\ call'[c].fence = record[g].fence
  BY ONLY <1>6, CallFields
<1>7. PurgeInv(c)'
  <2>1. 1 \in 1 .. FrameCount + 1 /\ \A i \in Frames : ~(i < 1)
    BY ConstantsAssumption DEF Frames
  <2>2. HoldsComplete(c)'
    BY <1>0, <1>1, <1>6a, <2>1 DEF HoldsComplete, Complete
  <2>3. record'[call'[c].gen].status \in Deleted
    BY <1>0, <1>6a DEF Deleted
  <2>4. \A i \in Frames : ~(i < call'[c].frame)
    BY ONLY <1>6a, <2>1
  <2> QED
    BY ONLY <1>6a, <2>2, <2>3, <2>4 DEF PurgeInv
<1>8. CallInv(c)' /\ call'[c].op # "stage"
  BY ONLY <1>6a, <1>7 DEF CallInv
<1>9. TypeOK'
  BY <1>0, <1>5, TypeNext DEF TypeOK
<1> QED
  BY <1>0, <1>6, <1>8, <1>9, QuietStep

\* A step that changes the status of a complete generation and nothing else of
\* the records or objects.
LEMMA StatusStep ==
  ASSUME IInv, NEW c \in Callers, NEW g \in Generations, NEW s \in Statuses, SetStatus(g, s),
         UNCHANGED <<next, objects, damaged, leaked, promised, faults>>, Complete(g),
         record[g].status \in Deleted => s \in Deleted,
         s \in {"staged", "published"} => record[g].status \in {"staged", "published"},
         s = "purged" => \A i \in Frames : <<record[g].fence, i>> \notin objects,
         CurrentComplete', current' \in Nat,
         CallInv(c)', call'[c].op # "stage", call' \in [Callers -> CallType],
         \A d \in Callers : d # c => call'[d] = call[d]
  PROVE  IInv'
<1>0. TypeOK /\ FenceInv /\ PromiseInv /\ NoOrphan
  BY DEF IInv
<1>1. record[g] \in Record
  BY <1>0 DEF TypeOK, Complete
<1>2. /\ record'[g].status = s /\ record'[g].content = record[g].content
      /\ record'[g].fence = record[g].fence /\ record'[g].complete
      /\ record'[g] \in Record /\ record'[g] # None
      /\ record' \in [Generations -> Record \cup {None}]
      /\ \A h \in Generations : h # g => record'[h] = record[h]
  <2>1. /\ record'[g] = [record[g] EXCEPT !.status = s]
        /\ \A h \in Generations : h # g => record'[h] = record[h]
    BY <1>0 DEF SetStatus, TypeOK
  <2>2. [record[g] EXCEPT !.status = s] \in Record
    BY <1>1 DEF Record
  <2>3. record' \in [Generations -> Record \cup {None}]
    BY <1>0, <2>2 DEF SetStatus, TypeOK
  <2>4. record'[g] # None
    BY <2>1, <2>2, RecordNotNone
  <2> QED
    BY <1>1, <2>1, <2>2, <2>3, <2>4 DEF Record, Complete
<1>3. KeepsComplete
  BY <1>2 DEF KeepsComplete, Complete
<1>4. \A d \in Callers : d # c => CallInv(d)'
  <2> SUFFICES ASSUME NEW d \in Callers, d # c PROVE CallInv(d)'
    OBVIOUS
  <2>1. call[d].op = "stage" => record'[call[d].gen] = record[call[d].gen]
    BY <1>2, Stager DEF Complete
  <2>2. CallInv(d) /\ call'[d] = call[d]
    BY DEF IInv
  <2>3. next \in Nat /\ next' \in Nat /\ next <= next'
    BY <1>0 DEF TypeOK
  <2>4. SameObjects(call[d].fence)
    BY DEF SameObjects
  <2>5. call[d].op = "purge" => \A i \in Frames :
          <<call[d].fence, i>> \in objects' => <<call[d].fence, i>> \in objects
    OBVIOUS
  <2> QED
    BY <1>3, <2>1, <2>2, <2>3, <2>4, <2>5, OtherCall
<1>5. \A h \in Generations : RecordInv(h)'
  <2>1. RecordInv(g)'
    BY <1>2 DEF IInv, RecordInv, Complete
  <2>2. ASSUME NEW h \in Generations, h # g PROVE RecordInv(h)'
    <3>1. RecordInv(h) /\ record'[h] = record[h] /\ objects' = objects /\ next' = next
      BY <1>2, <2>2 DEF IInv
    <3> QED
      BY ONLY <3>1 DEF RecordInv
  <2> QED
    BY <2>1, <2>2
<1>6. FenceInv'
  <2>1. \A h \in Generations : record'[h] # None => record[h] # None /\ record'[h].fence = record[h].fence
    BY <1>2 DEF Complete
  <2>2. \A d \in Callers : call'[d].op = "stage" => call'[d] = call[d]
    OBVIOUS
  <2>3. FenceInv /\ UNCHANGED <<objects, next>>
    BY <1>0 DEF IInv
  <2> QED
    BY ONLY <2>1, <2>2, <2>3 DEF FenceInv
<1>7. PromiseInv'
  BY <1>0, <1>2 DEF PromiseInv, Complete, TypeOK
<1>8. NoOrphan'
  <2>1. \A h \in Generations : record[h] # None => record'[h] # None /\ record'[h].fence = record[h].fence
    BY <1>2
  <2> QED
    BY <1>0, <2>1 DEF NoOrphan, ObjectsOf
<1>9. TypeOK'
  BY <1>0, <1>2, TypeNext DEF TypeOK
<1> QED
  BY <1>4, <1>5, <1>6, <1>7, <1>8, <1>9 DEF IInv

\* The current pointer under a change of status.
LEMMA CurrentStep ==
  ASSUME IInv, NEW g \in Generations, NEW s \in Statuses, SetStatus(g, s), Complete(g),
         s # "staged",
         \/ current' = current /\ (s = "quarantined" \/ g <= current)
         \/ current' = g /\ g = current + 1
  PROVE  CurrentComplete'
<1>1. record[g] \in Record /\ current \in Nat /\ Generations \subseteq Nat /\ CurrentComplete
  BY ConstantsAssumption DEF IInv, TypeOK, Complete
<1>2. /\ record'[g] = [record[g] EXCEPT !.status = s]
      /\ \A h \in Generations : h # g => record'[h] = record[h]
  BY DEF SetStatus, IInv, TypeOK
<1>3. record'[g] # None
  <2>1. [record[g] EXCEPT !.status = s] \in Record
    BY <1>1 DEF Record
  <2> QED
    BY <1>2, <2>1, RecordNotNone
<1>4. record'[g].status = s /\ record'[g].complete /\ g <= current + 1
  BY <1>1, <1>2 DEF Record, Complete, CurrentComplete
<1>5. ASSUME NEW h \in Generations, h # g
      PROVE  /\ h <= current' => Complete(h)' /\ record'[h].status # "staged"
             /\ record'[h] # None /\ record'[h].status \in {"published", "tombstoned", "purged"}
                    => h <= current'
             /\ h > current' + 1 => record'[h] = None
  BY <1>1, <1>2, <1>5 DEF CurrentComplete, Complete
<1>6. /\ g <= current' => Complete(g)' /\ record'[g].status # "staged"
      /\ record'[g].status \in {"published", "tombstoned", "purged"} => g <= current'
      /\ ~(g > current' + 1)
  BY <1>1, <1>3, <1>4 DEF Complete
<1> QED
  BY <1>5, <1>6 DEF CurrentComplete

LEMMA QuarantineStep ==
  ASSUME IInv, NEW c \in Callers, Quarantine(c)
  PROVE  IInv'
<1> DEFINE g == call[c].gen
<1>0. /\ UNCHANGED <<current, next, objects, damaged, promised, leaked, faults>>
      /\ TypeOK /\ Return(c) /\ faults' \in Nat /\ current' \in Nat
  <2>1. TypeOK
    BY DEF IInv
  <2>2. faults \in Nat /\ current \in Nat
    BY <2>1 DEF TypeOK
  <2> QED
    BY <2>1, <2>2 DEF Quarantine, store, history
<1>1. g \in Generations /\ Complete(g)
  BY CallAt DEF Quarantine, VerifyInv, HoldsComplete
<1>2. CASE UNCHANGED record
  BY <1>0, <1>2, QuietEnd
<1>3. CASE SetStatus(g, "quarantined")
  <2>1. CurrentComplete'
    BY <1>0, <1>1, <1>3, CurrentStep DEF Statuses
  <2> QED
    BY <1>0, <1>1, <1>3, <2>1, Ends, StatusStep DEF Statuses, Deleted
<1> QED
  BY <1>2, <1>3 DEF Quarantine

LEMMA VerifyEndStep ==
  ASSUME IInv, NEW c \in Callers, VerifyEnd(c)
  PROVE  IInv'
<1> DEFINE g == call[c].gen
<1>0. /\ UNCHANGED <<next, objects, damaged, promised, leaked, faults>>
      /\ TypeOK /\ Return(c) /\ faults' \in Nat
  <2>1. TypeOK
    BY DEF IInv
  <2>2. faults \in Nat /\ current \in Nat
    BY <2>1 DEF TypeOK
  <2> QED
    BY <2>1, <2>2 DEF VerifyEnd, store, history
<1>1. g \in Generations /\ Complete(g) /\ g \in Nat /\ current \in Nat
  BY CallAt, ConstantsAssumption DEF VerifyEnd, VerifyInv, HoldsComplete, IInv, TypeOK
<1>2. CASE UNCHANGED <<record, current>>
  BY <1>0, <1>2, QuietEnd
<1>3. CASE SetStatus(g, "published") /\ current' = g /\ current = g - 1 /\ record[g].status = "staged"
  <2>1. g = current + 1
    BY <1>1, <1>3
  <2>2. CurrentComplete'
    BY <1>1, <1>3, <2>1, CurrentStep DEF Statuses
  <2> QED
    BY <1>0, <1>1, <1>3, <2>2, Ends, StatusStep DEF Statuses, Deleted
<1> QED
  BY <1>2, <1>3 DEF VerifyEnd

LEMMA TombstoneStep ==
  ASSUME IInv, NEW c \in Callers, NEW g \in Generations, Tombstone(c, g)
  PROVE  IInv'
<1>0. /\ UNCHANGED <<current, next, objects, damaged, promised, leaked, faults, call>>
      /\ TypeOK /\ current' \in Nat /\ g = current /\ SetStatus(g, "tombstoned")
      /\ call[c] = Idle
  <2>1. TypeOK
    BY DEF IInv
  <2>2. current \in Nat
    BY <2>1 DEF TypeOK
  <2> QED
    BY <2>1, <2>2 DEF Tombstone, store, history
<1>1. Complete(g) /\ g <= current
  <2>1. CurrentComplete
    BY DEF IInv
  <2>2. g <= current
    BY <1>0, ConstantsAssumption
  <2> QED
    BY <2>1, <2>2 DEF CurrentComplete
<1>2. CurrentComplete'
  <2>1. current' = current /\ SetStatus(g, "tombstoned") /\ "tombstoned" \in Statuses
    BY <1>0 DEF Statuses
  <2> QED
    BY <1>1, <2>1, CurrentStep
<1>3. CallInv(c)' /\ call'[c].op # "stage" /\ call' \in [Callers -> CallType]
  <2>1. call'[c] = Idle
    BY <1>0
  <2>2. CallInv(c)' /\ call'[c].op # "stage"
    <3>1. call'[c].op = "idle"
      BY ONLY <2>1, IdleOp
    <3>2. CallInv(c)'
      BY ONLY <2>1 DEF CallInv
    <3> QED
      BY ONLY <3>1, <3>2
  <2>3. call' \in [Callers -> CallType]
    BY <1>0 DEF TypeOK, CallType
  <2> QED
    BY <2>2, <2>3
<1> QED
  BY <1>0, <1>1, <1>2, <1>3, StatusStep DEF Statuses, Deleted

LEMMA CompletePurgeStep ==
  ASSUME IInv, NEW c \in Callers, CompletePurge(c)
  PROVE  IInv'
<1> DEFINE g == call[c].gen
<1>0. /\ UNCHANGED <<current, next, objects, damaged, promised, leaked, faults>>
      /\ TypeOK /\ Return(c) /\ faults' \in Nat /\ current' \in Nat
  <2>1. TypeOK
    BY DEF IInv
  <2>2. faults \in Nat /\ current \in Nat
    BY <2>1 DEF TypeOK
  <2> QED
    BY <2>1, <2>2 DEF CompletePurge, store, history
<1>1. PurgeInv(c)
  BY CallAt DEF CompletePurge
<1>2. g \in Generations /\ Complete(g) /\ call[c].fence = record[g].fence
  BY <1>1 DEF PurgeInv, HoldsComplete
<1>3. CASE UNCHANGED record
  BY <1>0, <1>3, QuietEnd
<1>4. CASE SetStatus(g, "purged") /\ record[g].status = "tombstoned"
  <2>1. \A i \in Frames : <<record[g].fence, i>> \notin objects
    <3>1. \A i \in Frames : i < call[c].frame
      <4>1. call[c].frame \in 1 .. FrameCount + 1
        BY <1>1 DEF PurgeInv, HoldsComplete
      <4>2. call[c].frame > FrameCount /\ FrameCount \in Nat
        BY ConstantsAssumption DEF CompletePurge
      <4> QED
        BY ONLY <4>1, <4>2 DEF Frames
    <3> QED
      BY <1>1, <1>2, <3>1 DEF PurgeInv
  <2>2. g <= current
    BY <1>2, <1>4 DEF IInv, CurrentComplete, Complete
  <2>3. CurrentComplete'
    BY <1>0, <1>2, <1>4, <2>2, CurrentStep DEF Statuses
  <2> QED
    BY <1>0, <1>2, <1>4, <2>1, <2>3, Ends, StatusStep DEF Statuses, Deleted
<1> QED
  BY <1>3, <1>4 DEF CompletePurge

\* A call that stages writes and deletes objects of its own fence only.
LEMMA StageObjects ==
  ASSUME IInv, NEW c \in Callers, call[c].op = "stage",
         UNCHANGED <<record, current, next, promised, damaged>>, faults' \in Nat,
         objects' \subseteq Nat \X Frames, leaked' \subseteq Nat \X Frames,
         \A k \in Nat : k # call[c].fence => SameObjects(k),
         StageInv(c)', SameCall(c), call' \in [Callers -> CallType],
         \A d \in Callers : d # c => call'[d] = call[d]
  PROVE  IInv'
<1>0. TypeOK /\ FenceInv /\ PromiseInv /\ NoOrphan
  BY DEF IInv
<1> DEFINE f == call[c].fence
           g == call[c].gen
<1>1. /\ g \in Generations /\ f \in 1 .. next /\ f \in Nat /\ next \in Nat
      /\ record[g] # None /\ ~record[g].complete /\ record[g].fence = f
      /\ record[g].status = "staged"
      /\ \A h \in Generations : record[h] # None /\ record[h].fence = f => h = g
  <2>1. StageInv(c)
    BY Stager
  <2>2. next \in Nat
    BY <1>0 DEF TypeOK
  <2>3. f \in 1 .. next
    BY <2>1 DEF StageInv
  <2>4. f \in Nat
    BY ONLY <2>2, <2>3
  <2>5. record[g].fence = f /\ record[g].status = "staged" /\ g \in Generations
    BY Stager
  <2> QED
    BY <2>2, <2>3, <2>4, <2>5, Stager
<1>2. \A h \in Generations : record[h] # None => record[h].fence \in Nat
  BY <1>0 DEF TypeOK, Record
<1>3. \A h \in Generations : record[h] # None /\ h # g => SameObjects(record[h].fence)
  BY <1>1, <1>2
<1>4. \A d \in Callers : d # c => CallInv(d)'
  <2> SUFFICES ASSUME NEW d \in Callers, d # c PROVE CallInv(d)'
    OBVIOUS
  <2>1. KeepsComplete
    BY DEF KeepsComplete, Complete
  <2>2. call[d].op = "stage" => SameObjects(call[d].fence)
    BY <1>0 DEF FenceInv, TypeOK
  <2>3. call[d].op = "purge" => SameObjects(call[d].fence)
    <3> SUFFICES ASSUME call[d].op = "purge" PROVE SameObjects(call[d].fence)
      OBVIOUS
    <3>1. /\ call[d].gen \in Generations /\ record[call[d].gen] # None
          /\ record[call[d].gen].complete /\ call[d].fence = record[call[d].gen].fence
      BY Purger DEF Complete
    <3>2. call[d].gen # g
      BY ONLY <1>1, <3>1
    <3> QED
      BY ONLY <1>3, <3>1, <3>2
  <2>4. /\ CallInv(d) /\ call'[d] = call[d] /\ next' \in Nat /\ next <= next'
        /\ record' = record
    <3>1. CallInv(d)
      BY DEF IInv
    <3>2. next' \in Nat /\ next <= next'
      BY ONLY <1>1, next' = next
    <3> QED
      BY <3>1, <3>2
  <2>5. call[d].op = "purge" => \A i \in Frames :
          <<call[d].fence, i>> \in objects' => <<call[d].fence, i>> \in objects
    BY <2>3 DEF SameObjects
  <2> QED
    BY <1>1, <2>1, <2>2, <2>4, <2>5, OtherCall
<1>5. CallInv(c)'
  BY DEF CallInv, SameCall
<1>6. \A h \in Generations : RecordInv(h)'
  <2>1. \A h \in Generations : h = g => RecordInv(h)'
    BY <1>1 DEF IInv, RecordInv
  <2>2. \A h \in Generations : h # g => RecordInv(h)'
    BY <1>3 DEF IInv, RecordInv, SameObjects
  <2> QED
    BY <2>1, <2>2
<1>7. \A o \in objects' : o \notin leaked' =>
         \/ o[1] = f /\ \E i \in Frames : o = <<f, i>>
         \/ o \in objects \ leaked
  BY DEF SameObjects
<1>8. FenceInv'
  <2>1. \A o \in objects' : o[1] \in 1 .. next'
    <3> SUFFICES ASSUME NEW o \in objects' PROVE o[1] \in 1 .. next
      OBVIOUS
    <3>1. o[1] = f \/ o \in objects
      BY DEF SameObjects
    <3> QED
      BY <1>0, <1>1, <3>1 DEF FenceInv
  <2>2. \A d \in Callers : call'[d].op = call[d].op /\ call'[d].fence = call[d].fence
    <3> SUFFICES ASSUME NEW d \in Callers
                 PROVE  call'[d].op = call[d].op /\ call'[d].fence = call[d].fence
      OBVIOUS
    <3>1. CASE d = c
      BY <3>1 DEF SameCall
    <3>2. CASE d # c
      <4>1. call'[d] = call[d]
        BY <3>2
      <4> QED
        BY ONLY <4>1
    <3> QED
      BY ONLY <3>1, <3>2
  <2>3. FenceInv /\ record' = record
    BY <1>0
  <2> QED
    BY ONLY <2>1, <2>2, <2>3 DEF FenceInv
<1>9. NoOrphan'
  <2>1. \A h \in Generations : ObjectsOf(h)' = ObjectsOf(h)
    BY DEF ObjectsOf
  <2>2. \A i \in Frames : <<f, i>> \in ObjectsOf(g)
    BY <1>1 DEF ObjectsOf, Frames
  <2>3. g \in Generations /\ record[g] # None /\ record' = record /\ NoOrphan
    BY <1>0, <1>1
  <2>4. ASSUME NEW o \in objects' \ leaked'
        PROVE  \E h \in Generations : record'[h] # None /\ o \in ObjectsOf(h)'
    <3>1. (\E i \in Frames : o = <<f, i>>) \/ o \in objects \ leaked
      BY ONLY <1>7, o \in objects' \ leaked'
    <3>2. \E h \in Generations : record[h] # None /\ o \in ObjectsOf(h)
      BY ONLY <2>2, <2>3, <3>1 DEF NoOrphan
    <3> QED
      BY ONLY <2>1, <2>3, <3>2
  <2> QED
    BY ONLY <2>4 DEF NoOrphan
<1>10. PromiseInv' /\ CurrentComplete'
  BY DEF IInv, PromiseInv, CurrentComplete, Complete
<1>11. TypeOK'
  BY <1>0, TypeNext DEF TypeOK, Frames
<1> QED
  BY <1>4, <1>5, <1>6, <1>8, <1>9, <1>10, <1>11 DEF IInv

LEMMA StagePutStep ==
  ASSUME IInv, NEW c \in Callers, StagePut(c)
  PROVE  IInv'
<1> DEFINE f == call[c].fence
           k == call[c].frame
<1>0. /\ UNCHANGED <<record, current, next, promised, damaged, leaked, faults>> /\ faults' \in Nat
      /\ TypeOK /\ objects' = objects \cup {<<f, k>>} /\ k <= FrameCount /\ NextFrame(c)
      /\ call[c].at = "put"
  <2>1. TypeOK
    BY DEF IInv
  <2>2. faults \in Nat /\ current \in Nat
    BY <2>1 DEF TypeOK
  <2> QED
    BY <2>1, <2>2 DEF StagePut, metadata, history
<1>1. call[c].op = "stage" /\ StageInv(c)
  BY <1>0, CallAt
<1>2. /\ SameCall(c) /\ call'[c].at = "put" /\ call'[c].frame = k + 1
      /\ \A d \in Callers : d # c => call'[d] = call[d]
  BY <1>0, CallUpdate
<1>3. call' \in [Callers -> CallType]
  BY <1>0, MoveType
<1>4. f \in Nat /\ k \in Frames /\ k + 1 \in 1 .. FrameCount + 1
      /\ \A i \in Frames : i < k + 1 <=> i < k \/ i = k
  <2>1. k \in 1 .. FrameCount + 1 /\ FrameCount \in Nat
    BY <1>1, ConstantsAssumption DEF StageInv
  <2>2. k <= FrameCount
    BY <1>0
  <2>3. k \in 1 .. FrameCount /\ k + 1 \in 1 .. FrameCount + 1
        /\ \A i \in 1 .. FrameCount : i < k + 1 <=> i < k \/ i = k
    BY ONLY <2>1, <2>2
  <2> QED
    BY <1>0, <2>3 DEF TypeOK, Frames
<1>5. /\ objects' \subseteq Nat \X Frames /\ leaked' \subseteq Nat \X Frames
      /\ \A j \in Nat : j # f => SameObjects(j)
  BY <1>0, <1>4 DEF TypeOK, Frames, SameObjects
<1>6. StageInv(c)'
  BY <1>0, <1>1, <1>2, <1>4 DEF StageInv, SameCall
<1> QED
  BY <1>0, <1>1, <1>2, <1>3, <1>5, <1>6, StageObjects

LEMMA StageFailsStep ==
  ASSUME IInv, NEW c \in Callers, StageFails(c)
  PROVE  IInv'
<1> DEFINE f == call[c].fence
           k == call[c].frame
<1>0. /\ UNCHANGED <<record, current, next, promised, damaged>> /\ faults' \in Nat
      /\ TypeOK /\ Abort(c) /\ call[c].at = "put"
      /\ \/ UNCHANGED <<objects, leaked>>
         \/ /\ k <= FrameCount /\ objects' = objects \cup {<<f, k>>}
            /\ leaked' = leaked \cup {<<f, k>>}
  <2>1. TypeOK
    BY DEF IInv
  <2>2. faults \in Nat
    BY <2>1 DEF TypeOK
  <2>3. faults' = faults \/ faults' = faults + 1
    BY DEF StageFails, Fault
  <2>4. faults' \in Nat
    BY ONLY <2>2, <2>3
  <2> QED
    BY <2>1, <2>4 DEF StageFails, metadata
<1>1. call[c].op = "stage" /\ StageInv(c)
  BY <1>0, CallAt
<1>2. /\ SameCall(c) /\ call'[c].at = "abort" /\ call'[c].frame = 1 /\ call'[c].created = k - 1
      /\ \A d \in Callers : d # c => call'[d] = call[d]
  BY <1>0, CallUpdate
<1>3. /\ f \in Nat /\ (k <= FrameCount => k \in Frames) /\ k - 1 \in 0 .. FrameCount
      /\ 1 \in 1 .. FrameCount + 1 /\ 1 \in 0 .. FrameCount + 1
      /\ \A i \in Frames : i < k => 1 <= i /\ i <= k - 1
  <2>1. k \in 1 .. FrameCount + 1 /\ FrameCount \in Nat \ {0}
    BY <1>1, ConstantsAssumption DEF StageInv
  <2>2. /\ k <= FrameCount => k \in Frames
        /\ k - 1 \in 0 .. FrameCount /\ 1 \in 1 .. FrameCount + 1 /\ 1 \in 0 .. FrameCount + 1
        /\ \A i \in Frames : i < k => 1 <= i /\ i <= k - 1
    BY ONLY <2>1 DEF Frames
  <2> QED
    BY <1>0, <2>2 DEF TypeOK
<1>4. call' \in [Callers -> CallType]
  <2>1. call \in [Callers -> CallType]
    BY <1>0 DEF TypeOK, CallType
  <2>2. [call[c] EXCEPT !.at = "abort", !.created = call[c].frame - 1, !.frame = 1] \in CallType
    BY <1>3, <2>1 DEF CallType, Steps
  <2> QED
    BY <1>0, <2>1, <2>2 DEF Abort
<1>5. /\ objects' \subseteq Nat \X Frames /\ leaked' \subseteq Nat \X Frames
      /\ \A j \in Nat : j # f => SameObjects(j)
  BY <1>0, <1>3 DEF TypeOK, Frames, SameObjects
<1>6. \A i \in Frames : <<f, i>> \in objects' \ leaked' => 1 <= i /\ i <= k - 1
  <2>1. \A i \in Frames : <<f, i>> \in objects' \ leaked' => <<f, i>> \in objects \ leaked
    BY <1>0
  <2> QED
    BY <1>0, <1>1, <1>3, <2>1 DEF StageInv
<1>7. StageInv(c)'
  BY <1>0, <1>1, <1>2, <1>3, <1>6 DEF StageInv, SameCall
<1> QED
  BY <1>0, <1>1, <1>2, <1>4, <1>5, <1>7, StageObjects

LEMMA AbortDeleteStep ==
  ASSUME IInv, NEW c \in Callers, AbortDelete(c)
  PROVE  IInv'
<1> DEFINE f == call[c].fence
           k == call[c].frame
           o == <<f, k>>
<1>0. /\ UNCHANGED <<record, current, next, promised, damaged>> /\ faults' \in Nat
      /\ TypeOK /\ call[c].at = "abort" /\ k <= call[c].created /\ NextFrame(c)
      /\ \/ objects' = objects \ {o} /\ leaked' = leaked
         \/ leaked' = leaked \cup {o} /\ objects' = objects
  <2>1. TypeOK
    BY DEF IInv
  <2>2. faults \in Nat
    BY <2>1 DEF TypeOK
  <2>3. faults' = faults \/ faults' = faults + 1
    BY DEF AbortDelete, Fault
  <2>4. faults' \in Nat
    BY ONLY <2>2, <2>3
  <2> QED
    BY <2>1, <2>4 DEF AbortDelete, metadata
<1>1. call[c].op = "stage" /\ StageInv(c)
  BY <1>0, CallAt
<1>2. /\ SameCall(c) /\ call'[c].at = "abort" /\ call'[c].frame = k + 1
      /\ call'[c].created = call[c].created
      /\ \A d \in Callers : d # c => call'[d] = call[d]
  BY <1>0, CallUpdate
<1>3. /\ f \in Nat /\ k \in Frames /\ k + 1 \in 1 .. FrameCount + 1 /\ k <= FrameCount
      /\ \A i \in Frames : k <= i /\ i # k => k + 1 <= i
  <2>1. k \in 1 .. FrameCount + 1 /\ FrameCount \in Nat
    BY <1>1, ConstantsAssumption DEF StageInv
  <2>2. k <= call[c].created /\ call[c].created \in 0 .. FrameCount /\ f \in Nat
    BY <1>0 DEF TypeOK
  <2>3. k \in 1 .. FrameCount
    BY ONLY <2>1, <2>2
  <2>4. /\ k + 1 \in 1 .. FrameCount + 1 /\ k <= FrameCount
        /\ \A i \in 1 .. FrameCount : k <= i /\ i # k => k + 1 <= i
    BY ONLY <2>1, <2>3
  <2> QED
    BY <2>2, <2>3, <2>4 DEF Frames
<1>4. call' \in [Callers -> CallType]
  BY <1>0, <1>3, MoveType
<1>5. /\ objects' \subseteq Nat \X Frames /\ leaked' \subseteq Nat \X Frames
      /\ \A j \in Nat : j # f => SameObjects(j)
  <2>1. objects \subseteq Nat \X Frames /\ leaked \subseteq Nat \X Frames
    BY <1>0 DEF TypeOK, Frames
  <2>2. o \in Nat \X Frames
    BY ONLY <1>3
  <2>3. \A j \in Nat : j # f => \A i \in Frames : <<j, i>> # o
    BY ONLY TRUE
  <2>4. \A j \in Nat : j # f => SameObjects(j)
    <3> HIDE DEF o
    <3> QED
      BY ONLY <1>0, <2>3 DEF SameObjects
  <2> HIDE DEF o
  <2> QED
    BY ONLY <1>0, <2>1, <2>2, <2>4
<1>6. \A i \in Frames : <<f, i>> \in objects' \ leaked' => <<f, i>> \in objects \ leaked /\ i # k
  BY <1>0
<1>7. StageInv(c)'
  BY <1>0, <1>1, <1>2, <1>3, <1>6 DEF StageInv, SameCall
<1> QED
  BY <1>0, <1>1, <1>2, <1>4, <1>5, <1>7, StageObjects

\* A call that stages ends: it completes its reservation or takes it back.
LEMMA StageEnds ==
  ASSUME IInv, NEW c \in Callers, call[c].op = "stage", Return(c),
         NEW r \in Record \cup {None}, record' = [record EXCEPT ![call[c].gen] = r],
         r # None => r.fence = call[c].fence /\ r.status = "staged",
         r # None => r.complete /\ \A i \in Frames : <<call[c].fence, i>> \in objects,
         UNCHANGED <<current, next, objects, damaged, leaked, faults>>,
         PromiseInv', NoOrphan', promised' \subseteq Generations \X Contents
  PROVE  IInv'
<1> DEFINE g == call[c].gen
<1>0. TypeOK /\ FenceInv /\ CurrentComplete
  BY DEF IInv
<1>1. /\ StageInv(c) /\ g \in Generations /\ record[g] # None /\ ~record[g].complete
      /\ record[g].fence = call[c].fence
      /\ \A h \in Generations : record[h] # None /\ record[h].fence = call[c].fence => h = g
  BY Stager
<1>2. /\ record' \in [Generations -> Record \cup {None}]
      /\ \A h \in Generations : h # g => record'[h] = record[h]
      /\ \A h \in Generations : h = g => record'[h] = r
  BY <1>0, <1>1 DEF TypeOK
<1>3. KeepsComplete
  BY <1>1, <1>2 DEF KeepsComplete, Complete
<1>4. \A d \in Callers : d # c => CallInv(d)'
  <2> SUFFICES ASSUME NEW d \in Callers, d # c PROVE CallInv(d)'
    OBVIOUS
  <2>1. call[d].op = "stage" => record'[call[d].gen] = record[call[d].gen]
    <3> SUFFICES ASSUME call[d].op = "stage" PROVE call[d].gen \in Generations /\ call[d].gen # g
      BY <1>2
    <3>1. call[d].gen \in Generations /\ record[call[d].gen].fence = call[d].fence
      BY Stager
    <3>2. call[d].fence # call[c].fence
      BY <1>0 DEF FenceInv
    <3>3. record[g].fence = call[c].fence
      BY <1>1
    <3> QED
      BY ONLY <3>1, <3>2, <3>3
  <2>2. /\ CallInv(d) /\ call'[d] = call[d] /\ next \in Nat /\ next' \in Nat /\ next <= next'
    <3>1. CallInv(d)
      BY DEF IInv
    <3>2. call'[d] = call[d]
      BY <1>0, Ends
    <3>3. next \in Nat /\ next' = next
      BY <1>0 DEF TypeOK
    <3> QED
      BY ONLY <3>1, <3>2, <3>3
  <2>3. SameObjects(call[d].fence)
    BY DEF SameObjects
  <2>4. call[d].op = "purge" => \A i \in Frames :
          <<call[d].fence, i>> \in objects' => <<call[d].fence, i>> \in objects
    OBVIOUS
  <2> QED
    BY <1>3, <2>1, <2>2, <2>3, <2>4, OtherCall
<1>5. \A h \in Generations : RecordInv(h)'
  <2>1. \A h \in Generations : h # g => RecordInv(h)'
    BY <1>2 DEF IInv, RecordInv
  <2>2. \A h \in Generations : h = g => RecordInv(h)'
    BY <1>1, <1>2 DEF RecordInv, StageInv
  <2> QED
    BY <2>1, <2>2
<1>6. FenceInv'
  <2>1. \A h \in Generations : record'[h] # None => record[h] # None /\ record'[h].fence = record[h].fence
    BY <1>1, <1>2
  <2>2. \A d \in Callers : call'[d].op = "stage" => call'[d] = call[d]
    BY <1>0, Ends
  <2>3. objects' = objects /\ next' = next
    OBVIOUS
  <2>4. FenceInv
    BY <1>0
  <2>5. \A h, k \in Generations :
          record'[h] # None /\ record'[k] # None /\ record'[h].fence = record'[k].fence => h = k
    BY ONLY <2>1, <2>4 DEF FenceInv
  <2>6. \A d, e \in Callers :
          call'[d].op = "stage" /\ call'[e].op = "stage" /\ call'[d].fence = call'[e].fence => d = e
    BY ONLY <2>2, <2>4 DEF FenceInv
  <2> QED
    BY ONLY <2>3, <2>4, <2>5, <2>6 DEF FenceInv
<1>7. CurrentComplete'
  BY <1>0, <1>1, <1>2 DEF CurrentComplete, Complete
<1>8. TypeOK'
  BY <1>0, <1>2, Ends, TypeNext DEF TypeOK
<1> QED
  BY <1>0, <1>4, <1>5, <1>6, <1>7, <1>8, Ends DEF IInv

LEMMA StageCompleteStep ==
  ASSUME IInv, NEW c \in Callers, StageComplete(c)
  PROVE  IInv'
<1> DEFINE g == call[c].gen
           r == [record[g] EXCEPT !.complete = TRUE]
<1>0. /\ UNCHANGED <<current, next, objects, damaged, leaked, faults>>
      /\ TypeOK /\ PromiseInv /\ NoOrphan /\ call[c].at = "put" /\ call[c].frame > FrameCount
  BY DEF IInv, StageComplete, store
<1>1. call[c].op = "stage" /\ StageInv(c) /\ record[g] # None /\ g \in Generations
  BY <1>0, CallAt, Stager DEF StageInv
<1>2. /\ record[g].fence = call[c].fence /\ record[g].status = "staged" /\ ~record[g].complete
      /\ record[g].content = call[c].content /\ record[g] \in Record /\ call[c].content \in Contents
  BY <1>1, Stager
<1>3. /\ record' = [record EXCEPT ![g] = r] /\ Return(c)
      /\ promised' = promised \cup {<<g, call[c].content>>}
  BY <1>0, <1>1, <1>2 DEF StageComplete, TypeOK
<1>4. r \in Record /\ r # None
  <2>1. r \in Record
    BY <1>2 DEF Record
  <2> QED
    BY <2>1, RecordNotNone
<1>5. r.fence = call[c].fence /\ r.status = "staged" /\ r.complete = TRUE /\ r.content = call[c].content
  BY <1>2 DEF Record
<1>6. \A i \in Frames : <<call[c].fence, i>> \in objects
  <2>1. \A i \in Frames : i < call[c].frame
    <3>1. call[c].frame \in 1 .. FrameCount + 1 /\ FrameCount \in Nat /\ call[c].frame > FrameCount
      BY <1>0, <1>1, ConstantsAssumption DEF StageInv
    <3> QED
      BY ONLY <3>1 DEF Frames
  <2> QED
    BY <1>0, <1>1, <2>1 DEF StageInv
<1> HIDE DEF r
<1>7. \A h \in Generations : record'[h] = IF h = g THEN r ELSE record[h]
  BY <1>0, <1>3 DEF TypeOK
<1>8. PromiseInv'
  <2>1. \A p \in promised : p[1] \in Generations
    BY <1>0 DEF TypeOK
  <2>2. \A p \in promised : Complete(p[1])' /\ record'[p[1]].content = p[2]
    BY <1>0, <1>2, <1>7, <2>1 DEF PromiseInv, Complete
  <2>3. record'[g] # None /\ record'[g].complete /\ record'[g].content = call[c].content
    BY <1>1, <1>4, <1>5, <1>7
  <2> SUFFICES ASSUME NEW p \in promised' PROVE Complete(p[1])' /\ record'[p[1]].content = p[2]
    BY DEF PromiseInv
  <2>4. CASE p \in promised
    BY <2>2, <2>4
  <2>5. CASE p = <<g, call[c].content>>
    BY <2>3, <2>5 DEF Complete
  <2> QED
    BY <1>3, <2>4, <2>5
<1>9. NoOrphan'
  <2>1. \A h \in Generations : record[h] # None => record'[h] # None /\ record'[h].fence = record[h].fence
    BY ONLY <1>2, <1>4, <1>5, <1>7
  <2> QED
    BY ONLY <1>0, <2>1 DEF NoOrphan, ObjectsOf
<1>10. promised' \subseteq Generations \X Contents
  <2>1. promised \subseteq Generations \X Contents
    BY <1>0 DEF TypeOK
  <2>2. <<g, call[c].content>> \in Generations \X Contents
    BY ONLY <1>1, <1>2
  <2> QED
    BY ONLY <1>3, <2>1, <2>2
<1> QED
  BY <1>0, <1>1, <1>3, <1>4, <1>5, <1>6, <1>8, <1>9, <1>10, StageEnds

LEMMA AbortReservationStep ==
  ASSUME IInv, NEW c \in Callers, AbortReservation(c)
  PROVE  IInv'
<1> DEFINE g == call[c].gen
<1>0. /\ UNCHANGED <<current, next, objects, damaged, leaked, promised>> /\ faults' \in Nat
      /\ TypeOK /\ PromiseInv /\ NoOrphan /\ call[c].at = "abort" /\ call[c].frame > call[c].created /\ Return(c)
  <2>1. TypeOK /\ PromiseInv /\ NoOrphan
    BY DEF IInv
  <2>2. faults \in Nat
    BY <2>1 DEF TypeOK
  <2>3. faults' \in Nat
    <3>1. faults' = faults \/ faults' = faults + 1
      BY DEF AbortReservation, Fault
    <3> QED
      BY ONLY <2>2, <3>1
  <2> QED
    BY <2>1, <2>3 DEF AbortReservation, store, history
<1>1. CASE UNCHANGED record
  BY <1>0, <1>1, QuietEnd
<1>2. CASE record' = [record EXCEPT ![g] = None] /\ UNCHANGED faults
  <2>1. /\ call[c].op = "stage" /\ StageInv(c) /\ g \in Generations
        /\ record[g].fence = call[c].fence /\ ~record[g].complete
    BY <1>0, CallAt, Stager
  <2>2. \A h \in Generations : h # g => record'[h] = record[h]
    BY <1>0, <1>2 DEF TypeOK
  <2>3. PromiseInv'
    BY <1>0, <2>1, <2>2 DEF PromiseInv, Complete, TypeOK
  <2>4. \A i \in Frames : <<call[c].fence, i>> \notin objects \ leaked
    <3>1. call[c].frame \in Nat /\ call[c].created \in Nat /\ call[c].frame > call[c].created
      BY <1>0 DEF TypeOK
    <3>2. \A i \in Frames : ~(call[c].frame <= i /\ i <= call[c].created)
      <4> DEFINE k == call[c].frame
                 m == call[c].created
      <4> HIDE DEF k, m
      <4>1. k \in Nat /\ m \in Nat /\ k > m
        BY ONLY <3>1 DEF k, m
      <4>2. FrameCount \in Nat
        BY ConstantsAssumption
      <4>3. \A i \in Frames : ~(k <= i /\ i <= m)
        BY ONLY <4>1, <4>2 DEF Frames
      <4> QED
        BY ONLY <4>3 DEF k, m
    <3> QED
      BY <1>0, <2>1, <3>2 DEF StageInv
  <2>5. NoOrphan'
    <3> SUFFICES ASSUME NEW o \in objects \ leaked
                 PROVE  \E h \in Generations : record'[h] # None /\ o \in ObjectsOf(h)'
      BY <1>0 DEF NoOrphan
    <3>1. PICK h \in Generations : record[h] # None /\ o \in ObjectsOf(h)
      BY <1>0 DEF NoOrphan
    <3>2. h # g
      BY <2>1, <2>4, <3>1 DEF ObjectsOf, Frames
    <3> QED
      BY <2>2, <3>1, <3>2 DEF ObjectsOf
  <2> QED
    BY <1>0, <1>2, <2>1, <2>3, <2>5, StageEnds DEF TypeOK
<1> QED
  BY <1>1, <1>2 DEF AbortReservation

\* What is said of the fences, and of the records and the objects, holds after a
\* step that changes no record, adds no object and begins no stage.
LEMMA FencesKept ==
  ASSUME FenceInv, UNCHANGED <<record, next>>, objects' \subseteq objects,
         \A d \in Callers : call'[d].op = "stage" =>
             call[d].op = "stage" /\ call'[d].fence = call[d].fence
  PROVE  FenceInv'
<1>1. \A g, h \in Generations : record'[g] # None /\ record'[h] # None
         /\ record'[g].fence = record'[h].fence => g = h
  BY DEF FenceInv
<1>2. \A c, d \in Callers : call'[c].op = "stage" /\ call'[d].op = "stage"
         /\ call'[c].fence = call'[d].fence => c = d
  <2>1. \A c, d \in Callers : call[c].op = "stage" /\ call[d].op = "stage"
           /\ call[c].fence = call[d].fence => c = d
    BY DEF FenceInv
  <2> SUFFICES ASSUME NEW c \in Callers, NEW d \in Callers, call'[c].op = "stage",
                      call'[d].op = "stage", call'[c].fence = call'[d].fence
               PROVE  c = d
    OBVIOUS
  <2>2. /\ call[c].op = "stage" /\ call'[c].fence = call[c].fence
        /\ call[d].op = "stage" /\ call'[d].fence = call[d].fence
    OBVIOUS
  <2> QED
    BY ONLY <2>1, <2>2, call'[c].fence = call'[d].fence, c \in Callers, d \in Callers
<1>3. \A o \in objects' : o[1] \in 1 .. next'
  <2>1. \A o \in objects : o[1] \in 1 .. next
    BY DEF FenceInv
  <2> QED
    BY ONLY <2>1, objects' \subseteq objects, next' = next
<1> QED
  BY ONLY <1>1, <1>2, <1>3 DEF FenceInv

LEMMA RecordsKept ==
  ASSUME PromiseInv, NoOrphan, CurrentComplete, objects' \subseteq objects,
         UNCHANGED <<record, current, promised, leaked>>
  PROVE  PromiseInv' /\ NoOrphan' /\ CurrentComplete'
<1>1. \A g : Complete(g)' = Complete(g) /\ ObjectsOf(g)' = ObjectsOf(g)
  BY DEF Complete, ObjectsOf
<1>2. PromiseInv'
  BY ONLY <1>1, PromiseInv, UNCHANGED <<record, promised>> DEF PromiseInv
<1>3. NoOrphan'
  BY ONLY <1>1, NoOrphan, objects' \subseteq objects, UNCHANGED <<record, leaked>> DEF NoOrphan
<1>4. CurrentComplete'
  BY ONLY <1>1, CurrentComplete, UNCHANGED <<record, current>> DEF CurrentComplete
<1> QED
  BY ONLY <1>2, <1>3, <1>4

LEMMA FaultCount ==
  ASSUME TypeOK, Fault
  PROVE  faults' \in Nat
<1>1. faults \in Nat /\ faults' = faults + 1
  BY DEF TypeOK, Fault
<1> QED
  BY ONLY <1>1

LEMMA PurgeDeleteStep ==
  ASSUME IInv, NEW c \in Callers, PurgeDelete(c)
  PROVE  IInv'
<1> DEFINE f == call[c].fence
           k == call[c].frame
           g == call[c].gen
<1>0. /\ UNCHANGED <<record, current, next, promised, damaged, leaked>> /\ faults' \in Nat
      /\ TypeOK /\ FenceInv /\ PromiseInv /\ NoOrphan /\ CurrentComplete
      /\ call[c].at = "delete" /\ k <= FrameCount
  <2>1. TypeOK /\ FenceInv /\ PromiseInv /\ NoOrphan /\ CurrentComplete
    BY DEF IInv
  <2>2. faults \in Nat
    BY <2>1 DEF TypeOK
  <2>3. faults' = faults \/ faults' = faults + 1
    BY DEF PurgeDelete, Fault
  <2>4. faults' \in Nat
    BY ONLY <2>2, <2>3
  <2> QED
    BY <2>1, <2>4 DEF PurgeDelete, metadata, history
<1>1. CASE Return(c) /\ UNCHANGED objects
  BY <1>0, <1>1, QuietEnd
<1>2. CASE objects' = objects \ {<<f, k>>} /\ NextFrame(c)
  <2>1. /\ call[c].op = "purge" /\ PurgeInv(c) /\ g \in Generations /\ Complete(g)
        /\ f = record[g].fence /\ record[g].status \in Deleted
    BY <1>0, CallAt DEF PurgeInv, HoldsComplete
  <2>2. /\ SameCall(c) /\ call'[c].at = "delete" /\ call'[c].frame = k + 1
        /\ \A d \in Callers : d # c => call'[d] = call[d]
    BY <1>0, <1>2, CallUpdate
  <2>3. call' \in [Callers -> CallType]
    BY <1>0, <1>2, MoveType
  <2>4. k + 1 \in 1 .. FrameCount + 1 /\ \A i \in Frames : i < k + 1 => i < k \/ i = k
    <3>1. k \in 1 .. FrameCount + 1 /\ FrameCount \in Nat
      BY <2>1, ConstantsAssumption DEF PurgeInv, HoldsComplete
    <3>2. k <= FrameCount
      BY <1>0
    <3> HIDE DEF k
    <3>3. k + 1 \in 1 .. FrameCount + 1
      BY ONLY <3>1, <3>2
    <3>4. \A i \in Frames : i < k + 1 => i < k \/ i = k
      BY ONLY <3>1 DEF Frames
    <3> QED
      BY ONLY <3>3, <3>4
  <2>5. KeepsComplete
    BY <1>0 DEF KeepsComplete, Complete
  <2>6. \A d \in Callers : d # c => CallInv(d)'
    <3> SUFFICES ASSUME NEW d \in Callers, d # c PROVE CallInv(d)'
      OBVIOUS
    <3>1. call[d].op = "stage" => call[d].fence # f
      <4> SUFFICES ASSUME call[d].op = "stage", call[d].fence = f PROVE FALSE
        OBVIOUS
      <4>1. /\ ~record[call[d].gen].complete
            /\ \A h \in Generations : record[h] # None /\ record[h].fence = f => h = call[d].gen
        <5>1. /\ ~record[call[d].gen].complete
              /\ \A h \in Generations : record[h] # None /\ record[h].fence = call[d].fence
                                        => h = call[d].gen
          BY Stager
        <5> QED
          BY ONLY <5>1, call[d].fence = f
      <4>2. g \in Generations /\ record[g] # None /\ record[g].complete /\ f = record[g].fence
        BY <2>1 DEF Complete
      <4> QED
        BY ONLY <4>1, <4>2
    <3>2. call[d].op = "stage" => SameObjects(call[d].fence)
      BY <1>0, <1>2, <3>1 DEF SameObjects
    <3>3. /\ CallInv(d) /\ call'[d] = call[d] /\ next \in Nat /\ next' \in Nat /\ next <= next'
          /\ record' = record
      <4>1. CallInv(d) /\ call'[d] = call[d]
        BY <2>2 DEF IInv
      <4>2. next \in Nat /\ next' = next /\ record' = record
        BY <1>0 DEF TypeOK
      <4>3. next' \in Nat /\ next <= next'
        BY ONLY <4>2
      <4> QED
        BY ONLY <4>1, <4>2, <4>3, Zenon
    <3>4. call[d].op = "purge" => \A i \in Frames :
            <<call[d].fence, i>> \in objects' => <<call[d].fence, i>> \in objects
      BY <1>2
    <3> QED
      BY <2>5, <3>2, <3>3, <3>4, OtherCall
  <2>7. CallInv(c)'
    <3>1. \A i \in Frames : i < k + 1 => <<f, i>> \notin objects'
      BY <1>2, <2>1, <2>4 DEF PurgeInv
    <3>2. PurgeInv(c)'
      BY <1>0, <2>1, <2>2, <2>4, <3>1 DEF PurgeInv, HoldsComplete, Complete, SameCall
    <3> QED
      BY <2>1, <2>2, <3>2 DEF CallInv, SameCall
  <2>8. \A h \in Generations : RecordInv(h)'
    <3>1. \A h \in Generations : h # g /\ record[h] # None => record[h].fence # f
      BY <1>0, <2>1 DEF FenceInv, Complete
    <3>2. \A h \in Generations : h # g => RecordInv(h)'
      BY <1>0, <1>2, <3>1 DEF IInv, RecordInv
    <3>3. \A h \in Generations : h = g => RecordInv(h)'
      BY <1>0, <1>2, <2>1 DEF IInv, RecordInv, Complete, Deleted
    <3> QED
      BY <3>2, <3>3
  <2>9. FenceInv'
    <3>1. \A d \in Callers : call'[d].op = call[d].op /\ call'[d].fence = call[d].fence
      BY <2>2 DEF SameCall
    <3>2. FenceInv /\ record' = record /\ next' = next /\ objects' \subseteq objects
      BY <1>0, <1>2
    <3> QED
      BY ONLY <3>1, <3>2, FencesKept
  <2>10. PromiseInv' /\ NoOrphan' /\ CurrentComplete'
    <3>1. /\ PromiseInv /\ NoOrphan /\ CurrentComplete /\ objects' \subseteq objects
          /\ UNCHANGED <<record, current, promised, leaked>>
      BY <1>0, <1>2
    <3> QED
      BY ONLY <3>1, RecordsKept
  <2>11. TypeOK'
    BY <1>0, <1>2, <2>3, TypeNext DEF TypeOK
  <2> QED
    BY <2>6, <2>7, <2>8, <2>9, <2>10, <2>11 DEF IInv
<1> QED
  BY <1>1, <1>2 DEF PurgeDelete

\* Nothing of the invariant is about the bytes of an object.
LEMMA DamageStep ==
  ASSUME IInv, NEW o \in objects, Damage(o)
  PROVE  IInv'
<1>1. /\ UNCHANGED <<record, current, next, objects, call, promised, leaked>>
      /\ damaged' = damaged \cup {o} /\ faults' \in Nat /\ TypeOK
  <2>1. TypeOK /\ Fault
    BY DEF IInv, Damage
  <2> QED
    BY <2>1, FaultCount DEF Damage, metadata, history
<1>2. TypeOK'
  BY <1>1 DEF TypeOK
<1>3. FenceInv' /\ PromiseInv' /\ NoOrphan' /\ CurrentComplete'
  <2>0. FenceInv /\ PromiseInv /\ CurrentComplete /\ NoOrphan
    BY DEF IInv
  <2>1. objects' \subseteq objects
    BY ONLY <1>1
  <2> QED
    BY ONLY <1>1, <2>0, <2>1, FencesKept, RecordsKept
<1>4. \A d \in Callers : CallInv(d)'
  BY <1>1, CallsKept
<1>5. \A g \in Generations : RecordInv(g)'
  BY <1>1 DEF IInv, RecordInv
<1> QED
  BY <1>2, <1>3, <1>4, <1>5 DEF IInv

\* A crash forgets the calls; what is on disk satisfies the rest by itself.
LEMMA CrashStep ==
  ASSUME IInv, Crash
  PROVE  IInv'
<1>1. /\ UNCHANGED <<record, current, next, objects, damaged, promised, leaked>>
      /\ call' = [c \in Callers |-> Idle] /\ faults' \in Nat /\ TypeOK
  <2>1. TypeOK /\ Fault
    BY DEF IInv, Crash
  <2> QED
    BY <2>1, FaultCount DEF Crash, metadata, store, history
<1>2. TypeOK'
  <2>1. Idle \in CallType
    BY ConstantsAssumption DEF Idle, CallType, Ops, Steps
  <2> QED
    BY <1>1, <2>1, TypeNext DEF TypeOK
<1>3. FenceInv' /\ PromiseInv' /\ NoOrphan' /\ CurrentComplete'
  <2>1. \A c \in Callers : call'[c].op # "stage"
    BY ONLY <1>1, IdleOp
  <2>2. FenceInv /\ PromiseInv /\ CurrentComplete /\ NoOrphan
    BY DEF IInv
  <2>3. objects' \subseteq objects
    BY ONLY <1>1
  <2> QED
    BY ONLY <1>1, <2>1, <2>2, <2>3, FencesKept, RecordsKept
<1>4. \A d \in Callers : CallInv(d)'
  BY <1>1 DEF CallInv
<1>5. \A g \in Generations : RecordInv(g)'
  BY <1>1 DEF IInv, RecordInv
<1> QED
  BY <1>2, <1>3, <1>4, <1>5 DEF IInv

LEMMA Invariance == IInv /\ [Next]_vars => IInv'
<1> SUFFICES ASSUME IInv, [Next]_vars PROVE IInv'
  OBVIOUS
<1>1. CASE UNCHANGED vars
  <2>1. \A d \in Callers : CallInv(d)'
    BY <1>1, CallsKept DEF vars
  <2>2. /\ TypeOK /\ FenceInv /\ PromiseInv /\ NoOrphan /\ CurrentComplete
        /\ \A g \in Generations : RecordInv(g)
    BY DEF IInv
  <2>3. UNCHANGED <<record, current, next, objects, damaged, call, promised, leaked, faults>>
    BY <1>1 DEF vars
  <2>4. TypeOK'
    BY ONLY <2>2, <2>3 DEF TypeOK
  <2>5. FenceInv' /\ PromiseInv'
    BY ONLY <2>2, <2>3 DEF FenceInv, PromiseInv, Complete
  <2>6. NoOrphan' /\ CurrentComplete'
    <3>1. NoOrphan'
      <4>1. \A g \in Generations : ObjectsOf(g)' = ObjectsOf(g)
        BY ONLY <2>3 DEF ObjectsOf
      <4> QED
        BY ONLY <2>2, <2>3, <4>1 DEF NoOrphan
    <3>2. CurrentComplete'
      BY ONLY <2>2, <2>3 DEF CurrentComplete, Complete
    <3> QED
      BY ONLY <3>1, <3>2
  <2>7. \A g \in Generations : RecordInv(g)'
    BY ONLY <2>2, <2>3 DEF RecordInv
  <2> QED
    BY ONLY <2>1, <2>4, <2>5, <2>6, <2>7 DEF IInv
<1>2. ASSUME NEW c \in Callers, CallStep(c) PROVE IInv'
  BY <1>2, StagePutStep, StageFailsStep, StageCompleteStep, AbortDeleteStep, AbortReservationStep,
     VerifySteps, VerifyEndStep, QuarantineStep, PurgeDeleteStep, CompletePurgeStep DEF CallStep
<1>3. ASSUME NEW c \in Callers, NEW g \in Generations, NEW x \in Contents,
             StageBegin(c, g, x) \/ StageDuplicate(c, g, x)
      PROVE  IInv'
  BY <1>3, StageBeginStep, StageDuplicateStep
<1>4. ASSUME NEW c \in Callers, NEW g \in Generations,
             \/ \E op \in {"publish", "reconcile"} : VerifyBegin(c, op, g)
             \/ ReadBegin(c, g) \/ Tombstone(c, g) \/ PreparePurge(c, g)
      PROVE  IInv'
  BY <1>4, VerifySteps, TombstoneStep, PreparePurgeStep
<1>5. ASSUME NEW o \in objects, Damage(o) PROVE IInv'
  BY <1>5, DamageStep
<1>6. CASE Crash
  BY <1>6, CrashStep
<1> QED
  BY <1>1, <1>2, <1>3, <1>4, <1>5, <1>6 DEF Next

LEMMA AlwaysIInv == Spec => []IInv
  BY InitHolds, Invariance, PTL DEF Spec

\* The type invariant, for any number of calls, generations and frames.
THEOREM TypeCorrect == Spec => []TypeOK
<1>1. IInv => TypeOK
  BY DEF IInv
<1> QED
  BY <1>1, AlwaysIInv, PTL

\* A staged receipt is kept (StageContent, AbortStage), whatever the calls, the
\* crashes and the failures.
THEOREM ReceiptsKept == Spec => []StagedKept
<1>1. IInv => StagedKept
  BY DEF IInv, PromiseInv, RecordInv, StagedKept, ObjectsOf, Complete, Frames
<1> QED
  BY <1>1, AlwaysIInv, PTL

\* A purged generation has no object left (Purge).
THEOREM PurgeDeletes == Spec => []PurgedGone
<1>1. IInv => PurgedGone
  BY DEF IInv, RecordInv, PurgedGone, ObjectsOf, Frames
<1> QED
  BY <1>1, AlwaysIInv, PTL

\* An object no record names is one whose deletion failed (StageContent's abort).
THEOREM NothingForgotten == Spec => []NoOrphan
<1>1. IInv => NoOrphan
  BY DEF IInv
<1> QED
  BY <1>1, AlwaysIInv, PTL

\* The current pointer covers complete, published generations (Publish).
THEOREM CurrentIsComplete == Spec => []CurrentComplete
<1>1. IInv => CurrentComplete
  BY DEF IInv
<1> QED
  BY <1>1, AlwaysIInv, PTL

-----------------------------------------------------------------------------
\* What a step may do to a complete generation.

Forward(g) ==
    /\ record'[g] # None
    /\ record'[g].content = record[g].content /\ record'[g].fence = record[g].fence
    /\ \/ record'[g].status = record[g].status
       \/ Rank[record'[g].status] > Rank[record[g].status]

LEMMA SetForward ==
  ASSUME IInv, NEW g \in Generations, NEW s \in Statuses, SetStatus(g, s),
         s = record[g].status \/ Rank[s] > Rank[record[g].status],
         NEW h \in Generations, Complete(h)
  PROVE  Forward(h)
<1>1. record \in [Generations -> Record \cup {None}]
  BY DEF IInv, TypeOK
<1>2. CASE h # g
  BY <1>1, <1>2 DEF SetStatus, Forward, Complete
<1>3. CASE h = g
  <2>1. record[g] \in Record /\ record'[g] = [record[g] EXCEPT !.status = s]
    BY <1>1, <1>3 DEF SetStatus, Complete
  <2>2. record'[g] \in Record
    BY <2>1 DEF Record
  <2>3. record'[g] # None
    BY <2>2, RecordNotNone
  <2>4. /\ record'[g].status = s /\ record'[g].content = record[g].content
        /\ record'[g].fence = record[g].fence
    BY <2>1 DEF Record
  <2> QED
    BY <1>3, <2>3, <2>4 DEF Forward
<1> QED
  BY <1>2, <1>3

LEMMA ForwardStep ==
  ASSUME IInv, [Next]_vars, NEW h \in Generations, Complete(h)
  PROVE  Forward(h)
<1>0. record \in [Generations -> Record \cup {None}]
  BY DEF IInv, TypeOK
<1>1. CASE record'[h] = record[h]
  BY <1>1 DEF Forward, Complete
<1>2. ASSUME NEW g \in Generations, ~Complete(g), NEW r, record' = [record EXCEPT ![g] = r]
      PROVE  record'[h] = record[h]
  BY <1>0, <1>2
<1>3. ASSUME NEW c \in Callers, NEW g \in Generations, NEW x \in Contents, StageBegin(c, g, x)
      PROVE  record'[h] = record[h]
  BY <1>2, <1>3 DEF StageBegin, Complete
<1>4. ASSUME NEW c \in Callers, StageComplete(c) PROVE record'[h] = record[h]
  <2>1. call[c].gen \in Generations /\ ~Complete(call[c].gen)
    BY <1>4, CallAt, Stager DEF StageComplete, StageInv, Complete
  <2> QED
    BY <1>0, <1>2, <1>4, <2>1 DEF StageComplete
<1>5. ASSUME NEW c \in Callers, AbortReservation(c) PROVE record'[h] = record[h]
  <2>1. call[c].gen \in Generations /\ ~Complete(call[c].gen)
    BY <1>5, CallAt, Stager DEF AbortReservation, StageInv, Complete
  <2> QED
    BY <1>2, <1>5, <2>1 DEF AbortReservation
<1>6. \A s \in Statuses : /\ s # "purged" => s = "quarantined" \/ Rank["quarantined"] > Rank[s]
                          /\ Rank["published"] > Rank["staged"]
                          /\ Rank["tombstoned"] > Rank["published"]
                          /\ Rank["purged"] > Rank["tombstoned"]
  <2>1. /\ Rank["staged"] = 0 /\ Rank["published"] = 1 /\ Rank["tombstoned"] = 2
        /\ Rank["quarantined"] = 3 /\ Rank["purged"] = 3
    BY ONLY TRUE DEF Rank
  <2> QED
    BY ONLY <2>1 DEF Statuses
<1>7. \A g \in Generations : record[g] # None => record[g].status \in Statuses
  BY <1>0 DEF Record
<1> HIDE DEF Rank
<1>8. ASSUME NEW c \in Callers, Quarantine(c) PROVE Forward(h)
  <2>1. call[c].gen \in Generations
    BY <1>8, CallAt DEF Quarantine, VerifyInv, HoldsComplete
  <2> QED
    BY <1>1, <1>6, <1>7, <1>8, <2>1, SetForward DEF Quarantine, Statuses
<1>9. ASSUME NEW c \in Callers, VerifyEnd(c) PROVE Forward(h)
  <2>1. call[c].gen \in Generations
    BY <1>9, CallAt DEF VerifyEnd, VerifyInv, HoldsComplete
  <2> QED
    BY <1>1, <1>6, <1>9, <2>1, SetForward DEF VerifyEnd, Statuses
<1>10. ASSUME NEW c \in Callers, NEW g \in Generations, Tombstone(c, g) PROVE Forward(h)
  BY <1>6, <1>10, SetForward DEF Tombstone, Statuses
<1>11. ASSUME NEW c \in Callers, CompletePurge(c) PROVE Forward(h)
  <2>1. call[c].gen \in Generations
    BY <1>11, CallAt DEF CompletePurge, PurgeInv, HoldsComplete
  <2> QED
    BY <1>1, <1>6, <1>11, <2>1, SetForward DEF CompletePurge, Statuses
<1>12. UNCHANGED record => record'[h] = record[h]
  OBVIOUS
<1>13. ASSUME NEW c \in Callers, CallStep(c) PROVE Forward(h)
  BY <1>1, <1>4, <1>5, <1>8, <1>9, <1>11, <1>12, <1>13
     DEF CallStep, StagePut, StageFails, AbortDelete, VerifyFrame, VerifyInterrupted,
         PurgeDelete, metadata
<1>14. CASE UNCHANGED vars \/ Crash \/ \E o \in objects : Damage(o)
  BY <1>1, <1>12, <1>14 DEF vars, Crash, Damage, metadata
<1>15. ASSUME NEW c \in Callers, NEW g \in Generations,
              \/ \E x \in Contents : StageDuplicate(c, g, x)
              \/ \E op \in {"publish", "reconcile"} : VerifyBegin(c, op, g)
              \/ ReadBegin(c, g) \/ PreparePurge(c, g)
       PROVE  record' = record
  BY <1>15 DEF StageDuplicate, VerifyBegin, ReadBegin, PreparePurge, metadata
<1> QED
  BY <1>1, <1>3, <1>10, <1>12, <1>13, <1>14, <1>15 DEF Next

\* A status only moves forward, and a complete generation keeps its manifest and
\* its locator (types.go: Status).
THEOREM StatusForward == Spec => ForwardOnly
<1>1. ASSUME IInv, [Next]_vars
      PROVE  [\A g \in Generations : Complete(g) =>
          /\ record'[g] # None
          /\ record'[g].content = record[g].content /\ record'[g].fence = record[g].fence
          /\ \/ record'[g].status = record[g].status
             \/ Rank[record'[g].status] > Rank[record[g].status]]_vars
  BY <1>1, ForwardStep DEF Forward
<1> QED
  BY <1>1, AlwaysIInv, PTL DEF Spec, ForwardOnly

=============================================================================

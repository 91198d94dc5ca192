-------------------------- MODULE BackgroundProofs --------------------------
(***************************************************************************)
(* Proofs about the two loops that run in the background.                  *)
(*   Watch: type correctness with the bound on the refresh queue, and that *)
(* no change of a file in a watched directory is lost.                     *)
(*   Gardener: the safety of its queue, for any jobs, processes, batch     *)
(* size and number of faults.                                              *)
(***************************************************************************)
EXTENDS Watch, Gardener, FiniteSetTheorems, TLAPS


\* The queue has room for a path it accepts, and counts it once.
LEMMA EnqueueType ==
    ASSUME TypeOK, NEW p \in Path, Enqueue(p)
    PROVE  QueueOK' /\ Pending'
<1>1. IsFiniteSet(Path)
  BY ConstantsAssumption, FS_AddElement DEF Path
<1>2. IsFiniteSet(paths)
  BY <1>1, FS_Subset DEF TypeOK, QueueOK
<1>3. Cardinality(paths) \in Nat
  BY <1>2, FS_CardinalityType
<1>4. Cardinality(paths \cup {p}) =
          IF p \in paths THEN Cardinality(paths) ELSE Cardinality(paths) + 1
  BY <1>2, FS_AddElement
<1>5. CASE p \in paths \/ Cardinality(paths) < QueueSize
  <2>1. QueueSize \in Nat /\ Cardinality(paths) <= QueueSize
    BY ConstantsAssumption DEF TypeOK, QueueOK
  <2>2. Cardinality(paths \cup {p}) <= QueueSize
    BY <1>3, <1>4, <1>5, <2>1
  <2>3. paths' = paths \cup {p} /\ overflow' = overflow /\ queueVersion' = queueVersion + 1
    BY <1>5 DEF Enqueue
  <2>4. paths' # {}
    BY <2>3
  <2> QED
    BY <2>2, <2>3, <2>4 DEF TypeOK, QueueOK, Pending
<1>6. CASE ~(p \in paths \/ Cardinality(paths) < QueueSize)
  BY <1>6 DEF Enqueue, TypeOK, QueueOK, Pending
<1> QED
  BY <1>5, <1>6

LEMMA QueueUnchanged == QueueOK /\ UNCHANGED queue => QueueOK'
BY DEF QueueOK, queue

LEMMA EmptyFits == Cardinality({}) <= QueueSize
<1>1. Cardinality({}) = 0
  BY FS_EmptySet
<1>2. QueueSize \in Nat
  BY ConstantsAssumption
<1> QED
  BY <1>1, <1>2

LEMMA NotifyType ==
    ASSUME TypeOK, NEW d, NEW e \in Event, Notify(d, e)
    PROVE  events' \in Seq(Event)
<1>1. [op |-> "overflow"] \in Event
  BY DEF Event
<1> QED
  BY <1>1 DEF Notify, TypeOK

LEMMA TypeInit == Init => TypeOK
<1> SUFFICES ASSUME Init PROVE TypeOK
  OBVIOUS
<1>1. QueueOK
  BY EmptyFits DEF Init, QueueOK
<1>2. dirs \subseteq Dirs /\ content \in [Files -> Nat]
  BY DEF Init
<1>3. events \in Seq(Event)
  BY DEF Init
<1> QED
  BY <1>1, <1>2, <1>3 DEF Init, TypeOK, Nothing, Timer, Labels

\* What a scan leaves in the index has its type.
LEMMA StoreType == TypeOK /\ StoreIndex => index' \in [Files -> Nat] /\ hasIndex' \in BOOLEAN
BY DEF TypeOK, StoreIndex

LEMMA TypeStep == TypeOK /\ [Next]_vars => TypeOK'
<1> SUFFICES ASSUME TypeOK, [Next]_vars
             PROVE  TypeOK'
  OBVIOUS
<1>0. (UNCHANGED queue => QueueOK') /\ queueVersion \in Nat
  BY QueueUnchanged DEF TypeOK, QueueOK
<1> USE <1>0 DEF disk, kernel, loop, scan, Timer, Labels, Nothing
<1>1. ASSUME NEW f \in Files, Edit(f) \/ Remove(f)
      PROVE  TypeOK'
  <2>1. events' \in Seq(Event)
    BY <1>1, NotifyType DEF Edit, Remove, Event
  <2>2. content' \in [Files -> Nat] /\ edits' \in Nat
    <3>1. content \in [Files -> Nat] /\ edits \in Nat
      BY DEF TypeOK
    <3>2. CASE Edit(f)
      BY <3>1, <3>2 DEF Edit, NewContent
    <3>3. CASE Remove(f)
      BY <3>1, <3>3 DEF Remove
    <3> QED
      BY <1>1, <3>2, <3>3
  <2>3. UNCHANGED <<dirs, ignored, ignoreEdits, watched, index, hasIndex, pc, loop, scan, fails>>
    BY <1>1 DEF Edit, Remove
  <2> QED
    BY <2>1, <2>2, <2>3 DEF TypeOK
<1>2. ASSUME NEW d \in Dirs, Mkdir(d)
      PROVE  TypeOK'
  <2>1. events' \in Seq(Event)
    BY <1>2, NotifyType DEF Mkdir, Event
  <2>2. content' \in [Files -> Nat]
    BY <1>2 DEF Mkdir, NewContent, TypeOK
  <2> QED
    BY <1>2, <2>1, <2>2 DEF Mkdir, TypeOK
<1>3. ASSUME NEW d \in Dirs, EditIgnore(d)
      PROVE  TypeOK'
  <2>1. events' \in Seq(Event)
    BY <1>3, NotifyType DEF EditIgnore, Event
  <2> QED
    BY <1>3, <2>1 DEF EditIgnore, TypeOK
<1>4. CASE StartFails
  <2>1. CASE pc = "start"
    BY <1>4, <2>1 DEF StartFails, Fail, TypeOK
  <2>2. CASE pc = "force"
    BY <1>4, <2>2, StoreType DEF StartFails, RefreshFails, Fail, TypeOK
  <2> QED
    BY <1>4, <2>1, <2>2 DEF StartFails
<1>5. CASE FallBack
  BY <1>5 DEF FallBack, Fail, TypeOK
<1>6. CASE ScanFails
  BY <1>6, StoreType DEF ScanFails, RefreshFails, Fail, TypeOK
<1>7. CASE PollFails
  BY <1>7, StoreType DEF PollFails, RefreshFails, Fail, TypeOK
<1>23. CASE PollLoadFails
  BY <1>23 DEF PollLoadFails, BeginScan, Fail, TypeOK
<1>8. CASE Cancel \/ DebounceElapses \/ RetryElapses
  BY <1>8 DEF Cancel, DebounceElapses, RetryElapses, TypeOK
<1>9. CASE Start
  <2>1. CASE hasIndex
    BY <1>9, <2>1, ConstantsAssumption DEF Start, BeginWalk, TypeOK
  <2>2. CASE ~hasIndex
    BY <1>9, <2>2 DEF Start, BeginScan, TypeOK
  <2> QED
    BY <2>1, <2>2
<1>10. CASE ForceDone
  BY <1>10, StoreType, ConstantsAssumption DEF ForceDone, ScanDone, BeginWalk, TypeOK
<1>11. CASE FirstRefresh
  BY <1>11 DEF FirstRefresh, BeginScan, TypeOK
<1>24. CASE Tick
  BY <1>24 DEF Tick, BeginScan, TypeOK
<1>12. CASE RefreshDone
  <2>1. QueueOK' /\ dirtyAt' \in Timer
    <3>1. CASE Committed
      <4>1. paths' = {} /\ overflow' = FALSE /\ queueVersion' \in Nat
        BY <1>12, <3>1 DEF RefreshDone, Clear, TypeOK, QueueOK
      <4> QED
        BY <1>12, <3>1, <4>1, EmptyFits DEF RefreshDone, QueueOK
    <3>2. CASE ~Committed
      BY <1>12, <3>2 DEF RefreshDone, TypeOK
    <3> QED
      BY <3>1, <3>2
  <2> QED
    BY <1>12, <2>1, StoreType DEF RefreshDone, ScanDone, CycleDone, TypeOK
<1>13. ASSUME NEW f \in Files, ScanFile(f)
       PROVE  TypeOK'
  BY <1>13 DEF ScanFile, TypeOK
<1>14. ASSUME NEW d \in Dirs, AddWatch(d) \/ ListDir(d)
       PROVE  TypeOK'
  BY <1>14 DEF AddWatch, ListDir, Fail, TypeOK
<1>15. ASSUME TakeEvent
       PROVE  events' \in Seq(Event) /\ Head(events) \in Event
  BY <1>15 DEF TakeEvent, TypeOK
<1>16. CASE IgnoredEvent
  BY <1>15, <1>16 DEF IgnoredEvent, TakeEvent, TypeOK
<1>17. CASE FileEvent
  <2>1. PICK p \in Path : Enqueue(p)
    BY <1>15, <1>17 DEF FileEvent, Event, Path
  <2> QED
    BY <1>15, <1>17, <2>1, EnqueueType DEF FileEvent, TakeEvent, TypeOK
<1>18. CASE DirEvent \/ WatcherError
  <2>1. watched' \subseteq Dirs
    BY <1>15, <1>18 DEF DirEvent, WatcherError, Event, TypeOK
  <2>2. QueueOK'
    <3>1. paths' = paths /\ overflow' = TRUE /\ queueVersion' \in Nat
      BY <1>18 DEF DirEvent, WatcherError, EnqueueAll
    <3> QED
      BY <3>1 DEF TypeOK, QueueOK
  <2>3. TakeEvent /\ dirtyAt' = "recent"
    BY <1>18 DEF DirEvent, WatcherError
  <2>4. fails' \in Nat
    <3>1. fails \in Nat
      BY DEF TypeOK
    <3>2. fails' = fails \/ fails' = fails + 1
      BY <1>18 DEF DirEvent, WatcherError, Fail
    <3> QED
      BY ONLY <3>1, <3>2
  <2>5. UNCHANGED <<disk, index, hasIndex, pc, policy, retryAt, retryCount, cycles, scan>>
    BY <2>3 DEF TakeEvent
  <2>6. events' \in Seq(Event)
    BY <1>15, <2>3
  <2>7. dirtyAt' \in Timer
    BY <2>3
  <2> QED
    BY ONLY <2>1, <2>2, <2>4, <2>5, <2>6, <2>7, TypeOK DEF TypeOK, disk, scan
<1>19. CASE PollFresh \/ PollDirty
  BY <1>19 DEF PollFresh, PollDirty, CycleDone, TypeOK
<1>20. CASE PollRefresh
  BY <1>20 DEF PollRefresh, BeginScan, TypeOK
<1>21. CASE PollDone
  BY <1>21, StoreType DEF PollDone, ScanDone, CycleDone, TypeOK
<1>22. CASE UNCHANGED vars
  BY <1>22 DEF vars, TypeOK
<1> QED
  BY <1>1, <1>2, <1>3, <1>4, <1>5, <1>6, <1>7, <1>8, <1>9, <1>10, <1>11, <1>12, <1>13,
     <1>14, <1>16, <1>17, <1>18, <1>19, <1>20, <1>21, <1>22, <1>23, <1>24 DEF Next, Environment, Run

\* The watcher's state keeps its type, and the refresh queue never holds more
\* than QueueSize paths, whatever events arrive and whichever refreshes fail.
THEOREM TypeCorrect == Spec => []TypeOK
BY TypeInit, TypeStep, PTL DEF Spec

-----------------------------------------------------------------------------
(* Directories that exist, and the overflow marker.                        *)

\* What an event sent to d's watch leaves in the kernel's queue.
LEMMA NotifyEffect ==
    ASSUME TypeOK, OverflowInv, NEW d \in Dirs, NEW e \in Event, Notify(d, e)
    PROVE  /\ \A c \in Files : Reported(c) => Reported(c)'
           /\ d \in watched => \A c \in Files : Reports(e, c) => Reported(c)'
           /\ OverflowInv'
           /\ \A i \in 1 .. Len(events') :
                 \/ i \in 1 .. Len(events) /\ events'[i] = events[i]
                 \/ events'[i] = e
                 \/ events'[i] = [op |-> "overflow"]
<1>1. events \in Seq(Event) /\ KernelQueue \in Nat /\ [op |-> "overflow"] \in Event
  BY ConstantsAssumption DEF TypeOK, Event
<1>2. CASE events' = events /\ d \notin watched
  BY <1>1, <1>2 DEF Reported, ReportedIn, OverflowInv
<1>3. CASE events' = events /\ Len(events) > KernelQueue
  <2>1. PICK i \in 1 .. Len(events) : events[i].op = "overflow"
    BY <1>1, <1>3 DEF OverflowInv
  <2> QED
    BY <1>1, <1>3, <2>1 DEF Reported, ReportedIn, Reports, OverflowInv
<1>4. ASSUME NEW x \in Event, events' = Append(events, x)
      PROVE  /\ Len(events') = Len(events) + 1
             /\ events'[Len(events) + 1] = x
             /\ \A i \in 1 .. Len(events) : events'[i] = events[i]
             /\ \A c \in Files : Reported(c) => Reported(c)'
             /\ \A c \in Files : Reports(x, c) => Reported(c)'
  <2>1. /\ Len(events') = Len(events) + 1
        /\ events'[Len(events) + 1] = x
        /\ \A i \in 1 .. Len(events) : events'[i] = events[i]
    BY <1>1, <1>4
  <2>2. Len(events) \in Nat
    BY <1>1
  <2> QED
    BY <2>1, <2>2 DEF Reported, ReportedIn
<1>5. CASE Len(events) < KernelQueue /\ events' = Append(events, e)
  BY <1>1, <1>4, <1>5 DEF OverflowInv
<1>6. CASE Len(events) = KernelQueue /\ events' = Append(events, [op |-> "overflow"])
  <2>1. \A c \in Files : Reports([op |-> "overflow"], c)
    BY DEF Reports
  <2> QED
    BY <1>1, <1>4, <1>6, <2>1 DEF OverflowInv
<1>7. \/ events' = events /\ d \notin watched
      \/ Len(events) < KernelQueue /\ events' = Append(events, e)
      \/ Len(events) = KernelQueue /\ events' = Append(events, [op |-> "overflow"])
      \/ events' = events /\ ~(Len(events) < KernelQueue) /\ Len(events) # KernelQueue
  BY DEF Notify
<1>8. ~(Len(events) < KernelQueue) /\ Len(events) # KernelQueue => Len(events) > KernelQueue
  BY ONLY <1>1
<1> QED
  BY <1>2, <1>3, <1>5, <1>6, <1>7, <1>8

\* Taking an event leaves the others where the loop will find them.
LEMMA TakeEffect ==
    ASSUME TypeOK, OverflowInv, TakeEvent
    PROVE  /\ OverflowInv'
           /\ \A c \in Files : Reported(c) => Reported(c)' \/ Reports(Head(events), c)
           /\ \A i \in 1 .. Len(events') : i + 1 \in 1 .. Len(events) /\ events'[i] = events[i + 1]
           /\ 1 \in 1 .. Len(events) /\ Head(events) = events[1]
<1>1. events \in Seq(Event) /\ KernelQueue \in Nat /\ events # << >> /\ events' = Tail(events)
  BY ConstantsAssumption DEF TypeOK, TakeEvent
<1>2. /\ Len(events) \in Nat /\ Len(events) > 0
      /\ Len(events') = Len(events) - 1
      /\ Head(events) = events[1]
      /\ \A i \in 1 .. Len(events') : events'[i] = events[i + 1]
  BY <1>1
<1>3. ASSUME NEW c \in Files, NEW i \in 1 .. Len(events), Reports(events[i], c)
      PROVE  Reported(c)' \/ Reports(Head(events), c)
  <2>1. CASE i = 1
    BY <1>2, <1>3, <2>1
  <2>2. CASE i # 1
    <3>1. i - 1 \in 1 .. Len(events') /\ events'[i - 1] = events[i]
      BY <1>2, <2>2
    <3> QED
      BY <1>3, <3>1 DEF Reported, ReportedIn
  <2> QED
    BY <2>1, <2>2
<1>4. OverflowInv'
  <2>1. KernelQueue \in Nat /\ Len(events) <= KernelQueue + 1
    BY ConstantsAssumption DEF OverflowInv
  <2>2. Len(events') \in Nat /\ Len(events') <= KernelQueue
    <3>1. \A m, n, k \in Nat : m <= k + 1 /\ n = m - 1 => n <= k
      OBVIOUS
    <3>2. Len(events') \in Nat
      BY <1>1
    <3> QED
      BY <1>2, <2>1, <3>1, <3>2
  <2>3. Len(events') <= KernelQueue + 1 /\ Len(events') # KernelQueue + 1
    BY <2>1, <2>2
  <2> QED
    BY <2>3 DEF OverflowInv
<1>5. \A c \in Files : Reported(c) => Reported(c)' \/ Reports(Head(events), c)
  BY <1>3 DEF Reported, ReportedIn
<1>6. \A i \in 1 .. Len(events') : i + 1 \in 1 .. Len(events) /\ events'[i] = events[i + 1]
  BY <1>2
<1>7. 1 \in 1 .. Len(events) /\ Head(events) = events[1]
  BY ONLY <1>2
<1> QED
  BY ONLY <1>4, <1>5, <1>6, <1>7

\* The invariants about existence and overflow at the start.
LEMMA ExistsInit == Init => ExistsInv /\ OverflowInv
<1> SUFFICES ASSUME Init PROVE ExistsInv /\ OverflowInv
  OBVIOUS
<1>1. /\ events = << >> /\ Len(events) = 0
      /\ watched = {} /\ walk = {} /\ adding = {} /\ Root \in dirs
  BY DEF Init
<1>2. KernelQueue \in Nat
  BY ConstantsAssumption
<1> QED
  BY <1>1, <1>2 DEF ExistsInv, OverflowInv

\* A change told to the watch of directory d as event e keeps both invariants: no
\* directory goes away.
LEMMA ExistsEdit ==
    ASSUME TypeOK, ExistsInv, OverflowInv, NEW d \in Dirs, NEW e \in Event, Notify(d, e),
           dirs \subseteq dirs',
           e.op = "create" => e.dir \in dirs',
           UNCHANGED <<watched, walk, adding>>
    PROVE  ExistsInv' /\ OverflowInv'
<1>1. OverflowInv' /\ \A i \in 1 .. Len(events') :
          \/ i \in 1 .. Len(events) /\ events'[i] = events[i]
          \/ events'[i] = e
          \/ events'[i] = [op |-> "overflow"]
  BY NotifyEffect
<1>2. ASSUME NEW i \in 1 .. Len(events'), events'[i].op = "create"
      PROVE  events'[i].dir \in dirs'
  <2>1. CASE i \in 1 .. Len(events) /\ events'[i] = events[i]
    BY <1>2, <2>1 DEF ExistsInv
  <2>2. CASE events'[i] = e
    BY <1>2, <2>2
  <2>3. CASE events'[i] = [op |-> "overflow"]
    BY <1>2, <2>3
  <2> QED
    BY <1>1, <2>1, <2>2, <2>3
<1>3. Root \in dirs' /\ watched' \subseteq dirs' /\ walk' \subseteq dirs' /\ adding' \subseteq dirs'
  BY DEF ExistsInv
<1> QED
  BY <1>1, <1>2, <1>3 DEF ExistsInv

\* The existence and overflow invariants are inductive.
LEMMA ExistsStep ==
    ASSUME TypeOK, ExistsInv, OverflowInv, [Next]_vars
    PROVE  ExistsInv' /\ OverflowInv'
<1> USE DEF disk, kernel, loop, scan, queue
<1>1. ASSUME NEW f \in Files, Edit(f) \/ Remove(f)
      PROVE  ExistsInv' /\ OverflowInv'
  <2>1. [op |-> "file", file |-> f] \in Event /\ DirOf[f] \in Dirs
    BY ConstantsAssumption DEF Event
  <2>2. Notify(DirOf[f], [op |-> "file", file |-> f]) /\ UNCHANGED <<dirs, watched, walk, adding>>
    BY <1>1 DEF Edit, Remove
  <2> QED
    BY <2>1, <2>2, ExistsEdit
<1>2. ASSUME NEW d \in Dirs, Mkdir(d)
      PROVE  ExistsInv' /\ OverflowInv'
  <2>1. [op |-> "create", dir |-> d] \in Event /\ Parent[d] \in Dirs
    BY <1>2, ConstantsAssumption DEF Event, Mkdir
  <2>2. Notify(Parent[d], [op |-> "create", dir |-> d]) /\ UNCHANGED <<watched, walk, adding>>
    BY <1>2 DEF Mkdir
  <2>3. dirs \subseteq dirs' /\ d \in dirs'
    BY <1>2 DEF Mkdir
  <2> QED
    BY <2>1, <2>2, <2>3, ExistsEdit
<1>3. ASSUME NEW d \in Dirs, EditIgnore(d)
      PROVE  ExistsInv' /\ OverflowInv'
  <2>1. [op |-> "ignore"] \in Event /\ Root \in Dirs
    BY ConstantsAssumption DEF Event
  <2> QED
    BY <1>3, <2>1, ExistsEdit DEF EditIgnore
<1>4. ASSUME UNCHANGED <<dirs, watched, events>>,
             walk' \subseteq walk \cup {Root}, adding' \subseteq adding \cup {Root}
      PROVE  ExistsInv' /\ OverflowInv'
  BY <1>4 DEF ExistsInv, OverflowInv
<1>5. CASE StartFails \/ ScanFails \/ PollFails
  BY <1>4, <1>5 DEF StartFails, ScanFails, PollFails, RefreshFails
<1>15. CASE FallBack \/ PollLoadFails \/ Cancel
  BY <1>4, <1>15 DEF FallBack, PollLoadFails, BeginScan, Cancel
<1>6. CASE Start \/ ForceDone
  BY <1>4, <1>6 DEF Start, ForceDone, BeginScan, BeginWalk
<1>16. CASE FirstRefresh \/ Tick
  BY <1>4, <1>16 DEF FirstRefresh, Tick, BeginScan
<1>7. CASE RefreshDone \/ PollFresh \/ PollDone
  BY <1>4, <1>7 DEF RefreshDone, PollFresh, PollDone
<1>8. CASE PollDirty \/ PollRefresh
  BY <1>4, <1>8 DEF PollDirty, PollRefresh, BeginScan
<1>9. ASSUME NEW f \in Files, ScanFile(f)
      PROVE  ExistsInv' /\ OverflowInv'
  BY <1>4, <1>9 DEF ScanFile
<1>10. ASSUME NEW d \in Dirs, AddWatch(d) \/ ListDir(d)
       PROVE  ExistsInv' /\ OverflowInv'
  BY <1>10 DEF AddWatch, ListDir, ExistsInv, OverflowInv
<1>11. ASSUME TakeEvent, watched' \subseteq watched \cup
                 IF Head(events).op = "create" THEN {Head(events).dir} ELSE {}
       PROVE  ExistsInv' /\ OverflowInv'
  <2>1. /\ OverflowInv'
        /\ \A i \in 1 .. Len(events') : i + 1 \in 1 .. Len(events) /\ events'[i] = events[i + 1]
        /\ 1 \in 1 .. Len(events) /\ Head(events) = events[1]
    BY <1>11, TakeEffect
  <2>2. UNCHANGED <<dirs, walk, adding>>
    BY <1>11 DEF TakeEvent
  <2>3. watched' \subseteq dirs
    BY <1>11, <2>1 DEF ExistsInv
  <2>4. \A i \in 1 .. Len(events') : events'[i].op = "create" => events'[i].dir \in dirs
    BY <2>1 DEF ExistsInv
  <2> QED
    BY <2>1, <2>2, <2>3, <2>4 DEF ExistsInv
<1>12. CASE IgnoredEvent \/ FileEvent \/ WatcherError
  BY <1>11, <1>12 DEF IgnoredEvent, FileEvent, WatcherError
<1>13. CASE DirEvent
  BY <1>11, <1>13 DEF DirEvent
<1>14. CASE DebounceElapses \/ RetryElapses \/ UNCHANGED vars
  BY <1>14 DEF DebounceElapses, RetryElapses, vars, ExistsInv, OverflowInv
<1> QED
  BY <1>1, <1>2, <1>3, <1>5, <1>6, <1>7, <1>8, <1>9, <1>10, <1>12, <1>13, <1>14, <1>15, <1>16
     DEF Next, Environment, Run

-----------------------------------------------------------------------------
(* No change of a file in a watched directory is lost.                     *)

\* A step of the environment: what the loop and the refresh hold stays, and a
\* file that changes is reported.
LEMMA TrackKept ==
    ASSUME TrackInv,
           UNCHANGED <<watched, policy, pc, cycles, paths, overflow, todo, got, index>>,
           \A c \in Observed : \/ Reported(c)'
                               \/ Wanted(c)' = Wanted(c) /\ (Reported(c) => Reported(c)')
    PROVE  TrackInv'
<1>1. Observed' = Observed /\ Pending' = Pending
  BY DEF Observed, Pending
<1>2. ChangeTracked'
  <2> SUFFICES ASSUME pc = "select", cycles > 0, NEW c \in Observed, Stale(c)'
               PROVE  Pending \/ Reported(c)'
    BY <1>1 DEF ChangeTracked
  <2>1. CASE Wanted(c)' = Wanted(c) /\ (Reported(c) => Reported(c)')
    <3>1. Stale(c)
      BY <2>1 DEF Stale
    <3> QED
      BY <2>1, <3>1 DEF TrackInv, ChangeTracked
  <2> QED
    BY <2>1
<1>3. ASSUME pc = "scan", NEW c \in Observed, c \notin todo, Wanted(c)' # 0, got[c] # Wanted(c)'
      PROVE  Reported(c)'
  BY <1>3 DEF TrackInv
<1> QED
  BY <1>1, <1>2, <1>3 DEF TrackInv

\* A step to a label where neither a change nor a refresh is tracked.
LEMMA TrackElsewhere ==
    ASSUME pc' \notin {"scan", "select"},
           pc' \in {"start", "force", "watch"} => cycles' = 0
    PROVE  TrackInv'
BY DEF TrackInv, ChangeTracked

\* A refresh begins: it has yet to read every file that counts.
LEMMA TrackBegin ==
    ASSUME TypeOK, BeginScan("scan"), UNCHANGED <<content, ignored, watched>>,
           cycles' > 0 => Pending'
    PROVE  TrackInv'
<1>1. pc' = "scan" /\ todo' = {f \in Files : DirOf[f] \notin ignored}
  BY DEF BeginScan
<1>2. \A f \in Files : f \notin todo' => Wanted(f)' = 0
  BY <1>1 DEF Wanted
<1>3. Observed' \subseteq Files
  BY DEF Observed, TypeOK
<1> QED
  BY <1>1, <1>2, <1>3 DEF TrackInv, ChangeTracked

\* The end of a successful refresh: what it read of a file is what the
\* index holds, whether or not it was saved, or the change since is reported.
LEMMA TrackDone ==
    ASSUME TypeOK, TrackInv, RefreshDone
    PROVE  TrackInv'
<1> USE DEF disk, kernel, loop, scan, queue
<1>1. /\ pc = "scan" /\ todo = {} /\ pc' \in {"select", "stopped"}
      /\ UNCHANGED <<content, ignored, watched, events, policy>>
      /\ index' = got \/ (~Wrote /\ index' = index)
  BY DEF RefreshDone, ScanDone, StoreIndex, CycleDone
<1>2. Observed' = Observed /\ Observed \subseteq Files
  BY <1>1 DEF Observed, TypeOK
<1>3. ASSUME NEW c \in Observed, Wanted(c) # 0, index'[c] # Wanted(c)
      PROVE  Reported(c)
  <2>1. CASE got[c] = Wanted(c)
    <3>1. CASE index' = got
      BY <1>3, <2>1, <3>1
    <3>2. CASE ~Wrote /\ index' = index
      BY <1>2, <1>3, <2>1, <3>2 DEF Wrote
    <3> QED
      BY <1>1, <3>1, <3>2
  <2>2. CASE got[c] # Wanted(c)
    BY <1>1, <1>3, <2>2 DEF TrackInv
  <2> QED
    BY <2>1, <2>2
<1>4. \A c \in Observed : Wanted(c)' = Wanted(c) /\ Reported(c)' = Reported(c)
  BY <1>1 DEF Wanted, Reported
<1>5. ChangeTracked'
  BY <1>2, <1>3, <1>4 DEF ChangeTracked, Stale
<1> QED
  BY <1>1, <1>5 DEF TrackInv

\* TrackInv is inductive, relative to the invariants before it.
LEMMA TrackStep ==
    ASSUME TypeOK, ExistsInv, OverflowInv, TrackInv, [Next]_vars
    PROVE  TrackInv'
<1> USE DEF disk, kernel, loop, scan, queue
<1>0. /\ Observed \subseteq Files /\ \A c \in Observed : DirOf[c] \in watched
      /\ Observed # {} => Root \in watched
  BY DEF Observed, TypeOK
<1>1. ASSUME NEW f \in Files, Edit(f) \/ Remove(f)
      PROVE  TrackInv'
  <2> DEFINE e == [op |-> "file", file |-> f]
  <2>1. e \in Event /\ Reports(e, f) /\ DirOf[f] \in Dirs
    BY ConstantsAssumption DEF Event, Reports
  <2>2. Notify(DirOf[f], e) /\ UNCHANGED <<watched, policy, pc, cycles, paths, overflow, todo, got, index>>
    BY <1>1 DEF Edit, Remove
  <2> HIDE DEF e
  <2>3. (\A c \in Files : Reported(c) => Reported(c)') /\ (DirOf[f] \in watched => Reported(f)')
    BY <2>1, <2>2, NotifyEffect
  <2>4. \A c \in Files : c # f => Wanted(c)' = Wanted(c)
    BY <1>1 DEF Edit, Remove, Wanted, TypeOK
  <2> QED
    BY <1>0, <2>2, <2>3, <2>4, TrackKept
<1>2. ASSUME NEW d \in Dirs, Mkdir(d)
      PROVE  TrackInv'
  <2> DEFINE e == [op |-> "create", dir |-> d]
  <2>1. e \in Event /\ Parent[d] \in Dirs
    BY <1>2, ConstantsAssumption DEF Event, Mkdir
  <2>2. Notify(Parent[d], e) /\ UNCHANGED <<watched, policy, pc, cycles, paths, overflow, todo, got, index>>
    BY <1>2 DEF Mkdir
  <2> HIDE DEF e
  <2>3. \A c \in Files : Reported(c) => Reported(c)'
    BY <2>1, <2>2, NotifyEffect
  <2>4. \A c \in Files : DirOf[c] # d => Wanted(c)' = Wanted(c)
    BY <1>2 DEF Mkdir, Wanted
  <2>5. d \notin watched
    BY <1>2 DEF Mkdir, ExistsInv
  <2> QED
    BY <1>0, <2>2, <2>3, <2>4, <2>5, TrackKept
<1>3. ASSUME NEW d \in Dirs, EditIgnore(d)
      PROVE  TrackInv'
  <2>1. [op |-> "ignore"] \in Event /\ Root \in Dirs /\ \A c \in Files : Reports([op |-> "ignore"], c)
    BY ConstantsAssumption DEF Event, Reports
  <2>2. Root \in watched => \A c \in Files : Reported(c)'
    BY <1>3, <2>1, NotifyEffect DEF EditIgnore
  <2>3. UNCHANGED <<watched, policy, pc, cycles, paths, overflow, todo, got, index>>
    BY <1>3 DEF EditIgnore
  <2> QED
    BY <1>0, <2>2, <2>3, TrackKept
<1>4. CASE StartFails \/ FallBack \/ Cancel
  BY <1>4, TrackElsewhere DEF StartFails, FallBack, Cancel
<1>5. CASE PollFails \/ PollLoadFails \/ PollDirty \/ PollRefresh
  BY <1>5, TrackElsewhere DEF PollFails, PollLoadFails, PollDirty, PollRefresh, BeginScan
<1>6. CASE PollFresh \/ PollDone
  BY <1>6, TrackElsewhere DEF PollFresh, PollDone, CycleDone
<1>7. CASE Start \/ ForceDone
  <2>1. pc \in {"start", "force"} /\ pc' \in {"watch", "force"} /\ cycles' = cycles
    <3>1. CASE Start
      BY <3>1 DEF Start, BeginScan
    <3>2. CASE ForceDone
      BY <3>2 DEF ForceDone, loop
    <3> QED
      BY ONLY <1>7, <3>1, <3>2
  <2>2. cycles = 0
    BY <2>1 DEF TrackInv
  <2> QED
    BY <2>1, <2>2, TrackElsewhere
<1>8. CASE FirstRefresh
  <2>1. /\ pc = "watch" /\ BeginScan("scan") /\ cycles' = cycles
        /\ UNCHANGED <<content, ignored, watched>>
    BY <1>8 DEF FirstRefresh
  <2>2. cycles = 0
    BY <2>1 DEF TrackInv
  <2>3. ~(cycles' > 0)
    BY ONLY <2>1, <2>2
  <2> QED
    BY <2>1, <2>3, TrackBegin
<1>9. CASE Tick
  <2>1. Pending'
    BY <1>9 DEF Tick, Pending
  <2> QED
    BY <1>9, <2>1, TrackBegin DEF Tick
<1>10. CASE ScanFails
  <2>1. pc = "scan" /\ pc' = "select" /\ cycles' = cycles /\ Pending' = Pending
    BY <1>10 DEF ScanFails, Pending
  <2> QED
    BY <2>1 DEF TrackInv, ChangeTracked
<1>11. CASE RefreshDone
  BY <1>11, TrackDone
<1>12. ASSUME NEW d \in Files, ScanFile(d)
       PROVE  TrackInv'
  <2>1. /\ UNCHANGED <<content, ignored, watched, events, policy, pc, cycles, paths, overflow, index>>
        /\ todo' = todo \ {d} /\ got' = [got EXCEPT ![d] = content[d]]
        /\ pc \in {"force", "scan", "pollScan"}
    BY <1>12 DEF ScanFile
  <2>2. Observed' = Observed /\ Pending' = Pending
    BY <2>1 DEF Observed, Pending
  <2>3. \A c \in Files : Wanted(c)' = Wanted(c) /\ Reported(c)' = Reported(c)
    BY <2>1 DEF Wanted, Reported
  <2>4. ASSUME pc = "scan", NEW c \in Observed, c \notin todo', Wanted(c) # 0, got'[c] # Wanted(c)
        PROVE  Reported(c)
    <3>1. c # d
      BY <1>0, <2>1, <2>4 DEF Wanted, TypeOK
    <3> QED
      BY <1>0, <2>1, <2>4, <3>1 DEF TrackInv, TypeOK
  <2> QED
    BY <1>0, <2>1, <2>2, <2>3, <2>4 DEF TrackInv, ChangeTracked
<1>13. ASSUME NEW d \in Dirs, AddWatch(d) \/ ListDir(d)
       PROVE  TrackInv'
  BY <1>13, TrackElsewhere DEF AddWatch, ListDir, TrackInv
<1>14. CASE IgnoredEvent
  <2>1. \A c \in Files : Reported(c) => Reported(c)' \/ Reports(Head(events), c)
    BY <1>14, TakeEffect DEF IgnoredEvent
  <2>2. \A c \in Observed : ~Reports(Head(events), c)
    BY <1>14 DEF IgnoredEvent, Reports, Observed
  <2>3. UNCHANGED <<watched, policy, pc, cycles, paths, overflow, todo, got, index, content, ignored>>
    BY <1>14 DEF IgnoredEvent, TakeEvent
  <2>4. \A c \in Observed : Wanted(c)' = Wanted(c)
    BY <2>3 DEF Wanted
  <2> QED
    BY <1>0, <2>1, <2>2, <2>3, <2>4, TrackKept
<1>15. ASSUME TakeEvent, Pending'
       PROVE  TrackInv'
  BY <1>15 DEF TakeEvent, TrackInv, ChangeTracked
<1>16. CASE FileEvent
  <2>1. Head(events) \in Event
    <3>1. events # << >> /\ events \in Seq(Event)
      BY <1>16 DEF FileEvent, TakeEvent, TypeOK
    <3> QED
      BY ONLY <3>1
  <2>2. PICK p \in Path : Enqueue(p)
    BY <1>16, <2>1 DEF FileEvent, Event, Path
  <2> QED
    BY <1>15, <1>16, <2>2, EnqueueType DEF FileEvent
<1>17. CASE DirEvent \/ WatcherError
  BY <1>15, <1>17 DEF DirEvent, WatcherError, EnqueueAll, Pending
<1>18. CASE DebounceElapses \/ RetryElapses \/ UNCHANGED vars
  <2>1. UNCHANGED <<watched, policy, pc, cycles, paths, overflow, todo, got, index, content, ignored, events>>
    BY <1>18 DEF DebounceElapses, RetryElapses, vars
  <2>2. \A c \in Observed : Wanted(c)' = Wanted(c) /\ Reported(c)' = Reported(c)
    BY <2>1 DEF Wanted, Reported
  <2> QED
    BY <2>1, <2>2, TrackKept
<1> QED
  BY <1>1, <1>2, <1>3, <1>4, <1>5, <1>6, <1>7, <1>8, <1>9, <1>10, <1>11, <1>12, <1>13,
     <1>14, <1>16, <1>17, <1>18 DEF Next, Environment, Run

LEMMA TrackInit == Init => TrackInv
BY DEF Init, TrackInv, ChangeTracked

\* Once a refresh of WatchFS has succeeded, no change of a file in a directory it
\* watches is lost before the index has the file as it is: not by events that arrive
\* during a refresh, nor by refreshes that fail, nor by a refresh that is not saved
\* because it found nothing but losses, nor by the bounds of either queue.
THEOREM NoLostChange == Spec => []ChangeTracked
<1> DEFINE IInv == TypeOK /\ ExistsInv /\ OverflowInv /\ TrackInv
<1>1. Init => IInv
  BY TypeInit, ExistsInit, TrackInit
<1>2. IInv /\ [Next]_vars => IInv'
  BY TypeStep, ExistsStep, TrackStep
<1>3. IInv => ChangeTracked
  BY DEF TrackInv
<1> QED
  BY <1>1, <1>2, <1>3, PTL DEF Spec

-----------------------------------------------------------------------------
(* The gardener.                                                           *)

IInv == GTypeOK /\ LeaseExclusive /\ ReceiptAgrees

\* The two parts of LeaseExclusive.
OneHolder ==
    \A p, q \in Procs : \A t \in tasks[p], u \in tasks[q] :
        t.job = u.job /\ ~t.late /\ ~u.late => p = q /\ t = u
HeldLeased ==
    \A j \in Jobs : Held(j) /\ status[j] \notin Terminal => status[j] = "leased" /\ j \notin expired

LEMMA InitIInv ==
  ASSUME GConstants
  PROVE  GInit => IInv
  <1> SUFFICES ASSUME GInit PROVE IInv
    OBVIOUS
  <1>1. GTypeOK
    BY DEF GInit, GTypeOK, Statuses
  <1>2. LeaseExclusive
    BY DEF GInit, LeaseExclusive, Held, Holds
  <1>3. ReceiptAgrees
    BY DEF GConstants, GInit, ReceiptAgrees, Terminal
  <1> QED
    BY <1>1, <1>2, <1>3 DEF IInv

\* A step after which every task without a lapsed lease was there before, for
\* the same job and in the same process, keeps leases exclusive.
LEMMA HoldersKept ==
  ASSUME OneHolder, tasks' \in [Procs -> SUBSET Task], tasks \in [Procs -> SUBSET Task],
         NEW q \in Procs,
         \A p \in Procs : p # q => \A t \in tasks'[p] : ~t.late => t \in tasks[p],
         \A t, u \in tasks'[q] : t.job = u.job /\ ~t.late /\ ~u.late => t = u,
         \A t \in tasks'[q] : ~t.late => \E u \in tasks[q] : u.job = t.job /\ ~u.late
  PROVE  OneHolder'
  <1> SUFFICES ASSUME NEW p \in Procs, NEW o \in Procs, NEW t \in tasks'[p], NEW u \in tasks'[o],
                      t.job = u.job, ~t.late, ~u.late
               PROVE  p = o /\ t = u
    BY DEF OneHolder
  <1>1. \E v \in tasks[p] : v.job = t.job /\ ~v.late
    OBVIOUS
  <1>2. \E v \in tasks[o] : v.job = u.job /\ ~v.late
    OBVIOUS
  <1>3. p = o
    BY <1>1, <1>2 DEF OneHolder
  <1>4. CASE p = q
    BY <1>3, <1>4
  <1>5. CASE p # q
    BY <1>3, <1>5 DEF OneHolder
  <1> QED
    BY <1>3, <1>4, <1>5

WarmTypes ==
    /\ sidecars \in [Procs -> SUBSET Jobs] /\ dirty \in [Procs -> SUBSET Jobs]
    /\ files \subseteq Jobs /\ lost \subseteq Jobs

LEMMA SameWarm ==
  ASSUME GTypeOK, UNCHANGED warm
  PROVE  WarmTypes'
  BY DEF GTypeOK, WarmTypes, warm

\* flushSidecarsLocked writes what is in memory and marked, or names it lost.
LEMMA WriteFacts ==
  ASSUME GTypeOK, NEW p \in Procs, NEW M \in SUBSET Jobs, NEW D \in SUBSET Jobs, WriteSidecars(p, M, D)
  PROVE  /\ WarmTypes'
         /\ D \subseteq M => files \cup lost \cup D \subseteq files' \cup lost'
         /\ dirty' = [dirty EXCEPT ![p] = {}] /\ sidecars' = [sidecars EXCEPT ![p] = M]
  BY DEF GTypeOK, WarmTypes, WriteSidecars

\* A step that leaves the rows alone, and adds no holder.
LEMMA QuietStep ==
  ASSUME IInv, UNCHANGED jobQueue, OneHolder',
         at' \in [Procs -> {"idle", "first", "next", "run", "warm"}],
         tasks' \in [Procs -> SUBSET Task], gathered' \in [Procs -> SUBSET Jobs],
         WarmTypes', faults' \in Nat,
         \A j \in Jobs : Held(j)' => Held(j)
  PROVE  IInv'
  <1>1. GTypeOK'
    BY DEF IInv, GTypeOK, WarmTypes, jobQueue
  <1>2. HeldLeased'
    BY DEF IInv, LeaseExclusive, HeldLeased, jobQueue
  <1>3. ReceiptAgrees'
    BY DEF IInv, ReceiptAgrees, jobQueue
  <1> QED
    BY <1>1, <1>2, <1>3 DEF IInv, LeaseExclusive, OneHolder, HeldLeased

\* No task at all changes.
LEMMA SameTasks ==
  ASSUME IInv, UNCHANGED tasks
  PROVE  OneHolder' /\ \A j \in Jobs : Held(j)' <=> Held(j)
  <1>1. OneHolder
    BY DEF IInv, LeaseExclusive, OneHolder
  <1>2. OneHolder'
    <2> DEFINE One(x) == \A p, q \in Procs : \A t \in x[p], u \in x[q] :
                            t.job = u.job /\ ~t.late /\ ~u.late => p = q /\ t = u
    <2>1. One(tasks)
      BY ONLY <1>1 DEF OneHolder
    <2>2. One(tasks')
      <3> HIDE DEF One
      <3> QED
        BY ONLY <2>1, tasks' = tasks
    <2> QED
      BY ONLY <2>2 DEF OneHolder
  <1>3. \A j \in Jobs : Held(j)' <=> Held(j)
    BY Zenon DEF Held, Holds
  <1> QED
    BY <1>2, <1>3

\* A process loses tasks, and gains none.
LEMMA FewerTasks ==
  ASSUME IInv, NEW p \in Procs, NEW S, S \subseteq tasks[p], tasks' = [tasks EXCEPT ![p] = S]
  PROVE  /\ OneHolder' /\ tasks' \in [Procs -> SUBSET Task]
         /\ \A j \in Jobs : Held(j)' => Held(j)
  <1>1. tasks \in [Procs -> SUBSET Task] /\ OneHolder
    BY DEF IInv, GTypeOK, LeaseExclusive, OneHolder
  <1>2. tasks' \in [Procs -> SUBSET Task] /\ \A q \in Procs : tasks'[q] \subseteq tasks[q]
    BY <1>1
  <1>3. OneHolder'
    BY <1>1, <1>2 DEF OneHolder
  <1>4. \A j \in Jobs : Held(j)' => Held(j)
    BY <1>2 DEF Held, Holds
  <1> QED
    BY <1>2, <1>3, <1>4

-----------------------------------------------------------------------------

LEMMA EnqueueIInv ==
  ASSUME GConstants, IInv, NEW S \in SUBSET Jobs, EnqueueJob(S)
  PROVE  IInv'
  <1> DEFINE new == {j \in S : status[j] = "absent"}
  <1>1. /\ status' = [j \in Jobs |-> IF j \in new THEN "pending" ELSE status[j]]
        /\ UNCHANGED <<expired, receipt, at, tasks, gathered, warm, faults>>
    BY DEF EnqueueJob, wave
  <1>2. GTypeOK /\ LeaseExclusive /\ ReceiptAgrees
    BY DEF IInv
  <1>3. created' \in [Jobs -> Nat]
    <2>1. IsFiniteSet(Jobs)
      BY DEF GConstants
    <2>2. Cardinality({k \in Jobs : status[k] # "absent"}) \in Nat
      BY <2>1, FS_Subset, FS_CardinalityType
    <2> QED
      BY <2>2, <1>2 DEF EnqueueJob, GTypeOK
  <1>4. \A j \in Jobs : \/ status'[j] = status[j] /\ j \notin new
                        \/ status[j] = "absent" /\ status'[j] = "pending"
    BY <1>1, <1>2 DEF GTypeOK
  <1>5. GTypeOK'
    <2>1. status' \in [Jobs -> Statuses]
      BY <1>1, <1>2 DEF GTypeOK, Statuses
    <2>2. expired \subseteq {j \in Jobs : status'[j] = "leased"}
      BY <1>2, <1>4 DEF GTypeOK
    <2> QED
      BY <1>1, <1>2, <1>3, <2>1, <2>2, SameWarm DEF GTypeOK, WarmTypes
  <1>6. LeaseExclusive'
    <2>1. OneHolder' /\ \A j \in Jobs : Held(j)' <=> Held(j)
      BY <1>1, SameTasks
    <2>2. HeldLeased'
      BY <1>1, <1>2, <1>4, <2>1 DEF LeaseExclusive, HeldLeased, Terminal
    <2> QED
      BY <2>1, <2>2 DEF LeaseExclusive, OneHolder, HeldLeased
  <1>7. ReceiptAgrees'
    BY <1>1, <1>2, <1>4 DEF ReceiptAgrees, Terminal
  <1> QED
    BY <1>5, <1>6, <1>7 DEF IInv

LEMMA ClaimIInv ==
  ASSUME IInv, NEW p \in Procs, NEW S \in SUBSET Jobs, Claim(p, S)
  PROVE  IInv'
  <1> DEFINE T == {[job |-> j, result |-> None, late |-> FALSE] : j \in S}
  <1>1. /\ status' = [j \in Jobs |-> IF j \in S THEN "leased"
                                     ELSE IF j \in expired THEN "pending" ELSE status[j]]
        /\ expired' = {} /\ at' = [at EXCEPT ![p] = "run"]
        /\ tasks' = [tasks EXCEPT ![p] = T]
        /\ UNCHANGED <<created, receipt, gathered, warm, faults>>
        /\ S \subseteq Claimable
    BY DEF Claim, Batches
  <1>2. GTypeOK /\ LeaseExclusive /\ ReceiptAgrees
    BY DEF IInv
  <1>3. \A j \in expired : status[j] = "leased"
    BY <1>2 DEF GTypeOK
  <1>4. \A j \in S : status[j] \in {"pending", "leased"} /\ ~Held(j)
    BY <1>1, <1>2, <1>3 DEF Claimable, LeaseExclusive, Terminal
  <1>5. \A j \in Jobs : /\ j \in S => status'[j] = "leased"
                        /\ j \notin S /\ j \in expired => status'[j] = "pending"
                        /\ j \notin S /\ j \notin expired => status'[j] = status[j]
    BY <1>1
  <1>6. tasks' \in [Procs -> SUBSET Task] /\ tasks'[p] = T /\ \A q \in Procs : q # p => tasks'[q] = tasks[q]
    <2>1. T \subseteq Task
      <3> SUFFICES ASSUME NEW j \in S PROVE [job |-> j, result |-> None, late |-> FALSE] \in Task
        OBVIOUS
      <3> QED
        BY DEF Task
    <2> QED
      BY <2>1, <1>1, <1>2 DEF GTypeOK
  <1>7. \A t \in T : t.job \in S /\ t = [job |-> t.job, result |-> None, late |-> FALSE]
    OBVIOUS
  <1> HIDE DEF T
  <1>8. GTypeOK'
    <2>1. status' \in [Jobs -> Statuses]
      BY <1>1, <1>2 DEF GTypeOK, Statuses
    <2>2. at' \in [Procs -> {"idle", "first", "next", "run", "warm"}]
      BY <1>1, <1>2 DEF GTypeOK
    <2> QED
      BY <1>1, <1>2, <1>6, <2>1, <2>2, SameWarm DEF GTypeOK, WarmTypes
  <1>9. OneHolder'
    <2> SUFFICES ASSUME NEW q \in Procs, NEW o \in Procs, NEW t \in tasks'[q], NEW u \in tasks'[o],
                        t.job = u.job, ~t.late, ~u.late
                 PROVE  q = o /\ t = u
      BY DEF OneHolder
    <2>1. CASE q = p /\ o = p
      BY <2>1, <1>6, <1>7
    <2>2. CASE q = p /\ o # p
      <3>1. u \in tasks[o] /\ u.job \in S
        BY <2>2, <1>6, <1>7
      <3> QED
        BY <3>1, <1>4 DEF Held, Holds
    <2>3. CASE q # p /\ o = p
      <3>1. t \in tasks[q] /\ t.job \in S
        BY <2>3, <1>6, <1>7
      <3> QED
        BY <3>1, <1>4 DEF Held, Holds
    <2>4. CASE q # p /\ o # p
      <3>1. t \in tasks[q] /\ u \in tasks[o]
        BY ONLY <2>4, <1>6, q \in Procs, o \in Procs, t \in tasks'[q], u \in tasks'[o]
      <3> QED
        BY <3>1, <1>2, Zenon DEF LeaseExclusive
    <2> QED
      BY <2>1, <2>2, <2>3, <2>4
  <1>10. HeldLeased'
    <2> SUFFICES ASSUME NEW j \in Jobs, Held(j)', status'[j] \notin Terminal PROVE status'[j] = "leased"
      BY <1>1 DEF HeldLeased
    <2>1. CASE j \in S
      BY <2>1, <1>5
    <2>2. CASE j \notin S
      <3>1. Held(j)
        BY <2>2, <1>6, <1>7 DEF Held, Holds
      <3>2. status[j] \notin Terminal
        BY <2>2, <1>3, <1>5 DEF Terminal
      <3>3. status[j] = "leased" /\ j \notin expired
        BY <3>1, <3>2, <1>2 DEF LeaseExclusive
      <3> QED
        BY <2>2, <3>3, <1>5
    <2> QED
      BY <2>1, <2>2
  <1>11. ReceiptAgrees'
    <2> SUFFICES ASSUME NEW j \in Jobs
                 PROVE  /\ status'[j] \in Terminal <=> receipt[j] # None
                        /\ status'[j] = "done" <=> receipt[j] = "ok"
      BY <1>1 DEF ReceiptAgrees
    <2>1. \/ status'[j] = status[j]
          \/ status'[j] \in {"leased", "pending"} /\ status[j] \in {"leased", "pending"}
      BY <1>3, <1>4, <1>5
    <2> QED
      BY <2>1, <1>2 DEF ReceiptAgrees, Terminal
  <1> QED
    BY <1>2, <1>8, <1>9, <1>10, <1>11 DEF IInv, LeaseExclusive, OneHolder, HeldLeased

\* The steps that write sidecars, or drop what was collected, keep their types.
LEMMA WarmStep ==
  ASSUME GTypeOK, NEW p \in Procs,
         ClaimFails(p) \/ WarmSidecars(p) \/ WarmFails(p) \/ FlushSidecars(p) \/ Crash(p)
  PROVE  WarmTypes'
  <1>1. /\ gathered \in [Procs -> SUBSET Jobs] /\ sidecars \in [Procs -> SUBSET Jobs]
        /\ dirty \in [Procs -> SUBSET Jobs] /\ files \subseteq Jobs /\ lost \subseteq Jobs
    BY DEF GTypeOK
  <1>2. CASE ClaimFails(p)
    BY <1>1, <1>2 DEF ClaimFails, WarmTypes
  <1>3. CASE WarmSidecars(p)
    <2>1. CASE UNCHANGED warm
      BY <2>1, SameWarm
    <2>2. CASE WriteSidecars(p, sidecars[p] \cup gathered[p], dirty[p] \cup gathered[p])
      BY <1>1, <2>2, WriteFacts
    <2> QED
      BY <1>3, <2>1, <2>2 DEF WarmSidecars
  <1>4. CASE WarmFails(p)
    BY <1>1, <1>4 DEF WarmFails, WarmTypes
  <1>5. CASE FlushSidecars(p)
    BY <1>1, <1>5, WriteFacts DEF FlushSidecars
  <1>6. CASE Crash(p)
    BY <1>1, <1>6 DEF Crash, WarmTypes
  <1> QED
    BY <1>2, <1>3, <1>4, <1>5, <1>6

\* The steps of a call that touch neither the queue nor its tasks.
LEMMA CallIInv ==
  ASSUME IInv, NEW p \in Procs,
         \/ Begin(p) \/ ClaimNothing(p) \/ Stop(p) \/ ClaimFails(p) \/ WarmSidecars(p) \/ WarmFails(p)
         \/ FlushSidecars(p)
  PROVE  IInv'
  <1>1. UNCHANGED jobQueue /\ UNCHANGED tasks
    BY DEF Begin, ClaimNothing, Stop, ClaimFails, WarmSidecars, WarmFails, FlushSidecars, wave
  <1>2. at' = at \/ \E w \in {"idle", "first", "warm"} : at' = [at EXCEPT ![p] = w]
    BY DEF Begin, ClaimNothing, Stop, ClaimFails, WarmSidecars, WarmFails, FlushSidecars, wave
  <1>3. gathered' = gathered \/ gathered' = [gathered EXCEPT ![p] = {}]
    BY DEF Begin, ClaimNothing, Stop, ClaimFails, WarmSidecars, WarmFails, FlushSidecars, wave
  <1>4. WarmTypes'
    <2>1. CASE Begin(p) \/ ClaimNothing(p) \/ Stop(p)
      BY <2>1, SameWarm DEF Begin, ClaimNothing, Stop, IInv
    <2> QED
      BY <2>1, WarmStep DEF IInv
  <1>5. faults' = faults \/ faults' = faults + 1
    BY DEF Begin, ClaimNothing, Stop, ClaimFails, WarmSidecars, WarmFails, FlushSidecars, Fault
  <1>6. GTypeOK
    BY DEF IInv
  <1>7. /\ at' \in [Procs -> {"idle", "first", "next", "run", "warm"}]
        /\ gathered' \in [Procs -> SUBSET Jobs]
        /\ tasks' \in [Procs -> SUBSET Task] /\ faults' \in Nat
    <2>1. at' \in [Procs -> {"idle", "first", "next", "run", "warm"}]
      BY <1>2, <1>6 DEF GTypeOK
    <2>2. gathered' \in [Procs -> SUBSET Jobs]
      BY <1>3, <1>6 DEF GTypeOK
    <2>3. tasks' \in [Procs -> SUBSET Task] /\ faults' \in Nat
      BY <1>1, <1>5, <1>6 DEF GTypeOK
    <2> QED
      BY ONLY <2>1, <2>2, <2>3
  <1>8. OneHolder' /\ \A j \in Jobs : Held(j)' <=> Held(j)
    BY <1>1, SameTasks
  <1> QED
    BY <1>1, <1>4, <1>7, <1>8, QuietStep

LEMMA CrashIInv ==
  ASSUME IInv, NEW p \in Procs, Crash(p)
  PROVE  IInv'
  <1>1. /\ UNCHANGED jobQueue /\ faults' = faults + 1
        /\ tasks' = [tasks EXCEPT ![p] = {}] /\ gathered' = [gathered EXCEPT ![p] = {}]
        /\ at' = [at EXCEPT ![p] = "idle"]
    BY DEF Crash, Fault
  <1>2. GTypeOK
    BY DEF IInv
  <1>3. /\ at' \in [Procs -> {"idle", "first", "next", "run", "warm"}]
        /\ gathered' \in [Procs -> SUBSET Jobs] /\ faults' \in Nat
    <2>1. /\ at \in [Procs -> {"idle", "first", "next", "run", "warm"}]
          /\ gathered \in [Procs -> SUBSET Jobs] /\ faults \in Nat
      BY ONLY <1>2 DEF GTypeOK
    <2>2. faults' \in Nat
      BY ONLY <1>1, <2>1
    <2> QED
      BY ONLY <1>1, <2>1, <2>2
  <1>4. /\ OneHolder' /\ tasks' \in [Procs -> SUBSET Task]
        /\ \A j \in Jobs : Held(j)' => Held(j)
    <2> DEFINE S == {}
    <2>1. S \subseteq tasks[p] /\ tasks' = [tasks EXCEPT ![p] = S]
      BY <1>1
    <2> HIDE DEF S
    <2> QED
      BY <2>1, FewerTasks
  <1> QED
    BY <1>1, <1>2, <1>3, <1>4, WarmStep, QuietStep

LEMMA RunJobIInv ==
  ASSUME IInv, NEW p \in Procs, NEW t \in tasks[p], NEW r \in Results, RunJob(p, t, r)
  PROVE  IInv'
  <1> DEFINE n == [t EXCEPT !.result = r]
  <1>1. /\ UNCHANGED jobQueue /\ UNCHANGED <<at, gathered, warm, faults>>
        /\ tasks' = [tasks EXCEPT ![p] = (tasks[p] \ {t}) \cup {n}]
    BY DEF RunJob
  <1>2. GTypeOK /\ OneHolder
    BY DEF IInv, LeaseExclusive, OneHolder
  <1>3. t \in Task /\ tasks \in [Procs -> SUBSET Task]
    BY <1>2 DEF GTypeOK
  <1>4. n \in Task /\ n.job = t.job /\ n.late = t.late
    BY <1>3 DEF Task
  <1> HIDE DEF n
  <1>5. /\ tasks' \in [Procs -> SUBSET Task] /\ tasks'[p] = (tasks[p] \ {t}) \cup {n}
        /\ \A q \in Procs : q # p => tasks'[q] = tasks[q]
    BY <1>1, <1>3, <1>4
  <1>6. \A u, v \in tasks'[p] : u.job = v.job /\ ~u.late /\ ~v.late => u = v
    <2>1. \A u \in tasks[p] : u.job = t.job /\ ~u.late /\ ~t.late => u = t
      BY <1>2 DEF OneHolder
    <2>2. \A u, v \in tasks[p] : u.job = v.job /\ ~u.late /\ ~v.late => u = v
      BY <1>2 DEF OneHolder
    <2> QED
      BY ONLY <1>4, <1>5, <2>1, <2>2
  <1>7. \A u \in tasks'[p] : ~u.late => \E v \in tasks[p] : v.job = u.job /\ ~v.late
    BY <1>4, <1>5
  <1>8. OneHolder'
    BY <1>2, <1>3, <1>5, <1>6, <1>7, HoldersKept
  <1>9. \A j \in Jobs : Held(j)' => Held(j)
    <2> SUFFICES ASSUME NEW j \in Jobs, NEW q \in Procs, Holds(q, j)' PROVE Held(j)
      BY DEF Held
    <2>1. CASE q = p
      BY <2>1, <1>7 DEF Held, Holds
    <2>2. CASE q # p
      BY <2>2, <1>5 DEF Held, Holds
    <2> QED
      BY <2>1, <2>2
  <1>10. /\ at' \in [Procs -> {"idle", "first", "next", "run", "warm"}]
         /\ gathered' \in [Procs -> SUBSET Jobs] /\ WarmTypes' /\ faults' \in Nat
    BY <1>1, <1>2, SameWarm DEF GTypeOK
  <1> QED
    BY <1>1, <1>5, <1>8, <1>9, <1>10, QuietStep

\* A goroutine that ends leaves a process with fewer tasks.
LEMMA EndTaskFacts ==
  ASSUME IInv, NEW p \in Procs, NEW t \in tasks[p], EndTask(p, t)
  PROVE  /\ OneHolder' /\ tasks' \in [Procs -> SUBSET Task]
         /\ \A j \in Jobs : Held(j)' => Held(j)
         /\ at' \in [Procs -> {"idle", "first", "next", "run", "warm"}]
         /\ gathered' \in [Procs -> SUBSET Jobs]
         /\ t \in Task /\ t.job \in Jobs /\ t.result \in Results
  <1>1. GTypeOK
    BY DEF IInv
  <1>2. /\ OneHolder' /\ tasks' \in [Procs -> SUBSET Task]
        /\ \A j \in Jobs : Held(j)' => Held(j)
    BY FewerTasks DEF EndTask
  <1>3. at' \in [Procs -> {"idle", "first", "next", "run", "warm"}]
    BY <1>1 DEF EndTask, GTypeOK
  <1>5. t \in Task
    BY <1>1 DEF GTypeOK
  <1>6. t.job \in Jobs /\ t.result \in Results
    BY <1>5 DEF Task, EndTask
  <1>4. gathered' \in [Procs -> SUBSET Jobs]
    <2>1. gathered \in [Procs -> SUBSET Jobs]
      BY ONLY <1>1 DEF GTypeOK
    <2>2. \/ gathered' = [gathered EXCEPT ![p] = @]
          \/ gathered' = [gathered EXCEPT ![p] = @ \cup {t.job}]
      BY DEF EndTask
    <2> QED
      BY ONLY <1>6, <2>1, <2>2, p \in Procs
  <1> QED
    BY <1>2, <1>3, <1>4, <1>5, <1>6

LEMMA CompleteIInv ==
  ASSUME GConstants, IInv, NEW p \in Procs, NEW t \in tasks[p], Complete(p, t)
  PROVE  IInv'
  <1>1. /\ EndTask(p, t) /\ UNCHANGED <<created, warm, faults>>
        /\ status' = [status EXCEPT ![t.job] = IF t.result = "ok" THEN "done" ELSE "failed"]
        /\ expired' = expired \ {t.job} /\ receipt' = [receipt EXCEPT ![t.job] = t.result]
    BY DEF Complete
  <1>2. GTypeOK /\ LeaseExclusive /\ ReceiptAgrees
    BY DEF IInv
  <1>3. /\ OneHolder' /\ tasks' \in [Procs -> SUBSET Task]
        /\ \A j \in Jobs : Held(j)' => Held(j)
        /\ at' \in [Procs -> {"idle", "first", "next", "run", "warm"}]
        /\ gathered' \in [Procs -> SUBSET Jobs]
        /\ t.job \in Jobs /\ t.result \in Results
    BY <1>1, EndTaskFacts
  <1>4. /\ \A j \in Jobs : j # t.job => status'[j] = status[j] /\ receipt'[j] = receipt[j]
        /\ status'[t.job] = IF t.result = "ok" THEN "done" ELSE "failed"
        /\ receipt'[t.job] = t.result
    BY <1>1, <1>2, <1>3 DEF GTypeOK
  <1>5. GTypeOK'
    <2>1. status' \in [Jobs -> Statuses]
      BY <1>1, <1>2 DEF GTypeOK, Statuses
    <2>2. receipt' \in [Jobs -> Results \cup {None}]
      BY <1>1, <1>2, <1>3 DEF GTypeOK
    <2>3. expired' \subseteq {j \in Jobs : status'[j] = "leased"}
      BY <1>1, <1>2, <1>4 DEF GTypeOK
    <2> QED
      BY <1>1, <1>2, <1>3, <2>1, <2>2, <2>3, SameWarm DEF GTypeOK, WarmTypes
  <1>6. HeldLeased'
    BY <1>1, <1>2, <1>3, <1>4 DEF LeaseExclusive, HeldLeased, Terminal
  <1>7. ReceiptAgrees'
    BY <1>2, <1>3, <1>4 DEF GConstants, ReceiptAgrees, Terminal
  <1> QED
    BY <1>3, <1>5, <1>6, <1>7 DEF IInv, LeaseExclusive, OneHolder, HeldLeased

LEMMA CompleteFailsIInv ==
  ASSUME IInv, NEW p \in Procs, NEW t \in tasks[p], CompleteFails(p, t)
  PROVE  IInv'
  <1>1. EndTask(p, t) /\ UNCHANGED jobQueue /\ UNCHANGED warm /\ faults' = faults + 1
    BY DEF CompleteFails, Fault
  <1>2. WarmTypes' /\ faults' \in Nat
    <2>1. GTypeOK
      BY DEF IInv
    <2>2. faults \in Nat
      BY ONLY <2>1 DEF GTypeOK
    <2>3. faults' \in Nat
      BY ONLY <1>1, <2>2
    <2> QED
      BY <1>1, <2>1, <2>3, SameWarm
  <1> QED
    BY <1>1, <1>2, EndTaskFacts, QuietStep

\* A lapsed lease marks tasks late, and changes nothing else of them.
LEMMA ExpireIInv ==
  ASSUME IInv, NEW j \in Jobs, Expire(j)
  PROVE  IInv'
  <1> DEFINE Aged(t) == [t EXCEPT !.late = t.late \/ t.job = j]
  <1>1. /\ status[j] = "leased" /\ expired' = expired \cup {j}
        /\ tasks' = [p \in Procs |-> {Aged(t) : t \in tasks[p]}]
        /\ UNCHANGED <<status, created, receipt, at, gathered, warm>>
        /\ faults' = faults \/ faults' = faults + 1
    BY DEF Expire, Fault
  <1>2. GTypeOK /\ OneHolder /\ HeldLeased /\ ReceiptAgrees
    BY DEF IInv, LeaseExclusive, OneHolder, HeldLeased
  <1>3. \A t \in Task : Aged(t) \in Task /\ Aged(t).job = t.job
                      /\ (~Aged(t).late => Aged(t) = t /\ t.job # j)
    <2> SUFFICES ASSUME NEW t \in Task
                 PROVE  /\ Aged(t) \in Task /\ Aged(t).job = t.job
                        /\ ~Aged(t).late => Aged(t) = t /\ t.job # j
      OBVIOUS
    <2>1. Aged(t) \in Task /\ Aged(t).job = t.job /\ Aged(t).late = (t.late \/ t.job = j)
      BY DEF Task
    <2>2. ASSUME ~(t.late \/ t.job = j) PROVE Aged(t) = t
      BY <2>2 DEF Task
    <2> QED
      BY <2>1, <2>2
  <1> HIDE DEF Aged
  <1>4. /\ tasks' \in [Procs -> SUBSET Task] /\ tasks \in [Procs -> SUBSET Task]
        /\ \A p \in Procs : \A t \in tasks'[p] : ~t.late => t \in tasks[p] /\ t.job # j
    <2>1. tasks \in [Procs -> SUBSET Task]
      BY <1>2 DEF GTypeOK
    <2> QED
      BY ONLY <1>1, <1>3, <2>1
  <1>5. OneHolder'
    BY ONLY <1>2, <1>4 DEF OneHolder
  <1>6. \A k \in Jobs : Held(k)' => Held(k) /\ k # j
    BY <1>4 DEF Held, Holds
  <1>7. GTypeOK'
    <2>1. expired' \subseteq {k \in Jobs : status[k] = "leased"}
      BY <1>1, <1>2 DEF GTypeOK
    <2>2. faults' \in Nat
      <3>1. faults \in Nat
        BY ONLY <1>2 DEF GTypeOK
      <3> QED
        BY ONLY <1>1, <3>1
    <2> QED
      BY ONLY <1>1, <1>2, <1>4, <2>1, <2>2, SameWarm DEF GTypeOK, WarmTypes
  <1>8. HeldLeased'
    BY <1>1, <1>2, <1>6 DEF HeldLeased
  <1>9. ReceiptAgrees'
    BY <1>1, <1>2 DEF ReceiptAgrees
  <1> QED
    BY <1>5, <1>7, <1>8, <1>9 DEF IInv, LeaseExclusive, OneHolder, HeldLeased

-----------------------------------------------------------------------------

LEMMA NextIInv ==
  ASSUME GConstants
  PROVE  IInv /\ [GNext]_Gvars => IInv'
  <1> SUFFICES ASSUME IInv, [GNext]_Gvars PROVE IInv'
    OBVIOUS
  <1>1. CASE UNCHANGED Gvars
    <2>1. UNCHANGED jobQueue /\ UNCHANGED <<at, tasks, gathered, warm, faults>>
      BY <1>1 DEF Gvars, wave
    <2> QED
      BY <2>1, SameTasks, SameWarm, QuietStep DEF IInv, GTypeOK
  <1>2. ASSUME NEW S \in SUBSET Jobs, EnqueueJob(S) PROVE IInv'
    BY <1>2, EnqueueIInv
  <1>3. ASSUME NEW p \in Procs, ProcStep(p) PROVE IInv'
    <2>1. CASE Begin(p) \/ ClaimNothing(p) \/ Stop(p) \/ ClaimFails(p) \/ WarmSidecars(p) \/ WarmFails(p)
      BY <2>1, CallIInv
    <2>2. ASSUME NEW S \in SUBSET Jobs, Claim(p, S) PROVE IInv'
      BY <2>2, ClaimIInv
    <2>3. ASSUME NEW t \in tasks[p], NEW r \in Results, RunJob(p, t, r) PROVE IInv'
      BY <2>3, RunJobIInv
    <2>4. ASSUME NEW t \in tasks[p], Complete(p, t) PROVE IInv'
      BY <2>4, CompleteIInv
    <2>5. ASSUME NEW t \in tasks[p], CompleteFails(p, t) PROVE IInv'
      BY <2>5, CompleteFailsIInv
    <2>6. CASE Crash(p)
      BY <2>6, CrashIInv
    <2> QED
      BY ONLY <1>3, <2>1, <2>2, <2>3, <2>4, <2>5, <2>6 DEF ProcStep, TaskStep
  <1>4. ASSUME NEW j \in Jobs, Expire(j) PROVE IInv'
    BY <1>4, ExpireIInv
  <1>5. ASSUME NEW p \in Procs, FlushSidecars(p) PROVE IInv'
    BY <1>5, CallIInv
  <1> QED
    BY <1>1, <1>2, <1>3, <1>4, <1>5 DEF GNext

LEMMA AlwaysIInv == GSpec => []IInv
  BY GConstants, InitIInv, NextIInv, PTL DEF GSpec

\* The rows, the calls and their goroutines have their types.
THEOREM QueueTypeCorrect == GSpec => []GTypeOK
  <1>1. IInv => GTypeOK
    BY DEF IInv
  <1> QED
    BY <1>1, AlwaysIInv, PTL

\* Whatever the crashes, lost completions and slow workers, two workers are on
\* one job only if the lease of one of them has run out (SQLiteQueue.Claim).
THEOREM LeasesAreExclusive == GSpec => []LeaseExclusive
  <1>1. IInv => LeaseExclusive
    BY DEF IInv
  <1> QED
    BY <1>1, AlwaysIInv, PTL

\* The status of a job is that of its last receipt (SQLiteQueue.Complete).
THEOREM ReceiptsAgree == GSpec => []ReceiptAgrees
  <1>1. IInv => ReceiptAgrees
    BY DEF IInv
  <1> QED
    BY <1>1, AlwaysIInv, PTL

\* No claim and no publication reopens a job that has ended (SQLiteQueue.Enqueue
\* and Claim).
THEOREM EndedJobsStay == GSpec => EndedStays
  <1>1. IInv /\ [GNext]_Gvars => [\A j \in Jobs : status[j] \in Terminal => status'[j] \in Terminal]_Gvars
    <2> SUFFICES ASSUME GTypeOK, GNext, NEW j \in Jobs, status[j] \in Terminal
                 PROVE  status'[j] \in Terminal
      BY DEF IInv
    <2>1. ASSUME NEW S \in SUBSET Jobs, EnqueueJob(S) PROVE status'[j] \in Terminal
      BY <2>1 DEF EnqueueJob, Terminal
    <2>2. ASSUME NEW p \in Procs, ProcStep(p) PROVE status'[j] \in Terminal
      <3>1. ASSUME NEW S \in SUBSET Jobs, Claim(p, S) PROVE status'[j] \in Terminal
        <4>1. j \notin expired
          BY DEF GTypeOK, Terminal
        <4>2. j \notin S
          BY <3>1, <4>1 DEF Claim, Batches, Claimable, Terminal
        <4> QED
          BY <3>1, <4>1, <4>2 DEF Claim
      <3>2. ASSUME NEW t \in tasks[p], Complete(p, t) PROVE status'[j] \in Terminal
        BY <3>2 DEF Complete, Terminal, GTypeOK
      <3>3. ASSUME NEW t \in tasks[p], TaskStep(p, t), ~Complete(p, t) PROVE status' = status
        BY <3>3 DEF TaskStep, RunJob, CompleteFails, jobQueue
      <3>4. CASE Begin(p) \/ ClaimNothing(p) \/ Stop(p) \/ ClaimFails(p) \/ WarmSidecars(p)
                 \/ WarmFails(p) \/ Crash(p)
        BY <3>4 DEF Begin, ClaimNothing, Stop, ClaimFails, WarmSidecars, WarmFails, Crash, jobQueue
      <3> QED
        BY <2>2, <3>1, <3>2, <3>3, <3>4 DEF ProcStep
    <2>3. ASSUME NEW k \in Jobs, Expire(k) PROVE status'[j] \in Terminal
      BY <2>3 DEF Expire
    <2>4. ASSUME NEW p \in Procs, FlushSidecars(p) PROVE status'[j] \in Terminal
      BY <2>4 DEF FlushSidecars, jobQueue
    <2> QED
      BY <2>1, <2>2, <2>3, <2>4 DEF GNext
  <1> QED
    BY <1>1, AlwaysIInv, PTL DEF GSpec, EndedStays

-----------------------------------------------------------------------------

\* Where the output of a job may be.
Somewhere(j) == j \in files \/ j \in lost \/ \E p \in Procs : j \in gathered[p] \/ j \in dirty[p]

OutInv == MarksInv /\ \A j \in Jobs : status[j] = "done" => Somewhere(j)

\* A step that only collects, and writes no sidecar.
LEMMA CollectStep ==
  ASSUME GTypeOK, OutInv, UNCHANGED warm, gathered' \in [Procs -> SUBSET Jobs],
         \A p \in Procs : gathered[p] \subseteq gathered'[p],
         \A j \in Jobs : status'[j] = "done" => status[j] = "done" \/ \E p \in Procs : j \in gathered'[p]
  PROVE  OutInv'
  <1>1. MarksInv' /\ UNCHANGED <<files, lost, dirty>>
    BY DEF OutInv, MarksInv, warm
  <1>2. \A j \in Jobs : Somewhere(j) => Somewhere(j)'
    BY <1>1 DEF Somewhere
  <1>3. ASSUME NEW j \in Jobs, NEW p \in Procs, j \in gathered'[p] PROVE Somewhere(j)'
    BY <1>3 DEF Somewhere
  <1>4. \A j \in Jobs : status[j] = "done" => Somewhere(j)
    BY DEF OutInv
  <1>5. \A j \in Jobs : status'[j] = "done" => Somewhere(j)'
    BY <1>2, <1>3, <1>4
  <1> QED
    BY <1>1, <1>5 DEF OutInv

\* A step of p that clears what it has collected or marked puts it into the files,
\* marks it, or loses it.
LEMMA HandOver ==
  ASSUME GTypeOK, OutInv, UNCHANGED status, NEW p \in Procs,
         gathered' = gathered \/ gathered' = [gathered EXCEPT ![p] = {}],
         \A q \in Procs : q # p => dirty'[q] = dirty[q] /\ sidecars'[q] = sidecars[q],
         dirty'[p] \subseteq sidecars'[p],
         files \cup lost \cup dirty[p] \subseteq files' \cup lost' \cup dirty'[p],
         gathered[p] \subseteq files' \cup lost' \cup dirty'[p] \cup gathered'[p]
  PROVE  OutInv'
  <1>1. MarksInv'
    BY DEF OutInv, MarksInv
  <1>2. gathered \in [Procs -> SUBSET Jobs]
    BY DEF GTypeOK
  <1>3. \A q \in Procs : q # p => gathered'[q] = gathered[q]
    BY <1>2
  <1>4. ASSUME NEW j \in Jobs, Somewhere(j) PROVE Somewhere(j)'
    <2>1. CASE j \in files \cup lost \cup dirty[p] \cup gathered[p]
      BY <2>1 DEF Somewhere
    <2>2. CASE \E q \in Procs : q # p /\ j \in gathered[q] \cup dirty[q]
      BY <2>2, <1>3 DEF Somewhere
    <2> QED
      BY <1>4, <2>1, <2>2 DEF Somewhere
  <1> QED
    BY <1>1, <1>4 DEF OutInv

LEMMA WarmOut ==
  ASSUME GTypeOK, OutInv, NEW p \in Procs,
         ClaimFails(p) \/ WarmSidecars(p) \/ WarmFails(p) \/ FlushSidecars(p) \/ Crash(p)
  PROVE  OutInv'
  <1>1. /\ gathered \in [Procs -> SUBSET Jobs] /\ sidecars \in [Procs -> SUBSET Jobs]
        /\ dirty \in [Procs -> SUBSET Jobs] /\ files \subseteq Jobs /\ lost \subseteq Jobs
    BY DEF GTypeOK
  <1>2. dirty[p] \subseteq sidecars[p]
    BY DEF OutInv, MarksInv
  <1>3. UNCHANGED status
    BY DEF ClaimFails, WarmSidecars, WarmFails, FlushSidecars, Crash, jobQueue
  <1>4. CASE ClaimFails(p)
    <2>1. /\ gathered' = [gathered EXCEPT ![p] = {}] /\ UNCHANGED <<sidecars, dirty, files>>
          /\ lost' = lost \cup (gathered[p] \ files)
      BY <1>4 DEF ClaimFails
    <2> QED
      BY <1>2, <1>3, <2>1, HandOver
  <1>5. CASE WarmSidecars(p)
    <2>1. gathered' = [gathered EXCEPT ![p] = {}]
      BY <1>5 DEF WarmSidecars
    <2>2. CASE gathered[p] = {}
      <3>1. UNCHANGED <<sidecars, dirty, files, lost>>
        BY <1>5, <2>2 DEF WarmSidecars, warm
      <3> QED
        BY <1>2, <1>3, <2>1, <2>2, <3>1, HandOver
    <2>3. CASE gathered[p] # {}
      <3>1. WriteSidecars(p, sidecars[p] \cup gathered[p], dirty[p] \cup gathered[p])
        BY <1>5, <2>3 DEF WarmSidecars
      <3>2. /\ files \cup lost \cup (dirty[p] \cup gathered[p]) \subseteq files' \cup lost'
            /\ dirty' = [dirty EXCEPT ![p] = {}]
            /\ sidecars' = [sidecars EXCEPT ![p] = sidecars[p] \cup gathered[p]]
        <4> DEFINE M == sidecars[p] \cup gathered[p]
                   D == dirty[p] \cup gathered[p]
        <4>1. M \in SUBSET Jobs /\ D \in SUBSET Jobs /\ D \subseteq M /\ WriteSidecars(p, M, D)
          BY ONLY <1>1, <1>2, <3>1, p \in Procs
        <4> HIDE DEF M, D
        <4>2. /\ files \cup lost \cup D \subseteq files' \cup lost'
              /\ dirty' = [dirty EXCEPT ![p] = {}] /\ sidecars' = [sidecars EXCEPT ![p] = M]
          BY ONLY <4>1, WriteFacts, GTypeOK, p \in Procs
        <4> QED
          BY ONLY <4>2 DEF M, D
      <3>3. dirty'[p] = {} /\ \A q \in Procs : q # p => dirty'[q] = dirty[q] /\ sidecars'[q] = sidecars[q]
        BY ONLY <1>1, <3>2, p \in Procs
      <3> QED
        BY <1>3, <2>1, <3>2, <3>3, HandOver
    <2> QED
      BY <2>2, <2>3
  <1>6. CASE WarmFails(p)
    <2>1. /\ gathered' = [gathered EXCEPT ![p] = {}] /\ UNCHANGED <<files, lost>>
          /\ sidecars' = [sidecars EXCEPT ![p] = @ \cup gathered[p]]
          /\ dirty' = [dirty EXCEPT ![p] = @ \cup gathered[p]]
      BY <1>6 DEF WarmFails
    <2>2. /\ dirty'[p] = dirty[p] \cup gathered[p] /\ sidecars'[p] = sidecars[p] \cup gathered[p]
          /\ \A q \in Procs : q # p => dirty'[q] = dirty[q] /\ sidecars'[q] = sidecars[q]
      BY ONLY <1>1, <2>1, p \in Procs
    <2> QED
      BY <1>2, <1>3, <2>1, <2>2, HandOver
  <1>7. CASE FlushSidecars(p)
    <2>1. WriteSidecars(p, sidecars[p], dirty[p]) /\ gathered' = gathered
      BY <1>7 DEF FlushSidecars, wave
    <2>2. /\ files \cup lost \cup dirty[p] \subseteq files' \cup lost'
          /\ dirty' = [dirty EXCEPT ![p] = {}] /\ sidecars' = [sidecars EXCEPT ![p] = sidecars[p]]
      <3> DEFINE M == sidecars[p]
                 D == dirty[p]
      <3>1. M \in SUBSET Jobs /\ D \in SUBSET Jobs /\ D \subseteq M /\ WriteSidecars(p, M, D)
        BY ONLY <1>1, <1>2, <2>1, p \in Procs
      <3> HIDE DEF M, D
      <3>2. /\ files \cup lost \cup D \subseteq files' \cup lost'
            /\ dirty' = [dirty EXCEPT ![p] = {}] /\ sidecars' = [sidecars EXCEPT ![p] = M]
        BY ONLY <3>1, WriteFacts, GTypeOK, p \in Procs
      <3> QED
        BY ONLY <3>2 DEF M, D
    <2>3. dirty'[p] = {} /\ \A q \in Procs : q # p => dirty'[q] = dirty[q] /\ sidecars'[q] = sidecars[q]
      BY ONLY <1>1, <2>2, p \in Procs
    <2> QED
      BY <1>3, <2>1, <2>2, <2>3, HandOver
  <1>8. CASE Crash(p)
    <2>1. /\ gathered' = [gathered EXCEPT ![p] = {}] /\ UNCHANGED files
          /\ sidecars' = [sidecars EXCEPT ![p] = files] /\ dirty' = [dirty EXCEPT ![p] = {}]
          /\ lost' = lost \cup ((gathered[p] \cup dirty[p]) \ files)
      BY <1>8 DEF Crash
    <2>2. dirty'[p] = {} /\ \A q \in Procs : q # p => dirty'[q] = dirty[q] /\ sidecars'[q] = sidecars[q]
      BY ONLY <1>1, <2>1, p \in Procs
    <2> QED
      BY <1>3, <2>1, <2>2, HandOver
  <1> QED
    BY <1>4, <1>5, <1>6, <1>7, <1>8

\* What completes a job has collected its output.
LEMMA EndOut ==
  ASSUME GTypeOK, OutInv, NEW p \in Procs, NEW t \in tasks[p], Complete(p, t) \/ CompleteFails(p, t)
  PROVE  OutInv'
  <1>1. /\ gathered' = [gathered EXCEPT ![p] = IF t.result = "failed" THEN @ ELSE @ \cup {t.job}]
        /\ UNCHANGED warm
        /\ \/ UNCHANGED status
           \/ status' = [status EXCEPT ![t.job] = IF t.result = "ok" THEN "done" ELSE "failed"]
    BY DEF Complete, CompleteFails, EndTask, jobQueue
  <1>2. gathered \in [Procs -> SUBSET Jobs] /\ status \in [Jobs -> Statuses] /\ t \in Task
    BY DEF GTypeOK
  <1>3. t.job \in Jobs
    BY ONLY <1>2 DEF Task
  <1>4. /\ gathered' \in [Procs -> SUBSET Jobs] /\ \A q \in Procs : gathered[q] \subseteq gathered'[q]
        /\ t.result # "failed" => t.job \in gathered'[p]
    BY ONLY <1>1, <1>2, <1>3, p \in Procs
  <1>5. \A j \in Jobs : status'[j] = "done" => status[j] = "done" \/ \E q \in Procs : j \in gathered'[q]
    <2>1. ASSUME NEW j \in Jobs, status'[j] = "done", status[j] # "done" PROVE j \in gathered'[p]
      <3>1. j = t.job /\ t.result = "ok"
        BY ONLY <1>1, <1>2, <1>3, <2>1
      <3> QED
        BY ONLY <1>4, <3>1
    <2> QED
      BY <2>1
  <1> QED
    BY <1>1, <1>4, <1>5, CollectStep

LEMMA OutStep ==
  ASSUME GTypeOK, OutInv, [GNext]_Gvars
  PROVE  OutInv'
  <1>1. gathered \in [Procs -> SUBSET Jobs] /\ status \in [Jobs -> Statuses]
    BY DEF GTypeOK
  <1>2. ASSUME UNCHANGED warm, UNCHANGED gathered, \A j \in Jobs : status'[j] = "done" => status[j] = "done"
        PROVE  OutInv'
    BY <1>1, <1>2, CollectStep
  <1>3. CASE UNCHANGED Gvars
    BY <1>2, <1>3 DEF Gvars, jobQueue, wave
  <1>4. ASSUME NEW S \in SUBSET Jobs, EnqueueJob(S) PROVE OutInv'
    BY <1>1, <1>2, <1>4 DEF EnqueueJob, wave
  <1>5. ASSUME NEW k \in Jobs, Expire(k) PROVE OutInv'
    BY <1>2, <1>5 DEF Expire
  <1>6. ASSUME NEW p \in Procs, ProcStep(p) PROVE OutInv'
    <2>1. ASSUME NEW S \in SUBSET Jobs, Claim(p, S) PROVE OutInv'
      BY <1>1, <1>2, <2>1 DEF Claim
    <2>2. CASE Begin(p) \/ ClaimNothing(p) \/ Stop(p)
      BY <1>2, <2>2 DEF Begin, ClaimNothing, Stop, jobQueue
    <2>3. CASE ClaimFails(p) \/ WarmSidecars(p) \/ WarmFails(p) \/ Crash(p)
      BY <2>3, WarmOut
    <2>4. ASSUME NEW t \in tasks[p], NEW r \in Results, RunJob(p, t, r) PROVE OutInv'
      BY <1>2, <2>4 DEF RunJob, jobQueue
    <2>5. ASSUME NEW t \in tasks[p], Complete(p, t) \/ CompleteFails(p, t) PROVE OutInv'
      BY <2>5, EndOut
    <2> QED
      BY ONLY <1>6, <2>1, <2>2, <2>3, <2>4, <2>5 DEF ProcStep, TaskStep
  <1>7. ASSUME NEW p \in Procs, FlushSidecars(p) PROVE OutInv'
    BY <1>7, WarmOut
  <1> QED
    BY <1>3, <1>4, <1>5, <1>6, <1>7 DEF GNext

\* The output of a job that is done is written, marked or collected, but for what a
\* failing Claim, a death or another process's rewrite took, for any processes, jobs
\* and batch size (RunWave, RunGardenerWave, flushSidecarsLocked).
THEOREM OutputsKept == GSpec => []OutputKept
  <1>1. GInit => OutInv
    BY DEF GInit, OutInv, MarksInv
  <1>2. IInv /\ OutInv /\ [GNext]_Gvars => OutInv'
    BY OutStep DEF IInv
  <1>3. OutInv => OutputKept
    <2> SUFFICES ASSUME OutInv, NEW j \in Jobs, status[j] = "done"
                 PROVE  j \in files \cup lost \cup UNION {gathered[p] \cup dirty[p] : p \in Procs}
      BY Zenon DEF OutputKept
    <2>1. Somewhere(j)
      BY Zenon DEF OutInv
    <2>2. CASE \E p \in Procs : j \in gathered[p] \/ j \in dirty[p]
      <3>1. PICK p \in Procs : j \in gathered[p] \cup dirty[p]
        BY ONLY <2>2
      <3> DEFINE R == {gathered[q] \cup dirty[q] : q \in Procs}
      <3>2. gathered[p] \cup dirty[p] \in R
        OBVIOUS
      <3> HIDE DEF R
      <3>3. j \in UNION R
        BY ONLY <3>1, <3>2
      <3> QED
        BY <3>3 DEF R
    <2> QED
      BY ONLY <2>1, <2>2 DEF Somewhere
  <1> QED
    BY <1>1, <1>2, <1>3, AlwaysIInv, PTL DEF GSpec

=============================================================================

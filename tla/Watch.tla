-------------------------------- MODULE Watch --------------------------------
(***************************************************************************)
(* The index watcher of services/brain/internal/codecrawl: WatchFS         *)
(* (watch_fs.go) with its refreshQueue (watch_queue.go), and WatchPoll     *)
(* (watch.go), which it falls back to.                                     *)
(*                                                                         *)
(* A refresh is OpenOrRefresh at the grain CodeIndex justifies: it reads   *)
(* the files one by one while editors go on, and at its end replaces the   *)
(* index unless it fails or has only lost files.  The content of a file is *)
(* a number, new with every change, and 0 while there is no such file.     *)
(***************************************************************************)
EXTENDS Naturals, Sequences, FiniteSets

CONSTANTS
    Dirs, Root,     \* the directories that may come to exist
    Parent,         \* Parent[d], for every directory but the root
    Files, DirOf,   \* the files that may, and the directory of each
    TooDeep,        \* directories more than three levels below the root
    QueueSize,      \* WatchOptions.QueueSize
    KernelQueue,    \* events the kernel holds before it drops them
    MaxCycles,      \* WatchOptions.MaxCycles, 0 for ever
    MaxEdits, MaxIgnoreEdits, MaxFails  \* bounds of the model

ASSUME ConstantsAssumption ==
    /\ Root \in Dirs
    /\ IsFiniteSet(Dirs)
    /\ Parent \in [Dirs \ {Root} -> Dirs]
    /\ IsFiniteSet(Files)
    /\ DirOf \in [Files -> Dirs]
    /\ TooDeep \subseteq Dirs
    /\ "ignore file" \notin Files
    /\ QueueSize \in Nat \ {0}
    /\ KernelQueue \in Nat \ {0}
    /\ \A n \in {MaxCycles, MaxEdits, MaxIgnoreEdits, MaxFails} : n \in Nat

\* Cycles are counted as far as MaxCycles, or a first success, tells apart.
CycleCap == IF MaxCycles = 0 THEN 1 ELSE MaxCycles

IgnoreFile == "ignore file"

\* A file is written, created, removed or renamed; a directory is created.
Event == [op : {"file"}, file : Files] \cup [op : {"create"}, dir : Dirs]
             \cup [op : {"ignore", "overflow"}]

Path == Files \cup {IgnoreFile}

\* A time.Time the loop compares with now: unset, too recent, or due.
Timer == {"zero", "recent", "due"}

-----------------------------------------------------------------------------
VARIABLES
    dirs,      \* the directories that exist
    content,   \* the working tree: file -> its content
    ignored,   \* directories the ignore files on disk exclude
    edits, ignoreEdits,   \* changes so far
    watched,   \* directories with a kernel watch
    events,    \* events the kernel holds for w.Events and w.Errors
    index,     \* the durable index: file -> content indexed, 0 for none
    hasIndex   \* opt.GobPath exists

disk == <<dirs, content, ignored, edits, ignoreEdits>>
kernel == <<watched, events>>

VARIABLES
    pc,
    policy,    \* the ignore rules WatchFS loaded when it started
    paths, overflow, queueVersion,   \* refreshQueue
    dirtyAt,   \* dirtyAt of WatchFS, dirtySince of WatchPoll
    retryAt, retryCount, cycles,
    walk,      \* directories filepath.Walk has yet to list
    adding,    \* directories it is about to watch
    todo,      \* files a refresh has yet to visit
    got,       \* what the refresh in progress has read
    version,   \* queue version when the refresh began
    fails      \* failures so far

queue == <<paths, overflow, queueVersion>>
loop == <<policy, queue, dirtyAt, retryAt, retryCount, cycles>>
scan == <<walk, adding, todo, got, version>>
vars == <<disk, kernel, index, hasIndex, pc, loop, scan, fails>>

Labels == {"start", "force", "watch", "scan", "select", "poll", "pollScan", "stopped"}

Nothing == [f \in Files |-> 0]

\* What a clean index holds for a file.
Wanted(f) == IF DirOf[f] \in ignored THEN 0 ELSE content[f]

Init ==
    /\ dirs \in {D \in SUBSET Dirs : Root \in D /\ \A d \in D \ {Root} : Parent[d] \in D}
    /\ content = [f \in Files |-> IF DirOf[f] \in dirs THEN 1 ELSE 0]
    /\ ignored = {}
    /\ edits = 0 /\ ignoreEdits = 0
    /\ watched = {}
    /\ events = << >>
    /\ hasIndex \in BOOLEAN
    /\ index = Nothing
    /\ pc = "start"
    /\ policy = {}
    /\ paths = {} /\ overflow = FALSE /\ queueVersion = 0
    /\ dirtyAt = "zero" /\ retryAt = "zero"
    /\ retryCount = 0 /\ cycles = 0
    /\ walk = {} /\ adding = {}
    /\ todo = {} /\ got = Nothing /\ version = 0
    /\ fails = 0

-----------------------------------------------------------------------------
(* The environment: editors, and the kernel's bounded event queue.         *)

\* An event that finds the queue full is dropped and leaves one overflow.
Notify(d, e) ==
    events' = CASE d \notin watched -> events
                [] d \in watched /\ Len(events) < KernelQueue -> Append(events, e)
                [] d \in watched /\ Len(events) = KernelQueue ->
                       Append(events, [op |-> "overflow"])
                [] OTHER -> events

\* A content no file had before.
NewContent == edits + 2

\* A file is written, or created in a directory that is there.
Edit(f) ==
    /\ edits < MaxEdits
    /\ DirOf[f] \in dirs
    /\ content' = [content EXCEPT ![f] = NewContent]
    /\ edits' = edits + 1
    /\ Notify(DirOf[f], [op |-> "file", file |-> f])
    /\ UNCHANGED <<dirs, ignored, ignoreEdits, watched, index, hasIndex, pc, loop, scan, fails>>

Remove(f) ==
    /\ edits < MaxEdits
    /\ content[f] > 0
    /\ content' = [content EXCEPT ![f] = 0]
    /\ edits' = edits + 1
    /\ Notify(DirOf[f], [op |-> "file", file |-> f])
    /\ UNCHANGED <<dirs, ignored, ignoreEdits, watched, index, hasIndex, pc, loop, scan, fails>>

\* A directory appears, with its files.
Mkdir(d) ==
    /\ edits < MaxEdits
    /\ d \notin dirs /\ d # Root /\ Parent[d] \in dirs
    /\ dirs' = dirs \cup {d}
    /\ content' = [f \in Files |-> IF DirOf[f] = d THEN NewContent ELSE content[f]]
    /\ edits' = edits + 1
    /\ Notify(Parent[d], [op |-> "create", dir |-> d])
    /\ UNCHANGED <<ignored, ignoreEdits, watched, index, hasIndex, pc, loop, scan, fails>>

\* The root's ignore file starts or stops excluding a directory without
\* subdirectories.
EditIgnore(d) ==
    /\ ignoreEdits < MaxIgnoreEdits
    /\ d # Root
    /\ \A e \in Dirs \ {Root} : Parent[e] # d
    /\ ignored' = IF d \in ignored THEN ignored \ {d} ELSE ignored \cup {d}
    /\ ignoreEdits' = ignoreEdits + 1
    /\ Notify(Root, [op |-> "ignore"])
    /\ UNCHANGED <<dirs, content, edits, watched, index, hasIndex, pc, loop, scan, fails>>

Fail == fails < MaxFails /\ fails' = fails + 1

-----------------------------------------------------------------------------
(* OpenOrRefresh.                                                          *)

\* The ignore rules are read first; the files they leave are to be read.
BeginScan(l) ==
    /\ pc' = l
    /\ todo' = {f \in Files : DirOf[f] \notin ignored}
    /\ got' = Nothing
    /\ version' = queueVersion
    /\ UNCHANGED <<walk, adding>>

\* What a refresh sees of a file is what it is at one moment of the refresh: that
\* of the walk that does not find it, or that of its read.
ScanFile(f) ==
    /\ pc \in {"force", "scan", "pollScan"}
    /\ f \in todo
    /\ todo' = todo \ {f}
    /\ got' = [got EXCEPT ![f] = content[f]]
    /\ UNCHANGED <<disk, kernel, index, hasIndex, pc, loop, walk, adding, version, fails>>

\* wrote: st.Changed > 0 || st.Unchanged == 0.  A refresh that only loses files is
\* neither.
Wrote ==
    \/ pc = "force" \/ ~hasIndex
    \/ \E f \in Files : got[f] # 0 /\ got[f] # index[f]
    \/ \A f \in Files : got[f] = 0

\* Saved if it wrote; otherwise only if HEAD has moved since the last save.
StoreIndex ==
    /\ index' = got \/ (~Wrote /\ index' = index)
    /\ hasIndex' = TRUE

\* A failed refresh leaves the index alone, unless its last call fails.
RefreshFails ==
    /\ Fail
    /\ \/ UNCHANGED <<index, hasIndex>>
       \/ todo = {} /\ StoreIndex
    /\ todo' = {} /\ got' = Nothing /\ version' = 0
    /\ UNCHANGED <<walk, adding>>

ScanDone ==
    /\ todo = {}
    /\ StoreIndex
    /\ got' = Nothing /\ version' = 0

-----------------------------------------------------------------------------
(* refreshQueue.                                                           *)

Enqueue(path) ==
    /\ queueVersion' = queueVersion + 1
    /\ IF path \in paths \/ Cardinality(paths) < QueueSize
       THEN paths' = paths \cup {path} /\ UNCHANGED overflow
       ELSE overflow' = TRUE /\ UNCHANGED paths

\* enqueue(""): a full rescan is asked for.
EnqueueAll ==
    /\ queueVersion' = queueVersion + 1
    /\ overflow' = TRUE
    /\ UNCHANGED paths

Pending == overflow \/ paths # {}

Committed == queueVersion = version

Clear == paths' = {} /\ overflow' = FALSE /\ UNCHANGED queueVersion

-----------------------------------------------------------------------------
(* WatchFS starts: rules, first index, watches, first refresh.             *)

\* w.Add(rootAbs), then filepath.Walk.
BeginWalk == walk' = {Root} /\ adding' = {Root}

Start ==
    /\ pc = "start"
    /\ policy' = ignored
    /\ IF hasIndex
       THEN pc' = "watch" /\ BeginWalk /\ UNCHANGED <<todo, got, version>>
       ELSE BeginScan("force")
    /\ UNCHANGED <<disk, kernel, index, hasIndex, queue, dirtyAt, retryAt,
                   retryCount, cycles, fails>>

\* repoignore.Load, or the first index, fails: WatchFS returns the error.
StartFails ==
    /\ \/ pc = "start" /\ Fail /\ UNCHANGED <<index, hasIndex, scan>>
       \/ pc = "force" /\ RefreshFails
    /\ pc' = "stopped"
    /\ UNCHANGED <<disk, kernel, loop>>

ForceDone ==
    /\ pc = "force"
    /\ ScanDone
    /\ pc' = "watch"
    /\ BeginWalk
    /\ UNCHANGED <<disk, kernel, loop, todo, fails>>

\* fsnotify.NewWatcher fails before any watch exists.
FallBack ==
    /\ pc = "watch" /\ watched = {} /\ walk = {Root} /\ adding = {Root}
    /\ Fail
    /\ pc' = "poll"
    /\ walk' = {} /\ adding' = {}
    /\ UNCHANGED <<disk, kernel, index, hasIndex, loop, todo, got, version>>

\* w.Add may fail; nobody looks at its error.
AddWatch(d) ==
    /\ pc = "watch"
    /\ d \in adding
    /\ adding' = adding \ {d}
    /\ \/ watched' = watched \cup {d} /\ UNCHANGED fails
       \/ Fail /\ UNCHANGED watched
    /\ UNCHANGED <<disk, events, index, hasIndex, pc, loop, walk, todo, got, version>>

\* filepath.Walk lists a directory before it calls the function that watches it.
ListDir(d) ==
    /\ pc = "watch" /\ adding = {}
    /\ d \in walk
    /\ walk' = (walk \ {d}) \cup
               {e \in dirs \ {Root} : Parent[e] = d /\ e \notin policy /\ e \notin TooDeep}
    /\ adding' = {d}
    /\ UNCHANGED <<disk, kernel, index, hasIndex, pc, loop, todo, got, version, fails>>

FirstRefresh ==
    /\ pc = "watch" /\ walk = {} /\ adding = {}
    /\ BeginScan("scan")
    /\ UNCHANGED <<disk, kernel, index, hasIndex, loop, fails>>

-----------------------------------------------------------------------------
(* The event loop.                                                         *)

\* MaxCycles refreshes were done.
CycleDone(l) ==
    /\ cycles' = IF cycles < CycleCap THEN cycles + 1 ELSE cycles
    /\ pc' = IF MaxCycles > 0 /\ cycles + 1 >= MaxCycles THEN "stopped" ELSE l

\* Mutant: the queue is cleared before the refresh is known to have worked.
MutScanFails ==
    /\ pc = "scan"
    /\ RefreshFails
    /\ retryCount' = retryCount + 1
    /\ retryAt' = "recent"
    /\ Clear
    /\ pc' = "select"
    /\ UNCHANGED <<disk, kernel, policy, dirtyAt, cycles>>

ScanFails ==
    /\ pc = "scan"
    /\ RefreshFails
    /\ retryCount' = retryCount + 1
    /\ retryAt' = "recent"
    /\ pc' = "select"
    /\ UNCHANGED <<disk, kernel, policy, queue, dirtyAt, cycles>>

RefreshDone ==
    /\ pc = "scan"
    /\ ScanDone
    /\ IF Committed THEN Clear /\ dirtyAt' = "zero"
       ELSE UNCHANGED queue /\ dirtyAt' = "recent"
    /\ retryCount' = 0
    /\ retryAt' = "zero"
    /\ CycleDone("select")
    /\ UNCHANGED <<disk, kernel, policy, walk, adding, todo, fails>>

TakeEvent ==
    /\ pc = "select"
    /\ events # << >>
    /\ events' = Tail(events)
    /\ UNCHANGED <<disk, index, hasIndex, pc, policy, retryAt, retryCount, cycles, scan>>

\* An event under a path the rules loaded at the start ignore.
IgnoredEvent ==
    /\ TakeEvent
    /\ \/ Head(events).op = "file" /\ DirOf[Head(events).file] \in policy
       \/ Head(events).op = "create" /\ Head(events).dir \in policy
    /\ UNCHANGED <<watched, queue, dirtyAt, fails>>

\* Mutant: the time of the event is not noted.
MutFileEvent ==
    /\ TakeEvent
    /\ \/ Head(events).op = "ignore" /\ Enqueue(IgnoreFile)
       \/ Head(events).op = "file" /\ DirOf[Head(events).file] \notin policy
              /\ Enqueue(Head(events).file)
    /\ UNCHANGED <<watched, dirtyAt, fails>>

FileEvent ==
    /\ TakeEvent
    /\ \/ Head(events).op = "ignore" /\ Enqueue(IgnoreFile)
       \/ Head(events).op = "file" /\ DirOf[Head(events).file] \notin policy
              /\ Enqueue(Head(events).file)
    /\ dirtyAt' = "recent"
    /\ UNCHANGED <<watched, fails>>

\* A new directory is watched, and the tree rescanned.
DirEvent ==
    /\ TakeEvent
    /\ Head(events).op = "create"
    /\ Head(events).dir \notin policy
    /\ \/ watched' = watched \cup {Head(events).dir} /\ UNCHANGED fails
       \/ Fail /\ UNCHANGED watched
    /\ EnqueueAll
    /\ dirtyAt' = "recent"

WatcherError ==
    /\ TakeEvent
    /\ Head(events).op = "overflow"
    /\ EnqueueAll
    /\ dirtyAt' = "recent"
    /\ UNCHANGED <<watched, fails>>

Tick ==
    /\ pc = "select"
    /\ Pending
    /\ dirtyAt = "due"
    /\ retryAt # "recent"
    /\ BeginScan("scan")
    /\ UNCHANGED <<disk, kernel, index, hasIndex, loop, fails>>

-----------------------------------------------------------------------------
(* WatchPoll.                                                              *)

Fresh == hasIndex /\ \A f \in Files : index[f] = Wanted(f)

PollFresh ==
    /\ pc = "poll"
    /\ Fresh
    /\ CycleDone("poll")
    /\ UNCHANGED <<disk, kernel, index, hasIndex, policy, queue, dirtyAt, retryAt,
                   retryCount, scan, fails>>

PollDirty ==
    /\ pc = "poll"
    /\ hasIndex /\ ~Fresh
    /\ dirtyAt = "zero"
    /\ dirtyAt' = "recent"
    /\ UNCHANGED <<disk, kernel, index, hasIndex, pc, policy, queue, retryAt,
                   retryCount, cycles, scan, fails>>

\* The tree has been dirty for Debounce and no retry waits.
PollRefresh ==
    /\ pc = "poll"
    /\ hasIndex /\ ~Fresh
    /\ dirtyAt = "due"
    /\ retryAt # "recent"
    /\ BeginScan("pollScan")
    /\ UNCHANGED <<disk, kernel, index, hasIndex, loop, fails>>

\* Load fails: the refresh begins at once.
PollLoadFails ==
    /\ pc = "poll"
    /\ Fail
    /\ BeginScan("pollScan")
    /\ UNCHANGED <<disk, kernel, index, hasIndex, loop>>

PollFails ==
    /\ pc = "pollScan"
    /\ RefreshFails
    /\ retryCount' = retryCount + 1
    /\ retryAt' = "recent"
    /\ pc' = "poll"
    /\ UNCHANGED <<disk, kernel, policy, queue, dirtyAt, cycles>>

PollDone ==
    /\ pc = "pollScan"
    /\ ScanDone
    /\ dirtyAt' = "zero"
    /\ retryAt' = "zero"
    /\ retryCount' = 0
    /\ CycleDone("poll")
    /\ UNCHANGED <<disk, kernel, policy, queue, walk, adding, todo, fails>>

-----------------------------------------------------------------------------
(* Time, and the end of the context.                                       *)

DebounceElapses ==
    /\ dirtyAt = "recent"
    /\ dirtyAt' = "due"
    /\ UNCHANGED <<disk, kernel, index, hasIndex, pc, policy, queue, retryAt,
                   retryCount, cycles, scan, fails>>

RetryElapses ==
    /\ retryAt = "recent"
    /\ retryAt' = "due"
    /\ UNCHANGED <<disk, kernel, index, hasIndex, pc, policy, queue, dirtyAt,
                   retryCount, cycles, scan, fails>>

Cancel ==
    /\ pc \in {"select", "poll"}
    /\ pc' = "stopped"
    /\ UNCHANGED <<disk, kernel, index, hasIndex, loop, scan, fails>>

Environment ==
    \/ \E f \in Files : Edit(f) \/ Remove(f)
    \/ \E d \in Dirs : Mkdir(d) \/ EditIgnore(d)
    \/ StartFails \/ FallBack \/ ScanFails \/ PollFails \/ PollLoadFails
    \/ Cancel

Run ==
    \/ Start \/ ForceDone \/ FirstRefresh \/ RefreshDone
    \/ \E f \in Files : ScanFile(f)
    \/ \E d \in Dirs : AddWatch(d) \/ ListDir(d)
    \/ IgnoredEvent \/ FileEvent \/ DirEvent \/ WatcherError \/ Tick
    \/ PollFresh \/ PollDirty \/ PollRefresh \/ PollDone

Next == Environment \/ Run \/ DebounceElapses \/ RetryElapses

Spec == Init /\ [][Next]_vars

\* The loop runs whenever it can, and time passes.
FairSpec ==
    /\ Spec
    /\ WF_vars(Run)
    /\ WF_vars(DebounceElapses)
    /\ WF_vars(RetryElapses)

-----------------------------------------------------------------------------
(* Properties.                                                             *)

\* The queue never holds more paths than its capacity.
QueueOK ==
    /\ paths \subseteq Path
    /\ Cardinality(paths) <= QueueSize
    /\ overflow \in BOOLEAN
    /\ queueVersion \in Nat

TypeOK ==
    /\ dirs \subseteq Dirs /\ content \in [Files -> Nat]
    /\ ignored \subseteq Dirs
    /\ edits \in Nat /\ ignoreEdits \in Nat
    /\ watched \subseteq Dirs
    /\ events \in Seq(Event)
    /\ index \in [Files -> Nat]
    /\ hasIndex \in BOOLEAN
    /\ pc \in Labels
    /\ policy \subseteq Dirs
    /\ QueueOK
    /\ dirtyAt \in Timer /\ retryAt \in Timer
    /\ retryCount \in Nat /\ cycles \in Nat
    /\ walk \subseteq Dirs /\ adding \subseteq Dirs /\ todo \subseteq Files
    /\ got \in [Files -> Nat]
    /\ version \in Nat
    /\ fails \in Nat

\* The index misses what a file that is there holds now.
Stale(f) == Wanted(f) # 0 /\ index[f] # Wanted(f)

\* The files whose changes the loop can hear of.
Observed == IF Root \in watched THEN {f \in Files : DirOf[f] \in watched \ policy} ELSE {}

\* An event the loop has yet to take will bring a refresh that reads f.
Reports(e, f) == e.op \in {"overflow", "ignore"} \/ (e.op = "file" /\ e.file = f)

ReportedIn(es, f) == \E i \in 1 .. Len(es) : Reports(es[i], f)

Reported(f) == ReportedIn(events, f)

\* Once a refresh has succeeded, a file in a watched directory whose content the
\* index misses is in the kernel's queue or in the refresh queue: neither an event
\* during a refresh, nor a failed refresh, nor a full queue loses the change.  It
\* says nothing of a file that is gone, which stays in the durable index until a
\* refresh finds another change (wrote, persist.go:375).
ChangeTracked ==
    (pc = "select" /\ cycles > 0) =>
        \A f \in Observed : Stale(f) => Pending \/ Reported(f)

\* When the edits stop, the index catches up with every file that is there and that
\* the loop can hear of, and polling catches up with all that are there.
CatchesUp ==
    /\ cycles > 0 ~> (pc = "stopped" \/ \A f \in Observed : ~Stale(f))
    /\ pc = "poll" ~> (pc = "stopped" \/ \A f \in Files : ~Stale(f))

-----------------------------------------------------------------------------
(* The inductive invariant behind ChangeTracked.                           *)

\* A watch, a walk and a create event only concern directories that exist.
ExistsInv ==
    /\ Root \in dirs /\ watched \subseteq dirs
    /\ walk \subseteq dirs /\ adding \subseteq dirs
    /\ \A i \in 1 .. Len(events) : events[i].op = "create" => events[i].dir \in dirs

\* A full kernel queue says so.
OverflowInv ==
    /\ Len(events) <= KernelQueue + 1
    /\ Len(events) = KernelQueue + 1 => \E i \in 1 .. Len(events) : events[i].op = "overflow"

\* A change the refresh in progress has already missed is reported.
TrackInv ==
    /\ pc \in {"start", "force", "watch"} => cycles = 0
    /\ (pc = "scan" /\ cycles > 0) => Pending
    /\ pc = "scan" =>
          \A f \in Observed :
              (f \notin todo /\ Wanted(f) # 0 /\ got[f] # Wanted(f)) => Reported(f)
    /\ ChangeTracked

=============================================================================

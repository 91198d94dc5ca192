---------------------------- MODULE DurableFile ----------------------------
(***************************************************************************)
(* services/internal/durablefile: WriteFunc, step by step, by concurrent   *)
(* writers of one path, over a filesystem that keeps file contents and     *)
(* directory entries in memory until they are synced or it writes them     *)
(* back by itself, and loses the rest when the power fails.                *)
(***************************************************************************)
EXTENDS Integers

CONSTANTS
    Writers,    \* concurrent calls, of one process or of several
    Contents,   \* what emit writes
    Absent,     \* no file
    Torn,       \* a part of a content, or none of it
    None,
    DirSync,    \* whether the filesystem syncs directories (SyncDir tolerates one that does not)
    MaxWrites,  \* bound: calls
    MaxFaults   \* bound: crashes and failing operations

Files == 1 .. MaxWrites
Steps == {"emit", "sync", "close", "rename", "syncdir", "cleanup"}
Entry == [file : 0 .. MaxWrites, nth : Nat]
CallType == [at : Steps, file : Files, content : Contents, nth : Nat]

ASSUME ConstantsAssumption ==
    /\ DirSync \in BOOLEAN
    /\ {MaxWrites, MaxFaults} \subseteq Nat
    /\ {Absent, Torn} \cap Contents = {} /\ Absent # Torn
    /\ None \notin CallType /\ None \notin Contents \X BOOLEAN

VARIABLES
    next,       \* the files created so far
    cache,      \* the content of each file as a reader sees it
    disk,       \* the same, on disk
    temps,      \* the files that have a temporary name
    live,       \* what the path names: [file, nth], the nth rename; file 0 is no file
    stable,     \* the same, on disk
    dir,        \* whether the directory itself is on disk; MkdirAll may have just made it
    renames,    \* the renames so far
    call,       \* the call of each writer
    acked,      \* history: the last rename that a successful call made
    leaked,     \* history: temporary files of crashed calls, and whose removal failed
    faults      \* the faults so far

vars == <<next, cache, disk, temps, live, stable, dir, renames, call, acked, leaked, faults>>

content == <<cache, disk>>
names == <<live, stable, dir, renames>>
history == <<acked, leaked>>

Nothing == [file |-> 0, nth |-> 0]

Init ==
    /\ next = 0
    /\ cache = [f \in Files |-> Torn] /\ disk = [f \in Files |-> Torn]
    /\ temps = {} /\ live = Nothing /\ stable = Nothing
    /\ dir \in BOOLEAN /\ renames = 0
    /\ call = [w \in Writers |-> None]
    /\ acked = 0 /\ leaked = {} /\ faults = 0

Goto(w, at) == call' = [call EXCEPT ![w].at = at]
Return(w) == call' = [call EXCEPT ![w] = None]
Fault == faults < MaxFaults /\ faults' = faults + 1

\* CreateTemp, in the directory of the resolved target.
Begin(w, x) ==
    /\ call[w] = None /\ next < MaxWrites
    /\ next' = next + 1
    /\ temps' = temps \cup {next + 1}
    /\ call' = [call EXCEPT ![w] = [at |-> "emit", file |-> next + 1, content |-> x, nth |-> 0]]
    /\ UNCHANGED <<content, names, history, faults>>

\* Mutant: renamed without fsync.
MutEmit(w) ==
    /\ call[w] # None /\ call[w].at = "emit"
    /\ cache' = [cache EXCEPT ![call[w].file] = call[w].content]
    /\ Goto(w, "close")
    /\ UNCHANGED <<next, disk, temps, names, history, faults>>

Emit(w) ==
    /\ call[w] # None /\ call[w].at = "emit"
    /\ cache' = [cache EXCEPT ![call[w].file] = call[w].content]
    /\ Goto(w, "sync")
    /\ UNCHANGED <<next, disk, temps, names, history, faults>>

Sync(w) ==
    /\ call[w] # None /\ call[w].at = "sync"
    /\ disk' = [disk EXCEPT ![call[w].file] = cache[call[w].file]]
    /\ Goto(w, "close")
    /\ UNCHANGED <<next, cache, temps, names, history, faults>>

Close(w) ==
    /\ call[w] # None /\ call[w].at = "close"
    /\ Goto(w, "rename")
    /\ UNCHANGED <<next, content, temps, names, history, faults>>

\* Mutant: the cleanup is conditioned on an error, and emit panics.
MutFails(w) ==
    /\ call[w] # None /\ call[w].at = "emit"
    /\ Fault
    /\ Return(w)
    /\ UNCHANGED <<next, content, temps, names, history>>

\* Chmod, emit (which may also panic), Sync, Close or Rename fails: the deferred
\* function closes and removes the temporary file.
Fails(w) ==
    /\ call[w] # None /\ call[w].at \in {"emit", "sync", "close", "rename"}
    /\ Fault
    /\ Goto(w, "cleanup")
    /\ UNCHANGED <<next, content, temps, names, history>>

Cleanup(w) ==
    /\ call[w] # None /\ call[w].at = "cleanup"
    /\ \/ temps' = temps \ {call[w].file} /\ UNCHANGED <<leaked, faults>>
       \/ leaked' = leaked \cup {call[w].file} /\ Fault /\ UNCHANGED temps
    /\ Return(w)
    /\ UNCHANGED <<next, content, names, acked>>

Rename(w) ==
    /\ call[w] # None /\ call[w].at = "rename"
    /\ renames' = renames + 1
    /\ live' = [file |-> call[w].file, nth |-> renames + 1]
    /\ temps' = temps \ {call[w].file}
    /\ call' = [call EXCEPT ![w].at = "syncdir", ![w].nth = renames + 1]
    /\ UNCHANGED <<next, content, stable, dir, history, faults>>

\* Mutant: the directory is not synced.
MutSyncDir(w) ==
    /\ call[w] # None /\ call[w].at = "syncdir"
    /\ acked' = IF call[w].nth > acked THEN call[w].nth ELSE acked
    /\ Return(w)
    /\ UNCHANGED <<next, content, temps, names, leaked, faults>>

\* SyncDir: EINVAL and ENOTSUP count as success.
SyncDir(w) ==
    /\ call[w] # None /\ call[w].at = "syncdir"
    /\ stable' = IF DirSync THEN live ELSE stable
    /\ acked' = IF call[w].nth > acked THEN call[w].nth ELSE acked
    /\ Return(w)
    /\ UNCHANGED <<next, content, temps, live, dir, renames, leaked, faults>>

\* Any other failure is returned; the new content stays.
SyncDirFails(w) ==
    /\ call[w] # None /\ call[w].at = "syncdir"
    /\ Fault
    /\ Return(w)
    /\ UNCHANGED <<next, content, temps, names, history>>

-----------------------------------------------------------------------------
\* The filesystem, external: it writes back what it likes when it likes, except
\* that it does not reorder the renames of a directory.

FlushFile(f) ==
    /\ disk[f] # cache[f]
    /\ disk' = [disk EXCEPT ![f] = cache[f]]
    /\ UNCHANGED <<next, cache, temps, names, call, history, faults>>

FlushNames ==
    /\ stable # live
    /\ stable' = live
    /\ UNCHANGED <<next, content, temps, live, dir, renames, call, history, faults>>

\* The entry of the directory in its parent, and with it what the directory holds.
FlushDir ==
    /\ ~dir
    /\ dir' = TRUE /\ stable' = live
    /\ UNCHANGED <<next, content, temps, live, renames, call, history, faults>>

\* The process of a writer dies; the system goes on.
Kill(w) ==
    /\ call[w] # None
    /\ Fault
    /\ leaked' = leaked \cup (temps \cap {call[w].file})
    /\ Return(w)
    /\ UNCHANGED <<next, content, temps, names, acked>>

\* What is on disk at the path.
OnDisk == IF dir THEN stable ELSE Nothing

\* The power fails.  A directory that is not on disk takes everything with it.
Crash ==
    /\ Fault
    /\ cache' = disk
    /\ stable' = OnDisk /\ live' = OnDisk
    /\ call' = [w \in Writers |-> None]
    /\ leaked' = leaked \cup temps
    /\ temps' = IF dir THEN temps ELSE {}
    /\ acked' = IF dir THEN acked ELSE 0
    /\ UNCHANGED <<next, disk, dir, renames>>

WriterStep(w) ==
    \/ \E x \in Contents : Begin(w, x)
    \/ Emit(w) \/ Sync(w) \/ Close(w) \/ Fails(w) \/ Cleanup(w)
    \/ Rename(w) \/ SyncDir(w) \/ SyncDirFails(w) \/ Kill(w)

Next ==
    \/ \E w \in Writers : WriterStep(w)
    \/ \E f \in Files : FlushFile(f)
    \/ FlushNames \/ FlushDir \/ Crash

Spec == Init /\ [][Next]_vars

-----------------------------------------------------------------------------

TypeOK ==
    /\ next \in 0 .. MaxWrites /\ renames \in Nat /\ acked \in Nat /\ faults \in Nat
    /\ cache \in [Files -> Contents \cup {Torn}] /\ disk \in [Files -> Contents \cup {Torn}]
    /\ temps \subseteq Files /\ leaked \subseteq Files
    /\ live \in Entry /\ stable \in Entry
    /\ dir \in BOOLEAN
    /\ call \in [Writers -> CallType \cup {None}]

\* A call that returned nil is never undone: whatever crashes, the disk has its
\* rename or a later one, once the directory itself is on disk (WriteFunc: "then
\* fsync the parent directory so the new name itself is durable"; nobody syncs the
\* entry of a directory that MkdirAll has just made).
AckedStable == DirSync /\ dir => stable.nth >= acked

\* A temporary file belongs to a call in progress, or to one that crashed or
\* could not remove it.
TempsOwned ==
    \A f \in temps : f \in leaked \/ \E w \in Writers : call[w] # None /\ call[w].file = f

\* What a reader of the path finds.
Content(e, of) == IF e.file = 0 THEN Absent ELSE of[e.file]
Writing == [w \in Writers |-> IF call[w] = None THEN None
                              ELSE <<call[w].content, call[w].at = "syncdir">>]
Atomic == INSTANCE AtomicFile
    WITH visible <- Content(live, cache), durable <- Content(OnDisk, disk), writing <- Writing

\* Concurrent WriteFunc calls, readers and crashes see an atomic file: "a crash at
\* any point leaves either the old contents or the new ones, never a truncated
\* mixture".
ImplementsAtomicFile == Atomic!Spec

=============================================================================

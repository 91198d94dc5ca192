------------------------- MODULE DurableFileProofs -------------------------
(***************************************************************************)
(* Proofs about DurableFile, for any writers, contents and bounds, on a    *)
(* filesystem that syncs directories and on one that does not.             *)
(***************************************************************************)
EXTENDS DurableFile, TLAPS

\* The file of a call: synced before the rename, and not yet what a name refers to.
CallInv(w) ==
    call[w] # None =>
        /\ call[w].file <= next
        /\ call[w].at = "sync" => cache[call[w].file] = call[w].content
        /\ call[w].at \in {"close", "rename"} =>
               cache[call[w].file] = call[w].content /\ disk[call[w].file] = call[w].content
        /\ call[w].at # "syncdir" =>
               call[w].file # live.file /\ call[w].file # stable.file
        /\ call[w].at = "syncdir" => call[w].nth <= live.nth /\ call[w].file \notin temps

\* No two calls write one file.
OwnFiles ==
    \A v, w \in Writers :
        call[v] # None /\ call[w] # None /\ call[v].file = call[w].file => v = w

\* What a name refers to is complete, in memory and on disk.
Whole(e) ==
    /\ e.file <= next
    /\ e.file # 0 => cache[e.file] \in Contents /\ disk[e.file] = cache[e.file]

NameInv ==
    /\ Whole(live) /\ Whole(stable)
    /\ live.nth <= renames /\ stable.nth <= renames
    /\ DirSync => acked <= live.nth
    /\ DirSync /\ dir => acked <= stable.nth

IInv == TypeOK /\ (\A w \in Writers : CallInv(w)) /\ OwnFiles /\ NameInv /\ TempsOwned

-----------------------------------------------------------------------------

LEMMA CallNotNone == \A z \in CallType : z # None
  BY ConstantsAssumption

LEMMA CallTyped ==
  ASSUME TypeOK, NEW w \in Writers, call[w] # None
  PROVE  /\ call[w] \in CallType
         /\ call[w].at \in Steps /\ call[w].file \in Files
         /\ call[w].content \in Contents /\ call[w].nth \in Nat
  <1>1. call[w] \in CallType
    BY DEF TypeOK
  <1> QED
    BY <1>1 DEF CallType

\* What the steps of a call leave of its record.
LEMMA CallUpdate ==
  ASSUME TypeOK, NEW w \in Writers, call[w] # None, NEW at \in Steps, Goto(w, at)
  PROVE  /\ call' \in [Writers -> CallType \cup {None}]
         /\ call'[w] # None /\ call'[w].at = at
         /\ call'[w].file = call[w].file /\ call'[w].content = call[w].content
         /\ call'[w].nth = call[w].nth
         /\ \A v \in Writers : v # w => call'[v] = call[v]
  <1>1. call[w] \in CallType
    BY CallTyped
  <1>2. call \in [Writers -> CallType \cup {None}]
    BY DEF TypeOK
  <1>3. /\ call'[w] = [call[w] EXCEPT !.at = at]
        /\ \A v \in Writers : v # w => call'[v] = call[v]
        /\ call' \in [Writers -> CallType \cup {None}]
    BY <1>1, <1>2 DEF Goto, CallType
  <1>4. call'[w] \in CallType
    BY <1>1, <1>3 DEF CallType
  <1>5. call'[w] # None
    BY <1>4, CallNotNone
  <1>6. /\ call'[w].at = at
        /\ call'[w].file = call[w].file /\ call'[w].content = call[w].content
        /\ call'[w].nth = call[w].nth
    BY <1>1, <1>3 DEF CallType
  <1> QED
    BY <1>3, <1>5, <1>6

LEMMA CallReturn ==
  ASSUME TypeOK, NEW w \in Writers, Return(w)
  PROVE  /\ call' \in [Writers -> CallType \cup {None}]
         /\ call'[w] = None
         /\ \A v \in Writers : v # w => call'[v] = call[v]
  BY DEF TypeOK, Return

LEMMA CallBegin ==
  ASSUME TypeOK, NEW w \in Writers, NEW x \in Contents, Begin(w, x)
  PROVE  /\ call' \in [Writers -> CallType \cup {None}]
         /\ next' \in 0 .. MaxWrites /\ next + 1 \in Files
         /\ call'[w] # None /\ call'[w].at = "emit" /\ call'[w].file = next + 1
         /\ call'[w].content = x
         /\ \A v \in Writers : v # w => call'[v] = call[v]
  <1>1. next + 1 \in Files /\ next' \in 0 .. MaxWrites
    BY ConstantsAssumption DEF TypeOK, Begin, Files
  <1>2. [at |-> "emit", file |-> next + 1, content |-> x, nth |-> 0] \in CallType
    BY <1>1 DEF CallType, Steps
  <1>3. call \in [Writers -> CallType \cup {None}]
    BY DEF TypeOK
  <1>4. /\ call'[w] = [at |-> "emit", file |-> next + 1, content |-> x, nth |-> 0]
        /\ call' \in [Writers -> CallType \cup {None}]
        /\ \A v \in Writers : v # w => call'[v] = call[v]
    BY <1>2, <1>3 DEF Begin
  <1>5. call'[w] # None
    BY <1>2, <1>4, CallNotNone
  <1> QED
    BY <1>1, <1>4, <1>5

LEMMA CallRename ==
  ASSUME TypeOK, NEW w \in Writers, Rename(w)
  PROVE  /\ call' \in [Writers -> CallType \cup {None}]
         /\ call'[w] # None /\ call'[w].at = "syncdir" /\ call'[w].nth = renames + 1
         /\ call'[w].file = call[w].file /\ call'[w].content = call[w].content
         /\ \A v \in Writers : v # w => call'[v] = call[v]
         /\ live' \in Entry
  <1>1. call[w] \in CallType /\ call[w].file \in Files
    BY CallTyped DEF Rename
  <1>2. call \in [Writers -> CallType \cup {None}] /\ renames \in Nat
    BY DEF TypeOK
  <1>3. call'[w] = [call[w] EXCEPT !.at = "syncdir", !.nth = renames + 1]
    BY <1>2 DEF Rename
  <1>4. call'[w] \in CallType
    <2>1. renames + 1 \in Nat /\ "syncdir" \in Steps
      BY <1>2 DEF Steps
    <2> QED
      BY ONLY <1>1, <1>3, <2>1 DEF CallType
  <1>5. \A v \in Writers : v # w => call'[v] = call[v]
    BY <1>2 DEF Rename
  <1>6. call' \in [Writers -> CallType \cup {None}]
    BY <1>2, <1>4, <1>5 DEF Rename
  <1>7. call'[w] # None
    BY <1>4, CallNotNone
  <1>8. /\ call'[w].at = "syncdir" /\ call'[w].nth = renames + 1
        /\ call'[w].file = call[w].file /\ call'[w].content = call[w].content
    BY <1>1, <1>3 DEF CallType
  <1>9. live' \in Entry
    BY <1>1, <1>2, ConstantsAssumption DEF Rename, Entry, Files
  <1> QED
    BY <1>5, <1>6, <1>7, <1>8, <1>9

-----------------------------------------------------------------------------

LEMMA InitIInv == Init => IInv
  <1> SUFFICES ASSUME Init PROVE IInv
    OBVIOUS
  <1> USE ConstantsAssumption
  <1>1. TypeOK
    BY DEF Init, TypeOK, Entry, Nothing
  <1>2. \A w \in Writers : CallInv(w)
    BY DEF Init, CallInv
  <1>3. OwnFiles
    BY DEF Init, OwnFiles
  <1>4. NameInv
    BY DEF Init, NameInv, Whole, Nothing
  <1>5. TempsOwned
    BY DEF Init, TempsOwned
  <1> QED
    BY <1>1, <1>2, <1>3, <1>4, <1>5 DEF IInv

LEMMA StutterIInv == IInv /\ UNCHANGED vars => IInv'
  BY DEF IInv, vars, TypeOK, CallInv, OwnFiles, NameInv, Whole, TempsOwned

\* A file of a call that no name refers to changes, and nothing else: what the
\* names refer to stays whole, and the other calls keep what they know.
LEMMA FileStep ==
  ASSUME IInv, NEW w \in Writers, call[w] # None, call[w].at # "syncdir",
         NEW at \in Steps \ {"syncdir"}, Goto(w, at),
         UNCHANGED <<next, temps, live, stable, dir, renames, acked, leaked>>,
         faults' \in Nat,
         cache' \in [Files -> Contents \cup {Torn}], disk' \in [Files -> Contents \cup {Torn}],
         \A f \in Files : f # call[w].file => cache'[f] = cache[f] /\ disk'[f] = disk[f],
         at = "sync" => cache'[call[w].file] = call[w].content,
         at \in {"close", "rename"} => /\ cache'[call[w].file] = call[w].content
                                      /\ disk'[call[w].file] = call[w].content
  PROVE  IInv'
  <1>t. TypeOK
    BY DEF IInv
  <1>w. /\ call[w].file \in Files /\ call[w].file <= next
        /\ call[w].file # live.file /\ call[w].file # stable.file
    BY <1>t, CallTyped DEF IInv, CallInv
  <1>c. /\ call' \in [Writers -> CallType \cup {None}]
        /\ call'[w] # None /\ call'[w].at = at
        /\ call'[w].file = call[w].file /\ call'[w].content = call[w].content
        /\ \A v \in Writers : v # w => call'[v] = call[v]
    BY <1>t, CallUpdate
  <1>1. TypeOK'
    BY <1>t, <1>c DEF TypeOK
  <1>2. ASSUME NEW v \in Writers PROVE CallInv(v)'
    <2>1. CASE v = w
      BY <2>1, <1>w, <1>c DEF CallInv
    <2>2. CASE v # w /\ call[v] # None
      <3>1. call'[v] = call[v] /\ call[v].file # call[w].file /\ call[v].file \in Files
        BY <2>2, <1>t, <1>c, CallTyped DEF IInv, OwnFiles
      <3>2. cache'[call[v].file] = cache[call[v].file] /\ disk'[call[v].file] = disk[call[v].file]
        BY <3>1
      <3>3. CallInv(v)
        BY DEF IInv
      <3> QED
        BY <3>1, <3>2, <3>3 DEF CallInv
    <2>3. CASE v # w /\ call[v] = None
      BY <2>3, <1>c DEF CallInv
    <2> QED
      BY <2>1, <2>2, <2>3
  <1>3. OwnFiles'
    <2>1. \A v \in Writers : (call'[v] = None) = (call[v] = None)
      BY <1>c
    <2>2. \A v \in Writers : call[v] # None => call'[v].file = call[v].file
      BY <1>c
    <2>3. OwnFiles
      BY DEF IInv
    <2> QED
      BY <2>1, <2>2, <2>3 DEF OwnFiles
  <1>4. NameInv'
    <2>1. ASSUME NEW e \in Entry, e.file # call[w].file, Whole(e)
          PROVE  /\ e.file <= next
                 /\ e.file # 0 => cache'[e.file] \in Contents /\ disk'[e.file] = cache'[e.file]
      <3>1. e.file # 0 => e.file \in Files
        BY ConstantsAssumption DEF Entry, Files
      <3> QED
        BY <3>1, <2>1 DEF Whole
    <2>2. live \in Entry /\ stable \in Entry
      BY <1>t DEF TypeOK
    <2>3. NameInv
      BY DEF IInv
    <2>4. Whole(live)'
      BY <2>1, <2>2, <2>3, <1>w DEF NameInv, Whole
    <2>5. Whole(stable)'
      BY <2>1, <2>2, <2>3, <1>w DEF NameInv, Whole
    <2> QED
      BY <2>3, <2>4, <2>5 DEF NameInv
  <1>5. TempsOwned'
    <2>1. \A v \in Writers : call[v] # None => call'[v] # None /\ call'[v].file = call[v].file
      BY <1>c
    <2>2. TempsOwned
      BY DEF IInv
    <2> QED
      BY <2>1, <2>2 DEF TempsOwned
  <1> QED
    BY <1>1, <1>2, <1>3, <1>4, <1>5 DEF IInv

\* A call ends: the others, and what the names refer to, are as they were.
LEMMA ReturnStep ==
  ASSUME IInv, NEW w \in Writers, call[w] # None, Return(w),
         UNCHANGED <<next, cache, disk, live, dir, renames>>,
         faults' \in Nat, acked' \in Nat,
         temps' \subseteq temps, leaked' \subseteq Files, leaked \subseteq leaked',
         call[w].file \in temps' => call[w].file \in leaked',
         stable' \in {stable, live},
         DirSync => acked' <= live.nth,
         DirSync /\ dir => acked' <= stable'.nth
  PROVE  IInv'
  <1>t. TypeOK
    BY DEF IInv
  <1>c. /\ call' \in [Writers -> CallType \cup {None}]
        /\ call'[w] = None
        /\ \A v \in Writers : v # w => call'[v] = call[v]
    BY <1>t, CallReturn
  <1>1. TypeOK'
    BY <1>t, <1>c DEF TypeOK
  <1>2. ASSUME NEW v \in Writers PROVE CallInv(v)'
    <2>1. CallInv(v)
      BY DEF IInv
    <2> QED
      BY <2>1, <1>c DEF CallInv
  <1>3. OwnFiles'
    BY <1>c DEF IInv, OwnFiles
  <1>4. NameInv'
    <2>1. NameInv
      BY DEF IInv
    <2>2. Whole(live)' /\ Whole(stable)'
      BY <2>1 DEF NameInv, Whole
    <2> QED
      BY <2>1, <2>2 DEF NameInv
  <1>5. TempsOwned'
    <2>1. TempsOwned
      BY DEF IInv
    <2>2. ASSUME NEW f \in temps'
          PROVE  f \in leaked' \/ \E v \in Writers : call'[v] # None /\ call'[v].file = f
      <3>1. CASE f = call[w].file
        BY <3>1, <2>2
      <3>2. CASE f # call[w].file
        BY <3>2, <2>1, <1>c DEF TempsOwned
      <3> QED
        BY <3>1, <3>2
    <2> QED
      BY <2>2 DEF TempsOwned
  <1> QED
    BY <1>1, <1>2, <1>3, <1>4, <1>5 DEF IInv

-----------------------------------------------------------------------------
\* One lemma per action.

LEMMA BeginIInv ==
  ASSUME IInv, NEW w \in Writers, NEW x \in Contents, Begin(w, x)
  PROVE  IInv'
  <1>t. TypeOK
    BY DEF IInv
  <1>c. /\ call' \in [Writers -> CallType \cup {None}]
        /\ next' \in 0 .. MaxWrites /\ next + 1 \in Files
        /\ call'[w] # None /\ call'[w].at = "emit" /\ call'[w].file = next + 1
        /\ \A v \in Writers : v # w => call'[v] = call[v]
    BY <1>t, CallBegin
  <1>u. /\ next' = next + 1 /\ temps' = temps \cup {next + 1}
        /\ UNCHANGED <<cache, disk, live, stable, dir, renames, acked, leaked, faults>>
    BY DEF Begin, content, names, history
  <1>n. next \in Nat /\ live.file \in Nat /\ stable.file \in Nat
    BY <1>t, ConstantsAssumption DEF TypeOK, Entry
  <1>e. live.file <= next /\ stable.file <= next
    BY DEF IInv, NameInv, Whole
  <1>f. \A v \in Writers : call[v] # None => call[v].file <= next /\ call[v].file \in Nat
    <2>1. \A v \in Writers : call[v] # None => call[v].file \in Files
      BY <1>t, CallTyped
    <2>2. \A v \in Writers : call[v] # None => call[v].file <= next
      BY DEF IInv, CallInv
    <2> QED
      BY <2>1, <2>2, ConstantsAssumption DEF Files
  <1>1. TypeOK'
    BY <1>t, <1>c, <1>u DEF TypeOK
  <1>2. ASSUME NEW v \in Writers PROVE CallInv(v)'
    <2>1. CASE v = w
      BY <2>1, <1>c, <1>u, <1>n, <1>e DEF CallInv
    <2>2. CASE v # w
      <3>1. call'[v] = call[v] /\ CallInv(v)
        BY <2>2, <1>c DEF IInv
      <3>2. call[v] # None => call[v].file <= next' /\ call[v].file # next + 1
        BY <1>f, <1>n, <1>u
      <3> QED
        BY <3>1, <3>2, <1>u DEF CallInv
    <2> QED
      BY <2>1, <2>2
  <1>3. OwnFiles'
    <2>1. \A v \in Writers : call[v] # None => call[v].file # next + 1
      BY <1>f, <1>n
    <2>2. OwnFiles
      BY DEF IInv
    <2> QED
      BY <2>1, <2>2, <1>c DEF OwnFiles
  <1>4. NameInv'
    <2>1. NameInv
      BY DEF IInv
    <2>2. live.file <= next' /\ stable.file <= next'
      BY <1>n, <1>e, <1>u
    <2> QED
      BY <2>1, <2>2, <1>u DEF NameInv, Whole
  <1>5. TempsOwned'
    <2>1. TempsOwned /\ call[w] = None
      BY DEF IInv, Begin
    <2> QED
      BY <2>1, <1>c, <1>u DEF TempsOwned
  <1> QED
    BY <1>1, <1>2, <1>3, <1>4, <1>5 DEF IInv

LEMMA EmitIInv ==
  ASSUME IInv, NEW w \in Writers, Emit(w)
  PROVE  IInv'
  <1>t. TypeOK
    BY DEF IInv
  <1>1. /\ call[w] # None /\ call[w].at = "emit" /\ Goto(w, "sync")
        /\ cache' = [cache EXCEPT ![call[w].file] = call[w].content]
        /\ UNCHANGED <<next, disk, temps, live, stable, dir, renames, acked, leaked, faults>>
    BY DEF Emit, names, history
  <1>2. call[w].file \in Files /\ call[w].content \in Contents
    BY <1>t, <1>1, CallTyped
  <1>3. /\ cache \in [Files -> Contents \cup {Torn}] /\ disk \in [Files -> Contents \cup {Torn}]
        /\ faults \in Nat
    BY <1>t DEF TypeOK
  <1>4. /\ cache' \in [Files -> Contents \cup {Torn}]
        /\ cache'[call[w].file] = call[w].content
        /\ \A f \in Files : f # call[w].file => cache'[f] = cache[f]
    BY <1>1, <1>2, <1>3
  <1>5. "sync" \in Steps \ {"syncdir"}
    BY DEF Steps
  <1> QED
    BY <1>1, <1>3, <1>4, <1>5, FileStep

LEMMA SyncIInv ==
  ASSUME IInv, NEW w \in Writers, Sync(w)
  PROVE  IInv'
  <1>t. TypeOK
    BY DEF IInv
  <1>1. /\ call[w] # None /\ call[w].at = "sync" /\ Goto(w, "close")
        /\ disk' = [disk EXCEPT ![call[w].file] = cache[call[w].file]]
        /\ UNCHANGED <<next, cache, temps, live, stable, dir, renames, acked, leaked, faults>>
    BY DEF Sync, names, history
  <1>2. call[w].file \in Files /\ call[w].content \in Contents
    BY <1>t, <1>1, CallTyped
  <1>3. /\ cache \in [Files -> Contents \cup {Torn}] /\ disk \in [Files -> Contents \cup {Torn}]
        /\ faults \in Nat
    BY <1>t DEF TypeOK
  <1>4. cache[call[w].file] = call[w].content
    BY <1>1 DEF IInv, CallInv
  <1>5. /\ disk' \in [Files -> Contents \cup {Torn}]
        /\ disk'[call[w].file] = call[w].content
        /\ \A f \in Files : f # call[w].file => disk'[f] = disk[f]
    BY <1>1, <1>2, <1>3, <1>4
  <1>6. "close" \in Steps \ {"syncdir"}
    BY DEF Steps
  <1> QED
    BY <1>1, <1>3, <1>4, <1>5, <1>6, FileStep

LEMMA CloseIInv ==
  ASSUME IInv, NEW w \in Writers, Close(w)
  PROVE  IInv'
  <1>1. /\ call[w] # None /\ call[w].at = "close" /\ Goto(w, "rename")
        /\ UNCHANGED <<next, cache, disk, temps, live, stable, dir, renames, acked, leaked, faults>>
    BY DEF Close, content, names, history
  <1>2. /\ cache \in [Files -> Contents \cup {Torn}] /\ disk \in [Files -> Contents \cup {Torn}]
        /\ faults \in Nat
    BY DEF IInv, TypeOK
  <1>3. cache[call[w].file] = call[w].content /\ disk[call[w].file] = call[w].content
    BY <1>1 DEF IInv, CallInv
  <1>4. "rename" \in Steps \ {"syncdir"}
    BY DEF Steps
  <1> QED
    BY <1>1, <1>2, <1>3, <1>4, FileStep

LEMMA FailsIInv ==
  ASSUME IInv, NEW w \in Writers, Fails(w)
  PROVE  IInv'
  <1>1. /\ call[w] # None /\ call[w].at # "syncdir" /\ Goto(w, "cleanup")
        /\ UNCHANGED <<next, cache, disk, temps, live, stable, dir, renames, acked, leaked>>
        /\ faults' = faults + 1
    BY DEF Fails, Fault, content, names, history
  <1>2. /\ cache \in [Files -> Contents \cup {Torn}] /\ disk \in [Files -> Contents \cup {Torn}]
        /\ faults \in Nat
    BY DEF IInv, TypeOK
  <1>3. faults' \in Nat
    BY <1>1, <1>2
  <1>4. "cleanup" \in Steps \ {"syncdir"}
    BY DEF Steps
  <1> QED
    BY <1>1, <1>2, <1>3, <1>4, FileStep

LEMMA CleanupIInv ==
  ASSUME IInv, NEW w \in Writers, Cleanup(w)
  PROVE  IInv'
  <1>t. TypeOK /\ NameInv
    BY DEF IInv
  <1>1. /\ call[w] # None /\ Return(w)
        /\ UNCHANGED <<next, cache, disk, live, stable, dir, renames, acked>>
        /\ \/ temps' = temps \ {call[w].file} /\ leaked' = leaked /\ faults' = faults
           \/ leaked' = leaked \cup {call[w].file} /\ faults' = faults + 1 /\ temps' = temps
    BY DEF Cleanup, Fault, content, names
  <1>2. call[w].file \in Files /\ leaked \subseteq Files /\ faults \in Nat /\ acked \in Nat
    BY <1>t, <1>1, CallTyped DEF TypeOK
  <1>3. DirSync => acked <= live.nth
    BY <1>t DEF NameInv
  <1>4. DirSync /\ dir => acked <= stable.nth
    BY <1>t DEF NameInv
  <1>5. faults' \in Nat
    BY <1>1, <1>2
  <1>6. /\ temps' \subseteq temps /\ leaked' \subseteq Files /\ leaked \subseteq leaked'
        /\ call[w].file \in temps' => call[w].file \in leaked'
    BY <1>1, <1>2
  <1> QED
    BY <1>1, <1>2, <1>3, <1>4, <1>5, <1>6, ReturnStep

LEMMA SyncDirIInv ==
  ASSUME IInv, NEW w \in Writers, SyncDir(w)
  PROVE  IInv'
  <1>t. TypeOK /\ NameInv /\ CallInv(w) /\ TempsOwned
    BY DEF IInv
  <1>1. /\ call[w] # None /\ call[w].at = "syncdir" /\ Return(w)
        /\ UNCHANGED <<next, cache, disk, temps, live, dir, renames, leaked, faults>>
        /\ stable' = IF DirSync THEN live ELSE stable
        /\ acked' = IF call[w].nth > acked THEN call[w].nth ELSE acked
    BY DEF SyncDir, content
  <1>2. /\ call[w].nth \in Nat /\ leaked \subseteq Files /\ faults \in Nat /\ acked \in Nat
        /\ live.nth \in Nat
    BY <1>t, <1>1, CallTyped DEF TypeOK, Entry
  <1>3. DirSync => acked' <= live.nth
    BY <1>t, <1>1, <1>2 DEF NameInv, CallInv
  <1>4. DirSync /\ dir => acked' <= stable'.nth
    BY <1>1, <1>3
  <1>5. acked' \in Nat
    BY <1>1, <1>2
  <1>6. call[w].file \notin temps
    BY <1>t, <1>1 DEF CallInv
  <1> QED
    BY <1>1, <1>2, <1>3, <1>4, <1>5, <1>6, ReturnStep

LEMMA SyncDirFailsIInv ==
  ASSUME IInv, NEW w \in Writers, SyncDirFails(w)
  PROVE  IInv'
  <1>t. TypeOK /\ NameInv /\ CallInv(w)
    BY DEF IInv
  <1>1. /\ call[w] # None /\ call[w].at = "syncdir" /\ Return(w)
        /\ UNCHANGED <<next, cache, disk, temps, live, stable, dir, renames, acked, leaked>>
        /\ faults' = faults + 1
    BY DEF SyncDirFails, Fault, content, names, history
  <1>2. leaked \subseteq Files /\ faults \in Nat /\ acked \in Nat
    BY <1>t DEF TypeOK
  <1>3. DirSync => acked <= live.nth
    BY <1>t DEF NameInv
  <1>4. DirSync /\ dir => acked <= stable.nth
    BY <1>t DEF NameInv
  <1>5. faults' \in Nat
    BY <1>1, <1>2
  <1>6. call[w].file \notin temps
    BY <1>t, <1>1 DEF CallInv
  <1> QED
    BY <1>1, <1>2, <1>3, <1>4, <1>5, <1>6, ReturnStep

LEMMA KillIInv ==
  ASSUME IInv, NEW w \in Writers, Kill(w)
  PROVE  IInv'
  <1>t. TypeOK /\ NameInv
    BY DEF IInv
  <1>1. /\ call[w] # None /\ Return(w)
        /\ UNCHANGED <<next, cache, disk, temps, live, stable, dir, renames, acked>>
        /\ leaked' = leaked \cup (temps \cap {call[w].file})
        /\ faults' = faults + 1
    BY DEF Kill, Fault, content, names
  <1>2. leaked \subseteq Files /\ temps \subseteq Files /\ faults \in Nat /\ acked \in Nat
    BY <1>t DEF TypeOK
  <1>3. DirSync => acked <= live.nth
    BY <1>t DEF NameInv
  <1>4. DirSync /\ dir => acked <= stable.nth
    BY <1>t DEF NameInv
  <1>5. faults' \in Nat
    BY <1>1, <1>2
  <1>6. /\ leaked' \subseteq Files /\ leaked \subseteq leaked'
        /\ call[w].file \in temps => call[w].file \in leaked'
    BY <1>1, <1>2
  <1> QED
    BY <1>1, <1>2, <1>3, <1>4, <1>5, <1>6, ReturnStep

LEMMA RenameIInv ==
  ASSUME IInv, NEW w \in Writers, Rename(w)
  PROVE  IInv'
  <1>t. TypeOK
    BY DEF IInv
  <1>c. /\ call' \in [Writers -> CallType \cup {None}]
        /\ call'[w] # None /\ call'[w].at = "syncdir" /\ call'[w].nth = renames + 1
        /\ call'[w].file = call[w].file
        /\ \A v \in Writers : v # w => call'[v] = call[v]
        /\ live' \in Entry
    BY <1>t, CallRename
  <1>u. /\ call[w] # None /\ call[w].at = "rename"
        /\ renames' = renames + 1 /\ temps' = temps \ {call[w].file}
        /\ live' = [file |-> call[w].file, nth |-> renames + 1]
        /\ UNCHANGED <<next, cache, disk, stable, dir, acked, leaked, faults>>
    BY DEF Rename, content, history
  <1>l. live'.file = call[w].file /\ live'.nth = renames + 1
    BY <1>u
  <1>w. /\ call[w].file <= next /\ call[w].content \in Contents
        /\ cache[call[w].file] = call[w].content /\ disk[call[w].file] = call[w].content
    BY <1>t, <1>u, CallTyped DEF IInv, CallInv
  <1>n. /\ renames \in Nat /\ acked \in Nat /\ live.nth \in Nat /\ stable.nth \in Nat
        /\ live.nth <= renames /\ stable.nth <= renames
    BY <1>t DEF TypeOK, Entry, IInv, NameInv
  <1>1. TypeOK'
    <2>1. renames' \in Nat
      BY <1>n, <1>u
    <2> QED
      BY <2>1, <1>t, <1>c, <1>u DEF TypeOK
  <1>2. ASSUME NEW v \in Writers PROVE CallInv(v)'
    <2>1. CASE v = w
      <3>1. call'[w].nth <= live'.nth
        BY <1>c, <1>l, <1>n
      <3> QED
        BY <2>1, <3>1, <1>c, <1>u, <1>w DEF CallInv
    <2>2. CASE v # w /\ call[v] # None
      <3>1. call'[v] = call[v] /\ call[v].file # call[w].file /\ CallInv(v)
        BY <2>2, <1>c, <1>u DEF IInv, OwnFiles
      <3>2. call[v].at = "syncdir" => call[v].nth <= live'.nth
        <4>1. call[v].nth \in Nat
          BY <2>2, <1>t, CallTyped
        <4>2. call[v].at = "syncdir" => call[v].nth <= live.nth
          BY <2>2, <3>1 DEF CallInv
        <4> QED
          BY <4>1, <4>2, <1>l, <1>n
      <3> QED
        BY <3>1, <3>2, <1>l, <1>u DEF CallInv
    <2>3. CASE v # w /\ call[v] = None
      BY <2>3, <1>c DEF CallInv
    <2> QED
      BY <2>1, <2>2, <2>3
  <1>3. OwnFiles'
    <2>1. \A v \in Writers : (call'[v] = None) = (call[v] = None)
      BY <1>c, <1>u
    <2>2. \A v \in Writers : call[v] # None => call'[v].file = call[v].file
      BY <1>c
    <2>3. OwnFiles
      BY DEF IInv
    <2> QED
      BY <2>1, <2>2, <2>3 DEF OwnFiles
  <1>4. NameInv'
    <2>1. NameInv
      BY DEF IInv
    <2>2. Whole(live)'
      BY <1>l, <1>u, <1>w DEF Whole
    <2>3. Whole(stable)'
      BY <2>1, <1>u DEF NameInv, Whole
    <2>4. live'.nth <= renames' /\ stable.nth <= renames'
      BY <1>l, <1>n, <1>u
    <2>5. DirSync => acked <= live'.nth
      BY <2>1, <1>l, <1>n DEF NameInv
    <2> QED
      BY <2>1, <2>2, <2>3, <2>4, <2>5, <1>u DEF NameInv
  <1>5. TempsOwned'
    <2>1. TempsOwned
      BY DEF IInv
    <2> QED
      BY <2>1, <1>c, <1>u DEF TempsOwned
  <1> QED
    BY <1>1, <1>2, <1>3, <1>4, <1>5 DEF IInv

LEMMA FlushFileIInv ==
  ASSUME IInv, NEW f \in Files, FlushFile(f)
  PROVE  IInv'
  <1>t. TypeOK
    BY DEF IInv
  <1>u. /\ disk[f] # cache[f] /\ disk' = [disk EXCEPT ![f] = cache[f]]
        /\ UNCHANGED <<next, cache, temps, live, stable, dir, renames, call, acked, leaked, faults>>
    BY DEF FlushFile, names, history
  <1>d. /\ disk' \in [Files -> Contents \cup {Torn}]
        /\ disk'[f] = cache[f] /\ \A g \in Files : g # f => disk'[g] = disk[g]
    BY <1>t, <1>u DEF TypeOK
  <1>1. TypeOK'
    BY <1>t, <1>u, <1>d DEF TypeOK
  <1>2. ASSUME NEW w \in Writers PROVE CallInv(w)'
    <2>1. CallInv(w)
      BY DEF IInv
    <2>2. CASE call[w] = None
      BY <2>2, <1>u DEF CallInv
    <2>3. CASE call[w] # None
      <3>1. call[w].file \in Files
        BY <2>3, <1>t, CallTyped
      <3>2. \A z : cache[call[w].file] = z /\ disk[call[w].file] = z => disk'[call[w].file] = z
        BY <3>1, <1>d
      <3> QED
        BY <2>1, <2>3, <3>2, <1>u DEF CallInv
    <2> QED
      BY <2>2, <2>3
  <1>3. OwnFiles'
    BY <1>u DEF IInv, OwnFiles
  <1>4. NameInv'
    <2>1. ASSUME NEW e \in Entry, Whole(e), e.file # 0
          PROVE  disk'[e.file] = cache[e.file]
      <3>1. e.file \in Files
        BY <2>1, ConstantsAssumption DEF Entry, Files
      <3> QED
        BY <2>1, <3>1, <1>d DEF Whole
    <2>2. live \in Entry /\ stable \in Entry /\ NameInv
      BY <1>t DEF TypeOK, IInv
    <2>3. Whole(live)'
      BY <2>1, <2>2, <1>u DEF NameInv, Whole
    <2>4. Whole(stable)'
      BY <2>1, <2>2, <1>u DEF NameInv, Whole
    <2> QED
      BY <2>2, <2>3, <2>4, <1>u DEF NameInv
  <1>5. TempsOwned'
    BY <1>u DEF IInv, TempsOwned
  <1> QED
    BY <1>1, <1>2, <1>3, <1>4, <1>5 DEF IInv

\* FlushNames and FlushDir.
LEMMA NamesIInv ==
  ASSUME IInv, stable' = live, dir' \in BOOLEAN,
         UNCHANGED <<next, cache, disk, temps, live, renames, call, acked, leaked, faults>>
  PROVE  IInv'
  <1>1. TypeOK'
    BY DEF IInv, TypeOK
  <1>2. ASSUME NEW w \in Writers PROVE CallInv(w)'
    <2>1. CallInv(w)
      BY DEF IInv
    <2> QED
      BY <2>1 DEF CallInv
  <1>3. OwnFiles'
    BY DEF IInv, OwnFiles
  <1>4. NameInv'
    BY DEF IInv, NameInv, Whole
  <1>5. TempsOwned'
    BY DEF IInv, TempsOwned
  <1> QED
    BY <1>1, <1>2, <1>3, <1>4, <1>5 DEF IInv

LEMMA OnDiskWhole ==
  ASSUME IInv
  PROVE  OnDisk \in Entry /\ Whole(OnDisk) /\ OnDisk.nth <= renames
  <1>1. Nothing \in Entry /\ Nothing.file = 0 /\ Nothing.nth = 0
    BY ConstantsAssumption DEF Nothing, Entry
  <1>2. next \in Nat /\ renames \in Nat /\ stable \in Entry /\ live \in Entry
    BY DEF IInv, TypeOK
  <1>3. Whole(Nothing)
    BY <1>1, <1>2 DEF Whole
  <1>4. NameInv /\ stable.nth <= renames
    BY DEF IInv, NameInv
  <1> QED
    BY <1>1, <1>2, <1>3, <1>4 DEF OnDisk, NameInv

LEMMA CrashIInv ==
  ASSUME IInv, Crash
  PROVE  IInv'
  <1>t. TypeOK /\ NameInv
    BY DEF IInv
  <1>u. /\ cache' = disk /\ stable' = OnDisk /\ live' = OnDisk
        /\ call' = [w \in Writers |-> None] /\ leaked' = leaked \cup temps
        /\ temps' = IF dir THEN temps ELSE {}
        /\ acked' = IF dir THEN acked ELSE 0
        /\ faults' = faults + 1 /\ UNCHANGED <<next, disk, dir, renames>>
    BY DEF Crash, Fault
  <1>o. OnDisk \in Entry /\ Whole(OnDisk) /\ OnDisk.nth <= renames
    BY OnDiskWhole
  <1>1. TypeOK'
    <2>1. faults' \in Nat /\ acked' \in Nat /\ temps' \subseteq Files /\ leaked' \subseteq Files
      BY <1>t, <1>u DEF TypeOK
    <2>2. call' \in [Writers -> CallType \cup {None}]
      BY <1>u
    <2> QED
      BY <2>1, <2>2, <1>t, <1>u, <1>o DEF TypeOK
  <1>2. \A w \in Writers : CallInv(w)'
    BY <1>u DEF CallInv
  <1>3. OwnFiles'
    BY <1>u DEF OwnFiles
  <1>4. NameInv'
    <2>1. Whole(live)' /\ Whole(stable)'
      BY <1>o, <1>u DEF Whole
    <2>2. DirSync => acked' <= OnDisk.nth
      <3>1. CASE dir
        BY <3>1, <1>t, <1>u DEF NameInv, OnDisk
      <3>2. CASE ~dir
        BY <3>2, <1>u, <1>o DEF Entry
      <3> QED
        BY <3>1, <3>2
    <2> QED
      BY <2>1, <2>2, <1>u, <1>o DEF NameInv
  <1>5. TempsOwned'
    BY <1>u DEF TempsOwned
  <1> QED
    BY <1>1, <1>2, <1>3, <1>4, <1>5 DEF IInv

LEMMA NextIInv == IInv /\ [Next]_vars => IInv'
  <1> SUFFICES ASSUME IInv, [Next]_vars PROVE IInv'
    OBVIOUS
  <1>1. ASSUME NEW w \in Writers, WriterStep(w) PROVE IInv'
    BY <1>1, BeginIInv, EmitIInv, SyncIInv, CloseIInv, FailsIInv, CleanupIInv, RenameIInv,
       SyncDirIInv, SyncDirFailsIInv, KillIInv DEF WriterStep
  <1>2. ASSUME NEW f \in Files, FlushFile(f) PROVE IInv'
    BY <1>2, FlushFileIInv
  <1>3. CASE FlushNames \/ FlushDir
    <2>1. dir \in BOOLEAN
      BY DEF IInv, TypeOK
    <2> QED
      BY <1>3, <2>1, NamesIInv DEF FlushNames, FlushDir, content, history
  <1>4. CASE Crash
    BY <1>4, CrashIInv
  <1>5. CASE UNCHANGED vars
    BY <1>5, StutterIInv
  <1> QED
    BY <1>1, <1>2, <1>3, <1>4, <1>5 DEF Next

THEOREM AlwaysIInv == Spec => []IInv
  BY InitIInv, NextIInv, PTL DEF Spec

\* The state has its type: no call creates a file past the bound, and every
\* content a file holds is a caller's or torn.
THEOREM TypeCorrect == Spec => []TypeOK
  <1>1. IInv => TypeOK
    BY DEF IInv
  <1> QED
    BY <1>1, AlwaysIInv, PTL

\* Where directories can be synced, what WriteFunc acknowledged is on disk in
\* its directory, or a later rename is, through every crash.
THEOREM AckedIsStable == Spec => []AckedStable
  <1>1. IInv => AckedStable
    <2> SUFFICES ASSUME IInv PROVE AckedStable
      OBVIOUS
    <2>1. acked \in Nat /\ stable.nth \in Nat
      BY DEF IInv, TypeOK, Entry
    <2> QED
      BY <2>1 DEF IInv, NameInv, AckedStable
  <1> QED
    BY <1>1, AlwaysIInv, PTL

\* WriteFunc removes its temporary file whichever way it ends, a panic included,
\* unless the removal fails or the process dies.
THEOREM TempsAreOwned == Spec => []TempsOwned
  <1>1. IInv => TempsOwned
    BY DEF IInv
  <1> QED
    BY <1>1, AlwaysIInv, PTL

-----------------------------------------------------------------------------
\* The refinement: one lemma per step that the abstract file sees.

LEMMA WritingOf ==
  ASSUME NEW w \in Writers
  PROVE  /\ call[w] = None => Writing[w] = None
         /\ call[w] # None => Writing[w] = <<call[w].content, call[w].at = "syncdir">>
  BY DEF Writing

LEMMA SomeWriting ==
  ASSUME TypeOK, NEW w \in Writers, call[w] # None
  PROVE  Writing[w] # None
  <1>1. Writing[w] = <<call[w].content, call[w].at = "syncdir">>
    BY DEF Writing
  <1>2. call[w].content \in Contents
    BY CallTyped
  <1>3. <<call[w].content, call[w].at = "syncdir">> \in Contents \X BOOLEAN
    BY <1>2
  <1> QED
    BY <1>1, <1>3, ConstantsAssumption

\* The content of an entry whose file does not change.
LEMMA SameContent ==
  ASSUME NEW e \in Entry, NEW g, NEW h, \A f \in Files : f = e.file => g[f] = h[f]
  PROVE  Content(e, g) = Content(e, h)
  BY ConstantsAssumption DEF Content, Entry, Files

\* A call between its start and its rename is one state of the abstract file.
LEMMA FileStutters ==
  ASSUME IInv, NEW w \in Writers, call[w] # None, call[w].at # "syncdir",
         NEW at \in Steps \ {"syncdir"}, Goto(w, at),
         UNCHANGED <<live, stable, dir>>,
         \A f \in Files : f # call[w].file => cache'[f] = cache[f] /\ disk'[f] = disk[f]
  PROVE  UNCHANGED Atomic!vars
  <1>t. TypeOK
    BY DEF IInv
  <1>w. call[w].file # live.file /\ call[w].file # stable.file /\ call[w].file \in Files
    BY <1>t, CallTyped DEF IInv, CallInv
  <1>c. /\ call'[w] # None /\ call'[w].at = at /\ call'[w].content = call[w].content
        /\ \A v \in Writers : v # w => call'[v] = call[v]
    BY <1>t, CallUpdate
  <1>o. OnDisk' = OnDisk /\ OnDisk \in Entry /\ live \in Entry
    BY <1>t, OnDiskWhole DEF OnDisk, TypeOK
  <1>1. Content(live, cache)' = Content(live, cache)
    <2>1. Content(live, cache') = Content(live, cache)
      BY <1>w, <1>o, SameContent
    <2> QED
      BY <2>1 DEF Content
  <1>2. Content(OnDisk, disk)' = Content(OnDisk, disk)
    <2>1. call[w].file # OnDisk.file
      BY <1>w, ConstantsAssumption DEF OnDisk, Nothing, Files
    <2>2. Content(OnDisk, disk') = Content(OnDisk, disk)
      BY <2>1, <1>o, SameContent
    <2> QED
      BY <2>2, <1>o DEF Content
  <1>3. Writing' = Writing
    BY <1>c DEF Writing
  <1> QED
    BY <1>1, <1>2, <1>3 DEF Atomic!vars

LEMMA BeginStarts ==
  ASSUME IInv, NEW w \in Writers, NEW x \in Contents, Begin(w, x)
  PROVE  Atomic!Start(w, x)
  <1>c. /\ call'[w] # None /\ call'[w].at = "emit" /\ call'[w].content = x
        /\ \A v \in Writers : v # w => call'[v] = call[v]
    BY CallBegin DEF IInv
  <1>1. call[w] = None /\ UNCHANGED <<cache, disk, live, stable, dir>>
    BY DEF Begin, content, names
  <1>2. Writing[w] = None
    BY <1>1 DEF Writing
  <1>3. Writing' = [Writing EXCEPT ![w] = <<x, FALSE>>]
    BY <1>c DEF Writing
  <1> QED
    BY <1>1, <1>2, <1>3 DEF Atomic!Start, Content, OnDisk

LEMMA RenameReplaces ==
  ASSUME IInv, NEW w \in Writers, Rename(w)
  PROVE  Atomic!Replace(w)
  <1>t. TypeOK
    BY DEF IInv
  <1>c. /\ call'[w] # None /\ call'[w].at = "syncdir" /\ call'[w].content = call[w].content
        /\ \A v \in Writers : v # w => call'[v] = call[v]
    BY <1>t, CallRename
  <1>u. /\ call[w] # None /\ call[w].at = "rename"
        /\ live' = [file |-> call[w].file, nth |-> renames + 1]
        /\ UNCHANGED <<cache, disk, stable, dir>>
    BY DEF Rename, content
  <1>1. Writing[w] = <<call[w].content, FALSE>> /\ Writing[w] # None
    BY <1>t, <1>u, SomeWriting DEF Writing
  <1>2. Content(live, cache)' = call[w].content
    <2>1. call[w].file \in Files /\ cache[call[w].file] = call[w].content
      BY <1>t, <1>u, CallTyped DEF IInv, CallInv
    <2> QED
      BY <2>1, <1>u, ConstantsAssumption DEF Content, Files
  <1>3. Writing' = [Writing EXCEPT ![w] = <<call[w].content, TRUE>>]
    BY <1>c DEF Writing
  <1>4. Writing[w][1] = call[w].content /\ ~Writing[w][2]
    BY <1>1
  <1>5. Content(OnDisk, disk)' = Content(OnDisk, disk)
    BY <1>u DEF Content, OnDisk
  <1> QED
    BY <1>1, <1>2, <1>3, <1>4, <1>5 DEF Atomic!Replace

\* On disk, what the path names in memory has the content that it has in memory.
LEMMA LiveOnDisk ==
  ASSUME IInv
  PROVE  Content(live, disk) = Content(live, cache)
  BY DEF IInv, NameInv, Whole, Content

LEMMA ReturnReturns ==
  ASSUME IInv, NEW w \in Writers, call[w] # None, Return(w),
         UNCHANGED <<cache, disk, live, dir>>, stable' \in {stable, live}
  PROVE  Atomic!Return(w)
  <1>t. TypeOK
    BY DEF IInv
  <1>c. call'[w] = None /\ \A v \in Writers : v # w => call'[v] = call[v]
    BY <1>t, CallReturn
  <1>1. Writing[w] # None
    BY <1>t, SomeWriting
  <1>2. Writing' = [Writing EXCEPT ![w] = None]
    BY <1>c DEF Writing
  <1>3. Content(live, cache)' = Content(live, cache)
    BY DEF Content
  <1>4. Content(OnDisk, disk)' \in {Content(OnDisk, disk), Content(live, cache)}
    <2>1. OnDisk' \in {OnDisk, live}
      BY DEF OnDisk
    <2>2. Content(OnDisk, disk)' = Content(OnDisk', disk)
      BY DEF Content
    <2> QED
      BY <2>1, <2>2, LiveOnDisk
  <1> QED
    BY <1>1, <1>2, <1>3, <1>4 DEF Atomic!Return

\* The filesystem writes names back.
LEMMA NamesPersist ==
  ASSUME IInv, stable' = live, UNCHANGED <<cache, disk, live, call>>,
         dir' = dir \/ dir' = TRUE
  PROVE  Atomic!Persist \/ UNCHANGED Atomic!vars
  <1>1. OnDisk' = live \/ (OnDisk' = Nothing /\ OnDisk = Nothing)
    <2>1. dir \in BOOLEAN
      BY DEF IInv, TypeOK
    <2> QED
      BY <2>1 DEF OnDisk
  <1>2. Content(OnDisk, disk)' = Content(OnDisk', disk)
    BY DEF Content
  <1>3. Content(live, cache)' = Content(live, cache) /\ Writing' = Writing
    BY DEF Content, Writing
  <1> QED
    BY <1>1, <1>2, <1>3, LiveOnDisk DEF Atomic!Persist, Atomic!vars

LEMMA FlushStutters ==
  ASSUME IInv, NEW f \in Files, FlushFile(f)
  PROVE  UNCHANGED Atomic!vars
  <1>t. TypeOK
    BY DEF IInv
  <1>u. /\ disk[f] # cache[f] /\ disk' = [disk EXCEPT ![f] = cache[f]]
        /\ UNCHANGED <<cache, live, stable, dir, call>>
    BY DEF FlushFile, names
  <1>o. OnDisk \in Entry /\ Whole(OnDisk) /\ OnDisk' = OnDisk
    BY <1>u, OnDiskWhole DEF OnDisk
  <1>1. f # OnDisk.file
    BY <1>u, <1>o, ConstantsAssumption DEF Whole, Files
  <1>2. \A g \in Files : g = OnDisk.file => disk'[g] = disk[g]
    BY <1>t, <1>u, <1>1 DEF TypeOK
  <1>3. Content(OnDisk, disk)' = Content(OnDisk, disk)
    <2>1. Content(OnDisk, disk') = Content(OnDisk, disk)
      BY <1>o, <1>2, SameContent
    <2> QED
      BY <2>1, <1>o DEF Content
  <1>4. Content(live, cache)' = Content(live, cache) /\ Writing' = Writing
    BY <1>u DEF Content, Writing
  <1> QED
    BY <1>3, <1>4 DEF Atomic!vars

LEMMA CrashCrashes ==
  ASSUME IInv, Crash
  PROVE  Atomic!Crash
  <1>1. /\ cache' = disk /\ stable' = OnDisk /\ live' = OnDisk /\ UNCHANGED <<disk, dir>>
        /\ call' = [w \in Writers |-> None]
    BY DEF Crash
  <1>2. OnDisk' = OnDisk
    BY <1>1 DEF OnDisk
  <1>3. /\ Content(live, cache)' = Content(OnDisk, disk)
        /\ Content(OnDisk, disk)' = Content(OnDisk, disk)
    BY <1>1, <1>2 DEF Content
  <1>4. Writing' = [w \in Writers |-> None]
    BY <1>1 DEF Writing
  <1> QED
    BY <1>3, <1>4 DEF Atomic!Crash

LEMMA StepRefines == IInv /\ [Next]_vars => [Atomic!Next]_(Atomic!vars)
  <1> SUFFICES ASSUME IInv, [Next]_vars PROVE Atomic!Next \/ UNCHANGED Atomic!vars
    OBVIOUS
  <1>t. TypeOK
    BY DEF IInv
  <1>1. ASSUME NEW w \in Writers, NEW x \in Contents, Begin(w, x) PROVE Atomic!Next
    BY <1>1, BeginStarts DEF Atomic!Next
  <1>2. ASSUME NEW w \in Writers, Emit(w) \/ Sync(w) \/ Close(w) \/ Fails(w)
        PROVE  UNCHANGED Atomic!vars
    <2>1. /\ call[w] # None /\ call[w].at # "syncdir" /\ UNCHANGED <<live, stable, dir>>
          /\ \E at \in Steps \ {"syncdir"} : Goto(w, at)
      BY <1>2 DEF Emit, Sync, Close, Fails, names, Steps
    <2>2. \A f \in Files : f # call[w].file => cache'[f] = cache[f] /\ disk'[f] = disk[f]
      BY <1>2, <1>t DEF Emit, Sync, Close, Fails, content, TypeOK
    <2> QED
      BY <2>1, <2>2, FileStutters
  <1>3. ASSUME NEW w \in Writers, Rename(w) PROVE Atomic!Next
    BY <1>3, RenameReplaces DEF Atomic!Next
  <1>4. ASSUME NEW w \in Writers, Cleanup(w) \/ SyncDir(w) \/ SyncDirFails(w) \/ Kill(w)
        PROVE  Atomic!Next
    <2>1. /\ call[w] # None /\ Return(w) /\ UNCHANGED <<cache, disk, live, dir>>
          /\ stable' \in {stable, live}
      BY <1>4 DEF Cleanup, SyncDir, SyncDirFails, Kill, content, names
    <2>2. Atomic!Return(w)
      BY <2>1, ReturnReturns
    <2> QED
      BY <2>2 DEF Atomic!Next
  <1>5. ASSUME NEW f \in Files, FlushFile(f) PROVE UNCHANGED Atomic!vars
    BY <1>5, FlushStutters
  <1>6. CASE FlushNames \/ FlushDir
    <2>1. stable' = live /\ UNCHANGED <<cache, disk, live, call>> /\ (dir' = dir \/ dir' = TRUE)
      BY <1>6 DEF FlushNames, FlushDir, content
    <2> QED
      BY <2>1, NamesPersist DEF Atomic!Next
  <1>7. CASE Crash
    BY <1>7, CrashCrashes DEF Atomic!Next
  <1>8. CASE UNCHANGED vars
    BY <1>8 DEF vars, Atomic!vars, Content, OnDisk, Writing
  <1> QED
    BY <1>1, <1>2, <1>3, <1>4, <1>5, <1>6, <1>7, <1>8 DEF Next, WriterStep

\* WriteFunc implements an atomic file: "a crash at any point leaves either the
\* old contents or the new ones, never a truncated mixture", and so does any
\* interleaving of writers.
THEOREM Refinement == Spec => ImplementsAtomicFile
  <1>1. Init => Atomic!Init
    BY DEF Init, Atomic!Init, Content, Nothing, OnDisk, Writing
  <1> QED
    BY <1>1, StepRefines, AlwaysIInv, PTL DEF Spec, ImplementsAtomicFile, Atomic!Spec

=============================================================================

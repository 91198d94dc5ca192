------------------------------ MODULE Gardener ------------------------------
(***************************************************************************)
(* services/brain/internal/gardener, and RunGardenerWave of hosted: the    *)
(* durable queue of enrichment jobs (SQLiteQueue), the processes that      *)
(* claim jobs under a lease, run them concurrently and complete them, and  *)
(* the sidecars each writes from the receipts at the end of a call: into   *)
(* its own memory, and from there into files that all processes share.     *)
(***************************************************************************)
EXTENDS Integers, FiniteSets

CONSTANTS
    Jobs,           \* stable job identities: generation, kind, document
    Procs,          \* processes that call RunGardenerWave in a loop
    MaxConcurrent,  \* the jobs of a claim
    MaxFaults,      \* bound: crashes, failing calls, jobs that outlive their lease
    Results,        \* how a worker may end: "ok", "failed", "panicked"
    None

Statuses == {"absent", "pending", "leased", "done", "failed"}
Terminal == {"done", "failed"}
Task == [job : Jobs, result : Results \cup {None}, late : BOOLEAN]

ASSUME GConstants ==
    /\ IsFiniteSet(Jobs) /\ MaxConcurrent \in Nat \ {0} /\ MaxFaults \in Nat
    /\ Results \subseteq {"ok", "failed", "panicked"}
    /\ None \notin {"ok", "failed", "panicked"}

VARIABLES
    status,     \* gardener_jobs.status
    created,    \* created_at, as the number of jobs that were there before
    expired,    \* the leased jobs whose lease_until has passed
    receipt,    \* gardener_receipts: the result
    at,         \* where the call of each process is
    tasks,      \* its goroutines: the result is None while the worker runs; late if
                \* the lease has run out since the claim
    gathered,   \* the jobs with an output among the receipts it has collected
    sidecars,   \* inner.sidecars of each process: the jobs whose output it has
    dirty,      \* of these, dirtySidecars: the next flush appends them
    files,      \* what sidecars.jsonl and its delta hold
    lost,       \* history: the outputs that were dropped and are not back in the files
    faults      \* the faults so far

jobQueue == <<status, created, expired, receipt>>
wave == <<at, tasks, gathered>>
warm == <<sidecars, dirty, files, lost>>
Gvars == <<jobQueue, wave, warm, faults>>

GInit ==
    /\ status = [j \in Jobs |-> "absent"]
    /\ created = [j \in Jobs |-> 0]
    /\ expired = {} /\ receipt = [j \in Jobs |-> None]
    /\ at = [p \in Procs |-> "idle"]
    /\ tasks = [p \in Procs |-> {}] /\ gathered = [p \in Procs |-> {}]
    /\ sidecars = [p \in Procs |-> {}] /\ dirty = [p \in Procs |-> {}]
    /\ files = {} /\ lost = {} /\ faults = 0

Fault == faults < MaxFaults /\ faults' = faults + 1

\* Mutant: a job that exists is replaced.
MutEnqueueJob(S) ==
    /\ S # {}
    /\ status' = [j \in Jobs |-> IF j \in S THEN "pending" ELSE status[j]]
    /\ UNCHANGED <<created, expired, receipt, wave, warm, faults>>

\* OnPublished: a generation's jobs in one transaction; those that exist are ignored.
EnqueueJob(S) ==
    LET new == {j \in S : status[j] = "absent"} IN
    /\ new # {}
    /\ status' = [j \in Jobs |-> IF j \in new THEN "pending" ELSE status[j]]
    /\ created' = [j \in Jobs |-> IF j \in new THEN Cardinality({k \in Jobs : status[k] # "absent"})
                                  ELSE created[j]]
    /\ UNCHANGED <<expired, receipt, wave, warm, faults>>

Begin(p) ==
    /\ at[p] = "idle"
    /\ at' = [at EXCEPT ![p] = "first"]
    /\ UNCHANGED <<jobQueue, tasks, gathered, warm, faults>>

\* Mutants: leased jobs as well; no lease runs out.
MutClaimable == {j \in Jobs : status[j] \in {"pending", "leased"}}
MutUnclaimable == {j \in Jobs : status[j] = "pending"}

\* What Claim selects, oldest first: the pending jobs and the expired ones.
Claimable == {j \in Jobs : status[j] = "pending" \/ j \in expired}
Batches ==
    {S \in SUBSET Claimable :
        /\ Cardinality(S) <= MaxConcurrent
        /\ Cardinality(S) < MaxConcurrent => S = Claimable
        /\ \A j \in S, k \in Claimable \ S : created[j] <= created[k]}

\* Claim, one transaction; every job of the batch gets a goroutine.
Claim(p, S) ==
    /\ at[p] \in {"first", "next"} /\ S \in Batches /\ S # {}
    /\ status' = [j \in Jobs |-> IF j \in S THEN "leased"
                                 ELSE IF j \in expired THEN "pending" ELSE status[j]]
    /\ expired' = {}
    /\ at' = [at EXCEPT ![p] = "run"]
    /\ tasks' = [tasks EXCEPT ![p] = {[job |-> j, result |-> None, late |-> FALSE] : j \in S}]
    /\ UNCHANGED <<created, receipt, gathered, warm, faults>>

\* An empty batch ends the waves of the call.
ClaimNothing(p) ==
    /\ at[p] \in {"first", "next"} /\ Claimable = {}
    /\ at' = [at EXCEPT ![p] = "warm"]
    /\ UNCHANGED <<jobQueue, tasks, gathered, warm, faults>>

\* MaxJobs, MaxWallClock or the number of waves is exhausted; not before a claim.
Stop(p) ==
    /\ at[p] = "next"
    /\ at' = [at EXCEPT ![p] = "warm"]
    /\ UNCHANGED <<jobQueue, tasks, gathered, warm, faults>>

\* Claim fails, or the context has ended: RunWave, RunOnce and RunGardenerWave
\* return the error, and what was collected goes with them.
ClaimFails(p) ==
    /\ at[p] \in {"first", "next"}
    /\ Fault
    /\ at' = [at EXCEPT ![p] = "idle"]
    /\ gathered' = [gathered EXCEPT ![p] = {}]
    /\ lost' = lost \cup (gathered[p] \ files)
    /\ UNCHANGED <<jobQueue, tasks, sidecars, dirty, files>>

\* runOneRecovered: the worker's receipt, its error, or its panic.
RunJob(p, t, r) ==
    /\ t \in tasks[p] /\ t.result = None
    /\ tasks' = [tasks EXCEPT ![p] = (@ \ {t}) \cup {[t EXCEPT !.result = r]}]
    /\ UNCHANGED <<jobQueue, at, gathered, warm, faults>>

\* The goroutine ends; the last one releases wg.Wait.
EndTask(p, t) ==
    /\ t \in tasks[p] /\ t.result # None
    /\ tasks' = [tasks EXCEPT ![p] = @ \ {t}]
    /\ at' = [at EXCEPT ![p] = IF tasks[p] = {t} THEN "next" ELSE "run"]
    /\ gathered' = [gathered EXCEPT ![p] = IF t.result = "failed" THEN @ ELSE @ \cup {t.job}]

\* Mutant: only a leased job is marked.
MutComplete(p, t) ==
    /\ EndTask(p, t)
    /\ status' = [status EXCEPT ![t.job] = IF @ # "leased" THEN @
                                           ELSE IF t.result = "ok" THEN "done" ELSE "failed"]
    /\ expired' = expired \ {t.job}
    /\ receipt' = [receipt EXCEPT ![t.job] = t.result]
    /\ UNCHANGED <<created, warm, faults>>

\* Complete: whoever holds the lease, if anyone.
Complete(p, t) ==
    /\ EndTask(p, t)
    /\ status' = [status EXCEPT ![t.job] = IF t.result = "ok" THEN "done" ELSE "failed"]
    /\ expired' = expired \ {t.job}
    /\ receipt' = [receipt EXCEPT ![t.job] = t.result]
    /\ UNCHANGED <<created, warm, faults>>

CompleteFails(p, t) ==
    /\ EndTask(p, t)
    /\ Fault
    /\ UNCHANGED <<jobQueue, warm>>

\* flushSidecarsLocked, with M in memory and D marked: the delta grows by D; or, if
\* the base is empty, a rewrite was asked for or the delta has grown, the base is
\* written from memory and the delta removed, with what other processes had put there.
WriteSidecars(p, M, D) ==
    /\ sidecars' = [sidecars EXCEPT ![p] = M] /\ dirty' = [dirty EXCEPT ![p] = {}]
    /\ \/ files # {} /\ files' = files \cup D /\ lost' = lost \ D
       \/ files' = M /\ lost' = (lost \cup files) \ M

\* sidecarsFromReceipts takes every receipt that has an output, and a panic has one.
WarmSidecars(p) ==
    /\ at[p] = "warm"
    /\ IF gathered[p] = {} THEN UNCHANGED warm
       ELSE WriteSidecars(p, sidecars[p] \cup gathered[p], dirty[p] \cup gathered[p])
    /\ at' = [at EXCEPT ![p] = "idle"]
    /\ gathered' = [gathered EXCEPT ![p] = {}]
    /\ UNCHANGED <<jobQueue, tasks, faults>>

\* Mutant: the marks are cleared before the append.
MutWarmFails(p) ==
    /\ at[p] = "warm" /\ gathered[p] # {}
    /\ Fault
    /\ sidecars' = [sidecars EXCEPT ![p] = @ \cup gathered[p]]
    /\ dirty' = [dirty EXCEPT ![p] = {}]
    /\ at' = [at EXCEPT ![p] = "idle"]
    /\ gathered' = [gathered EXCEPT ![p] = {}]
    /\ UNCHANGED <<jobQueue, tasks, files, lost>>

\* The flush fails: the outputs stay in memory, marked, and the error becomes the
\* Reason of the result.
WarmFails(p) ==
    /\ at[p] = "warm" /\ gathered[p] # {}
    /\ Fault
    /\ sidecars' = [sidecars EXCEPT ![p] = @ \cup gathered[p]]
    /\ dirty' = [dirty EXCEPT ![p] = @ \cup gathered[p]]
    /\ at' = [at EXCEPT ![p] = "idle"]
    /\ gathered' = [gathered EXCEPT ![p] = {}]
    /\ UNCHANGED <<jobQueue, tasks, files, lost>>

\* Another call of the store flushes: an ingest, or a deletion, which asks for a rewrite.
FlushSidecars(p) ==
    /\ WriteSidecars(p, sidecars[p], dirty[p])
    /\ UNCHANGED <<jobQueue, wave, faults>>

\* The process dies, is started again, and loads the files.
Crash(p) ==
    /\ Fault
    /\ at' = [at EXCEPT ![p] = "idle"]
    /\ tasks' = [tasks EXCEPT ![p] = {}]
    /\ gathered' = [gathered EXCEPT ![p] = {}]
    /\ sidecars' = [sidecars EXCEPT ![p] = files] /\ dirty' = [dirty EXCEPT ![p] = {}]
    /\ lost' = lost \cup ((gathered[p] \cup dirty[p]) \ files)
    /\ UNCHANGED <<jobQueue, files>>

\* The lease runs out: of a claim that nobody works on any more, or of one whose
\* worker is too slow.
Holds(p, j) == \E t \in tasks[p] : t.job = j /\ ~t.late
Held(j) == \E p \in Procs : Holds(p, j)

Expire(j) ==
    /\ status[j] = "leased" /\ j \notin expired
    /\ expired' = expired \cup {j}
    /\ tasks' = [p \in Procs |-> {[t EXCEPT !.late = @ \/ t.job = j] : t \in tasks[p]}]
    /\ IF Held(j) THEN Fault ELSE UNCHANGED faults
    /\ UNCHANGED <<status, created, receipt, at, gathered, warm>>

TaskStep(p, t) ==
    \/ \E r \in Results : RunJob(p, t, r)
    \/ Complete(p, t) \/ CompleteFails(p, t)

ProcStep(p) ==
    \/ Begin(p)
    \/ \E S \in SUBSET Jobs : Claim(p, S)
    \/ ClaimNothing(p) \/ Stop(p) \/ ClaimFails(p)
    \/ \E t \in tasks[p] : TaskStep(p, t)
    \/ WarmSidecars(p) \/ WarmFails(p) \/ Crash(p)

GNext ==
    \/ \E S \in SUBSET Jobs : EnqueueJob(S)
    \/ \E p \in Procs : ProcStep(p) \/ FlushSidecars(p)
    \/ \E j \in Jobs : Expire(j)

GSpec == GInit /\ [][GNext]_Gvars

\* The loops of the command and of the background goroutine go on, workers end
\* (they run under MaxJobDuration), and time passes.
Fairness ==
    /\ \A p \in Procs : WF_Gvars(ProcStep(p))
    /\ \A j \in Jobs : WF_Gvars(~Held(j) /\ Expire(j))

GFairSpec == GSpec /\ Fairness

-----------------------------------------------------------------------------

GTypeOK ==
    /\ status \in [Jobs -> Statuses]
    /\ created \in [Jobs -> Nat]
    /\ expired \subseteq {j \in Jobs : status[j] = "leased"}
    /\ receipt \in [Jobs -> Results \cup {None}]
    /\ at \in [Procs -> {"idle", "first", "next", "run", "warm"}]
    /\ tasks \in [Procs -> SUBSET Task] /\ gathered \in [Procs -> SUBSET Jobs]
    /\ sidecars \in [Procs -> SUBSET Jobs] /\ dirty \in [Procs -> SUBSET Jobs]
    /\ files \subseteq Jobs /\ lost \subseteq Jobs
    /\ faults \in Nat

\* Two workers run one job only if the lease of one of them ran out under it, and
\* a lease that has not run out belongs to nobody else (Claim: "leases up to n
\* pending (or expired-lease) jobs").
LeaseExclusive ==
    /\ \A p, q \in Procs : \A t \in tasks[p], u \in tasks[q] :
         t.job = u.job /\ ~t.late /\ ~u.late => p = q /\ t = u
    /\ \A j \in Jobs : Held(j) /\ status[j] \notin Terminal => status[j] = "leased" /\ j \notin expired

\* The row of a job and its receipt agree, whichever claims completed it and in
\* whichever order (Complete: "records a receipt and marks the job done (or failed)").
ReceiptAgrees ==
    \A j \in Jobs :
        /\ status[j] \in Terminal <=> receipt[j] # None
        /\ status[j] = "done" <=> receipt[j] = "ok"

\* A job that has ended is not run again: neither a late lease nor a repeated
\* publication brings it back (Enqueue: "Duplicate job_id is ignored").
EndedStays == [][\A j \in Jobs : status[j] \in Terminal => status'[j] \in Terminal]_Gvars

\* Every job ends, through crashes and lost completions: the lease of a job that
\* nobody completes runs out, and it is claimed again ("a crashed worker redelivers
\* after lease_until"; RunWave's comment, "strands the job as permanently claimed",
\* does not hold of this queue).
JobsEnd == \A j \in Jobs : status[j] # "absent" ~> status[j] \in Terminal

\* The output of a job that is done is in the files, marked in the memory of a process
\* that will append it, or collected by a call that will write it, wherever a budget
\* ends the waves, a completion or a flush fails or a lease runs out; but for what a
\* failing Claim or a death took, or another process's rewrite of the files from its
\* own memory ("RunGardenerWave processes pending queue jobs and WarmSidecars from
\* receipts"; flushSidecarsLocked: "Cleared only after the append is durable").
OutputKept ==
    \A j \in Jobs : status[j] = "done" =>
        j \in files \cup lost \cup UNION {gathered[p] \cup dirty[p] : p \in Procs}

\* The inductive part of it: a rewrite from memory covers what is marked.
MarksInv == \A p \in Procs : dirty[p] \subseteq sidecars[p]

=============================================================================

------------------------------ MODULE DraftPR ------------------------------
(***************************************************************************)
(* services/broker/internal/github: the two-phase publication of one tuple *)
(* (a head ref, then a draft pull request) by concurrent and repeated      *)
(* calls of Publish in several processes, each with its outbox in memory,  *)
(* against a provider whose answers get lost and that others change too.   *)
(***************************************************************************)
EXTENDS Integers, Sequences

CONSTANTS
    Workers,    \* callers of Publish
    Procs,      \* processes with a Broker; an outbox dies with its process
    Requests,   \* request fingerprints: [key, content]
    MaxFaults,  \* bound: crashes, denials, failing calls of the provider
    MaxOutside, \* bound: changes others make at the provider
    Nothing

Settled == {"pr_created", "terminal_conflict", "pr_already_closed"}
PastBranch == {"branch_published", "pr_pending", "pr_in_flight", "pr_created"}
States == {"branch_pending", "branch_in_flight"} \cup PastBranch \cup Settled
Labels == {"idle", "branch", "base1", "head", "mkref", "relook", "published",
           "pr", "base2", "list", "create", "relist", "commit", "closed", "conflict"}

Contents == {r.content : r \in Requests}
PRReceipt == [pr : Nat, content : Contents]

\* The row of the outbox, the locals of a call, and a pull request: what it was
\* opened with and from, and whether its call began when there was none.
OutboxRow == [request : Requests, state : States, receipt : PRReceipt \cup {Nothing}]
Call == [at : Labels, proc : Procs \cup {Nothing}, request : Requests \cup {Nothing}, pr : Nat, fresh : BOOLEAN]
PullRequest == [made : Contents, content : Contents \cup {"edited"}, draft : BOOLEAN, open : BOOLEAN,
                head : {"approved", "other"}, fresh : BOOLEAN]

ASSUME PRConstants ==
    /\ MaxFaults \in Nat /\ MaxOutside \in Nat
    /\ "edited" \notin Contents
    /\ Nothing \notin OutboxRow \cup PRReceipt \cup {"approved", "other"}

VARIABLES
    outbox,     \* the row of the tuple in each process, or Nothing
    call,       \* where the call of each worker is, its process and its request
    base,       \* the base ref: at the approved commit, or moved (or deleted)
    head,       \* the head ref: absent, at the approved commit, or at another
    prs,        \* the pull requests of this head and base, in the order of their numbers
    given,      \* history: the receipts returned
    pushed,     \* history: others changed the head ref
    undisturbed,      \* history: the worker whose call nothing has disturbed, if any
    outside, faults   \* the changes of others and the faults so far

provider == <<base, head, prs>>
bounds == <<pushed, undisturbed, outside, faults>>
PRvars == <<outbox, call, provider, given, bounds>>

Idle == [at |-> "idle", proc |-> Nothing, request |-> Nothing, pr |-> 0, fresh |-> FALSE]

PRInit ==
    /\ outbox = [p \in Procs |-> Nothing]
    /\ call = [w \in Workers |-> Idle]
    /\ base = "approved" /\ head \in {Nothing, "other"} /\ prs = <<>>
    /\ given = {} /\ pushed = FALSE /\ undisturbed = {} /\ outside = 0 /\ faults = 0

Goto(w, at) == call' = [call EXCEPT ![w].at = at]
Return(w) == call' = [call EXCEPT ![w] = Idle]
Fault ==
    /\ faults < MaxFaults /\ faults' = faults + 1
    /\ undisturbed' = {}
    /\ UNCHANGED <<pushed, outside>>
Row(w) == outbox[call[w].proc]
SetState(w, s) == outbox' = [outbox EXCEPT ![call[w].proc].state = s]
Content(w) == call[w].request.content

\* Publish up to its first provider call.  A row with another fingerprint, in
\* conflict or closed refuses the call and nothing changes.
Begin(w, p, r) ==
    /\ call[w].at = "idle"
    /\ outbox[p] # Nothing => outbox[p].request = r /\ outbox[p].state \notin Settled
    /\ outbox' = IF outbox[p] # Nothing THEN outbox
                 ELSE [outbox EXCEPT ![p] = [request |-> r, state |-> "branch_pending", receipt |-> Nothing]]
    /\ call' = [call EXCEPT ![w] = [Idle EXCEPT !.at = "branch", !.proc = p, !.request = r,
                                                !.fresh = (prs = <<>>)]]
    /\ undisturbed' = {v \in {w} : \A o \in Workers \ {w} : call[o].at = "idle"}
    /\ UNCHANGED <<provider, given, pushed, outside, faults>>

\* Publish of a row that is done: the stored receipt.
Replay(w, p, r) ==
    /\ call[w].at = "idle"
    /\ outbox[p] # Nothing /\ outbox[p].request = r /\ outbox[p].state = "pr_created"
    /\ given' = given \cup {outbox[p].receipt}
    /\ UNCHANGED <<outbox, call, provider, bounds>>

\* reauthorize denies, before either phase, or a GetRef or ListPullRequests fails.
CallFails(w) ==
    /\ call[w].at \in {"branch", "pr", "base1", "head", "relook", "base2", "list", "relist"}
    /\ Fault
    /\ Return(w)
    /\ UNCHANGED <<outbox, provider, given>>

-----------------------------------------------------------------------------
\* ensureBranch.

\* Once reauthorized: the policy is not part of the state.
EnterBranch(w) ==
    /\ call[w].at = "branch"
    /\ IF Row(w).state \in PastBranch THEN Goto(w, "pr") /\ UNCHANGED outbox
       ELSE Goto(w, "base1") /\ SetState(w, "branch_in_flight")
    /\ UNCHANGED <<provider, given, bounds>>

\* The base check of either phase.
CheckBase(w) ==
    /\ \/ call[w].at = "base1" /\ Goto(w, IF base = "approved" THEN "head" ELSE "conflict")
       \/ call[w].at = "base2" /\ Goto(w, IF base = "approved" THEN "list" ELSE "conflict")
    /\ UNCHANGED <<outbox, provider, given, bounds>>

\* Mutant: a head ref that is there will do.
MutReconcileHead(w) ==
    /\ call[w].at = "head"
    /\ Goto(w, IF head = Nothing THEN "mkref" ELSE "published")
    /\ UNCHANGED <<outbox, provider, given, bounds>>

ReconcileHead(w) ==
    /\ call[w].at = "head"
    /\ Goto(w, CASE head = Nothing -> "mkref" [] head = "approved" -> "published" [] OTHER -> "conflict")
    /\ UNCHANGED <<outbox, provider, given, bounds>>

\* CreateRef: the provider refuses a ref that exists.  The answer may get lost,
\* or the request.
CreateRef(w) ==
    /\ call[w].at = "mkref"
    /\ \/ /\ head = Nothing /\ head' = "approved"
          /\ (Goto(w, "published") /\ UNCHANGED bounds) \/ (Goto(w, "relook") /\ Fault)
       \/ Goto(w, "relook") /\ UNCHANGED head /\ (IF head # Nothing THEN UNCHANGED bounds ELSE Fault)
    /\ UNCHANGED <<outbox, base, prs, given>>

\* The lookup after an ambiguous create.
LookAgain(w) ==
    /\ call[w].at = "relook"
    /\ IF head = Nothing THEN Return(w) ELSE Goto(w, IF head = "approved" THEN "published" ELSE "conflict")
    /\ UNCHANGED <<outbox, provider, given, bounds>>

BranchPublished(w) ==
    /\ call[w].at = "published"
    /\ SetState(w, "branch_published")
    /\ Goto(w, "pr")
    /\ UNCHANGED <<provider, given, bounds>>

-----------------------------------------------------------------------------
\* ensureDraftPR.

\* Mutant: a row in flight is left to the call that made it so.
MutEnterPR(w) ==
    /\ call[w].at = "pr"
    /\ CASE Row(w).state = "pr_created" ->
              given' = given \cup {Row(w).receipt} /\ Return(w) /\ UNCHANGED outbox
         [] Row(w).state = "pr_in_flight" -> Return(w) /\ UNCHANGED <<outbox, given>>
         [] OTHER -> SetState(w, "pr_in_flight") /\ Goto(w, "base2") /\ UNCHANGED given
    /\ UNCHANGED <<provider, bounds>>

EnterPR(w) ==
    /\ call[w].at = "pr"
    /\ IF Row(w).state = "pr_created"
       THEN given' = given \cup {Row(w).receipt} /\ Return(w) /\ UNCHANGED outbox
       ELSE SetState(w, "pr_in_flight") /\ Goto(w, "base2") /\ UNCHANGED given
    /\ UNCHANGED <<provider, bounds>>

Found(w, i) == call' = [call EXCEPT ![w] = [@ EXCEPT !.at = "commit", !.pr = i]]
Exact(w, i) == prs[i].open /\ prs[i].draft /\ prs[i].content = Content(w)

\* Mutants: only the open ones are listed; the content is not compared.
MutLookup(w) ==
    /\ call[w].at = "list"
    /\ LET open == {i \in DOMAIN prs : prs[i].open} IN
       IF open = {} THEN Goto(w, "create")
       ELSE \E i \in open : IF Exact(w, i) THEN Found(w, i) ELSE Goto(w, "conflict")
    /\ UNCHANGED <<outbox, provider, given, bounds>>

MutLookupContent(w) ==
    /\ call[w].at = "list"
    /\ CASE Len(prs) = 0 -> Goto(w, "create")
         [] Len(prs) > 1 -> Goto(w, "conflict")
         [] OTHER -> IF ~prs[1].open THEN Goto(w, "closed")
                     ELSE IF prs[1].draft THEN Found(w, 1) ELSE Goto(w, "conflict")
    /\ UNCHANGED <<outbox, provider, given, bounds>>

\* Lookup before create, open and closed: several are a conflict, a closed one
\* ends the publication, an open one must be a draft with this content.
Lookup(w) ==
    /\ call[w].at = "list"
    /\ CASE Len(prs) = 0 -> Goto(w, "create")
         [] Len(prs) > 1 -> Goto(w, "conflict")
         [] OTHER -> IF ~prs[1].open THEN Goto(w, "closed")
                     ELSE IF Exact(w, 1) THEN Found(w, 1) ELSE Goto(w, "conflict")
    /\ UNCHANGED <<outbox, provider, given, bounds>>

\* The provider opens a pull request only from a ref that exists and has no open
\* one to this base.  (FakeAPI returns an exact one instead, which the lookup
\* after the refusal finds.)
Accepts == head # Nothing /\ \A i \in DOMAIN prs : ~prs[i].open
NewPR(w, draft) ==
    prs' = Append(prs, [made |-> Content(w), content |-> Content(w), draft |-> draft, open |-> TRUE,
                        head |-> head, fresh |-> call[w].fresh])

Create(w) ==
    /\ call[w].at = "create"
    /\ Accepts /\ NewPR(w, TRUE) /\ Found(w, Len(prs) + 1)
    /\ UNCHANGED <<outbox, base, head, given, bounds>>

\* Mutant: a refusal is a conflict.
MutCreateFails(w) ==
    /\ call[w].at = "create"
    /\ \/ ~Accepts /\ UNCHANGED <<prs, bounds>> /\ Goto(w, "conflict")
       \/ Fault /\ Goto(w, "relist") /\ (UNCHANGED prs \/ (Accepts /\ NewPR(w, TRUE)))
       \/ Fault /\ Goto(w, "conflict") /\ Accepts /\ NewPR(w, FALSE)
    /\ UNCHANGED <<outbox, base, head, given>>

\* A refusal, a lost request or answer, or a pull request that is not a draft.
CreateFails(w) ==
    /\ call[w].at = "create"
    /\ \/ ~Accepts /\ UNCHANGED <<prs, bounds>> /\ Goto(w, "relist")
       \/ Fault /\ Goto(w, "relist") /\ (UNCHANGED prs \/ (Accepts /\ NewPR(w, TRUE)))
       \/ Fault /\ Goto(w, "conflict") /\ Accepts /\ NewPR(w, FALSE)
    /\ UNCHANGED <<outbox, base, head, given>>

\* The lookup after an ambiguous create takes an exact open draft or gives up.
LookupAgain(w) ==
    /\ call[w].at = "relist"
    /\ IF \E i \in DOMAIN prs : Exact(w, i)
       THEN \E i \in DOMAIN prs : Exact(w, i) /\ Found(w, i)
       ELSE Return(w)
    /\ UNCHANGED <<outbox, provider, given, bounds>>

\* Mutant: the receipt is returned and not stored.
MutCommitPRSuccess(w) ==
    /\ call[w].at = "commit"
    /\ SetState(w, "pr_created")
    /\ given' = given \cup {[pr |-> call[w].pr, content |-> Content(w)]}
    /\ Return(w)
    /\ UNCHANGED <<provider, bounds>>

\* commitPRSuccess, whatever the state of the row has become.
CommitPRSuccess(w) ==
    LET receipt == [pr |-> call[w].pr, content |-> Content(w)] IN
    /\ call[w].at = "commit"
    /\ outbox' = [outbox EXCEPT ![call[w].proc] = [Row(w) EXCEPT !.state = "pr_created", !.receipt = receipt]]
    /\ given' = given \cup {receipt}
    /\ Return(w)
    /\ UNCHANGED <<provider, bounds>>

\* markConflict and the end of a closed publication, in critical sections of
\* their own; the call returns an error.
MarkEnd(w) ==
    /\ \/ call[w].at = "conflict" /\ SetState(w, "terminal_conflict")
       \/ call[w].at = "closed" /\ SetState(w, "pr_already_closed")
    /\ Return(w)
    /\ UNCHANGED <<provider, given, bounds>>

-----------------------------------------------------------------------------
\* A process dies and starts again with an empty outbox.
Crash(p) ==
    /\ Fault
    /\ outbox' = [outbox EXCEPT ![p] = Nothing]
    /\ call' = [w \in Workers |-> IF call[w].proc = p THEN Idle ELSE call[w]]
    /\ UNCHANGED <<provider, given>>

\* Others at the provider: the base branch moves; somebody pushes to the head
\* branch or deletes it, which closes its pull request; a pull request is
\* closed, or changed so that it is no exact match (its text is edited, or it is
\* marked ready, which the lookup treats alike).
Closed == [i \in DOMAIN prs |-> [prs[i] EXCEPT !.open = FALSE]]
Outside ==
    /\ outside < MaxOutside /\ outside' = outside + 1
    /\ undisturbed' = {}
    /\ \/ base' = "moved" /\ UNCHANGED <<head, prs, pushed>>
       \/ /\ head # Nothing /\ pushed' = TRUE
          /\ (head' = "other" /\ UNCHANGED prs) \/ (head' = Nothing /\ prs' = Closed)
          /\ UNCHANGED base
       \/ /\ prs # Closed /\ UNCHANGED <<base, head, pushed>>
          /\ \/ prs' = Closed
             \/ \E i \in DOMAIN prs : prs[i].open /\ prs' = [prs EXCEPT ![i].content = "edited"]
    /\ UNCHANGED <<outbox, call, given, faults>>

\* What a call does once it has begun.
CallStep(w) ==
    \/ CallFails(w) \/ EnterBranch(w) \/ CheckBase(w) \/ ReconcileHead(w)
    \/ CreateRef(w) \/ LookAgain(w) \/ BranchPublished(w) \/ EnterPR(w) \/ Lookup(w)
    \/ Create(w) \/ CreateFails(w) \/ LookupAgain(w) \/ CommitPRSuccess(w) \/ MarkEnd(w)
WorkerStep(w) == CallStep(w) \/ \E p \in Procs, r \in Requests : Begin(w, p, r)

PRNext ==
    \/ \E w \in Workers : \/ WorkerStep(w)
                          \/ \E p \in Procs, r \in Requests : Replay(w, p, r)
    \/ \E p \in Procs : Crash(p)
    \/ Outside

PRSpec == PRInit /\ [][PRNext]_PRvars

-----------------------------------------------------------------------------

Receipts == [pr : DOMAIN prs, content : Contents]
PRTypeOK ==
    /\ outbox \in [Procs -> OutboxRow \cup {Nothing}] /\ call \in [Workers -> Call]
    /\ base \in {"approved", "moved"} /\ head \in {Nothing, "approved", "other"}
    /\ prs \in Seq(PullRequest) /\ given \subseteq Receipts
    /\ pushed \in BOOLEAN /\ outside \in Nat /\ faults \in Nat
    /\ \A p \in Procs : outbox[p] # Nothing =>
           /\ outbox[p].receipt \in Receipts \cup {Nothing}
           /\ outbox[p].state = "pr_created" => outbox[p].receipt # Nothing
    /\ \A w \in Workers : call[w].at # "idle" =>
           /\ call[w].proc \in Procs /\ outbox[call[w].proc] # Nothing
           /\ call[w].request = outbox[call[w].proc].request
           /\ call[w].at = "commit" => call[w].pr \in DOMAIN prs

\* A call that begins when the tuple has a pull request never opens another,
\* whatever answers were lost, processes died or pull requests were closed
\* before (ensureDraftPR: "Exact closed PR never causes a duplicate create").
NoDuplicate == \A i \in DOMAIN prs : prs[i].fresh

\* All receipts of the tuple, over concurrent calls, retries, processes and
\* restarts, name one pull request, and the content it was opened with; two are
\* only there if others closed one under a call (Publish: "converge to one head
\* ref, one draft PR, and one receipt").
OneReceipt ==
    \A g, h \in given : /\ g.content = prs[g.pr].made
                        /\ g = h \/ (Len(prs) > 1 /\ outside > 0)

\* While nobody else touches the repository, a publication that has a receipt is
\* in conflict in no process: overlapping calls that find the other's work, or
\* whose creates are refused, reconcile with it.
ReceiptRepeats ==
    outside = 0 => \A g \in given, p \in Procs :
        outbox[p] # Nothing /\ outbox[p].request.content = g.content
            => outbox[p].state \notin {"terminal_conflict", "pr_already_closed"}

\* No pull request is opened from a head ref at another commit than the approved
\* one, unless others moved it since ("different OID is terminal conflict").
HeadExact == \A i \in DOMAIN prs : prs[i].head = "approved" \/ pushed

\* One more call settles the publication, whatever crashes, lost answers and
\* overlapping calls have left behind: a call of Publish that nothing disturbs (no
\* other call, fault or change by others while it runs) returns with the row of its
\* process settled.  Except when others have deleted the head ref, which a row past
\* its first phase never makes again.
CallSettles ==
    [][\A w \in Workers :
          w \in undisturbed \cap undisturbed' /\ call[w].at # "idle" /\ call'[w].at = "idle"
              => outbox'[call[w].proc].state \in Settled \/ (head = Nothing /\ pushed)]_PRvars

-----------------------------------------------------------------------------
(* The inductive invariants behind the safety properties.                  *)

AfterBranch == {"published", "pr", "base2", "list", "create", "relist", "commit", "closed"}

\* Past the first phase the head ref is at the approved commit unless others moved it.
HeadInv ==
    /\ \A w \in Workers : call[w].at \in AfterBranch => head = "approved" \/ pushed
    /\ \A p \in Procs : outbox[p] # Nothing /\ outbox[p].state \in PastBranch => head = "approved" \/ pushed
    /\ prs # <<>> => head = "approved" \/ pushed
    /\ HeadExact

\* A call that finds no pull request has begun when there was none.
DupInv ==
    /\ \A w \in Workers : call[w].at # "idle" /\ (prs = <<>> \/ call[w].at = "create") => call[w].fresh
    /\ NoDuplicate

\* An undisturbed call runs alone; a ref it cannot make is there, and a pull request it
\* cannot open has no head ref.
UndisturbedInv ==
    /\ undisturbed \subseteq Workers
    /\ \A w \in undisturbed :
           /\ \A v \in Workers \ {w} : call[v].at = "idle"
           /\ call[w].at = "relook" => head # Nothing
           /\ call[w].at = "create" => prs = <<>>
           /\ call[w].at = "relist" => head = Nothing

\* Pull request i of ps was opened as a draft with content c.
DraftOf(ps, i, c) == ps[i].made = c /\ ps[i].draft

\* A receipt, returned, stored or about to be, is of a draft opened with its content.
ReceiptInv ==
    /\ \A i \in DOMAIN prs : prs[i].content \in {prs[i].made, "edited"}
    /\ \A g \in given : DraftOf(prs, g.pr, g.content)
    /\ \A p \in Procs : outbox[p] # Nothing /\ outbox[p].receipt # Nothing
                            => DraftOf(prs, outbox[p].receipt.pr, outbox[p].receipt.content)
    /\ \A w \in Workers : call[w].at = "commit" => DraftOf(prs, call[w].pr, Content(w))

\* Content c cannot be published: the head ref h is taken, or the pull request in ps.
Taken(h, ps, c) == h = "other" \/ (Len(ps) = 1 /\ ~(ps[1].draft /\ ps[1].content = c))

\* While others have changed nothing there is at most one pull request, as it was
\* opened, and a conflict has a reason that stays.
AloneInv ==
    outside = 0 =>
        /\ base = "approved" /\ ~pushed
        /\ Len(prs) <= 1
        /\ \A i \in DOMAIN prs : prs[i].open /\ prs[i].content = prs[i].made
        /\ \A w \in Workers : /\ call[w].at # "closed"
                              /\ call[w].at = "conflict" => Taken(head, prs, Content(w))
        /\ \A p \in Procs : outbox[p] # Nothing =>
               /\ outbox[p].state # "pr_already_closed"
               /\ outbox[p].state = "terminal_conflict" => Taken(head, prs, outbox[p].request.content)

=============================================================================

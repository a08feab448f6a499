---------------------------- MODULE ActionBroker ----------------------------
(***************************************************************************)
(* The execution boundary of Dev Control Room: Admit, Execute, Renew and   *)
(* Release of internal/action/broker.go, the routes of internal/app that   *)
(* call them, and the action_locks, action_idempotency, approvals,         *)
(* action_events and action_runs tables they share.  One action is one     *)
(* storage call (or one call to Git, to the prompt or to the child         *)
(* process) of a handler, so requests of the serve process and of CLI      *)
(* processes interleave exactly between those calls.  Plans are already    *)
(* persisted and immutable, so a plan stands for its own digest.           *)
(***************************************************************************)
EXTENDS Naturals, FiniteSets

CONSTANTS
  Plans, Worktrees, Requests, Servers, Keys, Holders, Contexts,
  Target, PlanContext, Timeout, Deadline,   \* of each plan
  PlanOf, HolderOf, KeyOf, ServerOf,        \* of each request
  Gated,        \* plans with ApprovalRequired
  HighImpact,   \* plans of RiskHighImpact: their grants expire
  Scoped,       \* plans bound to an unattended approval scope
  Syncing,      \* repository.sync plans
  Delegated,    \* Jenkins group and release plans, run by their own routes
  Barred,       \* plans the policy denies or of the older install format
  AdmitOnly,    \* requests of the admit route, which returns the admission
  Cancellable,  \* requests whose context may be cancelled
  Faulty,       \* requests whose storage calls may fail or lose their reply
  Crashing,     \* processes that may be killed
  Moving,       \* worktrees that change while the system runs
  Lease, ApprovalLife, MaxTime, MaxDecisions,
  None, Gone

ASSUME PlanAssumption ==
  /\ Target \in [Plans -> Worktrees]
  /\ PlanContext \in [Plans -> Contexts]
  /\ Timeout \in [Plans -> Nat \ {0}]
  /\ Deadline \in [Plans -> Nat]
  /\ \A S \in {Gated, HighImpact, Scoped, Syncing, Delegated, Barred} : S \subseteq Plans
ASSUME RequestAssumption ==
  /\ PlanOf \in [Requests -> Plans]
  /\ HolderOf \in [Requests -> Holders]
  /\ KeyOf \in [Requests -> Keys]
  /\ ServerOf \in [Requests -> Servers]
  /\ \A S \in {AdmitOnly, Cancellable, Faulty} : S \subseteq Requests
ASSUME BoundAssumption ==
  /\ Lease \in Nat \ {0} /\ ApprovalLife \in Nat \ {0}
  /\ MaxTime \in Nat /\ MaxDecisions \in Nat
ASSUME NoneAssumption ==
  /\ None \notin Plans /\ Gone \notin Contexts
  /\ None \notin [plan : Plans, holder : Holders, expires : Nat]

VARIABLES
  clock,      \* the wall clock every process reads
  cancelled,  \* requests whose context is done
  pc,         \* where each request's handler is
  asked,      \* the clock value Admit captured
  lease,      \* admission.Lock.ExpiresAt, in the request's memory
  began,      \* when the child process was started
  outcome,    \* the run status the handler is about to save
  locks,      \* action_locks: worktree -> row or None
  claims,     \* action_idempotency: key -> plan or None
  trail,      \* action_events
  runs,       \* action_runs, one possible row per request
  approvals,  \* approvals
  prompts,    \* per process, the open human decision or None
  revoked,    \* approval scopes (named by their plan) that were revoked
  disk,       \* the checkout itself
  seen,       \* worktrees: the context of the last scan
  trusted,    \* worktree_execution_trusts
  consent,    \* the context a trust request has read and not yet stored
  launched,   \* history: requests that started a child or a remote job
  stray       \* history: rows of action_locks whose release failed, or whose
              \* insert was not answered

tree == <<disk, seen, trusted, consent>>
human == <<approvals, prompts, revoked>>
table == <<locks, claims, trail, runs>>
memo == <<asked, lease, began, outcome, launched>>
environment == <<clock, cancelled, stray>>
vars == <<pc, tree, human, table, memo, environment>>

AdmitPhases == {"approve", "context", "trust", "acquire", "claim", "announce",
                "unlock", "undo", "unclaim"}
ExecutePhases == {"admitted", "rescope", "reapprove", "revalidate", "recontext",
                  "retrust", "start", "launch", "running", "postverify",
                  "postcontext", "posttrust", "record", "reject", "release",
                  "delegated", "granted"}
Terminal == {"refused", "returned", "crashed"}
Phases == {"idle"} \cup AdmitPhases \cup ExecutePhases \cup Terminal
Statuses == {"succeeded", "failed", "timed_out", "cancelled", "unavailable",
             "postcheck_failed", "precheck_failed"}
Times == 0..MaxTime
Decisions == [plan : Plans, granted : BOOLEAN, at : Times]
Rows == [plan : Plans, holder : Holders, expires : Nat]
EventsOf == [type : {"admitted", "started"} \cup Statuses, by : Requests]

Place(r) == Target[PlanOf[r]]
\* action_events are keyed by plan, type, actor and nonce; the nonce of
\* "admitted" is the idempotency key, of every other event the run id.
SameEvent(e, f) ==
  /\ e.type = f.type
  /\ \/ e.by = f.by
     \/ /\ e.type = "admitted"
        /\ PlanOf[e.by] = PlanOf[f.by] /\ HolderOf[e.by] = HolderOf[f.by]
        /\ KeyOf[e.by] = KeyOf[f.by]
Event(t, r) == [type |-> t, by |-> r]
Logged(e) == \E f \in trail : SameEvent(e, f)

LeaseRow(r) == [plan |-> PlanOf[r], holder |-> HolderOf[r], expires |-> lease[r]]
\* Mutant: the row is deleted by scope alone.
Owned_AnyHolder(r) == locks[Place(r)] # None
\* The WHERE clause of ReleaseActionLock: the expiry is not compared.
Owned(r) ==
  /\ locks[Place(r)] # None
  /\ locks[Place(r)].plan = PlanOf[r] /\ locks[Place(r)].holder = HolderOf[r]
\* Mutant: the row is dropped one unit before it expires.
Vacant_Early(w, t) == locks[w] # None => locks[w].expires <= t + 1
\* AcquireActionLock deletes a row that expired by the captured clock.
Vacant(w, t) == locks[w] # None => locks[w].expires <= t

InScope(p, t) == p \in Scoped => p \notin revoked /\ t < Deadline[p]
\* Approval.ValidateForAt: only high-impact grants expire.
Valid(a, p, t) ==
  /\ a.plan = p /\ a.granted /\ a.at <= t
  /\ p \in HighImpact => t < a.at + ApprovalLife
Approved(p, t) == \E a \in approvals : Valid(a, p, t)
ContextCurrent(p) == seen[Target[p]] = PlanContext[p]
TrustCurrent(p) == trusted[Target[p]] = PlanContext[p]
\* discoveryWorktree: registered, still enumerated by Git, same association.
Discoverable(w) == seen[w] # Gone /\ disk[w] # Gone

\* A storage call with the request's context returns an error.
Unavailable(r) == r \in cancelled \cup Faulty

Goto(r, phase) == pc' = [pc EXCEPT ![r] = phase]

Init ==
  /\ clock = 0 /\ cancelled = {} /\ stray = {}
  /\ pc = [r \in Requests |-> "idle"]
  /\ asked = [r \in Requests |-> 0]
  /\ lease = [r \in Requests |-> 0]
  /\ began = [r \in Requests |-> 0]
  /\ outcome = [r \in Requests |-> "none"]
  /\ launched = {}
  /\ locks = [w \in Worktrees |-> None]
  /\ claims = [k \in Keys |-> None]
  /\ trail = {}
  /\ runs = [r \in Requests |-> "none"]
  /\ approvals = {} /\ revoked = {}
  /\ prompts = [s \in Servers |-> None]
  /\ disk \in [Worktrees -> Contexts]
  /\ seen = disk /\ trusted = disk
  /\ consent = [w \in Worktrees |-> None]

-----------------------------------------------------------------------------
(* Admit: broker.go *)

\* A step that only reads: it goes to one phase or to another, and a storage
\* error counts as the negative answer.
Check(r, from, passes, yes, no) ==
  /\ pc[r] = from
  /\ \/ r \notin cancelled /\ passes /\ Goto(r, yes)
     \/ (~passes \/ Unavailable(r)) /\ Goto(r, no)
  /\ UNCHANGED <<tree, human, table, memo, environment>>

\* GetActionPlan, format, policy, validateApprovalScope, then the clock is read
\* once for the whole admission.
AdmitLoad(r) ==
  LET p == PlanOf[r]
      fit == p \notin Barred /\ InScope(p, clock)
  IN /\ pc[r] = "idle"
     /\ \/ /\ r \notin cancelled /\ fit
           /\ asked' = [asked EXCEPT ![r] = clock]
           /\ Goto(r, IF p \in Gated THEN "approve" ELSE "context")
        \/ /\ ~fit \/ Unavailable(r)
           /\ Goto(r, "refused") /\ UNCHANGED asked
     /\ UNCHANGED <<tree, human, table, lease, began, outcome, launched, environment>>

AdmitApprovals(r) ==
  Check(r, "approve", Approved(PlanOf[r], asked[r]), "context", "refused")
AdmitContext(r) == Check(r, "context", ContextCurrent(PlanOf[r]), "trust", "refused")
AdmitTrust(r) == Check(r, "trust", TrustCurrent(PlanOf[r]), "acquire", "refused")

\* One transaction: drop the expired row, insert the new one.  A reply may be
\* lost after the commit; Admit then returns the error and leaves the row.
Acquire(r) ==
  LET w == Place(r)
      taken == [plan |-> PlanOf[r], holder |-> HolderOf[r], expires |-> asked[r] + Lease]
  IN /\ pc[r] = "acquire"
     /\ \/ /\ r \notin cancelled /\ Vacant(w, asked[r])
           /\ locks' = [locks EXCEPT ![w] = taken]
           /\ lease' = [lease EXCEPT ![r] = asked[r] + Lease]
           /\ Goto(r, "claim") /\ UNCHANGED stray
        \/ /\ ~Vacant(w, asked[r]) \/ Unavailable(r)
           /\ Goto(r, "refused") /\ UNCHANGED <<locks, lease, stray>>
        \/ /\ r \in Faulty /\ Vacant(w, asked[r])
           /\ locks' = [locks EXCEPT ![w] = taken]
           /\ stray' = stray \cup {taken}
           /\ Goto(r, "refused") /\ UNCHANGED lease
     /\ UNCHANGED <<tree, human, claims, trail, runs, asked, began, outcome, launched, clock, cancelled>>

\* Mutants: the insert replaces a claimed key; a claimed key is tried again.
Claim_Replaces(r) ==
  /\ pc[r] = "claim" /\ Goto(r, "announce")
  /\ claims' = [claims EXCEPT ![KeyOf[r]] = PlanOf[r]]
  /\ UNCHANGED <<tree, human, locks, trail, runs, memo, environment>>
Claim_Retries(r) ==
  /\ pc[r] = "claim"
  /\ \/ /\ claims[KeyOf[r]] = None /\ Goto(r, "announce")
        /\ claims' = [claims EXCEPT ![KeyOf[r]] = PlanOf[r]]
     \/ claims[KeyOf[r]] # None /\ UNCHANGED <<pc, claims>>
  /\ UNCHANGED <<tree, human, locks, trail, runs, memo, environment>>
Claim(r) ==
  LET k == KeyOf[r]
      claimed == claims' = [claims EXCEPT ![k] = PlanOf[r]]
  IN /\ pc[r] = "claim"
     /\ \/ r \notin cancelled /\ claims[k] = None /\ claimed /\ Goto(r, "announce")
        \/ (claims[k] # None \/ Unavailable(r)) /\ Goto(r, "unlock") /\ UNCHANGED claims
        \/ r \in Faulty /\ claims[k] = None /\ claimed /\ Goto(r, "unlock")
     /\ UNCHANGED <<tree, human, locks, trail, runs, memo, environment>>

\* The "admitted" event; an event with the same id already stored is an error.
Announce(r) ==
  LET e == Event("admitted", r)
  IN /\ pc[r] = "announce"
     /\ \/ /\ r \notin cancelled /\ ~Logged(e)
           /\ trail' = trail \cup {e}
           /\ Goto(r, IF r \in AdmitOnly THEN "granted" ELSE "admitted")
        \/ (Logged(e) \/ Unavailable(r)) /\ Goto(r, "undo") /\ UNCHANGED trail
        \/ r \in Faulty /\ ~Logged(e) /\ trail' = trail \cup {e} /\ Goto(r, "undo")
     /\ UNCHANGED <<tree, human, locks, claims, runs, memo, environment>>

\* The row of r, if there is one, stays after a storage call that failed.
Leave(r) ==
  /\ UNCHANGED locks
  /\ stray' = stray \cup {row \in {locks[Place(r)]} : Owned(r)}
\* Mutant: the row is left to expire.
DropLock_Skipped(r, available) == available \in BOOLEAN /\ UNCHANGED <<locks, stray>>
\* ReleaseActionLock; "available" says whether its context still works.
DropLock(r, available) ==
  \/ /\ available /\ UNCHANGED stray
     /\ locks' = [locks EXCEPT ![Place(r)] = IF Owned(r) THEN None ELSE @]
  \/ (~available \/ r \in Faulty) /\ Leave(r)

\* Mutant: a failed claim returns without releasing.
Unlock_Forgotten(r) ==
  /\ pc[r] = "unlock" /\ Goto(r, "refused")
  /\ UNCHANGED <<tree, human, table, memo, environment>>
\* Mutant: the undo of a failed audit gives only the key back.
Undo_Forgotten(r) ==
  /\ pc[r] = "undo" /\ Goto(r, "unclaim")
  /\ UNCHANGED <<tree, human, table, memo, environment>>
\* The failed claim, and the failed audit, release with the request's context.
Unlock(r) ==
  /\ pc[r] = "unlock" /\ Goto(r, "refused")
  /\ DropLock(r, r \notin cancelled)
  /\ UNCHANGED <<tree, human, claims, trail, runs, memo, clock, cancelled>>
Undo(r) ==
  /\ pc[r] = "undo" /\ Goto(r, "unclaim")
  /\ DropLock(r, r \notin cancelled)
  /\ UNCHANGED <<tree, human, claims, trail, runs, memo, clock, cancelled>>
Unclaim(r) ==
  /\ pc[r] = "unclaim" /\ Goto(r, "refused")
  /\ \/ /\ r \notin cancelled /\ claims[KeyOf[r]] = PlanOf[r]
        /\ claims' = [claims EXCEPT ![KeyOf[r]] = None]
     \/ Unavailable(r) /\ UNCHANGED claims
  /\ UNCHANGED <<tree, human, locks, trail, runs, memo, environment>>

-----------------------------------------------------------------------------
(* The admit route hands the admission to its caller. *)

\* Mutant: the memory copy is extended whatever the update of the row did.
Renew_Blind(r) ==
  /\ pc[r] = "granted" /\ r \notin cancelled
  /\ locks' = [locks EXCEPT ![Place(r)] =
                 IF Owned(r) THEN [@ EXCEPT !.expires = clock + Lease] ELSE @]
  /\ lease' = [lease EXCEPT ![r] = clock + Lease]
  /\ UNCHANGED <<pc, tree, human, claims, trail, runs, asked, began, outcome, launched, environment>>
\* A renewal whose reply is lost leaves a row newer than the memory; left out.
Renew(r) ==
  /\ pc[r] = "granted" /\ r \notin cancelled
  /\ Owned(r) /\ locks[Place(r)].expires > clock
  /\ locks' = [locks EXCEPT ![Place(r)].expires = clock + Lease]
  /\ lease' = [lease EXCEPT ![r] = clock + Lease]
  /\ UNCHANGED <<pc, tree, human, claims, trail, runs, asked, began, outcome, launched, environment>>
HandBack(r) ==
  /\ pc[r] = "granted" /\ Goto(r, "returned")
  /\ DropLock(r, r \notin cancelled)
  /\ UNCHANGED <<tree, human, claims, trail, runs, memo, clock, cancelled>>
\* The CLI and HTTP admit commands print the admission and forget it.
Forget(r) ==
  /\ pc[r] = "granted" /\ Goto(r, "returned")
  /\ UNCHANGED <<tree, human, table, memo, environment>>

-----------------------------------------------------------------------------
(* ExecuteWithRevalidation *)

\* The plan is read again and the lease compared with the clock before the
\* deferred release is registered: both errors return without releasing.
ExecuteLoad(r) ==
  /\ pc[r] = "admitted" /\ PlanOf[r] \notin Delegated
  /\ \/ r \notin cancelled /\ lease[r] > clock /\ Goto(r, "rescope") /\ UNCHANGED <<locks, stray>>
     \/ lease[r] <= clock /\ Goto(r, "returned") /\ UNCHANGED <<locks, stray>>
     \/ Unavailable(r) /\ Goto(r, "returned") /\ Leave(r)
  /\ UNCHANGED <<tree, human, claims, trail, runs, memo, clock, cancelled>>
\* Mutants: the scope is not read again; the approval is judged by Admit's clock.
ExecuteScope_Trusting(r) ==
  Check(r, "rescope", TRUE, IF PlanOf[r] \in Gated THEN "reapprove" ELSE "revalidate", "release")
ExecuteApprovals_Stale(r) ==
  Check(r, "reapprove", Approved(PlanOf[r], asked[r]), "revalidate", "release")
ExecuteScope(r) ==
  Check(r, "rescope", InScope(PlanOf[r], clock),
        IF PlanOf[r] \in Gated THEN "reapprove" ELSE "revalidate", "release")
ExecuteApprovals(r) ==
  Check(r, "reapprove", Approved(PlanOf[r], clock), "revalidate", "release")

\* Git evidence: the identity of the checkout, never its HEAD.  The command
\* may fail at any time, and a sync plan also asks for a clean branch.
Revalidate(r) ==
  /\ pc[r] = "revalidate"
  /\ \/ r \notin cancelled /\ Discoverable(Place(r)) /\ Goto(r, "recontext")
     \/ Goto(r, "reject")
  /\ UNCHANGED <<tree, human, table, memo, environment>>
ExecuteContext(r) == Check(r, "recontext", ContextCurrent(PlanOf[r]), "retrust", "reject")
ExecuteTrust(r) == Check(r, "retrust", TrustCurrent(PlanOf[r]), "start", "reject")

\* Mutant: the audit of the start is best effort.
Start_Unaudited(r) ==
  /\ pc[r] = "start" /\ Goto(r, "launch")
  /\ trail' \in {trail, trail \cup {Event("started", r)}}
  /\ UNCHANGED <<tree, human, locks, claims, runs, memo, environment>>
\* The "started" event comes before the child process.
Start(r) ==
  /\ pc[r] = "start"
  /\ \/ /\ r \notin cancelled /\ Goto(r, "launch")
        /\ trail' = trail \cup {Event("started", r)}
     \/ Unavailable(r) /\ Goto(r, "release") /\ UNCHANGED trail
     \/ r \in Faulty /\ Goto(r, "release") /\ trail' = trail \cup {Event("started", r)}
  /\ UNCHANGED <<tree, human, locks, claims, runs, memo, environment>>

Launch(r) ==
  /\ pc[r] = "launch"
  /\ \/ /\ r \notin cancelled /\ Goto(r, "running")
        /\ began' = [began EXCEPT ![r] = clock]
        /\ launched' = launched \cup {r} /\ UNCHANGED outcome
     \/ /\ Goto(r, "record")
        /\ outcome' = [outcome EXCEPT ![r] =
                         IF r \in cancelled THEN "cancelled" ELSE "unavailable"]
        /\ UNCHANGED <<began, launched>>
  /\ UNCHANGED <<tree, human, table, asked, lease, environment>>

\* The runner kills the child at its timeout and when the context is done; the
\* handler classifies what is left.
Exit(r) ==
  /\ pc[r] = "running"
  /\ \E status \in Statuses \ {"postcheck_failed", "precheck_failed"} :
       /\ status = "timed_out" => clock >= began[r] + Timeout[PlanOf[r]]
       /\ status = "cancelled" => r \in cancelled
       /\ status \in {"failed", "unavailable"} => r \notin cancelled
       /\ outcome' = [outcome EXCEPT ![r] = status]
       /\ Goto(r, IF status = "succeeded" THEN "postverify" ELSE "record")
  /\ UNCHANGED <<tree, human, table, asked, lease, began, launched, environment>>

\* After a successful exit every check runs; one that fails overrides the status.
PostCheck(r, from, passes, mayFail, next) ==
  /\ pc[r] = from /\ Goto(r, next)
  /\ \/ r \notin cancelled /\ passes /\ UNCHANGED outcome
     \/ /\ ~passes \/ mayFail \/ Unavailable(r)
        /\ outcome' = [outcome EXCEPT ![r] = "postcheck_failed"]
  /\ UNCHANGED <<tree, human, table, asked, lease, began, launched, environment>>
PostRevalidate(r) ==
  PostCheck(r, "postverify", Discoverable(Place(r)), TRUE,
            IF PlanOf[r] \in Syncing THEN "record" ELSE "postcontext")
\* Mutant: the recorded context is not compared after the run.
PostContext_Skipped(r) == PostCheck(r, "postcontext", TRUE, FALSE, "posttrust")
PostContext(r) == PostCheck(r, "postcontext", ContextCurrent(PlanOf[r]), FALSE, "posttrust")
PostTrust(r) == PostCheck(r, "posttrust", TrustCurrent(PlanOf[r]), FALSE, "record")

\* The run and its terminal event in one transaction, with the request's context.
Record(r) ==
  LET status == IF pc[r] = "reject" THEN "precheck_failed" ELSE outcome[r]
  IN /\ pc[r] \in {"record", "reject"} /\ Goto(r, "release")
     /\ \/ /\ r \notin cancelled
           /\ runs' = [runs EXCEPT ![r] = status]
           /\ trail' = trail \cup {Event(status, r)}
        \/ Unavailable(r) /\ UNCHANGED <<runs, trail>>
     /\ UNCHANGED <<tree, human, locks, claims, memo, environment>>

\* Mutant: an execution that ends leaves its row.
Release_Forgotten(r) ==
  /\ pc[r] = "release" /\ Goto(r, "returned")
  /\ UNCHANGED <<tree, human, table, memo, environment>>
\* The deferred release uses context.Background().
Release(r) ==
  /\ pc[r] = "release" /\ Goto(r, "returned")
  /\ DropLock(r, TRUE)
  /\ UNCHANGED <<tree, human, claims, trail, runs, memo, clock, cancelled>>

-----------------------------------------------------------------------------
(* ExecuteExternalWork and ExecuteRelease: Jenkins targets under an admission.
   They neither look at the lease again nor at the approval. *)

\* Mutant: a changed worktree returns without releasing.
Dispatch_Leaks(r) ==
  /\ pc[r] = "admitted" /\ PlanOf[r] \in Delegated /\ Goto(r, "returned")
  /\ UNCHANGED <<tree, human, table, memo, environment>>
Dispatch(r) ==
  /\ pc[r] = "admitted" /\ PlanOf[r] \in Delegated
  /\ \/ /\ r \notin cancelled /\ Discoverable(Place(r)) /\ Goto(r, "delegated")
        /\ trail' \in {trail, trail \cup {Event("started", r)}}
        /\ launched' = launched \cup {r}
     \/ Goto(r, "release") /\ UNCHANGED <<trail, launched>>
  /\ UNCHANGED <<tree, human, locks, claims, runs, asked, lease, began, outcome, environment>>
Collect(r) ==
  /\ pc[r] = "delegated" /\ Goto(r, "release")
  /\ \E status \in {"succeeded", "failed"} :
       /\ outcome' = [outcome EXCEPT ![r] = status]
       /\ trail' \in {trail, trail \cup {Event(status, r)}}
  /\ UNCHANGED <<tree, human, locks, claims, runs, asked, lease, began, launched, environment>>

-----------------------------------------------------------------------------
(* The human: StartHumanApprovalCeremony and scope revocation. *)

\* One ceremony per process; the clock is read before the prompt is shown.
OpenPrompt(s, p) ==
  /\ prompts[s] = None /\ Cardinality(approvals) < MaxDecisions
  /\ prompts' = [prompts EXCEPT ![s] = [plan |-> p, at |-> clock]]
  /\ UNCHANGED <<pc, tree, approvals, revoked, table, memo, environment>>
\* Approval and audit event are one transaction; a grant is refused by the store
\* when the plan needs none.
Decide(s) ==
  /\ prompts[s] # None
  /\ \E yes \in BOOLEAN :
       /\ yes => prompts[s].plan \in Gated
       /\ approvals' = approvals \cup
            {[plan |-> prompts[s].plan, granted |-> yes, at |-> prompts[s].at]}
  /\ prompts' = [prompts EXCEPT ![s] = None]
  /\ UNCHANGED <<pc, tree, revoked, table, memo, environment>>
\* Cancelled, no desktop, or the transaction failed.
ClosePrompt(s) ==
  /\ prompts[s] # None /\ prompts' = [prompts EXCEPT ![s] = None]
  /\ UNCHANGED <<pc, tree, approvals, revoked, table, memo, environment>>
Revoke(p) ==
  /\ p \in Scoped \ revoked /\ revoked' = revoked \cup {p}
  /\ UNCHANGED <<pc, tree, approvals, prompts, table, memo, environment>>

(* The checkout, the scan that observes it, and the trust route. *)

Move(w, c) ==
  /\ w \in Moving /\ c # disk[w] /\ disk' = [disk EXCEPT ![w] = c]
  /\ UNCHANGED <<pc, seen, trusted, consent, human, table, memo, environment>>
Scan(w) ==
  /\ seen[w] # disk[w] /\ seen' = [seen EXCEPT ![w] = disk[w]]
  /\ UNCHANGED <<pc, disk, trusted, consent, human, table, memo, environment>>
\* Mutant: a tombstoned worktree is trusted.
TrustRead_Tombstoned(w) ==
  /\ w \in Moving /\ consent[w] = None
  /\ consent' = [consent EXCEPT ![w] = seen[w]]
  /\ UNCHANGED <<pc, disk, seen, trusted, human, table, memo, environment>>
TrustRead(w) ==
  /\ w \in Moving /\ consent[w] = None /\ seen[w] # Gone
  /\ consent' = [consent EXCEPT ![w] = seen[w]]
  /\ UNCHANGED <<pc, disk, seen, trusted, human, table, memo, environment>>
TrustWrite(w) ==
  /\ consent[w] # None
  /\ trusted' = [trusted EXCEPT ![w] = consent[w]]
  /\ consent' = [consent EXCEPT ![w] = None]
  /\ UNCHANGED <<pc, disk, seen, human, table, memo, environment>>

(* Time, cancellation and process death. *)

Tick ==
  /\ clock < MaxTime
  /\ \A r \in Requests : pc[r] = "running" => clock < began[r] + Timeout[PlanOf[r]]
  /\ clock' = clock + 1
  /\ UNCHANGED <<pc, tree, human, table, memo, cancelled, stray>>
Cancel(r) ==
  /\ r \in Cancellable \ cancelled /\ pc[r] \notin {"idle"} \cup Terminal
  /\ cancelled' = cancelled \cup {r}
  /\ UNCHANGED <<pc, tree, human, table, memo, clock, stray>>
\* What was in memory is gone; every row stays.
Crash(s) ==
  /\ s \in Crashing
  /\ \E r \in Requests : ServerOf[r] = s /\ pc[r] \notin {"idle"} \cup Terminal
  /\ pc' = [r \in Requests |->
              IF ServerOf[r] = s /\ pc[r] \notin {"idle"} \cup Terminal
              THEN "crashed" ELSE pc[r]]
  /\ prompts' = [prompts EXCEPT ![s] = None]
  /\ UNCHANGED <<tree, approvals, revoked, table, memo, environment>>

-----------------------------------------------------------------------------
\* What the handler of an accepted request does next.
Advance(r) ==
  \/ AdmitApprovals(r) \/ AdmitContext(r) \/ AdmitTrust(r) \/ Acquire(r)
  \/ Claim(r) \/ Announce(r) \/ Unlock(r) \/ Undo(r) \/ Unclaim(r)
  \/ ExecuteLoad(r) \/ ExecuteScope(r) \/ ExecuteApprovals(r) \/ Revalidate(r)
  \/ ExecuteContext(r) \/ ExecuteTrust(r) \/ Start(r) \/ Launch(r) \/ Exit(r)
  \/ PostRevalidate(r) \/ PostContext(r) \/ PostTrust(r) \/ Record(r) \/ Release(r)
  \/ Dispatch(r) \/ Collect(r)
Caller(r) == AdmitLoad(r) \/ Renew(r) \/ HandBack(r) \/ Forget(r) \/ Cancel(r)
Person ==
  \/ \E s \in Servers : Decide(s) \/ ClosePrompt(s) \/ \E p \in Plans : OpenPrompt(s, p)
  \/ \E p \in Plans : Revoke(p)
World ==
  \/ \E w \in Worktrees : Scan(w) \/ TrustRead(w) \/ TrustWrite(w)
                          \/ \E c \in Contexts \cup {Gone} : Move(w, c)
  \/ \E s \in Servers : Crash(s)
  \/ Tick

Next == (\E r \in Requests : Advance(r) \/ Caller(r)) \/ Person \/ World
Spec == Init /\ [][Next]_vars
\* A handler is a goroutine that runs until it returns, and its child process
\* ends by itself or is killed at the timeout.
FairSpec == Spec /\ \A r \in Requests : WF_vars(Advance(r))

-----------------------------------------------------------------------------
(* Properties *)

\* The shape of the tables and of each handler's memory.
TypeOK ==
  /\ clock \in Times /\ cancelled \subseteq Requests /\ stray \subseteq Rows
  /\ pc \in [Requests -> Phases]
  /\ asked \in [Requests -> Times] /\ lease \in [Requests -> Nat]
  /\ began \in [Requests -> Times]
  /\ outcome \in [Requests -> Statuses \cup {"none"}]
  /\ launched \subseteq Requests
  /\ locks \in [Worktrees -> Rows \cup {None}]
  /\ claims \in [Keys -> Plans \cup {None}]
  /\ trail \subseteq EventsOf
  /\ runs \in [Requests -> Statuses \cup {"none"}]
  /\ approvals \subseteq Decisions
  /\ prompts \in [Servers -> [plan : Plans, at : Times] \cup {None}]
  /\ revoked \subseteq Scoped
  /\ disk \in [Worktrees -> Contexts \cup {Gone}]
  /\ seen \in [Worktrees -> Contexts \cup {Gone}]
  /\ trusted \in [Worktrees -> Contexts]
  /\ consent \in [Worktrees -> Contexts \cup {None}]

\* Between the insert of its row and the end of its handler a request believes
\* that it holds the worktree.
HoldingPhases == {"claim", "announce", "unlock", "undo"} \cup ExecutePhases
Holding(r) == pc[r] \in HoldingPhases
Alike(r, q) == PlanOf[r] = PlanOf[q] /\ HolderOf[r] = HolderOf[q]
\* No other request that has come has the plan and the holder of r, so the row
\* says whether it is that of r.  Two that are alike may release each other's
\* row, which the table allows, so the properties of leases leave them out.
Sole(r) == \A q \in Requests : r # q /\ pc[q] # "idle" => ~Alike(r, q)
DistinctAuthority == \A r, q \in Requests : r # q => ~Alike(r, q)

\* The expiry in a holder's memory is as good as the row: while it lies in the
\* future, the stored row is the holder's own (broker.go compares the memory
\* copy and never reads the row again before it starts the child).
MemoryMatchesRow ==
  \A r \in Requests :
    Holding(r) /\ lease[r] > clock /\ Sole(r) => locks[Place(r)] = LeaseRow(r)

\* No two requests that differ in plan or holder hold one worktree under leases
\* that are both still running.
LeaseExclusive ==
  \A r, q \in Requests :
    Holding(r) /\ Holding(q) /\ r # q /\ Place(r) = Place(q) /\ Sole(r) /\ Sole(q)
      => lease[r] <= clock \/ lease[q] <= clock

\* One idempotency key starts at most one child process or remote job, whatever
\* fails, is retried or crashes.
OneStartPerKey ==
  \A r, q \in launched : KeyOf[r] = KeyOf[q] => r = q

\* No effect without evidence: a child process runs only after "admitted" and
\* "started" are durable, and a stored run has both (a rejected one needs no
\* "started") and its own terminal event.
Admitted(r) == Event("admitted", r) \in trail
StartLogged(r) == Event("started", r) \in trail
EvidenceFirst ==
  /\ \A r \in launched : Admitted(r) /\ (PlanOf[r] \in Delegated \/ StartLogged(r))
  /\ \A r \in Requests : runs[r] # "none" =>
       /\ Admitted(r) /\ (runs[r] = "precheck_failed" \/ StartLogged(r))
       /\ Event(runs[r], r) \in trail

\* A row that has not expired belongs to a request that is under way, whose
\* process was killed or that handed its admission to a caller, or it is a row
\* at which storage or the request's context failed just as it was to be
\* removed, or inserted, or as Execute read the plan (before it registers the
\* deferred release).  No other path through the handlers forgets one.
NoOrphanLock ==
  \A w \in Worktrees : locks[w] # None =>
    \/ locks[w].expires <= clock
    \/ \E r \in Requests :
         /\ Place(r) = w /\ locks[w] = LeaseRow(r)
         /\ Holding(r) \/ pc[r] = "crashed" \/ (pc[r] = "returned" /\ r \in AdmitOnly)
    \/ locks[w] \in stray

\* Before Execute has looked at the approval scope or at the approvals again.
BeforeRecheck == {"idle", "admitted", "rescope"} \cup AdmitPhases
\* A scope revoked at any time before the recheck keeps the child from starting,
\* admitted or not.
RevocationStopsLaunch ==
  \A r \in Requests : PlanOf[r] \notin Delegated =>
    []( PlanOf[r] \in revoked /\ pc[r] \in BeforeRecheck => [](pc[r] # "running") )
\* A grant that ran out before the recheck, with no newer one, does too.
ExpiryStopsLaunch ==
  \A r \in Requests : PlanOf[r] \in Gated \ Delegated =>
    []( pc[r] \in BeforeRecheck /\ [](~Approved(PlanOf[r], clock))
          => [](pc[r] # "running") )
\* A worktree whose recorded context leaves the plan's while the child runs, and
\* stays away, never yields a success (repository.sync moves HEAD itself).
DriftNeverSucceeds ==
  \A r \in Requests : PlanOf[r] \notin Syncing =>
    []( pc[r] = "running" /\ [](seen[Place(r)] # PlanContext[PlanOf[r]])
          => [](runs[r] # "succeeded") )

\* Every accepted request ends: a request comes once and its end is final, so
\* again and again none is under way.
EveryRequestReturns ==
  []<>(\A r \in Requests \ AdmitOnly : pc[r] \in {"idle"} \cup Terminal)
\* And no lock of a request that has come waits for more than its expiry.
LockIsGivenBack ==
  []<>(\A r \in Requests \ AdmitOnly :
         pc[r] # "idle" => locks[Place(r)] # LeaseRow(r) \/ lease[r] <= clock)

-----------------------------------------------------------------------------
(* What the documents say of the code and the code does not do. *)

\* Execution is locked: no two children run in one worktree.
LockedExecution ==
  \A r, q \in Requests : pc[r] = "running" /\ pc[q] = "running" /\ Place(r) = Place(q)
      => r = q
\* A cancelled Action can be told from the others: its run is stored.
CancelledIsRecorded ==
  \A r \in Requests : pc[r] = "returned" /\ outcome[r] = "cancelled"
      => runs[r] = "cancelled"
=============================================================================

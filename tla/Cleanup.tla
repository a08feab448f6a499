-------------------------------- MODULE Cleanup --------------------------------
(***************************************************************************)
(* The removal of a linked worktree and its branch whose change was merged *)
(* (internal/app/cleanup.go from PlanCleanup on, CleanupCandidates in      *)
(* app.go, githubCommitMerged in github.go).  Candidates are looked at     *)
(* through a scan, before the plan, before and after the admission; Git,   *)
(* the user and GitHub go on in between, and any step may fail.            *)
(***************************************************************************)
EXTENDS Naturals, FiniteSets

CONSTANTS
  Branches, Commits, Merged, \* names and heads; the heads that a merged pull request has
  MaxChanges, MaxRuns,       \* bounds: changes of the worktree, executions
  None

VARIABLES
  store,   \* the observed worktree, the plan, the lease and the kept result
  calls,   \* the handler and what it has read
  world,   \* the worktree, the branches, what is pushed, whether GitHub answers
  history, \* the commits that users made; the worktrees that were removed
  budget   \* changes and executions so far

\* Facts of one linked worktree as a scan reports them; locked stands for
\* detached and prunable too, dirty for untracked files.
Facts(w) == [branch |-> w.branch, head |-> w.refs[w.branch], dirty |-> w.dirty,
             locked |-> w.locked, ahead |-> w.refs[w.branch] \notin w.pushed]
Present(w) == w.branch # None
Observed(w) == IF Present(w) THEN Facts(w) ELSE None

CleanupInit ==
  /\ world \in [branch : Branches, refs : [Branches -> Commits], dirty : BOOLEAN, locked : BOOLEAN,
                pushed : SUBSET Commits, answers : {TRUE}]
  /\ store = [row |-> None, plan |-> None, approved |-> FALSE, leased |-> FALSE, result |-> None]
  /\ calls = [at |-> "idle"]
  /\ history = [commits |-> {world.refs[b] : b \in Branches}, removed |-> {}]
  /\ budget = [changes |-> 0, runs |-> 0]

\* githubCommitMerged: an error counts as not merged.
IsMerged(head) == world.answers /\ head \in Merged
\* CleanupCandidates: what must hold of a row for a person to review it.
LocalSafetyPassed(row) == ~row.dirty /\ ~row.locked /\ ~row.ahead
Reviewable(row) == row # None /\ LocalSafetyPassed(row) /\ IsMerged(row.head)
\* cleanupCandidateDigest: the row with its decision, without the time.
Candidate(row) == [row |-> row, merged |-> Reviewable(row)]

Kept == UNCHANGED <<world, history, budget>>
To(at) == calls' = [calls EXCEPT !.at = at]
\* RunScan: everything is observed, or the caller gives up.
Scanned(at, failing) ==
  \/ store' = [store EXCEPT !.row = Observed(world)] /\ To(at)
  \/ To(failing) /\ UNCHANGED store

-----------------------------------------------------------------------------
\* PlanCleanup: a scan, then the candidate as it was found.
PlanScan ==
  /\ calls.at = "idle" /\ store.plan = None /\ Scanned("plan", "idle") /\ Kept
PlanCandidate ==
  /\ calls.at = "plan"
  /\ store' = IF Reviewable(store.row) THEN [store EXCEPT !.plan = Candidate(store.row)] ELSE store
  /\ To("idle") /\ Kept
Approve ==
  /\ store.plan # None /\ ~store.approved
  /\ store' = [store EXCEPT !.approved = TRUE] /\ UNCHANGED calls /\ Kept

\* ExecuteCleanup: scan, plan, admission, scan, candidate.
ExecuteScan ==
  /\ calls.at = "idle" /\ store.plan # None /\ budget.runs < MaxRuns
  /\ budget' = [budget EXCEPT !.runs = @ + 1]
  /\ Scanned("read", "idle") /\ UNCHANGED <<world, history>>
PlanIsCurrent == store.row # None /\ Candidate(store.row) = store.plan
ReadPlan ==
  /\ calls.at = "read" /\ To(IF PlanIsCurrent THEN "admit" ELSE "idle")
  /\ UNCHANGED store /\ Kept
Admit ==
  /\ calls.at = "admit"
  /\ IF store.approved THEN store' = [store EXCEPT !.leased = TRUE] /\ To("rescan")
     ELSE To("idle") /\ UNCHANGED store
  /\ Kept
Finish(status) == calls' = [at |-> "finish", status |-> status]
Rescan ==
  /\ calls.at = "rescan" /\ Kept
  /\ \/ store' = [store EXCEPT !.row = Observed(world)] /\ To("recheck")
     \/ Finish("precheck_failed") /\ UNCHANGED store
Recheck ==
  /\ calls.at = "recheck"
  /\ IF PlanIsCurrent /\ Reviewable(store.row) THEN To("remove") ELSE Finish("precheck_failed")
  /\ UNCHANGED store /\ Kept

\* git worktree remove: a worktree that is dirty or locked stays.
RemoveWorktree ==
  /\ calls.at = "remove" /\ Present(world) /\ ~world.dirty /\ ~world.locked
  /\ world' = [world EXCEPT !.branch = None] /\ To("branch")
  /\ history' = [history EXCEPT !.removed = @ \cup {Facts(world)}]
  /\ UNCHANGED <<store, budget>>
RemoveFails == calls.at = "remove" /\ Finish("failed") /\ UNCHANGED store /\ Kept
\* git branch -d of the branch that was reviewed: only a branch that is merged
\* to its upstream, and that is there, goes.
Planned == store.plan.row.branch
DeleteBranch ==
  /\ calls.at = "branch" /\ world.refs[Planned] \in world.pushed /\ world.branch # Planned
  /\ world' = [world EXCEPT !.refs[Planned] = None] /\ To("postcheck")
  /\ UNCHANGED <<store, history, budget>>
DeleteFails == calls.at = "branch" /\ Finish("failed") /\ UNCHANGED store /\ Kept
Postcheck ==
  /\ calls.at = "postcheck" /\ Kept
  /\ \/ store' = [store EXCEPT !.row = Observed(world)] /\ Finish("succeeded")
     \/ Finish("postcheck_failed") /\ UNCHANGED store
\* finishCleanup keeps the result, the deferred Release follows.
SaveResult ==
  /\ calls.at = "finish" /\ calls' = [at |-> "release"]
  /\ \/ store' = [store EXCEPT !.result = calls.status]
     \/ UNCHANGED store
  /\ Kept
ReleaseLease ==
  /\ calls.at = "release" /\ calls' = [at |-> "idle"]
  /\ store' = [store EXCEPT !.leased = FALSE] /\ Kept
\* The process dies; the lease ends with its time.
Die ==
  /\ calls.at # "idle" /\ calls' = [at |-> "idle"]
  /\ store' = [store EXCEPT !.leased = FALSE] /\ Kept

-----------------------------------------------------------------------------
Change(w) ==
  /\ budget.changes < MaxChanges /\ budget' = [budget EXCEPT !.changes = @ + 1]
  /\ world' = w /\ UNCHANGED <<store, calls>>
\* The user edits, commits (the new head contains the old one), pushes, checks out another branch, locks.
Edit == Present(world) /\ Change([world EXCEPT !.dirty = ~@]) /\ UNCHANGED history
CommitWork ==
  /\ Present(world)
  /\ \E c \in Commits \ history.commits :
       /\ Change([world EXCEPT !.refs[world.branch] = c, !.dirty = FALSE])
       /\ history' = [history EXCEPT !.commits = (@ \ {world.refs[world.branch]}) \cup {c}]
Push ==
  /\ Present(world) /\ Change([world EXCEPT !.pushed = @ \cup {world.refs[world.branch]}])
  /\ UNCHANGED history
Checkout(b) ==
  /\ Present(world) /\ ~world.dirty /\ world.refs[b] # None
  /\ Change([world EXCEPT !.branch = b]) /\ UNCHANGED history
LockWorktree == Present(world) /\ Change([world EXCEPT !.locked = ~@]) /\ UNCHANGED history
GitHubAnswers == Change([world EXCEPT !.answers = ~@]) /\ UNCHANGED history

CleanupNext ==
  \/ PlanScan \/ PlanCandidate \/ Approve \/ ExecuteScan \/ ReadPlan \/ Admit \/ Rescan \/ Recheck
  \/ RemoveWorktree \/ RemoveFails \/ DeleteBranch \/ DeleteFails \/ Postcheck \/ SaveResult
  \/ ReleaseLease \/ Die
  \/ Edit \/ CommitWork \/ Push \/ LockWorktree \/ GitHubAnswers \/ \E b \in Branches : Checkout(b)

-----------------------------------------------------------------------------
CleanupTypeOK ==
  /\ store.row = None \/ store.row.head \in Commits
  /\ store.result \in {None, "precheck_failed", "failed", "postcheck_failed", "succeeded"}
  /\ history.commits \subseteq Commits

\* Whatever is committed, checked out or locked while the steps go by, a
\* commit is never without a branch or a remote that has it, and the worktree
\* that goes has nothing uncommitted in it.
NoWorkIsLost ==
  /\ \A c \in history.commits :
       c \in world.pushed \/ \E b \in Branches : world.refs[b] = c
  /\ \A facts \in history.removed : ~facts.dirty /\ ~facts.locked

\* Nothing is removed but under the lease of an approved plan whose candidate
\* was found again, with its merged change, after the admission.
RemovalIsReviewed ==
  calls.at \in {"remove", "branch"} =>
    /\ store.leased /\ store.approved /\ store.plan.merged
    /\ store.row = store.plan.row /\ store.row.head \in Merged
=============================================================================

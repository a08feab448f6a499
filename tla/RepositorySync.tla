----------------------------- MODULE RepositorySync -----------------------------
(***************************************************************************)
(* The update of the repositories of a project                             *)
(* (internal/app/repository_sync.go, revalidate in ExecuteAction of        *)
(* internal/app/service.go): a plan for each eligible primary worktree, an *)
(* execution of the plans by goroutines that share two slots, one scan.    *)
(***************************************************************************)
EXTENDS Naturals, FiniteSets

CONSTANTS
  Repositories, Branches, Slots, \* Slots: 2 in the code
  MaxChanges,                    \* bound: changes of the worktrees
  None

VARIABLES
  store,   \* the rows of the last scan and the plans
  calls,   \* the execution: the outcome of every plan, how many scans
  world,   \* the worktrees themselves
  history, \* the state in which a worktree was pulled
  budget   \* changes so far

\* The primary worktree: its branch (None when detached), local changes,
\* commits that are not pushed, an upstream, and whether it can be observed.
Worktrees == [branch : Branches \cup {None}, dirty : BOOLEAN, ahead : BOOLEAN, upstream : BOOLEAN]

\* A scan has just seen every primary worktree.
SyncInit ==
  /\ world \in [Repositories -> Worktrees] /\ store = [rows |-> world, plans |-> {}]
  /\ calls = [at |-> "idle"] /\ history = {} /\ budget = 0

\* repositorySyncWorktree and repositorySyncEligibility, of the row.
Eligible(row) == row.branch # None /\ ~row.dirty /\ row.upstream /\ ~row.ahead
\* RepositorySyncPlan: the others are skipped with a reason.
PlanSync ==
  /\ calls.at = "idle" /\ store.plans = {}
  /\ store' = [store EXCEPT !.plans =
       {[repository |-> r, branch |-> store.rows[r].branch] :
          r \in {s \in Repositories : Eligible(store.rows[s])}}]
  /\ store'.plans # {} /\ UNCHANGED <<calls, world, history, budget>>
\* ExecuteRepositorySync: some of the plans.
Execute ==
  /\ calls.at = "idle"
  /\ \E chosen \in (SUBSET store.plans) \ {{}} :
       calls' = [at |-> "run", plans |-> [p \in chosen |-> "waiting"], scans |-> 0]
  /\ UNCHANGED <<store, world, history, budget>>

Set(p, step) == calls' = [calls EXCEPT !.plans[p] = step]
Running(steps) == {p \in DOMAIN calls.plans : calls.plans[p] \in steps}
Unchanged == UNCHANGED <<store, world, history, budget>>
\* A slot, the trust of the worktree, the admission.
Take(p) ==
  /\ calls.at = "run" /\ calls.plans[p] = "waiting"
  /\ Cardinality(Running({"admitted", "valid"})) < Slots
  /\ \E outcome \in {"admitted", "failed"} : Set(p, outcome) /\ Unchanged
\* validateRepositorySyncState: the worktree as it is now.
SyncStateIsValid_Row(p) == Eligible(store.rows[p.repository])
SyncStateIsValid(p) ==
  LET w == world[p.repository] IN w.branch = p.branch /\ ~w.dirty /\ w.upstream /\ ~w.ahead
Revalidate(p) ==
  /\ calls.at = "run" /\ calls.plans[p] = "admitted"
  /\ Set(p, IF SyncStateIsValid(p) THEN "valid" ELSE "failed")
  /\ history' = IF SyncStateIsValid(p) THEN history \cup {[plan |-> p, was |-> world[p.repository]]} ELSE history
  /\ UNCHANGED <<store, world, budget>>
\* git pull --ff-only, which may refuse.
Pull(p) ==
  /\ calls.at = "run" /\ calls.plans[p] = "valid"
  /\ \E outcome \in {"succeeded", "failed"} : Set(p, outcome) /\ Unchanged
\* wait.Wait; one scan when something was updated.
JoinSync ==
  /\ calls.at = "run" /\ Running({"waiting", "admitted", "valid"}) = {}
  /\ IF Running({"succeeded"}) # {}
     THEN store' = [rows |-> world, plans |-> {}] /\ calls' = [calls EXCEPT !.at = "ended", !.scans = 1]
     ELSE store' = [store EXCEPT !.plans = {}] /\ calls' = [calls EXCEPT !.at = "ended"]
  /\ UNCHANGED <<world, history, budget>>
\* Someone works in a worktree.
ChangeWorktree(r) ==
  /\ budget < MaxChanges /\ budget' = budget + 1
  /\ \E w \in Worktrees : world' = [world EXCEPT ![r] = w]
  /\ UNCHANGED <<store, calls, history>>

SyncNext ==
  \/ PlanSync \/ Execute \/ JoinSync
  \/ \E p \in store.plans : calls.at = "run" /\ p \in DOMAIN calls.plans /\ (Take(p) \/ Revalidate(p) \/ Pull(p))
  \/ \E r \in Repositories : ChangeWorktree(r)

-----------------------------------------------------------------------------
SyncTypeOK ==
  /\ world \in [Repositories -> Worktrees] /\ store.rows \in [Repositories -> Worktrees]
  /\ calls.at \in {"idle", "run", "ended"}

\* "The current implementation uses two concurrent local Git processes [...] it
\* does not merge, rebase, force-update, or touch a dirty Worktree"
\* (docs/INTEGRATIONS.md:145): what changed after the plan is not pulled.
OnlyCleanIsPulled ==
  /\ \A h \in history : Eligible(h.was) /\ h.was.branch = h.plan.branch
  /\ calls.at = "run" => Cardinality(Running({"admitted", "valid"})) <= Slots
=============================================================================

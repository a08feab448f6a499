----------------------------- MODULE DecisionProofs -----------------------------
(***************************************************************************)
(* Proofs about components whose rows record decisions that several        *)
(* processes take with an optimistic check in place of a lock: the plans   *)
(* of actions and the scopes that bound them (ActionPlanning), the rules   *)
(* that guard against repeated failures (Safeguard), the objectives that   *)
(* reviewers adopt (QualityObjective), the reviews of proposed commands    *)
(* and the runs of their checksets (ProposalReview), and the measurements  *)
(* that are imported as evidence (Measurement).  Each part defines the     *)
(* specification of its component, the constants it assumes, an inductive  *)
(* invariant, and ends with its theorems.                                  *)
(***************************************************************************)
EXTENDS Naturals, Sequences, FiniteSets, FiniteSetTheorems, WellFoundedInduction, TLAPS
CONSTANTS
  Users, Installs, Asks, Bounds, Trees, Heads, MaxTime, MaxCalls, MaxChanges, MaxFaults, \* of ActionPlanning
  Prints, Scope, Processes, Repeats, Retries, MaxRefs, MaxFailures, MaxDecisions,        \* of Safeguard
  Runners, Percents, MaxRevalidations, MaxRevision, MaxRuns,                             \* of QualityObjective
  Sources, Typed, Sets, Steps, Inputs, MaxCrashes,                                       \* of ProposalReview
  Manifests, Secrets, Replacement,                                                       \* of Measurement
  None
VARIABLES store, calls, world, history, budget
vars == <<store, calls, world, history, budget>>
\* A set of numbers that is not empty has a least one.
LEMMA LeastNumber ==
  ASSUME NEW T, T \subseteq Nat, T # {}
  PROVE  \E n \in T : \A m \in T : n <= m
<1> DEFINE less == {pair \in Nat \X Nat : pair[1] < pair[2]}
<1>1. IsWellFoundedOn(less, Nat)
  <2>1. OpToRel(<, Nat) = less
    BY DEF OpToRel
  <2> QED BY <2>1, NatLessThanWellFounded
<1>2. PICK n \in T : \A m \in T : <<m, n>> \notin less
  BY <1>1, WFMin
<1>3. ASSUME NEW m \in T, m < n
      PROVE  FALSE
  <2>1. <<m, n>> \in Nat \X Nat /\ <<m, n>>[1] < <<m, n>>[2]
    BY <1>3
  <2> QED BY <1>2, <2>1
<1>4. \A m \in T : ~(m < n) => n <= m
  OBVIOUS
<1> QED BY <1>2, <1>3, <1>4

\* By the least number that were not in it.
LEMMA UpTo ==
  ASSUME NEW last \in Nat, NEW S, 0 \in S, \A n \in Nat : n < last /\ n \in S => n + 1 \in S
  PROVE  last \in S
<1> DEFINE T == {n \in Nat : n <= last /\ n \notin S}
<1> SUFFICES ASSUME T # {}
             PROVE  FALSE
  OBVIOUS
<1>1. PICK n \in T : \A m \in T : n <= m
  BY LeastNumber
<1>2. n \in Nat /\ n <= last /\ n \notin S /\ n # 0
  OBVIOUS
<1>3. n - 1 \in Nat /\ n - 1 < last /\ n - 1 \notin T /\ (n - 1) + 1 = n
  BY <1>1, <1>2
<1>4. n - 1 \in S
  BY <1>2, <1>3
<1> QED BY <1>2, <1>3, <1>4

-----------------------------------------------------------------------------
(* ActionPlanning: plans and events are only added and scopes only advance,   *)
(* so what a planner has checked stays true until it is stored and answered.  *)
Plan == INSTANCE ActionPlanning
\* The instances count with the same operator.
LEMMA PlanCounts == \A T : Plan!Cardinality(T) = Cardinality(T)
BY DEF Plan!Cardinality, Cardinality

PlanSpec == Plan!PlanningInit /\ [][Plan!PlanningNext]_vars
\* Worktrees have finitely many components, each named by a path, and a path is not
\* None; a plan under a scope names one, and bounds are in natural numbers.
PlanConstants ==
  /\ None # {} /\ None \notin Heads
  /\ \A tree \in Trees : None \notin DOMAIN tree /\ IsFiniteSet(DOMAIN tree)
  /\ \A ask \in Asks : ask.scope # None
  /\ \A s \in DOMAIN Bounds : Bounds[s].disk \in Nat /\ Bounds[s].deadline \in Nat
  /\ MaxTime \in Nat

PlanRecord(p) ==
  p = [id |-> p.id, does |-> p.does, scope |-> p.scope, context |-> p.context, digest |-> p.digest,
       matched |-> p.matched, checked |-> p.checked, asked |-> p.asked]
\* An installation, and one that is planned.
Fitting(does, made) ==
  LET path == Plan!PathOf(does.component)
  IN /\ \A file \in does.files : Plan!Inside(path, file)
     /\ does.interpreter.executable = "venv" => does.interpreter.at = path
     /\ \E m \in made : m.does = does /\ Plan!AsAsked(does, m)
InstallPlan(p, made) ==
  /\ Fitting(p.does, made) /\ p.id = [head |-> p.id.head, does |-> p.does]
  /\ p.digest = None /\ p.matched /\ p.checked = 0
\* A plan under a scope, which matched some revision of it or did not.
WithinBounds(p, versions) ==
  /\ p.digest.state = "approved" /\ [id |-> p.scope, scope |-> p.digest] \in versions
  /\ p.digest.bounds = Bounds[p.scope]
  /\ Plan!Contained(p.does, Bounds[p.scope]) /\ p.checked < p.does.deadline
Scoped(p, rows, happened) ==
  /\ p.scope \in DOMAIN rows.scopes /\ \E ask \in Asks : p.id = ask.plan
  /\ p.matched => WithinBounds(p, happened.versions)
GoodPlan(p, rows, happened) ==
  /\ PlanRecord(p) /\ p.asked \in 0..MaxTime
  /\ p.scope = None => InstallPlan(p, happened.made)
  /\ p.scope # None => Scoped(p, rows, happened)
StoredAs(p, rows) == p.id \in DOMAIN rows.plans /\ rows.plans[p.id] = p

\* The next revision of a scope.
ScopeNext(old, new) ==
  /\ new = [bounds |-> old.bounds, state |-> new.state, revision |-> old.revision + 1]
  /\ <<old.state, new.state>> \in {<<"draft", "approved">>, <<"approved", "revoked">>}
OverAt(now) == {s \in DOMAIN Bounds : Bounds[s].deadline <= now}

\* What the handler of one user knows at each place, about what is stored, what
\* happened and the clock.
Choosing(c) == c = [at |-> "choose", r |-> c.r, head |-> c.head]
Chosen(c) ==
  LET path == Plan!PathOf(c.component)
  IN /\ c = [at |-> "build", r |-> c.r, head |-> c.head, component |-> c.component, files |-> c.files, tree |-> c.tree]
     /\ Plan!Acceptable(path, DOMAIN c.tree, c.r.files) /\ c.files = Plan!Normalized(path, c.r.files)
     /\ Plan!Means(c, path)
Asking(c, happened) ==
  /\ c = [at |-> "context", id |-> c.id, does |-> c.does, scope |-> c.scope, shown |-> c.shown]
  /\ c.scope = None =>
       /\ c.does = c.shown /\ c.id = [head |-> c.id.head, does |-> c.does]
       /\ Fitting(c.does, happened.made)
  /\ c.scope # None => \E ask \in Asks : c.id = ask.plan
Scoping(c) ==
  /\ c = [at |-> "scope", shown |-> c.shown, plan |-> c.plan]
  /\ PlanRecord(c.plan) /\ c.plan.asked \in 0..MaxTime
  /\ c.plan.scope # None /\ \E ask \in Asks : c.plan.id = ask.plan
Planning(c, rows, happened) ==
  /\ c = [at |-> c.at, shown |-> c.shown, plan |-> c.plan]
  /\ GoodPlan(c.plan, rows, happened) /\ (c.plan.scope = None => c.plan.does = c.shown)
  /\ c.at \in {"find", "log"} => StoredAs(c.plan, rows)
Deciding(c, rows) ==
  /\ c = [at |-> "decide", id |-> c.id, scope |-> c.scope] /\ c.id \in DOMAIN rows.scopes
  /\ c.scope.revision - 1 \in Nat
  /\ rows.scopes[c.id].revision >= c.scope.revision - 1
  /\ rows.scopes[c.id].revision = c.scope.revision - 1 => ScopeNext(rows.scopes[c.id], c.scope)
Checking(c, rows, happened, now) ==
  /\ c = [at |-> "check", plan |-> c.plan, over |-> c.over]
  /\ GoodPlan(c.plan, rows, happened) /\ c.plan.scope # None
  /\ c.over \subseteq happened.revoked \cup OverAt(now)
Answered(c, rows, happened) ==
  /\ c = [at |-> "idle", what |-> c.what, plan |-> c.plan, shown |-> c.shown]
  /\ c.what \in {"planned", "mismatch"} =>
       /\ StoredAs(c.plan, rows) /\ Plan!Event(c.plan) \in rows.events
       /\ c.plan.scope = None => c.plan.does = c.shown
  /\ c.what = "match" =>
       /\ c.shown = "live" /\ c.plan.digest.state = "approved"
       /\ [id |-> c.plan.scope, scope |-> c.plan.digest] \in happened.versions
  /\ c.what = "conflict" /\ c.plan.scope = None =>
       /\ c.plan.id \in DOMAIN rows.plans /\ c.plan.id = [head |-> c.plan.id.head, does |-> c.plan.does]
       /\ rows.plans[c.plan.id].scope = None => rows.plans[c.plan.id].context # c.plan.context
PlanCall(c, rows, happened, now) ==
  \/ c.at = "choose" /\ Choosing(c)
  \/ c.at = "build" /\ Chosen(c)
  \/ c.at = "context" /\ Asking(c, happened)
  \/ c.at = "scope" /\ Scoping(c)
  \/ c.at \in {"existing", "save", "find", "log"} /\ Planning(c, rows, happened)
  \/ c.at = "decide" /\ Deciding(c, rows)
  \/ c.at = "check" /\ Checking(c, rows, happened, now)
  \/ c.at = "idle" /\ Answered(c, rows, happened)

PlansStored(rows, happened) ==
  \A id \in DOMAIN rows.plans :
    /\ GoodPlan(rows.plans[id], rows, happened) /\ rows.plans[id].id = id
    /\ rows.plans[id].scope = None => Plan!BoundInstall(rows.plans[id].does)
ScopesStored(rows, happened) ==
  \A s \in DOMAIN rows.scopes :
    /\ s \in DOMAIN Bounds /\ rows.scopes[s].state \in {"draft", "approved", "revoked"} /\ rows.scopes[s].revision \in Nat
    /\ rows.scopes[s] = [bounds |-> Bounds[s], state |-> rows.scopes[s].state, revision |-> rows.scopes[s].revision]
    /\ [id |-> s, scope |-> rows.scopes[s]] \in happened.versions
    /\ s \in happened.revoked => rows.scopes[s].state = "revoked"
PlanStore(rows, happened) ==
  /\ rows = [seen |-> rows.seen, plans |-> rows.plans, events |-> rows.events, scopes |-> rows.scopes]
  /\ rows.seen \in Heads \cup {None}
  /\ PlansStored(rows, happened) /\ ScopesStored(rows, happened)
  /\ happened.revoked \subseteq DOMAIN rows.scopes
  /\ \A e, f \in rows.events : e.id = f.id => e = f
PlanWorld(w) ==
  /\ w = [tree |-> w.tree, venvs |-> w.venvs, linked |-> w.linked, native |-> w.native, head |-> w.head, same |-> w.same]
  /\ w.tree \in Trees /\ w.head \in Heads
PlanBudget(b) ==
  /\ b = [now |-> b.now, calls |-> b.calls, changes |-> b.changes, faults |-> b.faults]
  /\ b.now \in 0..MaxTime
PlanInv ==
  /\ PlanStore(store, history) /\ PlanWorld(world) /\ PlanBudget(budget)
  /\ history = [made |-> history.made, versions |-> history.versions, revoked |-> history.revoked]
  /\ calls = [u \in Users |-> calls[u]]
  /\ \A u \in Users : PlanCall(calls[u], store, history, budget.now)
PlanChange == Plan!ScopesAdvance /\ Plan!PlansAreImmutable

\* What is stored and what happened only grows, and the clock advances.
RowsGrow(rows, next) ==
  /\ \A id \in DOMAIN rows.plans : id \in DOMAIN next.plans /\ next.plans[id] = rows.plans[id]
  /\ rows.events \subseteq next.events
  /\ \A s \in DOMAIN rows.scopes :
       /\ s \in DOMAIN next.scopes
       /\ next.scopes[s] = rows.scopes[s] \/ ScopeNext(rows.scopes[s], next.scopes[s])
HistoryGrows(happened, next) ==
  /\ happened.made \subseteq next.made /\ happened.versions \subseteq next.versions
  /\ happened.revoked \subseteq next.revoked

LEMMA NextScopeIs ==
  ASSUME NEW old, NEW new, ScopeNext(old, new)
  PROVE  /\ new.revision = old.revision + 1 /\ new.bounds = old.bounds
         /\ <<old.state, new.state>> \in {<<"draft", "approved">>, <<"approved", "revoked">>}
<1>1. new = [bounds |-> old.bounds, state |-> new.state, revision |-> old.revision + 1]
  BY DEF ScopeNext
<1>2. new.revision = old.revision + 1 /\ new.bounds = old.bounds
  BY <1>1
<1> QED BY <1>2 DEF ScopeNext

\* A plan stays as good as it was.
LEMMA GoodPlanStays ==
  ASSUME NEW p, NEW rows, NEW rows2, NEW happened, NEW happened2,
         GoodPlan(p, rows, happened), RowsGrow(rows, rows2), HistoryGrows(happened, happened2)
  PROVE  GoodPlan(p, rows2, happened2)
<1>1. ASSUME InstallPlan(p, happened.made) PROVE InstallPlan(p, happened2.made)
  BY <1>1 DEF InstallPlan, Fitting, HistoryGrows
<1>2. ASSUME Scoped(p, rows, happened) PROVE Scoped(p, rows2, happened2)
  <2>1. WithinBounds(p, happened.versions) => WithinBounds(p, happened2.versions)
    BY DEF WithinBounds, HistoryGrows
  <2> QED BY <1>2, <2>1 DEF Scoped, RowsGrow
<1> QED BY <1>1, <1>2 DEF GoodPlan

\* And so does what another handler knows.
LEMMA PlanCallStays ==
  ASSUME PlanConstants, NEW c, NEW rows, NEW rows2, NEW happened, NEW happened2, NEW now \in Nat, NEW now2 \in Nat,
         PlanCall(c, rows, happened, now), PlanStore(rows, happened),
         RowsGrow(rows, rows2), HistoryGrows(happened, happened2), now <= now2
  PROVE  PlanCall(c, rows2, happened2, now2)
<1>1. CASE c.at \in {"choose", "build", "scope"}
  BY <1>1 DEF PlanCall
<1>2. CASE c.at = "context" /\ Asking(c, happened)
  <2>1. Fitting(c.does, happened.made) => Fitting(c.does, happened2.made)
    BY DEF Fitting, HistoryGrows
  <2> QED BY <1>2, <2>1 DEF PlanCall, Asking
<1>3. CASE c.at \in {"existing", "save", "find", "log"} /\ Planning(c, rows, happened)
  <2>1. GoodPlan(c.plan, rows2, happened2)
    BY <1>3, GoodPlanStays DEF Planning
  <2>2. StoredAs(c.plan, rows) => StoredAs(c.plan, rows2)
    BY DEF StoredAs, RowsGrow
  <2> QED BY <1>3, <2>1, <2>2 DEF PlanCall, Planning
<1>4. CASE c.at = "decide" /\ Deciding(c, rows)
  <2>1. c.id \in DOMAIN rows.scopes /\ rows.scopes[c.id].revision \in Nat
    BY <1>4 DEF Deciding, PlanStore, ScopesStored
  <2>2. /\ c.id \in DOMAIN rows2.scopes
        /\ \/ rows2.scopes[c.id] = rows.scopes[c.id]
           \/ rows2.scopes[c.id].revision = rows.scopes[c.id].revision + 1
    BY <2>1, NextScopeIs DEF RowsGrow
  <2>3. Deciding(c, rows2)
    BY <1>4, <2>1, <2>2 DEF Deciding
  <2> QED BY <1>4, <2>3 DEF PlanCall
<1>5. CASE c.at = "check" /\ Checking(c, rows, happened, now)
  <2>1. GoodPlan(c.plan, rows2, happened2)
    BY <1>5, GoodPlanStays DEF Checking
  <2>2. \A s \in DOMAIN Bounds : Bounds[s].deadline <= now => Bounds[s].deadline <= now2
    BY DEF PlanConstants
  <2>3. happened.revoked \cup OverAt(now) \subseteq happened2.revoked \cup OverAt(now2)
    BY <2>2 DEF OverAt, HistoryGrows
  <2> QED BY <1>5, <2>1, <2>3 DEF PlanCall, Checking
<1>6. CASE c.at = "idle" /\ Answered(c, rows, happened)
  <2>1. /\ StoredAs(c.plan, rows) => StoredAs(c.plan, rows2)
        /\ Plan!Event(c.plan) \in rows.events => Plan!Event(c.plan) \in rows2.events
        /\ c.plan.id \in DOMAIN rows.plans =>
             c.plan.id \in DOMAIN rows2.plans /\ rows2.plans[c.plan.id] = rows.plans[c.plan.id]
    BY DEF StoredAs, RowsGrow
  <2>2. happened.versions \subseteq happened2.versions
    BY DEF HistoryGrows
  <2> QED BY <1>6, <2>1, <2>2 DEF PlanCall, Answered
<1> QED BY <1>1, <1>2, <1>3, <1>4, <1>5, <1>6 DEF PlanCall

\* A step that keeps the tables in order, and after which the handler that took it
\* knows what it should.
LEMMA PlanAdvances ==
  ASSUME PlanConstants, PlanInv, PlanStore(store', history'), PlanWorld(world'), PlanBudget(budget'),
         RowsGrow(store, store'), HistoryGrows(history, history'), budget.now <= budget'.now,
         history' = [made |-> history'.made, versions |-> history'.versions, revoked |-> history'.revoked],
         calls' = [u \in Users |-> calls'[u]],
         \A u \in Users : calls'[u] = calls[u] \/ PlanCall(calls'[u], store', history', budget'.now)
  PROVE  PlanInv' /\ PlanChange
<1>1. budget.now \in Nat /\ budget'.now \in Nat
  BY DEF PlanInv, PlanBudget, PlanConstants
<1>2. \A u \in Users : PlanCall(calls'[u], store', history', budget'.now)
  <2>1. TAKE u \in Users
  <2>2. CASE calls'[u] = calls[u]
    <3>1. PlanCall(calls[u], store, history, budget.now) /\ PlanStore(store, history)
      BY DEF PlanInv
    <3>2. PlanCall(calls[u], store', history', budget'.now)
      BY <1>1, <3>1, PlanCallStays
    <3> QED BY <2>2, <3>2
  <2> QED BY <2>2
<1>3. PlanInv'
  BY <1>2 DEF PlanInv
<1>4. Plan!PlansAreImmutable
  BY DEF RowsGrow, Plan!PlansAreImmutable
<1>5. Plan!ScopesAdvance
  <2> USE DEF Plan!ScopesAdvance
  <2>1. TAKE s \in DOMAIN store.scopes
  <2>2. CASE store'.scopes[s] = store.scopes[s]
    BY <2>2 DEF RowsGrow
  <2>3. CASE ScopeNext(store.scopes[s], store'.scopes[s])
    BY <2>3, NextScopeIs DEF RowsGrow
  <2> QED BY <2>2, <2>3 DEF RowsGrow
<1> QED BY <1>3, <1>4, <1>5 DEF PlanChange

\* One handler reads, and answers or goes on.
LEMMA PlanReads ==
  ASSUME PlanConstants, PlanInv, UNCHANGED <<store, world, history>>,
         PlanBudget(budget'), budget'.now = budget.now,
         NEW u \in Users, NEW c, calls' = [calls EXCEPT ![u] = c],
         PlanCall(c, store, history, budget.now)
  PROVE  PlanInv' /\ PlanChange
<1>1. /\ calls = [v \in Users |-> calls[v]] /\ PlanStore(store', history') /\ PlanWorld(world')
      /\ history' = [made |-> history'.made, versions |-> history'.versions, revoked |-> history'.revoked]
      /\ budget.now \in 0..MaxTime
  BY DEF PlanInv, PlanBudget
<1>2. calls' = [v \in Users |-> calls'[v]] /\ \A v \in Users : calls'[v] = IF v = u THEN c ELSE calls[v]
  BY <1>1
<1>3. RowsGrow(store, store') /\ HistoryGrows(history, history')
  BY DEF RowsGrow, HistoryGrows
<1>4. budget.now <= budget'.now
  BY <1>1 DEF PlanConstants
<1>5. PlanCall(c, store', history', budget'.now)
  OBVIOUS
<1> QED BY <1>1, <1>2, <1>3, <1>4, <1>5, PlanAdvances

LEMMA RefusalKnowsNothing ==
  ASSUME NEW rows, NEW happened, NEW now
  PROVE  PlanCall([at |-> "idle", what |-> "refused", plan |-> None, shown |-> None], rows, happened, now)
BY DEF PlanCall, Answered

LEMMA DecideIs ==
  ASSUME NEW scope, scope = [bounds |-> scope.bounds, state |-> scope.state, revision |-> scope.revision], NEW state
  PROVE  Plan!Decide(scope, state) = [bounds |-> scope.bounds, state |-> state, revision |-> scope.revision + 1]
<1> DEFINE first == [scope EXCEPT !.state = state]
<1>1. first = [bounds |-> scope.bounds, state |-> state, revision |-> scope.revision]
  OBVIOUS
<1>2. Plan!Decide(scope, state) = [first EXCEPT !.revision = first.revision + 1]
  BY DEF Plan!Decide
<1> HIDE DEF first
<1>3. [first EXCEPT !.revision = first.revision + 1] =
        [bounds |-> scope.bounds, state |-> state, revision |-> scope.revision + 1]
  BY <1>1
<1> QED BY <1>2, <1>3

LEMMA StoredScopeIs ==
  ASSUME PlanInv, NEW s \in DOMAIN store.scopes
  PROVE  LET scope == store.scopes[s]
         IN /\ s \in DOMAIN Bounds /\ scope.bounds = Bounds[s] /\ scope.revision \in Nat
            /\ scope = [bounds |-> scope.bounds, state |-> scope.state, revision |-> scope.revision]
            /\ [id |-> s, scope |-> scope] \in history.versions
            /\ s \in history.revoked => scope.state = "revoked"
<1> DEFINE scope == store.scopes[s]
<1>1. /\ s \in DOMAIN Bounds /\ scope.revision \in Nat
      /\ scope = [bounds |-> Bounds[s], state |-> scope.state, revision |-> scope.revision]
      /\ [id |-> s, scope |-> scope] \in history.versions
      /\ s \in history.revoked => scope.state = "revoked"
  BY DEF PlanInv, PlanStore, ScopesStored
<1> HIDE DEF scope
<1>2. scope.bounds = Bounds[s]
  BY <1>1
<1> QED BY <1>1, <1>2 DEF scope

\* The requests that only read.
LEMMA PlanAsks ==
  ASSUME PlanConstants, PlanInv, NEW u \in Users,
         Plan!AskInstall(u) \/ Plan!AskScoped(u) \/ Plan!ReadForDecision(u) \/ Plan!ReadForCheck(u)
  PROVE  PlanInv' /\ PlanChange
<1> DEFINE Known(c) == PlanCall(c, store, history, budget.now)
           refusal == [at |-> "idle", what |-> "refused", plan |-> None, shown |-> None]
<1>1. UNCHANGED <<store, world, history>>
  BY DEF Plan!AskInstall, Plan!AskScoped, Plan!ReadForDecision, Plan!ReadForCheck
<1>2. PlanBudget(budget') /\ budget'.now = budget.now
  <2>1. budget' = [budget EXCEPT !.calls = @ + 1] /\ PlanBudget(budget)
    BY DEF Plan!AskInstall, Plan!AskScoped, Plan!ReadForDecision, Plan!ReadForCheck, Plan!NewCall, PlanInv
  <2> QED BY <2>1 DEF PlanBudget
<1>3. Known(refusal)
  BY RefusalKnowsNothing
<1>4. \E c : calls' = [calls EXCEPT ![u] = c] /\ Known(c)
  <2>1. CASE Plan!AskInstall(u)
    <3>1. PICK r : \/ calls' = [calls EXCEPT ![u] = refusal]
                   \/ calls' = [calls EXCEPT ![u] = [at |-> "choose", r |-> r, head |-> world.head]]
      BY <2>1 DEF Plan!AskInstall, Plan!Refuse, Plan!Answer, Plan!Call
    <3>2. Known([at |-> "choose", r |-> r, head |-> world.head])
      BY DEF PlanCall, Choosing
    <3> QED BY <1>3, <3>1, <3>2
  <2>2. CASE Plan!AskScoped(u)
    <3>1. PICK ask \in Asks : calls' = [calls EXCEPT ![u] =
            [at |-> "context", id |-> ask.plan, does |-> ask.wants, scope |-> ask.scope, shown |-> None]]
      BY <2>2 DEF Plan!AskScoped, Plan!Call
    <3>2. Known([at |-> "context", id |-> ask.plan, does |-> ask.wants, scope |-> ask.scope, shown |-> None])
      BY DEF PlanCall, Asking, PlanConstants
    <3> QED BY <3>1, <3>2
  <2>3. CASE Plan!ReadForDecision(u)
    <3>1. PICK s \in DOMAIN store.scopes, state \in {"approved", "revoked"} :
            \/ calls' = [calls EXCEPT ![u] = refusal]
            \/ /\ calls' = [calls EXCEPT ![u] = [at |-> "decide", id |-> s, scope |-> Plan!Decide(store.scopes[s], state)]]
               /\ <<store.scopes[s].state, state>> \in {<<"draft", "approved">>, <<"approved", "revoked">>}
      BY <2>3 DEF Plan!ReadForDecision, Plan!Refuse, Plan!Answer, Plan!Call, Plan!Approvable
    <3> DEFINE scope == store.scopes[s]
               next == Plan!Decide(scope, state)
    <3>2. scope.revision \in Nat /\ scope = [bounds |-> scope.bounds, state |-> scope.state, revision |-> scope.revision]
      BY StoredScopeIs
    <3>3. next = [bounds |-> scope.bounds, state |-> state, revision |-> scope.revision + 1]
      BY <3>2, DecideIs
    <3> HIDE DEF next
    <3>4. next.bounds = scope.bounds /\ next.state = state /\ next.revision = scope.revision + 1
      BY <3>3
    <3>5. ASSUME <<scope.state, state>> \in {<<"draft", "approved">>, <<"approved", "revoked">>}
          PROVE  Known([at |-> "decide", id |-> s, scope |-> next])
      <4>1. ScopeNext(scope, next)
        BY <3>3, <3>4, <3>5 DEF ScopeNext
      <4> DEFINE c == [at |-> "decide", id |-> s, scope |-> next]
      <4>2. c.at = "decide" /\ c.id = s /\ c.scope = next /\ c = [at |-> "decide", id |-> c.id, scope |-> c.scope]
        OBVIOUS
      <4> HIDE DEF c
      <4>3. next.revision - 1 = scope.revision
        BY <3>2, <3>4
      <4>4. Deciding(c, store)
        BY <3>2, <4>1, <4>2, <4>3 DEF Deciding
      <4> QED BY <4>2, <4>4 DEF PlanCall, c
    <3> QED BY <1>3, <3>1, <3>5 DEF next
  <2>4. CASE Plan!ReadForCheck(u)
    <3>1. PICK id \in DOMAIN store.plans :
            \/ calls' = [calls EXCEPT ![u] = refusal]
            \/ /\ calls' = [calls EXCEPT ![u] = [at |-> "check", plan |-> store.plans[id], over |-> Plan!Over]]
               /\ store.plans[id].scope # None
      BY <2>4 DEF Plan!ReadForCheck, Plan!Refuse, Plan!Answer, Plan!Call
    <3>2. GoodPlan(store.plans[id], store, history)
      BY DEF PlanInv, PlanStore, PlansStored
    <3>3. Plan!Over = history.revoked \cup OverAt(budget.now)
      BY DEF Plan!Over, OverAt
    <3>4. store.plans[id].scope # None => Known([at |-> "check", plan |-> store.plans[id], over |-> Plan!Over])
      BY <3>2, <3>3 DEF PlanCall, Checking
    <3> QED BY <1>3, <3>1, <3>4
  <2> QED BY <2>1, <2>2, <2>3, <2>4
<1> QED BY <1>1, <1>2, <1>4, PlanReads

\* Plan reads the context, the scope and a plan that may be there.
LEMMA EquivalentPlans ==
  ASSUME NEW p, NEW q, PlanRecord(p), PlanRecord(q)
  PROVE  /\ Plan!Equivalent(p, q) =>
              p.id = q.id /\ p.does = q.does /\ p.scope = q.scope /\ p.context = q.context
         /\ /\ p.id = q.id /\ p.does = q.does /\ p.scope = q.scope /\ p.context = q.context
            /\ p.digest = q.digest /\ p.matched = q.matched /\ p.checked = q.checked
            => Plan!Equivalent(p, q)
<1> DEFINE Zero(r) == [id |-> r.id, does |-> r.does, scope |-> r.scope, context |-> r.context, digest |-> r.digest,
                       matched |-> r.matched, checked |-> r.checked, asked |-> 0]
<1>1. [p EXCEPT !.asked = 0] = Zero(p) /\ [q EXCEPT !.asked = 0] = Zero(q)
  BY DEF PlanRecord
<1>2. Plan!Equivalent(p, q) <=> Zero(p) = Zero(q)
  BY <1>1 DEF Plan!Equivalent
<1>3. Zero(p) = Zero(q) => p.id = q.id /\ p.does = q.does /\ p.scope = q.scope /\ p.context = q.context
  <2> DEFINE x == Zero(p)
             y == Zero(q)
  <2>1. /\ x.id = p.id /\ x.does = p.does /\ x.scope = p.scope /\ x.context = p.context
        /\ y.id = q.id /\ y.does = q.does /\ y.scope = q.scope /\ y.context = q.context
    OBVIOUS
  <2> HIDE DEF x, y
  <2> QED BY <2>1 DEF x, y
<1> QED BY <1>2, <1>3

LEMMA PlannerGoesOn ==
  ASSUME NEW c, c = [at |-> c.at, shown |-> c.shown, plan |-> c.plan], NEW at, NEW plan
  PROVE  /\ [c EXCEPT !.at = at] = [at |-> at, shown |-> c.shown, plan |-> c.plan]
         /\ [c EXCEPT !.at = at, !.plan = plan] = [at |-> at, shown |-> c.shown, plan |-> plan]
<1> DEFINE first == [c EXCEPT !.at = at]
<1>1. first = [at |-> at, shown |-> c.shown, plan |-> c.plan]
  OBVIOUS
<1>2. [c EXCEPT !.at = at, !.plan = plan] = [first EXCEPT !.plan = plan]
  OBVIOUS
<1> HIDE DEF first
<1>3. [first EXCEPT !.plan = plan] = [at |-> at, shown |-> c.shown, plan |-> plan]
  BY <1>1
<1> QED BY <1>1, <1>2, <1>3 DEF first

Filled(p, digest, checked, matched) == [p EXCEPT !.digest = digest, !.checked = checked, !.matched = matched]
LEMMA ScopeIsFilledIn ==
  ASSUME NEW p, PlanRecord(p), NEW digest, NEW checked, NEW matched
  PROVE  Filled(p, digest, checked, matched) =
           [id |-> p.id, does |-> p.does, scope |-> p.scope, context |-> p.context, digest |-> digest,
            matched |-> matched, checked |-> checked, asked |-> p.asked]
<1> DEFINE first == [p EXCEPT !.digest = digest]
           second == [first EXCEPT !.checked = checked]
<1>1. first = [id |-> p.id, does |-> p.does, scope |-> p.scope, context |-> p.context, digest |-> digest,
               matched |-> p.matched, checked |-> p.checked, asked |-> p.asked]
  BY DEF PlanRecord
<1> HIDE DEF first
<1>2. second = [id |-> p.id, does |-> p.does, scope |-> p.scope, context |-> p.context, digest |-> digest,
                matched |-> p.matched, checked |-> checked, asked |-> p.asked]
  BY <1>1
<1>3. Filled(p, digest, checked, matched) = [second EXCEPT !.matched = matched]
  BY DEF first, Filled
<1> HIDE DEF second
<1>4. [second EXCEPT !.matched = matched] =
        [id |-> p.id, does |-> p.does, scope |-> p.scope, context |-> p.context, digest |-> digest,
         matched |-> matched, checked |-> checked, asked |-> p.asked]
  BY <1>2
<1> QED BY <1>3, <1>4

\* A plan of what was asked for, before anything else is known of it.
LEMMA PlanReadsContext ==
  ASSUME PlanConstants, PlanInv, NEW u \in Users, Plan!ReadContext(u)
  PROVE  PlanInv' /\ PlanChange
<1> DEFINE c == calls[u]
           Known(d) == PlanCall(d, store, history, budget.now)
           refusal == [at |-> "idle", what |-> "refused", plan |-> None, shown |-> None]
           plan == [id |-> c.id, does |-> c.does, scope |-> c.scope, context |-> store.seen, digest |-> None,
                    matched |-> TRUE, checked |-> 0, asked |-> budget.now]
           next(at) == [at |-> at, shown |-> c.shown, plan |-> plan]
<1>1. /\ UNCHANGED <<store, world, history, budget>> /\ c.at = "context" /\ Asking(c, history)
      /\ PlanBudget(budget) /\ budget.now \in 0..MaxTime
  BY DEF Plan!ReadContext, Plan!Read, Plan!At, PlanInv, PlanCall, PlanBudget
<1>2. \/ calls' = [calls EXCEPT ![u] = refusal]
      \/ calls' = [calls EXCEPT ![u] = next(IF c.scope = None THEN "existing" ELSE "scope")]
  BY DEF Plan!ReadContext, Plan!Refuse, Plan!Answer, Plan!Call
<1>3. /\ plan.id = c.id /\ plan.does = c.does /\ plan.scope = c.scope /\ plan.asked = budget.now
      /\ plan.digest = None /\ plan.checked = 0 /\ PlanRecord(plan)
  BY DEF PlanRecord
<1>4. plan.matched
  OBVIOUS
<1> HIDE DEF plan
<1>5. \A at : next(at).at = at /\ next(at).plan = plan /\ next(at).shown = c.shown
              /\ next(at) = [at |-> at, shown |-> c.shown, plan |-> plan]
  OBVIOUS
<1> HIDE DEF next
<1>6. ASSUME c.scope = None PROVE Known(next("existing"))
  <2>1. InstallPlan(plan, history.made)
    BY <1>1, <1>3, <1>4, <1>6 DEF InstallPlan, Asking
  <2>2. GoodPlan(plan, store, history)
    BY <2>1, <1>1, <1>3, <1>6 DEF GoodPlan
  <2>3. plan.does = c.shown
    BY <1>1, <1>3, <1>6 DEF Asking
  <2>4. Planning(next("existing"), store, history)
    BY <2>2, <2>3, <1>5 DEF Planning
  <2> QED BY <2>4, <1>5 DEF PlanCall
<1>7. ASSUME c.scope # None PROVE Known(next("scope"))
  <2>1. Scoping(next("scope"))
    BY <1>1, <1>3, <1>5, <1>7 DEF Scoping, Asking
  <2> QED BY <2>1, <1>5 DEF PlanCall
<1>8. Known(refusal)
  BY RefusalKnowsNothing
<1>9. PICK d : calls' = [calls EXCEPT ![u] = d] /\ Known(d)
  BY <1>2, <1>6, <1>7, <1>8
<1> QED BY <1>1, <1>9, PlanReads

\* The scope as it is now; the plan says whether it matches.
LEMMA PlanReadsScope ==
  ASSUME PlanConstants, PlanInv, NEW u \in Users, Plan!ReadScope(u)
  PROVE  PlanInv' /\ PlanChange
<1> DEFINE c == calls[u]
           p == c.plan
           scope == store.scopes[p.scope]
           Known(d) == PlanCall(d, store, history, budget.now)
           refusal == [at |-> "idle", what |-> "refused", plan |-> None, shown |-> None]
           match == Plan!Matches(scope, scope, p.does, p.asked)
           plan == [id |-> p.id, does |-> p.does, scope |-> p.scope, context |-> p.context, digest |-> scope,
                    matched |-> match, checked |-> p.asked, asked |-> p.asked]
           next == [at |-> "existing", shown |-> c.shown, plan |-> plan]
<1>1. /\ UNCHANGED <<store, world, history, budget>> /\ c.at = "scope" /\ Scoping(c)
      /\ PlanBudget(budget)
  BY DEF Plan!ReadScope, Plan!Read, Plan!At, PlanInv, PlanCall
<1>2. \/ calls' = [calls EXCEPT ![u] = refusal]
      \/ /\ p.scope \in DOMAIN store.scopes
         /\ calls' = [calls EXCEPT ![u] = [c EXCEPT !.at = "existing",
              !.plan = [p EXCEPT !.digest = scope, !.checked = p.asked, !.matched = match]]]
  BY DEF Plan!ReadScope, Plan!Refuse, Plan!Answer, Plan!Call
<1>3. Known(refusal)
  BY RefusalKnowsNothing
<1>4. ASSUME p.scope \in DOMAIN store.scopes,
             calls' = [calls EXCEPT ![u] = [c EXCEPT !.at = "existing",
               !.plan = [p EXCEPT !.digest = scope, !.checked = p.asked, !.matched = match]]]
      PROVE  calls' = [calls EXCEPT ![u] = next] /\ Known(next)
  <2>1. c = [at |-> c.at, shown |-> c.shown, plan |-> p] /\ PlanRecord(p)
        /\ p.asked \in 0..MaxTime /\ p.scope # None /\ \E ask \in Asks : p.id = ask.plan
    BY <1>1 DEF Scoping
  <2>2. scope.bounds = Bounds[p.scope] /\ [id |-> p.scope, scope |-> scope] \in history.versions
        /\ p.scope \in DOMAIN Bounds
    BY <1>4, StoredScopeIs
  <2>3. match => /\ scope.state = "approved"
                 /\ Plan!Contained(p.does, Bounds[p.scope]) /\ p.asked < p.does.deadline
    <3>1. match => Plan!Matches(scope, scope, p.does, p.asked)
      OBVIOUS
    <3> HIDE DEF match, scope
    <3>2. match => /\ scope.state = "approved"
                   /\ LET b == Bounds[p.scope] IN
                        /\ p.does.target = b.target /\ p.does.provider = b.provider
                        /\ p.does.tool = b.tool /\ p.does.network = b.network
                        /\ p.does.action \in b.actions /\ p.does.risk \in b.risks
                        /\ p.does.techniques \subseteq b.techniques /\ p.does.setup \subseteq b.setup
                        /\ Plan!PathsWithin(b.roots, p.does.paths) /\ b.prohibited \subseteq p.does.prohibited
                        /\ p.does.disk \in 1..b.disk
                        /\ p.does.deadline <= b.deadline /\ p.does.deadline > p.asked
      BY <2>2, <3>1 DEF Plan!Matches, Plan!Active
    <3>3. p.does.disk \in 1..Bounds[p.scope].disk => p.does.disk <= Bounds[p.scope].disk
      BY <2>2 DEF PlanConstants
    <3>4. p.does.deadline > p.asked => p.asked < p.does.deadline
      OBVIOUS
    <3> QED BY <3>2, <3>3, <3>4 DEF Plan!Contained
  <2> HIDE DEF match, scope
  <2>4. PICK filled : filled = Filled(p, scope, p.asked, match)
    OBVIOUS
  <2>5. filled = plan
    BY <2>1, <2>4, ScopeIsFilledIn
  <2>12. calls' = [calls EXCEPT ![u] = [c EXCEPT !.at = "existing", !.plan = filled]]
    BY <1>4, <2>4 DEF match, scope, Filled
  <2>13. [c EXCEPT !.at = "existing", !.plan = filled] = [at |-> "existing", shown |-> c.shown, plan |-> filled]
    BY <2>1, PlannerGoesOn
  <2>14. calls' = [calls EXCEPT ![u] = next]
    BY <2>5, <2>12, <2>13
  <2>6. /\ plan.id = p.id /\ plan.does = p.does /\ plan.scope = p.scope /\ plan.asked = p.asked
        /\ plan.digest = scope /\ plan.checked = p.asked /\ PlanRecord(plan)
    BY DEF PlanRecord
  <2>7. plan.matched = match
    OBVIOUS
  <2> HIDE DEF plan
  <2>8. plan.matched => WithinBounds(plan, history.versions)
    BY <2>2, <2>3, <2>6, <2>7 DEF WithinBounds
  <2>9. GoodPlan(plan, store, history)
    BY <1>4, <2>1, <2>6, <2>8 DEF GoodPlan, Scoped
  <2>10. /\ next.at = "existing" /\ next.plan = plan /\ next.shown = c.shown
         /\ next = [at |-> next.at, shown |-> next.shown, plan |-> next.plan]
    OBVIOUS
  <2> HIDE DEF next
  <2>11. Planning(next, store, history)
    BY <2>1, <2>6, <2>9, <2>10 DEF Planning
  <2> QED BY <2>14, <2>10, <2>11 DEF PlanCall
<1>5. PICK d : calls' = [calls EXCEPT ![u] = d] /\ Known(d)
  BY <1>2, <1>3, <1>4
<1> QED BY <1>1, <1>5, PlanReads

\* A plan that is stored already and does the same is taken in place of one's own.
LEMMA PlannerFinds ==
  ASSUME PlanInv, NEW c, Planning(c, store, history), c.plan.id \in DOMAIN store.plans,
         NEW q, q = store.plans[c.plan.id], q = c.plan \/ Plan!Equivalent(q, c.plan)
  PROVE  PlanCall([at |-> "find", shown |-> c.shown, plan |-> q], store, history, budget.now)
<1> DEFINE next == [at |-> "find", shown |-> c.shown, plan |-> q]
<1>1. GoodPlan(q, store, history) /\ q.id = c.plan.id
  BY DEF PlanInv, PlanStore, PlansStored
<1>2. GoodPlan(c.plan, store, history) /\ (c.plan.scope = None => c.plan.does = c.shown)
  BY DEF Planning
<1>3. q.does = c.plan.does /\ q.scope = c.plan.scope
  BY <1>1, <1>2, EquivalentPlans DEF GoodPlan
<1>4. StoredAs(q, store)
  BY <1>1 DEF StoredAs
<1>5. /\ next.at = "find" /\ next.shown = c.shown /\ next.plan = q
      /\ next = [at |-> next.at, shown |-> next.shown, plan |-> next.plan]
  OBVIOUS
<1> HIDE DEF next
<1>6. Planning(next, store, history)
  BY <1>1, <1>2, <1>3, <1>4, <1>5 DEF Planning
<1>7. PlanCall(next, store, history, budget.now)
  BY <1>5, <1>6 DEF PlanCall
<1> QED BY <1>7 DEF next

LEMMA PlannerMoves ==
  ASSUME NEW c, NEW at, NEW rows, NEW happened, NEW now, Planning(c, rows, happened),
         \/ at \in {"existing", "save"}
         \/ at \in {"find", "log"} /\ StoredAs(c.plan, rows)
  PROVE  PlanCall([c EXCEPT !.at = at], rows, happened, now)
<1> DEFINE next == [at |-> at, shown |-> c.shown, plan |-> c.plan]
<1>1. c = [at |-> c.at, shown |-> c.shown, plan |-> c.plan]
  BY DEF Planning
<1>2. [c EXCEPT !.at = at] = next
  BY <1>1
<1>3. /\ next.at = at /\ next.shown = c.shown /\ next.plan = c.plan
      /\ next = [at |-> next.at, shown |-> next.shown, plan |-> next.plan]
  OBVIOUS
<1> HIDE DEF next
<1>4. Planning(next, rows, happened)
  BY <1>3 DEF Planning
<1>5. PlanCall(next, rows, happened, now)
  BY <1>3, <1>4 DEF PlanCall
<1> QED BY <1>2, <1>5

LEMMA PlanReadsExisting ==
  ASSUME PlanConstants, PlanInv, NEW u \in Users, Plan!ReadExisting(u)
  PROVE  PlanInv' /\ PlanChange
<1> DEFINE c == calls[u]
           q == store.plans[c.plan.id]
           found == [at |-> "find", shown |-> c.shown, plan |-> q]
           moved == [c EXCEPT !.at = "save"]
<1>1. /\ UNCHANGED <<store, world, history, budget>> /\ c.at = "existing" /\ Planning(c, store, history)
      /\ PlanBudget(budget)
  BY DEF Plan!ReadExisting, Plan!Read, Plan!At, PlanInv, PlanCall
<1>2. \/ Plan!Reusable(c.plan) /\ calls' = [calls EXCEPT ![u] = [c EXCEPT !.at = "find", !.plan = q]]
      \/ calls' = [calls EXCEPT ![u] = moved]
  BY DEF Plan!ReadExisting, Plan!Call
<1>3. c = [at |-> c.at, shown |-> c.shown, plan |-> c.plan]
  BY <1>1 DEF Planning
<1>4. [c EXCEPT !.at = "find", !.plan = q] = found
  BY <1>3, PlannerGoesOn
<1>5. Plan!Reusable(c.plan) => PlanCall(found, store, history, budget.now)
  BY <1>1, PlannerFinds DEF Plan!Reusable, Plan!Stored
<1>6. PlanCall(moved, store, history, budget.now)
  BY <1>1, PlannerMoves
<1> HIDE DEF found, moved
<1>7. PICK d : calls' = [calls EXCEPT ![u] = d] /\ PlanCall(d, store, history, budget.now)
  BY <1>2, <1>4, <1>5, <1>6
<1> QED BY <1>1, <1>7, PlanReads

\* A new plan, and a first event, are stored.
LEMMA PlanIsInserted ==
  ASSUME PlanConstants, PlanInv, UNCHANGED <<world, history>>, PlanBudget(budget'), budget'.now = budget.now,
         NEW p, GoodPlan(p, store, history), Plan!Valid(p), p.id \notin DOMAIN store.plans,
         store' = [store EXCEPT !.plans = Plan!Put(store.plans, p.id, p)],
         NEW u \in Users, NEW d, calls' = [calls EXCEPT ![u] = d],
         StoredAs(p, store') => PlanCall(d, store', history, budget.now)
  PROVE  PlanInv' /\ PlanChange
<1>1. /\ store = [seen |-> store.seen, plans |-> store.plans, events |-> store.events, scopes |-> store.scopes]
      /\ PlanWorld(world) /\ budget.now \in 0..MaxTime /\ calls = [v \in Users |-> calls[v]]
      /\ history = [made |-> history.made, versions |-> history.versions, revoked |-> history.revoked]
  BY DEF PlanInv, PlanStore, PlanBudget
<1> DEFINE plans == Plan!Put(store.plans, p.id, p)
<1>2. /\ store' = [seen |-> store.seen, plans |-> plans, events |-> store.events, scopes |-> store.scopes]
      /\ DOMAIN plans = DOMAIN store.plans \cup {p.id} /\ plans[p.id] = p
      /\ \A id \in DOMAIN store.plans : plans[id] = store.plans[id]
  BY <1>1 DEF Plan!Put
<1> HIDE DEF plans
<1>3. /\ store'.seen = store.seen /\ store'.plans = plans /\ store'.events = store.events /\ store'.scopes = store.scopes
  BY <1>2
<1>4. StoredAs(p, store')
  BY <1>2, <1>3 DEF StoredAs
<1>5. RowsGrow(store, store') /\ HistoryGrows(history, history')
  BY <1>2, <1>3 DEF RowsGrow, HistoryGrows
<1>6. PlansStored(store', history)
  <2> USE DEF PlansStored
  <2>1. TAKE id \in DOMAIN store'.plans
  <2>2. \/ id = p.id /\ store'.plans[id] = p
        \/ id \in DOMAIN store.plans /\ store'.plans[id] = store.plans[id]
    BY <1>2, <1>3
  <2>3. CASE id = p.id /\ store'.plans[id] = p
    <3>1. GoodPlan(p, store', history)
      BY <1>5, GoodPlanStays
    <3> QED BY <2>3, <3>1 DEF Plan!Valid
  <2>4. CASE id \in DOMAIN store.plans /\ store'.plans[id] = store.plans[id]
    <3>1. /\ GoodPlan(store.plans[id], store, history) /\ store.plans[id].id = id
          /\ store.plans[id].scope = None => Plan!BoundInstall(store.plans[id].does)
      BY <2>4 DEF PlanInv, PlanStore, PlansStored
    <3>2. GoodPlan(store.plans[id], store', history)
      BY <3>1, <1>5, GoodPlanStays
    <3> QED BY <2>4, <3>1, <3>2
  <2> QED BY <2>2, <2>3, <2>4
<1>7. PlanStore(store', history')
  <2>1. ScopesStored(store', history)
    BY <1>3 DEF PlanInv, PlanStore, ScopesStored
  <2>2. store' = [seen |-> store'.seen, plans |-> store'.plans, events |-> store'.events, scopes |-> store'.scopes]
    BY <1>2, <1>3
  <2> QED BY <1>3, <1>6, <2>1, <2>2 DEF PlanInv, PlanStore
<1>8. calls' = [v \in Users |-> calls'[v]] /\ \A v \in Users : calls'[v] = IF v = u THEN d ELSE calls[v]
  BY <1>1
<1>9. PlanCall(d, store', history', budget'.now)
  BY <1>4
<1>10. budget.now <= budget'.now /\ PlanWorld(world')
  BY <1>1 DEF PlanConstants
<1> QED BY <1>1, <1>5, <1>7, <1>8, <1>9, <1>10, PlanAdvances

LEMMA EventIsLogged ==
  ASSUME PlanConstants, PlanInv, UNCHANGED <<world, history>>, PlanBudget(budget'), budget'.now = budget.now,
         NEW p, Plan!EventOf(p.id) = {},
         store' = [store EXCEPT !.events = store.events \cup {Plan!Event(p)}],
         NEW u \in Users, NEW d, calls' = [calls EXCEPT ![u] = d],
         store'.plans = store.plans /\ Plan!Event(p) \in store'.events => PlanCall(d, store', history, budget.now)
  PROVE  PlanInv' /\ PlanChange
<1>1. /\ store = [seen |-> store.seen, plans |-> store.plans, events |-> store.events, scopes |-> store.scopes]
      /\ PlanWorld(world) /\ budget.now \in 0..MaxTime /\ calls = [v \in Users |-> calls[v]]
      /\ history = [made |-> history.made, versions |-> history.versions, revoked |-> history.revoked]
  BY DEF PlanInv, PlanStore, PlanBudget
<1>2. /\ store' = [seen |-> store.seen, plans |-> store.plans, events |-> store'.events, scopes |-> store.scopes]
      /\ store'.seen = store.seen /\ store'.plans = store.plans /\ store'.scopes = store.scopes
      /\ store'.events = store.events \cup {Plan!Event(p)}
  BY <1>1
<1>3. RowsGrow(store, store') /\ HistoryGrows(history, history')
  BY <1>2 DEF RowsGrow, HistoryGrows
<1>4. \A e, f \in store'.events : e.id = f.id => e = f
  <2>1. \A e \in store.events : e.id # Plan!Event(p).id
    BY DEF Plan!EventOf, Plan!Event
  <2>2. \A e, f \in store.events : e.id = f.id => e = f
    BY DEF PlanInv, PlanStore
  <2> QED BY <1>2, <2>1, <2>2
<1>5. PlansStored(store', history)
  <2> USE DEF PlansStored
  <2>1. TAKE id \in DOMAIN store'.plans
  <2>2. /\ GoodPlan(store.plans[id], store, history) /\ store.plans[id].id = id
        /\ store.plans[id].scope = None => Plan!BoundInstall(store.plans[id].does)
    BY <1>2 DEF PlanInv, PlanStore, PlansStored
  <2>3. GoodPlan(store.plans[id], store', history)
    BY <2>2, <1>3, GoodPlanStays
  <2> QED BY <1>2, <2>2, <2>3
<1>6. PlanStore(store', history')
  <2>1. ScopesStored(store', history)
    BY <1>2 DEF PlanInv, PlanStore, ScopesStored
  <2> QED BY <1>2, <1>4, <1>5, <2>1 DEF PlanInv, PlanStore
<1>7. calls' = [v \in Users |-> calls'[v]] /\ \A v \in Users : calls'[v] = IF v = u THEN d ELSE calls[v]
  BY <1>1
<1>8. PlanCall(d, store', history', budget'.now)
  BY <1>2
<1>9. budget.now <= budget'.now /\ PlanWorld(world')
  BY <1>1 DEF PlanConstants
<1> QED BY <1>1, <1>3, <1>6, <1>7, <1>8, <1>9, PlanAdvances

LEMMA InstallPlanIsNamed ==
  ASSUME NEW p, NEW made, InstallPlan(p, made)
  PROVE  p.id.does = p.does
<1>1. p.id = [head |-> p.id.head, does |-> p.does]
  BY DEF InstallPlan
<1> QED BY <1>1

\* SaveActionPlan: nothing, the new plan, or the one that is there.
LEMMA PlanIsSaved ==
  ASSUME PlanConstants, PlanInv, NEW u \in Users, Plan!SavePlan(u)
  PROVE  PlanInv' /\ PlanChange
<1> DEFINE c == calls[u]
           p == c.plan
           q == store.plans[p.id]
           refusal == [at |-> "idle", what |-> "refused", plan |-> None, shown |-> None]
           conflict == [at |-> "idle", what |-> "conflict", plan |-> p, shown |-> c.shown]
           moved == [c EXCEPT !.at = "find"]
           found == [at |-> "find", shown |-> c.shown, plan |-> q]
<1>1. /\ UNCHANGED <<world, history, budget>> /\ c.at = "save" /\ Planning(c, store, history) /\ PlanBudget(budget)
  BY DEF Plan!SavePlan, Plan!At, PlanInv, PlanCall
<1>2. GoodPlan(p, store, history) /\ c = [at |-> c.at, shown |-> c.shown, plan |-> p]
  BY <1>1 DEF Planning
<1>3. CASE ~Plan!Valid(p) \/ store.seen # p.context
  <2>1. UNCHANGED store /\ calls' = [calls EXCEPT ![u] = refusal]
    BY <1>3 DEF Plan!SavePlan, Plan!Refuse, Plan!Answer, Plan!Call
  <2> QED BY <1>1, <2>1, RefusalKnowsNothing, PlanReads
<1>4. CASE Plan!Valid(p) /\ store.seen = p.context /\ ~Plan!Stored(p.id)
  <2>1. /\ store' = [store EXCEPT !.plans = Plan!Put(store.plans, p.id, p)]
        /\ calls' = [calls EXCEPT ![u] = moved] /\ p.id \notin DOMAIN store.plans
    BY <1>4 DEF Plan!SavePlan, Plan!Call, Plan!Stored
  <2>2. RowsGrow(store, store') /\ HistoryGrows(history, history)
    <3>1. /\ store = [seen |-> store.seen, plans |-> store.plans, events |-> store.events, scopes |-> store.scopes]
      BY DEF PlanInv, PlanStore
    <3> DEFINE plans == Plan!Put(store.plans, p.id, p)
    <3>2. \A id \in DOMAIN store.plans : id \in DOMAIN plans /\ plans[id] = store.plans[id]
      BY <2>1 DEF Plan!Put
    <3> HIDE DEF plans
    <3>3. store'.plans = plans /\ store'.events = store.events /\ store'.scopes = store.scopes
      BY <2>1, <3>1 DEF plans
    <3> QED BY <3>2, <3>3 DEF RowsGrow, HistoryGrows
  <2>3. ASSUME StoredAs(p, store') PROVE PlanCall(moved, store', history, budget.now)
    <3>1. GoodPlan(p, store', history)
      BY <1>2, <2>2, GoodPlanStays
    <3>2. Planning(c, store', history)
      BY <1>1, <2>3, <3>1 DEF Planning
    <3> QED BY <2>3, <3>2, PlannerMoves
  <2> QED BY <1>1, <1>2, <1>4, <2>1, <2>3, PlanIsInserted
<1>5. CASE Plan!Valid(p) /\ store.seen = p.context /\ Plan!Stored(p.id)
  <2>1. /\ UNCHANGED store /\ p.id \in DOMAIN store.plans
        /\ \/ /\ q = p \/ Plan!Reusable(p)
              /\ calls' = [calls EXCEPT ![u] = [c EXCEPT !.at = "find", !.plan = q]]
           \/ /\ ~(q = p \/ Plan!Reusable(p)) /\ calls' = [calls EXCEPT ![u] = conflict]
    BY <1>5 DEF Plan!SavePlan, Plan!Answer, Plan!Call, Plan!Stored
  <2>2. [c EXCEPT !.at = "find", !.plan = q] = found
    BY <1>2, PlannerGoesOn
  <2>3. q = p \/ Plan!Reusable(p) => PlanCall(found, store, history, budget.now)
    BY <1>1, <2>1, PlannerFinds DEF Plan!Reusable
  <2>4. ASSUME ~(q = p \/ Plan!Reusable(p)) PROVE PlanCall(conflict, store, history, budget.now)
    <3>1. GoodPlan(q, store, history) /\ q.id = p.id
      BY <2>1 DEF PlanInv, PlanStore, PlansStored
    <3>2. ~Plan!Equivalent(q, p)
      BY <1>5, <2>4 DEF Plan!Reusable
    <3>3. ASSUME p.scope = None, q.scope = None PROVE q.context # p.context
      <4>1. InstallPlan(p, history.made) /\ InstallPlan(q, history.made) /\ PlanRecord(p) /\ PlanRecord(q)
        BY <1>2, <3>1, <3>3 DEF GoodPlan
      <4>2. p.id.does = p.does /\ q.id.does = q.does
        BY <4>1, InstallPlanIsNamed
      <4>3. q.matched = p.matched
        <5>1. p = [id |-> p.id, does |-> p.does, scope |-> p.scope, context |-> p.context, digest |-> p.digest,
                   matched |-> p.matched, checked |-> p.checked, asked |-> p.asked]
          BY <4>1 DEF PlanRecord
        <5> QED BY <4>1 DEF InstallPlan
      <4>4. q.digest = p.digest /\ q.checked = p.checked
        BY <4>1 DEF InstallPlan
      <4> QED BY <3>1, <3>2, <3>3, <4>1, <4>2, <4>3, <4>4, EquivalentPlans
    <3>4. /\ conflict.at = "idle" /\ conflict.what = "conflict" /\ conflict.plan = p
          /\ conflict = [at |-> "idle", what |-> conflict.what, plan |-> conflict.plan, shown |-> conflict.shown]
      OBVIOUS
    <3> HIDE DEF conflict
    <3>5. p.scope = None => p.id = [head |-> p.id.head, does |-> p.does]
      BY <1>2 DEF GoodPlan, InstallPlan
    <3>6. Answered(conflict, store, history)
      BY <2>1, <3>3, <3>4, <3>5 DEF Answered
    <3> QED BY <3>4, <3>6 DEF PlanCall
  <2> HIDE DEF found, conflict
  <2>5. PICK d : calls' = [calls EXCEPT ![u] = d] /\ PlanCall(d, store, history, budget.now)
    BY <2>1, <2>2, <2>3, <2>4
  <2> QED BY <1>1, <2>1, <2>5, PlanReads
<1> QED BY <1>3, <1>4, <1>5

\* The answer of a planner whose plan and event are stored.
LEMMA PlanIsAnswered ==
  ASSUME NEW u, NEW rows, NEW happened, NEW now, NEW c, c = calls[u], Planning(c, rows, happened),
         StoredAs(c.plan, rows), Plan!Event(c.plan) \in rows.events, Plan!Planned(u)
  PROVE  \E d : calls' = [calls EXCEPT ![u] = d] /\ PlanCall(d, rows, happened, now)
<1> DEFINE answer(what) == [at |-> "idle", what |-> what, plan |-> c.plan, shown |-> c.shown]
<1>1. \E what \in {"planned", "mismatch"} : calls' = [calls EXCEPT ![u] = answer(what)]
  BY DEF Plan!Planned, Plan!Answer, Plan!Call
<1>2. ASSUME NEW what \in {"planned", "mismatch"} PROVE PlanCall(answer(what), rows, happened, now)
  <2> DEFINE d == answer(what)
  <2>1. /\ d.at = "idle" /\ d.what = what /\ d.plan = c.plan /\ d.shown = c.shown
        /\ d = [at |-> "idle", what |-> d.what, plan |-> d.plan, shown |-> d.shown]
    OBVIOUS
  <2> HIDE DEF d
  <2>2. Answered(d, rows, happened)
    BY <2>1 DEF Answered, Planning
  <2>3. PlanCall(d, rows, happened, now)
    BY <2>1, <2>2 DEF PlanCall
  <2> QED BY <2>3 DEF d
<1> HIDE DEF answer
<1> QED BY <1>1, <1>2

LEMMA EventIsFound ==
  ASSUME PlanConstants, PlanInv, NEW u \in Users, Plan!FindEvent(u)
  PROVE  PlanInv' /\ PlanChange
<1> DEFINE c == calls[u]
           refusal == [at |-> "idle", what |-> "refused", plan |-> None, shown |-> None]
           moved == [c EXCEPT !.at = "log"]
<1>1. /\ UNCHANGED <<store, world, history, budget>> /\ c.at = "find" /\ Planning(c, store, history)
      /\ PlanBudget(budget)
  BY DEF Plan!FindEvent, Plan!Read, Plan!At, PlanInv, PlanCall
<1>2. StoredAs(c.plan, store)
  BY <1>1 DEF Planning
<1>3. \/ calls' = [calls EXCEPT ![u] = moved]
      \/ Plan!EventOf(c.plan.id) = {Plan!Event(c.plan)} /\ Plan!Planned(u)
      \/ calls' = [calls EXCEPT ![u] = refusal]
  BY DEF Plan!FindEvent, Plan!Call, Plan!Refuse, Plan!Answer
<1>4. Plan!EventOf(c.plan.id) = {Plan!Event(c.plan)} => Plan!Event(c.plan) \in store.events
  BY DEF Plan!EventOf
<1>5. PlanCall(moved, store, history, budget.now)
  BY <1>1, <1>2, PlannerMoves
<1>6. PlanCall(refusal, store, history, budget.now)
  BY RefusalKnowsNothing
<1> HIDE DEF moved, refusal
<1>7. PICK d : calls' = [calls EXCEPT ![u] = d] /\ PlanCall(d, store, history, budget.now)
  BY <1>1, <1>2, <1>3, <1>4, <1>5, <1>6, PlanIsAnswered
<1> QED BY <1>1, <1>7, PlanReads

LEMMA EventIsSaved ==
  ASSUME PlanConstants, PlanInv, NEW u \in Users, Plan!LogEvent(u)
  PROVE  PlanInv' /\ PlanChange
<1> DEFINE c == calls[u]
           moved == [c EXCEPT !.at = "find"]
<1>1. /\ UNCHANGED <<world, history, budget>> /\ c.at = "log" /\ Planning(c, store, history) /\ PlanBudget(budget)
  BY DEF Plan!LogEvent, Plan!At, PlanInv, PlanCall
<1>2. StoredAs(c.plan, store)
  BY <1>1 DEF Planning
<1>3. CASE Plan!EventOf(c.plan.id) = {}
  <2>1. /\ store' = [store EXCEPT !.events = store.events \cup {Plan!Event(c.plan)}] /\ Plan!Planned(u)
    BY <1>3 DEF Plan!LogEvent
  <2>2. store = [seen |-> store.seen, plans |-> store.plans, events |-> store.events, scopes |-> store.scopes]
    BY DEF PlanInv, PlanStore
  <2>3. /\ store'.plans = store.plans /\ store'.scopes = store.scopes
        /\ store'.events = store.events \cup {Plan!Event(c.plan)}
    BY <2>1, <2>2
  <2>4. RowsGrow(store, store') /\ HistoryGrows(history, history)
    BY <2>3 DEF RowsGrow, HistoryGrows
  <2>5. Planning(c, store', history) /\ StoredAs(c.plan, store')
    BY <1>1, <1>2, <2>3, <2>4, GoodPlanStays DEF Planning, StoredAs
  <2>6. PICK d : calls' = [calls EXCEPT ![u] = d] /\ PlanCall(d, store', history, budget.now)
    BY <2>1, <2>3, <2>5, PlanIsAnswered
  <2> QED BY <1>1, <1>3, <2>1, <2>6, EventIsLogged
<1>4. CASE Plan!EventOf(c.plan.id) # {}
  <2>1. UNCHANGED store /\ calls' = [calls EXCEPT ![u] = moved]
    BY <1>4 DEF Plan!LogEvent, Plan!Call
  <2>2. PlanCall(moved, store, history, budget.now)
    BY <1>1, <1>2, PlannerMoves
  <2> QED BY <1>1, <2>1, <2>2, PlanReads
<1> QED BY <1>3, <1>4

\* A call that fails has written nothing, or what it should.
LEMMA PlannerFails ==
  ASSUME PlanConstants, PlanInv, NEW u \in Users, Plan!Fault(u)
  PROVE  PlanInv' /\ PlanChange
<1> DEFINE c == calls[u]
           p == c.plan
           refusal == [at |-> "idle", what |-> "refused", plan |-> None, shown |-> None]
<1>1. UNCHANGED <<world, history>> /\ calls' = [calls EXCEPT ![u] = refusal]
  BY DEF Plan!Fault, Plan!Refuse, Plan!Answer, Plan!Call
<1>2. PlanBudget(budget') /\ budget'.now = budget.now
  <2>1. budget' = [budget EXCEPT !.faults = @ + 1] /\ PlanBudget(budget)
    BY DEF Plan!Fault, PlanInv
  <2> QED BY <2>1 DEF PlanBudget
<1>3. \A rows : PlanCall(refusal, rows, history, budget.now)
  BY RefusalKnowsNothing
<1> HIDE DEF refusal
<1>4. CASE UNCHANGED store
  BY <1>1, <1>2, <1>3, <1>4, PlanReads
<1>5. CASE /\ c.at = "save" /\ Plan!Valid(p) /\ ~Plan!Stored(p.id)
           /\ store' = [store EXCEPT !.plans = Plan!Put(store.plans, p.id, p)]
  <2>1. GoodPlan(p, store, history)
    BY <1>5 DEF PlanInv, PlanCall, Planning
  <2> QED BY <1>1, <1>2, <1>3, <1>5, <2>1, PlanIsInserted DEF Plan!Stored
<1>6. CASE /\ Plan!EventOf(p.id) = {}
           /\ store' = [store EXCEPT !.events = store.events \cup {Plan!Event(p)}]
  BY <1>1, <1>2, <1>3, <1>6, EventIsLogged
<1> QED BY <1>4, <1>5, <1>6 DEF Plan!Fault, Plan!At

\* The scope of a plan is compared with the plan, and the clock with both.
LEMMA PlanIsChecked ==
  ASSUME PlanConstants, PlanInv, NEW u \in Users, Plan!Check(u)
  PROVE  PlanInv' /\ PlanChange
<1> DEFINE c == calls[u]
           p == c.plan
           scope == store.scopes[p.scope]
           match == Plan!Matches(scope, p.digest, p.does, budget.now) /\ p.matched
           what == IF match THEN "match" ELSE "no match"
           shown == IF p.scope \in c.over THEN "over" ELSE "live"
           d == [at |-> "idle", what |-> what, plan |-> p, shown |-> shown]
<1>1. /\ UNCHANGED <<store, world, history, budget>> /\ c.at = "check" /\ Checking(c, store, history, budget.now)
      /\ PlanBudget(budget) /\ budget.now \in Nat
  <2>1. UNCHANGED <<store, world, history, budget>> /\ c.at = "check"
    BY DEF Plan!Check, Plan!Read, Plan!At
  <2>2. Checking(c, store, history, budget.now) /\ PlanBudget(budget)
    BY <2>1 DEF PlanInv, PlanCall
  <2> QED BY <2>1, <2>2 DEF PlanBudget, PlanConstants
<1>2. calls' = [calls EXCEPT ![u] = d]
  BY DEF Plan!Check, Plan!Answer, Plan!Call
<1>3. p.scope \in DOMAIN store.scopes /\ c.over \subseteq history.revoked \cup OverAt(budget.now)
  BY <1>1 DEF Checking, GoodPlan, Scoped
<1>4. /\ scope.bounds = Bounds[p.scope] /\ [id |-> p.scope, scope |-> scope] \in history.versions
      /\ p.scope \in history.revoked => scope.state = "revoked"
      /\ p.scope \in DOMAIN Bounds
  BY <1>3, StoredScopeIs
<1>5. match => scope.state = "approved" /\ scope.bounds.deadline > budget.now /\ p.digest = scope
  BY DEF Plan!Matches, Plan!Active
<1>6. ASSUME match PROVE shown = "live"
  <2>1. Bounds[p.scope].deadline \in Nat
    BY <1>4 DEF PlanConstants
  <2>2. p.scope \notin OverAt(budget.now)
    BY <1>1, <1>4, <1>5, <1>6, <2>1 DEF OverAt
  <2>3. p.scope \notin history.revoked
    BY <1>4, <1>5, <1>6
  <2> QED BY <1>3, <2>2, <2>3
<1>7. what \in {"match", "no match"} /\ (what = "match" => match)
  OBVIOUS
<1> HIDE DEF what, match, shown
<1>8. /\ d.at = "idle" /\ d.what = what /\ d.plan = p /\ d.shown = shown
      /\ d = [at |-> "idle", what |-> d.what, plan |-> d.plan, shown |-> d.shown]
  OBVIOUS
<1> HIDE DEF d
<1>9. Answered(d, store, history)
  BY <1>4, <1>5, <1>6, <1>7, <1>8 DEF Answered
<1>10. PlanCall(d, store, history, budget.now)
  BY <1>8, <1>9 DEF PlanCall
<1> QED BY <1>1, <1>2, <1>10, PlanReads

\* A scope is stored, for the first time or in its next revision.
LEMMA ScopesAreWritten ==
  ASSUME PlanConstants, PlanInv, UNCHANGED world, PlanBudget(budget'), budget'.now = budget.now,
         NEW s, NEW scope, scope = [bounds |-> Bounds[s], state |-> scope.state, revision |-> scope.revision],
         scope.revision \in Nat, scope.state \in {"draft", "approved", "revoked"}, s \in DOMAIN Bounds,
         s \in DOMAIN store.scopes => ScopeNext(store.scopes[s], scope),
         NEW scopes, DOMAIN scopes = DOMAIN store.scopes \cup {s}, scopes[s] = scope,
         \A t \in DOMAIN store.scopes : t # s => scopes[t] = store.scopes[t],
         store' = [store EXCEPT !.scopes = scopes],
         NEW revoked,
         history' = [made |-> history.made, versions |-> history.versions \cup {[id |-> s, scope |-> scope]},
                     revoked |-> revoked],
         revoked = IF scope.state = "revoked" THEN history.revoked \cup {s} ELSE history.revoked,
         NEW u \in Users, NEW d, calls' = [calls EXCEPT ![u] = d],
         \A rows, happened : PlanCall(d, rows, happened, budget.now)
  PROVE  PlanInv' /\ PlanChange
<1>1. /\ store = [seen |-> store.seen, plans |-> store.plans, events |-> store.events, scopes |-> store.scopes]
      /\ PlanWorld(world) /\ budget.now \in 0..MaxTime /\ calls = [v \in Users |-> calls[v]]
      /\ history.revoked \subseteq DOMAIN store.scopes
  BY DEF PlanInv, PlanStore, PlanBudget
<1>2. /\ store' = [seen |-> store.seen, plans |-> store.plans, events |-> store.events, scopes |-> scopes]
      /\ store'.seen = store.seen /\ store'.plans = store.plans /\ store'.scopes = scopes
      /\ store'.events = store.events
  BY <1>1
<1>3. /\ history'.made = history.made /\ history'.revoked = revoked
      /\ history'.versions = history.versions \cup {[id |-> s, scope |-> scope]}
      /\ history' = [made |-> history'.made, versions |-> history'.versions, revoked |-> history'.revoked]
  OBVIOUS
<1>4. RowsGrow(store, store') /\ HistoryGrows(history, history')
  BY <1>2, <1>3 DEF RowsGrow, HistoryGrows
<1>5. s \in history.revoked => FALSE
  <2>1. ASSUME s \in history.revoked PROVE FALSE
    <3>1. s \in DOMAIN store.scopes /\ store.scopes[s].state = "revoked"
      BY <1>1, <2>1, StoredScopeIs
    <3>2. <<store.scopes[s].state, scope.state>> \in {<<"draft", "approved">>, <<"approved", "revoked">>}
      BY <3>1, NextScopeIs
    <3> QED BY <3>1, <3>2
  <2> QED BY <2>1
<1>6. ScopesStored(store', history')
  <2> USE DEF ScopesStored
  <2>1. TAKE t \in DOMAIN store'.scopes
  <2>2. CASE t = s
    BY <1>2, <1>3, <1>5, <2>2
  <2>3. CASE t # s
    <3>1. t \in DOMAIN store.scopes /\ store'.scopes[t] = store.scopes[t] /\ (t \in revoked => t \in history.revoked)
      BY <1>2, <2>3
    <3>2. /\ t \in DOMAIN Bounds /\ store.scopes[t].state \in {"draft", "approved", "revoked"}
          /\ store.scopes[t].revision \in Nat
          /\ store.scopes[t] = [bounds |-> Bounds[t], state |-> store.scopes[t].state,
                                revision |-> store.scopes[t].revision]
          /\ [id |-> t, scope |-> store.scopes[t]] \in history.versions
          /\ t \in history.revoked => store.scopes[t].state = "revoked"
      BY <3>1 DEF PlanInv, PlanStore
    <3> QED BY <1>3, <3>1, <3>2
  <2> QED BY <2>2, <2>3
<1>7. PlansStored(store', history')
  <2> USE DEF PlansStored
  <2>1. TAKE id \in DOMAIN store'.plans
  <2>2. /\ GoodPlan(store.plans[id], store, history) /\ store.plans[id].id = id
        /\ store.plans[id].scope = None => Plan!BoundInstall(store.plans[id].does)
    BY <1>2 DEF PlanInv, PlanStore
  <2>3. GoodPlan(store.plans[id], store', history')
    BY <2>2, <1>4, GoodPlanStays
  <2> QED BY <1>2, <2>2, <2>3
<1>8. PlanStore(store', history')
  <2>1. store'.seen \in Heads \cup {None} /\ \A e, f \in store'.events : e.id = f.id => e = f
    BY <1>2 DEF PlanInv, PlanStore
  <2>2. history'.revoked \subseteq DOMAIN store'.scopes
    BY <1>1, <1>2, <1>3
  <2> QED BY <1>2, <1>6, <1>7, <2>1, <2>2 DEF PlanStore
<1>9. calls' = [v \in Users |-> calls'[v]] /\ \A v \in Users : calls'[v] = IF v = u THEN d ELSE calls[v]
  BY <1>1
<1>10. budget.now <= budget'.now /\ PlanWorld(world') /\ PlanCall(d, store', history', budget'.now)
  BY <1>1 DEF PlanConstants
<1> QED BY <1>1, <1>3, <1>4, <1>8, <1>9, <1>10, PlanAdvances

LEMMA ScopeIsCreated ==
  ASSUME PlanConstants, PlanInv, NEW u \in Users, Plan!CreateScope(u)
  PROVE  PlanInv' /\ PlanChange
<1> DEFINE refusal == [at |-> "idle", what |-> "refused", plan |-> None, shown |-> None]
           answer == [at |-> "idle", what |-> "scope", plan |-> None, shown |-> None]
           draft(s) == [bounds |-> Bounds[s], state |-> "draft", revision |-> 1]
<1>1. UNCHANGED world /\ PlanBudget(budget') /\ budget'.now = budget.now
  <2>1. UNCHANGED world /\ budget' = [budget EXCEPT !.calls = @ + 1] /\ PlanBudget(budget)
    BY DEF Plan!CreateScope, Plan!NewCall, PlanInv
  <2> QED BY <2>1 DEF PlanBudget
<1>2. PICK s \in DOMAIN Bounds :
        \/ UNCHANGED <<store, history>> /\ calls' = [calls EXCEPT ![u] = refusal]
        \/ /\ s \notin DOMAIN store.scopes
           /\ store' = [store EXCEPT !.scopes = Plan!Put(store.scopes, s, draft(s))]
           /\ history' = [history EXCEPT !.versions = history.versions \cup {[id |-> s, scope |-> draft(s)]}]
           /\ calls' = [calls EXCEPT ![u] = answer]
  BY DEF Plan!CreateScope, Plan!Refuse, Plan!Answer, Plan!Call
<1>3. CASE UNCHANGED <<store, history>> /\ calls' = [calls EXCEPT ![u] = refusal]
  BY <1>1, <1>3, RefusalKnowsNothing, PlanReads
<1>4. CASE /\ s \notin DOMAIN store.scopes
           /\ store' = [store EXCEPT !.scopes = Plan!Put(store.scopes, s, draft(s))]
           /\ history' = [history EXCEPT !.versions = history.versions \cup {[id |-> s, scope |-> draft(s)]}]
           /\ calls' = [calls EXCEPT ![u] = answer]
  <2> DEFINE scope == draft(s)
             scopes == Plan!Put(store.scopes, s, scope)
  <2>1. /\ scope = [bounds |-> Bounds[s], state |-> scope.state, revision |-> scope.revision]
        /\ scope.revision \in Nat /\ scope.state = "draft"
    OBVIOUS
  <2>2. /\ DOMAIN scopes = DOMAIN store.scopes \cup {s} /\ scopes[s] = scope
        /\ \A t \in DOMAIN store.scopes : t # s => scopes[t] = store.scopes[t]
    BY DEF Plan!Put
  <2>3. history = [made |-> history.made, versions |-> history.versions, revoked |-> history.revoked]
    BY DEF PlanInv
  <2> HIDE DEF scopes, draft
  <2>4. store' = [store EXCEPT !.scopes = scopes]
    BY <1>4 DEF scopes
  <2>5. history' = [made |-> history.made, versions |-> history.versions \cup {[id |-> s, scope |-> scope]},
                    revoked |-> history.revoked]
    BY <1>4, <2>3
  <2>8. scope.state # "revoked"
    BY <2>1
  <2> HIDE DEF scope
  <2>6. \A rows, happened : PlanCall(answer, rows, happened, budget.now)
    BY DEF PlanCall, Answered
  <2> HIDE DEF answer
  <2>7. calls' = [calls EXCEPT ![u] = answer]
    BY <1>4
  <2> QED BY <1>1, <1>4, <2>1, <2>2, <2>4, <2>5, <2>6, <2>7, <2>8, ScopesAreWritten
<1> QED BY <1>2, <1>3, <1>4

LEMMA ScopeIsDecided ==
  ASSUME PlanConstants, PlanInv, NEW u \in Users, Plan!WriteDecision(u)
  PROVE  PlanInv' /\ PlanChange
<1> DEFINE c == calls[u]
           s == c.id
           scope == c.scope
           refusal == [at |-> "idle", what |-> "refused", plan |-> None, shown |-> None]
           answer == [at |-> "idle", what |-> "scope", plan |-> None, shown |-> None]
<1>1. /\ UNCHANGED <<world, budget>> /\ c.at = "decide" /\ Deciding(c, store) /\ PlanBudget(budget)
  BY DEF Plan!WriteDecision, Plan!At, PlanInv, PlanCall
<1>2. CASE store.scopes[s].revision # scope.revision - 1
  <2>1. UNCHANGED <<store, history>> /\ calls' = [calls EXCEPT ![u] = refusal]
    BY <1>2 DEF Plan!WriteDecision, Plan!Refuse, Plan!Answer, Plan!Call
  <2> QED BY <1>1, <2>1, RefusalKnowsNothing, PlanReads
<1>3. CASE store.scopes[s].revision = scope.revision - 1
  <2> DEFINE scopes == [store.scopes EXCEPT ![s] = scope]
             revoked == IF scope.state = "revoked" THEN history.revoked \cup {s} ELSE history.revoked
  <2>1. /\ store' = [store EXCEPT !.scopes[s] = scope]
        /\ history' = [history EXCEPT !.versions = history.versions \cup {[id |-> s, scope |-> scope]}, !.revoked = revoked]
        /\ calls' = [calls EXCEPT ![u] = answer]
    BY <1>3 DEF Plan!WriteDecision, Plan!Answer, Plan!Call
  <2>2. s \in DOMAIN store.scopes /\ ScopeNext(store.scopes[s], scope)
    BY <1>1, <1>3 DEF Deciding
  <2>3. store.scopes[s].bounds = Bounds[s] /\ store.scopes[s].revision \in Nat /\ s \in DOMAIN Bounds
    BY <2>2, StoredScopeIs
  <2>4. /\ scope = [bounds |-> Bounds[s], state |-> scope.state, revision |-> store.scopes[s].revision + 1]
        /\ scope.state \in {"draft", "approved", "revoked"}
    BY <2>2, <2>3 DEF ScopeNext
  <2>5. scope.revision = store.scopes[s].revision + 1
    BY <2>4
  <2>6. /\ DOMAIN scopes = DOMAIN store.scopes \cup {s} /\ scopes[s] = scope
        /\ \A t \in DOMAIN store.scopes : t # s => scopes[t] = store.scopes[t]
    BY <2>2
  <2>7. store' = [store EXCEPT !.scopes = scopes]
    BY <2>1
  <2>8. revoked = IF scope.state = "revoked" THEN history.revoked \cup {s} ELSE history.revoked
    OBVIOUS
  <2> HIDE DEF scopes, revoked
  <2>9. history' = [made |-> history.made, versions |-> history.versions \cup {[id |-> s, scope |-> scope]},
                    revoked |-> revoked]
    <3> DEFINE first == [history EXCEPT !.versions = history.versions \cup {[id |-> s, scope |-> scope]}]
    <3>1. history = [made |-> history.made, versions |-> history.versions, revoked |-> history.revoked]
      BY DEF PlanInv
    <3>2. first = [made |-> history.made, versions |-> history.versions \cup {[id |-> s, scope |-> scope]},
                   revoked |-> history.revoked]
      BY <3>1
    <3>3. history' = [first EXCEPT !.revoked = revoked]
      BY <2>1
    <3> HIDE DEF first
    <3> QED BY <3>2, <3>3
  <2>10. \A rows, happened : PlanCall(answer, rows, happened, budget.now)
    BY DEF PlanCall, Answered
  <2> HIDE DEF answer
  <2>11. calls' = [calls EXCEPT ![u] = answer]
    BY <2>1
  <2>12. scope.revision \in Nat /\ scope = [bounds |-> Bounds[s], state |-> scope.state, revision |-> scope.revision]
    BY <2>3, <2>4, <2>5
  <2> HIDE DEF scope, s
  <2> QED BY <1>1, <2>2, <2>3, <2>4, <2>6, <2>7, <2>8, <2>9, <2>10, <2>11, <2>12, ScopesAreWritten
<1> QED BY <1>2, <1>3

\* A component that is found is the only one that can be meant.
LEMMA TargetIsMeant ==
  ASSUME PlanConstants, NEW tree \in Trees, NEW r, NEW t \in Plan!Targets(tree, r),
         NEW made, made.r = r, made.tree = tree
  PROVE  Plan!Means(made, Plan!PathOf(t))
<1>1. None # {} /\ None \notin DOMAIN tree /\ IsFiniteSet(DOMAIN tree)
  BY DEF PlanConstants
<1>2. t # None => Plan!PathOf(t) = t
  BY DEF Plan!PathOf
<1>3. CASE r.component = None
  BY <1>1, <1>3 DEF Plan!Targets, Plan!PathOf, Plan!Means
<1>4. CASE r.component \notin {None, {}}
  BY <1>1, <1>2, <1>4 DEF Plan!Targets, Plan!Means
<1>5. CASE r.component = {} /\ DOMAIN tree = {}
  BY <1>5 DEF Plan!Means
<1>6. CASE r.component = {} /\ DOMAIN tree # {}
  <2> DEFINE found == Plan!Candidates(tree, r)
  <2>1. \/ Plan!Cardinality(found) = 1 /\ t \in found
        \/ Plan!Cardinality(DOMAIN tree) = 1
    BY <1>1, <1>6 DEF Plan!Targets
  <2>2. CASE Plan!Cardinality(found) = 1 /\ t \in found
    <3>1. found \subseteq DOMAIN tree
      BY DEF Plan!Candidates
    <3>2. IsFiniteSet(found) /\ Cardinality(found) = 1
      BY <1>1, <2>2, <3>1, FS_Subset, PlanCounts
    <3>3. found = {t}
      <4>1. PICK x : found = {x}
        BY <3>2, FS_Singleton
      <4> QED BY <2>2, <4>1
    <3>4. /\ t \in DOMAIN tree /\ Plan!Fits(r.kind, tree[t]) /\ Plan!Acceptable(t, DOMAIN tree, r.files)
          /\ \A p \in DOMAIN tree \ {t} : Plan!Fits(r.kind, tree[p]) => ~Plan!Acceptable(p, DOMAIN tree, r.files)
      BY <3>3 DEF Plan!Candidates
    <3>5. \A p \in DOMAIN tree \ {t} : Plan!Fits(r.kind, tree[p]) =>
            \E i \in DOMAIN r.files : Plan!Misplaced(p, DOMAIN tree, r.files[i])
      BY <3>4 DEF Plan!Acceptable
    <3> QED BY <1>1, <1>2, <1>6, <3>4, <3>5 DEF Plan!Means
  <2>3. CASE Plan!Cardinality(DOMAIN tree) = 1
    BY <1>6, <2>3 DEF Plan!Means
  <2> QED BY <2>1, <2>2, <2>3
<1> QED BY <1>3, <1>4, <1>5, <1>6

LEMMA ComponentIsChosen ==
  ASSUME PlanConstants, PlanInv, NEW u \in Users, Plan!Choose(u)
  PROVE  PlanInv' /\ PlanChange
<1> DEFINE c == calls[u]
           targets == Plan!Targets(world.tree, c.r)
           component == CHOOSE t \in targets : TRUE
           path == Plan!PathOf(component)
           refusal == [at |-> "idle", what |-> "refused", plan |-> None, shown |-> None]
           next == [at |-> "build", r |-> c.r, head |-> c.head, component |-> component,
                    files |-> Plan!Normalized(path, c.r.files), tree |-> world.tree]
<1>1. UNCHANGED <<store, world, history, budget>> /\ PlanBudget(budget) /\ world.tree \in Trees
  BY DEF Plan!Choose, Plan!Read, PlanInv, PlanWorld
<1>2. \/ calls' = [calls EXCEPT ![u] = refusal]
      \/ /\ targets # {} /\ Plan!Acceptable(path, DOMAIN world.tree, c.r.files)
         /\ calls' = [calls EXCEPT ![u] = next]
  BY DEF Plan!Choose, Plan!Refuse, Plan!Answer, Plan!Call
<1>3. ASSUME targets # {}, Plan!Acceptable(path, DOMAIN world.tree, c.r.files)
      PROVE  PlanCall(next, store, history, budget.now)
  <2>1. component \in targets
    BY <1>3
  <2> HIDE DEF component, targets
  <2>2. /\ next.at = "build" /\ next.r = c.r /\ next.head = c.head /\ next.component = component
        /\ next.files = Plan!Normalized(path, c.r.files) /\ next.tree = world.tree
        /\ next = [at |-> "build", r |-> next.r, head |-> next.head, component |-> next.component,
                   files |-> next.files, tree |-> next.tree]
    OBVIOUS
  <2> HIDE DEF next
  <2>3. Plan!Means(next, path)
    BY <1>1, <2>1, <2>2, TargetIsMeant DEF targets
  <2>4. Chosen(next)
    BY <1>3, <2>2, <2>3 DEF Chosen
  <2> QED BY <2>2, <2>4 DEF PlanCall
<1>4. PlanCall(refusal, store, history, budget.now)
  BY RefusalKnowsNothing
<1> HIDE DEF next, refusal, targets, component
<1>5. PICK d : calls' = [calls EXCEPT ![u] = d] /\ PlanCall(d, store, history, budget.now)
  BY <1>2, <1>3, <1>4
<1> QED BY <1>1, <1>5, PlanReads

\* What is built for the chosen component is what was asked for.
LEMMA BuiltAsAsked ==
  ASSUME NEW c, Chosen(c), NEW path, path = Plan!PathOf(c.component),
         NEW interpreter, interpreter = Plan!Interpreter(c.r.kind, path),
         Plan!Buildable(c.r, path, c.files, interpreter),
         NEW does, does = Plan!Built(c.r, c.component, c.files, interpreter),
         NEW made, [does |-> does, r |-> c.r, tree |-> c.tree] \in made
  PROVE  Fitting(does, made)
<1> DEFINE m == [does |-> does, r |-> c.r, tree |-> c.tree]
<1>1. m.does = does /\ m.r = c.r /\ m.tree = c.tree /\ m \in made
  OBVIOUS
<1> HIDE DEF m
<1>2. /\ does.kind = c.r.kind /\ does.component = c.component /\ does.files = Plan!ToSet(c.files)
      /\ does.interpreter = interpreter
  BY DEF Plan!Built
<1>3. /\ Plan!Acceptable(path, DOMAIN c.tree, c.r.files) /\ Plan!Means(c, path)
      /\ c.files = [i \in DOMAIN c.r.files |->
                      IF Plan!Inside(path, c.r.files[i]) THEN c.r.files[i] ELSE path \o c.r.files[i]]
  BY DEF Chosen, Plan!Normalized
<1>4. \A file \in does.files : \E i \in DOMAIN c.r.files :
        file = c.files[i] /\ c.files[i] = IF Plan!Inside(path, c.r.files[i]) THEN c.r.files[i] ELSE path \o c.r.files[i]
  BY <1>2, <1>3 DEF Plan!ToSet
<1>5. \A file \in does.files : Plan!Inside(path, file)
  BY <1>2 DEF Plan!Buildable, Plan!ToSet
<1>6. /\ interpreter.executable = "venv" => interpreter.at = path
      /\ interpreter.executable = "python" => interpreter.scope = "global"
  BY DEF Plan!Interpreter
<1>7. c.r.exact /\ (interpreter.scope = "global" => c.r.global)
  BY DEF Plan!Buildable
<1>8. Plan!Means(m, path)
  BY <1>1, <1>3 DEF Plan!Means
<1>9. \A file \in does.files : \E i \in DOMAIN c.r.files :
        \/ file = c.r.files[i]
        \/ /\ file = path \o c.r.files[i]
           /\ \A other \in DOMAIN c.tree \ {<<>>, path} : ~Plan!Inside(other, c.r.files[i])
  <2>1. \A i \in DOMAIN c.r.files : ~Plan!Misplaced(path, DOMAIN c.tree, c.r.files[i])
    BY <1>3 DEF Plan!Acceptable
  <2>2. \A i \in DOMAIN c.r.files : ~Plan!Inside(path, c.r.files[i]) =>
          \A other \in DOMAIN c.tree \ {<<>>, path} : ~Plan!Inside(other, c.r.files[i])
    BY <2>1 DEF Plan!Misplaced
  <2>3. TAKE file \in does.files
  <2>4. PICK i \in DOMAIN c.r.files :
          file = IF Plan!Inside(path, c.r.files[i]) THEN c.r.files[i] ELSE path \o c.r.files[i]
    BY <1>4
  <2>5. \/ file = c.r.files[i]
        \/ /\ file = path \o c.r.files[i]
           /\ \A other \in DOMAIN c.tree \ {<<>>, path} : ~Plan!Inside(other, c.r.files[i])
    BY <2>2, <2>4
  <2> QED BY <2>5
<1>10. Plan!AsAsked(does, m)
  BY <1>1, <1>2, <1>6, <1>7, <1>8, <1>9 DEF Plan!AsAsked
<1> QED BY <1>1, <1>2, <1>5, <1>6, <1>10 DEF Fitting

LEMMA InstallIsBuilt ==
  ASSUME PlanConstants, PlanInv, NEW u \in Users, Plan!Build(u)
  PROVE  PlanInv' /\ PlanChange
<1> DEFINE c == calls[u]
           path == Plan!PathOf(c.component)
           interpreter == Plan!Interpreter(c.r.kind, path)
           does == Plan!Built(c.r, c.component, c.files, interpreter)
           m == [does |-> does, r |-> c.r, tree |-> c.tree]
           refusal == [at |-> "idle", what |-> "refused", plan |-> None, shown |-> None]
           preview == [at |-> "idle", what |-> "preview", plan |-> None, shown |-> does]
           next == [at |-> "context", id |-> [head |-> c.head, does |-> does], does |-> does, scope |-> None, shown |-> does]
<1>1. UNCHANGED <<store, world, budget>> /\ Chosen(c)
  BY DEF Plan!Build, Plan!At, PlanInv, PlanCall
<1>2. history' = [history EXCEPT !.made = history.made \cup {m}]
  BY DEF Plan!Build
<1>3. \/ calls' = [calls EXCEPT ![u] = refusal]
      \/ Plan!Buildable(c.r, path, c.files, interpreter) /\ calls' = [calls EXCEPT ![u] = preview]
      \/ Plan!Buildable(c.r, path, c.files, interpreter) /\ calls' = [calls EXCEPT ![u] = next]
  BY DEF Plan!Build, Plan!Preview, Plan!Refuse, Plan!Answer, Plan!Call
<1> HIDE DEF m
<1>4. /\ history' = [made |-> history'.made, versions |-> history'.versions, revoked |-> history'.revoked]
      /\ history'.made = history.made \cup {m} /\ history'.versions = history.versions
      /\ history'.revoked = history.revoked
  <2>1. history = [made |-> history.made, versions |-> history.versions, revoked |-> history.revoked]
    BY DEF PlanInv
  <2>2. history' = [made |-> history.made \cup {m}, versions |-> history.versions, revoked |-> history.revoked]
    BY <1>2, <2>1
  <2> QED BY <2>2
<1>5. RowsGrow(store, store') /\ HistoryGrows(history, history')
  BY <1>1, <1>4 DEF RowsGrow, HistoryGrows
<1>6. PlanStore(store', history')
  <2>1. PlansStored(store', history')
    <3> USE DEF PlansStored
    <3>1. TAKE id \in DOMAIN store'.plans
    <3>2. /\ GoodPlan(store.plans[id], store, history) /\ store.plans[id].id = id
          /\ store.plans[id].scope = None => Plan!BoundInstall(store.plans[id].does)
      BY <1>1 DEF PlanInv, PlanStore
    <3>3. GoodPlan(store.plans[id], store', history')
      BY <3>2, <1>5, GoodPlanStays
    <3> QED BY <1>1, <3>2, <3>3
  <2>2. ScopesStored(store', history')
    BY <1>1, <1>4 DEF PlanInv, PlanStore, ScopesStored
  <2> QED BY <1>1, <1>4, <2>1, <2>2 DEF PlanInv, PlanStore
<1>7. ASSUME Plan!Buildable(c.r, path, c.files, interpreter)
      PROVE  PlanCall(next, store', history', budget'.now)
  <2>1. Fitting(does, history'.made)
    BY <1>1, <1>4, <1>7, BuiltAsAsked DEF m
  <2> HIDE DEF does
  <2>2. /\ next.at = "context" /\ next.does = does /\ next.scope = None /\ next.shown = does
        /\ next.id = [head |-> c.head, does |-> does]
        /\ next = [at |-> "context", id |-> next.id, does |-> next.does, scope |-> next.scope, shown |-> next.shown]
    OBVIOUS
  <2> HIDE DEF next
  <2>3. next.id = [head |-> next.id.head, does |-> next.does]
    BY <2>2
  <2>4. Asking(next, history')
    BY <2>1, <2>2, <2>3 DEF Asking
  <2> QED BY <2>2, <2>4 DEF PlanCall
<1>8. PlanCall(refusal, store', history', budget'.now)
  BY RefusalKnowsNothing
<1>9. PlanCall(preview, store', history', budget'.now)
  BY DEF PlanCall, Answered
<1> HIDE DEF next, refusal, preview, does, interpreter, path
<1>10. PICK d : calls' = [calls EXCEPT ![u] = d] /\ PlanCall(d, store', history', budget'.now)
  BY <1>3, <1>7, <1>8, <1>9
<1>11. /\ calls' = [v \in Users |-> calls'[v]] /\ \A v \in Users : calls'[v] = IF v = u THEN d ELSE calls[v]
       /\ PlanWorld(world') /\ PlanBudget(budget')
  BY <1>1, <1>10 DEF PlanInv
<1>12. budget.now <= budget'.now
  BY <1>1 DEF PlanInv, PlanBudget, PlanConstants
<1> QED BY <1>4, <1>5, <1>6, <1>10, <1>11, <1>12, PlanAdvances

\* The worktree changes and is scanned, and time passes.
LEMMA PlanWorldStep ==
  ASSUME PlanConstants, PlanInv, Plan!Change \/ Plan!Scan \/ Plan!Tombstone \/ Plan!Tick
  PROVE  PlanInv' /\ PlanChange
<1>1. /\ UNCHANGED <<calls, history>> /\ calls = [v \in Users |-> calls[v]]
      /\ history = [made |-> history.made, versions |-> history.versions, revoked |-> history.revoked]
  BY DEF Plan!Change, Plan!Scan, Plan!Tombstone, Plan!Tick, PlanInv
<1>2. PlanWorld(world')
  <2>1. CASE Plan!Change
    BY <2>1 DEF Plan!Change, PlanWorld, PlanInv
  <2>2. CASE UNCHANGED world
    BY <2>2 DEF PlanInv
  <2> QED BY <2>1, <2>2 DEF Plan!Scan, Plan!Tombstone, Plan!Tick
<1>3. PlanBudget(budget') /\ budget.now <= budget'.now
  <2>1. PlanBudget(budget) /\ budget.now \in Nat
    BY DEF PlanInv, PlanBudget, PlanConstants
  <2>2. \/ UNCHANGED budget
        \/ budget' = [budget EXCEPT !.changes = @ + 1]
        \/ budget' = [budget EXCEPT !.now = @ + 1] /\ budget.now < MaxTime
    BY DEF Plan!Change, Plan!Scan, Plan!Tombstone, Plan!Tick
  <2> QED BY <2>1, <2>2 DEF PlanBudget, PlanConstants
<1>4. RowsGrow(store, store') /\ PlanStore(store', history')
  <2>1. CASE UNCHANGED store
    BY <1>1, <2>1 DEF RowsGrow, PlanInv
  <2>2. ASSUME NEW seen \in Heads \cup {None}, store' = [store EXCEPT !.seen = seen]
        PROVE  RowsGrow(store, store') /\ PlanStore(store', history')
    <3>1. store = [seen |-> store.seen, plans |-> store.plans, events |-> store.events, scopes |-> store.scopes]
      BY DEF PlanInv, PlanStore
    <3>2. /\ store' = [seen |-> seen, plans |-> store.plans, events |-> store.events, scopes |-> store.scopes]
          /\ store'.seen = seen /\ store'.plans = store.plans /\ store'.events = store.events
          /\ store'.scopes = store.scopes
      BY <2>2, <3>1
    <3>3. RowsGrow(store, store') /\ HistoryGrows(history, history')
      BY <1>1, <3>2 DEF RowsGrow, HistoryGrows
    <3>4. PlansStored(store', history')
      <4> USE DEF PlansStored
      <4>1. TAKE id \in DOMAIN store'.plans
      <4>2. /\ GoodPlan(store.plans[id], store, history) /\ store.plans[id].id = id
            /\ store.plans[id].scope = None => Plan!BoundInstall(store.plans[id].does)
        BY <3>2 DEF PlanInv, PlanStore
      <4>3. GoodPlan(store.plans[id], store', history')
        BY <4>2, <3>3, GoodPlanStays
      <4> QED BY <3>2, <4>2, <4>3
    <3>5. ScopesStored(store', history')
      BY <1>1, <3>2 DEF PlanInv, PlanStore, ScopesStored
    <3> QED BY <1>1, <3>2, <3>3, <3>4, <3>5 DEF PlanInv, PlanStore
  <2>3. world.head \in Heads
    BY DEF PlanInv, PlanWorld
  <2> QED BY <2>1, <2>2, <2>3 DEF Plan!Change, Plan!Scan, Plan!Tombstone, Plan!Tick
<1>5. HistoryGrows(history, history')
  BY <1>1 DEF HistoryGrows
<1> QED BY <1>1, <1>2, <1>3, <1>4, <1>5, PlanAdvances

LEMMA PlanInitially ==
  ASSUME PlanConstants, Plan!PlanningInit
  PROVE  PlanInv
<1>1. /\ \E h \in Heads : store = [seen |-> h, plans |-> <<>>, events |-> {}, scopes |-> <<>>]
      /\ calls = [u \in Users |-> Plan!Idle]
      /\ history = [made |-> {}, versions |-> {}, revoked |-> {}]
      /\ budget = [now |-> 0, calls |-> 0, changes |-> 0, faults |-> 0]
  BY DEF Plan!PlanningInit
<1>2. PlanWorld(world)
  <2>1. PICK tree \in Trees, h \in Heads :
          world = [tree |-> tree, venvs |-> {p \in DOMAIN tree : "python" \in tree[p]}, linked |-> {},
                   native |-> {"node", "python"}, head |-> h, same |-> TRUE]
    BY DEF Plan!PlanningInit
  <2> QED BY <2>1 DEF PlanWorld
<1>3. PlanStore(store, history)
  <2>1. /\ store.plans = <<>> /\ store.scopes = <<>> /\ store.events = {} /\ store.seen \in Heads
        /\ store = [seen |-> store.seen, plans |-> store.plans, events |-> store.events, scopes |-> store.scopes]
        /\ history.revoked = {}
    BY <1>1
  <2> QED BY <2>1 DEF PlanStore, PlansStored, ScopesStored
<1>4. \A u \in Users : PlanCall(calls[u], store, history, budget.now)
  BY <1>1 DEF Plan!Idle, PlanCall, Answered
<1>5. PlanBudget(budget)
  BY <1>1 DEF PlanBudget, PlanConstants
<1>6. /\ history = [made |-> history.made, versions |-> history.versions, revoked |-> history.revoked]
      /\ calls = [u \in Users |-> calls[u]]
  BY <1>1
<1> QED BY <1>2, <1>3, <1>4, <1>5, <1>6 DEF PlanInv

LEMMA PlanStep ==
  ASSUME PlanConstants, PlanInv, Plan!PlanningNext
  PROVE  PlanInv' /\ PlanChange
<1>1. CASE \E u \in Users : Plan!AskInstall(u) \/ Plan!AskScoped(u) \/ Plan!ReadForDecision(u) \/ Plan!ReadForCheck(u)
  BY <1>1, PlanAsks
<1>2. CASE \E u \in Users : Plan!Choose(u) \/ Plan!Build(u)
  BY <1>2, ComponentIsChosen, InstallIsBuilt
<1>3. CASE \E u \in Users : Plan!ReadContext(u) \/ Plan!ReadScope(u) \/ Plan!ReadExisting(u)
  BY <1>3, PlanReadsContext, PlanReadsScope, PlanReadsExisting
<1>4. CASE \E u \in Users : Plan!SavePlan(u) \/ Plan!FindEvent(u) \/ Plan!LogEvent(u) \/ Plan!Fault(u)
  BY <1>4, PlanIsSaved, EventIsFound, EventIsSaved, PlannerFails
<1>5. CASE \E u \in Users : Plan!CreateScope(u) \/ Plan!WriteDecision(u) \/ Plan!Check(u)
  BY <1>5, ScopeIsCreated, ScopeIsDecided, PlanIsChecked
<1> QED BY <1>1, <1>2, <1>3, <1>4, <1>5, PlanWorldStep DEF Plan!PlanningNext

LEMMA PlanStutter ==
  ASSUME PlanInv, UNCHANGED vars
  PROVE  PlanInv'
BY DEF PlanInv, vars

LEMMA PlanIsSound ==
  ASSUME PlanConstants
  PROVE  PlanSpec => []PlanInv
<1>1. PlanInv /\ [Plan!PlanningNext]_vars => PlanInv'
  BY PlanStep, PlanStutter
<1> QED BY <1>1, PlanInitially, PTL DEF PlanSpec

\* What the invariant says of plans, of answers and of the records.
LEMMA PlanInvariantMeans ==
  ASSUME PlanInv
  PROVE  /\ Plan!PlanningTypeOK /\ Plan!InstallIsBound /\ Plan!MatchedIsWithinScope
         /\ Plan!PlannedIsAudited /\ Plan!RevokedNeverMatches
<1>1. /\ \A id \in DOMAIN store.plans :
           /\ GoodPlan(store.plans[id], store, history) /\ store.plans[id].id = id
           /\ store.plans[id].scope = None => Plan!BoundInstall(store.plans[id].does)
      /\ \A u \in Users : calls[u].at = "idle" => Answered(calls[u], store, history)
  BY DEF PlanInv, PlanStore, PlansStored, PlanCall
<1>2. Plan!PlanningTypeOK
  <2>1. /\ store.seen \in Heads \cup {None}
        /\ \A s \in DOMAIN store.scopes : store.scopes[s].state \in {"draft", "approved", "revoked"}
    BY DEF PlanInv, PlanStore, ScopesStored
  <2>2. \A u \in Users : calls[u].at \in Plan!PlanPlaces \cup {"idle", "choose", "build", "decide", "check"}
    BY DEF PlanInv, PlanCall, Plan!PlanPlaces
  <2>3. \A id \in DOMAIN store.plans : store.plans[id].id = id /\ store.plans[id].asked \in 0..MaxTime
    BY <1>1 DEF GoodPlan
  <2> QED BY <2>1, <2>2, <2>3 DEF Plan!PlanningTypeOK
<1>3. Plan!InstallIsBound
  BY <1>1 DEF GoodPlan, InstallPlan, Fitting, Plan!BoundInstall, Plan!InstallIsBound
<1>4. Plan!MatchedIsWithinScope
  BY <1>1 DEF GoodPlan, Scoped, WithinBounds, Plan!MatchedIsWithinScope
<1>5. Plan!PlannedIsAudited
  <2>1. \A e, f \in store.events : e.id = f.id => e = f
    BY DEF PlanInv, PlanStore
  <2> QED BY <1>1, <2>1 DEF Answered, StoredAs, Plan!Stored, Plan!At, Plan!PlannedIsAudited
<1>6. Plan!RevokedNeverMatches
  <2>1. \A u \in Users : Plan!At(u, "idle") /\ calls[u].what = "match" =>
          /\ calls[u].shown = "live" /\ calls[u].plan.digest.state = "approved"
          /\ [id |-> calls[u].plan.scope, scope |-> calls[u].plan.digest] \in history.versions
    BY <1>1 DEF Answered, Plan!At
  <2>2. \A s, scope : [id |-> s, scope |-> scope] \in history.versions =>
          \E version \in history.versions : version.id = s /\ version.scope = scope
    OBVIOUS
  <2> QED BY <2>1, <2>2 DEF Plan!RevokedNeverMatches
<1> QED BY <1>2, <1>3, <1>4, <1>5, <1>6

\* The id of an installation is made of what it does, and no plan under a scope is given such an id.
InstallIdsAreTheirOwn == \A ask \in Asks : \A head, does : ask.plan # [head |-> head, does |-> does]
LEMMA PlanReuseIsSafe ==
  ASSUME PlanInv, InstallIdsAreTheirOwn
  PROVE  Plan!ReuseIsSafe
<1>1. ASSUME NEW u \in Users, calls[u].at = "idle", calls[u].what = "conflict", calls[u].plan.scope = None
      PROVE  store.plans[calls[u].plan.id].context # calls[u].plan.context
  <2> DEFINE p == calls[u].plan
             q == store.plans[p.id]
  <2>1. /\ p.id \in DOMAIN store.plans /\ p.id = [head |-> p.id.head, does |-> p.does]
        /\ q.scope = None => q.context # p.context
    BY <1>1 DEF PlanInv, PlanCall, Answered
  <2>2. GoodPlan(q, store, history) /\ q.id = p.id
    BY <2>1 DEF PlanInv, PlanStore, PlansStored
  <2>3. q.scope # None => \E ask \in Asks : p.id = ask.plan
    BY <2>2 DEF GoodPlan, Scoped
  <2> QED BY <2>1, <2>3 DEF InstallIdsAreTheirOwn
<1> QED BY <1>1 DEF Plan!ReuseIsSafe, Plan!At

\* A stored installation does what someone asked for, in the one component that
\* this can mean, with files of that component only (verifiedQualityInstallTarget,
\* internal/app/quality_install.go), whatever changed while it was planned.
THEOREM InstallationsAreAsAsked ==
  ASSUME PlanConstants
  PROVE  PlanSpec => [](Plan!PlanningTypeOK /\ Plan!InstallIsBound)
BY PlanInvariantMeans, PlanIsSound, PTL

\* A plan that matches its scope was made under an approved revision of it, within
\* every bound that the scope enumerates (Contained), and is not said to match after that scope was revoked or is over
\* (CheckUnattendedApprovalScope, internal/app/approval_scope.go).
THEOREM ScopesBoundTheirPlans ==
  ASSUME PlanConstants
  PROVE  PlanSpec => [](Plan!MatchedIsWithinScope /\ Plan!RevokedNeverMatches)
BY PlanInvariantMeans, PlanIsSound, PTL

\* A plan that was answered is stored as it was shown, with one planned event,
\* though the two are stored in two transactions, either of which may fail or be
\* repeated (Plan and ensurePlannedAudit, internal/action/broker.go).
THEOREM AnsweredPlansAreAudited ==
  ASSUME PlanConstants
  PROVE  PlanSpec => []Plan!PlannedIsAudited
BY PlanInvariantMeans, PlanIsSound, PTL

\* An installation that is asked for again conflicts with the stored one only when
\* a scan has changed the context in between (SaveActionPlan, internal/store).
THEOREM RepeatedPlansAreReused ==
  ASSUME PlanConstants, InstallIdsAreTheirOwn
  PROVE  PlanSpec => []Plan!ReuseIsSafe
BY PlanReuseIsSafe, PlanIsSound, PTL

\* Plans and events never change, and a scope advances by one revision at a time
\* from draft to approved to revoked, with two processes deciding.
THEOREM PlansAndScopesOnlyAdvance ==
  ASSUME PlanConstants
  PROVE  PlanSpec => [][Plan!PlansAreImmutable /\ Plan!ScopesAdvance]_vars
<1>1. PlanInv /\ [Plan!PlanningNext]_vars => [Plan!PlansAreImmutable /\ Plan!ScopesAdvance]_vars
  BY PlanStep DEF PlanChange
<1> QED BY <1>1, PlanIsSound, PTL DEF PlanSpec

-----------------------------------------------------------------------------
(* Safeguard: two kinds of rows that several processes count and change at   *)
(* once, without a lock between them.                                        *)
Guard == INSTANCE Safeguard

GuardSpec == Guard!SafeguardInit /\ [][Guard!SafeguardNext]_vars
MetricSet == [hits : Nat, misses : Nat, positive : Nat, false : Nat]
RuleSet == [state : {"proposal", "shadow", "active", "retired"}, revision : Nat \ {0}, count : Nat, metrics : MetricSet]
\* A rule is not None; there are finitely many processes.
GuardConstants ==
  /\ None \notin RuleSet /\ IsFiniteSet(Processes)
  /\ Repeats \in Nat \ {0} /\ Retries \in Nat \ {0} /\ MaxRefs \in Nat \ {0} /\ MaxFailures \in Nat

PrintRow(r) == r = [count |-> r.count, refs |-> r.refs] /\ r.count \in Nat /\ r.refs \in Seq(Nat)
RuleRow(r) == r \in RuleSet /\ r.count >= Repeats /\ r.metrics.positive + r.metrics.false <= r.metrics.hits
\* What an update makes of the rule that it has read.
Successor(rule, c) ==
  /\ c.job # "failure" => Guard!Allowed(rule, c.job)
  /\ c.next = [(IF c.job = "failure" THEN Guard!EvaluatedRule(rule, c.rule = c.print, c.count)
                ELSE Guard!DecidedRule(rule, c.job)) EXCEPT !.revision = @ + 1]
Jobs == {"failure"} \cup Guard!Decisions
Listed(c, rows) ==
  /\ c.print \in Prints /\ c.job \in Jobs /\ c.todo \subseteq Prints /\ c.count \in Nat
  /\ \A f \in c.todo : rows.rules[f] # None
  /\ c.job = "failure" => c.count <= rows.prints[c.print].count
GuardCall(c, rows) ==
  \/ c = Guard!Idle
  \/ c.at = "count" /\ c = [at |-> "count", print |-> c.print, evidence |-> c.evidence] /\ c.print \in Prints /\ c.evidence \in Nat
  \/ /\ c.at = "evidence" /\ c = [at |-> "evidence", print |-> c.print, evidence |-> c.evidence, tries |-> c.tries]
     /\ c.print \in Prints /\ c.evidence \in Nat
  \/ /\ c.at = "merge"
     /\ c = [at |-> "merge", print |-> c.print, evidence |-> c.evidence, tries |-> c.tries, read |-> c.read]
     /\ c.print \in Prints /\ c.evidence \in Nat
  \/ /\ c.at \in {"create", "list"} /\ c = [at |-> c.at, print |-> c.print, count |-> c.count]
     /\ c.print \in Prints /\ c.count \in Nat /\ c.count <= rows.prints[c.print].count
  \/ /\ c.at = "rules" /\ Listed(c, rows)
     /\ c = [at |-> "rules", job |-> c.job, print |-> c.print, count |-> c.count, tries |-> c.tries, todo |-> c.todo]
  \/ /\ c.at = "update" /\ Listed(c, rows) /\ c.rule \in c.todo
     /\ c = [at |-> "update", job |-> c.job, print |-> c.print, count |-> c.count, tries |-> c.tries, todo |-> c.todo,
             rule |-> c.rule, read |-> c.read, next |-> c.next]
     /\ c.read \in Nat /\ c.read <= rows.rules[c.rule].revision
     /\ c.read = rows.rules[c.rule].revision => Successor(rows.rules[c.rule], c)
RuleKnown(f, rows, happened) ==
  /\ rows.rules[f] = None => happened.updates[f] = 1 /\ happened.metrics[f] = Guard!NoMetrics
  /\ rows.rules[f] # None =>
       /\ RuleRow(rows.rules[f]) /\ rows.rules[f].count <= rows.prints[f].count
       /\ rows.rules[f].revision = happened.updates[f] /\ rows.rules[f].metrics = happened.metrics[f]
RuleInv ==
  /\ store = [prints |-> store.prints, rules |-> store.rules]
  /\ store.prints = [f \in Prints |-> store.prints[f]] /\ store.rules = [f \in Prints |-> store.rules[f]]
  /\ history = [updates |-> history.updates, metrics |-> history.metrics, failed |-> history.failed]
  /\ history.updates = [f \in Prints |-> history.updates[f]] /\ history.metrics = [f \in Prints |-> history.metrics[f]]
  /\ budget = [failures |-> budget.failures, decisions |-> budget.decisions] /\ budget.failures \in 0..MaxFailures
  /\ calls = [p \in Processes |-> calls[p]]
  /\ \A f \in Prints : PrintRow(store.prints[f]) /\ RuleKnown(f, store, history)
  /\ \A p \in Processes : GuardCall(calls[p], store)

\* The evidence of a failure is new when it happens; every failure that is counted has
\* its reference, or a handler has it in its hands, or there are as many as are kept.
Uncounted(cs, f) == {p \in Processes : cs[p].at = "count" /\ cs[p].print = f}
Pending(cs, prints, f) ==
  {p \in Processes : cs[p].at \in {"evidence", "merge"} /\ cs[p].print = f /\ cs[p].evidence \notin Guard!Range(prints[f].refs)}
Carrying == {"count", "evidence", "merge"}
EvidenceInv ==
  /\ \A p \in Processes : calls[p].at \in Carrying => calls[p].evidence <= budget.failures
  /\ \A p, q \in Processes : calls[p].at \in Carrying /\ calls[q].at \in Carrying /\ p # q =>
       calls[p].evidence # calls[q].evidence
  /\ \A f \in Prints, n \in Nat : n \in Guard!Range(store.prints[f].refs) =>
       n <= budget.failures /\ \A p \in Processes : calls[p].at = "count" => calls[p].evidence # n
  /\ \A f \in Prints :
       LET print == store.prints[f]
           pending == Cardinality(Pending(calls, store.prints, f))
       IN /\ print.count + Cardinality(Uncounted(calls, f)) <= budget.failures
          /\ Len(print.refs) <= MaxRefs
          /\ Len(print.refs) = MaxRefs => print.count >= MaxRefs
          /\ Len(print.refs) < MaxRefs =>
               /\ Len(print.refs) + pending <= print.count
               /\ ~history.failed => Len(print.refs) + pending = print.count

\* A failure that was repeated has its rule with the count of now, or a handler that
\* has not failed is about to give it that.
Carries(c, f, rows) ==
  /\ c.print = f
  /\ \/ c.at \in {"evidence", "merge"}
     \/ c.at = "create" /\ c.count = rows.prints[f].count
     \/ c.at = "list" /\ c.count = rows.prints[f].count /\ rows.rules[f] # None
     \/ c.at \in {"rules", "update"} /\ c.job = "failure" /\ c.count = rows.prints[f].count /\ f \in c.todo
Guarded(f, rows) == rows.rules[f] # None /\ rows.rules[f].count = rows.prints[f].count
RepeatInv ==
  ~history.failed => \A f \in Prints :
    store.prints[f].count >= Repeats =>
      Guarded(f, store) \/ \E p \in Processes : calls[p] # Guard!Idle /\ Carries(calls[p], f, store)
GuardInv == RuleInv /\ EvidenceInv /\ RepeatInv

\* Rules stay, and their revision tells whether they have changed; counts grow.
RulesGrow(old, new) ==
  \A f \in Prints :
    /\ new.prints[f].count >= old.prints[f].count
    /\ old.rules[f] # None =>
         /\ new.rules[f] # None /\ new.rules[f].revision >= old.rules[f].revision
         /\ new.rules[f].revision = old.rules[f].revision => new.rules[f] = old.rules[f]
RowsAreTyped(rows) ==
  \A f \in Prints : rows.prints[f].count \in Nat /\ (rows.rules[f] # None => rows.rules[f].revision \in Nat)

LEMMA GuardCallStays ==
  ASSUME NEW c, NEW old, NEW new, GuardCall(c, old), RulesGrow(old, new), RowsAreTyped(old), RowsAreTyped(new)
  PROVE  GuardCall(c, new)
<1>1. ASSUME Listed(c, old) PROVE Listed(c, new)
  BY <1>1 DEF Listed, RulesGrow, RowsAreTyped
<1>2. CASE c.at \in {"create", "list"} /\ c.print \in Prints /\ c.count \in Nat /\ c.count <= old.prints[c.print].count
  <2>1. c.count <= new.prints[c.print].count
    BY <1>2 DEF RulesGrow, RowsAreTyped
  <2> QED BY <1>2, <2>1 DEF GuardCall, Guard!Idle
<1>3. CASE c.at = "update" /\ Listed(c, old)
  <2>1. /\ c.rule \in c.todo /\ c.rule \in Prints /\ old.rules[c.rule] # None
        /\ c.read \in Nat /\ c.read <= old.rules[c.rule].revision
        /\ c.read = old.rules[c.rule].revision => Successor(old.rules[c.rule], c)
    BY <1>3 DEF GuardCall, Guard!Idle, Listed
  <2>2. /\ c.read <= new.rules[c.rule].revision
        /\ c.read = new.rules[c.rule].revision => Successor(new.rules[c.rule], c)
    BY <2>1 DEF RulesGrow, RowsAreTyped
  <2>3. c = [at |-> "update", job |-> c.job, print |-> c.print, count |-> c.count, tries |-> c.tries, todo |-> c.todo,
             rule |-> c.rule, read |-> c.read, next |-> c.next]
    BY <1>3 DEF GuardCall, Guard!Idle
  <2>4. Listed(c, new)
    BY <1>1, <1>3
  <2> QED BY <1>3, <2>1, <2>2, <2>3, <2>4 DEF GuardCall
<1> QED BY <1>1, <1>2, <1>3 DEF GuardCall

LEMMA RuleTypes ==
  ASSUME RuleInv
  PROVE  RowsAreTyped(store)
BY DEF RuleInv, PrintRow, RuleKnown, RuleRow, RuleSet, RowsAreTyped

Shaped(rows, happened, spent) ==
  /\ rows = [prints |-> rows.prints, rules |-> rows.rules]
  /\ rows.prints = [f \in Prints |-> rows.prints[f]] /\ rows.rules = [f \in Prints |-> rows.rules[f]]
  /\ happened = [updates |-> happened.updates, metrics |-> happened.metrics, failed |-> happened.failed]
  /\ happened.updates = [f \in Prints |-> happened.updates[f]] /\ happened.metrics = [f \in Prints |-> happened.metrics[f]]
  /\ spent = [failures |-> spent.failures, decisions |-> spent.decisions] /\ spent.failures \in 0..MaxFailures
  /\ \A f \in Prints : PrintRow(rows.prints[f]) /\ RuleKnown(f, rows, happened)

\* A handler that takes a step, by which rows only grow.
LEMMA RuleFrame ==
  ASSUME RuleInv, Shaped(store', history', budget'), RulesGrow(store, store'),
         NEW p \in Processes, NEW d, calls' = [calls EXCEPT ![p] = d], GuardCall(d, store')
  PROVE  RuleInv'
<1>1. RowsAreTyped(store) /\ RowsAreTyped(store')
  BY RuleTypes DEF Shaped, PrintRow, RuleKnown, RuleRow, RuleSet, RowsAreTyped
<1>2. calls' = [q \in Processes |-> calls'[q]] /\ calls'[p] = d /\ \A q \in Processes : q # p => calls'[q] = calls[q]
  BY DEF RuleInv
<1>3. \A q \in Processes : GuardCall(calls[q], store)
  BY DEF RuleInv
<1>4. \A q \in Processes : GuardCall(calls'[q], store')
  BY <1>1, <1>2, <1>3, GuardCallStays
<1> QED BY <1>2, <1>4 DEF RuleInv, Shaped

LEMMA RulesRest == ASSUME RuleInv PROVE RulesGrow(store, store) /\ Shaped(store, history, budget)
BY RuleTypes DEF RuleInv, RulesGrow, RowsAreTyped, Shaped

\* A handler that only reads.
LEMMA ReaderFrame ==
  ASSUME RuleInv, UNCHANGED <<store, history>>, Shaped(store, history, budget'),
         NEW p \in Processes, NEW d, calls' = [calls EXCEPT ![p] = d], GuardCall(d, store)
  PROVE  RuleInv'
<1>1. RulesGrow(store, store') /\ Shaped(store', history', budget')
  BY RulesRest
<1>2. GuardCall(d, store')
  OBVIOUS
<1> QED BY <1>1, <1>2, RuleFrame

LEMMA IdleIsKnown == \A rows : GuardCall(Guard!Idle, rows)
BY DEF GuardCall

\* A handler that fails.
LEMMA FailFrame ==
  ASSUME RuleInv, UNCHANGED <<store, budget>>, history' = [history EXCEPT !.failed = TRUE],
         NEW p \in Processes, calls' = [calls EXCEPT ![p] = Guard!Idle]
  PROVE  RuleInv' /\ history'.failed
<1>1. /\ history'.updates = history.updates /\ history'.metrics = history.metrics /\ history'.failed
      /\ history' = [updates |-> history'.updates, metrics |-> history'.metrics, failed |-> history'.failed]
  BY DEF RuleInv
<1>2. Shaped(store, history, budget) /\ RulesGrow(store, store)
  BY RulesRest
<1>3. Shaped(store', history', budget')
  BY <1>1, <1>2 DEF Shaped, RuleKnown
<1>4. GuardCall(Guard!Idle, store')
  BY IdleIsKnown
<1>5. RulesGrow(store, store')
  BY <1>2
<1> QED BY <1>1, <1>3, <1>4, <1>5, RuleFrame

\* One row of a table.
LEMMA OnePrint ==
  ASSUME RuleInv, NEW f \in Prints, NEW row, store' = [store EXCEPT !.prints[f] = row]
  PROVE  /\ store' = [prints |-> store'.prints, rules |-> store'.rules] /\ store'.rules = store.rules
         /\ store'.prints = [g \in Prints |-> store'.prints[g]] /\ store'.prints[f] = row
         /\ \A g \in Prints : g # f => store'.prints[g] = store.prints[g]
<1>1. store = [prints |-> store.prints, rules |-> store.rules] /\ store.prints = [g \in Prints |-> store.prints[g]]
  BY DEF RuleInv
<1>2. store' = [prints |-> [store.prints EXCEPT ![f] = row], rules |-> store.rules]
  BY <1>1
<1> QED BY <1>1, <1>2
LEMMA OneRule ==
  ASSUME RuleInv, NEW f \in Prints, NEW row, store' = [store EXCEPT !.rules[f] = row]
  PROVE  /\ store' = [prints |-> store'.prints, rules |-> store'.rules] /\ store'.prints = store.prints
         /\ store'.rules = [g \in Prints |-> store'.rules[g]] /\ store'.rules[f] = row
         /\ \A g \in Prints : g # f => store'.rules[g] = store.rules[g]
<1>1. store = [prints |-> store.prints, rules |-> store.rules] /\ store.rules = [g \in Prints |-> store.rules[g]]
  BY DEF RuleInv
<1>2. store' = [prints |-> store.prints, rules |-> [store.rules EXCEPT ![f] = row]]
  BY <1>1
<1> QED BY <1>1, <1>2

\* What an update stores: a rule of the next revision, one evaluation or one decision
\* later, active only when it has earned that, and never back from the retirement.
Later(rule, next) ==
  /\ next.revision = rule.revision + 1 /\ next.count >= rule.count
  /\ rule.state # "active" /\ next.state = "active" => Guard!Earned(rule.metrics)
  /\ rule.state = "retired" => next.state = "retired" /\ next.metrics = rule.metrics

LEMMA FailuresAreEvaluated ==
  ASSUME Repeats \in Nat, NEW rule, RuleRow(rule), NEW exact \in BOOLEAN, NEW n \in Nat
  PROVE  LET next == [Guard!EvaluatedRule(rule, exact, n) EXCEPT !.revision = @ + 1] IN
         /\ RuleRow(next) /\ Later(rule, next) /\ next.state = rule.state
         /\ next.count = IF exact /\ n > rule.count THEN n ELSE rule.count
         /\ next.metrics = IF ~Guard!Observing(rule) THEN rule.metrics
                           ELSE IF exact THEN [rule.metrics EXCEPT !.hits = @ + 1]
                           ELSE [rule.metrics EXCEPT !.misses = @ + 1]
<1> DEFINE count == IF exact /\ n > rule.count THEN n ELSE rule.count
           m == IF ~Guard!Observing(rule) THEN rule.metrics
                ELSE IF exact THEN [rule.metrics EXCEPT !.hits = @ + 1] ELSE [rule.metrics EXCEPT !.misses = @ + 1]
           counted == IF exact /\ n > rule.count THEN [rule EXCEPT !.count = n] ELSE rule
           judged == Guard!EvaluatedRule(rule, exact, n)
           next == [judged EXCEPT !.revision = @ + 1]
<1>1. /\ rule \in RuleSet /\ rule.count \in Nat /\ rule.count >= Repeats /\ rule.revision \in Nat \ {0}
      /\ rule.metrics \in MetricSet /\ rule.metrics.positive + rule.metrics.false <= rule.metrics.hits
  BY DEF RuleRow, RuleSet
<1>2. counted \in RuleSet
  BY <1>1 DEF RuleSet
<1>3. counted.state = rule.state /\ counted.revision = rule.revision /\ counted.metrics = rule.metrics
  BY <1>1 DEF RuleSet
<1>4. counted.count = count /\ count \in Nat /\ count >= rule.count
  BY <1>1 DEF RuleSet
<1>5. judged = IF ~Guard!Observing(rule) THEN counted
               ELSE IF exact THEN [counted EXCEPT !.metrics.hits = @ + 1] ELSE [counted EXCEPT !.metrics.misses = @ + 1]
  BY DEF Guard!EvaluatedRule
<1> HIDE DEF counted, count, judged
<1>6. judged \in RuleSet
  BY <1>2, <1>5 DEF RuleSet, MetricSet
<1>7. judged.state = rule.state /\ judged.revision = rule.revision /\ judged.count = count
  BY <1>2, <1>3, <1>4, <1>5 DEF RuleSet
<1>8. judged.metrics = m
  BY <1>2, <1>3, <1>5 DEF RuleSet
<1>9. m.positive + m.false <= m.hits
  BY <1>1 DEF MetricSet
<1>10. rule.state = "retired" => m = rule.metrics
  BY DEF Guard!Observing
<1> HIDE DEF m
<1>11. next \in RuleSet
  BY <1>6 DEF RuleSet
<1>12. next.revision = rule.revision + 1
  BY <1>6, <1>7 DEF RuleSet
<1>13. next.state = rule.state /\ next.count = count /\ next.metrics = m
  BY <1>6, <1>7, <1>8 DEF RuleSet
<1> HIDE DEF next
<1>14. RuleRow(next)
  BY <1>1, <1>4, <1>9, <1>11, <1>13 DEF RuleRow
<1>15. Later(rule, next)
  BY <1>4, <1>10, <1>12, <1>13 DEF Later
<1> QED BY <1>13, <1>14, <1>15 DEF next, judged, count, m

LEMMA DecisionsAreLegal ==
  ASSUME Repeats \in Nat, NEW rule, RuleRow(rule), NEW decision \in Guard!Decisions, Guard!Allowed(rule, decision)
  PROVE  LET next == [Guard!DecidedRule(rule, decision) EXCEPT !.revision = @ + 1] IN
         /\ RuleRow(next) /\ Later(rule, next) /\ next.count = rule.count
         /\ next.metrics = CASE decision = "positive" -> [rule.metrics EXCEPT !.positive = @ + 1]
                             [] decision = "false_positive" -> [rule.metrics EXCEPT !.false = @ + 1]
                             [] OTHER -> rule.metrics
<1> DEFINE m == CASE decision = "positive" -> [rule.metrics EXCEPT !.positive = @ + 1]
                  [] decision = "false_positive" -> [rule.metrics EXCEPT !.false = @ + 1] [] OTHER -> rule.metrics
           state == CASE decision \in {"review", "rollback"} -> "shadow" [] decision = "activate" -> "active"
                      [] decision = "retire" -> "retired" [] OTHER -> rule.state
           judged == Guard!DecidedRule(rule, decision)
           next == [judged EXCEPT !.revision = @ + 1]
<1>1. /\ rule \in RuleSet /\ rule.count \in Nat /\ rule.count >= Repeats /\ rule.revision \in Nat \ {0}
      /\ rule.metrics \in MetricSet /\ rule.metrics.positive + rule.metrics.false <= rule.metrics.hits
      /\ rule.state \in {"proposal", "shadow", "active", "retired"}
  BY DEF RuleRow, RuleSet
<1>2. \/ decision \in {"review", "rollback"} /\ judged = [rule EXCEPT !.state = "shadow"]
      \/ decision = "activate" /\ judged = [rule EXCEPT !.state = "active"]
      \/ decision = "retire" /\ judged = [rule EXCEPT !.state = "retired"]
      \/ decision = "positive" /\ judged = [rule EXCEPT !.metrics.positive = @ + 1]
      \/ decision = "false_positive" /\ judged = [rule EXCEPT !.metrics.false = @ + 1]
  BY DEF Guard!DecidedRule, Guard!Decisions
<1>3. state \in {"proposal", "shadow", "active", "retired"}
  BY <1>1
<1>4. decision \in {"positive", "false_positive"} =>
        rule.state \in {"shadow", "active"} /\ rule.metrics.positive + rule.metrics.false < rule.metrics.hits
  BY DEF Guard!Allowed, Guard!Observing
<1>5. /\ rule.state # "active" /\ state = "active" => Guard!Earned(rule.metrics)
      /\ rule.state = "retired" => state = "retired" /\ m = rule.metrics
  BY <1>2, <1>4 DEF Guard!Allowed
<1> HIDE DEF judged
<1>6. judged \in RuleSet
  BY <1>1, <1>2 DEF RuleSet, MetricSet
<1>7. judged.revision = rule.revision /\ judged.count = rule.count
  BY <1>1, <1>2 DEF RuleSet
<1>8. judged.state = state
  BY <1>1, <1>2 DEF RuleSet
<1>9. judged.metrics = m
  BY <1>1, <1>2 DEF RuleSet
<1>10. m.positive + m.false <= m.hits
  BY <1>1, <1>2, <1>4 DEF MetricSet
<1> HIDE DEF m, state
<1>11. next \in RuleSet
  BY <1>6 DEF RuleSet
<1>12. next.revision = rule.revision + 1
  BY <1>6, <1>7 DEF RuleSet
<1>13. next.state = state /\ next.count = rule.count /\ next.metrics = m
  BY <1>6, <1>7, <1>8, <1>9 DEF RuleSet
<1> HIDE DEF next
<1>14. RuleRow(next)
  BY <1>1, <1>10, <1>11, <1>13 DEF RuleRow
<1>15. Later(rule, next)
  BY <1>1, <1>5, <1>12, <1>13 DEF Later
<1> QED BY <1>13, <1>14, <1>15 DEF next, judged, m

LEMMA UpdatesAreLegal ==
  ASSUME Repeats \in Nat, NEW rule, RuleRow(rule), NEW c, c.job \in Jobs, c.count \in Nat, Successor(rule, c)
  PROVE  /\ RuleRow(c.next) /\ Later(rule, c.next)
         /\ c.next.count = IF c.job = "failure" /\ c.rule = c.print /\ c.count > rule.count THEN c.count ELSE rule.count
         /\ c.next.metrics = Guard!Added(rule.metrics, c.job, c.rule, c)
<1>1. CASE c.job = "failure"
  <2> DEFINE exact == c.rule = c.print
             next == [Guard!EvaluatedRule(rule, exact, c.count) EXCEPT !.revision = @ + 1]
  <2>1. /\ exact \in BOOLEAN /\ c.next = next
    BY <1>1 DEF Successor
  <2>2. /\ RuleRow(next) /\ Later(rule, next) /\ next.state = rule.state
        /\ next.count = IF exact /\ c.count > rule.count THEN c.count ELSE rule.count
        /\ next.metrics = IF ~Guard!Observing(rule) THEN rule.metrics
                          ELSE IF exact THEN [rule.metrics EXCEPT !.hits = @ + 1]
                          ELSE [rule.metrics EXCEPT !.misses = @ + 1]
    <3> HIDE DEF exact
    <3> QED BY <2>1, FailuresAreEvaluated
  <2> HIDE DEF next
  <2>3. Guard!Observing(c.next) <=> Guard!Observing(rule)
    BY <2>1, <2>2 DEF Guard!Observing
  <2>4. c.next.metrics = Guard!Added(rule.metrics, c.job, c.rule, c)
    BY <2>1, <2>2, <2>3, <1>1 DEF Guard!Added
  <2> QED BY <2>1, <2>2, <2>4, <1>1
<1>2. CASE c.job # "failure"
  <2>1. /\ c.job \in Guard!Decisions /\ Guard!Allowed(rule, c.job)
        /\ c.next = [Guard!DecidedRule(rule, c.job) EXCEPT !.revision = @ + 1]
    BY <1>2 DEF Successor, Jobs
  <2>2. /\ RuleRow(c.next) /\ Later(rule, c.next) /\ c.next.count = rule.count
        /\ c.next.metrics = CASE c.job = "positive" -> [rule.metrics EXCEPT !.positive = @ + 1]
                             [] c.job = "false_positive" -> [rule.metrics EXCEPT !.false = @ + 1]
                             [] OTHER -> rule.metrics
    BY <2>1, DecisionsAreLegal
  <2> QED BY <2>2, <1>2 DEF Guard!Added
<1> QED BY <1>1, <1>2

LEMMA RulesStand == ASSUME store'.rules = store.rules PROVE Guard!ActivationIsEarned
BY DEF Guard!ActivationIsEarned

LEMMA RuleOccur ==
  ASSUME GuardConstants, RuleInv, NEW p \in Processes, NEW f \in Prints, Guard!Occur(p, f)
  PROVE  RuleInv' /\ Guard!ActivationIsEarned
<1> DEFINE d == [at |-> "count", print |-> f, evidence |-> budget.failures + 1]
<1>1. /\ UNCHANGED <<store, history>> /\ calls' = [calls EXCEPT ![p] = d]
      /\ budget' = [budget EXCEPT !.failures = @ + 1] /\ budget.failures < MaxFailures
  BY DEF Guard!Occur, Guard!To
<1>2. budget.failures \in Nat /\ budget.failures + 1 \in 0..MaxFailures
  BY <1>1 DEF RuleInv, GuardConstants
<1>3. budget' = [failures |-> budget'.failures, decisions |-> budget'.decisions] /\ budget'.failures = budget.failures + 1
  BY <1>1 DEF RuleInv
<1>4. Shaped(store, history, budget')
  BY <1>2, <1>3, RulesRest DEF Shaped
<1>5. GuardCall(d, store)
  BY <1>2 DEF GuardCall
<1> QED BY <1>1, <1>4, <1>5, ReaderFrame, RulesStand

LEMMA RuleDecide ==
  ASSUME GuardConstants, RuleInv, NEW p \in Processes, NEW f \in Prints, NEW decision \in Guard!Decisions,
         Guard!Decide(p, f, decision)
  PROVE  RuleInv' /\ Guard!ActivationIsEarned
<1> DEFINE d == [at |-> "rules", job |-> decision, print |-> f, count |-> 0, tries |-> Retries, todo |-> {f}]
<1>1. /\ UNCHANGED <<store, history>> /\ calls' = [calls EXCEPT ![p] = d] /\ store.rules[f] # None
      /\ budget' = [budget EXCEPT !.decisions = @ + 1]
  BY DEF Guard!Decide, Guard!To
<1>2. /\ budget' = [failures |-> budget'.failures, decisions |-> budget'.decisions] /\ budget'.failures = budget.failures
  BY <1>1 DEF RuleInv
<1>3. Shaped(store, history, budget')
  BY <1>2, RulesRest DEF Shaped
<1>4. decision # "failure"
  BY DEF Guard!Decisions
<1>5. GuardCall(d, store)
  BY <1>1, <1>4 DEF GuardCall, Listed, Jobs
<1> QED BY <1>1, <1>3, <1>5, ReaderFrame, RulesStand

LEMMA RuleCountFailure ==
  ASSUME GuardConstants, RuleInv, NEW p \in Processes, Guard!CountFailure(p)
  PROVE  RuleInv' /\ Guard!ActivationIsEarned
<1> DEFINE c == calls[p]
           f == c.print
           old == store.prints[f]
           row == [count |-> old.count + 1, refs |-> IF old.count = 0 THEN <<c.evidence>> ELSE old.refs]
           d == [at |-> "evidence", print |-> f, evidence |-> c.evidence, tries |-> Retries]
<1>1. /\ UNCHANGED <<history, budget>> /\ calls' = [calls EXCEPT ![p] = d] /\ c.at = "count"
      /\ store' = [store EXCEPT !.prints[f] = row]
  BY DEF Guard!CountFailure, Guard!To
<1>2. f \in Prints /\ c.evidence \in Nat
  BY <1>1 DEF RuleInv, GuardCall, Guard!Idle
<1>3. PrintRow(old) /\ old.count \in Nat /\ old.refs \in Seq(Nat)
  BY <1>2 DEF RuleInv, PrintRow
<1>4. row.count = old.count + 1 /\ PrintRow(row)
  BY <1>2, <1>3 DEF PrintRow
<1> HIDE DEF row
<1>5. /\ store' = [prints |-> store'.prints, rules |-> store'.rules] /\ store'.rules = store.rules
      /\ store'.prints = [g \in Prints |-> store'.prints[g]] /\ store'.prints[f] = row
      /\ \A g \in Prints : g # f => store'.prints[g] = store.prints[g]
  BY <1>1, <1>2, OnePrint
<1>6. /\ Shaped(store, history, budget) /\ RulesGrow(store, store)
  BY RulesRest
<1>7. \A g \in Prints : store'.prints[g].count \in Nat /\ store.prints[g].count \in Nat /\ store'.prints[g].count >= store.prints[g].count
  <2>1. \A g \in Prints : store.prints[g].count \in Nat
    BY RuleTypes DEF RowsAreTyped
  <2> QED BY <2>1, <1>3, <1>4, <1>5
<1>8. RulesGrow(store, store')
  BY <1>5, <1>6, <1>7 DEF RulesGrow
<1>9. \A g \in Prints : RuleKnown(g, store', history)
  BY <1>5, <1>6, <1>7 DEF Shaped, RuleKnown, RuleRow, RuleSet
<1>10. Shaped(store', history', budget')
  BY <1>1, <1>4, <1>5, <1>6, <1>9 DEF Shaped
<1>11. GuardCall(d, store')
  BY <1>2 DEF GuardCall
<1> QED BY <1>1, <1>5, <1>8, <1>10, <1>11, RuleFrame, RulesStand

LEMMA RuleReadPrint ==
  ASSUME GuardConstants, RuleInv, NEW p \in Processes, Guard!ReadPrint(p)
  PROVE  RuleInv' /\ Guard!ActivationIsEarned
<1> DEFINE c == calls[p]
           d == [at |-> "merge", print |-> c.print, evidence |-> c.evidence, tries |-> c.tries, read |-> store.prints[c.print]]
<1>1. /\ UNCHANGED <<store, history, budget>> /\ calls' = [calls EXCEPT ![p] = d] /\ c.at = "evidence"
  BY DEF Guard!ReadPrint, Guard!To, Guard!Rest
<1>2. c.print \in Prints /\ c.evidence \in Nat
  BY <1>1 DEF RuleInv, GuardCall, Guard!Idle
<1>3. GuardCall(d, store)
  BY <1>2 DEF GuardCall
<1> QED BY <1>1, <1>3, RulesRest, ReaderFrame, RulesStand

LEMMA MergedIsTyped ==
  ASSUME MaxRefs \in Nat \ {0}, NEW refs \in Seq(Nat), NEW n \in Nat
  PROVE  Guard!Merged(refs, n) \in Seq(Nat)
<1> DEFINE all == IF n \in Guard!Range(refs) THEN refs ELSE Append(refs, n)
<1>1. all \in Seq(Nat)
  OBVIOUS
<1>2. Guard!Merged(refs, n) = IF Len(all) > MaxRefs THEN Tail(all) ELSE all
  BY DEF Guard!Merged
<1> HIDE DEF all
<1>3. Len(all) > MaxRefs => all # <<>>
  BY <1>1
<1> QED BY <1>1, <1>2, <1>3

LEMMA RuleMergeEvidence ==
  ASSUME GuardConstants, RuleInv, NEW p \in Processes, Guard!MergeEvidence(p)
  PROVE  RuleInv' /\ Guard!ActivationIsEarned
<1> DEFINE c == calls[p]
           f == c.print
           old == store.prints[f]
           refs == Guard!Merged(old.refs, c.evidence)
           done == [at |-> "create", print |-> f, count |-> c.read.count]
           again == [at |-> "evidence", print |-> f, evidence |-> c.evidence, tries |-> c.tries - 1]
<1>1. /\ c.at = "merge" /\ f \in Prints /\ c.evidence \in Nat
  BY DEF RuleInv, GuardCall, Guard!Idle, Guard!MergeEvidence
<1>2. \/ /\ old = c.read /\ store' = [store EXCEPT !.prints[f].refs = refs]
         /\ calls' = [calls EXCEPT ![p] = done] /\ UNCHANGED <<history, budget>>
      \/ Guard!Fail(p)
      \/ calls' = [calls EXCEPT ![p] = again] /\ UNCHANGED <<store, history, budget>>
  BY DEF Guard!MergeEvidence, Guard!To, Guard!Rest
<1>3. CASE Guard!Fail(p)
  BY <1>3, FailFrame, RulesStand DEF Guard!Fail, Guard!To
<1>4. CASE calls' = [calls EXCEPT ![p] = again] /\ UNCHANGED <<store, history, budget>>
  <2>1. GuardCall(again, store)
    BY <1>1 DEF GuardCall
  <2> QED BY <1>4, <2>1, RulesRest, ReaderFrame, RulesStand
<1>5. CASE /\ old = c.read /\ store' = [store EXCEPT !.prints[f].refs = refs]
           /\ calls' = [calls EXCEPT ![p] = done] /\ UNCHANGED <<history, budget>>
  <2> DEFINE row == [old EXCEPT !.refs = refs]
  <2>1. PrintRow(old) /\ old.count \in Nat /\ old.refs \in Seq(Nat)
    BY <1>1 DEF RuleInv, PrintRow
  <2>2. refs \in Seq(Nat)
    BY <1>1, <2>1, MergedIsTyped DEF GuardConstants
  <2>3. store' = [store EXCEPT !.prints[f] = row]
    BY <1>5, <1>1 DEF RuleInv
  <2> HIDE DEF refs
  <2>4. row.count = old.count /\ PrintRow(row)
    BY <2>1, <2>2 DEF PrintRow
  <2> HIDE DEF row
  <2>5. /\ store' = [prints |-> store'.prints, rules |-> store'.rules] /\ store'.rules = store.rules
        /\ store'.prints = [g \in Prints |-> store'.prints[g]] /\ store'.prints[f] = row
        /\ \A g \in Prints : g # f => store'.prints[g] = store.prints[g]
    BY <1>1, <2>3, OnePrint
  <2>6. /\ Shaped(store, history, budget) /\ RulesGrow(store, store)
    BY RulesRest
  <2>7. \A g \in Prints : store'.prints[g].count = store.prints[g].count
    BY <2>4, <2>5
  <2>8. RulesGrow(store, store')
    BY <2>5, <2>6, <2>7 DEF RulesGrow
  <2>9. \A g \in Prints : RuleKnown(g, store', history)
    BY <2>5, <2>6, <2>7 DEF Shaped, RuleKnown
  <2>10. Shaped(store', history', budget')
    BY <1>5, <2>4, <2>5, <2>6, <2>9 DEF Shaped
  <2>11. done.count = old.count /\ done.count <= store'.prints[f].count
    BY <1>5, <1>1, <2>1, <2>7
  <2>12. GuardCall(done, store')
    BY <1>1, <2>1, <2>11 DEF GuardCall
  <2> QED BY <1>5, <2>5, <2>8, <2>10, <2>12, RuleFrame, RulesStand
<1> QED BY <1>2, <1>3, <1>4, <1>5

LEMMA RuleCreate ==
  ASSUME GuardConstants, RuleInv, NEW p \in Processes, Guard!CreateRule(p)
  PROVE  RuleInv' /\ Guard!ActivationIsEarned
<1> DEFINE c == calls[p]
           f == c.print
           new == Guard!NewRule(c.count)
           d == [c EXCEPT !.at = "list"]
           go == [at |-> "list", print |-> f, count |-> c.count]
<1>1. /\ UNCHANGED <<history, budget>> /\ calls' = [calls EXCEPT ![p] = d]
      /\ c.at = "create" /\ c = [at |-> "create", print |-> f, count |-> c.count]
      /\ f \in Prints /\ c.count \in Nat /\ c.count <= store.prints[f].count
  BY DEF RuleInv, GuardCall, Guard!Idle, Guard!CreateRule, Guard!To
<1>2. d = go
  BY <1>1
<1>3. \/ UNCHANGED store
      \/ c.count >= Repeats /\ store.rules[f] = None /\ store' = [store EXCEPT !.rules[f] = new]
  BY DEF Guard!CreateRule
<1> HIDE DEF d
<1>4. CASE UNCHANGED store
  <2>1. GuardCall(go, store)
    BY <1>1 DEF GuardCall
  <2> QED BY <1>1, <1>2, <1>4, <2>1, RulesRest, ReaderFrame, RulesStand
<1>5. CASE c.count >= Repeats /\ store.rules[f] = None /\ store' = [store EXCEPT !.rules[f] = new]
  <2>1. new \in RuleSet
    BY <1>1 DEF Guard!NewRule, Guard!NoMetrics, RuleSet, MetricSet
  <2>2. new.count = c.count /\ new.revision = 1 /\ new.metrics = Guard!NoMetrics
    BY DEF Guard!NewRule
  <2>3. RuleRow(new)
    BY <1>5, <2>1, <2>2 DEF RuleRow, Guard!NoMetrics
  <2>4. new # None
    BY <2>1 DEF GuardConstants
  <2> HIDE DEF new
  <2>5. /\ store' = [prints |-> store'.prints, rules |-> store'.rules] /\ store'.prints = store.prints
        /\ store'.rules = [g \in Prints |-> store'.rules[g]] /\ store'.rules[f] = new
        /\ \A g \in Prints : g # f => store'.rules[g] = store.rules[g]
    BY <1>1, <1>5, OneRule
  <2>6. /\ Shaped(store, history, budget) /\ RulesGrow(store, store)
    BY RulesRest
  <2>7. RulesGrow(store, store')
    BY <2>5, <2>6, <1>5 DEF RulesGrow
  <2>8. RuleKnown(f, store', history)
    BY <2>2, <2>3, <2>4, <2>5, <2>6, <1>1, <1>5 DEF Shaped, RuleKnown
  <2>9. \A g \in Prints : RuleKnown(g, store', history)
    BY <2>5, <2>6, <2>8 DEF Shaped, RuleKnown
  <2>10. Shaped(store', history', budget')
    BY <1>1, <2>5, <2>6, <2>9 DEF Shaped
  <2>11. GuardCall(go, store')
    BY <1>1, <2>5 DEF GuardCall
  <2>12. Guard!ActivationIsEarned
    BY <2>5, <1>5 DEF Guard!ActivationIsEarned
  <2> QED BY <1>1, <1>2, <2>7, <2>10, <2>11, <2>12, RuleFrame
<1> QED BY <1>3, <1>4, <1>5

LEMMA RuleList ==
  ASSUME GuardConstants, RuleInv, NEW p \in Processes, Guard!ListRules(p)
  PROVE  RuleInv' /\ Guard!ActivationIsEarned
<1> DEFINE c == calls[p]
           todo == {f \in Prints : store.rules[f] # None /\ Scope[f] = Scope[c.print]}
           d == [at |-> "rules", job |-> "failure", print |-> c.print, count |-> c.count, tries |-> Retries, todo |-> todo]
<1>1. /\ UNCHANGED <<store, history, budget>> /\ calls' = [calls EXCEPT ![p] = d]
      /\ c.print \in Prints /\ c.count \in Nat /\ c.count <= store.prints[c.print].count
  BY DEF RuleInv, GuardCall, Guard!Idle, Guard!ListRules, Guard!To, Guard!Rest
<1>2. todo \subseteq Prints /\ \A f \in todo : store.rules[f] # None
  OBVIOUS
<1> HIDE DEF todo
<1>3. GuardCall(d, store)
  BY <1>1, <1>2 DEF GuardCall, Listed, Jobs
<1> QED BY <1>1, <1>3, RulesRest, ReaderFrame, RulesStand

\* A handler that is done with one rule goes on with the others that it has listed.
LEMMA DoneIsKnown ==
  ASSUME NEW c, NEW rows, c.at = "rules", Listed(c, rows), NEW f,
         c = [at |-> "rules", job |-> c.job, print |-> c.print, count |-> c.count, tries |-> c.tries, todo |-> c.todo]
  PROVE  /\ GuardCall(Guard!Done(c, f), rows)
         /\ c.todo # {f} => LET d == Guard!Done(c, f) IN
              /\ d.at = "rules" /\ d.todo = c.todo \ {f} /\ d.job = c.job /\ d.print = c.print /\ d.count = c.count
<1>1. CASE c.todo = {f}
  BY <1>1, IdleIsKnown DEF Guard!Done
<1>2. CASE c.todo # {f}
  <2> DEFINE d == [c EXCEPT !.todo = @ \ {f}, !.tries = Retries]
  <2>1. d = [at |-> "rules", job |-> c.job, print |-> c.print, count |-> c.count, tries |-> Retries, todo |-> c.todo \ {f}]
    <3> DEFINE first == [c EXCEPT !.todo = @ \ {f}]
    <3>1. first = [at |-> "rules", job |-> c.job, print |-> c.print, count |-> c.count, tries |-> c.tries, todo |-> c.todo \ {f}]
      OBVIOUS
    <3>2. d = [first EXCEPT !.tries = Retries]
      OBVIOUS
    <3> HIDE DEF first
    <3> QED BY <3>1, <3>2
  <2>2. Guard!Done(c, f) = d
    BY <1>2 DEF Guard!Done
  <2> HIDE DEF d
  <2>3. GuardCall(d, rows)
    BY <2>1 DEF GuardCall, Listed
  <2> QED BY <2>1, <2>2, <2>3
<1> QED BY <1>1, <1>2

LEMMA RuleRead ==
  ASSUME GuardConstants, RuleInv, NEW p \in Processes, NEW f \in Prints, Guard!ReadRule(p, f)
  PROVE  RuleInv' /\ Guard!ActivationIsEarned
<1> DEFINE c == calls[p]
           rule == store.rules[f]
           made == IF c.job = "failure" THEN Guard!EvaluatedRule(rule, f = c.print, c.count) ELSE Guard!DecidedRule(rule, c.job)
           next == [made EXCEPT !.revision = @ + 1]
           d == [at |-> "update", job |-> c.job, print |-> c.print, count |-> c.count, tries |-> c.tries, todo |-> c.todo,
                 rule |-> f, read |-> rule.revision, next |-> next]
<1>1. /\ UNCHANGED <<store, history, budget>> /\ c.at = "rules" /\ f \in c.todo
  BY DEF Guard!ReadRule, Guard!Rest
<1>2. /\ Listed(c, store)
      /\ c = [at |-> "rules", job |-> c.job, print |-> c.print, count |-> c.count, tries |-> c.tries, todo |-> c.todo]
  BY <1>1 DEF RuleInv, GuardCall, Guard!Idle
<1>3. \/ calls' = [calls EXCEPT ![p] = Guard!Idle]
      \/ calls' = [calls EXCEPT ![p] = Guard!Done(c, f)]
      \/ calls' = [calls EXCEPT ![p] = d] /\ (c.job # "failure" => Guard!Allowed(rule, c.job))
  BY DEF Guard!ReadRule, Guard!To
<1>4. rule # None /\ rule.revision \in Nat
  BY <1>1, <1>2, RuleTypes DEF Listed, RowsAreTyped
<1>5. CASE calls' = [calls EXCEPT ![p] = Guard!Idle]
  BY <1>1, <1>5, IdleIsKnown, RulesRest, ReaderFrame, RulesStand
<1>6. CASE calls' = [calls EXCEPT ![p] = Guard!Done(c, f)]
  BY <1>1, <1>2, <1>6, DoneIsKnown, RulesRest, ReaderFrame, RulesStand
<1>7. CASE calls' = [calls EXCEPT ![p] = d] /\ (c.job # "failure" => Guard!Allowed(rule, c.job))
  <2>1. d.job = c.job /\ d.print = c.print /\ d.count = c.count /\ d.rule = f /\ d.todo = c.todo /\ d.read = rule.revision
        /\ d.at = "update" /\ d.tries = c.tries /\ d.next = next
    OBVIOUS
  <2>2. d = [at |-> "update", job |-> d.job, print |-> d.print, count |-> d.count, tries |-> d.tries, todo |-> d.todo,
             rule |-> d.rule, read |-> d.read, next |-> d.next]
    OBVIOUS
  <2>3. next = [(IF c.job = "failure" THEN Guard!EvaluatedRule(rule, f = c.print, c.count)
                 ELSE Guard!DecidedRule(rule, c.job)) EXCEPT !.revision = @ + 1]
    OBVIOUS
  <2> HIDE DEF d, next
  <2>4. Successor(rule, d)
    BY <1>7, <2>1, <2>3 DEF Successor
  <2>5. Listed(d, store)
    BY <1>2, <2>1 DEF Listed
  <2>6. GuardCall(d, store)
    BY <1>1, <1>4, <2>1, <2>2, <2>4, <2>5 DEF GuardCall
  <2> QED BY <1>1, <1>7, <2>6, RulesRest, ReaderFrame, RulesStand
<1> QED BY <1>3, <1>5, <1>6, <1>7

\* The rule and what is remembered of it change together.
LEMMA RuleUpdate ==
  ASSUME GuardConstants, RuleInv, NEW p \in Processes, Guard!UpdateRule(p)
  PROVE  RuleInv' /\ Guard!ActivationIsEarned
<1> DEFINE c == calls[p]
           f == c.rule
           rule == store.rules[f]
           again == [at |-> "rules", job |-> c.job, print |-> c.print, count |-> c.count, tries |-> c.tries, todo |-> c.todo]
           retry == [again EXCEPT !.tries = @ - 1]
<1>1. c.at = "update" /\ GuardCall(c, store)
  BY DEF Guard!UpdateRule, RuleInv
<1>2. /\ Listed(c, store) /\ f \in c.todo /\ f \in Prints /\ c.count \in Nat /\ c.job \in Jobs
      /\ c.read = rule.revision => Successor(rule, c)
      /\ c.print \in Prints /\ (c.job = "failure" => c.count <= store.prints[c.print].count)
  BY <1>1 DEF GuardCall, Guard!Idle, Listed
<1>3. \/ /\ rule.revision = c.read /\ store' = [store EXCEPT !.rules[f] = c.next]
         /\ calls' = [calls EXCEPT ![p] = Guard!Done(again, f)] /\ UNCHANGED budget
         /\ history' = [history EXCEPT !.updates[f] = @ + 1, !.metrics[f] = Guard!Added(@, c.job, f, c)]
      \/ Guard!Fail(p)
      \/ calls' = [calls EXCEPT ![p] = retry] /\ UNCHANGED <<store, history, budget>>
  BY DEF Guard!UpdateRule, Guard!RevisionIs, Guard!To, Guard!Rest
<1>4. /\ again.at = "rules" /\ again.job = c.job /\ again.print = c.print /\ again.count = c.count /\ again.todo = c.todo
      /\ again = [at |-> "rules", job |-> again.job, print |-> again.print, count |-> again.count, tries |-> again.tries, todo |-> again.todo]
  OBVIOUS
<1>5. \A rows : Listed(c, rows) => Listed(again, rows)
  BY DEF Listed
<1>6. CASE Guard!Fail(p)
  BY <1>6, FailFrame, RulesStand DEF Guard!Fail, Guard!To
<1>7. CASE calls' = [calls EXCEPT ![p] = retry] /\ UNCHANGED <<store, history, budget>>
  <2>1. retry = [at |-> "rules", job |-> c.job, print |-> c.print, count |-> c.count, tries |-> c.tries - 1, todo |-> c.todo]
    OBVIOUS
  <2>2. GuardCall(retry, store)
    <3> HIDE DEF retry
    <3> QED BY <1>2, <2>1 DEF GuardCall, Listed
  <2> QED BY <1>7, <2>2, RulesRest, ReaderFrame, RulesStand
<1>8. CASE /\ rule.revision = c.read /\ store' = [store EXCEPT !.rules[f] = c.next]
           /\ calls' = [calls EXCEPT ![p] = Guard!Done(again, f)] /\ UNCHANGED budget
           /\ history' = [history EXCEPT !.updates[f] = @ + 1, !.metrics[f] = Guard!Added(@, c.job, f, c)]
  <2> HIDE DEF again
  <2> DEFINE n == history.updates[f] + 1
             m == Guard!Added(history.metrics[f], c.job, f, c)
  <2>1. rule # None /\ RuleRow(rule) /\ rule.revision = history.updates[f] /\ rule.metrics = history.metrics[f]
        /\ rule.count <= store.prints[f].count
    BY <1>2 DEF Listed, RuleInv, RuleKnown
  <2>2. /\ RuleRow(c.next) /\ Later(rule, c.next)
        /\ c.next.count = IF c.job = "failure" /\ c.rule = c.print /\ c.count > rule.count THEN c.count ELSE rule.count
        /\ c.next.metrics = Guard!Added(rule.metrics, c.job, c.rule, c)
    BY <1>2, <1>8, <2>1, UpdatesAreLegal DEF GuardConstants
  <2>3. c.next # None /\ c.next.revision = n /\ c.next.metrics = m /\ c.next.count <= store.prints[f].count
    BY <1>2, <2>1, <2>2 DEF RuleRow, GuardConstants, Later
  <2>4. /\ history' = [updates |-> history'.updates, metrics |-> history'.metrics, failed |-> history'.failed]
        /\ history'.updates = [history.updates EXCEPT ![f] = n] /\ history'.metrics = [history.metrics EXCEPT ![f] = m]
        /\ history'.failed = history.failed
    <3> DEFINE first == [history EXCEPT !.updates[f] = @ + 1]
    <3>1. /\ first = [updates |-> [history.updates EXCEPT ![f] = n], metrics |-> history.metrics, failed |-> history.failed]
      BY DEF RuleInv
    <3>2. history' = [first EXCEPT !.metrics[f] = Guard!Added(@, c.job, f, c)]
      BY <1>8
    <3> HIDE DEF first
    <3>3. history' = [updates |-> [history.updates EXCEPT ![f] = n], metrics |-> [history.metrics EXCEPT ![f] = m], failed |-> history.failed]
      BY <3>1, <3>2
    <3> QED BY <3>3
  <2> HIDE DEF n, m
  <2>5. /\ history'.updates = [g \in Prints |-> history'.updates[g]] /\ history'.updates[f] = n
        /\ \A g \in Prints : g # f => history'.updates[g] = history.updates[g]
    BY <1>2, <2>4 DEF RuleInv
  <2>6. /\ history'.metrics = [g \in Prints |-> history'.metrics[g]] /\ history'.metrics[f] = m
        /\ \A g \in Prints : g # f => history'.metrics[g] = history.metrics[g]
    BY <1>2, <2>4 DEF RuleInv
  <2>7. /\ store' = [prints |-> store'.prints, rules |-> store'.rules] /\ store'.prints = store.prints
        /\ store'.rules = [g \in Prints |-> store'.rules[g]] /\ store'.rules[f] = c.next
        /\ \A g \in Prints : g # f => store'.rules[g] = store.rules[g]
    BY <1>2, <1>8, OneRule
  <2>8. /\ Shaped(store, history, budget) /\ RulesGrow(store, store)
    BY RulesRest
  <2>9. RulesGrow(store, store')
    <3>1. c.next.revision = rule.revision + 1 /\ rule.revision \in Nat
      BY <2>1, <2>2 DEF Later, RuleRow, RuleSet
    <3> QED BY <3>1, <2>3, <2>7, <2>8 DEF RulesGrow
  <2>10. RuleKnown(f, store', history')
    BY <2>2, <2>3, <2>5, <2>6, <2>7 DEF RuleKnown
  <2>11. \A g \in Prints : RuleKnown(g, store', history')
    BY <2>5, <2>6, <2>7, <2>8, <2>10 DEF Shaped, RuleKnown
  <2>12. Shaped(store', history', budget')
    BY <1>8, <2>4, <2>5, <2>6, <2>7, <2>8, <2>11 DEF Shaped
  <2>13. Listed(again, store')
    <3>1. Listed(c, store')
      BY <1>2, <2>3, <2>7 DEF Listed
    <3> QED BY <3>1, <1>5
  <2>14. GuardCall(Guard!Done(again, f), store')
    BY <1>4, <2>13, DoneIsKnown
  <2>15. Guard!ActivationIsEarned
    BY <2>2, <2>7 DEF Guard!ActivationIsEarned, Later
  <2> QED BY <1>8, <2>9, <2>12, <2>14, <2>15, RuleFrame
<1> QED BY <1>3, <1>6, <1>7, <1>8

LEMMA RuleStep ==
  ASSUME GuardConstants, RuleInv, Guard!SafeguardNext
  PROVE  RuleInv' /\ Guard!ActivationIsEarned
<1>1. PICK p \in Processes : Guard!SafeguardStep(p) \/ Guard!SafeguardRequest(p)
  BY DEF Guard!SafeguardNext
<1>2. CASE Guard!NoRules(p)
  BY <1>2, IdleIsKnown, RulesRest, ReaderFrame, RulesStand DEF Guard!NoRules, Guard!To, Guard!Rest
<1>3. CASE Guard!Die(p)
  BY <1>3, FailFrame, RulesStand DEF Guard!Die, Guard!To
<1>4. CASE \E f \in Prints : Guard!ReadRule(p, f)
  BY <1>4, RuleRead
<1>5. CASE Guard!SafeguardRequest(p)
  BY <1>5, RuleOccur, RuleDecide DEF Guard!SafeguardRequest
<1> QED BY <1>1, <1>2, <1>3, <1>4, <1>5, RuleCountFailure, RuleReadPrint, RuleMergeEvidence, RuleCreate, RuleList, RuleUpdate
        DEF Guard!SafeguardStep

-----------------------------------------------------------------------------
(* The evidence of failures: nothing is counted twice or lost on the way to  *)
(* the row, except when a handler fails.                                     *)

\* The numbers of one print: those who have not counted, those with a reference to add.
Balanced(count, kept, uncounted, pending, failures, failed) ==
  /\ count + uncounted <= failures
  /\ kept <= MaxRefs
  /\ kept = MaxRefs => count >= MaxRefs
  /\ kept < MaxRefs =>
       /\ kept + pending <= count
       /\ ~failed => kept + pending = count
Refs(f) == Guard!Range(store.prints[f].refs)
Apart(cs, failures) ==
  /\ \A p \in Processes : cs[p].at \in Carrying => cs[p].evidence <= failures
  /\ \A p, q \in Processes : cs[p].at \in Carrying /\ cs[q].at \in Carrying /\ p # q => cs[p].evidence # cs[q].evidence
Fresh(cs, refs, failures) ==
  \A n \in Nat : n \in refs => n <= failures /\ \A p \in Processes : cs[p].at = "count" => cs[p].evidence # n
LEMMA EvidenceParts ==
  EvidenceInv <=>
    /\ Apart(calls, budget.failures) /\ \A f \in Prints : Fresh(calls, Refs(f), budget.failures)
    /\ \A f \in Prints : Balanced(store.prints[f].count, Len(store.prints[f].refs), Cardinality(Uncounted(calls, f)), Cardinality(Pending(calls, store.prints, f)),
                                  budget.failures, history.failed)
BY DEF EvidenceInv, Apart, Fresh, Refs, Balanced

LEMMA PrintTypes ==
  ASSUME GuardConstants, RuleInv, NEW f \in Prints
  PROVE  /\ store.prints[f].count \in Nat /\ store.prints[f].refs \in Seq(Nat) /\ Len(store.prints[f].refs) \in Nat
         /\ budget.failures \in Nat
<1>1. PrintRow(store.prints[f]) /\ budget.failures \in 0..MaxFailures
  BY DEF RuleInv
<1>2. budget.failures \in Nat
  BY <1>1 DEF GuardConstants
<1>3. store.prints[f].count \in Nat /\ store.prints[f].refs \in Seq(Nat)
  BY <1>1 DEF PrintRow
<1> QED BY <1>2, <1>3

LEMMA FiniteHandlers ==
  ASSUME GuardConstants, NEW cs, NEW prints, NEW f
  PROVE  /\ IsFiniteSet(Uncounted(cs, f)) /\ Cardinality(Uncounted(cs, f)) \in Nat
         /\ IsFiniteSet(Pending(cs, prints, f)) /\ Cardinality(Pending(cs, prints, f)) \in Nat
<1>1. Uncounted(cs, f) \subseteq Processes /\ Pending(cs, prints, f) \subseteq Processes
  BY DEF Uncounted, Pending
<1> QED BY <1>1, FS_Subset, FS_CardinalityType DEF GuardConstants

\* A handler that has nothing to count and nothing to merge when it is done, and had
\* nothing before or fails.
LEMMA EvidenceRests ==
  ASSUME GuardConstants, RuleInv, EvidenceInv, store'.prints = store.prints, budget'.failures = budget.failures,
         NEW p \in Processes, NEW d, calls' = [calls EXCEPT ![p] = d], d.at \notin Carrying,
         history'.failed \/ (calls[p].at \notin Carrying /\ history'.failed = history.failed)
  PROVE  EvidenceInv'
<1>1. /\ Apart(calls, budget.failures) /\ \A f \in Prints : Fresh(calls, Refs(f), budget.failures)
      /\ \A f \in Prints : Balanced(store.prints[f].count, Len(store.prints[f].refs), Cardinality(Uncounted(calls, f)), Cardinality(Pending(calls, store.prints, f)),
                                    budget.failures, history.failed)
  BY EvidenceParts
<1>2. calls'[p] = d /\ \A q \in Processes : q # p => calls'[q] = calls[q]
  BY DEF RuleInv
<1>3. Apart(calls', budget'.failures)
  BY <1>1, <1>2 DEF Apart
<1>4. \A f \in Prints : Fresh(calls', Refs(f)', budget'.failures)
  BY <1>1, <1>2 DEF Fresh, Refs, Carrying
<1>5. ASSUME NEW f \in Prints
      PROVE  Balanced(store'.prints[f].count, Len(store'.prints[f].refs), Cardinality(Uncounted(calls', f)), Cardinality(Pending(calls', store'.prints, f)),
                      budget'.failures, history'.failed)
  <2> DEFINE c == Cardinality(Uncounted(calls, f))
             n == Cardinality(Pending(calls, store.prints, f))
             c1 == Cardinality(Uncounted(calls', f))
             n1 == Cardinality(Pending(calls', store.prints, f))
  <2>1. Uncounted(calls', f) \subseteq Uncounted(calls, f) /\ Pending(calls', store.prints, f) \subseteq Pending(calls, store.prints, f)
    BY <1>2 DEF Uncounted, Pending, Carrying
  <2>2. calls[p].at \notin Carrying => Pending(calls', store.prints, f) = Pending(calls, store.prints, f)
    BY <1>2 DEF Pending, Carrying
  <2>3. c \in Nat /\ c1 \in Nat /\ n \in Nat /\ n1 \in Nat
    BY FiniteHandlers
  <2>4. c1 <= c /\ n1 <= n /\ (calls[p].at \notin Carrying => n1 = n)
    BY <2>1, <2>2, FiniteHandlers, FS_Subset
  <2>5. Balanced(store.prints[f].count, Len(store.prints[f].refs), c, n, budget.failures, history.failed)
    BY <1>1
  <2>6. store.prints[f].count \in Nat /\ Len(store.prints[f].refs) \in Nat /\ budget.failures \in Nat
    BY PrintTypes
  <2> HIDE DEF c, n, c1, n1
  <2>7. Balanced(store.prints[f].count, Len(store.prints[f].refs), c1, n1, budget.failures, history'.failed)
    <3> DEFINE l == Len(store.prints[f].refs)
               k == store.prints[f].count
    <3>1. CASE history'.failed
      <4>1. k + c1 <= budget.failures /\ (l < MaxRefs => l + n1 <= k) /\ l <= MaxRefs /\ (l = MaxRefs => k >= MaxRefs)
        <5>1. k + c <= budget.failures /\ (l < MaxRefs => l + n <= k) /\ l <= MaxRefs /\ (l = MaxRefs => k >= MaxRefs)
          BY <2>5 DEF Balanced
        <5>2. k \in Nat /\ l \in Nat
          BY <2>6
        <5> HIDE DEF k, l
        <5> QED BY <5>1, <5>2, <2>3, <2>4, <2>6 DEF GuardConstants
      <4> HIDE DEF k, l
      <4>2. Balanced(k, l, c1, n1, budget.failures, history'.failed)
        BY <3>1, <4>1 DEF Balanced
      <4> QED BY <4>2 DEF k, l
    <3>2. CASE calls[p].at \notin Carrying /\ history'.failed = history.failed
      BY <3>2, <2>3, <2>4, <2>5, <2>6 DEF Balanced, GuardConstants
    <3> QED BY <3>1, <3>2
  <2> QED BY <2>7 DEF c1, n1
<1>6. EvidenceInv'
  BY <1>3, <1>4, <1>5 DEF EvidenceInv, Apart, Fresh, Refs, Balanced
<1> QED BY <1>6

LEMMA EvidenceOccurs ==
  ASSUME GuardConstants, RuleInv, EvidenceInv, NEW p \in Processes, NEW f \in Prints, Guard!Occur(p, f)
  PROVE  EvidenceInv'
<1> DEFINE e == budget.failures + 1
           d == [at |-> "count", print |-> f, evidence |-> e]
<1>1. /\ UNCHANGED <<store, history>> /\ calls[p] = Guard!Idle /\ calls' = [calls EXCEPT ![p] = d]
      /\ budget' = [budget EXCEPT !.failures = @ + 1]
  BY DEF Guard!Occur, Guard!To
<1>2. budget.failures \in Nat /\ budget'.failures = e
  BY <1>1 DEF RuleInv, GuardConstants
<1>3. calls'[p] = d /\ \A q \in Processes : q # p => calls'[q] = calls[q]
  BY <1>1 DEF RuleInv
<1>4. calls[p].at = "idle" /\ d.at = "count" /\ d.print = f /\ d.evidence = e
  BY <1>1 DEF Guard!Idle
<1> HIDE DEF d
<1>5. /\ Apart(calls, budget.failures) /\ \A g \in Prints : Fresh(calls, Refs(g), budget.failures)
      /\ \A g \in Prints : Balanced(store.prints[g].count, Len(store.prints[g].refs), Cardinality(Uncounted(calls, g)), Cardinality(Pending(calls, store.prints, g)),
                                    budget.failures, history.failed)
  BY EvidenceParts
<1>6. \A q \in Processes : calls[q].at \in Carrying => calls[q].evidence \in Nat
  BY DEF RuleInv, GuardCall, Carrying, Guard!Idle
<1>7. Apart(calls', budget'.failures)
  BY <1>2, <1>3, <1>4, <1>5, <1>6 DEF Apart, Carrying
<1>8. \A g \in Prints : Fresh(calls', Refs(g)', budget'.failures)
  BY <1>1, <1>2, <1>3, <1>4, <1>5 DEF Fresh, Refs
<1>9. ASSUME NEW g \in Prints
      PROVE  Balanced(store'.prints[g].count, Len(store'.prints[g].refs), Cardinality(Uncounted(calls', g)), Cardinality(Pending(calls', store'.prints, g)),
                      budget'.failures, history'.failed)
  <2> DEFINE c == Cardinality(Uncounted(calls, g))
             n == Cardinality(Pending(calls, store.prints, g))
             c1 == Cardinality(Uncounted(calls', g))
             n1 == Cardinality(Pending(calls', store.prints, g))
  <2>1. n1 = n
    <3>1. Pending(calls', store.prints, g) = Pending(calls, store.prints, g)
      BY <1>3, <1>4 DEF Pending
    <3> QED BY <3>1
  <2>2. c1 <= c + 1
    <3>1. Uncounted(calls', g) \subseteq Uncounted(calls, g) \cup {p} /\ p \notin Uncounted(calls, g)
      BY <1>3, <1>4 DEF Uncounted
    <3>2. Cardinality(Uncounted(calls, g) \cup {p}) = c + 1 /\ IsFiniteSet(Uncounted(calls, g) \cup {p})
      BY <3>1, FiniteHandlers, FS_AddElement
    <3> QED BY <3>1, <3>2, FS_Subset
  <2>3. c \in Nat /\ c1 \in Nat /\ n \in Nat
    BY FiniteHandlers
  <2>4. Balanced(store.prints[g].count, Len(store.prints[g].refs), c, n, budget.failures, history.failed) /\ store.prints[g].count \in Nat
    BY <1>5 DEF RuleInv, PrintRow
  <2> HIDE DEF c, n, c1, n1
  <2>5. Balanced(store.prints[g].count, Len(store.prints[g].refs), c1, n, e, history.failed)
    BY <1>2, <2>2, <2>3, <2>4 DEF Balanced
  <2> QED BY <1>1, <1>2, <2>1, <2>5 DEF c1, n1
<1>10. EvidenceInv'
  BY <1>7, <1>8, <1>9 DEF EvidenceInv, Apart, Fresh, Refs, Balanced
<1> QED BY <1>10

LEMMA EvidenceRead ==
  ASSUME GuardConstants, RuleInv, EvidenceInv, NEW p \in Processes, UNCHANGED <<store, history, budget>>,
         calls[p].at \in {"evidence", "merge"}, NEW d, calls' = [calls EXCEPT ![p] = d],
         d.at \in {"evidence", "merge"}, d.print = calls[p].print, d.evidence = calls[p].evidence
  PROVE  EvidenceInv'
<1>1. calls'[p] = d /\ \A q \in Processes : q # p => calls'[q] = calls[q]
  BY DEF RuleInv
<1>2. \A f \in Prints : Uncounted(calls', f) = Uncounted(calls, f) /\ Pending(calls', store.prints, f) = Pending(calls, store.prints, f)
  BY <1>1 DEF Uncounted, Pending
<1>3. /\ Apart(calls, budget.failures) /\ \A g \in Prints : Fresh(calls, Refs(g), budget.failures)
      /\ \A g \in Prints : Balanced(store.prints[g].count, Len(store.prints[g].refs), Cardinality(Uncounted(calls, g)), Cardinality(Pending(calls, store.prints, g)),
                                    budget.failures, history.failed)
  BY EvidenceParts
<1>4. Apart(calls', budget.failures)
  BY <1>1, <1>3 DEF Apart, Carrying
<1>5. \A g \in Prints : Fresh(calls', Refs(g), budget.failures)
  BY <1>1, <1>3 DEF Fresh
<1>6. \A g \in Prints : Balanced(store.prints[g].count, Len(store.prints[g].refs), Cardinality(Uncounted(calls', g)), Cardinality(Pending(calls', store.prints, g)),
                                 budget.failures, history.failed)
  BY <1>2, <1>3
<1> QED BY <1>4, <1>5, <1>6 DEF EvidenceInv, Apart, Fresh, Refs, Balanced

\* The references of a row as a set.
LEMMA NoneListed == ASSUME NEW refs \in Seq(Nat), Len(refs) = 0 PROVE Guard!Range(refs) = {}
BY DEF Guard!Range
LEMMA OneListed == ASSUME NEW n \in Nat PROVE Guard!Range(<<n>>) = {n} /\ Len(<<n>>) = 1
BY DEF Guard!Range
LEMMA MergedIsNew ==
  ASSUME GuardConstants, NEW refs \in Seq(Nat), NEW n \in Nat, Len(refs) <= MaxRefs
  PROVE  LET merged == Guard!Merged(refs, n) IN
         /\ Guard!Range(merged) \subseteq Guard!Range(refs) \cup {n}
         /\ n \in Guard!Range(refs) => merged = refs
         /\ n \notin Guard!Range(refs) /\ Len(refs) < MaxRefs =>
              Len(merged) = Len(refs) + 1 /\ Guard!Range(merged) = Guard!Range(refs) \cup {n}
         /\ n \notin Guard!Range(refs) /\ Len(refs) = MaxRefs => Len(merged) = MaxRefs
<1> DEFINE merged == Guard!Merged(refs, n)
           added == Append(refs, n)
<1>1. /\ added \in Seq(Nat) /\ Len(added) = Len(refs) + 1 /\ Len(refs) \in Nat
      /\ \A i \in 1..Len(refs) : added[i] = refs[i]
      /\ added[Len(refs) + 1] = n
  OBVIOUS
<1>2. CASE n \in Guard!Range(refs)
  <2>1. merged = refs
    BY <1>1, <1>2 DEF Guard!Merged, GuardConstants
  <2> QED BY <1>2, <2>1
<1>3. CASE n \notin Guard!Range(refs)
  <2>1. Guard!Range(added) = Guard!Range(refs) \cup {n}
    <3>1. DOMAIN added = 1..(Len(refs) + 1) /\ DOMAIN refs = 1..Len(refs)
      BY <1>1
    <3> HIDE DEF added
    <3>2. \A i \in 1..(Len(refs) + 1) : i \in 1..Len(refs) \/ i = Len(refs) + 1
      BY <1>1
    <3>3. 1..Len(refs) \subseteq 1..(Len(refs) + 1) /\ Len(refs) + 1 \in 1..(Len(refs) + 1)
      BY <1>1
    <3> QED BY <1>1, <3>1, <3>2, <3>3 DEF Guard!Range
  <2>2. merged = IF Len(added) > MaxRefs THEN Tail(added) ELSE added
    BY <1>3 DEF Guard!Merged
  <2> HIDE DEF added, merged
  <2>3. CASE Len(refs) < MaxRefs
    <3>1. merged = added
      BY <1>1, <2>2, <2>3 DEF GuardConstants
    <3> QED BY <1>1, <1>3, <2>1, <2>3, <3>1 DEF merged, GuardConstants
  <2>4. CASE Len(refs) = MaxRefs
    <3>1. merged = Tail(added) /\ added # <<>>
      BY <1>1, <2>2, <2>4 DEF GuardConstants
    <3>2. /\ Len(merged) = MaxRefs /\ merged \in Seq(Nat)
          /\ \A i \in 1..MaxRefs : merged[i] = added[i + 1]
      BY <1>1, <2>4, <3>1 DEF GuardConstants
    <3>3. DOMAIN merged = 1..MaxRefs /\ DOMAIN added = 1..(MaxRefs + 1)
      BY <1>1, <2>4, <3>2
    <3>4. \A i \in 1..MaxRefs : i + 1 \in 1..(MaxRefs + 1)
      BY DEF GuardConstants
    <3>5. Guard!Range(merged) \subseteq Guard!Range(added)
      BY <3>2, <3>3, <3>4 DEF Guard!Range
    <3> QED BY <1>1, <1>3, <2>1, <2>4, <3>2, <3>5 DEF merged, GuardConstants
  <2> QED BY <1>1, <2>3, <2>4 DEF GuardConstants
<1> QED BY <1>2, <1>3

LEMMA EvidenceCount ==
  ASSUME GuardConstants, RuleInv, EvidenceInv, NEW p \in Processes, Guard!CountFailure(p)
  PROVE  EvidenceInv'
<1> DEFINE f == calls[p].print
           e == calls[p].evidence
           old == store.prints[f]
           row == [count |-> old.count + 1, refs |-> IF old.count = 0 THEN <<e>> ELSE old.refs]
           d == [at |-> "evidence", print |-> f, evidence |-> e, tries |-> Retries]
<1>1. /\ UNCHANGED <<history, budget>> /\ calls' = [calls EXCEPT ![p] = d] /\ calls[p].at = "count"
      /\ store' = [store EXCEPT !.prints[f] = row]
  BY DEF Guard!CountFailure, Guard!To
<1>2. f \in Prints /\ e \in Nat
  BY <1>1 DEF RuleInv, GuardCall, Guard!Idle
<1>3. /\ store'.prints[f] = row /\ \A g \in Prints : g # f => store'.prints[g] = store.prints[g]
  BY <1>1, <1>2, OnePrint
<1>4. calls'[p] = d /\ \A q \in Processes : q # p => calls'[q] = calls[q]
  BY <1>1 DEF RuleInv
<1>5. d.at = "evidence" /\ d.print = f /\ d.evidence = e /\ row.count = old.count + 1
      /\ row.refs = IF old.count = 0 THEN <<e>> ELSE old.refs
  OBVIOUS
<1> HIDE DEF d, row
<1>6. /\ Apart(calls, budget.failures) /\ \A g \in Prints : Fresh(calls, Refs(g), budget.failures)
      /\ \A g \in Prints : Balanced(store.prints[g].count, Len(store.prints[g].refs), Cardinality(Uncounted(calls, g)),
                                    Cardinality(Pending(calls, store.prints, g)), budget.failures, history.failed)
  BY EvidenceParts
<1>7. old.count \in Nat /\ old.refs \in Seq(Nat) /\ Len(old.refs) \in Nat /\ budget.failures \in Nat
  BY <1>2, PrintTypes
<1>8. Apart(calls', budget.failures)
  BY <1>1, <1>4, <1>5, <1>6 DEF Apart, Carrying
<1>9. e <= budget.failures /\ \A q \in Processes : q # p /\ calls[q].at \in Carrying => calls[q].evidence # e
  BY <1>1, <1>6 DEF Apart, Carrying
<1>10. e \notin Guard!Range(old.refs)
  BY <1>1, <1>2, <1>6 DEF Fresh, Refs
<1> DEFINE u == Cardinality(Uncounted(calls, f))
           n == Cardinality(Pending(calls, store.prints, f))
           u1 == Cardinality(Uncounted(calls', f))
           n1 == Cardinality(Pending(calls', store'.prints, f))
<1>11. u \in Nat /\ n \in Nat /\ u1 \in Nat /\ n1 \in Nat
  BY FiniteHandlers
<1>12. u1 = u - 1 /\ u >= 1
  <2>1. Uncounted(calls', f) = Uncounted(calls, f) \ {p} /\ p \in Uncounted(calls, f)
    BY <1>1, <1>4, <1>5 DEF Uncounted
  <2>2. IsFiniteSet(Uncounted(calls, f)) /\ Cardinality(Uncounted(calls, f)) \in Nat
    BY FiniteHandlers
  <2>3. Cardinality(Uncounted(calls, f) \ {p}) = Cardinality(Uncounted(calls, f)) - 1
    BY <2>1, <2>2, FS_RemoveElement
  <2>4. Cardinality(Uncounted(calls', f)) \in Nat
    BY FiniteHandlers
  <2> QED BY <2>1, <2>2, <2>3, <2>4
<1>13. Balanced(old.count, Len(old.refs), u, n, budget.failures, history.failed)
  BY <1>2, <1>6
<1>14. \A q \in Processes : calls'[q].at = "count" => q # p /\ calls[q].at = "count" /\ calls'[q].evidence = calls[q].evidence
  BY <1>4, <1>5
<1>15. Balanced(row.count, Len(row.refs), u1, n1, budget.failures, history.failed) /\ Fresh(calls', Guard!Range(row.refs), budget.failures)
  <2>1. CASE old.count = 0
    <3>1. row.refs = <<e>> /\ row.count = 1
      BY <1>5, <2>1
    <3>2. Len(old.refs) = 0 /\ n = 0
      <4> DEFINE l == Len(old.refs)
      <4>1. l \in Nat
        BY <1>7
      <4> HIDE DEF l, n
      <4> QED BY <4>1, <1>11, <1>13, <2>1 DEF Balanced, GuardConstants, l
    <3>3. Guard!Range(old.refs) = {}
      BY <1>7, <3>2, NoneListed
    <3>4. Pending(calls, store.prints, f) = {}
      BY <3>2, FiniteHandlers, FS_EmptySet
    <3>5. Guard!Range(row.refs) = {e} /\ Len(row.refs) = 1
      BY <1>2, <3>1, OneListed
    <3>6. Pending(calls', store'.prints, f) = {}
      <4>1. ASSUME NEW q \in Pending(calls', store'.prints, f) PROVE q \in Pending(calls, store.prints, f)
        BY <1>3, <1>4, <1>5, <3>3, <3>5 DEF Pending
      <4> QED BY <3>4, <4>1
    <3>7. n1 = 0
      BY <3>6, FS_EmptySet
    <3> HIDE DEF u, u1, n1, n
    <3>8. Balanced(row.count, Len(row.refs), u1, n1, budget.failures, history.failed)
      BY <1>7, <1>11, <1>12, <1>13, <2>1, <3>1, <3>5, <3>7 DEF Balanced, GuardConstants
    <3>9. Fresh(calls', Guard!Range(row.refs), budget.failures)
      BY <1>9, <1>14, <3>5 DEF Fresh, Carrying
    <3> QED BY <3>8, <3>9
  <2>2. CASE old.count # 0
    <3>1. row.refs = old.refs /\ row.count = old.count + 1
      BY <1>5, <2>2
    <3>2. Pending(calls', store'.prints, f) = Pending(calls, store.prints, f) \cup {p} /\ p \notin Pending(calls, store.prints, f)
      BY <1>1, <1>3, <1>4, <1>5, <1>10, <3>1 DEF Pending
    <3>3. n1 = n + 1
      BY <3>2, FiniteHandlers, FS_AddElement
    <3> HIDE DEF u, u1, n1, n
    <3>4. Balanced(row.count, Len(row.refs), u1, n1, budget.failures, history.failed)
      <4> DEFINE l == Len(old.refs)
      <4>1. Balanced(old.count, l, u, n, budget.failures, history.failed) /\ l \in Nat
        BY <1>7, <1>13
      <4> HIDE DEF l
      <4>2. Balanced(old.count + 1, l, u1, n1, budget.failures, history.failed)
        BY <1>7, <1>11, <1>12, <3>3, <4>1 DEF Balanced, GuardConstants
      <4> QED BY <3>1, <4>2 DEF l
    <3>5. Fresh(calls', Guard!Range(row.refs), budget.failures)
      BY <1>2, <1>6, <1>14, <3>1 DEF Fresh, Refs
    <3> QED BY <3>4, <3>5
  <2> QED BY <2>1, <2>2
<1>16. ASSUME NEW g \in Prints
       PROVE  /\ Fresh(calls', Guard!Range(store'.prints[g].refs), budget.failures)
              /\ Balanced(store'.prints[g].count, Len(store'.prints[g].refs), Cardinality(Uncounted(calls', g)),
                          Cardinality(Pending(calls', store'.prints, g)), budget.failures, history.failed)
  <2>1. CASE g = f
    BY <1>3, <1>15, <2>1
  <2>2. CASE g # f
    <3>1. store'.prints[g] = store.prints[g]
      BY <1>3, <2>2
    <3>2. Uncounted(calls', g) = Uncounted(calls, g) /\ Pending(calls', store'.prints, g) = Pending(calls, store.prints, g)
      BY <1>4, <1>5, <2>2, <3>1 DEF Uncounted, Pending
    <3>3. Fresh(calls', Guard!Range(store.prints[g].refs), budget.failures)
      BY <1>6, <1>14 DEF Fresh, Refs
    <3> QED BY <1>6, <3>1, <3>2, <3>3
  <2> QED BY <2>1, <2>2
<1>17. EvidenceInv'
  BY <1>1, <1>8, <1>16 DEF EvidenceInv, Apart, Fresh, Balanced
<1> QED BY <1>17

LEMMA EvidenceMerge ==
  ASSUME GuardConstants, RuleInv, EvidenceInv, NEW p \in Processes, Guard!MergeEvidence(p)
  PROVE  EvidenceInv'
<1> DEFINE c == calls[p]
           f == c.print
           e == c.evidence
           old == store.prints[f]
           merged == Guard!Merged(old.refs, e)
           row == [old EXCEPT !.refs = merged]
           d == [at |-> "create", print |-> f, count |-> c.read.count]
           again == [at |-> "evidence", print |-> f, evidence |-> e, tries |-> c.tries - 1]
<1>1. c.at = "merge" /\ f \in Prints /\ e \in Nat
  BY DEF RuleInv, GuardCall, Guard!Idle, Guard!MergeEvidence
<1>2. \/ /\ store' = [store EXCEPT !.prints[f].refs = merged]
         /\ calls' = [calls EXCEPT ![p] = d] /\ UNCHANGED <<history, budget>>
      \/ Guard!Fail(p)
      \/ calls' = [calls EXCEPT ![p] = again] /\ UNCHANGED <<store, history, budget>>
  BY DEF Guard!MergeEvidence, Guard!To, Guard!Rest
<1>3. CASE Guard!Fail(p)
  <2>1. /\ UNCHANGED <<store, budget>> /\ history' = [history EXCEPT !.failed = TRUE] /\ calls' = [calls EXCEPT ![p] = Guard!Idle]
    BY <1>3 DEF Guard!Fail, Guard!To
  <2>2. history'.failed /\ Guard!Idle.at \notin Carrying
    BY <2>1, FailFrame DEF Guard!Idle, Carrying
  <2> QED BY <2>1, <2>2, EvidenceRests
<1>4. CASE calls' = [calls EXCEPT ![p] = again] /\ UNCHANGED <<store, history, budget>>
  <2>1. again.at = "evidence" /\ again.print = f /\ again.evidence = e
    OBVIOUS
  <2> QED BY <1>1, <1>4, <2>1, EvidenceRead
<1>5. CASE /\ store' = [store EXCEPT !.prints[f].refs = merged]
           /\ calls' = [calls EXCEPT ![p] = d] /\ UNCHANGED <<history, budget>>
  <2>1. old.count \in Nat /\ old.refs \in Seq(Nat) /\ Len(old.refs) \in Nat /\ budget.failures \in Nat
    BY <1>1, PrintTypes
  <2>2. PrintRow(old)
    BY <1>1 DEF RuleInv
  <2>3. store' = [store EXCEPT !.prints[f] = row]
    BY <1>5, <1>1 DEF RuleInv
  <2> HIDE DEF merged
  <2>4. row.count = old.count /\ row.refs = merged
    BY <2>2 DEF PrintRow
  <2> HIDE DEF row
  <2>5. /\ store'.prints[f] = row /\ \A g \in Prints : g # f => store'.prints[g] = store.prints[g]
    BY <1>1, <2>3, OnePrint
  <2>6. calls'[p] = d /\ \A q \in Processes : q # p => calls'[q] = calls[q]
    BY <1>5 DEF RuleInv
  <2>7. d.at = "create"
    OBVIOUS
  <2> HIDE DEF d
  <2>8. /\ Apart(calls, budget.failures) /\ \A g \in Prints : Fresh(calls, Refs(g), budget.failures)
        /\ \A g \in Prints : Balanced(store.prints[g].count, Len(store.prints[g].refs), Cardinality(Uncounted(calls, g)),
                                      Cardinality(Pending(calls, store.prints, g)), budget.failures, history.failed)
    BY EvidenceParts
  <2>9. Apart(calls', budget.failures)
    BY <2>6, <2>7, <2>8 DEF Apart, Carrying
  <2>10. e <= budget.failures /\ \A q \in Processes : q # p /\ calls[q].at \in Carrying => calls[q].evidence # e
    BY <1>1, <2>8 DEF Apart, Carrying
  <2>11. \A q \in Processes : calls'[q].at \in Carrying => q # p /\ calls'[q] = calls[q]
    BY <2>6, <2>7 DEF Carrying
  <2> DEFINE l == Len(old.refs)
             n == Cardinality(Pending(calls, store.prints, f))
             n1 == Cardinality(Pending(calls', store'.prints, f))
             u == Cardinality(Uncounted(calls, f))
  <2>12. Balanced(old.count, l, u, n, budget.failures, history.failed)
    BY <1>1, <2>8
  <2>13. l \in Nat /\ n \in Nat /\ n1 \in Nat /\ u \in Nat /\ l <= MaxRefs /\ MaxRefs \in Nat \ {0}
    BY <2>1, <2>12, FiniteHandlers DEF Balanced, GuardConstants
  <2>14. /\ Guard!Range(merged) \subseteq Guard!Range(old.refs) \cup {e}
         /\ e \in Guard!Range(old.refs) => merged = old.refs
         /\ e \notin Guard!Range(old.refs) /\ l < MaxRefs =>
              Len(merged) = l + 1 /\ Guard!Range(merged) = Guard!Range(old.refs) \cup {e}
         /\ e \notin Guard!Range(old.refs) /\ l = MaxRefs => Len(merged) = MaxRefs
    BY <1>1, <2>1, <2>13, MergedIsNew DEF merged
  <2>15. Fresh(calls', Guard!Range(row.refs), budget.failures)
    <3>1. Fresh(calls, Guard!Range(old.refs), budget.failures)
      BY <1>1, <2>8 DEF Refs
    <3>2. \A q \in Processes : calls'[q].at = "count" => q # p /\ calls'[q] = calls[q] /\ calls[q].at \in Carrying
      BY <2>6, <2>7 DEF Carrying
    <3> QED BY <2>4, <2>10, <2>14, <3>1, <3>2 DEF Fresh
  <2>16. Balanced(old.count, Len(merged), u, n1, budget.failures, history.failed)
    <3>1. CASE e \in Guard!Range(old.refs)
      <4>1. Pending(calls', store'.prints, f) = Pending(calls, store.prints, f)
        BY <1>1, <2>4, <2>5, <2>6, <2>7, <2>14, <3>1 DEF Pending
      <4> QED BY <2>12, <2>14, <3>1, <4>1
    <3>2. CASE e \notin Guard!Range(old.refs) /\ l < MaxRefs
      <4>1. Pending(calls', store'.prints, f) = Pending(calls, store.prints, f) \ {p} /\ p \in Pending(calls, store.prints, f)
        <5>1. Guard!Range(store'.prints[f].refs) = Guard!Range(old.refs) \cup {e}
          BY <2>4, <2>5, <2>14, <3>2
        <5>2. \A q \in Processes : q # p /\ calls[q].at \in {"evidence", "merge"} => calls[q].evidence # e
          BY <2>10 DEF Carrying
        <5> QED BY <1>1, <2>6, <2>7, <3>2, <5>1, <5>2 DEF Pending
      <4>2. n1 = n - 1
        BY <4>1, FiniteHandlers, FS_RemoveElement
      <4>3. Len(merged) = l + 1
        BY <2>14, <3>2
      <4>4. l < MaxRefs
        BY <3>2
      <4> DEFINE k == old.count
      <4>5. k \in Nat /\ Balanced(k, l, u, n, budget.failures, history.failed)
        BY <2>1, <2>12
      <4> HIDE DEF l, n, n1, u, k
      <4>6. Balanced(k, l + 1, u, n1, budget.failures, history.failed)
        BY <2>1, <2>13, <4>2, <4>4, <4>5 DEF Balanced
      <4> QED BY <4>3, <4>6 DEF k
    <3>3. CASE e \notin Guard!Range(old.refs) /\ l = MaxRefs
      <4>1. Len(merged) = MaxRefs
        BY <2>14, <3>3
      <4> HIDE DEF l, n, n1, u
      <4> QED BY <2>1, <2>12, <2>13, <3>3, <4>1 DEF Balanced
    <3>4. l < MaxRefs \/ l = MaxRefs
      <4> HIDE DEF l
      <4> QED BY <2>13
    <3> QED BY <3>1, <3>2, <3>3, <3>4
  <2>17. \A g \in Prints : Uncounted(calls', g) = Uncounted(calls, g)
    BY <1>1, <2>6, <2>7 DEF Uncounted
  <2>18. ASSUME NEW g \in Prints
         PROVE  /\ Fresh(calls', Guard!Range(store'.prints[g].refs), budget.failures)
                /\ Balanced(store'.prints[g].count, Len(store'.prints[g].refs), Cardinality(Uncounted(calls', g)),
                            Cardinality(Pending(calls', store'.prints, g)), budget.failures, history.failed)
    <3>1. CASE g = f
      BY <2>4, <2>5, <2>15, <2>16, <2>17, <3>1
    <3>2. CASE g # f
      <4>1. store'.prints[g] = store.prints[g]
        BY <2>5, <3>2
      <4>2. Pending(calls', store'.prints, g) = Pending(calls, store.prints, g)
        BY <2>6, <2>7, <3>2, <4>1 DEF Pending
      <4>3. \A q \in Processes : calls'[q].at = "count" => q # p /\ calls'[q] = calls[q]
        BY <2>6, <2>7
      <4>4. Fresh(calls', Guard!Range(store.prints[g].refs), budget.failures)
        BY <2>8, <4>3 DEF Fresh, Refs
      <4> QED BY <2>8, <2>17, <4>1, <4>2, <4>4
    <3> QED BY <3>1, <3>2
  <2> QED BY <1>5, <2>9, <2>18 DEF EvidenceInv, Apart, Fresh, Balanced
<1> QED BY <1>2, <1>3, <1>4, <1>5

\* What is at hand after a step with the rules.
LEMMA EvidenceOfRules ==
  ASSUME GuardConstants, RuleInv, NEW p \in Processes, calls[p].at \notin Carrying,
         (Guard!SafeguardStep(p) /\ ~Guard!Die(p)) \/ \E f \in Prints, decision \in Guard!Decisions : Guard!Decide(p, f, decision)
  PROVE  /\ store'.prints = store.prints /\ budget'.failures = budget.failures
         /\ history'.failed \/ history'.failed = history.failed
         /\ \E d : calls' = [calls EXCEPT ![p] = d] /\ d.at \notin Carrying
<1>1. Guard!Idle.at \notin Carrying
  BY DEF Guard!Idle, Carrying
<1>2. CASE Guard!CreateRule(p)
  <2>1. /\ UNCHANGED <<history, budget>> /\ calls' = [calls EXCEPT ![p] = [calls[p] EXCEPT !.at = "list"]]
        /\ calls[p] = [at |-> "create", print |-> calls[p].print, count |-> calls[p].count] /\ calls[p].print \in Prints
    BY <1>2 DEF RuleInv, GuardCall, Guard!Idle, Guard!CreateRule, Guard!To
  <2>2. [calls[p] EXCEPT !.at = "list"].at \notin Carrying
    BY <2>1 DEF Carrying
  <2>3. store' = store \/ store' = [store EXCEPT !.rules[calls[p].print] = Guard!NewRule(calls[p].count)]
    BY <1>2 DEF Guard!CreateRule
  <2>4. store'.prints = store.prints
    BY <2>1, <2>3, OneRule
  <2> QED BY <2>1, <2>2, <2>4
<1>3. CASE Guard!ListRules(p)
  <2> DEFINE c == calls[p]
             d == [at |-> "rules", job |-> "failure", print |-> c.print, count |-> c.count, tries |-> Retries,
                   todo |-> {f \in Prints : store.rules[f] # None /\ Scope[f] = Scope[c.print]}]
  <2>1. UNCHANGED <<store, history, budget>> /\ calls' = [calls EXCEPT ![p] = d]
    BY <1>3 DEF Guard!ListRules, Guard!To, Guard!Rest
  <2>2. d.at \notin Carrying
    BY DEF Carrying
  <2> HIDE DEF d
  <2> QED BY <2>1, <2>2
<1>4. CASE Guard!NoRules(p)
  BY <1>1, <1>4 DEF Guard!NoRules, Guard!To, Guard!Rest
<1>5. CASE \E f \in Prints : Guard!ReadRule(p, f)
  <2>1. PICK f \in Prints : Guard!ReadRule(p, f)
    BY <1>5
  <2>2. UNCHANGED <<store, history, budget>> /\ GuardCall(calls[p], store) /\ calls[p].at = "rules"
    BY <2>1 DEF RuleInv, Guard!ReadRule, Guard!Rest
  <2>3. Guard!Done(calls[p], f).at \notin Carrying
    BY <2>2, <1>1, DoneIsKnown DEF GuardCall, Guard!Idle, Guard!Done, Carrying
  <2>4. \/ calls' = [calls EXCEPT ![p] = Guard!Idle] \/ calls' = [calls EXCEPT ![p] = Guard!Done(calls[p], f)]
        \/ \E d : calls' = [calls EXCEPT ![p] = d] /\ d.at = "update"
    BY <2>1 DEF Guard!ReadRule, Guard!To
  <2> QED BY <1>1, <2>2, <2>3, <2>4 DEF Carrying
<1>6. CASE Guard!UpdateRule(p)
  <2> DEFINE c == calls[p]
             again == [at |-> "rules", job |-> c.job, print |-> c.print, count |-> c.count, tries |-> c.tries, todo |-> c.todo]
             retry == [again EXCEPT !.tries = @ - 1]
  <2>1. c.at = "update" /\ GuardCall(c, store)
    BY <1>6 DEF Guard!UpdateRule, RuleInv
  <2>2. Listed(c, store) /\ c.rule \in Prints
    BY <2>1 DEF GuardCall, Guard!Idle, Listed
  <2>3. \/ /\ store' = [store EXCEPT !.rules[c.rule] = c.next] /\ calls' = [calls EXCEPT ![p] = Guard!Done(again, c.rule)]
           /\ history' = [history EXCEPT !.updates[c.rule] = @ + 1, !.metrics[c.rule] = Guard!Added(@, c.job, c.rule, c)]
           /\ UNCHANGED budget
        \/ Guard!Fail(p)
        \/ calls' = [calls EXCEPT ![p] = retry] /\ UNCHANGED <<store, history, budget>>
    BY <1>6 DEF Guard!UpdateRule, Guard!To, Guard!Rest
  <2>4. retry.at \notin Carrying /\ Guard!Done(again, c.rule).at \notin Carrying
    BY <1>1 DEF Guard!Done, Carrying
  <2> HIDE DEF again
  <2>5. CASE /\ store' = [store EXCEPT !.rules[c.rule] = c.next] /\ calls' = [calls EXCEPT ![p] = Guard!Done(again, c.rule)]
             /\ history' = [history EXCEPT !.updates[c.rule] = @ + 1, !.metrics[c.rule] = Guard!Added(@, c.job, c.rule, c)]
             /\ UNCHANGED budget
    <3>1. history'.failed = history.failed
      BY <2>5 DEF RuleInv
    <3>2. store'.prints = store.prints
      BY <2>2, <2>5, OneRule
    <3> QED BY <2>4, <2>5, <3>1, <3>2
  <2>6. CASE Guard!Fail(p)
    BY <1>1, <2>6, FailFrame DEF Guard!Fail, Guard!To
  <2> QED BY <2>3, <2>4, <2>5, <2>6
<1>7. CASE \E f \in Prints, decision \in Guard!Decisions : Guard!Decide(p, f, decision)
  <2>1. PICK f \in Prints, decision \in Guard!Decisions : Guard!Decide(p, f, decision)
    BY <1>7
  <2> DEFINE d == [at |-> "rules", job |-> decision, print |-> f, count |-> 0, tries |-> Retries, todo |-> {f}]
  <2>2. UNCHANGED <<store, history>> /\ budget' = [budget EXCEPT !.decisions = @ + 1] /\ calls' = [calls EXCEPT ![p] = d]
    BY <2>1 DEF Guard!Decide, Guard!To
  <2>3. budget'.failures = budget.failures
    BY <2>2 DEF RuleInv
  <2>4. d.at \notin Carrying
    BY DEF Carrying
  <2> HIDE DEF d
  <2> QED BY <2>2, <2>3, <2>4
<1>8. ~Guard!CountFailure(p) /\ ~Guard!ReadPrint(p) /\ ~Guard!MergeEvidence(p)
  BY DEF Guard!CountFailure, Guard!ReadPrint, Guard!MergeEvidence, Carrying
<1> QED BY <1>2, <1>3, <1>4, <1>5, <1>6, <1>7, <1>8 DEF Guard!SafeguardStep

LEMMA EvidenceStep ==
  ASSUME GuardConstants, RuleInv, EvidenceInv, Guard!SafeguardNext
  PROVE  EvidenceInv'
<1>1. PICK p \in Processes : Guard!SafeguardStep(p) \/ Guard!SafeguardRequest(p)
  BY DEF Guard!SafeguardNext
<1>2. CASE Guard!CountFailure(p)
  BY <1>2, EvidenceCount
<1>3. CASE Guard!MergeEvidence(p)
  BY <1>3, EvidenceMerge
<1>4. CASE Guard!ReadPrint(p)
  <2> DEFINE c == calls[p]
             d == [at |-> "merge", print |-> c.print, evidence |-> c.evidence, tries |-> c.tries, read |-> store.prints[c.print]]
  <2>1. /\ UNCHANGED <<store, history, budget>> /\ calls' = [calls EXCEPT ![p] = d] /\ c.at = "evidence"
    BY <1>4 DEF Guard!ReadPrint, Guard!To, Guard!Rest
  <2>2. d.at = "merge" /\ d.print = c.print /\ d.evidence = c.evidence
    OBVIOUS
  <2> HIDE DEF d
  <2> QED BY <2>1, <2>2, EvidenceRead
<1>5. CASE Guard!Die(p)
  <2>1. /\ UNCHANGED <<store, budget>> /\ history' = [history EXCEPT !.failed = TRUE] /\ calls' = [calls EXCEPT ![p] = Guard!Idle]
    BY <1>5 DEF Guard!Die, Guard!To
  <2>2. history'.failed /\ Guard!Idle.at \notin Carrying
    BY <2>1, FailFrame DEF Guard!Idle, Carrying
  <2> QED BY <2>1, <2>2, EvidenceRests
<1>6. CASE \E f \in Prints : Guard!Occur(p, f)
  BY <1>6, EvidenceOccurs
<1>7. CASE /\ (Guard!SafeguardStep(p) /\ ~Guard!Die(p)) \/ \E f \in Prints, decision \in Guard!Decisions : Guard!Decide(p, f, decision)
           /\ calls[p].at \notin Carrying
  <2>1. /\ store'.prints = store.prints /\ budget'.failures = budget.failures
        /\ history'.failed \/ history'.failed = history.failed
    BY <1>7, EvidenceOfRules
  <2>2. PICK d : calls' = [calls EXCEPT ![p] = d] /\ d.at \notin Carrying
    BY <1>7, EvidenceOfRules
  <2> QED BY <1>7, <2>1, <2>2, EvidenceRests
<1>8. calls[p].at \in Carrying /\ Guard!SafeguardStep(p) =>
        Guard!CountFailure(p) \/ Guard!MergeEvidence(p) \/ Guard!ReadPrint(p) \/ Guard!Die(p)
  BY DEF Carrying, Guard!SafeguardStep, Guard!CreateRule, Guard!ListRules, Guard!UpdateRule, Guard!NoRules, Guard!ReadRule
<1>9. \A f \in Prints, decision \in Guard!Decisions : Guard!Decide(p, f, decision) => calls[p].at \notin Carrying
  BY DEF Guard!Decide, Guard!Idle, Carrying
<1> QED BY <1>1, <1>2, <1>3, <1>4, <1>5, <1>6, <1>7, <1>8, <1>9 DEF Guard!SafeguardRequest

-----------------------------------------------------------------------------
(* A failure that was repeated gets its rule, and the rule the count of now. *)

Borne(c, f, rows) == c # Guard!Idle /\ Carries(c, f, rows)
\* Nothing is taken from the print by a step of another handler.
Spared(f, c, old, new) ==
  /\ new.prints[f].count = old.prints[f].count
  /\ old.rules[f] # None => new.rules[f] # None
  /\ Guarded(f, old) => Guarded(f, new)
  /\ ~Borne(c, f, old)

LEMMA RepeatFrame ==
  ASSUME RuleInv, RepeatInv, NEW p \in Processes, NEW d, calls' = [calls EXCEPT ![p] = d],
         history'.failed \/ history'.failed = history.failed,
         \A f \in Prints : store'.prints[f].count >= Repeats =>
           Guarded(f, store') \/ Borne(d, f, store') \/ Spared(f, calls[p], store, store')
  PROVE  RepeatInv'
<1>1. calls'[p] = d /\ \A q \in Processes : q # p => calls'[q] = calls[q]
  BY DEF RuleInv
<1>2. ASSUME ~history'.failed, NEW f \in Prints, store'.prints[f].count >= Repeats
      PROVE  Guarded(f, store') \/ \E q \in Processes : Borne(calls'[q], f, store')
  <2>1. CASE Guarded(f, store') \/ Borne(d, f, store')
    BY <1>1, <2>1
  <2>2. CASE Spared(f, calls[p], store, store')
    <3>1. Guarded(f, store) \/ \E q \in Processes : Borne(calls[q], f, store)
      BY <1>2, <2>2 DEF RepeatInv, Borne, Spared
    <3>2. ASSUME NEW q \in Processes, Borne(calls[q], f, store) PROVE Borne(calls'[q], f, store')
      <4>1. q # p
        BY <2>2, <3>2 DEF Spared
      <4>2. calls'[q] = calls[q]
        BY <1>1, <4>1
      <4> QED BY <2>2, <3>2, <4>2 DEF Spared, Borne, Carries
    <3> QED BY <2>2, <3>1, <3>2 DEF Spared
  <2> QED BY <1>2, <2>1, <2>2
<1> QED BY <1>2 DEF RepeatInv, Borne

LEMMA NothingTaken ==
  ASSUME NEW f, NEW c, ~Borne(c, f, store), store'.prints[f].count = store.prints[f].count, store'.rules[f] = store.rules[f]
  PROVE  Spared(f, c, store, store')
BY DEF Spared, Guarded

\* The handlers that read or fail.
LEMMA RepeatReads ==
  ASSUME RuleInv, RepeatInv, UNCHANGED <<store, history>>, NEW p \in Processes, NEW d, calls' = [calls EXCEPT ![p] = d],
         \A f \in Prints : Borne(calls[p], f, store) => Guarded(f, store) \/ Borne(d, f, store)
  PROVE  RepeatInv'
<1>1. \A f \in Prints : Guarded(f, store') \/ Borne(d, f, store') \/ Spared(f, calls[p], store, store')
  BY NothingTaken
<1> QED BY <1>1, RepeatFrame
LEMMA RepeatFails == ASSUME history'.failed PROVE RepeatInv'
BY DEF RepeatInv

LEMMA RepeatCount ==
  ASSUME GuardConstants, RuleInv, RepeatInv, NEW p \in Processes, Guard!CountFailure(p)
  PROVE  RepeatInv'
<1> DEFINE c == calls[p]
           f == c.print
           old == store.prints[f]
           row == [count |-> old.count + 1, refs |-> IF old.count = 0 THEN <<c.evidence>> ELSE old.refs]
           d == [at |-> "evidence", print |-> f, evidence |-> c.evidence, tries |-> Retries]
<1>1. /\ UNCHANGED <<history, budget>> /\ calls' = [calls EXCEPT ![p] = d] /\ c.at = "count"
      /\ store' = [store EXCEPT !.prints[f] = row]
  BY DEF Guard!CountFailure, Guard!To
<1>2. f \in Prints
  BY <1>1 DEF RuleInv, GuardCall, Guard!Idle
<1>3. store'.rules = store.rules /\ \A g \in Prints : g # f => store'.prints[g] = store.prints[g]
  BY <1>1, <1>2, OnePrint
<1>4. Borne(d, f, store') /\ \A g : ~Borne(c, g, store)
  BY <1>1 DEF Borne, Carries, Guard!Idle
<1> HIDE DEF d
<1>5. \A g \in Prints : Guarded(g, store') \/ Borne(d, g, store') \/ Spared(g, c, store, store')
  BY <1>3, <1>4, NothingTaken
<1> QED BY <1>1, <1>5, RepeatFrame

LEMMA RepeatMerge ==
  ASSUME GuardConstants, RuleInv, RepeatInv, NEW p \in Processes, Guard!MergeEvidence(p)
  PROVE  RepeatInv'
<1> DEFINE c == calls[p]
           f == c.print
           old == store.prints[f]
           refs == Guard!Merged(old.refs, c.evidence)
           d == [at |-> "create", print |-> f, count |-> c.read.count]
           again == [at |-> "evidence", print |-> f, evidence |-> c.evidence, tries |-> c.tries - 1]
<1>1. c.at = "merge" /\ f \in Prints
  BY DEF RuleInv, GuardCall, Guard!Idle, Guard!MergeEvidence
<1>2. \/ /\ old = c.read /\ store' = [store EXCEPT !.prints[f].refs = refs]
         /\ calls' = [calls EXCEPT ![p] = d] /\ UNCHANGED <<history, budget>>
      \/ Guard!Fail(p)
      \/ calls' = [calls EXCEPT ![p] = again] /\ UNCHANGED <<store, history, budget>>
  BY DEF Guard!MergeEvidence, Guard!To, Guard!Rest
<1>3. CASE Guard!Fail(p)
  BY <1>3, FailFrame, RepeatFails DEF Guard!Fail, Guard!To
<1>4. \A g : Borne(c, g, store) <=> g = f
  BY <1>1 DEF Borne, Carries, Guard!Idle
<1>5. CASE calls' = [calls EXCEPT ![p] = again] /\ UNCHANGED <<store, history, budget>>
  <2>1. Borne(again, f, store)
    BY DEF Borne, Carries, Guard!Idle
  <2> HIDE DEF again
  <2>2. \A g \in Prints : Borne(calls[p], g, store) => Borne(again, g, store)
    BY <1>4, <2>1
  <2> QED BY <1>5, <2>2, RepeatReads
<1>6. CASE /\ old = c.read /\ store' = [store EXCEPT !.prints[f].refs = refs]
           /\ calls' = [calls EXCEPT ![p] = d] /\ UNCHANGED <<history, budget>>
  <2> DEFINE row == [old EXCEPT !.refs = refs]
  <2>1. store' = [store EXCEPT !.prints[f] = row]
    BY <1>6, <1>1 DEF RuleInv
  <2>2. row.count = old.count
    BY <1>1 DEF RuleInv, PrintRow
  <2> HIDE DEF row
  <2>3. /\ store'.rules = store.rules /\ store'.prints[f] = row
        /\ \A g \in Prints : g # f => store'.prints[g] = store.prints[g]
    BY <1>1, <2>1, OnePrint
  <2>4. d.at = "create" /\ d.print = f /\ d.count = store'.prints[f].count /\ d # Guard!Idle
    BY <1>6, <2>2, <2>3 DEF Guard!Idle
  <2>5. Borne(d, f, store')
    BY <2>4 DEF Borne, Carries
  <2> HIDE DEF d
  <2>6. \A g \in Prints : Guarded(g, store') \/ Borne(d, g, store') \/ Spared(g, c, store, store')
    BY <1>4, <2>3, <2>5, NothingTaken
  <2> QED BY <1>6, <2>6, RepeatFrame
<1> QED BY <1>2, <1>3, <1>5, <1>6

LEMMA RepeatCreate ==
  ASSUME GuardConstants, RuleInv, RepeatInv, NEW p \in Processes, Guard!CreateRule(p)
  PROVE  RepeatInv'
<1> DEFINE c == calls[p]
           f == c.print
           new == Guard!NewRule(c.count)
           d == [c EXCEPT !.at = "list"]
           go == [at |-> "list", print |-> f, count |-> c.count]
<1>1. /\ UNCHANGED <<history, budget>> /\ calls' = [calls EXCEPT ![p] = d]
      /\ c.at = "create" /\ c = [at |-> "create", print |-> f, count |-> c.count] /\ f \in Prints
  BY DEF RuleInv, GuardCall, Guard!Idle, Guard!CreateRule, Guard!To
<1>2. d = go
  BY <1>1
<1>3. /\ go.at = "list" /\ go.print = f /\ go.count = c.count /\ go # Guard!Idle
  BY DEF Guard!Idle
<1> HIDE DEF d, go
<1>4. \A g : Borne(c, g, store) => g = f /\ c.count = store.prints[f].count
  BY <1>1 DEF Borne, Carries, Guard!Idle
<1>5. CASE c.count >= Repeats /\ store.rules[f] = None
  <2>1. store' = [store EXCEPT !.rules[f] = new]
    BY <1>5 DEF Guard!CreateRule
  <2>2. /\ store'.prints = store.prints /\ store'.rules[f] = new
        /\ \A g \in Prints : g # f => store'.rules[g] = store.rules[g]
    BY <1>1, <2>1, OneRule
  <2>3. new # None /\ new.count = c.count
    <3>1. new \in RuleSet
      BY <1>1 DEF RuleInv, GuardCall, Guard!Idle, Guard!NewRule, Guard!NoMetrics, RuleSet, MetricSet
    <3>2. new # None
      BY <3>1 DEF GuardConstants
    <3> QED BY <3>2 DEF Guard!NewRule
  <2> HIDE DEF new
  <2>4. Borne(c, f, store) => Guarded(f, store')
    BY <1>4, <2>2, <2>3 DEF Guarded
  <2>5. ~Borne(c, f, store) => Spared(f, c, store, store')
    BY <1>5, <2>2, <2>3 DEF Spared, Guarded
  <2>6. \A g \in Prints : g # f => Spared(g, c, store, store')
    BY <1>4, <2>2, NothingTaken
  <2> QED BY <1>1, <2>4, <2>5, <2>6, RepeatFrame
<1>6. CASE ~(c.count >= Repeats /\ store.rules[f] = None)
  <2>1. UNCHANGED store
    BY <1>6 DEF Guard!CreateRule
  <2>2. ASSUME store'.prints[f].count >= Repeats, Borne(c, f, store) PROVE Borne(go, f, store')
    <3>1. c.count = store.prints[f].count /\ store.rules[f] # None
      BY <1>4, <1>6, <2>1, <2>2
    <3> QED BY <1>3, <2>1, <3>1 DEF Borne, Carries
  <2>3. \A g \in Prints : ~Borne(c, g, store) => Spared(g, c, store, store')
    BY <2>1, NothingTaken
  <2>4. \A g \in Prints : store'.prints[g].count >= Repeats => Borne(d, g, store') \/ Spared(g, c, store, store')
    BY <1>2, <1>4, <2>2, <2>3
  <2> QED BY <1>1, <2>4, RepeatFrame
<1> QED BY <1>5, <1>6

LEMMA RepeatList ==
  ASSUME GuardConstants, RuleInv, RepeatInv, NEW p \in Processes, Guard!ListRules(p)
  PROVE  RepeatInv'
<1> DEFINE c == calls[p]
           todo == {f \in Prints : store.rules[f] # None /\ Scope[f] = Scope[c.print]}
           d == [at |-> "rules", job |-> "failure", print |-> c.print, count |-> c.count, tries |-> Retries, todo |-> todo]
<1>1. /\ UNCHANGED <<store, history, budget>> /\ calls' = [calls EXCEPT ![p] = d] /\ c.at = "list"
  BY DEF Guard!ListRules, Guard!To, Guard!Rest
<1>2. d.at = "rules" /\ d.job = "failure" /\ d.print = c.print /\ d.count = c.count /\ d.todo = todo /\ d # Guard!Idle
  BY DEF Guard!Idle
<1> HIDE DEF d
<1>3. ASSUME NEW f \in Prints, Borne(c, f, store) PROVE Borne(d, f, store)
  <2>1. c.print = f /\ c.count = store.prints[f].count /\ store.rules[f] # None
    BY <1>1, <1>3 DEF Borne, Carries
  <2>2. f \in todo
    BY <2>1
  <2> QED BY <1>2, <2>1, <2>2 DEF Borne, Carries
<1> QED BY <1>1, <1>3, RepeatReads

LEMMA RepeatRead ==
  ASSUME GuardConstants, RuleInv, RepeatInv, NEW p \in Processes, NEW f \in Prints, Guard!ReadRule(p, f)
  PROVE  RepeatInv'
<1> DEFINE c == calls[p]
           rule == store.rules[f]
           made == IF c.job = "failure" THEN Guard!EvaluatedRule(rule, f = c.print, c.count) ELSE Guard!DecidedRule(rule, c.job)
           next == [made EXCEPT !.revision = @ + 1]
           d == [at |-> "update", job |-> c.job, print |-> c.print, count |-> c.count, tries |-> c.tries, todo |-> c.todo,
                 rule |-> f, read |-> rule.revision, next |-> next]
<1>1. /\ UNCHANGED <<store, history, budget>> /\ c.at = "rules" /\ f \in c.todo
  BY DEF Guard!ReadRule, Guard!Rest
<1>2. /\ Listed(c, store)
      /\ c = [at |-> "rules", job |-> c.job, print |-> c.print, count |-> c.count, tries |-> c.tries, todo |-> c.todo]
  BY <1>1 DEF RuleInv, GuardCall, Guard!Idle
<1>3. \/ c.job # "failure" /\ calls' = [calls EXCEPT ![p] = Guard!Idle]
      \/ made = rule /\ calls' = [calls EXCEPT ![p] = Guard!Done(c, f)]
      \/ calls' = [calls EXCEPT ![p] = d]
  BY DEF Guard!ReadRule, Guard!To
<1>4. \A g : Borne(c, g, store) <=> c.job = "failure" /\ g = c.print /\ c.count = store.prints[g].count /\ g \in c.todo
  BY <1>1 DEF Borne, Carries, Guard!Idle
<1>5. CASE c.job # "failure" /\ calls' = [calls EXCEPT ![p] = Guard!Idle]
  BY <1>1, <1>4, <1>5, RepeatReads
<1>6. CASE made = rule /\ calls' = [calls EXCEPT ![p] = Guard!Done(c, f)]
  <2>1. ASSUME NEW g \in Prints, Borne(c, g, store) PROVE Guarded(g, store) \/ Borne(Guard!Done(c, f), g, store)
    <3>1. CASE g = f
      <4>1. made = Guard!EvaluatedRule(rule, TRUE, c.count)
        BY <1>4, <2>1, <3>1
      <4>2. rule # None /\ RuleRow(rule) /\ rule.count <= store.prints[f].count /\ store.prints[f].count \in Nat
        BY <1>1, <1>2, RuleTypes DEF Listed, RuleInv, RuleKnown, RowsAreTyped
      <4>3. rule \in RuleSet /\ rule.count \in Nat
        BY <4>2 DEF RuleRow, RuleSet
      <4>4. c.count = store.prints[f].count
        BY <1>4, <2>1, <3>1
      <4>5. [Guard!EvaluatedRule(rule, TRUE, c.count) EXCEPT !.revision = @ + 1].count
              = IF TRUE /\ c.count > rule.count THEN c.count ELSE rule.count
        <5>1. Repeats \in Nat /\ TRUE \in BOOLEAN /\ c.count \in Nat
          BY <4>2, <4>4 DEF GuardConstants
        <5> QED BY <4>2, <5>1, FailuresAreEvaluated
      <4>6. [rule EXCEPT !.revision = @ + 1].count = rule.count
        BY <4>3 DEF RuleSet
      <4>7. rule.count = c.count
        <5>1. Guard!EvaluatedRule(rule, TRUE, c.count) = rule
          <6>1. made = rule
            BY <1>6
          <6> HIDE DEF made, rule, c
          <6> QED BY <4>1, <6>1
        <5>2. rule.count = IF TRUE /\ c.count > rule.count THEN c.count ELSE rule.count
          BY <4>5, <4>6, <5>1
        <5> QED BY <4>2, <4>3, <4>4, <5>2
      <4> QED BY <3>1, <4>2, <4>4, <4>7 DEF Guarded
    <3>2. CASE g # f
      <4>1. c.todo # {f} /\ g \in c.todo /\ g = c.print /\ c.job = "failure" /\ c.count = store.prints[g].count
        BY <1>4, <2>1, <3>2
      <4> DEFINE rest == Guard!Done(c, f)
      <4>2. rest.at = "rules" /\ rest.todo = c.todo \ {f} /\ rest.job = c.job /\ rest.print = c.print /\ rest.count = c.count
        BY <1>1, <1>2, <4>1, DoneIsKnown
      <4> HIDE DEF rest
      <4>3. rest # Guard!Idle
        BY <4>2 DEF Guard!Idle
      <4>4. Borne(rest, g, store)
        BY <3>2, <4>1, <4>2, <4>3 DEF Borne, Carries
      <4> QED BY <4>4 DEF rest
    <3> QED BY <3>1, <3>2
  <2> QED BY <1>1, <1>6, <2>1, RepeatReads
<1>7. CASE calls' = [calls EXCEPT ![p] = d]
  <2>1. d.at = "update" /\ d.job = c.job /\ d.print = c.print /\ d.count = c.count /\ d.todo = c.todo /\ d # Guard!Idle
    BY DEF Guard!Idle
  <2> HIDE DEF d
  <2>2. \A g \in Prints : Borne(c, g, store) => Borne(d, g, store)
    BY <1>4, <2>1 DEF Borne, Carries
  <2> QED BY <1>1, <1>7, <2>2, RepeatReads
<1> QED BY <1>3, <1>5, <1>6, <1>7

LEMMA RepeatUpdate ==
  ASSUME GuardConstants, RuleInv, RepeatInv, NEW p \in Processes, Guard!UpdateRule(p)
  PROVE  RepeatInv'
<1> DEFINE c == calls[p]
           f == c.rule
           rule == store.rules[f]
           again == [at |-> "rules", job |-> c.job, print |-> c.print, count |-> c.count, tries |-> c.tries, todo |-> c.todo]
           retry == [again EXCEPT !.tries = @ - 1]
           rest == Guard!Done(again, f)
<1>1. c.at = "update" /\ GuardCall(c, store)
  BY DEF Guard!UpdateRule, RuleInv
<1>2. /\ Listed(c, store) /\ f \in c.todo /\ f \in Prints /\ c.count \in Nat /\ c.job \in Jobs
      /\ c.read = rule.revision => Successor(rule, c)
      /\ c.print \in Prints /\ (c.job = "failure" => c.count <= store.prints[c.print].count)
  BY <1>1 DEF GuardCall, Guard!Idle, Listed
<1>3. \/ /\ rule.revision = c.read /\ store' = [store EXCEPT !.rules[f] = c.next]
         /\ calls' = [calls EXCEPT ![p] = rest] /\ UNCHANGED budget
         /\ history' = [history EXCEPT !.updates[f] = @ + 1, !.metrics[f] = Guard!Added(@, c.job, f, c)]
      \/ Guard!Fail(p)
      \/ calls' = [calls EXCEPT ![p] = retry] /\ UNCHANGED <<store, history, budget>>
  BY DEF Guard!UpdateRule, Guard!RevisionIs, Guard!To, Guard!Rest
<1>4. \A g : Borne(c, g, store) <=> c.job = "failure" /\ g = c.print /\ c.count = store.prints[g].count /\ g \in c.todo
  BY <1>1 DEF Borne, Carries, Guard!Idle
<1>5. CASE Guard!Fail(p)
  BY <1>5, FailFrame, RepeatFails DEF Guard!Fail, Guard!To
<1>6. CASE calls' = [calls EXCEPT ![p] = retry] /\ UNCHANGED <<store, history, budget>>
  <2>1. retry.at = "rules" /\ retry.job = c.job /\ retry.print = c.print /\ retry.count = c.count /\ retry.todo = c.todo
        /\ retry # Guard!Idle
    BY DEF Guard!Idle
  <2> HIDE DEF retry
  <2>2. \A g \in Prints : Borne(c, g, store) => Borne(retry, g, store)
    BY <1>4, <2>1 DEF Borne, Carries
  <2> QED BY <1>6, <2>2, RepeatReads
<1>7. CASE /\ rule.revision = c.read /\ store' = [store EXCEPT !.rules[f] = c.next]
           /\ calls' = [calls EXCEPT ![p] = rest] /\ UNCHANGED budget
           /\ history' = [history EXCEPT !.updates[f] = @ + 1, !.metrics[f] = Guard!Added(@, c.job, f, c)]
  <2>1. rule # None /\ RuleRow(rule) /\ rule.count <= store.prints[f].count
        /\ store.prints[f].count \in Nat /\ store.prints[c.print].count \in Nat
    BY <1>2, RuleTypes DEF Listed, RuleInv, RuleKnown, RowsAreTyped
  <2>2. /\ RuleRow(c.next)
        /\ c.next.count = IF c.job = "failure" /\ c.rule = c.print /\ c.count > rule.count THEN c.count ELSE rule.count
    BY <1>2, <1>7, <2>1, UpdatesAreLegal DEF GuardConstants
  <2>3. c.next # None /\ rule.count \in Nat
    BY <2>1, <2>2 DEF RuleRow, RuleSet, GuardConstants
  <2>4. /\ store'.prints = store.prints /\ store'.rules[f] = c.next
        /\ \A g \in Prints : g # f => store'.rules[g] = store.rules[g]
    BY <1>2, <1>7, OneRule
  <2>5. history'.failed = history.failed
    BY <1>7 DEF RuleInv
  <2>6. Guarded(f, store) => Guarded(f, store')
    <3>1. ASSUME rule.count = store.prints[f].count PROVE c.next.count = store.prints[f].count
      <4>1. CASE c.job = "failure" /\ c.rule = c.print
        BY <1>2, <2>1, <2>2, <2>3, <3>1, <4>1
      <4>2. CASE ~(c.job = "failure" /\ c.rule = c.print)
        BY <2>2, <3>1, <4>2
      <4> QED BY <4>1, <4>2
    <3> QED BY <2>3, <2>4, <3>1 DEF Guarded
  <2>7. Borne(c, f, store) => Guarded(f, store')
    <3>1. ASSUME Borne(c, f, store) PROVE c.next.count = store.prints[f].count
      BY <1>2, <1>4, <2>1, <2>2, <2>3, <3>1
    <3> QED BY <2>3, <2>4, <3>1 DEF Guarded
  <2>8. ~Borne(c, f, store) => Spared(f, c, store, store')
    BY <2>3, <2>4, <2>6 DEF Spared
  <2>9. ASSUME NEW g \in Prints, g # f PROVE Borne(rest, g, store') \/ Spared(g, c, store, store')
    <3>1. CASE Borne(c, g, store)
      <4>1. c.todo # {f} /\ g \in c.todo /\ g = c.print /\ c.job = "failure" /\ c.count = store.prints[g].count
        BY <1>4, <2>9, <3>1
      <4>2. /\ again.at = "rules" /\ again.job = c.job /\ again.print = c.print /\ again.count = c.count /\ again.todo = c.todo
            /\ again = [at |-> "rules", job |-> again.job, print |-> again.print, count |-> again.count, tries |-> again.tries, todo |-> again.todo]
        OBVIOUS
      <4> HIDE DEF again
      <4>3. Listed(again, store)
        BY <1>2, <4>2 DEF Listed
      <4>4. rest.at = "rules" /\ rest.todo = again.todo \ {f} /\ rest.job = again.job /\ rest.print = again.print /\ rest.count = again.count
        BY <4>1, <4>2, <4>3, DoneIsKnown
      <4> HIDE DEF rest
      <4>5. rest # Guard!Idle
        BY <4>4 DEF Guard!Idle
      <4> QED BY <2>4, <2>9, <4>1, <4>2, <4>4, <4>5 DEF Borne, Carries
    <3>2. CASE ~Borne(c, g, store)
      BY <2>4, <2>9, <3>2, NothingTaken
    <3> QED BY <3>1, <3>2
  <2> HIDE DEF rest
  <2>10. \A g \in Prints : Guarded(g, store') \/ Borne(rest, g, store') \/ Spared(g, c, store, store')
    BY <2>7, <2>8, <2>9
  <2> QED BY <1>7, <2>5, <2>10, RepeatFrame
<1> QED BY <1>3, <1>5, <1>6, <1>7

LEMMA RepeatStep ==
  ASSUME GuardConstants, RuleInv, RepeatInv, Guard!SafeguardNext
  PROVE  RepeatInv'
<1>1. PICK p \in Processes : Guard!SafeguardStep(p) \/ Guard!SafeguardRequest(p)
  BY DEF Guard!SafeguardNext
<1>2. CASE Guard!ReadPrint(p)
  <2> DEFINE c == calls[p]
             d == [at |-> "merge", print |-> c.print, evidence |-> c.evidence, tries |-> c.tries, read |-> store.prints[c.print]]
  <2>1. /\ UNCHANGED <<store, history, budget>> /\ calls' = [calls EXCEPT ![p] = d] /\ c.at = "evidence"
    BY <1>2 DEF Guard!ReadPrint, Guard!To, Guard!Rest
  <2>2. d.at = "merge" /\ d.print = c.print /\ d # Guard!Idle
    BY DEF Guard!Idle
  <2> HIDE DEF d
  <2>3. \A f \in Prints : Borne(c, f, store) => Borne(d, f, store)
    BY <2>1, <2>2 DEF Borne, Carries
  <2> QED BY <2>1, <2>3, RepeatReads
<1>3. CASE Guard!NoRules(p)
  <2>1. /\ UNCHANGED <<store, history, budget>> /\ calls' = [calls EXCEPT ![p] = Guard!Idle]
        /\ calls[p].at = "rules" /\ calls[p].todo = {}
    BY <1>3 DEF Guard!NoRules, Guard!To, Guard!Rest
  <2>2. \A f \in Prints : ~Borne(calls[p], f, store)
    BY <2>1 DEF Borne, Carries
  <2> QED BY <2>1, <2>2, RepeatReads
<1>4. CASE Guard!Die(p)
  BY <1>4, FailFrame, RepeatFails DEF Guard!Die, Guard!To
<1>5. CASE \E f \in Prints : Guard!Occur(p, f) \/ \E decision \in Guard!Decisions : Guard!Decide(p, f, decision)
  <2>1. PICK f \in Prints : Guard!Occur(p, f) \/ \E decision \in Guard!Decisions : Guard!Decide(p, f, decision)
    BY <1>5
  <2>2. UNCHANGED <<store, history>> /\ calls[p] = Guard!Idle
    BY <2>1 DEF Guard!Occur, Guard!Decide
  <2>3. PICK d : calls' = [calls EXCEPT ![p] = d]
    <3>1. CASE Guard!Occur(p, f)
      BY <3>1 DEF Guard!Occur, Guard!To
    <3>2. CASE \E decision \in Guard!Decisions : Guard!Decide(p, f, decision)
      BY <3>2 DEF Guard!Decide, Guard!To
    <3> QED BY <2>1, <3>1, <3>2
  <2>4. \A g \in Prints : ~Borne(calls[p], g, store)
    BY <2>2 DEF Borne
  <2> QED BY <2>2, <2>3, <2>4, RepeatReads
<1>6. CASE \E f \in Prints : Guard!ReadRule(p, f)
  BY <1>6, RepeatRead
<1> QED BY <1>1, <1>2, <1>3, <1>4, <1>5, <1>6, RepeatCount, RepeatMerge, RepeatCreate, RepeatList, RepeatUpdate
        DEF Guard!SafeguardStep, Guard!SafeguardRequest

LEMMA GuardInitial ==
  ASSUME GuardConstants, Guard!SafeguardInit
  PROVE  GuardInv
<1>1. /\ store = [prints |-> [f \in Prints |-> [count |-> 0, refs |-> <<>>]], rules |-> [f \in Prints |-> None]]
      /\ calls = [p \in Processes |-> Guard!Idle]
      /\ history = [updates |-> [f \in Prints |-> 1], metrics |-> [f \in Prints |-> Guard!NoMetrics], failed |-> FALSE]
      /\ budget = [failures |-> 0, decisions |-> 0]
  BY DEF Guard!SafeguardInit
<1>2. /\ \A f \in Prints : store.prints[f] = [count |-> 0, refs |-> <<>>] /\ store.rules[f] = None
      /\ \A f \in Prints : history.updates[f] = 1 /\ history.metrics[f] = Guard!NoMetrics
      /\ \A p \in Processes : calls[p] = Guard!Idle
  BY <1>1
<1>3. \A f \in Prints : PrintRow(store.prints[f])
  <2>1. ASSUME NEW row, row = [count |-> 0, refs |-> <<>>] PROVE PrintRow(row)
    <3>1. row.count = 0 /\ row.refs = <<>> /\ <<>> \in Seq(Nat)
      BY <2>1
    <3> QED BY <2>1, <3>1 DEF PrintRow
  <2> QED BY <1>2, <2>1
<1>4. RuleInv
  <2>1. \A f \in Prints : RuleKnown(f, store, history)
    BY <1>2 DEF RuleKnown
  <2>2. \A p \in Processes : GuardCall(calls[p], store)
    BY <1>2, IdleIsKnown
  <2>3. 0 \in 0..MaxFailures
    BY DEF GuardConstants
  <2> QED BY <1>1, <1>3, <2>1, <2>2, <2>3 DEF RuleInv
<1>5. EvidenceInv
  <2>1. \A p \in Processes : calls[p].at = "idle"
    BY <1>2 DEF Guard!Idle
  <2>2. \A f \in Prints : Uncounted(calls, f) = {} /\ Pending(calls, store.prints, f) = {}
    BY <2>1 DEF Uncounted, Pending
  <2>3. \A f \in Prints : Cardinality(Uncounted(calls, f)) = 0 /\ Cardinality(Pending(calls, store.prints, f)) = 0
    BY <2>2, FS_EmptySet
  <2>4. \A f \in Prints : store.prints[f].count = 0 /\ store.prints[f].refs = <<>> /\ Len(store.prints[f].refs) = 0
    BY <1>2
  <2>5. \A f \in Prints : Guard!Range(store.prints[f].refs) = {}
    BY <2>4 DEF Guard!Range
  <2>6. Apart(calls, budget.failures) /\ \A f \in Prints : Fresh(calls, Refs(f), budget.failures)
    BY <2>1, <2>5 DEF Apart, Fresh, Refs, Carrying
  <2>7. \A f \in Prints : Balanced(0, 0, 0, 0, 0, history.failed)
    BY DEF Balanced, GuardConstants
  <2>8. budget.failures = 0
    BY <1>1
  <2> QED BY <2>3, <2>4, <2>6, <2>7, <2>8, EvidenceParts
<1>6. RepeatInv
  BY <1>2 DEF RepeatInv, GuardConstants
<1> QED BY <1>4, <1>5, <1>6 DEF GuardInv

LEMMA GuardStutters ==
  ASSUME GuardInv, UNCHANGED vars
  PROVE  GuardInv'
<1>1. UNCHANGED <<store, calls, history, budget>>
  BY DEF vars
<1>2. RuleInv'
  BY <1>1 DEF GuardInv, RuleInv
<1>3. EvidenceInv'
  BY <1>1 DEF GuardInv, EvidenceInv, Uncounted, Pending
<1>4. RepeatInv'
  BY <1>1 DEF GuardInv, RepeatInv
<1> QED BY <1>2, <1>3, <1>4 DEF GuardInv

LEMMA GuardIsSound ==
  ASSUME GuardConstants
  PROVE  GuardSpec => []GuardInv
<1>1. Guard!SafeguardInit => GuardInv
  BY GuardInitial
<1>2. GuardInv /\ [Guard!SafeguardNext]_vars => GuardInv'
  BY RuleStep, EvidenceStep, RepeatStep, GuardStutters DEF GuardInv
<1> QED BY <1>1, <1>2, PTL DEF GuardSpec

LEMMA GuardInvariantMeans ==
  ASSUME GuardConstants, GuardInv
  PROVE  Guard!SafeguardTypeOK /\ Guard!UpdatesAreKept /\ Guard!RepeatsAreGuarded
<1>1. RuleInv /\ EvidenceInv /\ RepeatInv
  BY DEF GuardInv
<1>2. \A f \in Prints : store.rules[f] # None =>
        RuleRow(store.rules[f]) /\ store.rules[f].revision = history.updates[f] /\ store.rules[f].metrics = history.metrics[f]
  BY <1>1 DEF RuleInv, RuleKnown
<1>3. Guard!UpdatesAreKept
  BY <1>2 DEF Guard!UpdatesAreKept
<1>4. ASSUME NEW f \in Prints
      PROVE  /\ store.prints[f].count \in 0..MaxFailures /\ Len(store.prints[f].refs) <= MaxRefs
             /\ (\A p \in Processes : calls[p] = Guard!Idle) /\ ~history.failed =>
                  Len(store.prints[f].refs) = IF store.prints[f].count < MaxRefs THEN store.prints[f].count ELSE MaxRefs
  <2> DEFINE k == store.prints[f].count
             l == Len(store.prints[f].refs)
             u == Cardinality(Uncounted(calls, f))
             n == Cardinality(Pending(calls, store.prints, f))
  <2>1. k \in Nat /\ l \in Nat /\ u \in Nat /\ n \in Nat /\ budget.failures \in Nat /\ MaxFailures \in Nat
        /\ MaxRefs \in Nat \ {0} /\ budget.failures <= MaxFailures
    BY <1>1, PrintTypes, FiniteHandlers DEF RuleInv, GuardConstants
  <2>2. Balanced(k, l, u, n, budget.failures, history.failed)
    BY <1>1, EvidenceParts
  <2>3. (\A p \in Processes : calls[p] = Guard!Idle) => n = 0
    <3>1. (\A p \in Processes : calls[p] = Guard!Idle) => Pending(calls, store.prints, f) = {}
      BY DEF Pending, Guard!Idle
    <3> QED BY <3>1, FS_EmptySet
  <2> HIDE DEF k, l, u, n
  <2>4. k \in 0..MaxFailures /\ l <= MaxRefs
    BY <2>1, <2>2 DEF Balanced
  <2>5. n = 0 /\ ~history.failed => l = IF k < MaxRefs THEN k ELSE MaxRefs
    <3>1. k + u <= budget.failures /\ l <= MaxRefs /\ (l = MaxRefs => k >= MaxRefs)
          /\ (l < MaxRefs => l + n <= k) /\ (l < MaxRefs /\ ~history.failed => l + n = k)
      BY <2>2 DEF Balanced
    <3>2. ASSUME n = 0, l < MaxRefs => l + n = k PROVE l = IF k < MaxRefs THEN k ELSE MaxRefs
      BY <2>1, <3>1, <3>2
    <3> QED BY <3>1, <3>2
  <2> QED BY <2>3, <2>4, <2>5 DEF k, l
<1>5. Guard!SafeguardTypeOK
  BY <1>2, <1>4 DEF Guard!SafeguardTypeOK, Guard!RuleIsValid, RuleRow, RuleSet
<1>6. (\A p \in Processes : calls[p] = Guard!Idle) /\ ~history.failed =>
        \A f \in Prints : store.prints[f].count >= Repeats => Guarded(f, store)
  BY <1>1 DEF RepeatInv
<1>7. Guard!RepeatsAreGuarded
  BY <1>4, <1>6 DEF Guard!RepeatsAreGuarded, Guarded
<1> QED BY <1>3, <1>5, <1>7

\* Two processes that evaluate failures and take decisions on one rule lose nothing
\* of each other: its revision counts the confirmed updates, and its metrics are
\* what they have added up to (updateSafeguardRule, internal/app/safeguard.go, and
\* the compare-and-set of UpdateSafeguardRule, internal/store/repository.go).
THEOREM SafeguardUpdatesAreKept ==
  ASSUME GuardConstants
  PROVE  GuardSpec => []Guard!UpdatesAreKept
BY GuardInvariantMeans, GuardIsSound, PTL

\* When no handler runs and none has failed, every failure that was repeated has a
\* rule that knows how often, and as many references as are kept, although counting,
\* merging, creating and evaluating are steps of their own
\* (recordFailureOccurrence, internal/app/safeguard.go).
THEOREM RepeatedFailuresAreGuarded ==
  ASSUME GuardConstants
  PROVE  GuardSpec => []Guard!RepeatsAreGuarded
BY GuardInvariantMeans, GuardIsSound, PTL

\* Every stored rule passes the validation of SafeguardRule, though the updates are
\* computed from rows read before, and a row keeps no more evidence than its limit.
THEOREM SafeguardRowsAreValid ==
  ASSUME GuardConstants
  PROVE  GuardSpec => []Guard!SafeguardTypeOK
BY GuardInvariantMeans, GuardIsSound, PTL

\* A rule becomes active only when its own metrics have earned it at the moment of
\* the update, not when they were read, and a retired rule stays as it is.
THEOREM SafeguardsAreEarned ==
  ASSUME GuardConstants
  PROVE  GuardSpec => [][Guard!ActivationIsEarned]_vars
<1>1. GuardInv /\ [Guard!SafeguardNext]_vars => [Guard!ActivationIsEarned]_vars
  BY RuleStep DEF GuardInv
<1> QED BY <1>1, GuardIsSound, PTL DEF GuardSpec

-----------------------------------------------------------------------------
(* QualityObjective: a handler holds a version of the objective; its update  *)
(* is stored only if that version is the stored one, so what was checked of  *)
(* it holds of what is stored.                                               *)
Obj == INSTANCE QualityObjective

ObjectiveSpec == Obj!ObjectiveInit /\ [][Obj!ObjectiveNext]_vars
Configs == [runner : Runners, profile : Nat]
RunSet == [head : Heads, config : Configs, percent : Percents, outcome : Obj!Outcomes]
RevalidationSet ==
  [kind : {"finding", "go_coverage"}, source : Nat, head : Heads, config : Configs \cup {None},
   reason : Obj!Improved \cup {"active", "config_mismatch", "head_mismatch", "profile_missing", "tests_failed",
                               "runner_unavailable", "threshold_not_met"}]
SignalSet == {[kind |-> "finding"]} \cup [kind : {"go_coverage"}, config : Configs]
ObjectiveSet ==
  [state : {"draft", "ready", "blocked", "review", "adopted", "rejected"}, revision : Nat \ {0}, head : Heads,
   signal : SignalSet \cup {None}, decision : Obj!Decision \cup {None}, revalidations : Seq(RevalidationSet)]
\* Coverage is in natural numbers; None is no objective and no part of one.
ObjectiveConstants ==
  /\ None \notin ObjectiveSet /\ None \notin SignalSet /\ None \notin Obj!Decision
  /\ Percents \subseteq Nat /\ MaxRevalidations \in Nat \ {0}

\* A revalidation of coverage is what its run says; it has met the minimum of a decision.
RunIs(v, runs) == v.source \in DOMAIN runs /\ v.head = runs[v.source].head /\ v.config = runs[v.source].config
Backed(v, decision, runs) ==
  v.kind = "go_coverage" =>
    /\ RunIs(v, runs) /\ v.reason # "resolved"
    /\ v.reason = "threshold_met" => runs[v.source].outcome = "collected" /\ runs[v.source].percent >= decision.minimum
Sound(o, runs) ==
  /\ o \in ObjectiveSet /\ Len(o.revalidations) <= MaxRevalidations
  /\ o.state \in {"review", "adopted"} =>
       o.revalidations # <<>> /\ o.decision # None /\ Backed(Head(o.revalidations), o.decision, runs)
  /\ o.state = "adopted" => Head(o.revalidations).kind = "go_coverage" /\ Head(o.revalidations).reason \in Obj!Improved
Version(o, rows) ==
  /\ Sound(o, rows.runs) /\ rows.objective # None /\ o.revision <= rows.objective.revision
  /\ o.revision = rows.objective.revision => o = rows.objective
\* The disk as an adoption has seen it is that of the run which proves it.
Witnessed(o, disk, runs) ==
  LET run == runs[Head(o.revalidations).source] IN disk = [head |-> run.head, config |-> run.config]
AsMany(n) == IF n < MaxRevalidations THEN n ELSE MaxRevalidations
ObjectiveCall(c, rows) ==
  \/ c = Obj!Idle
  \/ c.at = "derive" /\ c = [at |-> "derive", read |-> c.read] /\ Version(c.read, rows) /\ c.read.signal # None /\ c.read.decision # None
  \/ /\ c.at \in {"worktree", "evidence"} /\ c = [at |-> c.at, read |-> c.read, head |-> c.head] /\ Version(c.read, rows)
     /\ c.at = "evidence" => c.read.revalidations # <<>>
  \/ /\ c.at = "update" /\ c = [at |-> "update", read |-> c.read, next |-> c.next, job |-> c.job, disk |-> c.disk]
     /\ Version(c.read, rows) /\ c.read.state \notin Obj!Terminal
     /\ Sound(c.next, rows.runs) /\ c.next.revision = c.read.revision + 1
     /\ Len(c.next.revalidations) =
          IF c.job = "revalidate" THEN AsMany(Len(c.read.revalidations) + 1) ELSE Len(c.read.revalidations)
     /\ c.next.state = "adopted" => c.job = "confirm" /\ Witnessed(c.next, c.disk, rows.runs)
RowsTyped(rows) ==
  /\ rows = [objective |-> rows.objective, head |-> rows.head, runs |-> rows.runs, finding |-> rows.finding]
  /\ rows.head \in Heads /\ rows.runs \in Seq(RunSet)
ObjectiveKnown(rows, happened) ==
  /\ happened.updates \in Nat /\ happened.revalidations \in Nat
  /\ rows.objective = None => happened.updates = 0 /\ happened.revalidations = 0
  /\ rows.objective # None =>
       /\ Sound(rows.objective, rows.runs) /\ rows.objective.revision = happened.updates + 1
       /\ Len(rows.objective.revalidations) = AsMany(happened.revalidations)
       /\ rows.objective.state = "adopted" => Witnessed(rows.objective, happened.adopted, rows.runs)
WorldTyped(w) == w = [head |-> w.head, runner |-> w.runner, intact |-> w.intact] /\ w.head \in Heads /\ w.runner \in Runners
ObjectiveInv ==
  /\ RowsTyped(store) /\ ObjectiveKnown(store, history) /\ WorldTyped(world)
  /\ calls = [u \in Users |-> calls[u]] /\ \A u \in Users : ObjectiveCall(calls[u], store)

\* Runs are only added, and an objective only gets newer versions.
RunsKept(runs, then) == \A r \in DOMAIN runs : r \in DOMAIN then /\ then[r] = runs[r]
Newer(old, new) ==
  \/ new = old \/ old = None
  \/ new \in ObjectiveSet /\ old \in ObjectiveSet /\ new # None /\ new.revision > old.revision

LEMMA SoundStays ==
  ASSUME NEW o, NEW runs, NEW then, Sound(o, runs), RunsKept(runs, then)
  PROVE  Sound(o, then)
<1> DEFINE v == Head(o.revalidations)
           d == o.decision
<1>1. /\ o \in ObjectiveSet /\ Len(o.revalidations) <= MaxRevalidations
      /\ o.state \in {"review", "adopted"} => o.revalidations # <<>> /\ o.decision # None /\ Backed(v, d, runs)
      /\ o.state = "adopted" => v.kind = "go_coverage" /\ v.reason \in Obj!Improved
  BY DEF Sound
<1> HIDE DEF v, d
<1>2. Backed(v, d, runs) => Backed(v, d, then)
  BY DEF Backed, RunIs, RunsKept
<1> USE DEF v, d
<1> QED BY <1>1, <1>2 DEF Sound

LEMMA VersionStays ==
  ASSUME NEW o, NEW rows, NEW then, Version(o, rows), RunsKept(rows.runs, then.runs),
         Newer(rows.objective, then.objective)
  PROVE  Version(o, then)
<1>1. /\ Sound(o, rows.runs) /\ rows.objective # None /\ o.revision <= rows.objective.revision
      /\ o.revision = rows.objective.revision => o = rows.objective
  BY DEF Version
<1>2. Sound(o, then.runs)
  BY <1>1, SoundStays
<1>3. CASE then.objective = rows.objective
  BY <1>1, <1>2, <1>3 DEF Version
<1>4. CASE /\ then.objective \in ObjectiveSet /\ rows.objective \in ObjectiveSet
           /\ then.objective # None /\ then.objective.revision > rows.objective.revision
  <2> DEFINE k == o.revision
             m == rows.objective.revision
             n == then.objective.revision
  <2>1. o \in ObjectiveSet
    BY <1>1 DEF Sound
  <2>2. k \in Nat
    BY <2>1 DEF ObjectiveSet
  <2>3. m \in Nat /\ n \in Nat
    BY <1>4 DEF ObjectiveSet
  <2>4. k <= m /\ n > m
    BY <1>1, <1>4
  <2> HIDE DEF k, m, n
  <2>5. k <= n /\ k # n
    BY <2>2, <2>3, <2>4
  <2> USE DEF k, m, n
  <2> QED BY <1>2, <1>4, <2>5 DEF Version
<1> QED BY <1>1, <1>3, <1>4 DEF Newer

LEMMA ObjectiveCallStays ==
  ASSUME NEW c, NEW rows, NEW then, ObjectiveCall(c, rows), RunsKept(rows.runs, then.runs),
         Newer(rows.objective, then.objective)
  PROVE  ObjectiveCall(c, then)
<1>1. CASE c = Obj!Idle
  BY <1>1 DEF ObjectiveCall
<1>2. CASE c.at = "derive" /\ c = [at |-> "derive", read |-> c.read] /\ Version(c.read, rows) /\ c.read.signal # None /\ c.read.decision # None
  <2>1. Version(c.read, then)
    BY <1>2, VersionStays
  <2> QED BY <1>2, <2>1 DEF ObjectiveCall
<1>3. CASE /\ c.at \in {"worktree", "evidence"} /\ c = [at |-> c.at, read |-> c.read, head |-> c.head] /\ Version(c.read, rows)
           /\ c.at = "evidence" => c.read.revalidations # <<>>
  <2>1. Version(c.read, then)
    BY <1>3, VersionStays
  <2> QED BY <1>3, <2>1 DEF ObjectiveCall
<1>4. CASE /\ c.at = "update" /\ c = [at |-> "update", read |-> c.read, next |-> c.next, job |-> c.job, disk |-> c.disk]
           /\ Version(c.read, rows) /\ c.read.state \notin Obj!Terminal
           /\ Sound(c.next, rows.runs) /\ c.next.revision = c.read.revision + 1
           /\ Len(c.next.revalidations) =
                IF c.job = "revalidate" THEN AsMany(Len(c.read.revalidations) + 1) ELSE Len(c.read.revalidations)
           /\ c.next.state = "adopted" => c.job = "confirm" /\ Witnessed(c.next, c.disk, rows.runs)
  <2>1. Version(c.read, then) /\ Sound(c.next, then.runs)
    BY <1>4, VersionStays, SoundStays
  <2>2. c.next.state = "adopted" => Witnessed(c.next, c.disk, then.runs)
    <3> SUFFICES ASSUME c.next.state = "adopted" PROVE Witnessed(c.next, c.disk, then.runs)
      OBVIOUS
    <3> DEFINE r == Head(c.next.revalidations).source
    <3>1. r \in DOMAIN rows.runs
      BY <1>4 DEF Sound, Backed, RunIs
    <3>2. then.runs[r] = rows.runs[r]
      BY <3>1 DEF RunsKept
    <3> QED BY <1>4, <3>2 DEF Witnessed
  <2> QED BY <1>4, <2>1, <2>2 DEF ObjectiveCall
<1> QED BY <1>1, <1>2, <1>3, <1>4 DEF ObjectiveCall

LEMMA ObjectiveKnownStays ==
  ASSUME NEW rows, NEW then, NEW happened, ObjectiveKnown(rows, happened), RunsKept(rows.runs, then.runs),
         then.objective = rows.objective
  PROVE  ObjectiveKnown(then, happened)
<1> DEFINE o == rows.objective
<1>1. o # None => Sound(o, rows.runs) /\ Sound(o, then.runs)
  BY SoundStays DEF ObjectiveKnown
<1>2. o # None /\ o.state = "adopted" => Witnessed(o, happened.adopted, then.runs)
  <2> SUFFICES ASSUME o # None, o.state = "adopted" PROVE Witnessed(o, happened.adopted, then.runs)
    OBVIOUS
  <2> DEFINE r == Head(o.revalidations).source
  <2>1. r \in DOMAIN rows.runs /\ Witnessed(o, happened.adopted, rows.runs)
    BY <1>1 DEF Sound, Backed, RunIs, ObjectiveKnown
  <2>2. then.runs[r] = rows.runs[r]
    BY <2>1 DEF RunsKept
  <2> QED BY <2>1, <2>2 DEF Witnessed
<1> QED BY <1>1, <1>2 DEF ObjectiveKnown

\* A handler goes on with what is known of the rows.
LEMMA ObjectiveTo ==
  ASSUME ObjectiveInv, NEW u \in Users, NEW c, ObjectiveCall(c, store), Obj!To(u, c), Obj!Rest
  PROVE  ObjectiveInv'
<1>1. /\ RowsTyped(store) /\ ObjectiveKnown(store, history) /\ WorldTyped(world)
      /\ calls = [w \in Users |-> calls[w]] /\ \A w \in Users : ObjectiveCall(calls[w], store)
      /\ store' = store /\ world' = world /\ history' = history /\ calls' = [calls EXCEPT ![u] = c]
  BY DEF ObjectiveInv, Obj!To, Obj!Rest
<1>2. calls' = [w \in Users |-> calls'[w]] /\ \A w \in Users : ObjectiveCall(calls'[w], store)
  BY <1>1
<1> QED BY <1>1, <1>2 DEF ObjectiveInv

\* The stored objective, as a handler reads it.
LEMMA ReadsTheVersion ==
  ASSUME ObjectiveInv, store.objective # None
  PROVE  Version(store.objective, store)
<1>1. Sound(store.objective, store.runs)
  BY DEF ObjectiveInv, ObjectiveKnown
<1>2. store.objective.revision \in Nat
  BY <1>1 DEF Sound, ObjectiveSet
<1> QED BY <1>1, <1>2 DEF Version

LEMMA ObjectiveStarts ==
  ASSUME Obj!ObjectiveInit
  PROVE  ObjectiveInv
<1>1. RowsTyped(store)
  <2>1. <<>> \in Seq(RunSet)
    OBVIOUS
  <2> QED BY <2>1 DEF Obj!ObjectiveInit, RowsTyped
<1>2. ObjectiveKnown(store, history)
  BY DEF Obj!ObjectiveInit, ObjectiveKnown
<1>3. WorldTyped(world)
  BY DEF Obj!ObjectiveInit, WorldTyped
<1>4. calls = [u \in Users |-> calls[u]] /\ \A u \in Users : ObjectiveCall(calls[u], store)
  BY DEF Obj!ObjectiveInit, ObjectiveCall
<1> QED BY <1>1, <1>2, <1>3, <1>4 DEF ObjectiveInv

LEMMA ObjectiveCreate ==
  ASSUME ObjectiveConstants, ObjectiveInv, NEW u \in Users, Obj!Create(u)
  PROVE  ObjectiveInv'
<1>1. PICK signal \in Obj!Signals : store' = [store EXCEPT !.objective =
       [state |-> "draft", revision |-> 1, head |-> store.head, signal |-> signal, decision |-> None, revalidations |-> <<>>]]
  BY DEF Obj!Create
<1> DEFINE o == [state |-> "draft", revision |-> 1, head |-> store.head, signal |-> signal, decision |-> None,
                 revalidations |-> <<>>]
<1>2. /\ RowsTyped(store) /\ ObjectiveKnown(store, history) /\ WorldTyped(world)
      /\ calls = [w \in Users |-> calls[w]] /\ \A w \in Users : ObjectiveCall(calls[w], store)
      /\ store.objective = None /\ calls' = calls /\ world' = world /\ history' = history
  BY DEF ObjectiveInv, Obj!Create
<1>3. store' = [objective |-> o, head |-> store.head, runs |-> store.runs, finding |-> store.finding]
  BY <1>1, <1>2 DEF RowsTyped
<1>4. signal \in SignalSet \cup {None}
  <2>1. CASE \E run \in Obj!ToSet(store.runs) : signal = [kind |-> "go_coverage", config |-> run.config]
    <3>1. PICK run \in Obj!ToSet(store.runs) : signal = [kind |-> "go_coverage", config |-> run.config]
      BY <2>1
    <3>2. run \in RunSet
      BY <1>2 DEF RowsTyped, Obj!ToSet
    <3>3. run.config \in Configs
      BY <3>2 DEF RunSet
    <3> QED BY <3>1, <3>3 DEF SignalSet
  <2> QED BY <2>1 DEF Obj!Signals, SignalSet
<1>5. o \in ObjectiveSet
  <2>1. <<>> \in Seq(RevalidationSet)
    OBVIOUS
  <2> QED BY <1>2, <1>4, <2>1 DEF ObjectiveSet, RowsTyped
<1>6. Sound(o, store.runs)
  <2>1. Len(o.revalidations) <= MaxRevalidations
    BY DEF ObjectiveConstants
  <2> QED BY <1>5, <2>1 DEF Sound
<1>7. ObjectiveKnown(store', history)
  <2>1. history.updates = 0 /\ history.revalidations = 0
    BY <1>2 DEF ObjectiveKnown
  <2>2. o.revision = 0 + 1 /\ Len(o.revalidations) = AsMany(0) /\ o.state # "adopted"
    BY DEF AsMany, ObjectiveConstants
  <2>3. o # None
    BY <1>5 DEF ObjectiveConstants
  <2> QED BY <1>3, <1>6, <2>1, <2>2, <2>3 DEF ObjectiveKnown
<1>8. RowsTyped(store')
  BY <1>2, <1>3 DEF RowsTyped
<1>9. RunsKept(store.runs, store'.runs) /\ Newer(store.objective, store'.objective)
  BY <1>2, <1>3 DEF RunsKept, Newer
<1>10. \A w \in Users : ObjectiveCall(calls[w], store')
  BY <1>2, <1>9, ObjectiveCallStays
<1> QED BY <1>2, <1>7, <1>8, <1>10 DEF ObjectiveInv

\* What a handler makes of an objective that it has read.
LEMMA ObjectiveMade ==
  ASSUME NEW o, NEW x, NEW y, NEW z,
         o = [state |-> o.state, revision |-> o.revision, head |-> o.head, signal |-> o.signal,
              decision |-> o.decision, revalidations |-> o.revalidations]
  PROVE  /\ [o EXCEPT !.state = x, !.revision = @ + 1] =
              [state |-> x, revision |-> o.revision + 1, head |-> o.head, signal |-> o.signal,
               decision |-> o.decision, revalidations |-> o.revalidations]
         /\ [o EXCEPT !.decision = y, !.state = x, !.revision = @ + 1] =
              [state |-> x, revision |-> o.revision + 1, head |-> o.head, signal |-> o.signal,
               decision |-> y, revalidations |-> o.revalidations]
         /\ [o EXCEPT !.revalidations = z, !.state = x, !.revision = @ + 1] =
              [state |-> x, revision |-> o.revision + 1, head |-> o.head, signal |-> o.signal,
               decision |-> o.decision, revalidations |-> z]
<1> DEFINE s == [o EXCEPT !.state = x]
           d == [o EXCEPT !.decision = y]
           ds == [d EXCEPT !.state = x]
           r == [o EXCEPT !.revalidations = z]
           rs == [r EXCEPT !.state = x]
<1>1. s = [state |-> x, revision |-> o.revision, head |-> o.head, signal |-> o.signal,
               decision |-> o.decision, revalidations |-> o.revalidations]
  OBVIOUS
<1>2. d = [state |-> o.state, revision |-> o.revision, head |-> o.head, signal |-> o.signal,
               decision |-> y, revalidations |-> o.revalidations]
  OBVIOUS
<1>3. r = [state |-> o.state, revision |-> o.revision, head |-> o.head, signal |-> o.signal,
               decision |-> o.decision, revalidations |-> z]
  OBVIOUS
<1>4. [o EXCEPT !.state = x, !.revision = @ + 1] = [s EXCEPT !.revision = @ + 1]
  OBVIOUS
<1>5. [o EXCEPT !.decision = y, !.state = x, !.revision = @ + 1] = [ds EXCEPT !.revision = @ + 1]
  OBVIOUS
<1>6. [o EXCEPT !.revalidations = z, !.state = x, !.revision = @ + 1] = [rs EXCEPT !.revision = @ + 1]
  OBVIOUS
<1> HIDE DEF d, r
<1>7. ds = [state |-> x, revision |-> o.revision, head |-> o.head, signal |-> o.signal,
               decision |-> y, revalidations |-> o.revalidations]
  BY <1>2
<1>8. rs = [state |-> x, revision |-> o.revision, head |-> o.head, signal |-> o.signal,
               decision |-> o.decision, revalidations |-> z]
  BY <1>3
<1> HIDE DEF s, ds, rs
<1>9. [s EXCEPT !.revision = @ + 1] = [state |-> x, revision |-> o.revision + 1, head |-> o.head, signal |-> o.signal,
               decision |-> o.decision, revalidations |-> o.revalidations]
  BY <1>1
<1>10. [ds EXCEPT !.revision = @ + 1] = [state |-> x, revision |-> o.revision + 1, head |-> o.head, signal |-> o.signal,
               decision |-> y, revalidations |-> o.revalidations]
  BY <1>7
<1>11. [rs EXCEPT !.revision = @ + 1] = [state |-> x, revision |-> o.revision + 1, head |-> o.head, signal |-> o.signal,
               decision |-> o.decision, revalidations |-> z]
  BY <1>8
<1> QED BY <1>4, <1>5, <1>6, <1>9, <1>10, <1>11

LEMMA NextVersion ==
  ASSUME NEW o \in ObjectiveSet, NEW decision \in Obj!Decision, NEW kept \in Seq(RevalidationSet),
         NEW state \in {"draft", "ready", "blocked", "review", "adopted", "rejected"}
  PROVE  /\ [state |-> state, revision |-> o.revision + 1, head |-> o.head, signal |-> o.signal,
             decision |-> o.decision, revalidations |-> o.revalidations] \in ObjectiveSet
         /\ [state |-> state, revision |-> o.revision + 1, head |-> o.head, signal |-> o.signal,
             decision |-> decision, revalidations |-> o.revalidations] \in ObjectiveSet
         /\ [state |-> state, revision |-> o.revision + 1, head |-> o.head, signal |-> o.signal,
             decision |-> o.decision, revalidations |-> kept] \in ObjectiveSet
<1>1. o.revision \in Nat \ {0} /\ o.head \in Heads /\ o.signal \in SignalSet \cup {None}
  BY DEF ObjectiveSet
<1>2. o.decision \in Obj!Decision \cup {None} /\ o.revalidations \in Seq(RevalidationSet)
  BY DEF ObjectiveSet
<1> DEFINE n == o.revision + 1
<1>3. n \in Nat \ {0}
  BY <1>1
<1> HIDE DEF n
<1> QED BY <1>1, <1>2, <1>3 DEF ObjectiveSet

LEMMA ObjectiveFields ==
  ASSUME NEW o \in ObjectiveSet
  PROVE  o = [state |-> o.state, revision |-> o.revision, head |-> o.head, signal |-> o.signal,
              decision |-> o.decision, revalidations |-> o.revalidations]
BY DEF ObjectiveSet

LEMMA ObjectiveDecide ==
  ASSUME ObjectiveConstants, ObjectiveInv, NEW u \in Users, NEW decision \in Obj!Decision, Obj!Decide(u, decision)
  PROVE  ObjectiveInv'
<1> DEFINE o == store.objective
           target == Obj!StateFor(decision.disposition)
           next == [o EXCEPT !.decision = decision, !.state = target, !.revision = @ + 1]
           c == [at |-> "update", read |-> o, job |-> "decide", disk |-> None, next |-> next]
<1>1. o # None /\ o.state \notin Obj!Terminal /\ target \in Obj!Next(o.state) /\ Obj!To(u, c) /\ Obj!Rest
  BY DEF Obj!Decide, Obj!Current
<1>2. Version(o, store)
  BY <1>1, ReadsTheVersion
<1>3. o \in ObjectiveSet /\ Len(o.revalidations) <= MaxRevalidations
  BY <1>2 DEF Version, Sound
<1>4. target \in {"ready", "blocked", "rejected"}
  BY DEF Obj!StateFor
<1>5. /\ next \in ObjectiveSet /\ next.state = target /\ next.revision = o.revision + 1
      /\ next.revalidations = o.revalidations
  <2> HIDE DEF o, target
  <2>1. o = [state |-> o.state, revision |-> o.revision, head |-> o.head, signal |-> o.signal,
             decision |-> o.decision, revalidations |-> o.revalidations]
    BY <1>3, ObjectiveFields
  <2>2. next = [state |-> target, revision |-> o.revision + 1, head |-> o.head, signal |-> o.signal,
                decision |-> decision, revalidations |-> o.revalidations]
    BY <2>1, ObjectiveMade
  <2> HIDE DEF next
  <2>3. next \in ObjectiveSet
    BY <1>3, <1>4, <2>2, NextVersion DEF ObjectiveSet
  <2> QED BY <2>2, <2>3
<1> HIDE DEF next, target, o
<1>6. Sound(next, store.runs)
  BY <1>3, <1>4, <1>5 DEF Sound
<1>7. ObjectiveCall(c, store)
  <2>1. c.next.state # "adopted" /\ c.job = "decide" /\ c.at = "update" /\ c.read = o /\ c.next = next
    BY <1>4, <1>5
  <2>2. c = [at |-> "update", read |-> c.read, next |-> c.next, job |-> c.job, disk |-> c.disk]
    OBVIOUS
  <2> HIDE DEF c
  <2> QED BY <1>1, <1>2, <1>5, <1>6, <2>1, <2>2 DEF ObjectiveCall
<1> QED BY <1>1, <1>7, ObjectiveTo

LEMMA ObjectiveRevalidate ==
  ASSUME ObjectiveInv, NEW u \in Users, Obj!Revalidate(u)
  PROVE  ObjectiveInv'
<1> DEFINE c == [at |-> "derive", read |-> store.objective]
<1>1. /\ store.objective # None /\ store.objective.signal # None /\ store.objective.decision # None
      /\ Obj!To(u, c) /\ Obj!Rest
  BY DEF Obj!Revalidate, Obj!Current
<1>2. Version(store.objective, store)
  BY <1>1, ReadsTheVersion
<1>3. ObjectiveCall(c, store)
  BY <1>1, <1>2 DEF ObjectiveCall
<1> QED BY <1>1, <1>3, ObjectiveTo

LEMMA ObjectiveConfirm ==
  ASSUME ObjectiveInv, NEW u \in Users, Obj!Confirm(u)
  PROVE  ObjectiveInv'
<1> DEFINE c == [at |-> "worktree", read |-> store.objective, head |-> store.head]
<1>1. store.objective # None /\ Obj!To(u, c) /\ Obj!Rest
  BY DEF Obj!Confirm, Obj!Current
<1>2. Version(store.objective, store)
  BY <1>1, ReadsTheVersion
<1>3. ObjectiveCall(c, store)
  BY <1>2 DEF ObjectiveCall
<1> QED BY <1>1, <1>3, ObjectiveTo

LEMMA IdleIsACall == \A rows : ObjectiveCall(Obj!Idle, rows)
BY DEF ObjectiveCall

LEMMA ObjectiveWorktree ==
  ASSUME ObjectiveInv, NEW u \in Users, Obj!CheckWorktree(u)
  PROVE  ObjectiveInv'
<1> DEFINE c == [at |-> "evidence", read |-> calls[u].read, head |-> calls[u].head]
<1>1. calls[u].at = "worktree" /\ ObjectiveCall(calls[u], store)
  BY DEF ObjectiveInv, Obj!CheckWorktree
<1>2. Version(calls[u].read, store)
  BY <1>1 DEF ObjectiveCall, Obj!Idle
<1>3. \/ Obj!To(u, Obj!Idle) /\ Obj!Rest
      \/ calls[u].read.revalidations # <<>> /\ Obj!To(u, c) /\ Obj!Rest
  BY DEF Obj!CheckWorktree
<1>4. calls[u].read.revalidations # <<>> => ObjectiveCall(c, store)
  BY <1>2 DEF ObjectiveCall
<1> QED BY <1>3, <1>4, IdleIsACall, ObjectiveTo

LEMMA ObjectiveEvidence ==
  ASSUME ObjectiveInv, NEW u \in Users, Obj!CheckEvidence(u)
  PROVE  ObjectiveInv'
<1> DEFINE o == calls[u].read
           latest == Head(o.revalidations)
           config == Obj!Config(world.runner, latest.source)
           next == [o EXCEPT !.state = "adopted", !.revision = @ + 1]
           disk == [head |-> calls[u].head, config |-> config]
           c == [at |-> "update", read |-> o, next |-> next, job |-> "confirm", disk |-> disk]
<1>1. calls[u].at = "evidence" /\ ObjectiveCall(calls[u], store)
  BY DEF ObjectiveInv, Obj!CheckEvidence
<1>2. Version(o, store) /\ o.revalidations # <<>>
  BY <1>1 DEF ObjectiveCall, Obj!Idle
<1>3. \/ Obj!To(u, Obj!Idle) /\ Obj!Rest
      \/ /\ Obj!IsFresh(latest, calls[u].head, config) /\ o.state \notin Obj!Terminal /\ "adopted" \in Obj!Next(o.state)
         /\ Obj!To(u, c) /\ Obj!Rest
  BY DEF Obj!CheckEvidence
<1>4. CASE /\ Obj!IsFresh(latest, calls[u].head, config) /\ o.state \notin Obj!Terminal /\ "adopted" \in Obj!Next(o.state)
           /\ Obj!To(u, c) /\ Obj!Rest
  <2>1. Sound(o, store.runs) /\ o \in ObjectiveSet
    BY <1>2 DEF Version, Sound
  <2>2. o.state = "review"
    <3>1. o.state \in {"draft", "ready", "blocked", "review", "adopted", "rejected"}
      BY <2>1 DEF ObjectiveSet
    <3> HIDE DEF o
    <3> QED BY <1>4, <3>1 DEF Obj!Next, Obj!Terminal
  <2>3. o.decision # None /\ Backed(latest, o.decision, store.runs) /\ Len(o.revalidations) <= MaxRevalidations
    BY <2>1, <2>2 DEF Sound
  <2>4. /\ next \in ObjectiveSet /\ next.state = "adopted" /\ next.revision = o.revision + 1
        /\ next.revalidations = o.revalidations /\ next.decision = o.decision
    <3> HIDE DEF o
    <3>1. o = [state |-> o.state, revision |-> o.revision, head |-> o.head, signal |-> o.signal,
               decision |-> o.decision, revalidations |-> o.revalidations]
      BY <2>1, ObjectiveFields
    <3>2. next = [state |-> "adopted", revision |-> o.revision + 1, head |-> o.head, signal |-> o.signal,
                  decision |-> o.decision, revalidations |-> o.revalidations]
      BY <3>1, ObjectiveMade
    <3>3. o.decision \in Obj!Decision \cup {None} /\ o.revalidations \in Seq(RevalidationSet)
      BY <2>1 DEF ObjectiveSet
    <3>4. o.decision \in Obj!Decision
      BY <2>3, <3>3
    <3> HIDE DEF next
    <3>5. next \in ObjectiveSet
      BY <2>1, <3>2, <3>3, <3>4, NextVersion
    <3> QED BY <3>2, <3>5
  <2>5. latest.kind = "go_coverage" /\ latest.reason \in Obj!Improved /\ latest.head = calls[u].head /\ latest.config = config
    BY <1>4 DEF Obj!IsFresh
  <2> HIDE DEF next, config
  <2>6. Sound(next, store.runs)
    BY <1>2, <2>3, <2>4, <2>5 DEF Sound
  <2>7. Witnessed(next, disk, store.runs)
    BY <2>3, <2>4, <2>5 DEF Witnessed, Backed, RunIs
  <2> HIDE DEF o, disk
  <2>8. c.at = "update" /\ c.read = o /\ c.next = next /\ c.job = "confirm" /\ c.disk = disk
    OBVIOUS
  <2>9. c = [at |-> "update", read |-> c.read, next |-> c.next, job |-> c.job, disk |-> c.disk]
    OBVIOUS
  <2> HIDE DEF c
  <2>10. ObjectiveCall(c, store)
    BY <1>2, <1>4, <2>4, <2>6, <2>7, <2>8, <2>9 DEF ObjectiveCall
  <2> QED BY <1>4, <2>10, ObjectiveTo
<1> QED BY <1>3, <1>4, IdleIsACall, ObjectiveTo

LEMMA ObjectiveLose ==
  ASSUME ObjectiveInv, NEW u \in Users, Obj!Lose(u)
  PROVE  ObjectiveInv'
BY IdleIsACall, ObjectiveTo DEF Obj!Lose

\* What a source says is a revalidation, and true of the runs.
LEMMA DerivedIsBacked ==
  ASSUME ObjectiveConstants, RowsTyped(store), NEW o \in ObjectiveSet, o.signal # None, o.decision # None,
         NEW v \in Obj!Derived(o)
  PROVE  v \in RevalidationSet /\ Backed(v, o.decision, store.runs)
<1>1. CASE o.signal.kind = "finding"
  <2>1. PICK reason \in {"resolved", "active"} :
          v = [kind |-> "finding", source |-> 0, head |-> o.head, config |-> None, reason |-> reason]
    BY <1>1 DEF Obj!Derived
  <2>2. o.head \in Heads
    BY DEF ObjectiveSet
  <2> QED BY <2>1, <2>2 DEF RevalidationSet, Backed, Obj!Improved
<1>2. CASE o.signal.kind # "finding"
  <2>1. PICK r \in DOMAIN store.runs :
          v = [kind |-> "go_coverage", source |-> r, head |-> store.runs[r].head, config |-> store.runs[r].config,
               reason |-> Obj!CoverageReason(o, store.runs[r], r)]
    BY <1>2 DEF Obj!Derived
  <2> DEFINE run == store.runs[r]
             reason == Obj!CoverageReason(o, run, r)
  <2>2. run \in RunSet /\ r \in Nat
    BY DEF RowsTyped
  <2>3. run.head \in Heads /\ run.config \in Configs /\ run.percent \in Nat /\ run.outcome \in Obj!Outcomes
    BY <2>2 DEF RunSet, ObjectiveConstants
  <2>4. o.decision.minimum \in Nat
    BY DEF ObjectiveSet, Obj!Decision, ObjectiveConstants
  <2>5. /\ reason \in {"config_mismatch", "head_mismatch", "profile_missing", "tests_failed",
                       "runner_unavailable", "threshold_not_met", "threshold_met"}
        /\ reason = "threshold_met" => run.outcome = "collected" /\ ~(run.percent < o.decision.minimum)
    <3> DEFINE percent == run.percent
               minimum == o.decision.minimum
               outcome == run.outcome
    <3>1. outcome \in {"collected", "tests_failed", "other"}
      BY <2>3 DEF Obj!Outcomes
    <3>2. reason =
      IF run.config # o.signal.config THEN "config_mismatch"
      ELSE IF run.head # store.head THEN "head_mismatch"
      ELSE IF r \notin world.intact THEN "profile_missing"
      ELSE CASE outcome = "tests_failed" -> "tests_failed" [] outcome = "other" -> "runner_unavailable"
             [] OTHER -> IF percent < minimum THEN "threshold_not_met" ELSE "threshold_met"
      BY DEF Obj!CoverageReason
    <3> HIDE DEF percent, minimum, outcome, reason
    <3>3. /\ reason \in {"config_mismatch", "head_mismatch", "profile_missing", "tests_failed",
                         "runner_unavailable", "threshold_not_met", "threshold_met"}
          /\ reason = "threshold_met" => outcome = "collected" /\ ~(percent < minimum)
      BY <3>1, <3>2
    <3> USE DEF percent, minimum, outcome, reason
    <3> QED BY <3>3
  <2>6. reason = "threshold_met" => run.percent >= o.decision.minimum
    BY <2>3, <2>4, <2>5
  <2>7. RunIs(v, store.runs) /\ v.source = r /\ v.reason = reason /\ v.kind = "go_coverage"
    BY <2>1 DEF RunIs
  <2> HIDE DEF reason
  <2>8. v.kind = "go_coverage" /\ v.source \in Nat /\ v.head \in Heads /\ v.config \in Configs
    BY <2>1, <2>2, <2>3
  <2>9. v \in RevalidationSet
    BY <2>1, <2>2, <2>3, <2>5, <2>7 DEF RevalidationSet, Obj!Improved
  <2>10. v.reason # "resolved"
    BY <2>5, <2>7
  <2>11. v.reason = "threshold_met" => store.runs[v.source].outcome = "collected" /\ store.runs[v.source].percent >= o.decision.minimum
    BY <2>5, <2>6, <2>7
  <2> QED BY <2>7, <2>9, <2>10, <2>11 DEF Backed
<1> QED BY <1>1, <1>2

\* The newest revalidation is the first, and as many are kept as the code keeps.
LEMMA KeptRevalidations ==
  ASSUME ObjectiveConstants, NEW v \in RevalidationSet, NEW seq \in Seq(RevalidationSet), Len(seq) <= MaxRevalidations
  PROVE  LET all == <<v>> \o seq
             kept == IF Len(all) > MaxRevalidations THEN Obj!Front(all) ELSE all
         IN /\ kept \in Seq(RevalidationSet) /\ kept # <<>> /\ Head(kept) = v
            /\ Len(kept) = AsMany(Len(seq) + 1) /\ Len(kept) <= MaxRevalidations
<1> DEFINE all == <<v>> \o seq
           n == Len(seq)
           m == MaxRevalidations
           front == SubSeq(all, 1, Len(all) - 1)
<1>1. n \in Nat /\ m \in Nat \ {0} /\ n <= m
  BY DEF ObjectiveConstants
<1>2. all \in Seq(RevalidationSet) /\ Len(all) = n + 1 /\ all[1] = v
  OBVIOUS
<1>3. Obj!Front(all) = front
  BY DEF Obj!Front
<1> HIDE DEF all, n, m
<1>4. CASE n + 1 > m
  <2>1. n = m /\ n >= 1
    BY <1>1, <1>4
  <2>2. front \in Seq(RevalidationSet) /\ Len(front) = n /\ front[1] = v
    BY <1>1, <1>2, <2>1
  <2> HIDE DEF front
  <2>3. front # <<>> /\ Head(front) = v
    BY <2>1, <2>2
  <2>4. AsMany(n + 1) = m
    BY <1>1, <1>4 DEF AsMany, m
  <2>5. Len(all) > m
    BY <1>2, <1>4
  <2> QED BY <1>1, <1>3, <2>1, <2>2, <2>3, <2>4, <2>5 DEF all, n, m
<1>5. CASE ~(n + 1 > m)
  <2>1. all # <<>> /\ Head(all) = v
    BY <1>1, <1>2
  <2>2. AsMany(n + 1) = n + 1 /\ n + 1 <= m
    BY <1>1, <1>5 DEF AsMany, m
  <2>3. ~(Len(all) > m)
    BY <1>2, <1>5
  <2> QED BY <1>1, <1>2, <2>1, <2>2, <2>3 DEF all, n, m
<1> QED BY <1>4, <1>5

LEMMA ObjectiveDerive ==
  ASSUME ObjectiveConstants, ObjectiveInv, NEW u \in Users, Obj!Derive(u)
  PROVE  ObjectiveInv'
<1> DEFINE o == calls[u].read
<1>1. calls[u].at = "derive" /\ ObjectiveCall(calls[u], store) /\ RowsTyped(store)
  BY DEF ObjectiveInv, Obj!Derive
<1>2. Version(o, store) /\ o.signal # None /\ o.decision # None
  BY <1>1 DEF ObjectiveCall, Obj!Idle
<1>3. CASE Obj!To(u, Obj!Idle) /\ Obj!Rest
  BY <1>3, IdleIsACall, ObjectiveTo
<1>4. ASSUME NEW v \in Obj!Derived(o), o.state \notin Obj!Terminal, Obj!Rest,
             Obj!To(u, [at |-> "update", read |-> o, next |-> Obj!Recorded(o, v), job |-> "revalidate", disk |-> None])
      PROVE  ObjectiveInv'
  <2> DEFINE all == <<v>> \o o.revalidations
             kept == IF Len(all) > MaxRevalidations THEN Obj!Front(all) ELSE all
             state == IF v.reason \in Obj!Improved /\ o.state = "ready" THEN "review" ELSE o.state
             next == Obj!Recorded(o, v)
             c == [at |-> "update", read |-> o, next |-> next, job |-> "revalidate", disk |-> None]
  <2>1. o \in ObjectiveSet /\ Len(o.revalidations) <= MaxRevalidations /\ o.revalidations \in Seq(RevalidationSet)
        /\ o.decision \in Obj!Decision /\ o.state \in {"draft", "ready", "blocked", "review", "adopted", "rejected"}
    BY <1>2 DEF Version, Sound, ObjectiveSet
  <2>2. v \in RevalidationSet /\ Backed(v, o.decision, store.runs)
    BY <1>1, <1>2, <2>1, DerivedIsBacked
  <2>3. /\ kept \in Seq(RevalidationSet) /\ kept # <<>> /\ Head(kept) = v
        /\ Len(kept) = AsMany(Len(o.revalidations) + 1) /\ Len(kept) <= MaxRevalidations
    BY <2>1, <2>2, KeptRevalidations
  <2>4. state \in {"draft", "ready", "blocked", "review", "rejected"}
    BY <1>4, <2>1 DEF Obj!Terminal
  <2>5. next = [o EXCEPT !.revalidations = kept, !.state = state, !.revision = @ + 1]
    BY DEF Obj!Recorded
  <2> HIDE DEF o, kept, state, next
  <2>6. o = [state |-> o.state, revision |-> o.revision, head |-> o.head, signal |-> o.signal,
             decision |-> o.decision, revalidations |-> o.revalidations]
    BY <2>1, ObjectiveFields
  <2>7. next = [state |-> state, revision |-> o.revision + 1, head |-> o.head, signal |-> o.signal,
                decision |-> o.decision, revalidations |-> kept]
    BY <2>5, <2>6, ObjectiveMade
  <2>8. next \in ObjectiveSet
    BY <2>1, <2>3, <2>4, <2>7, NextVersion
  <2>9. Sound(next, store.runs)
    BY <1>2, <2>2, <2>3, <2>4, <2>7, <2>8 DEF Sound
  <2>10. c = [at |-> "update", read |-> c.read, next |-> c.next, job |-> c.job, disk |-> c.disk] /\ c.at = "update"
         /\ c.read = o /\ c.next = next /\ c.job = "revalidate"
    OBVIOUS
  <2>11. next.state # "adopted" /\ next.revision = o.revision + 1 /\ Len(next.revalidations) = AsMany(Len(o.revalidations) + 1)
    BY <2>3, <2>4, <2>7
  <2>12. ObjectiveCall(c, store)
    <3> HIDE DEF c
    <3> QED BY <1>2, <1>4, <2>9, <2>10, <2>11 DEF ObjectiveCall
  <2>13. Obj!To(u, c)
    BY <1>4 DEF o, next
  <2> QED BY <1>4, <2>12, <2>13, ObjectiveTo
<1> QED BY <1>3, <1>4 DEF Obj!Derive

\* An update whose revision is the stored one has read what is stored.
LEMMA UpdateHasReadTheStored ==
  ASSUME ObjectiveInv, NEW u \in Users, calls[u].at = "update", Obj!ObjectiveIs(calls[u].read.revision)
  PROVE  /\ store.objective # None /\ calls[u].read = store.objective /\ store.objective.state \notin Obj!Terminal
         /\ Sound(calls[u].next, store.runs) /\ calls[u].next.revision = store.objective.revision + 1
         /\ Len(calls[u].next.revalidations) =
              IF calls[u].job = "revalidate" THEN AsMany(Len(store.objective.revalidations) + 1)
              ELSE Len(store.objective.revalidations)
         /\ calls[u].next.state = "adopted" => calls[u].job = "confirm" /\ Witnessed(calls[u].next, calls[u].disk, store.runs)
<1> DEFINE c == calls[u]
<1>1. ObjectiveCall(c, store) /\ c.at = "update"
  BY DEF ObjectiveInv
<1>2. /\ Version(c.read, store) /\ c.read.state \notin Obj!Terminal
      /\ Sound(c.next, store.runs) /\ c.next.revision = c.read.revision + 1
      /\ Len(c.next.revalidations) =
           IF c.job = "revalidate" THEN AsMany(Len(c.read.revalidations) + 1) ELSE Len(c.read.revalidations)
      /\ c.next.state = "adopted" => c.job = "confirm" /\ Witnessed(c.next, c.disk, store.runs)
  <2> HIDE DEF c
  <2> QED BY <1>1 DEF ObjectiveCall, Obj!Idle
<1>3. store.objective # None /\ c.read = store.objective
  BY <1>2 DEF Version, Obj!ObjectiveIs
<1> QED BY <1>2, <1>3

LEMMA ObjectiveUpdate ==
  ASSUME ObjectiveConstants, ObjectiveInv, NEW u \in Users, Obj!Update(u)
  PROVE  ObjectiveInv'
<1> DEFINE c == calls[u]
           old == store.objective
           new == c.next
<1>1. /\ RowsTyped(store) /\ ObjectiveKnown(store, history) /\ WorldTyped(world)
      /\ calls = [w \in Users |-> calls[w]] /\ \A w \in Users : ObjectiveCall(calls[w], store)
      /\ c.at = "update" /\ calls' = [calls EXCEPT ![u] = Obj!Idle] /\ world' = world /\ budget' = budget
  BY DEF ObjectiveInv, Obj!Update, Obj!To
<1>2. CASE ~Obj!ObjectiveIs(c.read.revision)
  <2>1. store' = store /\ history' = history
    BY <1>2 DEF Obj!Update
  <2> QED BY <1>1, <2>1, IdleIsACall, ObjectiveTo DEF Obj!To, Obj!Rest
<1>3. CASE Obj!ObjectiveIs(c.read.revision)
  <2>1. /\ store' = [store EXCEPT !.objective = new]
        /\ history' = [updates |-> history.updates + 1,
                       revalidations |-> history.revalidations + (IF c.job = "revalidate" THEN 1 ELSE 0),
                       adopted |-> IF c.job = "confirm" THEN c.disk ELSE history.adopted]
    BY <1>3 DEF Obj!Update
  <2>2. /\ old # None /\ Sound(new, store.runs) /\ new.revision = old.revision + 1
        /\ Len(new.revalidations) =
             IF c.job = "revalidate" THEN AsMany(Len(old.revalidations) + 1) ELSE Len(old.revalidations)
        /\ new.state = "adopted" => c.job = "confirm" /\ Witnessed(new, c.disk, store.runs)
    BY <1>1, <1>3, UpdateHasReadTheStored
  <2>3. /\ Sound(old, store.runs) /\ old.revision = history.updates + 1
        /\ Len(old.revalidations) = AsMany(history.revalidations)
        /\ history.updates \in Nat /\ history.revalidations \in Nat
    BY <1>1, <2>2 DEF ObjectiveKnown
  <2>4. store' = [objective |-> new, head |-> store.head, runs |-> store.runs, finding |-> store.finding]
    BY <1>1, <2>1 DEF RowsTyped
  <2>5. RowsTyped(store')
    BY <1>1, <2>4 DEF RowsTyped
  <2>6. new \in ObjectiveSet /\ new # None /\ old \in ObjectiveSet /\ old.revision \in Nat
    BY <2>2, <2>3 DEF Sound, ObjectiveSet, ObjectiveConstants
  <2>7. new.revision > old.revision
    BY <2>2, <2>6
  <2>8. Newer(store.objective, store'.objective) /\ RunsKept(store.runs, store'.runs)
    BY <2>4, <2>6, <2>7 DEF Newer, RunsKept
  <2>9. calls' = [w \in Users |-> calls'[w]] /\ \A w \in Users : ObjectiveCall(calls'[w], store')
    <3>1. \A w \in Users : ObjectiveCall(calls[w], store')
      BY <1>1, <2>8, ObjectiveCallStays
    <3> QED BY <1>1, <3>1, IdleIsACall
  <2>10. ObjectiveKnown(store', history')
    <3> DEFINE h == history.revalidations
               n == Len(new.revalidations)
    <3>1. history'.updates = history.updates + 1 /\ history'.updates \in Nat /\ new.revision = history'.updates + 1
      BY <2>1, <2>2, <2>3
    <3>2. history'.revalidations \in Nat
      BY <2>1, <2>3
    <3>3. n = AsMany(history'.revalidations)
      <4>1. CASE c.job = "revalidate"
        <5>1. history'.revalidations = h + 1 /\ n = AsMany(AsMany(h) + 1)
          BY <2>1, <2>2, <2>3, <4>1
        <5> HIDE DEF h, n
        <5>2. h \in Nat /\ MaxRevalidations \in Nat \ {0}
          BY <2>3 DEF h, ObjectiveConstants
        <5>3. AsMany(AsMany(h) + 1) = AsMany(h + 1)
          BY <5>2 DEF AsMany
        <5> QED BY <5>1, <5>3
      <4>2. CASE c.job # "revalidate"
        <5>1. history'.revalidations = h /\ n = AsMany(h)
          BY <2>1, <2>2, <2>3, <4>2
        <5> QED BY <5>1
      <4> QED BY <4>1, <4>2
    <3>4. new.state = "adopted" => Witnessed(new, history'.adopted, store.runs)
      BY <2>1, <2>2
    <3> QED BY <2>2, <2>4, <2>6, <3>1, <3>2, <3>3, <3>4 DEF ObjectiveKnown
  <2> QED BY <1>1, <2>5, <2>9, <2>10 DEF ObjectiveInv
<1> QED BY <1>2, <1>3

LEMMA ObjectiveChange ==
  ASSUME ObjectiveInv, Obj!Change
  PROVE  ObjectiveInv'
<1>1. store' = store /\ calls' = calls /\ history' = history /\ WorldTyped(world)
  BY DEF ObjectiveInv, Obj!Change
<1>2. WorldTyped(world')
  <2>1. \/ \E head \in Heads : world' = [world EXCEPT !.head = head]
        \/ \E runner \in Runners : world' = [world EXCEPT !.runner = runner]
        \/ \E intact : world' = [world EXCEPT !.intact = intact]
    BY DEF Obj!Change
  <2>2. world = [head |-> world.head, runner |-> world.runner, intact |-> world.intact]
    BY <1>1 DEF WorldTyped
  <2> QED BY <1>1, <2>1, <2>2 DEF WorldTyped
<1> QED BY <1>1, <1>2 DEF ObjectiveInv

LEMMA ObjectiveScan ==
  ASSUME ObjectiveInv, Obj!Scan
  PROVE  ObjectiveInv'
<1>1. /\ RowsTyped(store) /\ ObjectiveKnown(store, history) /\ WorldTyped(world)
      /\ calls = [w \in Users |-> calls[w]] /\ \A w \in Users : ObjectiveCall(calls[w], store)
      /\ store' = [store EXCEPT !.head = world.head] /\ calls' = calls /\ world' = world /\ history' = history
  BY DEF ObjectiveInv, Obj!Scan
<1>2. store' = [objective |-> store.objective, head |-> world.head, runs |-> store.runs, finding |-> store.finding]
  BY <1>1 DEF RowsTyped
<1>3. RowsTyped(store') /\ RunsKept(store.runs, store'.runs) /\ Newer(store.objective, store'.objective)
  BY <1>1, <1>2 DEF RowsTyped, WorldTyped, RunsKept, Newer
<1>4. ObjectiveKnown(store', history)
  BY <1>1, <1>2, <1>3, ObjectiveKnownStays
<1>5. \A w \in Users : ObjectiveCall(calls[w], store')
  BY <1>1, <1>3, ObjectiveCallStays
<1> QED BY <1>1, <1>3, <1>4, <1>5 DEF ObjectiveInv

LEMMA ObjectiveFinishRun ==
  ASSUME ObjectiveInv, Obj!FinishRun
  PROVE  ObjectiveInv'
<1>1. /\ RowsTyped(store) /\ ObjectiveKnown(store, history) /\ WorldTyped(world)
      /\ calls = [w \in Users |-> calls[w]] /\ \A w \in Users : ObjectiveCall(calls[w], store)
      /\ calls' = calls /\ history' = history /\ world' = [world EXCEPT !.intact = @ \cup {Len(store.runs) + 1}]
  BY DEF ObjectiveInv, Obj!FinishRun
<1>2. PICK outcome \in Obj!Outcomes, percent \in Percents :
        store' = [store EXCEPT !.runs = Append(@,
          [head |-> world.head, config |-> Obj!Config(world.runner, Len(@) + 1), percent |-> percent, outcome |-> outcome])]
  BY DEF Obj!FinishRun
<1> DEFINE run == [head |-> world.head, config |-> Obj!Config(world.runner, Len(store.runs) + 1), percent |-> percent,
                   outcome |-> outcome]
           runs == Append(store.runs, run)
<1>3. store' = [objective |-> store.objective, head |-> store.head, runs |-> runs, finding |-> store.finding]
  <2>1. store' = [store EXCEPT !.runs = runs]
    BY <1>2
  <2> HIDE DEF runs
  <2> QED BY <1>1, <2>1 DEF RowsTyped
<1>4. run \in RunSet
  <2>1. world.head \in Heads /\ world.runner \in Runners /\ Len(store.runs) + 1 \in Nat
    BY <1>1 DEF WorldTyped, RowsTyped
  <2> QED BY <2>1 DEF RunSet, Configs, Obj!Config
<1> HIDE DEF run
<1>5. runs \in Seq(RunSet) /\ RunsKept(store.runs, runs)
  BY <1>1, <1>4 DEF RowsTyped, RunsKept
<1> HIDE DEF runs
<1>6. RowsTyped(store') /\ RunsKept(store.runs, store'.runs) /\ Newer(store.objective, store'.objective)
  BY <1>1, <1>3, <1>5 DEF RowsTyped, Newer
<1>7. ObjectiveKnown(store', history)
  BY <1>1, <1>3, <1>6, ObjectiveKnownStays
<1>8. \A w \in Users : ObjectiveCall(calls[w], store')
  BY <1>1, <1>6, ObjectiveCallStays
<1>9. WorldTyped(world')
  BY <1>1 DEF WorldTyped
<1> QED BY <1>1, <1>6, <1>7, <1>8, <1>9 DEF ObjectiveInv

LEMMA ObjectiveStep ==
  ASSUME ObjectiveConstants, ObjectiveInv, [Obj!ObjectiveNext]_vars
  PROVE  ObjectiveInv'
<1>1. CASE UNCHANGED vars
  BY <1>1 DEF ObjectiveInv, vars
<1>2. ASSUME NEW u \in Users, Obj!Create(u) PROVE ObjectiveInv'
  BY <1>2, ObjectiveCreate
<1>3. ASSUME NEW u \in Users, Obj!Revalidate(u) PROVE ObjectiveInv'
  BY <1>3, ObjectiveRevalidate
<1>4. ASSUME NEW u \in Users, Obj!Derive(u) PROVE ObjectiveInv'
  BY <1>4, ObjectiveDerive
<1>5. ASSUME NEW u \in Users, Obj!Confirm(u) PROVE ObjectiveInv'
  BY <1>5, ObjectiveConfirm
<1>6. ASSUME NEW u \in Users, Obj!CheckWorktree(u) PROVE ObjectiveInv'
  BY <1>6, ObjectiveWorktree
<1>7. ASSUME NEW u \in Users, Obj!CheckEvidence(u) PROVE ObjectiveInv'
  BY <1>7, ObjectiveEvidence
<1>8. ASSUME NEW u \in Users, Obj!Update(u) PROVE ObjectiveInv'
  BY <1>8, ObjectiveUpdate
<1>9. ASSUME NEW u \in Users, Obj!Lose(u) PROVE ObjectiveInv'
  BY <1>9, ObjectiveLose
<1>10. ASSUME NEW u \in Users, NEW decision \in Obj!Decision, Obj!Decide(u, decision) PROVE ObjectiveInv'
  BY <1>10, ObjectiveDecide
<1>11. CASE Obj!Change
  BY <1>11, ObjectiveChange
<1>12. CASE Obj!Scan
  BY <1>12, ObjectiveScan
<1>13. CASE Obj!FinishRun
  BY <1>13, ObjectiveFinishRun
<1> QED BY <1>1, <1>2, <1>3, <1>4, <1>5, <1>6, <1>7, <1>8, <1>9, <1>10, <1>11, <1>12, <1>13 DEF Obj!ObjectiveNext

\* An adopted objective is proven (confirmation, internal/app/quality_objective.go
\* ConfirmQualityObjective): whatever runs, commits, decisions and other
\* reviewers come between, the run behind an adoption met the minimum of the
\* decision that stands, on the commit and with the configuration that the
\* worktree had when the adoption was confirmed.
THEOREM AdoptionsAreProven ==
  ASSUME ObjectiveConstants
  PROVE  ObjectiveSpec => []Obj!AdoptionIsProven
<1>1. ObjectiveInv => Obj!AdoptionIsProven
  <2> SUFFICES ASSUME ObjectiveInv, store.objective # None, store.objective.state = "adopted"
               PROVE  LET latest == Head(store.objective.revalidations)
                          run == store.runs[latest.source]
                      IN /\ latest.reason \in Obj!Improved /\ run.outcome = "collected"
                         /\ run.percent >= store.objective.decision.minimum
                         /\ history.adopted = [head |-> run.head, config |-> run.config]
    BY DEF Obj!AdoptionIsProven
  <2> DEFINE latest == Head(store.objective.revalidations)
             run == store.runs[latest.source]
  <2>1. Sound(store.objective, store.runs) /\ Witnessed(store.objective, history.adopted, store.runs)
    BY DEF ObjectiveInv, ObjectiveKnown
  <2>2. /\ Backed(latest, store.objective.decision, store.runs)
        /\ latest.kind = "go_coverage" /\ latest.reason \in Obj!Improved
    BY <2>1 DEF Sound
  <2>3. latest.reason = "threshold_met"
    BY <2>2 DEF Backed, Obj!Improved
  <2>4. run.outcome = "collected" /\ run.percent >= store.objective.decision.minimum
    BY <2>2, <2>3 DEF Backed
  <2> QED BY <2>1, <2>2, <2>4 DEF Witnessed
<1>2. ObjectiveSpec => []ObjectiveInv
  BY ObjectiveStarts, ObjectiveStep, PTL DEF ObjectiveSpec
<1> QED BY <1>1, <1>2, PTL

\* The revision update loses no reviewer's change (UpdateQualityObjectiveRevisionCAS):
\* there is one revision for every confirmed update, and every confirmed
\* revalidation is in the history until newer ones push it out.
THEOREM RevalidationsStay ==
  ASSUME ObjectiveConstants
  PROVE  ObjectiveSpec => []Obj!RevalidationsAreKept
<1>1. ObjectiveInv => Obj!RevalidationsAreKept
  BY DEF ObjectiveInv, ObjectiveKnown, AsMany, Obj!RevalidationsAreKept
<1>2. ObjectiveSpec => []ObjectiveInv
  BY ObjectiveStarts, ObjectiveStep, PTL DEF ObjectiveSpec
<1> QED BY <1>1, <1>2, PTL

\* The stored objective has one of its states, a decision of a reviewer or none,
\* and no more revalidations than are kept.
THEOREM ObjectivesAreTyped ==
  ASSUME ObjectiveConstants
  PROVE  ObjectiveSpec => []Obj!ObjectiveTypeOK
<1>1. ObjectiveInv => Obj!ObjectiveTypeOK
  <2>1. ObjectiveInv /\ store.objective # None => Sound(store.objective, store.runs)
    BY DEF ObjectiveInv, ObjectiveKnown
  <2> QED BY <2>1 DEF Sound, ObjectiveSet, Obj!ObjectiveTypeOK
<1>2. ObjectiveSpec => []ObjectiveInv
  BY ObjectiveStarts, ObjectiveStep, PTL DEF ObjectiveSpec
<1> QED BY <1>1, <1>2, PTL

\* What is adopted or rejected is never changed, and an objective changes only
\* to what a handler has made of the objective that is stored: the revision of
\* the update tells a handler that has read another one.
THEOREM ObjectivesChangeByReview ==
  ASSUME ObjectiveConstants
  PROVE  ObjectiveSpec => [][Obj!ObjectiveChangesByReview]_vars
<1>1. ASSUME ObjectiveInv, [Obj!ObjectiveNext]_vars PROVE [Obj!ObjectiveChangesByReview]_vars
  <2>1. CASE UNCHANGED vars
    BY <2>1
  <2>2. ASSUME NEW u \in Users, Obj!Update(u) PROVE Obj!ObjectiveChangesByReview
    <3> SUFFICES ASSUME store'.objective # store.objective, store.objective # None
                 PROVE  /\ store.objective.state \notin Obj!Terminal
                        /\ calls[u].at = "update" /\ calls[u].read = store.objective /\ calls[u].next = store'.objective
      BY DEF Obj!ObjectiveChangesByReview
    <3>1. Obj!ObjectiveIs(calls[u].read.revision) /\ calls[u].at = "update"
      BY <2>2 DEF Obj!Update
    <3>2. store' = [store EXCEPT !.objective = calls[u].next]
      BY <2>2, <3>1 DEF Obj!Update
    <3>3. store'.objective = calls[u].next
      BY <1>1, <3>2 DEF ObjectiveInv, RowsTyped
    <3> QED BY <1>1, <3>1, <3>3, UpdateHasReadTheStored
  <2>3. ASSUME NEW u \in Users, Obj!Create(u) PROVE Obj!ObjectiveChangesByReview
    BY <2>3 DEF Obj!Create, Obj!ObjectiveChangesByReview
  <2>4. ASSUME store' = store PROVE Obj!ObjectiveChangesByReview
    BY <2>4 DEF Obj!ObjectiveChangesByReview
  <2>5. ASSUME NEW u \in Users, Obj!Revalidate(u) \/ Obj!Derive(u) \/ Obj!Confirm(u) \/ Obj!CheckWorktree(u)
                                \/ Obj!CheckEvidence(u) \/ Obj!Lose(u) \/ \E decision \in Obj!Decision : Obj!Decide(u, decision)
        PROVE  Obj!ObjectiveChangesByReview
    BY <2>4, <2>5 DEF Obj!Revalidate, Obj!Derive, Obj!Confirm, Obj!CheckWorktree, Obj!CheckEvidence, Obj!Lose, Obj!Decide,
                      Obj!Rest
  <2>6. CASE Obj!Change
    BY <2>4, <2>6 DEF Obj!Change
  <2>7. CASE Obj!Scan \/ Obj!FinishRun
    <3>1. store'.objective = store.objective
      BY <1>1, <2>7 DEF Obj!Scan, Obj!FinishRun, ObjectiveInv, RowsTyped
    <3> QED BY <3>1 DEF Obj!ObjectiveChangesByReview
  <2> QED BY <1>1, <2>1, <2>2, <2>3, <2>5, <2>6, <2>7 DEF Obj!ObjectiveNext
<1>2. ObjectiveSpec => []ObjectiveInv
  BY ObjectiveStarts, ObjectiveStep, PTL DEF ObjectiveSpec
<1> QED BY <1>1, <1>2, PTL DEF ObjectiveSpec

-----------------------------------------------------------------------------
(* ProposalReview: a review is final and a checkset is only ever made of a   *)
(* proposal that was applied, so a handler that has read either knows what   *)
(* it is about, whatever others store before it goes on.                     *)
Rev == INSTANCE ProposalReview

ReviewSpec == Rev!ReviewInit /\ [][Rev!ReviewNext]_vars
\* The steps of a checkset are listed once each, and every one has its dependencies.
Names == Rev!ToSet(Steps)
ReviewConstants ==
  /\ Steps \in Seq(Names) /\ \A i, j \in DOMAIN Steps : Steps[i] = Steps[j] => i = j
  /\ \A needs \in Inputs : DOMAIN needs = Names

Answers == {"applied", "rejected"}
EventSet(known) == [id : known, to : Answers]
EventsOf(events, id) == {n \in DOMAIN events : events[n].id = id}
\* An answer has its one event, and nothing else has one.
Settled(id, state, events) ==
  /\ state \in {"pending", "applied", "rejected", "stale"}
  /\ state \in Answers => \E n \in DOMAIN events : EventsOf(events, id) = {n} /\ events[n].to = state
  /\ state \notin Answers => EventsOf(events, id) = {}
Reviewed(rows) ==
  /\ rows.events \in Seq(EventSet(DOMAIN rows.proposals))
  /\ \A id \in DOMAIN rows.proposals : Settled(id, rows.proposals[id], rows.events)
\* A checkset, and one that was stored as a draft.
MadeOf(set, rows) ==
  /\ set = [id |-> set.id, needs |-> set.needs, state |-> set.state]
  /\ set.id \in DOMAIN rows.proposals /\ rows.proposals[set.id] = "applied" /\ set.id.command \in Typed
  /\ DOMAIN set.needs = Names /\ \A s \in Names : set.needs[s] \subseteq Names
Kept(set, rows, drafts) ==
  MadeOf(set, rows) /\ [id |-> set.id, needs |-> set.needs, state |-> "draft"] \in drafts
\* Results so far: a step that has passed came after all that it depends on.
Results(needs, states, status) ==
  /\ \A s \in DOMAIN states :
       /\ states[s] \in Rev!Statuses \cup {"skipped"}
       /\ states[s] = "passed" => \A t \in needs[s] : t \in DOMAIN states /\ states[t] = "passed"
  /\ status \in Rev!Statuses /\ (status = "passed" <=> \A s \in DOMAIN states : states[s] = "passed")
\* Every step is either left or has a result.
Split(left, states) ==
  /\ left \in Seq(Names) /\ \A i, j \in DOMAIN left : left[i] = left[j] => i = j
  /\ DOMAIN states = {s \in Names : \A i \in DOMAIN left : left[i] # s}
Finished(run) ==
  DOMAIN run.states = Names /\ Results(run.set.needs, run.states, run.status)
ReviewCall(c, rows, drafts) ==
  \/ c = Rev!Idle
  \/ c.at = "save" /\ c = [at |-> "save", left |-> c.left]
  \/ c.at = "mark" /\ c = [at |-> "mark", id |-> c.id] /\ c.id \in DOMAIN rows.proposals
  \/ c.at = "review" /\ c = [at |-> "review", id |-> c.id, to |-> c.to] /\ c.id \in DOMAIN rows.proposals /\ c.to \in Answers
  \/ /\ c.at = "keep" /\ c = [at |-> "keep", name |-> c.name, set |-> c.set] /\ c.name \in Sets /\ MadeOf(c.set, rows)
     /\ c.set.state # "draft" => Kept(c.set, rows, drafts)
  \/ c.at = "locate" /\ c = [at |-> "locate", name |-> c.name, set |-> c.set] /\ Kept(c.set, rows, drafts)
  \/ /\ c.at = "run" /\ c = [at |-> "run", name |-> c.name, set |-> c.set, head |-> c.head, left |-> c.left,
                             states |-> c.states, status |-> c.status]
     /\ Kept(c.set, rows, drafts) /\ c.head = c.set.id.head
     /\ Split(c.left, c.states) /\ Results(c.set.needs, c.states, c.status)
  \/ c.at = "count" /\ c = [at |-> "count", run |-> c.run] /\ c.run \in rows.runs
ReviewRows(rows, drafts) ==
  /\ rows = [proposals |-> rows.proposals, sets |-> rows.sets, runs |-> rows.runs, failures |-> rows.failures,
             events |-> rows.events]
  /\ rows.proposals = [id \in DOMAIN rows.proposals |-> rows.proposals[id]] /\ Reviewed(rows)
  /\ rows.sets = [s \in Sets |-> rows.sets[s]]
  /\ \A s \in Sets : rows.sets[s] # None => Kept(rows.sets[s], rows, drafts)
  /\ rows.failures \subseteq rows.runs /\ \A run \in rows.runs : Finished(run)
ReviewInv ==
  /\ ReviewRows(store, history.drafts) /\ history = [drafts |-> history.drafts]
  /\ calls = [u \in Users |-> calls[u]] /\ \A u \in Users : ReviewCall(calls[u], store, history.drafts)

\* Proposals and runs are only added, and a review is not taken back.
ReviewsStay(rows, then) ==
  /\ \A id \in DOMAIN rows.proposals :
       id \in DOMAIN then.proposals /\ (rows.proposals[id] = "applied" => then.proposals[id] = "applied")
  /\ rows.runs \subseteq then.runs
LEMMA ReviewCallStays ==
  ASSUME NEW c, NEW rows, NEW then, NEW drafts, NEW more, ReviewCall(c, rows, drafts),
         ReviewsStay(rows, then), drafts \subseteq more
  PROVE  ReviewCall(c, then, more)
<1>1. ASSUME NEW set, MadeOf(set, rows) PROVE MadeOf(set, then)
  BY <1>1 DEF MadeOf, ReviewsStay
<1>2. ASSUME NEW set, Kept(set, rows, drafts) PROVE Kept(set, then, more)
  BY <1>1, <1>2 DEF Kept
<1>3. \A id \in DOMAIN rows.proposals : id \in DOMAIN then.proposals
  BY DEF ReviewsStay
<1>4. rows.runs \subseteq then.runs
  BY DEF ReviewsStay
<1> QED BY <1>1, <1>2, <1>3, <1>4, Zenon DEF ReviewCall

\* A handler goes on and nothing is stored.
LEMMA ReviewTo ==
  ASSUME ReviewInv, NEW u \in Users, NEW c, ReviewCall(c, store, history.drafts), Rev!To(u, c), UNCHANGED <<store, history>>
  PROVE  ReviewInv'
<1>1. /\ ReviewRows(store, history.drafts) /\ history = [drafts |-> history.drafts]
      /\ calls = [w \in Users |-> calls[w]] /\ \A w \in Users : ReviewCall(calls[w], store, history.drafts)
      /\ store' = store /\ history' = history /\ calls' = [calls EXCEPT ![u] = c]
  BY DEF ReviewInv, Rev!To
<1>2. calls' = [w \in Users |-> calls'[w]] /\ \A w \in Users : ReviewCall(calls'[w], store, history.drafts)
  BY <1>1
<1> QED BY <1>1, <1>2 DEF ReviewInv
\* A handler stores what it has and goes on.
LEMMA ReviewStores ==
  ASSUME ReviewInv, NEW u \in Users, NEW c, Rev!To(u, c), ReviewsStay(store, store'),
         history.drafts \subseteq history'.drafts, history' = [drafts |-> history'.drafts],
         ReviewRows(store', history'.drafts), ReviewCall(c, store', history'.drafts)
  PROVE  ReviewInv'
<1>1. /\ calls = [w \in Users |-> calls[w]] /\ \A w \in Users : ReviewCall(calls[w], store, history.drafts)
      /\ calls' = [calls EXCEPT ![u] = c]
  BY DEF ReviewInv, Rev!To
<1>2. \A w \in Users : ReviewCall(calls[w], store', history'.drafts)
  BY <1>1, ReviewCallStays
<1>3. calls' = [w \in Users |-> calls'[w]] /\ \A w \in Users : ReviewCall(calls'[w], store', history'.drafts)
  BY <1>1, <1>2
<1> QED BY <1>3 DEF ReviewInv

LEMMA ReviewStarts ==
  ASSUME Rev!ReviewInit
  PROVE  ReviewInv
<1>1. /\ store = [proposals |-> << >>, sets |-> [s \in Sets |-> None], runs |-> {}, failures |-> {}, events |-> <<>>]
      /\ calls = [u \in Users |-> Rev!Idle] /\ history = [drafts |-> {}]
  BY DEF Rev!ReviewInit
<1>2. DOMAIN store.proposals = {} /\ store.proposals = [id \in {} |-> store.proposals[id]]
  BY <1>1
<1>3. store.events \in Seq(EventSet({}))
  BY <1>1
<1>4. Reviewed(store)
  BY <1>2, <1>3 DEF Reviewed
<1>5. ReviewRows(store, history.drafts)
  BY <1>1, <1>2, <1>4 DEF ReviewRows
<1> QED BY <1>1, <1>5 DEF ReviewInv, ReviewCall

LEMMA ReviewSaveProposal ==
  ASSUME ReviewInv, NEW u \in Users, Rev!SaveProposal(u)
  PROVE  ReviewInv'
<1> DEFINE c == calls[u]
           id == Head(c.left)
           known == DOMAIN store.proposals
           proposals == [p \in known \cup {id} |-> IF p \in known THEN store.proposals[p] ELSE "pending"]
<1>1. /\ ReviewCall(c, store, history.drafts) /\ ReviewRows(store, history.drafts) /\ history' = history
      /\ history = [drafts |-> history.drafts] /\ c.at = "save"
  BY DEF ReviewInv, Rev!SaveProposal
<1>2. c = [at |-> "save", left |-> c.left]
  BY <1>1 DEF ReviewCall, Rev!Idle
<1>3. CASE c.left = <<>>
  BY <1>1, <1>3, ReviewTo DEF Rev!SaveProposal, ReviewCall
<1>4. CASE c.left # <<>>
  <2>1. Rev!To(u, [c EXCEPT !.left = Tail(c.left)])
        /\ store' = [store EXCEPT !.proposals = proposals]
    BY <1>4 DEF Rev!SaveProposal, Rev!Known
  <2>2. [c EXCEPT !.left = Tail(c.left)] = [at |-> "save", left |-> Tail(c.left)]
    <3>1. PICK left : c = [at |-> "save", left |-> left]
      BY <1>2
    <3>2. \A some : [[at |-> "save", left |-> left] EXCEPT !.left = some] = [at |-> "save", left |-> some]
      OBVIOUS
    <3> HIDE DEF c
    <3> QED BY <3>1, <3>2
  <2>3. store' = [proposals |-> proposals, sets |-> store.sets, runs |-> store.runs, failures |-> store.failures,
                  events |-> store.events]
    BY <1>1, <2>1 DEF ReviewRows
  <2>4. DOMAIN proposals = known \cup {id} /\ \A p \in known \cup {id} :
          proposals[p] = IF p \in known THEN store.proposals[p] ELSE "pending"
    OBVIOUS
  <2> HIDE DEF proposals
  <2>5. Reviewed(store')
    <3> DEFINE R == EventSet(known)
               S == EventSet(known \cup {id})
    <3>1. store.events \in Seq(R) /\ \A p \in known : Settled(p, store.proposals[p], store.events)
      BY <1>1 DEF ReviewRows, Reviewed
    <3>2. R \subseteq S /\ \A e \in R : e.id \in known
      BY DEF EventSet
    <3> HIDE DEF R, S
    <3>3. store.events \in Seq(S) /\ \A n \in DOMAIN store.events : store.events[n] \in R
      BY <3>1, <3>2
    <3>4. ASSUME NEW p \in known \cup {id}, p \notin known
          PROVE  Settled(p, "pending", store.events)
      <4>1. EventsOf(store.events, p) = {}
        BY <3>2, <3>3, <3>4 DEF EventsOf
      <4> QED BY <4>1 DEF Settled, Answers
    <3>5. \A p \in known \cup {id} : Settled(p, proposals[p], store.events)
      BY <3>1, <3>4, <2>4
    <3> QED BY <2>3, <2>4, <3>3, <3>5 DEF Reviewed, S
  <2>6. ReviewsStay(store, store')
    BY <2>3, <2>4 DEF ReviewsStay
  <2>7. \A s \in Sets : store'.sets[s] # None => Kept(store'.sets[s], store', history.drafts)
    BY <1>1, <2>3, <2>6 DEF ReviewRows, Kept, MadeOf, ReviewsStay
  <2>8. proposals = [p \in DOMAIN proposals |-> proposals[p]]
    BY DEF proposals
  <2>9. ReviewRows(store', history.drafts)
    BY <1>1, <2>3, <2>5, <2>7, <2>8 DEF ReviewRows
  <2>10. ReviewCall([at |-> "save", left |-> Tail(c.left)], store', history'.drafts)
    BY DEF ReviewCall
  <2> QED BY <1>1, <2>1, <2>2, <2>6, <2>9, <2>10, ReviewStores
<1> QED BY <1>3, <1>4

\* A proposal gets another state, from pending.
LEMMA ReviewTakes ==
  ASSUME ReviewInv, NEW u \in Users, Rev!To(u, Rev!Idle), history' = history, NEW id \in DOMAIN store.proposals,
         store.proposals[id] = "pending", NEW state, NEW events,
         store' = [proposals |-> [store.proposals EXCEPT ![id] = state], sets |-> store.sets, runs |-> store.runs,
                   failures |-> store.failures, events |-> events],
         events \in Seq(EventSet(DOMAIN store.proposals)), Settled(id, state, events),
         \A p \in DOMAIN store.proposals : p # id => EventsOf(events, p) = EventsOf(store.events, p),
         \A n \in DOMAIN store.events : n \in DOMAIN events /\ events[n] = store.events[n]
  PROVE  ReviewInv'
<1> DEFINE known == DOMAIN store.proposals
           proposals == [store.proposals EXCEPT ![id] = state]
<1>1. /\ ReviewRows(store, history.drafts) /\ history = [drafts |-> history.drafts]
  BY DEF ReviewInv
<1>2. /\ DOMAIN proposals = known /\ proposals[id] = state /\ \A p \in known : p # id => proposals[p] = store.proposals[p]
      /\ proposals = [p \in DOMAIN proposals |-> proposals[p]]
  BY <1>1 DEF ReviewRows
<1>3. store'.proposals = proposals
  OBVIOUS
<1> HIDE DEF proposals
<1>4. ASSUME NEW p \in known, p # id
      PROVE  Settled(p, store.proposals[p], events)
  <2>1. Settled(p, store.proposals[p], store.events)
    BY <1>1 DEF ReviewRows, Reviewed
  <2>2. EventsOf(events, p) = EventsOf(store.events, p)
    BY <1>4
  <2> QED BY <2>1, <2>2 DEF Settled
<1>5. \A p \in known : Settled(p, proposals[p], events)
  BY <1>2, <1>4
<1>6. Reviewed(store')
  BY <1>2, <1>3, <1>5 DEF Reviewed
<1>7. ReviewsStay(store, store')
  BY <1>2, <1>3 DEF ReviewsStay
<1>8. \A s \in Sets : store'.sets[s] # None => Kept(store'.sets[s], store', history.drafts)
  BY <1>1, <1>7 DEF ReviewRows, Kept, MadeOf, ReviewsStay
<1>9. ReviewRows(store', history.drafts)
  BY <1>1, <1>2, <1>3, <1>6, <1>8 DEF ReviewRows
<1>10. ReviewCall(Rev!Idle, store', history'.drafts)
  BY DEF ReviewCall
<1> QED BY <1>1, <1>7, <1>9, <1>10, ReviewStores

LEMMA ReviewMarkStale ==
  ASSUME ReviewInv, NEW u \in Users, Rev!MarkStale(u)
  PROVE  ReviewInv'
<1> DEFINE id == calls[u].id
           state == store.proposals[id]
<1>1. /\ ReviewCall(calls[u], store, history.drafts) /\ ReviewRows(store, history.drafts) /\ history' = history
      /\ calls[u].at = "mark" /\ Rev!To(u, Rev!Idle)
  BY DEF ReviewInv, Rev!MarkStale
<1>2. id \in DOMAIN store.proposals
  BY <1>1 DEF ReviewCall, Rev!Idle
<1>3. store' = [proposals |-> [store.proposals EXCEPT ![id] = IF state = "pending" THEN "stale" ELSE state],
                sets |-> store.sets, runs |-> store.runs, failures |-> store.failures, events |-> store.events]
  BY <1>1 DEF Rev!MarkStale, ReviewRows
<1>4. Settled(id, state, store.events) /\ store.events \in Seq(EventSet(DOMAIN store.proposals))
  BY <1>1, <1>2 DEF ReviewRows, Reviewed
<1>5. CASE state = "pending"
  <2>1. Settled(id, "stale", store.events)
    BY <1>4, <1>5 DEF Settled, Answers
  <2> QED BY <1>1, <1>2, <1>3, <1>4, <1>5, <2>1, ReviewTakes
<1>6. CASE state # "pending"
  <2>1. [store.proposals EXCEPT ![id] = state] = store.proposals
    BY <1>1, <1>2 DEF ReviewRows
  <2>2. store' = store
    BY <1>1, <1>3, <1>6, <2>1 DEF ReviewRows
  <2> QED BY <1>1, <2>2, ReviewTo DEF ReviewCall
<1> QED BY <1>5, <1>6

LEMMA ReviewCommit ==
  ASSUME ReviewInv, NEW u \in Users, Rev!CommitReview(u)
  PROVE  ReviewInv'
<1> DEFINE id == calls[u].id
           to == calls[u].to
           known == DOMAIN store.proposals
           event == [id |-> id, to |-> to]
           events == Append(store.events, event)
<1>1. /\ ReviewCall(calls[u], store, history.drafts) /\ ReviewRows(store, history.drafts) /\ history' = history
      /\ calls[u].at = "review" /\ Rev!To(u, Rev!Idle)
  BY DEF ReviewInv, Rev!CommitReview
<1>2. id \in known /\ to \in Answers
  BY <1>1 DEF ReviewCall, Rev!Idle
<1>3. Settled(id, store.proposals[id], store.events) /\ store.events \in Seq(EventSet(known))
  BY <1>1, <1>2 DEF ReviewRows, Reviewed
<1>4. CASE store.proposals[id] # "pending"
  <2>1. store' = store
    BY <1>1, <1>4 DEF Rev!CommitReview
  <2> QED BY <1>1, <2>1, ReviewTo DEF ReviewCall
<1>5. CASE store.proposals[id] = "pending"
  <2>1. store' = [store EXCEPT !.proposals[id] = to, !.events = events]
    BY <1>5 DEF Rev!CommitReview
  <2>2. store' = [proposals |-> [store.proposals EXCEPT ![id] = to], sets |-> store.sets, runs |-> store.runs,
                  failures |-> store.failures, events |-> events]
    BY <1>1, <2>1 DEF ReviewRows
  <2> DEFINE R == EventSet(known)
             last == Len(store.events) + 1
  <2>3. event \in R
    BY <1>2 DEF EventSet
  <2> HIDE DEF R
  <2>4. /\ events \in Seq(R) /\ DOMAIN events = 1..last /\ DOMAIN store.events = 1..(last - 1) /\ last \in Nat \ {0}
        /\ events[last] = event /\ \A n \in 1..(last - 1) : events[n] = store.events[n]
    BY <1>3, <2>3 DEF R
  <2>5. event.id = id /\ event.to = to
    OBVIOUS
  <2> HIDE DEF events, last, event
  <2>6. \A p \in known : p # id => EventsOf(events, p) = EventsOf(store.events, p)
    BY <2>4, <2>5 DEF EventsOf
  <2>7. EventsOf(store.events, id) = {}
    BY <1>3, <1>5 DEF Settled, Answers
  <2>8. last \in DOMAIN events /\ EventsOf(events, id) = {last}
    <3>1. last \in 1..last /\ \A n \in 1..last : n = last \/ n \in 1..(last - 1)
      BY <2>4
    <3>2. \A n \in 1..(last - 1) : events[n].id # id
      BY <2>4, <2>7 DEF EventsOf
    <3> QED BY <2>4, <2>5, <3>1, <3>2 DEF EventsOf
  <2>9. Settled(id, to, events)
    BY <1>2, <2>4, <2>5, <2>8 DEF Settled, Answers
  <2> QED BY <1>1, <1>2, <1>5, <2>2, <2>4, <2>6, <2>9, ReviewTakes DEF R
<1> QED BY <1>4, <1>5

LEMMA ReviewKeepSet ==
  ASSUME ReviewInv, NEW u \in Users, Rev!KeepSet(u)
  PROVE  ReviewInv'
<1> DEFINE c == calls[u]
           sets == [store.sets EXCEPT ![c.name] = c.set]
           draft == [id |-> c.set.id, needs |-> c.set.needs, state |-> "draft"]
<1>1. /\ ReviewCall(c, store, history.drafts) /\ ReviewRows(store, history.drafts) /\ history = [drafts |-> history.drafts]
      /\ c.at = "keep" /\ Rev!To(u, Rev!Idle) /\ store' = [store EXCEPT !.sets[c.name] = c.set]
      /\ history' = IF c.set.state = "draft" THEN [history EXCEPT !.drafts = @ \cup {c.set}] ELSE history
  BY DEF ReviewInv, Rev!KeepSet
<1>2. c.name \in Sets /\ MadeOf(c.set, store) /\ (c.set.state # "draft" => Kept(c.set, store, history.drafts))
  BY <1>1 DEF ReviewCall, Rev!Idle
<1>3. store' = [proposals |-> store.proposals, sets |-> sets, runs |-> store.runs, failures |-> store.failures,
                events |-> store.events]
  BY <1>1 DEF ReviewRows
<1>4. sets = [s \in Sets |-> sets[s]] /\ sets[c.name] = c.set /\ \A s \in Sets : s # c.name => sets[s] = store.sets[s]
  BY <1>1, <1>2 DEF ReviewRows
<1>5. /\ history' = [drafts |-> history'.drafts] /\ history.drafts \subseteq history'.drafts
      /\ c.set.state = "draft" => c.set \in history'.drafts
  BY <1>1
<1>6. c.set.state = "draft" => c.set = draft
  BY <1>2 DEF MadeOf
<1> HIDE DEF sets
<1>7. draft \in history'.drafts
  BY <1>2, <1>5, <1>6 DEF Kept
<1>8. ReviewsStay(store, store')
  BY <1>3 DEF ReviewsStay
<1>9. \A s \in Sets : store'.sets[s] # None => Kept(store'.sets[s], store', history'.drafts)
  <2>1. Kept(c.set, store', history'.drafts)
    BY <1>2, <1>3, <1>7 DEF Kept, MadeOf
  <2>2. ASSUME NEW s \in Sets, s # c.name, store.sets[s] # None PROVE Kept(store.sets[s], store', history'.drafts)
    BY <1>1, <1>3, <1>5, <2>2 DEF ReviewRows, Kept, MadeOf
  <2> QED BY <1>3, <1>4, <2>1, <2>2
<1>10. Reviewed(store')
  BY <1>1, <1>3 DEF ReviewRows, Reviewed
<1>11. ReviewRows(store', history'.drafts)
  BY <1>1, <1>3, <1>4, <1>9, <1>10 DEF ReviewRows
<1>12. ReviewCall(Rev!Idle, store', history'.drafts)
  BY DEF ReviewCall
<1> QED BY <1>1, <1>5, <1>8, <1>11, <1>12, ReviewStores

\* Two sequences, one after the other.
LEMMA Joined ==
  ASSUME NEW S, NEW front \in Seq(S), NEW back \in Seq(S)
  PROVE  /\ front \o back \in Seq(S) /\ Len(front \o back) = Len(front) + Len(back)
         /\ \A n \in 1..Len(front) : (front \o back)[n] = front[n]
         /\ \A n \in 1..Len(back) : (front \o back)[Len(front) + n] = back[n]
OBVIOUS

\* What is left of a sequence without one of its elements.
LEMMA OneIsRemoved ==
  ASSUME NEW S, NEW left \in Seq(S), \A m, n \in DOMAIN left : left[m] = left[n] => m = n, NEW i \in DOMAIN left
  PROVE  LET rest == Rev!RemoveAt(left, i)
         IN /\ rest \in Seq(S) /\ \A m, n \in DOMAIN rest : rest[m] = rest[n] => m = n
            /\ \A s : (\E n \in DOMAIN rest : rest[n] = s) <=> s # left[i] /\ \E n \in DOMAIN left : left[n] = s
<1> DEFINE rest == Rev!RemoveAt(left, i)
           old(n) == IF n < i THEN n ELSE n + 1
<1>1. Len(left) \in Nat /\ DOMAIN left = 1..Len(left) /\ i \in 1..Len(left) /\ \A n \in 1..Len(left) : left[n] \in S
  OBVIOUS
<1> DEFINE front == SubSeq(left, 1, i - 1)
           back == SubSeq(left, i + 1, Len(left))
<1>2. rest = front \o back
  BY DEF Rev!RemoveAt
<1>3. front \in Seq(S) /\ Len(front) = i - 1 /\ \A n \in 1..(i - 1) : front[n] = left[n]
  BY <1>1
<1>4. back \in Seq(S) /\ Len(back) = Len(left) - i /\ \A n \in 1..(Len(left) - i) : back[n] = left[n + i]
  BY <1>1
<1> HIDE DEF front, back, rest
<1>5. rest \in Seq(S) /\ Len(rest) = Len(left) - 1 /\ DOMAIN rest = 1..(Len(left) - 1)
  <2>1. rest \in Seq(S) /\ Len(rest) = (i - 1) + (Len(left) - i)
    BY <1>2, <1>3, <1>4, Joined
  <2>2. (i - 1) + (Len(left) - i) = Len(left) - 1
    BY <1>1
  <2> QED BY <2>1, <2>2
<1>6. ASSUME NEW n \in 1..(Len(left) - 1)
      PROVE  rest[n] = left[old(n)] /\ old(n) \in 1..Len(left) /\ old(n) # i
  <2>1. CASE n < i
    <3>1. n \in 1..(i - 1) /\ n \in 1..Len(front)
      BY <1>1, <1>3, <2>1
    <3>2. rest[n] = front[n]
      BY <1>2, <1>3, <1>4, <3>1
    <3> QED BY <1>1, <1>3, <2>1, <3>1, <3>2
  <2>2. CASE ~(n < i)
    <3>1. n - (i - 1) \in 1..(Len(left) - i) /\ (i - 1) + (n - (i - 1)) = n
      BY <1>1, <2>2
    <3>2. rest[n] = back[n - (i - 1)]
      <4>1. \A k \in 1..Len(back) : rest[Len(front) + k] = back[k]
        BY <1>2, <1>3, <1>4, Joined
      <4>2. rest[(i - 1) + (n - (i - 1))] = back[n - (i - 1)]
        BY <1>3, <1>4, <3>1, <4>1
      <4> QED BY <3>1, <4>2
    <3>3. (n - (i - 1)) + i = n + 1 /\ n + 1 \in 1..Len(left) /\ n + 1 # i
      BY <1>1, <2>2
    <3> QED BY <1>4, <2>2, <3>1, <3>2, <3>3
  <2> QED BY <2>1, <2>2
<1>7. \A m, n \in 1..(Len(left) - 1) : old(m) = old(n) => m = n
  BY <1>1
<1>8. ASSUME NEW n \in 1..Len(left), n # i
      PROVE  \E m \in 1..(Len(left) - 1) : old(m) = n
  <2>1. CASE n < i
    BY <1>1, <2>1
  <2>2. CASE ~(n < i)
    <3>1. n - 1 \in 1..(Len(left) - 1) /\ old(n - 1) = n
      BY <1>1, <1>8, <2>2
    <3> QED BY <3>1
  <2> QED BY <2>1, <2>2
<1> HIDE DEF old
<1>9. ASSUME NEW m \in DOMAIN rest, NEW n \in DOMAIN rest, rest[m] = rest[n]
      PROVE  m = n
  <2>1. m \in 1..(Len(left) - 1) /\ n \in 1..(Len(left) - 1)
    BY <1>5
  <2>2. left[old(m)] = left[old(n)] /\ old(m) \in DOMAIN left /\ old(n) \in DOMAIN left
    BY <1>1, <1>6, <1>9, <2>1
  <2> QED BY <1>7, <2>1, <2>2
<1>10. ASSUME NEW s
       PROVE  (\E n \in DOMAIN rest : rest[n] = s) <=> s # left[i] /\ \E n \in DOMAIN left : left[n] = s
  <2>1. ASSUME NEW n \in DOMAIN rest, rest[n] = s
        PROVE  s # left[i] /\ \E m \in DOMAIN left : left[m] = s
    BY <1>1, <1>5, <1>6, <2>1
  <2>2. ASSUME s # left[i], NEW n \in DOMAIN left, left[n] = s
        PROVE  \E m \in DOMAIN rest : rest[m] = s
    <3>1. PICK m \in 1..(Len(left) - 1) : old(m) = n
      BY <1>1, <1>8, <2>2
    <3> QED BY <1>5, <1>6, <2>2, <3>1
  <2> QED BY <2>1, <2>2
<1> QED BY <1>5, <1>9, <1>10 DEF rest

\* A step has its result, and maybe all that are left are skipped.
LEMMA StepIsDone ==
  ASSUME NEW needs, NEW left, NEW states, NEW status, Split(left, states), Results(needs, states, status),
         NEW i \in DOMAIN left, needs[left[i]] \subseteq DOMAIN states,
         NEW result \in Rev!Statuses \cup {"skipped"},
         result = "passed" => \A t \in needs[left[i]] : states[t] = "passed",
         result = "skipped" => \E t \in needs[left[i]] : states[t] # "passed",
         NEW next, DOMAIN next = DOMAIN states \cup {left[i]}, next[left[i]] = result,
         \A s \in DOMAIN states : next[s] = states[s],
         NEW then, then = IF status = "passed" THEN result ELSE status
  PROVE  Split(Rev!RemoveAt(left, i), next) /\ Results(needs, next, then)
<1> DEFINE s == left[i]
           rest == Rev!RemoveAt(left, i)
<1>1. /\ left \in Seq(Names) /\ \A m, n \in DOMAIN left : left[m] = left[n] => m = n
      /\ DOMAIN states = {t \in Names : \A n \in DOMAIN left : left[n] # t}
  BY DEF Split
<1>2. s \in Names /\ s \notin DOMAIN states
  BY <1>1
<1>3. /\ rest \in Seq(Names) /\ \A m, n \in DOMAIN rest : rest[m] = rest[n] => m = n
      /\ \A t : (\E n \in DOMAIN rest : rest[n] = t) <=> t # s /\ \E n \in DOMAIN left : left[n] = t
  BY <1>1, OneIsRemoved
<1>4. /\ \A t \in DOMAIN states :
           /\ states[t] \in Rev!Statuses \cup {"skipped"}
           /\ states[t] = "passed" => \A r \in needs[t] : r \in DOMAIN states /\ states[r] = "passed"
      /\ status \in Rev!Statuses /\ (status = "passed" <=> \A t \in DOMAIN states : states[t] = "passed")
  BY DEF Results
<1> HIDE DEF rest, s
<1>5. DOMAIN next = DOMAIN states \cup {s} /\ next[s] = result /\ needs[s] \subseteq DOMAIN states
  BY DEF s
<1>6. DOMAIN next = {t \in Names : \A n \in DOMAIN rest : rest[n] # t}
  <2>1. \A t \in Names : t \in DOMAIN states <=> \A n \in DOMAIN left : left[n] # t
    BY <1>1
  <2>2. \A t \in Names : (\A n \in DOMAIN rest : rest[n] # t) <=> t = s \/ t \in DOMAIN states
    BY <1>3, <2>1, Zenon
  <2>3. DOMAIN states \subseteq Names
    BY <1>1
  <2> QED BY <1>2, <1>5, <2>2, <2>3
<1>7. result = "skipped" => status # "passed"
  BY <1>4, <1>5 DEF s
<1>8. then \in Rev!Statuses
  BY <1>4, <1>7
<1>9. then = "passed" <=> \A t \in DOMAIN next : next[t] = "passed"
  BY <1>2, <1>4, <1>5, Zenon
<1>10. ASSUME NEW t \in DOMAIN next
       PROVE  /\ next[t] \in Rev!Statuses \cup {"skipped"}
              /\ next[t] = "passed" => \A r \in needs[t] : r \in DOMAIN next /\ next[r] = "passed"
  <2>1. CASE t = s
    BY <1>5, <2>1 DEF s
  <2>2. CASE t \in DOMAIN states
    BY <1>4, <1>5, <2>2
  <2> QED BY <1>5, <2>1, <2>2
<1> QED BY <1>3, <1>6, <1>8, <1>9, <1>10 DEF Split, Results, rest
LEMMA RestIsSkipped ==
  ASSUME NEW needs, NEW left, NEW states, NEW status, Split(left, states), Results(needs, states, status), status # "passed",
         NEW next, DOMAIN next = DOMAIN states \cup Rev!ToSet(left),
         \A s \in DOMAIN next : next[s] = IF s \in Rev!ToSet(left) THEN "skipped" ELSE states[s]
  PROVE  Split(<<>>, next) /\ Results(needs, next, status)
<1>1. /\ left \in Seq(Names) /\ DOMAIN states = {t \in Names : \A n \in DOMAIN left : left[n] # t}
      /\ \A t \in DOMAIN states :
           /\ states[t] \in Rev!Statuses \cup {"skipped"}
           /\ states[t] = "passed" => \A r \in needs[t] : r \in DOMAIN states /\ states[r] = "passed"
      /\ status \in Rev!Statuses /\ ~ \A t \in DOMAIN states : states[t] = "passed"
  BY DEF Split, Results
<1>2. \A t : t \in Rev!ToSet(left) <=> \E n \in DOMAIN left : left[n] = t
  BY DEF Rev!ToSet
<1>3. Rev!ToSet(left) \subseteq Names /\ \A t \in DOMAIN states : t \notin Rev!ToSet(left)
  BY <1>1, <1>2
<1>4. DOMAIN next = Names
  BY <1>1, <1>2, <1>3
<1>5. <<>> \in Seq(Names) /\ DOMAIN <<>> = {}
  OBVIOUS
<1>6. \A t \in DOMAIN states : t \in DOMAIN next /\ next[t] = states[t]
  BY <1>3
<1>7. ~ \A t \in DOMAIN next : next[t] = "passed"
  BY <1>1, <1>6
<1>8. ASSUME NEW t \in DOMAIN next
      PROVE  /\ next[t] \in Rev!Statuses \cup {"skipped"}
             /\ next[t] = "passed" => \A r \in needs[t] : r \in DOMAIN next /\ next[r] = "passed"
  <2>1. CASE t \in Rev!ToSet(left)
    BY <2>1
  <2>2. CASE t \in DOMAIN states
    BY <1>1, <1>6, <2>2
  <2> QED BY <2>1, <2>2
<1> QED BY <1>1, <1>4, <1>5, <1>7, <1>8 DEF Split, Results

LEMMA ReviewRunStep ==
  ASSUME ReviewInv, NEW u \in Users, Rev!RunStep(u)
  PROVE  ReviewInv'
<1> DEFINE c == calls[u]
           i == Rev!Min(Rev!Ready(c))
           s == c.left[i]
           rest == Rev!RemoveAt(c.left, i)
<1>1. /\ ReviewCall(c, store, history.drafts) /\ c.at = "run" /\ c.left # <<>> /\ UNCHANGED <<store, history>>
      /\ IF Rev!Ready(c) = {} THEN Rev!To(u, Rev!Idle)
         ELSE \E result \in IF Rev!Blocked(c, c.left[i]) THEN {"skipped"} ELSE Rev!Statuses :
                Rev!To(u, Rev!WithStep(c, i, result))
  BY DEF ReviewInv, Rev!RunStep
<1>2. /\ c = [at |-> "run", name |-> c.name, set |-> c.set, head |-> c.head, left |-> c.left,
              states |-> c.states, status |-> c.status]
      /\ Kept(c.set, store, history.drafts) /\ c.head = c.set.id.head
      /\ Split(c.left, c.states) /\ Results(c.set.needs, c.states, c.status)
  BY <1>1 DEF ReviewCall, Rev!Idle
<1>3. CASE Rev!Ready(c) = {}
  <2>1. ReviewCall(Rev!Idle, store, history.drafts)
    BY DEF ReviewCall
  <2> QED BY <1>1, <1>3, <2>1, ReviewTo
<1>4. CASE Rev!Ready(c) # {}
  <2>1. PICK result \in IF Rev!Blocked(c, s) THEN {"skipped"} ELSE Rev!Statuses : Rev!To(u, Rev!WithStep(c, i, result))
    BY <1>1, <1>4
  <2>2. i \in DOMAIN c.left /\ c.set.needs[s] \subseteq DOMAIN c.states
    <3>1. Rev!Ready(c) \subseteq Nat
      BY <1>2 DEF Rev!Ready, Split
    <3>2. \E n \in Rev!Ready(c) : \A m \in Rev!Ready(c) : n <= m
      BY <1>4, <3>1, LeastNumber
    <3>3. i \in Rev!Ready(c)
      BY <3>2 DEF Rev!Min
    <3> QED BY <3>3 DEF Rev!Ready
  <2>3. /\ result \in Rev!Statuses \cup {"skipped"}
        /\ result = "passed" => \A t \in c.set.needs[s] : c.states[t] = "passed"
        /\ result = "skipped" => \E t \in c.set.needs[s] : c.states[t] # "passed"
    BY <2>1 DEF Rev!Blocked, Rev!Statuses
  <2> DEFINE next == [t \in DOMAIN c.states \cup {s} |-> IF t \in {s} THEN result ELSE c.states[t]]
             then == IF c.status = "passed" THEN result ELSE c.status
             all == [t \in DOMAIN next \cup Rev!ToSet(rest) |-> IF t \in Rev!ToSet(rest) THEN "skipped" ELSE next[t]]
             stops == result \in {"timed_out", "cancelled"}
             left == IF stops THEN <<>> ELSE rest
             states == IF stops THEN all ELSE next
  <2>4. s \notin DOMAIN c.states
    BY <1>2, <2>2 DEF Split
  <2>5. Split(rest, next) /\ Results(c.set.needs, next, then)
    <3>1. /\ DOMAIN next = DOMAIN c.states \cup {s} /\ next[s] = result /\ \A t \in DOMAIN c.states : next[t] = c.states[t]
      BY <2>4
    <3> HIDE DEF next, c, i
    <3> QED BY <1>2, <2>2, <2>3, <3>1, StepIsDone
  <2>6. ASSUME stops
        PROVE  Split(<<>>, all) /\ Results(c.set.needs, all, then)
    <3>1. then # "passed"
      BY <2>6
    <3>2. DOMAIN all = DOMAIN next \cup Rev!ToSet(rest)
          /\ \A t \in DOMAIN all : all[t] = IF t \in Rev!ToSet(rest) THEN "skipped" ELSE next[t]
      OBVIOUS
    <3> HIDE DEF next, all, rest, then, c
    <3> QED BY <2>5, <3>1, <3>2, RestIsSkipped
  <2>7. Split(left, states) /\ Results(c.set.needs, states, then)
    <3> HIDE DEF next, all, rest, then, c
    <3>1. CASE stops
      BY <2>6, <3>1
    <3>2. CASE ~stops
      BY <2>5, <3>2
    <3> QED BY <3>1, <3>2
  <2>8. Rev!WithStep(c, i, result) = [c EXCEPT !.left = left, !.states = states, !.status = then]
    BY DEF Rev!WithStep, Rev!Ended
  <2> DEFINE d == [at |-> "run", name |-> c.name, set |-> c.set, head |-> c.head, left |-> left, states |-> states, status |-> then]
  <2>9. Rev!WithStep(c, i, result) = d
    <3> DEFINE first == [c EXCEPT !.left = left]
               second == [first EXCEPT !.states = states]
               third == [second EXCEPT !.status = then]
    <3>1. Rev!WithStep(c, i, result) = third
      BY <2>8
    <3> HIDE DEF left, states, then, c, i
    <3>2. first = [at |-> "run", name |-> c.name, set |-> c.set, head |-> c.head, left |-> left,
                   states |-> c.states, status |-> c.status]
      BY <1>2
    <3> HIDE DEF first
    <3>3. second = [at |-> "run", name |-> c.name, set |-> c.set, head |-> c.head, left |-> left,
                    states |-> states, status |-> c.status]
      BY <3>2
    <3> HIDE DEF second
    <3>4. third = d
      BY <3>3
    <3> QED BY <3>1, <3>4
  <2>10. ReviewCall(d, store, history.drafts)
    <3> HIDE DEF left, states, then, c
    <3> QED BY <1>2, <2>7 DEF ReviewCall
  <2> HIDE DEF d
  <2> QED BY <1>1, <2>1, <2>9, <2>10, ReviewTo
<1> QED BY <1>3, <1>4

\* A run is stored with a result of every step.
LEMMA ReviewSaveRun ==
  ASSUME ReviewInv, NEW u \in Users, Rev!SaveRun(u)
  PROVE  ReviewInv'
<1> DEFINE c == calls[u]
           run == [set |-> c.set, head |-> c.head, states |-> c.states, status |-> c.status, call |-> budget.calls]
           d == IF run.status \in {"failed", "timed_out", "unavailable"} THEN [at |-> "count", run |-> run] ELSE Rev!Idle
<1>1. /\ ReviewCall(c, store, history.drafts) /\ ReviewRows(store, history.drafts) /\ c.at = "run" /\ c.left = <<>>
      /\ history = [drafts |-> history.drafts] /\ history' = history /\ Rev!To(u, d)
      /\ store' = [store EXCEPT !.runs = store.runs \cup {run}]
  BY DEF ReviewInv, Rev!SaveRun
<1>2. Split(c.left, c.states) /\ Results(c.set.needs, c.states, c.status)
  BY <1>1 DEF ReviewCall, Rev!Idle
<1>3. Finished(run)
  <2>1. DOMAIN c.states = Names
    BY <1>1, <1>2 DEF Split
  <2> QED BY <1>2, <2>1 DEF Finished
<1> HIDE DEF run
<1>4. store' = [proposals |-> store.proposals, sets |-> store.sets, runs |-> store.runs \cup {run},
                failures |-> store.failures, events |-> store.events]
  BY <1>1 DEF ReviewRows
<1>5. Reviewed(store') /\ \A s \in Sets : store'.sets[s] # None => Kept(store'.sets[s], store', history.drafts)
  <2>1. \A set : Kept(set, store, history.drafts) => Kept(set, store', history.drafts)
    BY <1>4 DEF Kept, MadeOf
  <2>2. Reviewed(store')
    BY <1>1, <1>4 DEF ReviewRows, Reviewed
  <2> QED BY <1>1, <1>4, <2>1, <2>2 DEF ReviewRows
<1>6. ReviewRows(store', history.drafts)
  <2>1. /\ store'.runs = store.runs \cup {run} /\ store'.failures = store.failures /\ store'.sets = store.sets
        /\ store'.proposals = store.proposals /\ store'.events = store.events
    BY <1>4
  <2>2. store'.failures \subseteq store'.runs /\ \A r \in store'.runs : Finished(r)
    BY <1>1, <1>3, <2>1 DEF ReviewRows
  <2>3. store' = [proposals |-> store'.proposals, sets |-> store'.sets, runs |-> store'.runs, failures |-> store'.failures,
                  events |-> store'.events]
    BY <1>4
  <2>4. /\ store'.proposals = [id \in DOMAIN store'.proposals |-> store'.proposals[id]]
        /\ store'.sets = [s \in Sets |-> store'.sets[s]]
    BY <1>1, <2>1 DEF ReviewRows
  <2> QED BY <1>5, <2>2, <2>3, <2>4 DEF ReviewRows
<1>7. ReviewCall(d, store', history'.drafts)
  BY <1>4 DEF ReviewCall
<1>8. ReviewsStay(store, store')
  BY <1>4 DEF ReviewsStay
<1> HIDE DEF d
<1> QED BY <1>1, <1>6, <1>7, <1>8, ReviewStores

LEMMA ReviewCountFailure ==
  ASSUME ReviewInv, NEW u \in Users, Rev!CountFailure(u)
  PROVE  ReviewInv'
<1> DEFINE c == calls[u]
<1>1. /\ ReviewCall(c, store, history.drafts) /\ ReviewRows(store, history.drafts) /\ c.at = "count"
      /\ history = [drafts |-> history.drafts] /\ history' = history /\ Rev!To(u, Rev!Idle)
      /\ store' = [store EXCEPT !.failures = store.failures \cup {c.run}]
  BY DEF ReviewInv, Rev!CountFailure
<1>2. c.run \in store.runs
  BY <1>1 DEF ReviewCall, Rev!Idle
<1>3. store' = [proposals |-> store.proposals, sets |-> store.sets, runs |-> store.runs,
                failures |-> store.failures \cup {c.run}, events |-> store.events]
  BY <1>1 DEF ReviewRows
<1>4. Reviewed(store') /\ \A s \in Sets : store'.sets[s] # None => Kept(store'.sets[s], store', history.drafts)
  <2>1. \A set : Kept(set, store, history.drafts) => Kept(set, store', history.drafts)
    BY <1>3 DEF Kept, MadeOf
  <2>2. Reviewed(store')
    BY <1>1, <1>3 DEF ReviewRows, Reviewed
  <2> QED BY <1>1, <1>3, <2>1, <2>2 DEF ReviewRows
<1>5. ReviewRows(store', history.drafts)
  <2>1. /\ store'.runs = store.runs /\ store'.failures = store.failures \cup {c.run} /\ store'.sets = store.sets
        /\ store'.proposals = store.proposals /\ store'.events = store.events
    BY <1>3
  <2>2. store'.failures \subseteq store'.runs /\ \A r \in store'.runs : Finished(r)
    BY <1>1, <1>2, <2>1 DEF ReviewRows
  <2>3. store' = [proposals |-> store'.proposals, sets |-> store'.sets, runs |-> store'.runs, failures |-> store'.failures,
                  events |-> store'.events]
    BY <1>3
  <2>4. /\ store'.proposals = [id \in DOMAIN store'.proposals |-> store'.proposals[id]]
        /\ store'.sets = [s \in Sets |-> store'.sets[s]]
    BY <1>1, <2>1 DEF ReviewRows
  <2> QED BY <1>4, <2>2, <2>3, <2>4 DEF ReviewRows
<1>6. ReviewCall(Rev!Idle, store', history'.drafts) /\ ReviewsStay(store, store')
  BY <1>3 DEF ReviewCall, ReviewsStay
<1> QED BY <1>1, <1>5, <1>6, ReviewStores

\* What a handler has read when it goes on.
LEMMA ReviewReads ==
  ASSUME ReviewConstants, ReviewInv, NEW u \in Users,
         \/ Rev!Discover(u) \/ Rev!Locate(u) \/ Rev!Fault(u)
         \/ \E id \in Rev!Known, to \in Answers : Rev!Review(u, id, to)
         \/ \E s \in Sets : \/ Rev!ApplySet(u, s) \/ Rev!RunSet(u, s)
                            \/ \E id \in Rev!Known, needs \in Inputs : Rev!CreateSet(u, s, id, needs)
  PROVE  ReviewInv'
<1>1. ReviewCall(calls[u], store, history.drafts) /\ ReviewRows(store, history.drafts)
  BY DEF ReviewInv
<1>2. CASE Rev!Discover(u)
  <2>1. PICK left : Rev!To(u, [at |-> "save", left |-> left])
    BY <1>2 DEF Rev!Discover
  <2>2. ReviewCall([at |-> "save", left |-> left], store, history.drafts)
    BY DEF ReviewCall
  <2>3. UNCHANGED <<store, history>>
    BY <1>2 DEF Rev!Discover
  <2> QED BY <2>1, <2>2, <2>3, ReviewTo
<1>3. CASE Rev!Locate(u)
  <2> DEFINE c == calls[u]
             d == [at |-> "run", name |-> c.name, set |-> c.set, head |-> world.head,
                   left |-> Steps, states |-> << >>, status |-> "passed"]
             current == world.worktree = "current" /\ world.head = c.set.id.head
  <2>1. c.at = "locate" /\ Rev!To(u, IF current THEN d ELSE Rev!Idle) /\ UNCHANGED <<store, history>>
    BY <1>3 DEF Rev!Locate
  <2>2. Kept(c.set, store, history.drafts)
    BY <1>1, <2>1 DEF ReviewCall, Rev!Idle
  <2>3. DOMAIN << >> = {} /\ \A s \in Names : \E i \in DOMAIN Steps : Steps[i] = s
    BY DEF Names, Rev!ToSet
  <2>4. Split(Steps, << >>)
    BY <2>3 DEF Split, ReviewConstants
  <2>5. Results(c.set.needs, << >>, "passed")
    BY <2>3 DEF Results, Rev!Statuses
  <2>6. current => ReviewCall(d, store, history.drafts)
    <3> HIDE DEF c
    <3> QED BY <2>2, <2>4, <2>5 DEF ReviewCall
  <2>7. ReviewCall(Rev!Idle, store, history.drafts)
    BY DEF ReviewCall
  <2>8. ReviewCall(IF current THEN d ELSE Rev!Idle, store, history.drafts)
    <3> HIDE DEF d, current
    <3> QED BY <2>6, <2>7
  <2> HIDE DEF d, current
  <2> QED BY <2>1, <2>8, ReviewTo
<1>4. CASE Rev!Fault(u)
  <2>1. ReviewCall(Rev!Idle, store, history.drafts) /\ Rev!To(u, Rev!Idle) /\ UNCHANGED <<store, history>>
    BY <1>4 DEF ReviewCall, Rev!Fault
  <2> QED BY <2>1, ReviewTo
<1>5. ASSUME NEW id \in Rev!Known, NEW to \in Answers, Rev!Review(u, id, to)
      PROVE  ReviewInv'
  <2>1. /\ Rev!To(u, IF Rev!Stale(id) THEN [at |-> "mark", id |-> id] ELSE [at |-> "review", id |-> id, to |-> to])
        /\ UNCHANGED <<store, history>>
    BY <1>5 DEF Rev!Review
  <2>2. /\ ReviewCall([at |-> "mark", id |-> id], store, history.drafts)
        /\ ReviewCall([at |-> "review", id |-> id, to |-> to], store, history.drafts)
    BY DEF ReviewCall, Rev!Known
  <2>3. ReviewCall(IF Rev!Stale(id) THEN [at |-> "mark", id |-> id] ELSE [at |-> "review", id |-> id, to |-> to],
                   store, history.drafts)
    BY <2>2
  <2> QED BY <2>1, <2>3, ReviewTo
<1>6. ASSUME NEW s \in Sets, Rev!ApplySet(u, s)
      PROVE  ReviewInv'
  <2> DEFINE set == store.sets[s]
             applied == [id |-> set.id, needs |-> set.needs, state |-> "applied"]
  <2>1. Kept(set, store, history.drafts) /\ UNCHANGED <<store, history>>
        /\ Rev!To(u, [at |-> "keep", name |-> s, set |-> [set EXCEPT !.state = "applied"]])
    BY <1>1, <1>6 DEF Rev!ApplySet, ReviewRows
  <2>2. [set EXCEPT !.state = "applied"] = applied
    BY <2>1 DEF Kept, MadeOf
  <2>3. Kept(applied, store, history.drafts)
    BY <2>1 DEF Kept, MadeOf
  <2> HIDE DEF applied
  <2>4. ReviewCall([at |-> "keep", name |-> s, set |-> applied], store, history.drafts)
    BY <2>3 DEF ReviewCall, Kept
  <2> QED BY <2>1, <2>2, <2>4, ReviewTo
<1>7. ASSUME NEW s \in Sets, Rev!RunSet(u, s)
      PROVE  ReviewInv'
  <2>1. Kept(store.sets[s], store, history.drafts) /\ UNCHANGED <<store, history>>
        /\ Rev!To(u, [at |-> "locate", name |-> s, set |-> store.sets[s]])
    BY <1>1, <1>7 DEF Rev!RunSet, ReviewRows
  <2>2. ReviewCall([at |-> "locate", name |-> s, set |-> store.sets[s]], store, history.drafts)
    BY <2>1 DEF ReviewCall
  <2> QED BY <2>1, <2>2, ReviewTo
<1>8. ASSUME NEW s \in Sets, NEW id \in Rev!Known, NEW needs \in Inputs, Rev!CreateSet(u, s, id, needs)
      PROVE  ReviewInv'
  <2> DEFINE set == [id |-> id, needs |-> needs, state |-> "draft"]
  <2>1. /\ Rev!Is(id, "applied") /\ id.command \in Typed /\ UNCHANGED <<store, history>>
        /\ Rev!To(u, [at |-> "keep", name |-> s, set |-> set]) /\ \A t \in DOMAIN needs : needs[t] \subseteq DOMAIN needs
    BY <1>8 DEF Rev!CreateSet, Rev!ValidSteps
  <2>2. MadeOf(set, store)
    BY <2>1 DEF MadeOf, Rev!Is, Rev!Known, ReviewConstants
  <2>3. ReviewCall([at |-> "keep", name |-> s, set |-> set], store, history.drafts)
    <3>1. set.state = "draft"
      OBVIOUS
    <3> HIDE DEF set
    <3> QED BY <2>2, <3>1 DEF ReviewCall
  <2> QED BY <2>1, <2>3, ReviewTo
<1> QED BY <1>2, <1>3, <1>4, <1>5, <1>6, <1>7, <1>8

LEMMA ReviewStep ==
  ASSUME ReviewConstants, ReviewInv, [Rev!ReviewNext]_vars
  PROVE  ReviewInv'
<1>1. CASE UNCHANGED vars
  BY <1>1 DEF vars, ReviewInv
<1>2. ASSUME NEW u \in Users, Rev!Handle(u)
      PROVE  ReviewInv'
  <2>1. \/ Rev!Discover(u) \/ Rev!SaveProposal(u) \/ Rev!MarkStale(u) \/ Rev!CommitReview(u) \/ Rev!KeepSet(u)
        \/ Rev!Locate(u) \/ Rev!RunStep(u) \/ Rev!SaveRun(u) \/ Rev!CountFailure(u) \/ Rev!Fault(u)
        \/ \E id \in Rev!Known, to \in Answers : Rev!Review(u, id, to)
        \/ \E s \in Sets : \/ Rev!ApplySet(u, s) \/ Rev!RunSet(u, s)
                           \/ \E id \in Rev!Known, needs \in Inputs : Rev!CreateSet(u, s, id, needs)
    BY <1>2 DEF Rev!Handle, Answers
  <2> QED BY <2>1, ReviewReads, ReviewSaveProposal, ReviewMarkStale, ReviewCommit, ReviewKeepSet, ReviewRunStep,
             ReviewSaveRun, ReviewCountFailure
<1>3. CASE Rev!Crash
  <2>1. UNCHANGED <<store, history>> /\ calls' = [u \in Users |-> Rev!Idle]
    BY <1>3 DEF Rev!Crash
  <2>2. \A u \in Users : ReviewCall(calls'[u], store, history.drafts)
    BY <2>1 DEF ReviewCall
  <2> QED BY <2>1, <2>2 DEF ReviewInv
<1>4. CASE Rev!Change
  <2>1. UNCHANGED <<store, calls, history>>
    BY <1>4 DEF Rev!Change
  <2> QED BY <2>1 DEF ReviewInv
<1> QED BY <1>1, <1>2, <1>3, <1>4 DEF Rev!ReviewNext

LEMMA ReviewIsSound ==
  ASSUME ReviewConstants
  PROVE  ReviewSpec => []ReviewInv
BY ReviewStarts, ReviewStep, PTL DEF ReviewSpec

\* A command runs only if a person has applied the proposal that names it and the
\* checkset was made of that proposal (CreateCheckset, RunCheckset): whatever is
\* found again, reviewed, replaced or committed while a handler has read and not
\* yet run, for any number of users and checksets.
THEOREM CheckedCommandsAreReviewed ==
  ASSUME ReviewConstants
  PROVE  ReviewSpec => []Rev!OnlyReviewedCommandsAreChecked
<1>1. ReviewInv => Rev!OnlyReviewedCommandsAreChecked
  <2> SUFFICES ASSUME ReviewInv PROVE Rev!OnlyReviewedCommandsAreChecked
    OBVIOUS
  <2>1. ASSUME NEW u \in Users, calls[u].at = "run"
        PROVE  calls[u].head = calls[u].set.id.head /\ Kept(calls[u].set, store, history.drafts)
    <3>1. ReviewCall(calls[u], store, history.drafts)
      BY DEF ReviewInv
    <3> QED BY <2>1, <3>1 DEF ReviewCall, Rev!Idle
  <2>2. ASSUME NEW set, set # None,
               (\E s \in Sets : set = store.sets[s]) \/ \E u \in Users : calls[u].at = "run" /\ set = calls[u].set
        PROVE  Kept(set, store, history.drafts)
    BY <2>1, <2>2 DEF ReviewInv, ReviewRows
  <2>3. ASSUME NEW set, Kept(set, store, history.drafts)
        PROVE  /\ Rev!Is(set.id, "applied") /\ [id |-> set.id, to |-> "applied"] \in Rev!ToSet(store.events)
               /\ set.id.command \in Typed /\ [set EXCEPT !.state = "draft"] \in history.drafts
    <3>1. set.id \in DOMAIN store.proposals /\ store.proposals[set.id] = "applied" /\ set.id.command \in Typed
      BY <2>3 DEF Kept, MadeOf
    <3>2. [set EXCEPT !.state = "draft"] = [id |-> set.id, needs |-> set.needs, state |-> "draft"]
      BY <2>3 DEF Kept, MadeOf
    <3> DEFINE R == EventSet(DOMAIN store.proposals)
    <3>3. store.events \in Seq(R) /\ Settled(set.id, "applied", store.events)
      BY <3>1 DEF ReviewInv, ReviewRows, Reviewed
    <3>4. PICK n \in DOMAIN store.events : EventsOf(store.events, set.id) = {n} /\ store.events[n].to = "applied"
      BY <3>3 DEF Settled, Answers
    <3>5. store.events[n].id = set.id
      BY <3>4 DEF EventsOf
    <3> HIDE DEF R
    <3>6. store.events[n] \in R
      BY <3>3, <3>4
    <3>7. store.events[n] = [id |-> set.id, to |-> "applied"]
      BY <3>4, <3>5, <3>6 DEF R, EventSet
    <3>8. [id |-> set.id, to |-> "applied"] \in Rev!ToSet(store.events)
      BY <3>4, <3>7 DEF Rev!ToSet
    <3> QED BY <2>3, <3>1, <3>2, <3>8 DEF Kept, Rev!Is, Rev!Known
  <2> QED BY <2>1, <2>2, <2>3 DEF Rev!OnlyReviewedCommandsAreChecked
<1> QED BY <1>1, ReviewIsSound, PTL

\* A run of a checkset says what its steps did (checkset.Run): a step has passed
\* only after all that it depends on, the run if and only if all steps have, and
\* every step has a result.
THEOREM CheckRunsAreScheduled ==
  ASSUME ReviewConstants
  PROVE  ReviewSpec => [](Rev!ReviewTypeOK /\ Rev!RunsAreScheduled)
<1>1. ReviewInv => Rev!ReviewTypeOK /\ Rev!RunsAreScheduled
  <2> SUFFICES ASSUME ReviewInv PROVE Rev!ReviewTypeOK /\ Rev!RunsAreScheduled
    OBVIOUS
  <2>1. /\ \A id \in DOMAIN store.proposals : store.proposals[id] \in {"pending", "applied", "rejected", "stale"}
        /\ store.failures \subseteq store.runs /\ \A run \in store.runs : Finished(run)
    BY DEF ReviewInv, ReviewRows, Reviewed, Settled
  <2>2. Rev!ReviewTypeOK
    BY <2>1 DEF Rev!ReviewTypeOK, Rev!Known, Finished, Results, Names
  <2>3. Rev!RunsAreScheduled
    BY <2>1 DEF Rev!RunsAreScheduled, Finished, Results, Names
  <2> QED BY <2>2, <2>3
<1> QED BY <1>1, ReviewIsSound, PTL

\* A review is taken once, from pending, and leaves one event (ReviewProposal);
\* finding the command again or marking the proposal stale does not undo it.
THEOREM ReviewsAreTakenOnce ==
  ASSUME ReviewConstants
  PROVE  ReviewSpec => [][Rev!ReviewsAreFinal]_vars
<1>1. ASSUME ReviewInv, ReviewInv', [Rev!ReviewNext]_vars PROVE [Rev!ReviewsAreFinal]_vars
  <2> SUFFICES ASSUME Rev!ReviewNext PROVE Rev!ReviewsAreFinal
    BY <1>1 DEF vars
  <2>1. ASSUME NEW id \in DOMAIN store.proposals, store.proposals'[id] # store.proposals[id]
        PROVE  store.proposals[id] = "pending"
    <3>1. store' # store /\ ReviewRows(store, history.drafts)
      BY <1>1, <2>1 DEF ReviewInv
    <3>2. PICK u \in Users : \/ Rev!SaveProposal(u) \/ Rev!MarkStale(u) \/ Rev!CommitReview(u) \/ Rev!KeepSet(u)
                             \/ Rev!SaveRun(u) \/ Rev!CountFailure(u)
      BY <3>1 DEF Rev!ReviewNext, Rev!Handle, Rev!Discover, Rev!Locate, Rev!RunStep, Rev!Fault, Rev!Review, Rev!ApplySet,
                  Rev!RunSet, Rev!CreateSet, Rev!Crash, Rev!Change
    <3>3. \/ store'.proposals = store.proposals
          \/ \E p : store'.proposals = [q \in DOMAIN store.proposals \cup {p} |->
                                          IF q \in DOMAIN store.proposals THEN store.proposals[q] ELSE "pending"]
          \/ \E p, state : /\ store'.proposals = [store.proposals EXCEPT ![p] = state]
                           /\ state # store.proposals[p] => store.proposals[p] = "pending"
      <4>1. CASE Rev!SaveProposal(u)
        BY <3>1, <4>1 DEF Rev!SaveProposal, Rev!Known, ReviewRows
      <4>2. CASE Rev!MarkStale(u)
        BY <3>1, <4>2 DEF Rev!MarkStale, ReviewRows
      <4>3. CASE Rev!CommitReview(u)
        BY <3>1, <4>3 DEF Rev!CommitReview, ReviewRows
      <4>4. CASE Rev!KeepSet(u) \/ Rev!SaveRun(u) \/ Rev!CountFailure(u)
        BY <3>1, <4>4 DEF Rev!KeepSet, Rev!SaveRun, Rev!CountFailure, ReviewRows
      <4> QED BY <3>2, <4>1, <4>2, <4>3, <4>4
    <3> QED BY <2>1, <3>1, <3>3 DEF ReviewRows
  <2>2. ASSUME NEW id \in DOMAIN store.proposals'
        PROVE  LET of == {n \in DOMAIN store.events' : store.events'[n].id = id}
               IN IF store.proposals'[id] \in {"applied", "rejected"}
                  THEN \E n \in DOMAIN store.events' : of = {n} /\ store.events'[n].to = store.proposals'[id]
                  ELSE of = {}
    <3>1. Settled(id, store'.proposals[id], store'.events)
      BY <1>1, <2>2 DEF ReviewInv, ReviewRows, Reviewed
    <3> QED BY <3>1 DEF Settled, EventsOf, Answers
  <2> QED BY <2>1, <2>2 DEF Rev!ReviewsAreFinal, Rev!Known
<1> QED BY <1>1, ReviewIsSound, PTL DEF ReviewSpec

-----------------------------------------------------------------------------
(* Measurement: the rows are only added to, each under an id of its own, so  *)
(* the row of a confirmed import stays the one that was confirmed; masking   *)
(* changes nothing that makes a manifest valid.                              *)
Meas == INSTANCE Measurement

MeasurementSpec == Meas!MeasurementInit /\ [][Meas!MeasurementNext]_vars
ProbeRecord(m) ==
  m = [id |-> m.id, name |-> m.name, required |-> m.required, status |-> m.status, provenance |-> m.provenance,
       requests |-> m.requests, successes |-> m.successes, failures |-> m.failures, samples |-> m.samples,
       p50 |-> m.p50, p95 |-> m.p95, command |-> m.command]
RunRecord(r) ==
  r = [id |-> r.id, head |-> r.head, dirty |-> r.dirty, tools |-> r.tools, started |-> r.started, ended |-> r.ended,
       status |-> r.status, failures |-> r.failures, metrics |-> r.metrics]
\* The measurements of a run, a sequence of records that have the type of their code.
Probes(metrics) ==
  /\ Len(metrics) \in Nat /\ metrics = [n \in 1..Len(metrics) |-> metrics[n]]
  /\ \A n \in 1..Len(metrics) : ProbeRecord(metrics[n]) /\ metrics[n].successes \in Nat
\* A manifest is a record of the kind that MeasurementContract describes.
MeasurementConstants ==
  \A r \in Manifests : RunRecord(r) /\ Probes(r.metrics)

\* Two lists that say the same of what was required.
SameGate(a, b) ==
  /\ Len(a) \in Nat /\ Len(a) = Len(b) /\ DOMAIN a = 1..Len(a) /\ DOMAIN b = 1..Len(a)
  /\ \A n \in 1..Len(a) : a[n].required = b[n].required /\ a[n].status = b[n].status /\ a[n].id = b[n].id

\* The required failures that the loop of requiredStatus has found after n measurements.
FailuresUpTo(found, metrics) ==
  found = [n \in 0..Len(metrics) |->
            IF n = 0 THEN <<>>
            ELSE IF n \in Meas!Required(metrics) /\ metrics[n].status # "pass" THEN Append(found[n - 1], metrics[n].id)
            ELSE found[n - 1]]
LEMMA FailuresAre ==
  \A metrics : Meas!RequiredFailures(metrics) = (CHOOSE found : FailuresUpTo(found, metrics))[Len(metrics)]
BY Zenon DEF Meas!RequiredFailures, FailuresUpTo

\* The gate depends on nothing else.
LEMMA GateIsTheSame ==
  ASSUME NEW a, NEW b, SameGate(a, b)
  PROVE  Meas!RequiredFailures(a) = Meas!RequiredFailures(b) /\ Meas!RequiredStatus(a) = Meas!RequiredStatus(b)
<1>1. Meas!Required(a) = Meas!Required(b)
  BY DEF SameGate, Meas!Required
<1>2. ASSUME NEW found
      PROVE  FailuresUpTo(found, a) <=> FailuresUpTo(found, b)
  <2> DEFINE Next(m, n) == IF n = 0 THEN <<>>
                           ELSE IF n \in Meas!Required(m) /\ m[n].status # "pass" THEN Append(found[n - 1], m[n].id)
                           ELSE found[n - 1]
  <2>1. \A n \in 0..Len(a) : Next(a, n) = Next(b, n)
    <3>1. ASSUME NEW n \in 0..Len(a), n # 0
          PROVE  Next(a, n) = Next(b, n)
      <4>1. n \in 1..Len(a)
        BY <3>1 DEF SameGate
      <4>2. a[n].status = b[n].status /\ a[n].id = b[n].id
        BY <4>1 DEF SameGate
      <4> QED BY <1>1, <3>1, <4>2
    <3> QED BY <3>1
  <2>2. FailuresUpTo(found, a) <=> found = [n \in 0..Len(a) |-> Next(a, n)]
    BY DEF FailuresUpTo
  <2>3. FailuresUpTo(found, b) <=> found = [n \in 0..Len(b) |-> Next(b, n)]
    BY DEF FailuresUpTo
  <2>4. Len(a) = Len(b)
    BY DEF SameGate
  <2> HIDE DEF Next
  <2> QED BY <2>1, <2>2, <2>3, <2>4
<1>3. (CHOOSE found : FailuresUpTo(found, a)) = (CHOOSE found : FailuresUpTo(found, b))
  BY <1>2
<1>4. Meas!RequiredFailures(a) = Meas!RequiredFailures(b)
  BY <1>3, FailuresAre DEF SameGate
<1> QED BY <1>1, <1>4 DEF Meas!RequiredStatus

\* What masking leaves of a measurement, and of a run.
LEMMA MaskedProbe ==
  ASSUME NEW m, ProbeRecord(m), NEW id, NEW command
  PROVE  [m EXCEPT !.id = id, !.command = command] =
           [id |-> id, name |-> m.name, required |-> m.required, status |-> m.status, provenance |-> m.provenance,
            requests |-> m.requests, successes |-> m.successes, failures |-> m.failures, samples |-> m.samples,
            p50 |-> m.p50, p95 |-> m.p95, command |-> command]
<1> DEFINE first == [m EXCEPT !.id = id]
           second == [first EXCEPT !.command = command]
<1>1. [m EXCEPT !.id = id, !.command = command] = second
  OBVIOUS
<1>2. first = [id |-> id, name |-> m.name, required |-> m.required, status |-> m.status, provenance |-> m.provenance,
               requests |-> m.requests, successes |-> m.successes, failures |-> m.failures, samples |-> m.samples,
               p50 |-> m.p50, p95 |-> m.p95, command |-> m.command]
  BY DEF ProbeRecord
<1> HIDE DEF first
<1>3. second = [id |-> id, name |-> m.name, required |-> m.required, status |-> m.status, provenance |-> m.provenance,
                requests |-> m.requests, successes |-> m.successes, failures |-> m.failures, samples |-> m.samples,
                p50 |-> m.p50, p95 |-> m.p95, command |-> command]
  BY <1>2
<1> QED BY <1>1, <1>3
\* A row of a run: its measurements say the same but for the text of their commands.
RowOf(row, run) ==
  /\ row = [id |-> run.id, head |-> run.head, dirty |-> run.dirty, tools |-> row.tools, started |-> run.started,
            ended |-> run.ended, status |-> run.status, failures |-> run.failures, metrics |-> row.metrics]
  /\ Probes(row.metrics) /\ Len(row.metrics) = Len(run.metrics)
  /\ \A n \in 1..Len(run.metrics) :
       LET m == run.metrics[n] IN
       row.metrics[n] =
         [id |-> m.id, name |-> m.name, required |-> m.required, status |-> m.status, provenance |-> m.provenance,
          requests |-> m.requests, successes |-> m.successes, failures |-> m.failures, samples |-> m.samples,
          p50 |-> m.p50, p95 |-> m.p95, command |-> row.metrics[n].command]

\* The row of a run (maskedMeasurementRunJSON, restoreMeasurementRunIdentity).
LEMMA RowIs ==
  ASSUME NEW run, RunRecord(run), Probes(run.metrics)
  PROVE  RowOf(Meas!Row(run), run)
<1> DEFINE tools == [t \in DOMAIN run.tools |-> Meas!MaskedTool(run.tools[t])]
           failures == [n \in DOMAIN run.failures |-> Meas!Masked(run.failures[n])]
           masked == [n \in DOMAIN run.metrics |-> Meas!MaskedMetric(run.metrics[n])]
           Run(id, head, fails, some, probes) ==
             [id |-> id, head |-> head, dirty |-> run.dirty, tools |-> some, started |-> run.started, ended |-> run.ended,
              status |-> run.status, failures |-> fails, metrics |-> probes]
           n1 == [run EXCEPT !.id = Meas!Masked(run.id)]
           n2 == [n1 EXCEPT !.head = Meas!Masked(run.head)]
           n3 == [n2 EXCEPT !.failures = failures]
           n4 == [n3 EXCEPT !.tools = tools]
           n5 == [n4 EXCEPT !.metrics = masked]
           all == Run(Meas!Masked(run.id), Meas!Masked(run.head), failures, tools, masked)
<1>1. Meas!Everywhere(run) = n5
  BY DEF Meas!Everywhere
<1>2. Meas!Everywhere(run) = all
  <2> HIDE DEF tools, failures, masked
  <2>1. n1 = Run(Meas!Masked(run.id), run.head, run.failures, run.tools, run.metrics)
    BY DEF RunRecord
  <2> HIDE DEF n1
  <2>2. n2 = Run(Meas!Masked(run.id), Meas!Masked(run.head), run.failures, run.tools, run.metrics)
    BY <2>1
  <2> HIDE DEF n2
  <2>3. n3 = Run(Meas!Masked(run.id), Meas!Masked(run.head), failures, run.tools, run.metrics)
    BY <2>2
  <2> HIDE DEF n3
  <2>4. n4 = Run(Meas!Masked(run.id), Meas!Masked(run.head), failures, tools, run.metrics)
    BY <2>3
  <2> HIDE DEF n4
  <2>5. n5 = all
    BY <2>4
  <2> QED BY <1>1, <2>5
<1> DEFINE metrics == [n \in DOMAIN masked |-> [masked[n] EXCEPT !.id = run.metrics[n].id]]
           r0 == Meas!Everywhere(run)
           r1 == [r0 EXCEPT !.id = run.id]
           r2 == [r1 EXCEPT !.head = run.head]
           r3 == [r2 EXCEPT !.failures = run.failures]
           r4 == [r3 EXCEPT !.metrics = metrics]
           row == Run(run.id, run.head, run.failures, tools, metrics)
<1>3. Meas!Row(run) = row
  <2>1. r0.metrics = masked
    <3> HIDE DEF tools, failures, masked
    <3> QED BY <1>2
  <2>2. Meas!Row(run) = r4
    BY <2>1 DEF Meas!Row, Meas!Restored
  <2> HIDE DEF tools, failures, masked, metrics, r0
  <2>3. r0 = all
    BY <1>2 DEF r0
  <2>4. r1 = Run(run.id, Meas!Masked(run.head), failures, tools, masked)
    BY <2>3
  <2> HIDE DEF r1
  <2>5. r2 = Run(run.id, run.head, failures, tools, masked)
    BY <2>4
  <2> HIDE DEF r2
  <2>6. r3 = Run(run.id, run.head, run.failures, tools, masked)
    BY <2>5
  <2> HIDE DEF r3
  <2>7. r4 = row
    BY <2>6
  <2> QED BY <2>2, <2>7
<1> HIDE DEF tools, failures
<1>4. DOMAIN run.metrics = 1..Len(run.metrics) /\ Len(run.metrics) \in Nat
  BY DEF Probes
<1>5. ASSUME NEW n \in 1..Len(run.metrics)
      PROVE  LET m == run.metrics[n] IN
             metrics[n] =
               [id |-> m.id, name |-> m.name, required |-> m.required, status |-> m.status, provenance |-> m.provenance,
                requests |-> m.requests, successes |-> m.successes, failures |-> m.failures, samples |-> m.samples,
                p50 |-> m.p50, p95 |-> m.p95, command |-> Meas!Masked(m.command)]
  <2> DEFINE m == run.metrics[n]
             Probe(id) ==
               [id |-> id, name |-> m.name, required |-> m.required, status |-> m.status, provenance |-> m.provenance,
                requests |-> m.requests, successes |-> m.successes, failures |-> m.failures, samples |-> m.samples,
                p50 |-> m.p50, p95 |-> m.p95, command |-> Meas!Masked(m.command)]
             id == Meas!Masked(m.id)
             hidden == [m EXCEPT !.id = id, !.command = Meas!Masked(m.command)]
  <2>1. n \in DOMAIN masked /\ masked[n] = hidden /\ metrics[n] = [hidden EXCEPT !.id = m.id]
    <3>1. Meas!MaskedMetric(m) = hidden
      BY DEF Meas!MaskedMetric
    <3> HIDE DEF hidden
    <3> QED BY <1>4, <3>1
  <2>2. ProbeRecord(m)
    BY DEF Probes
  <2> HIDE DEF m, id
  <2>3. hidden = Probe(id)
    BY <2>2, MaskedProbe, Zenon
  <2> HIDE DEF hidden
  <2>4. [hidden EXCEPT !.id = m.id] = Probe(m.id)
    BY <2>3
  <2> QED BY <2>1, <2>4 DEF m
<1>6. metrics = [n \in 1..Len(run.metrics) |-> metrics[n]]
  BY <1>4
<1> HIDE DEF metrics, masked
<1>7. Len(metrics) = Len(run.metrics) /\ DOMAIN metrics = 1..Len(run.metrics)
  BY <1>4, <1>6
<1>8. ASSUME NEW n \in 1..Len(run.metrics)
      PROVE  /\ ProbeRecord(metrics[n]) /\ metrics[n].command = Meas!Masked(run.metrics[n].command)
             /\ metrics[n].successes \in Nat
  <2> DEFINE c == Meas!Masked(run.metrics[n].command)
  <2>1. PICK m : metrics[n] =
               [id |-> m.id, name |-> m.name, required |-> m.required, status |-> m.status, provenance |-> m.provenance,
                requests |-> m.requests, successes |-> m.successes, failures |-> m.failures, samples |-> m.samples,
                p50 |-> m.p50, p95 |-> m.p95, command |-> c]
    BY <1>5
  <2> HIDE DEF c
  <2>2. ProbeRecord(metrics[n]) /\ metrics[n].command = c
    BY <2>1 DEF ProbeRecord
  <2>3. metrics[n].successes = run.metrics[n].successes /\ run.metrics[n].successes \in Nat
    <3> DEFINE old == run.metrics[n]
    <3>1. metrics[n] =
               [id |-> old.id, name |-> old.name, required |-> old.required, status |-> old.status, provenance |-> old.provenance,
                requests |-> old.requests, successes |-> old.successes, failures |-> old.failures, samples |-> old.samples,
                p50 |-> old.p50, p95 |-> old.p95, command |-> c]
      BY <1>5 DEF c
    <3>2. old.successes \in Nat
      BY DEF Probes
    <3> HIDE DEF old
    <3>3. metrics[n].successes = old.successes
      BY <3>1
    <3> QED BY <3>2, <3>3 DEF old
  <2> QED BY <2>2, <2>3 DEF c
<1>9. row.metrics = metrics /\ row.tools = tools
  OBVIOUS
<1>10. Probes(metrics)
  BY <1>4, <1>6, <1>7, <1>8 DEF Probes
<1>11. row = [id |-> run.id, head |-> run.head, dirty |-> run.dirty, tools |-> row.tools, started |-> run.started,
              ended |-> run.ended, status |-> run.status, failures |-> run.failures, metrics |-> row.metrics]
  OBVIOUS
<1> HIDE DEF row
<1>12. \A n \in 1..Len(run.metrics) :
         LET m == run.metrics[n] IN
         metrics[n] =
           [id |-> m.id, name |-> m.name, required |-> m.required, status |-> m.status, provenance |-> m.provenance,
            requests |-> m.requests, successes |-> m.successes, failures |-> m.failures, samples |-> m.samples,
            p50 |-> m.p50, p95 |-> m.p95, command |-> metrics[n].command]
  BY <1>5, <1>8
<1> QED BY <1>3, <1>7, <1>9, <1>10, <1>11, <1>12 DEF RowOf

\* A row is as valid as the manifest that it is made from.
LEMMA RowStaysValid ==
  ASSUME NEW run, NEW row, RowOf(row, run), Probes(run.metrics), Meas!ValidRun(run)
  PROVE  Meas!ValidRun(row)
<1> DEFINE a == run.metrics
           b == row.metrics
<1>1. /\ row.dirty = run.dirty /\ row.started = run.started /\ row.ended = run.ended
      /\ row.status = run.status /\ row.failures = run.failures
  BY DEF RowOf
<1>2. Len(a) \in Nat /\ Len(b) = Len(a) /\ DOMAIN a = 1..Len(a) /\ DOMAIN b = 1..Len(a)
  BY DEF RowOf, Probes
<1>3. ASSUME NEW n \in 1..Len(a)
      PROVE  /\ b[n].id = a[n].id /\ b[n].required = a[n].required /\ b[n].status = a[n].status
             /\ b[n].provenance = a[n].provenance /\ b[n].requests = a[n].requests /\ b[n].successes = a[n].successes
             /\ b[n].failures = a[n].failures /\ b[n].samples = a[n].samples /\ b[n].p50 = a[n].p50 /\ b[n].p95 = a[n].p95
  <2> DEFINE m == a[n]
  <2>1. PICK command : b[n] =
          [id |-> m.id, name |-> m.name, required |-> m.required, status |-> m.status, provenance |-> m.provenance,
           requests |-> m.requests, successes |-> m.successes, failures |-> m.failures, samples |-> m.samples,
           p50 |-> m.p50, p95 |-> m.p95, command |-> command]
    BY DEF RowOf
  <2> HIDE DEF m, b
  <2> QED BY <2>1 DEF m
<1>4. SameGate(a, b)
  BY <1>2, <1>3 DEF SameGate
<1>5. Meas!RequiredFailures(a) = Meas!RequiredFailures(b) /\ Meas!RequiredStatus(a) = Meas!RequiredStatus(b)
  BY <1>4, GateIsTheSame
<1>6. ASSUME NEW m \in Meas!ToSet(b)
      PROVE  Meas!ValidMeasurement(m)
  <2>1. PICK n \in 1..Len(a) : m = b[n]
    BY <1>2 DEF Meas!ToSet
  <2>2. Meas!ValidMeasurement(a[n])
    BY <1>2 DEF Meas!ToSet, Meas!ValidRun
  <2> DEFINE p == a[n]
  <2>3. /\ m.id = p.id /\ m.required = p.required /\ m.status = p.status /\ m.provenance = p.provenance
        /\ m.requests = p.requests /\ m.successes = p.successes /\ m.failures = p.failures /\ m.samples = p.samples
        /\ m.p50 = p.p50 /\ m.p95 = p.p95
    BY <1>3, <2>1
  <2> HIDE DEF p
  <2>4. Meas!ValidMeasurement(p)
    BY <2>2 DEF p
  <2>5. Meas!RequestsAreEvidence(m)
    BY <2>3, <2>4 DEF Meas!ValidMeasurement, Meas!RequestsAreEvidence, Meas!StatusOfProbe
  <2>6. [p50 |-> m.p50, p95 |-> m.p95] = Meas!Summary(m.samples)
    BY <2>3, <2>4 DEF Meas!ValidMeasurement
  <2> QED BY <2>3, <2>4, <2>5, <2>6 DEF Meas!ValidMeasurement, Meas!FailureOnly
<1>7. \A i, j \in DOMAIN b : b[i].id = b[j].id => i = j
  <2>1. \A i, j \in DOMAIN a : a[i].id = a[j].id => i = j
    BY DEF Meas!ValidRun
  <2> QED BY <1>2, <1>3, <2>1
<1>8. Meas!ValidEnvelope(row)
  BY <1>1 DEF Meas!ValidRun, Meas!ValidEnvelope
<1>9. row.status = Meas!RequiredStatus(b) /\ row.failures = Meas!RequiredFailures(b)
  BY <1>1, <1>5 DEF Meas!ValidRun
<1> QED BY <1>6, <1>7, <1>8, <1>9 DEF Meas!ValidRun

\* A row has the identity of its manifest.
LEMMA IdentityIs ==
  ASSUME NEW run, RunRecord(run)
  PROVE  Meas!Identity(run) =
           [id |-> run.id, head |-> run.head, dirty |-> run.dirty, tools |-> None, started |-> run.started,
            ended |-> run.ended, status |-> run.status, failures |-> run.failures,
            metrics |-> [n \in DOMAIN run.metrics |-> [run.metrics[n] EXCEPT !.command = None]]]
<1> DEFINE metrics == [n \in DOMAIN run.metrics |-> [run.metrics[n] EXCEPT !.command = None]]
           first == [run EXCEPT !.tools = None]
           second == [first EXCEPT !.metrics = metrics]
<1>1. Meas!Identity(run) = second
  BY DEF Meas!Identity
<1> HIDE DEF metrics
<1>2. first = [id |-> run.id, head |-> run.head, dirty |-> run.dirty, tools |-> None, started |-> run.started,
               ended |-> run.ended, status |-> run.status, failures |-> run.failures, metrics |-> run.metrics]
  BY DEF RunRecord
<1> HIDE DEF first
<1>3. second = [id |-> run.id, head |-> run.head, dirty |-> run.dirty, tools |-> None, started |-> run.started,
                ended |-> run.ended, status |-> run.status, failures |-> run.failures, metrics |-> metrics]
  BY <1>2
<1> QED BY <1>1, <1>3 DEF metrics
LEMMA RowKeepsIdentity ==
  ASSUME NEW run, NEW row, RunRecord(run), Probes(run.metrics), RowOf(row, run)
  PROVE  Meas!Identity(row) = Meas!Identity(run)
<1> DEFINE a == run.metrics
           b == row.metrics
           Plain(metrics) == [n \in DOMAIN metrics |-> [metrics[n] EXCEPT !.command = None]]
<1>1. Len(a) \in Nat /\ Len(b) = Len(a) /\ DOMAIN a = 1..Len(a) /\ DOMAIN b = 1..Len(a)
  BY DEF RowOf, Probes
<1>2. ASSUME NEW n \in 1..Len(a)
      PROVE  [b[n] EXCEPT !.command = None] = [a[n] EXCEPT !.command = None]
  <2> DEFINE m == a[n]
             p == b[n]
             Probe(command) ==
               [id |-> m.id, name |-> m.name, required |-> m.required, status |-> m.status, provenance |-> m.provenance,
                requests |-> m.requests, successes |-> m.successes, failures |-> m.failures, samples |-> m.samples,
                p50 |-> m.p50, p95 |-> m.p95, command |-> command]
  <2>1. m = Probe(m.command) /\ p = Probe(p.command)
    BY DEF RowOf, Probes, ProbeRecord
  <2> HIDE DEF m, p
  <2>2. [m EXCEPT !.command = None] = Probe(None)
    BY <2>1
  <2>3. [p EXCEPT !.command = None] = Probe(None)
    BY <2>1
  <2>4. [p EXCEPT !.command = None] = [m EXCEPT !.command = None]
    BY <2>2, <2>3
  <2> QED BY <2>4 DEF m, p
<1>3. Plain(b) = Plain(a)
  BY <1>1, <1>2
<1>4. RunRecord(row)
  <2>1. PICK r : row = [id |-> r.id, head |-> r.head, dirty |-> r.dirty, tools |-> row.tools, started |-> r.started,
                        ended |-> r.ended, status |-> r.status, failures |-> r.failures, metrics |-> row.metrics]
    BY DEF RowOf
  <2> QED BY <2>1 DEF RunRecord
<1>5. /\ row.id = run.id /\ row.head = run.head /\ row.dirty = run.dirty /\ row.started = run.started
      /\ row.ended = run.ended /\ row.status = run.status /\ row.failures = run.failures
  BY DEF RowOf
<1>6. /\ Meas!Identity(run) =
           [id |-> run.id, head |-> run.head, dirty |-> run.dirty, tools |-> None, started |-> run.started,
            ended |-> run.ended, status |-> run.status, failures |-> run.failures, metrics |-> Plain(a)]
      /\ Meas!Identity(row) =
           [id |-> row.id, head |-> row.head, dirty |-> row.dirty, tools |-> None, started |-> row.started,
            ended |-> row.ended, status |-> row.status, failures |-> row.failures, metrics |-> Plain(b)]
  BY <1>4, IdentityIs, Zenon
<1> HIDE DEF Plain, a, b
<1> QED BY <1>3, <1>5, <1>6

\* The loop of requiredStatus ends with a list of failures; one that it has found stays.
LEMMA FailuresExist ==
  ASSUME NEW metrics, Len(metrics) \in Nat
  PROVE  \E found : FailuresUpTo(found, metrics)
<1> DEFINE last == Len(metrics)
           Ids == {metrics[n].id : n \in 1..last}
           failed(n) == n \in Meas!Required(metrics) /\ metrics[n].status # "pass"
           Step(found, n) == IF failed(n) THEN Append(found, metrics[n].id) ELSE found
           Found(found, n) == /\ found \in [0..n -> Seq(Ids)] /\ found[0] = <<>>
                              /\ \A m \in 1..n : found[m] = Step(found[m - 1], m)
           S == {n \in Nat : \E found : Found(found, n)}
<1>1. 0 \in S
  <2> DEFINE found == [n \in 0..0 |-> <<>>]
  <2>1. Found(found, 0)
    OBVIOUS
  <2> HIDE DEF Found
  <2> QED BY <2>1
<1>2. ASSUME NEW n \in Nat, n < last, n \in S
      PROVE  n + 1 \in S
  <2>1. PICK found : Found(found, n)
    BY <1>2
  <2> DEFINE next == Step(found[n], n + 1)
             longer == [m \in 0..(n + 1) |-> IF m = n + 1 THEN next ELSE found[m]]
  <2>2. found[n] \in Seq(Ids) /\ metrics[n + 1].id \in Ids
    <3>1. n + 1 \in 1..last /\ n \in 0..n
      BY <1>2
    <3> QED BY <2>1, <3>1
  <2>3. next \in Seq(Ids)
    <3> HIDE DEF Ids, failed
    <3> QED BY <2>2
  <2> HIDE DEF next, Ids
  <2>4. longer \in [0..(n + 1) -> Seq(Ids)] /\ longer[0] = <<>>
    BY <2>1, <2>3
  <2>5. ASSUME NEW m \in 1..(n + 1)
        PROVE  longer[m] = Step(longer[m - 1], m)
    <3>1. m \in 0..(n + 1) /\ m - 1 \in 0..(n + 1) /\ m - 1 # n + 1
      OBVIOUS
    <3>2. CASE m = n + 1
      <4>1. longer[m] = next /\ m - 1 = n
        BY <3>1, <3>2
      <4>2. longer[m - 1] = found[m - 1]
        BY <3>1
      <4> HIDE DEF longer, Step
      <4> QED BY <3>2, <4>1, <4>2 DEF next
    <3>3. CASE m # n + 1
      <4>1. m \in 1..n
        BY <3>3
      <4>2. longer[m] = found[m] /\ longer[m - 1] = found[m - 1]
        BY <3>1, <3>3
      <4> HIDE DEF longer, Step
      <4> QED BY <2>1, <4>1, <4>2
    <3> QED BY <3>2, <3>3
  <2>6. Found(longer, n + 1)
    <3> HIDE DEF longer, Step
    <3> QED BY <2>4, <2>5
  <2> HIDE DEF longer, Found
  <2> QED BY <2>6
<1> HIDE DEF S
<1>3. last \in S
  BY <1>1, <1>2, UpTo
<1>4. PICK found : Found(found, last)
  BY <1>3 DEF S
<1>5. \A n \in 0..last : found[n] = IF n = 0 THEN <<>> ELSE Step(found[n - 1], n)
  <2> HIDE DEF Step
  <2> SUFFICES ASSUME NEW n \in 0..last
               PROVE  found[n] = IF n = 0 THEN <<>> ELSE Step(found[n - 1], n)
    OBVIOUS
  <2>1. n # 0 => n \in 1..last
    OBVIOUS
  <2> QED BY <1>4, <2>1
<1>6. found = [n \in 0..last |-> found[n]]
  BY <1>4
<1>7. found = [n \in 0..last |-> IF n = 0 THEN <<>> ELSE Step(found[n - 1], n)]
  <2> HIDE DEF Step
  <2> QED BY <1>5, <1>6
<1> QED BY <1>7 DEF FailuresUpTo
LEMMA Appended ==
  ASSUME NEW S, NEW s \in Seq(S), NEW x \in S
  PROVE  Append(s, x) \in Seq(S) /\ Append(s, x) # <<>>
<1>1. Append(s, x) \in Seq(S) /\ Len(Append(s, x)) = Len(s) + 1 /\ Len(s) \in Nat
  OBVIOUS
<1>2. Len(<<>>) = 0
  OBVIOUS
<1> QED BY <1>1, <1>2
LEMMA FailuresAreFound ==
  ASSUME NEW metrics, Len(metrics) \in Nat, Meas!RequiredFailures(metrics) = <<>>,
         NEW k \in 1..Len(metrics), k \in Meas!Required(metrics)
  PROVE  metrics[k].status = "pass"
<1> SUFFICES ASSUME metrics[k].status # "pass"
             PROVE  FALSE
  OBVIOUS
<1> DEFINE last == Len(metrics)
           Ids == {metrics[n].id : n \in 1..last}
           found == CHOOSE found : FailuresUpTo(found, metrics)
           failed(n) == n \in Meas!Required(metrics) /\ metrics[n].status # "pass"
           Step(f, n) == IF failed(n) THEN Append(f, metrics[n].id) ELSE f
           S == {n \in Nat : found[n] \in Seq(Ids)}
           T == {n \in Nat : n >= k => found[n] # <<>>}
<1>1. FailuresUpTo(found, metrics)
  BY FailuresExist
<1>2. found[last] = <<>>
  BY FailuresAre
<1> HIDE DEF found
<1>3. found[0] = <<>> /\ \A n \in 1..last : found[n] = Step(found[n - 1], n)
  <2>1. \A n \in 0..last : found[n] = IF n = 0 THEN <<>> ELSE Step(found[n - 1], n)
    BY <1>1 DEF FailuresUpTo
  <2>2. 0 \in 0..last /\ \A n \in 1..last : n \in 0..last /\ n # 0
    OBVIOUS
  <2> HIDE DEF Step
  <2> QED BY <2>1, <2>2
<1>4. ASSUME NEW n \in Nat, n < last
      PROVE  n + 1 \in 1..last /\ found[n + 1] = Step(found[n], n + 1)
  <2>1. n + 1 \in 1..last /\ (n + 1) - 1 = n
    BY <1>4
  <2> HIDE DEF Step
  <2> QED BY <1>3, <2>1
<1>5. ASSUME NEW bound \in Nat, bound <= last
      PROVE  bound \in S
  <2>1. 0 \in S
    <3>1. <<>> \in Seq(Ids)
      <4> HIDE DEF Ids
      <4> QED OBVIOUS
    <3> HIDE DEF Ids
    <3> QED BY <1>3, <3>1
  <2>2. ASSUME NEW n \in Nat, n < bound, n \in S
        PROVE  n + 1 \in S
    <3>1. n < last
      BY <1>5, <2>2
    <3>2. n + 1 \in 1..last /\ found[n + 1] = Step(found[n], n + 1)
      BY <1>4, <3>1
    <3>3. found[n] \in Seq(Ids) /\ metrics[n + 1].id \in Ids
      BY <2>2, <3>2
    <3> HIDE DEF Ids, failed
    <3>4. found[n + 1] = found[n] \/ found[n + 1] = Append(found[n], metrics[n + 1].id)
      BY <3>2
    <3>5. found[n + 1] \in Seq(Ids)
      BY <3>3, <3>4, Appended
    <3> QED BY <3>5
  <2> HIDE DEF S
  <2> QED BY <2>1, <2>2, UpTo
<1>6. 0 \in T
  OBVIOUS
<1>7. ASSUME NEW n \in Nat, n < last, n \in T
      PROVE  n + 1 \in T
  <2>1. n + 1 \in 1..last /\ found[n + 1] = Step(found[n], n + 1) /\ n \in S
    BY <1>4, <1>5, <1>7
  <2>2. found[n] \in Seq(Ids)
    BY <2>1
  <2>3. CASE failed(n + 1)
    <3>1. found[n + 1] = Append(found[n], metrics[n + 1].id)
      BY <2>1, <2>3
    <3>2. metrics[n + 1].id \in Ids
      BY <2>1
    <3>3. found[n + 1] # <<>>
      <4> HIDE DEF Ids
      <4> QED BY <2>2, <3>1, <3>2, Appended
    <3> QED BY <3>3
  <2>4. CASE ~failed(n + 1)
    <3>1. found[n + 1] = found[n] /\ n + 1 # k
      BY <2>1, <2>4
    <3>2. n + 1 >= k => n >= k
      BY <3>1
    <3> HIDE DEF failed
    <3> QED BY <1>7, <3>1, <3>2
  <2> QED BY <2>3, <2>4
<1> HIDE DEF T
<1>8. last \in T
  BY <1>6, <1>7, UpTo
<1> QED BY <1>2, <1>8 DEF T

\* The evidence behind a run that passes.
LEMMA PassIsEvidence ==
  ASSUME NEW run, Probes(run.metrics), Meas!ValidRun(run), run.status = "pass"
  PROVE  /\ \E m \in Meas!ToSet(run.metrics) : m.required
         /\ \A m \in Meas!ToSet(run.metrics) : m.required =>
              m.status = "pass" /\ m.samples # <<>> /\ (m.requests > 0 => Len(m.samples) = m.requests)
<1> DEFINE metrics == run.metrics
<1>1. Len(metrics) \in Nat /\ DOMAIN metrics = 1..Len(metrics)
  BY DEF Probes
<1>2. Meas!RequiredStatus(metrics) = "pass"
  BY DEF Meas!ValidRun
<1>3. Meas!Required(metrics) # {} /\ Meas!RequiredFailures(metrics) = <<>>
  BY <1>2 DEF Meas!RequiredStatus
<1>4. \E m \in Meas!ToSet(metrics) : m.required
  BY <1>3 DEF Meas!Required, Meas!ToSet
<1>5. ASSUME NEW m \in Meas!ToSet(metrics), m.required
      PROVE  m.status = "pass" /\ m.samples # <<>> /\ (m.requests > 0 => Len(m.samples) = m.requests)
  <2>1. PICK n \in 1..Len(metrics) : m = metrics[n]
    BY <1>1 DEF Meas!ToSet
  <2>2. m.status = "pass"
    BY <1>1, <1>3, <1>5, <2>1, FailuresAreFound DEF Meas!Required
  <2>3. Meas!ValidMeasurement(m)
    BY DEF Meas!ValidRun
  <2>4. m.samples # <<>>
    BY <2>2, <2>3 DEF Meas!ValidMeasurement, Meas!FailureOnly
  <2>5. m.successes \in Nat
    BY <2>1 DEF Probes
  <2>6. ASSUME m.requests > 0
        PROVE  Len(m.samples) = m.requests
    <3>1. CASE m.requests = 0
      BY <2>6, <3>1
    <3>2. CASE m.requests # 0
      <4>1. m.successes + m.failures = m.requests /\ Len(m.samples) = m.successes /\ m.status = Meas!StatusOfProbe(m)
        BY <2>3, <3>2 DEF Meas!ValidMeasurement, Meas!RequestsAreEvidence
      <4>2. m.failures = 0
        BY <2>2, <4>1 DEF Meas!StatusOfProbe
      <4> QED BY <2>5, <4>1, <4>2
    <3> QED BY <3>1, <3>2
  <2> QED BY <2>2, <2>4, <2>6
<1> QED BY <1>4, <1>5

\* An import on its way: what it has confirmed to be valid, or what it has stored.
ImportCall(c, rows) ==
  \/ c = Meas!Idle
  \/ c.at = "save" /\ c = [at |-> "save", run |-> c.run] /\ c.run \in Manifests /\ Meas!ValidRun(c.run)
  \/ c.at = "read" /\ c = [at |-> "read", run |-> c.run] /\ c.run \in Manifests /\ Meas!Row(c.run) \in rows
\* The rows, and what is known of them.
MeasurementKnown(rows, happened) ==
  /\ \A r \in rows : Meas!ValidRun(r) /\ Probes(r.metrics)
  /\ \A r, s \in rows : r.id = s.id => r = s
  /\ happened = [imported |-> happened.imported, conflicts |-> happened.conflicts]
  /\ \A m \in happened.imported : m \in Manifests /\ Meas!Row(m) \in rows
  /\ \A id \in happened.conflicts : \E r \in rows : r.id = id
MeasurementInv ==
  /\ MeasurementKnown(store, history)
  /\ calls = [u \in Users |-> calls[u]] /\ \A u \in Users : ImportCall(calls[u], store)

LEMMA ImportIs ==
  ASSUME NEW c, NEW rows, ImportCall(c, rows)
  PROVE  /\ c.at = "save" => c.run \in Manifests /\ Meas!ValidRun(c.run)
         /\ c.at = "read" => c.run \in Manifests /\ Meas!Row(c.run) \in rows
<1>1. CASE c = Meas!Idle
  <2>1. c.at = "idle"
    BY <1>1 DEF Meas!Idle
  <2> QED BY <2>1
<1>2. CASE c # Meas!Idle
  BY <1>2 DEF ImportCall
<1> QED BY <1>1, <1>2

LEMMA ManifestRows ==
  ASSUME MeasurementConstants, NEW run \in Manifests
  PROVE  RunRecord(run) /\ Probes(run.metrics) /\ RowOf(Meas!Row(run), run) /\ Meas!Row(run).id = run.id
<1>1. RunRecord(run) /\ Probes(run.metrics)
  BY DEF MeasurementConstants
<1>2. RowOf(Meas!Row(run), run)
  BY <1>1, RowIs
<1> QED BY <1>1, <1>2 DEF RowOf

LEMMA MeasurementStarts ==
  ASSUME Meas!MeasurementInit
  PROVE  MeasurementInv
BY DEF Meas!MeasurementInit, MeasurementInv, MeasurementKnown, ImportCall

\* A handler goes on with rows that were only added to.
LEMMA ImportGoesOn ==
  ASSUME MeasurementInv, NEW u \in Users, NEW c, Meas!To(u, c), store \subseteq store', ImportCall(c, store'),
         MeasurementKnown(store', history')
  PROVE  MeasurementInv'
<1>1. /\ calls = [w \in Users |-> calls[w]] /\ \A w \in Users : ImportCall(calls[w], store)
      /\ calls' = [calls EXCEPT ![u] = c]
  BY DEF MeasurementInv, Meas!To
<1>2. \A w \in Users : ImportCall(calls[w], store')
  BY <1>1 DEF ImportCall
<1>3. calls' = [w \in Users |-> calls'[w]] /\ \A w \in Users : ImportCall(calls'[w], store')
  BY <1>1, <1>2
<1> QED BY <1>3 DEF MeasurementInv

LEMMA MeasurementStep ==
  ASSUME MeasurementConstants, MeasurementInv, [Meas!MeasurementNext]_vars
  PROVE  MeasurementInv' /\ store \subseteq store'
<1>1. CASE UNCHANGED vars
  BY <1>1 DEF vars, MeasurementInv
<1>2. MeasurementKnown(store, history) /\ \A u \in Users : ImportCall(calls[u], store)
  BY DEF MeasurementInv
<1>3. ASSUME NEW u \in Users, Meas!SaveFails(u) \/ Meas!ConfirmFails(u)
      PROVE  MeasurementInv' /\ store \subseteq store'
  <2>1. Meas!To(u, Meas!Idle) /\ UNCHANGED <<store, history>> /\ ImportCall(Meas!Idle, store)
    BY <1>3 DEF Meas!SaveFails, Meas!ConfirmFails, ImportCall
  <2> QED BY <1>2, <2>1, ImportGoesOn
<1>4. ASSUME NEW u \in Users, Meas!Import(u)
      PROVE  MeasurementInv' /\ store \subseteq store'
  <2>1. PICK m \in Manifests : Meas!To(u, IF Meas!ValidRun(m) THEN [at |-> "save", run |-> m] ELSE Meas!Idle)
    BY <1>4 DEF Meas!Import
  <2>2. UNCHANGED <<store, history>>
    BY <1>4 DEF Meas!Import
  <2>3. ImportCall(IF Meas!ValidRun(m) THEN [at |-> "save", run |-> m] ELSE Meas!Idle, store)
    BY DEF ImportCall
  <2> QED BY <1>2, <2>1, <2>2, <2>3, ImportGoesOn
<1>5. ASSUME NEW u \in Users, Meas!Save(u)
      PROVE  MeasurementInv' /\ store \subseteq store'
  <2> DEFINE run == calls[u].run
             row == Meas!Row(run)
  <2>1. calls[u].at = "save" /\ Meas!ValidRun(row) /\ store' = Meas!Inserted(row)
        /\ \/ /\ Meas!To(u, IF Meas!Taken(row.id) THEN Meas!Idle ELSE [at |-> "read", run |-> run])
              /\ history' = IF Meas!Taken(row.id) THEN [history EXCEPT !.conflicts = @ \cup {row.id}] ELSE history
           \/ Meas!To(u, Meas!Idle) /\ history' = history
    BY <1>5 DEF Meas!Save
  <2>2. run \in Manifests /\ Meas!ValidRun(run)
    BY <1>2, <2>1, ImportIs
  <2>3. RowOf(row, run)
    BY <2>2, ManifestRows
  <2>4. Probes(row.metrics)
    BY <2>3 DEF RowOf
  <2> HIDE DEF row, run
  <2>5. store \subseteq store' /\ (~Meas!Taken(row.id) => row \in store')
        /\ (Meas!Taken(row.id) => \E r \in store : r.id = row.id) /\ \A r \in store' : r \in store \/ r = row
    BY <2>1 DEF Meas!Inserted, Meas!Taken
  <2>6. \A r, s \in store' : r.id = s.id => r = s
    BY <1>2, <2>1 DEF Meas!Inserted, Meas!Taken, MeasurementKnown
  <2>7. /\ history' = [imported |-> history.imported, conflicts |-> history'.conflicts]
        /\ \A id \in history'.conflicts : id \in history.conflicts \/ (Meas!Taken(row.id) /\ id = row.id)
    <3>1. history = [imported |-> history.imported, conflicts |-> history.conflicts]
      BY <1>2 DEF MeasurementKnown
    <3>2. CASE Meas!Taken(row.id) /\ history' # history
      <4>1. history' = [history EXCEPT !.conflicts = history.conflicts \cup {row.id}]
        BY <2>1, <3>2
      <4>2. history' = [imported |-> history.imported, conflicts |-> history.conflicts \cup {row.id}]
        BY <3>1, <4>1
      <4>3. history'.conflicts = history.conflicts \cup {row.id}
        BY <4>2
      <4>4. history' = [imported |-> history.imported, conflicts |-> history'.conflicts]
        BY ONLY <4>2, <4>3
      <4>5. \A id \in history'.conflicts : id \in history.conflicts \/ id = row.id
        BY ONLY <4>3
      <4> QED BY <3>2, <4>4, <4>5
    <3>3. CASE history' = history
      <4>1. history' = [imported |-> history.imported, conflicts |-> history'.conflicts]
        BY ONLY <3>1, <3>3
      <4>2. \A id \in history'.conflicts : id \in history.conflicts
        BY ONLY <3>3
      <4> QED BY <4>1, <4>2
    <3>4. Meas!Taken(row.id) \/ history' = history
      BY <2>1
    <3> QED BY <3>2, <3>3, <3>4
  <2>8. history'.imported = history.imported
    BY <2>7
  <2>9. MeasurementKnown(store', history')
    BY <1>2, <2>1, <2>4, <2>5, <2>6, <2>7, <2>8 DEF MeasurementKnown
  <2>10. ImportCall(Meas!Idle, store') /\ (~Meas!Taken(row.id) => ImportCall([at |-> "read", run |-> run], store'))
    BY <2>2, <2>5 DEF ImportCall, row
  <2>11. Meas!To(u, Meas!Idle) \/ (~Meas!Taken(row.id) /\ Meas!To(u, [at |-> "read", run |-> run]))
    BY <2>1
  <2> QED BY <2>5, <2>9, <2>10, <2>11, ImportGoesOn
<1>6. ASSUME NEW u \in Users, Meas!Confirm(u)
      PROVE  MeasurementInv' /\ store \subseteq store'
  <2> DEFINE run == calls[u].run
  <2>1. calls[u].at = "read" /\ Meas!To(u, Meas!Idle) /\ store' = store
        /\ (history' = history \/ history' = [history EXCEPT !.imported = @ \cup {run}])
    BY <1>6 DEF Meas!Confirm
  <2>2. run \in Manifests /\ Meas!Row(run) \in store
    BY <1>2, <2>1, ImportIs
  <2> HIDE DEF run
  <2>3. /\ history' = [imported |-> history'.imported, conflicts |-> history.conflicts]
        /\ \A m \in history'.imported : m \in history.imported \/ m = run
    <3>1. history = [imported |-> history.imported, conflicts |-> history.conflicts]
      BY <1>2 DEF MeasurementKnown
    <3> QED BY <2>1, <3>1
  <2>4. history'.conflicts = history.conflicts
    BY <2>3
  <2>5. MeasurementKnown(store', history')
    BY <1>2, <2>1, <2>2, <2>3, <2>4 DEF MeasurementKnown
  <2>6. ImportCall(Meas!Idle, store')
    BY DEF ImportCall
  <2> QED BY <2>1, <2>5, <2>6, ImportGoesOn
<1> QED BY <1>1, <1>3, <1>4, <1>5, <1>6 DEF Meas!MeasurementNext

LEMMA MeasurementAlways ==
  ASSUME MeasurementConstants
  PROVE  MeasurementSpec => []MeasurementInv
<1>1. MeasurementInv /\ [Meas!MeasurementNext]_vars => MeasurementInv'
  BY MeasurementStep
<1> QED BY <1>1, MeasurementStarts, PTL DEF MeasurementSpec

\* "Importing an existing run ID again is rejected as a duplicate instead of
\* silently replacing evidence" (docs/MEASUREMENT_DASHBOARD.md:47): for any manifests,
\* users and failures, what was confirmed is stored with the identity of its
\* manifest, an id has one run, a duplicate is one, and masking makes no manifest
\* invalid; and a stored run stays as it is (SaveMeasurementRun).
THEOREM ImportsStay ==
  ASSUME MeasurementConstants
  PROVE  MeasurementSpec => []Meas!ImportsAreKept /\ [][Meas!RunsAreImmutable]_vars
<1>1. MeasurementInv => Meas!ImportsAreKept
  <2> SUFFICES ASSUME MeasurementInv PROVE Meas!ImportsAreKept
    OBVIOUS
  <2>1. MeasurementKnown(store, history) /\ \A u \in Users : ImportCall(calls[u], store)
    BY DEF MeasurementInv
  <2>2. ASSUME NEW m \in history.imported
        PROVE  \E r \in store : Meas!Identity(r) = Meas!Identity(m)
    <3>1. m \in Manifests /\ Meas!Row(m) \in store
      BY <2>1 DEF MeasurementKnown
    <3>2. RunRecord(m) /\ Probes(m.metrics) /\ RowOf(Meas!Row(m), m)
      BY <3>1, ManifestRows
    <3>3. Meas!Identity(Meas!Row(m)) = Meas!Identity(m)
      BY <3>2, RowKeepsIdentity
    <3> QED BY <3>1, <3>3
  <2>3. ASSUME NEW u \in Users, calls[u].at = "save"
        PROVE  Meas!ValidRun(Meas!Row(calls[u].run))
    <3>1. calls[u].run \in Manifests /\ Meas!ValidRun(calls[u].run)
      BY <2>1, <2>3, ImportIs
    <3>2. Probes(calls[u].run.metrics) /\ RowOf(Meas!Row(calls[u].run), calls[u].run)
      BY <3>1, ManifestRows
    <3> QED BY <3>1, <3>2, RowStaysValid
  <2> QED BY <2>1, <2>2, <2>3 DEF Meas!ImportsAreKept, MeasurementKnown, Meas!Taken
<1>2. MeasurementInv /\ [Meas!MeasurementNext]_vars => [Meas!RunsAreImmutable]_vars
  BY MeasurementStep DEF Meas!RunsAreImmutable
<1>3. MeasurementSpec => []MeasurementInv
  BY MeasurementAlways
<1> QED BY <1>1, <1>2, <1>3, PTL DEF MeasurementSpec

\* "The run status is only the fixed required-check gate" (docs/DOGFOOD_MEASUREMENT.md:54):
\* a stored run that passes has a required measurement, and each of those passed on
\* samples of its own with every request answered, for manifests of any length
\* (Run.Validate, requiredStatus).
THEOREM PassingRunsAreMeasured ==
  ASSUME MeasurementConstants
  PROVE  MeasurementSpec => []Meas!GateIsEvidence
<1>1. MeasurementInv => Meas!GateIsEvidence
  <2> SUFFICES ASSUME MeasurementInv, NEW r \in store, r.status = "pass"
               PROVE  /\ \E m \in Meas!ToSet(r.metrics) : m.required
                      /\ \A m \in Meas!ToSet(r.metrics) : m.required =>
                           m.status = "pass" /\ m.samples # <<>> /\ (m.requests > 0 => Len(m.samples) = m.requests)
    BY DEF Meas!GateIsEvidence
  <2>1. Meas!ValidRun(r) /\ Probes(r.metrics)
    BY DEF MeasurementInv, MeasurementKnown
  <2> QED BY <2>1, PassIsEvidence
<1> QED BY <1>1, MeasurementAlways, PTL
=============================================================================

---------------------------- MODULE InspectionFlow ----------------------------
(***************************************************************************)
(* Inspection plans of one worktree and the improvements proposed for them *)
(* (internal/app/inspection.go, internal/app/quality_score.go, the revision *)
(* updates of internal/store/assurance.go).  A plan is generated from what *)
(* is found, reviewed, run; a run may lead to a proposal, which is reviewed *)
(* and applied to the plan.  One action is one storage call or one look at *)
(* the worktree, and handlers of several users interleave.                 *)
(***************************************************************************)
EXTENDS Naturals, Sequences, FiniteSets, Functions

CONSTANTS
  Order,      \* the checks of the only component, sorted by inspectionCheckKey
  Heads,      \* HEAD with the configuration files (setup.Digest)
  Exclusions, \* AI proposals: the checks each one excludes
  Users,
  MaxNonce, MaxChanges, MaxRuns, MaxRevision, \* bounds
  None

VARIABLES
  store,   \* assurance_objects: plans by id, proposals, scores, artifacts
  calls,   \* user -> the handler it is in and what that has read
  world,   \* HEAD and the checks whose tools are installed
  history, \* approved: what reviewers approved; applied: proposals applied
  budget   \* bounds: changes of the worktree and runs so far

inspectionVars == <<store, calls, world, history, budget>>

Checks == Range(Order)
Ids == Heads \X (Exclusions \cup {None}) \X (0..MaxNonce)
Outcomes == {"clean", "findings", "inconclusive", "unavailable"}
Idle == [at |-> "idle"]
ToIdle(u) == calls' = [calls EXCEPT ![u] = Idle]

InspectionInit ==
  /\ store = [plans |-> [id \in Ids |-> None], proposals |-> {}, scores |-> {}, artifacts |-> {}]
  /\ calls = [u \in Users |-> Idle]
  /\ world \in [head : Heads, tools : SUBSET Checks]
  /\ history = [approved |-> {}, applied |-> <<>>]
  /\ budget = [changes |-> 0, runs |-> 0]

\* A commit, an edited configuration, an installed or removed tool (not under src/).
ChangeWorktree ==
  /\ budget.changes < MaxChanges /\ budget' = [budget EXCEPT !.changes = @ + 1]
  /\ world' \in [head : Heads, tools : SUBSET Checks] \ {world}
  /\ UNCHANGED <<store, calls, history>>

\* inspectionToolState: the check's tool is found, with its package.
Available(check) == check \in world.tools
\* inspectionToolDigestForSetupRoot: the state of the tools of these checks.
ToolState(checks) == {c \in checks : Available(c)}
\* inspectionPlanParts and runnableInspectionChecks.
Runnable == {c \in Checks : Available(c)}
\* currentInspectionEvidence: what the worktree is now, as the plan records it.
Freshness(plan) == [head |-> world.head, tools |-> ToolState(plan.checks)]
IsStale(plan) == plan.head # Freshness(plan).head \/ plan.tools # Freshness(plan).tools

\* InspectionPlan.Validate and QualityImprovementProposal.Validate.
Plans == [checks : (SUBSET Checks) \ {{}}, head : Heads, tools : SUBSET Checks, revision : Nat,
          state : {"proposed", "reviewed", "approved", "rejected", "stale"}]
ItemIsValid(item) ==
  /\ item.base \in Plans /\ item.plan \in Ids /\ item.changes # {} /\ item.revision \in Nat
  /\ item.state \in {"proposed", "reviewed", "approved", "rejected", "applied", "stale"}

-----------------------------------------------------------------------------
\* GenerateInspectionPlan looks at the worktree, ...
Generate(u) ==
  /\ calls[u] = Idle /\ Runnable # {}
  /\ \E asked \in Exclusions \cup {None} :
       calls' = [calls EXCEPT ![u] =
         [at |-> "asking", asked |-> asked, evidence |-> world, checks |-> Runnable]]
  /\ UNCHANGED <<store, world, history, budget>>

\* generateInspectionAIProposal: the provider may not be ready, fail, or answer
\* with something else than known decisions.
Proposal(asked) == {None, asked}
\* applyInspectionAIDecisions: what the decisions leave of the checks.
Decided(checks, excluded) == checks \ excluded
\* ... may ask the provider, which takes its time, and composes the plan.  A
\* proposal that leaves no check is not used.  Its decisions are applied to a
\* variable of the inner block, so that the plan keeps every runnable check
\* (inspection.go:242), and the state of the tools is read only now.
Compose(u) ==
  /\ calls[u].at = "asking"
  /\ LET c == calls[u]
     IN \E answer \in Proposal(c.asked) :
          LET used == IF answer # None /\ Decided(c.checks, answer) # {} THEN answer ELSE None
          IN calls' = [calls EXCEPT ![u] =
               [at |-> "lookup", id |-> <<c.evidence.head, used, 0>>, evidence |-> c.evidence,
                plan |-> [checks |-> c.checks, head |-> c.evidence.head,
                          tools |-> ToolState(c.checks), state |-> "proposed", revision |-> 1]]]
  /\ UNCHANGED <<store, world, history, budget>>

FreeNonces(id) == {n \in 1..MaxNonce : store.plans[<<id[1], id[2], n>>] = None}
\* The stored plan is the answer unless it was rejected; a rejected one keeps
\* its row, and the next free id is taken.
LookUpPlan(u) ==
  /\ calls[u].at = "lookup"
  /\ LET id == calls[u].id
         existing == store.plans[id]
         free == FreeNonces(id)
     IN calls' = [calls EXCEPT ![u] =
          CASE existing = None -> [@ EXCEPT !.at = "insert"]
            [] existing # None /\ existing.state # "rejected" ->
                 [@ EXCEPT !.at = "generated", !.plan = existing]
            [] existing # None /\ existing.state = "rejected" /\ free # {} ->
                 [@ EXCEPT !.at = "insert",
                           !.id[3] = CHOOSE n \in free : \A m \in free : n <= m]
            [] OTHER -> Idle]
  /\ UNCHANGED <<store, world, history, budget>>

\* SaveInspectionPlan: an existing row with another digest is immutable, and
\* the digest holds the time of creation.
InsertPlan(u) ==
  /\ calls[u].at = "insert"
  /\ IF store.plans[calls[u].id] = None
     THEN /\ store' = [store EXCEPT !.plans[calls[u].id] = calls[u].plan]
          /\ calls' = [calls EXCEPT ![u].at = "generated"]
     ELSE ToIdle(u) /\ UNCHANGED store
  /\ UNCHANGED <<world, history, budget>>
\* The answer has been read.
Generated(u) ==
  /\ calls[u].at = "generated" /\ ToIdle(u) /\ UNCHANGED <<store, world, history, budget>>

-----------------------------------------------------------------------------
\* inspectionReviewState and qualityImprovementReviewState.
Decisions(state) ==
  CASE state = "proposed" -> {"reviewed", "approved", "rejected"}
    [] state = "reviewed" -> {"approved", "rejected"}
    [] OTHER -> {}

\* UPDATE ... WHERE revision = expected: whether the row is still the one read.
PlanIs_Any(id, read) == store.plans[id].revision >= read.revision
PlanIs(id, read) == store.plans[id].revision = read.revision
SetPlan(plans, id, plan) == [plans EXCEPT ![id] = plan]
ItemIs(item) == \E stored \in store.proposals : stored.id = item.id /\ stored.revision = item.revision
SetItem(proposals, item) == {p \in proposals : p.id # item.id} \cup {item}
Raised(row, state) == [row EXCEPT !.state = state, !.revision = @ + 1]

\* ReviewInspectionPlan reads the revision that the reviewer has seen ...
ReviewPlan(u, id) ==
  /\ calls[u] = Idle /\ store.plans[id] # None
  /\ store.plans[id].revision < MaxRevision
  /\ \E decision \in Decisions(store.plans[id].state) :
       calls' = [calls EXCEPT ![u] =
         [at |-> "decide", id |-> id, plan |-> store.plans[id], decision |-> decision]]
  /\ UNCHANGED <<store, world, history, budget>>
\* ... and stores the decision, if it still is the revision of the row.
DecidePlan(u) ==
  /\ calls[u].at = "decide"
  /\ LET c == calls[u]
     IN IF PlanIs(c.id, c.plan)
        THEN /\ store' = [store EXCEPT !.plans = SetPlan(@, c.id, Raised(c.plan, c.decision))]
             /\ history' = IF c.decision # "approved" THEN history
                           ELSE [history EXCEPT !.approved =
                                   @ \cup {<<c.id, c.plan.revision + 1, c.plan.checks>>}]
        ELSE UNCHANGED <<store, history>>
  /\ ToIdle(u) /\ UNCHANGED <<world, budget>>

-----------------------------------------------------------------------------
\* RunInspectionPlan: only an approved plan, and only while it is not stale.
RunPlan(u, id) ==
  /\ calls[u] = Idle /\ store.plans[id] # None /\ store.plans[id].state = "approved"
  /\ budget.runs < MaxRuns /\ budget' = [budget EXCEPT !.runs = @ + 1]
  /\ calls' = [calls EXCEPT ![u] = [at |-> "evidence", id |-> id, plan |-> store.plans[id]]]
  /\ UNCHANGED <<store, world, history>>
RunEvidence(u) ==
  /\ calls[u].at = "evidence"
  /\ calls' = [calls EXCEPT ![u].at = IF IsStale(calls[u].plan) THEN "stale" ELSE "checks"]
  /\ UNCHANGED <<store, world, history, budget>>
MarkStale(u) ==
  /\ calls[u].at = "stale"
  /\ IF PlanIs(calls[u].id, calls[u].plan)
     THEN store' = [store EXCEPT !.plans =
            SetPlan(@, calls[u].id, Raised(calls[u].plan, "stale"))]
     ELSE UNCHANGED store
  /\ ToIdle(u) /\ UNCHANGED <<world, history, budget>>

\* runInspectionCheck for every check of the plan that was read; a tool that
\* is gone is unavailable, any other may end in each way.
ResultsOf(checks) ==
  {r \in [checks -> Outcomes] : \A c \in checks : (r[c] = "unavailable") = (c \notin world.tools)}
\* CalculateRepositoryQualityScore: fresh only if every check has a verdict.
ScoreOf(id, plan, results) ==
  [plan |-> id, revision |-> plan.revision, checks |-> plan.checks, head |-> plan.head,
   status |-> IF \A c \in plan.checks : results[c] \in {"clean", "findings"}
              THEN "fresh" ELSE "inconclusive"]
RunChecks(u) ==
  /\ calls[u].at = "checks"
  /\ \E results \in ResultsOf(calls[u].plan.checks) :
       calls' = [calls EXCEPT ![u] =
         [at |-> "score", results |-> results, score |-> ScoreOf(@.id, @.plan, results)]]
  /\ UNCHANGED <<store, world, history, budget>>
SaveScore(u) ==
  /\ calls[u].at = "score"
  /\ store' = [store EXCEPT !.scores = @ \cup {calls[u].score}]
  /\ calls' = [calls EXCEPT ![u].at = "artifact"]
  /\ UNCHANGED <<world, history, budget>>
SaveArtifact(u) ==
  /\ calls[u].at = "artifact"
  /\ store' = [store EXCEPT !.artifacts =
       @ \cup {[score |-> calls[u].score, results |-> calls[u].results]}]
  /\ ToIdle(u) /\ UNCHANGED <<world, history, budget>>

-----------------------------------------------------------------------------
Change(action, check) == [action |-> action, check |-> check]
\* One result of deterministicQualityImprovements: a check that gave no verdict
\* goes, unless it would be the last one; a finding adds the first other check.
Improve(plan, candidates, changes, check, outcome) ==
  CASE outcome \in {"unavailable", "inconclusive"} ->
         IF check \in plan.checks /\ Cardinality(plan.checks) > Len(changes) + 1
         THEN Append(changes, Change("remove_check", check)) ELSE changes
    [] outcome = "findings" ->
         LET new == SelectSeq(Order, LAMBDA c : c \in candidates \ plan.checks)
         IN IF new = <<>> THEN changes ELSE Append(changes, Change("add_check", new[1]))
    [] OTHER -> changes
\* deterministicQualityImprovements, in the order of the checks that were run.
Improvements(plan, candidates, results) ==
  LET ran == SelectSeq(Order, LAMBDA c : c \in DOMAIN results)
      step[n \in 0..Len(ran)] ==
        IF n = 0 THEN <<>> ELSE Improve(plan, candidates, step[n - 1], ran[n], results[ran[n]])
  IN Range(step[Len(ran)])

\* applyQualityImprovementChanges: the checks after the changes, {} for an error.
Applied(checks, changes) ==
  LET added == {c.check : c \in {d \in changes : d.action = "add_check"}}
      removed == {c.check : c \in {d \in changes : d.action = "remove_check"}}
  IN IF added \cap checks = {} /\ removed \subseteq checks
     THEN (checks \cup added) \ removed ELSE {}

\* loadInspectionRunArtifact: the runs whose evidence is there.
LoadedRuns == store.artifacts
\* GenerateQualityImprovementProposal: the current plan with the results of a
\* run, perhaps of an older revision.
ImprovePlan(u) ==
  /\ calls[u] = Idle
  /\ \E a \in LoadedRuns :
       LET plan == store.plans[a.score.plan]
           changes == Improvements(plan, Runnable, a.results)
       IN /\ a.score.head = plan.head /\ changes # {}
          /\ calls' = [calls EXCEPT ![u] = [at |-> "propose", item |->
               [id |-> <<a.score, a.results, world.head, changes>>, plan |-> a.score.plan,
                base |-> plan, head |-> world.head, tools |-> ToolState(plan.checks),
                changes |-> changes, state |-> "proposed", revision |-> 1]]]
  /\ UNCHANGED <<store, world, history, budget>>
\* A proposal with the same id is immutable.
Propose(u) ==
  /\ calls[u].at = "propose"
  /\ IF \E p \in store.proposals : p.id = calls[u].item.id
     THEN UNCHANGED store
     ELSE store' = [store EXCEPT !.proposals = @ \cup {calls[u].item}]
  /\ ToIdle(u) /\ UNCHANGED <<world, history, budget>>

\* ReviewQualityImprovementProposal.
ReviewItem(u) ==
  /\ calls[u] = Idle
  /\ \E item \in store.proposals : \E decision \in Decisions(item.state) :
       calls' = [calls EXCEPT ![u] = [at |-> "judge", item |-> item, decision |-> decision]]
  /\ UNCHANGED <<store, world, history, budget>>
UpdateItem(item, state) ==
  IF ItemIs(item)
  THEN store' = [store EXCEPT !.proposals = SetItem(@, Raised(item, state))]
  ELSE UNCHANGED store
JudgeItem(u) ==
  /\ calls[u].at = "judge" /\ UpdateItem(calls[u].item, calls[u].decision)
  /\ ToIdle(u) /\ UNCHANGED <<world, history, budget>>

\* applyQualityImprovementProposal reads the approved proposal, ...
ApplyItem(u) ==
  /\ calls[u] = Idle
  /\ \E item \in store.proposals :
       /\ item.state = "approved"
       /\ calls' = [calls EXCEPT ![u] = [at |-> "base", item |-> item]]
  /\ UNCHANGED <<store, world, history, budget>>
\* ... the plan, which must be the one that the proposal was made for, ...
ApplyBase(u) ==
  /\ calls[u].at = "base"
  /\ LET item == calls[u].item
     IN calls' = [calls EXCEPT ![u].at =
          IF store.plans[item.plan] = item.base THEN "fresh" ELSE "outdated"]
  /\ UNCHANGED <<store, world, history, budget>>
\* ... and the worktree, which must be as the plan and the proposal found it.
ApplyEvidence(u) ==
  /\ calls[u].at = "fresh"
  /\ LET item == calls[u].item
         changed == \/ IsStale(item.base) \/ item.head # world.head
                    \/ item.tools # ToolState(item.base.checks)
         checks == Applied(item.base.checks, item.changes)
     IN calls' = [calls EXCEPT ![u] =
          CASE changed -> [@ EXCEPT !.at = "outdated"]
            [] ~changed /\ checks = {} -> Idle
            [] OTHER -> [at |-> "apply", item |-> item, next |->
                 [Raised(item.base, "proposed") EXCEPT
                    !.checks = checks, !.tools = ToolState(checks)]]]
  /\ UNCHANGED <<store, world, history, budget>>
\* staleQualityImprovement.
Outdate(u) ==
  /\ calls[u].at = "outdated" /\ UpdateItem(calls[u].item, "stale")
  /\ ToIdle(u) /\ UNCHANGED <<world, history, budget>>
\* ApplyQualityImprovementProposalCAS: both rows, or none of them.
Apply(u) ==
  /\ calls[u].at = "apply"
  /\ LET item == calls[u].item
     IN IF PlanIs(item.plan, item.base) /\ ItemIs(item)
        THEN /\ store' = [store EXCEPT !.plans = SetPlan(@, item.plan, calls[u].next),
                                       !.proposals = SetItem(@, Raised(item, "applied"))]
             /\ history' = [history EXCEPT !.applied = Append(@, item)]
        ELSE UNCHANGED <<store, history>>
  /\ ToIdle(u) /\ UNCHANGED <<world, budget>>

-----------------------------------------------------------------------------
InspectionStep(u) ==
  \/ Compose(u) \/ LookUpPlan(u) \/ InsertPlan(u) \/ Generated(u) \/ DecidePlan(u)
  \/ RunEvidence(u) \/ MarkStale(u) \/ RunChecks(u) \/ SaveScore(u) \/ SaveArtifact(u)
  \/ Propose(u) \/ JudgeItem(u)
  \/ ApplyBase(u) \/ ApplyEvidence(u) \/ Outdate(u) \/ Apply(u)
InspectionRequest(u) ==
  \/ Generate(u) \/ ImprovePlan(u) \/ ReviewItem(u) \/ ApplyItem(u)
  \/ \E id \in Ids : ReviewPlan(u, id) \/ RunPlan(u, id)
InspectionNext ==
  \/ \E u \in Users : InspectionStep(u) \/ InspectionRequest(u)
  \/ ChangeWorktree
InspectionSpec == InspectionInit /\ [][InspectionNext]_inspectionVars

-----------------------------------------------------------------------------
InspectionTypeOK ==
  /\ store.plans \in [Ids -> Plans \cup {None}]
  /\ \A item \in store.proposals : ItemIsValid(item)
  /\ \A s \in store.scores : s.plan \in Ids /\ s.checks \subseteq Checks
  /\ world \in [head : Heads, tools : SUBSET Checks]

\* What was run is what a reviewer approved: each score is of a revision of the
\* plan that was approved with just these checks, although plans change and
\* become stale while a run goes on (inspection.go:501).
RunsAreApproved ==
  \A s \in store.scores : <<s.plan, s.revision, s.checks>> \in history.approved

\* The checks of a plan change only by one approved proposal that was made for
\* this very revision; the result is reviewed again, and the proposal is used
\* up.  Nothing else leads a plan out of "rejected" or "stale".  This does: a
\* proposal that a run of an older revision has made is of the revision that is
\* stored when it is made, so it rewrites a plan that was rejected meanwhile,
\* although inspection.go:288 says "A rejected plan is intentionally immutable".
UsedUp(id) ==
  \E item \in store.proposals :
    /\ item.plan = id /\ item.base = store.plans[id] /\ item.state = "approved"
    /\ \E used \in store'.proposals : used.id = item.id /\ used.state = "applied"
ChecksChangeByProposal ==
  \A id \in Ids :
    LET plan == store.plans[id]
        now == store'.plans[id]
    IN plan # None /\ now # plan
         /\ (now.checks # plan.checks \/ plan.state \in {"rejected", "stale"})
       => UsedUp(id) /\ now.state = "proposed"
\* Two users never both succeed with one revision.
PlanRevisionsAreTaken ==
  \A id \in Ids :
    store.plans[id] # None /\ store'.plans[id] # store.plans[id] =>
      store'.plans[id].revision = store.plans[id].revision + 1
ItemRevisionsAreTaken ==
  \A item \in store.proposals : \A now \in store'.proposals :
    now.id = item.id /\ now # item =>
      item.state \notin {"rejected", "stale", "applied"} /\ now.revision = item.revision + 1
PlansChangeByDecision ==
  [][ChecksChangeByProposal /\ PlanRevisionsAreTaken /\ ItemRevisionsAreTaken]_inspectionVars

\* A proposal is never one that cannot be applied: its changes fit the plan it
\* was made for and leave it a check (the guard of inspection.go:1107).
ProposalsApply ==
  \A item \in store.proposals : Applied(item.base.checks, item.changes) # {}
=============================================================================

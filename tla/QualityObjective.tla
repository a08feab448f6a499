---------------------------- MODULE QualityObjective ----------------------------
(***************************************************************************)
(* A quality objective of one worktree: decisions, revalidations and its   *)
(* adoption (internal/app/quality_objective.go, quality_home.go,           *)
(* internal/domain/quality_objective.go and the revision update of         *)
(* internal/store/assurance.go).  A handler reads the objective,           *)
(* what it is about and the disk one after another and stores the          *)
(* objective if it is still the revision that was read.                    *)
(* Quality runs (QualityRuns.tla), findings and commits come from outside. *)
(***************************************************************************)
EXTENDS Naturals, FiniteSets, SequencesExt

CONSTANTS
  Users, Heads, Runners, \* commits of the worktree; what Select finds there as the runner of go.test_coverage
  Percents,              \* coverage, and the minimum of a decision
  MaxRevalidations,      \* 20 in the code
  MaxRevision, MaxRuns, MaxChanges, \* bounds
  None

VARIABLES
  store,   \* the objective, the head in the worktree row, quality runs, the finding
  calls,   \* user -> the page and the handler with what it has read
  world,   \* the worktree on disk and the coverage profiles that are intact
  history, \* confirmed updates and revalidations; the disk as the adoption has seen it
  budget   \* changes of the world

Outcomes == {"collected", "tests_failed", "other"}
Terminal == {"adopted", "rejected"}
Decision == [disposition : {"pursue", "defer", "dismiss"}, minimum : Percents]
Idle == [at |-> "idle"]

ObjectiveInit ==
  /\ store \in [objective : {None}, head : Heads, runs : {<<>>}, finding : {"open", "resolved"}]
  /\ calls = [u \in Users |-> Idle]
  /\ \E runner \in Runners : world = [head |-> store.head, runner |-> runner, intact |-> {}]
  /\ history = [updates |-> 0, revalidations |-> 0, adopted |-> None]
  /\ budget = 0

\* qualityRunnerConfigDigest: the command of a run is part of its configuration,
\* and with it the path of the profile, which holds the id of the run.
Config(runner, run) == [runner |-> runner, profile |-> run]

To(u, call) == calls' = [calls EXCEPT ![u] = call]
Rest == UNCHANGED <<store, world, history, budget>>

-----------------------------------------------------------------------------
\* CreateQualityObjective with a primary signal: the finding, a coverage run
\* (which names the configuration), or none.
Signals == {None, [kind |-> "finding"]} \cup
  {[kind |-> "go_coverage", config |-> run.config] : run \in ToSet(store.runs)}
Create(u) ==
  /\ calls[u] = Idle /\ store.objective = None
  /\ \E signal \in Signals : store' = [store EXCEPT !.objective =
       [state |-> "draft", revision |-> 1, head |-> store.head, signal |-> signal, decision |-> None, revalidations |-> <<>>]]
  /\ UNCHANGED <<calls, world, history, budget>>
\* qualityObjectiveWithRevision: the revision that the page of the user shows is
\* the stored one; an older page is refused and changes nothing.
Current(u) ==
  /\ calls[u] = Idle /\ store.objective # None /\ store.objective.revision < MaxRevision

\* CanTransition, of the states that a handler can reach.
Next(state) ==
  CASE state = "draft" -> {"ready", "blocked", "rejected"}
    [] state = "ready" -> {"ready", "review", "blocked", "rejected"}
    [] state = "blocked" -> {"blocked", "ready", "rejected"}
    [] state = "review" -> {"review", "adopted", "rejected"}
    [] OTHER -> {state}
StateFor(disposition) ==
  CASE disposition = "pursue" -> "ready" [] disposition = "defer" -> "blocked" [] OTHER -> "rejected"
\* DecideQualityObjective and ApplyDecision.
Decide(u, decision) ==
  /\ Current(u)
  /\ LET o == store.objective
         target == StateFor(decision.disposition)
     IN /\ o.state \notin Terminal /\ target \in Next(o.state)
        /\ To(u, [at |-> "update", read |-> o, job |-> "decide", disk |-> None,
                  next |-> [o EXCEPT !.decision = decision, !.state = target, !.revision = @ + 1]])
  /\ Rest

-----------------------------------------------------------------------------
\* RevalidateQualityObjective of an objective that has a signal and a decision.
Revalidate(u) ==
  /\ Current(u) /\ store.objective.signal # None /\ store.objective.decision # None
  /\ To(u, [at |-> "derive", read |-> store.objective]) /\ Rest
\* deriveQualityObjectiveRevalidation: what the source says now; the outcome is
\* improved for "resolved" and "threshold_met" and follows from the reason.
CoverageReason(o, run, r) ==
  IF run.config # o.signal.config THEN "config_mismatch"
  ELSE IF run.head # store.head THEN "head_mismatch"
  ELSE IF r \notin world.intact THEN "profile_missing"
  ELSE CASE run.outcome = "tests_failed" -> "tests_failed" [] run.outcome = "other" -> "runner_unavailable"
         [] OTHER -> IF run.percent < o.decision.minimum THEN "threshold_not_met" ELSE "threshold_met"
Derived(o) ==
  IF o.signal.kind = "finding"
  THEN {[kind |-> "finding", source |-> 0, head |-> o.head, config |-> None,
         reason |-> IF store.finding = "resolved" THEN "resolved" ELSE "active"]}
  ELSE {[kind |-> "go_coverage", source |-> r, head |-> store.runs[r].head, config |-> store.runs[r].config,
         reason |-> CoverageReason(o, store.runs[r], r)] : r \in DOMAIN store.runs}
Improved == {"resolved", "threshold_met"}
\* RecordRevalidation: the newest first, and as many as are kept; an improvement
\* of an objective that is pursued brings it to its review.
Recorded(o, revalidation) ==
  LET all == <<revalidation>> \o o.revalidations
      kept == IF Len(all) > MaxRevalidations THEN Front(all) ELSE all
      state == IF revalidation.reason \in Improved /\ o.state = "ready" THEN "review" ELSE o.state
  IN [o EXCEPT !.revalidations = kept, !.state = state, !.revision = @ + 1]
Derive(u) ==
  /\ calls[u].at = "derive"
  /\ LET o == calls[u].read
     IN IF o.state \in Terminal \/ Derived(o) = {} THEN To(u, Idle)
        ELSE \E revalidation \in Derived(o) :
          To(u, [at |-> "update", read |-> o, next |-> Recorded(o, revalidation), job |-> "revalidate", disk |-> None])
  /\ Rest

-----------------------------------------------------------------------------
\* ConfirmQualityObjective: the row of the worktree, the worktree itself, the
\* configuration and the evidence of the latest revalidation, and then
\* ConfirmAdoption.
Confirm(u) ==
  /\ Current(u) /\ To(u, [at |-> "worktree", read |-> store.objective, head |-> store.head]) /\ Rest
CheckWorktree(u) ==
  /\ calls[u].at = "worktree"
  /\ IF world.head # calls[u].head \/ calls[u].read.revalidations = <<>> THEN To(u, Idle)
     ELSE To(u, [at |-> "evidence", read |-> calls[u].read, head |-> calls[u].head])
  /\ Rest
\* ValidateLatestRevalidationFresh: a finding proves nothing about the worktree.
IsFresh_AnyHead(latest, head, config) ==
  latest.reason \in Improved /\ latest.kind = "go_coverage" /\ latest.config = config
IsFresh(latest, head, config) ==
  latest.reason \in Improved /\ latest.kind = "go_coverage" /\ latest.head = head /\ latest.config = config
CheckEvidence(u) ==
  /\ calls[u].at = "evidence"
  /\ LET c == calls[u]
         latest == Head(c.read.revalidations)
         config == Config(world.runner, latest.source)
     IN IF /\ latest.kind = "go_coverage" => latest.source \in world.intact
           /\ IsFresh(latest, c.head, config)
           /\ c.read.state \notin Terminal /\ "adopted" \in Next(c.read.state)
        THEN To(u, [at |-> "update", read |-> c.read, next |-> [c.read EXCEPT !.state = "adopted", !.revision = @ + 1],
                    job |-> "confirm", disk |-> [head |-> c.head, config |-> config]])
        ELSE To(u, Idle)
  /\ Rest
\* UpdateQualityObjectiveRevisionCAS.
ObjectiveIs_Any(revision) == store.objective.revision >= revision
ObjectiveIs(revision) == store.objective.revision = revision
Update(u) ==
  /\ calls[u].at = "update" /\ To(u, Idle)
  /\ LET c == calls[u]
     IN IF ObjectiveIs(c.read.revision)
        THEN /\ store' = [store EXCEPT !.objective = c.next]
             /\ history' = [updates |-> history.updates + 1,
                            revalidations |-> history.revalidations + (IF c.job = "revalidate" THEN 1 ELSE 0),
                            adopted |-> IF c.job = "confirm" THEN c.disk ELSE history.adopted]
        ELSE UNCHANGED <<store, history>>
  /\ UNCHANGED <<world, budget>>
\* The storage fails or the process ends.
Lose(u) == calls[u].at # "idle" /\ To(u, Idle) /\ Rest

-----------------------------------------------------------------------------
\* Commits, changes of the runner, changes of a profile, scans and runs.
Change ==
  /\ budget < MaxChanges /\ budget' = budget + 1
  /\ \/ \E head \in Heads \ {world.head} : world' = [world EXCEPT !.head = head]
     \/ \E runner \in Runners \ {world.runner} : world' = [world EXCEPT !.runner = runner]
     \/ \E r \in world.intact : world' = [world EXCEPT !.intact = @ \ {r}]
  /\ UNCHANGED <<store, calls, history>>
Scan ==
  /\ store.head # world.head /\ store' = [store EXCEPT !.head = world.head]
  /\ UNCHANGED <<calls, world, history, budget>>
FinishRun ==
  /\ Len(store.runs) < MaxRuns /\ store.head = world.head
  /\ \E outcome \in Outcomes, percent \in Percents :
       store' = [store EXCEPT !.runs = Append(@,
         [head |-> world.head, config |-> Config(world.runner, Len(@) + 1), percent |-> percent, outcome |-> outcome])]
  /\ world' = [world EXCEPT !.intact = @ \cup {Len(store.runs) + 1}]
  /\ UNCHANGED <<calls, history, budget>>

ObjectiveNext ==
  \/ \E u \in Users :
       \/ Create(u) \/ Revalidate(u) \/ Derive(u) \/ Confirm(u)
       \/ CheckWorktree(u) \/ CheckEvidence(u) \/ Update(u) \/ Lose(u)
       \/ \E decision \in Decision : Decide(u, decision)
  \/ Change \/ Scan \/ FinishRun
objectiveVars == <<store, calls, world, history, budget>>

-----------------------------------------------------------------------------
ObjectiveTypeOK ==
  store.objective # None =>
    /\ store.objective.state \in {"draft", "ready", "blocked", "review", "adopted", "rejected"}
    /\ store.objective.decision \in Decision \cup {None}
    /\ Len(store.objective.revalidations) <= MaxRevalidations

\* No update is lost between reviewers: every confirmed one has a revision of
\* its own, and every confirmed revalidation is in the history until newer ones
\* push it out.
RevalidationsAreKept ==
  store.objective # None =>
    /\ store.objective.revision = history.updates + 1
    /\ Len(store.objective.revalidations) =
         IF history.revalidations < MaxRevalidations THEN history.revalidations ELSE MaxRevalidations

\* An adopted objective is proven: its latest revalidation is a coverage run
\* that meets the minimum of the decision that stands, and the worktree had the
\* commit and the configuration of that run when the adoption was confirmed,
\* whatever happened between the decisions, the runs and the confirmation.
AdoptionIsProven ==
  store.objective # None /\ store.objective.state = "adopted" =>
    LET latest == Head(store.objective.revalidations)
        run == store.runs[latest.source]
    IN /\ latest.reason \in Improved /\ run.outcome = "collected"
       /\ run.percent >= store.objective.decision.minimum
       /\ history.adopted = [head |-> run.head, config |-> run.config]

\* What is adopted or rejected is never changed, and an objective changes only
\* to what a handler has made of the objective that is stored.
ObjectiveChangesByReview ==
  store'.objective # store.objective /\ store.objective # None =>
    /\ store.objective.state \notin Terminal
    /\ \E u \in Users : calls[u].at = "update" /\ calls[u].read = store.objective /\ calls[u].next = store'.objective
ObjectiveDecisionsStand == [][ObjectiveChangesByReview]_objectiveVars

\* A revalidation looks at a later observation (domain/quality_objective.go:91):
\* a follow-up run is refused for its configuration only if another runner has
\* made it.
FollowUpIsCompared ==
  store.objective # None =>
    \A revalidation \in ToSet(store.objective.revalidations) :
      revalidation.reason = "config_mismatch" =>
        revalidation.config.runner # store.objective.signal.config.runner
=============================================================================

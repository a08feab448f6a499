------------------------------ MODULE ExternalWork ------------------------------
(***************************************************************************)
(* Groups of Jenkins builds and releases (internal/app/external.go,        *)
(* release.go): a plan freezes the digest of a group and its integrations, *)
(* a person approves it, and an execution starts the builds, two at a time,*)
(* waits for each and keeps the result.  The configuration may be edited   *)
(* meanwhile, Jenkins answers late or not at all, and both give up.        *)
(***************************************************************************)
EXTENDS Naturals, FiniteSets

CONSTANTS
  Targets,         \* the targets of the group
  Groups, Keys,    \* versions of the group and of the integration that edits make
  Expected,        \* the revisions that a release may expect; None for external work
  Slots,           \* 2 in the code
  MaxChanges, MaxRuns, \* bounds: edits and changes of the worktree, executions
  None

VARIABLES
  store,   \* the plan, its approval, the lease and the kept result
  calls,   \* the execution: what it has read and how far each target is
  world,   \* the configuration, the worktree and Jenkins' builds
  history, \* what was posted to Jenkins in this execution
  budget   \* changes and executions so far

Builds == {"none", "queued", "cancelled", "building", "SUCCESS", "FAILURE"}
Fresh == [t \in Targets |-> "none"]
\* validateExternalWorkGroup and externalGroupDigest: the group together with
\* its integrations, which must be there.
Digest(w) == <<w.group, w.key>>

WorkInit ==
  /\ store = [plan |-> None, approved |-> None, leased |-> FALSE, result |-> None]
  /\ calls = [at |-> "idle"]
  /\ world \in [group : Groups, key : Keys, moved : {FALSE}, builds : {Fresh}]
  /\ history = {} /\ budget = [changes |-> 0, runs |-> 0]

Calls(at) == calls' = [calls EXCEPT !.at = at]
Kept == UNCHANGED <<world, history, budget>>

\* PlanExternalWork and PlanRelease: the plan carries the digest, not the group.
PlanWork(expected) ==
  /\ calls.at = "idle" /\ store.plan = None
  /\ store' = [store EXCEPT !.plan = [digest |-> Digest(world), expected |-> expected]]
  /\ UNCHANGED calls /\ Kept
\* StartHumanApprovalCeremony, for the plan as it is stored.
Approve ==
  /\ store.plan # None /\ store.approved = None
  /\ store' = [store EXCEPT !.approved = store.plan] /\ UNCHANGED calls /\ Kept

\* ExternalWorkPlan and ReleasePlan: the group is read again and must still
\* have the digest of the plan.
PlanIsCurrent_Any == TRUE
PlanIsCurrent == store.plan # None /\ Digest(world) = store.plan.digest
ReadPlan ==
  /\ calls.at = "idle" /\ store.plan # None /\ budget.runs < MaxRuns
  /\ PlanIsCurrent
  /\ calls' = [at |-> "admit", group |-> world.group, expected |-> store.plan.expected,
               targets |-> [t \in Targets |-> "waiting"]]
  /\ budget' = [budget EXCEPT !.runs = @ + 1]
  /\ UNCHANGED <<store, world, history>>
\* broker.Admit: the approval of this plan, one lease.
Admit ==
  /\ calls.at = "admit"
  /\ IF store.approved = store.plan
     THEN store' = [store EXCEPT !.leased = TRUE] /\ Calls("evidence")
     ELSE calls' = [at |-> "idle"] /\ UNCHANGED store
  /\ Kept
\* discoveryWorktree: a worktree that moved ends the execution.
CheckEvidence ==
  /\ calls.at = "evidence"
  /\ IF world.moved
     THEN store' = [store EXCEPT !.leased = FALSE] /\ calls' = [at |-> "idle"] /\ Kept
     ELSE /\ Calls("run") /\ history' = {}
          /\ world' = [world EXCEPT !.builds = Fresh] /\ UNCHANGED <<store, budget>>

-----------------------------------------------------------------------------
Target(t, step) == calls' = [calls EXCEPT !.targets[t] = step]
Waiting == {t \in Targets : calls.targets[t] = "waiting"}
Busy == {t \in Targets : calls.targets[t] \in {"started", "queue", "build"}}
\* runJenkinsGroup: a slot is taken.
StartTarget(t) ==
  /\ calls.at = "run" /\ t \in Waiting /\ Cardinality(Busy) < Slots
  /\ Target(t, "started") /\ UNCHANGED store /\ Kept
\* triggerJenkins: the integration is read again here; a missing credential, no
\* answer or another answer than a place in the queue fails the target.
Trigger(t) ==
  /\ calls.at = "run" /\ calls.targets[t] = "started"
  /\ history' = history \cup {[target |-> t, group |-> calls.group, key |-> world.key]}
  /\ world' = [world EXCEPT !.builds[t] = "queued"]
  /\ \E answer \in {"queue", "failed"} : Target(t, answer)
  /\ UNCHANGED <<store, budget>>
TriggerFails(t) ==
  /\ calls.at = "run" /\ calls.targets[t] = "started"
  /\ Target(t, "failed") /\ UNCHANGED store /\ Kept
\* pollJenkinsQueue: until the item is cancelled or has a build.
PollQueue(t) ==
  /\ calls.at = "run" /\ calls.targets[t] = "queue" /\ world.builds[t] # "queued"
  /\ Target(t, IF world.builds[t] = "cancelled" THEN "failed" ELSE "build")
  /\ UNCHANGED store /\ Kept
\* pollJenkinsBuild: until the build is not building; only SUCCESS succeeds.
OutcomeOf_Ended(build) == IF build = "building" THEN "failed" ELSE "succeeded"
OutcomeOf(build) == IF build = "SUCCESS" THEN "succeeded" ELSE "failed"
PollBuild(t) ==
  /\ calls.at = "run" /\ calls.targets[t] = "build" /\ world.builds[t] # "building"
  /\ Target(t, OutcomeOf(world.builds[t])) /\ UNCHANGED store /\ Kept
\* Thirty seconds without an end, or the request is cancelled: the build goes on.
GiveUp(t) ==
  /\ calls.at = "run" /\ calls.targets[t] \in {"queue", "build"}
  /\ Target(t, "failed") /\ UNCHANGED store /\ Kept

\* All targets have ended: the events of the targets, ...
Succeeded == \A t \in Targets : calls.targets[t] = "succeeded"
\* ... and the postchecks: no revision that is expected can be verified.
Status(expected) ==
  IF ~Succeeded THEN "failed" ELSE IF expected # None THEN "postcheck_failed" ELSE "succeeded"
Join ==
  /\ calls.at = "run" /\ \A t \in Targets : calls.targets[t] \in {"succeeded", "failed"}
  /\ calls' = [at |-> "release", result |-> [status |-> Status(calls.expected), targets |-> calls.targets]]
  /\ UNCHANGED store /\ Kept
\* The lease goes before the result is kept, if the configuration can be written.
ReleaseLease ==
  /\ calls.at = "release" /\ Calls("save")
  /\ store' = [store EXCEPT !.leased = FALSE] /\ Kept
SaveResult ==
  /\ calls.at = "save" /\ calls' = [at |-> "idle"] /\ Kept
  /\ store' = [store EXCEPT !.result = calls.result] \/ UNCHANGED store

-----------------------------------------------------------------------------
\* Jenkins, on its own.
Jenkins(t) ==
  /\ \/ world.builds[t] = "queued" /\ \E b \in {"cancelled", "building"} : world' = [world EXCEPT !.builds[t] = b]
     \/ world.builds[t] = "building" /\ \E b \in {"SUCCESS", "FAILURE"} : world' = [world EXCEPT !.builds[t] = b]
  /\ UNCHANGED <<store, calls, history, budget>>
Changing == budget.changes < MaxChanges /\ budget' = [budget EXCEPT !.changes = @ + 1]
\* Edits of the group or of the integration, and a commit in the worktree.
EditConfiguration ==
  /\ Changing /\ \E g \in Groups, k \in Keys : world' = [world EXCEPT !.group = g, !.key = k]
  /\ UNCHANGED <<store, calls, history>>
MoveWorktree ==
  /\ Changing /\ ~world.moved /\ world' = [world EXCEPT !.moved = TRUE]
  /\ UNCHANGED <<store, calls, history>>
WorkTarget(t) ==
  StartTarget(t) \/ Trigger(t) \/ TriggerFails(t) \/ PollQueue(t) \/ PollBuild(t) \/ GiveUp(t)
WorkNext ==
  \/ \E expected \in Expected : PlanWork(expected)
  \/ Approve \/ ReadPlan \/ Admit \/ CheckEvidence \/ Join \/ ReleaseLease \/ SaveResult
  \/ \E t \in Targets : WorkTarget(t) \/ Jenkins(t)
  \/ EditConfiguration \/ MoveWorktree

-----------------------------------------------------------------------------
WorkTypeOK ==
  /\ world.builds \in [Targets -> Builds]
  /\ calls.at \in {"idle", "admit", "evidence", "run", "release", "save"}
  /\ store.leased \in BOOLEAN

\* A successful result says that every build the execution itself started has
\* ended with SUCCESS, whatever ended late, was cancelled or was given up, and
\* "an expected revision is marked postcheck_failed" (docs/INTEGRATIONS.md:227).
SuccessIsEveryTarget ==
  calls.at \in {"release", "save"} /\ calls.result.status = "succeeded" =>
    /\ \A t \in Targets : world.builds[t] = "SUCCESS"
    /\ {h.target : h \in history} = Targets /\ store.plan.expected = None

\* Only jobs and parameters of the approved group are posted, under the lease and
\* two at a time.  The group is the one that was read before the admission; the
\* integration is another matter, see BoundConfigurationIsUsed.
OnlyApprovedIsPosted ==
  calls.at = "run" =>
    /\ store.leased /\ store.approved = store.plan /\ Cardinality(Busy) <= Slots
    /\ \A h \in history : h.group = store.approved.digest[1]

\* "Group planning binds the target configuration, integration endpoint, and
\* credential reference to one immutable ActionPlan digest"
\* (docs/INTEGRATIONS.md:174): every build is posted with what was approved.  The
\* code binds them when it plans, and takes the user name and the credential
\* reference of the post from the integration as it is then (external.go:407).
BoundConfigurationIsUsed ==
  calls.at = "run" => \A h \in history : <<h.group, h.key>> = store.approved.digest
================================================================================

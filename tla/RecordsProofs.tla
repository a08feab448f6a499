---------------------------- MODULE RecordsProofs ----------------------------
(***************************************************************************)
(* Proofs about components that keep records and act on what was reviewed, *)
(* each an instance over the same variables (see MCRecords), for any       *)
(* values of its constants.                                                *)
(***************************************************************************)
EXTENDS Naturals, Sequences, FiniteSets, FiniteSetTheorems, WellFoundedInduction, TLAPS

CONSTANTS
  Order, Heads, Exclusions, Users, MaxNonce, MaxRevision, \* InspectionFlow
  Branches, Commits, Merged,                              \* Cleanup
  Repositories, Slots,                                    \* RepositorySync
  Targets, Groups, Keys, Expected,                        \* ExternalWork
  Artifacts, Destinations, Quota, MaxCalls, MaxFaults, MaxCrashes, MaxTampered, \* ArtifactStore
  Old, Names, Values, Unsafe, Plans, Defaults, Codex, MaxItems, MaxResults, MaxEdits, \* ConfigStore
  TechniqueOf, Worktrees, Exits, Profiles, MaxTargets, MaxPins, \* QualityRuns
  MaxChanges, MaxRuns, None

VARIABLES store, calls, world, history, budget
vars == <<store, calls, world, history, budget>>

-----------------------------------------------------------------------------
(* Slots: of the steps of several goroutines, a few may be at the same time  *)
(* in those places that a slot is needed for.                                *)

Holding(steps, places) == {p \in DOMAIN steps : steps[p] \in places}
Within(steps, places) ==
  IsFiniteSet(Holding(steps, places)) /\ Cardinality(Holding(steps, places)) <= Slots

\* A step of one goroutine leaves the others; it takes a slot only if one is free.
LEMMA SlotsAreKept ==
  ASSUME Slots \in Nat, NEW steps, steps = [q \in DOMAIN steps |-> steps[q]], NEW places,
         Within(steps, places), NEW p \in DOMAIN steps, NEW step,
         \/ step \notin places
         \/ steps[p] \in places
         \/ Cardinality(Holding(steps, places)) < Slots
  PROVE  Within([steps EXCEPT ![p] = step], places)
<1> DEFINE next == [steps EXCEPT ![p] = step]
<1>1. /\ DOMAIN next = DOMAIN steps
      /\ next[p] = step /\ \A q \in DOMAIN steps : q # p => next[q] = steps[q]
  OBVIOUS
<1> HIDE DEF next
<1>2. /\ IsFiniteSet(Holding(steps, places)) /\ Cardinality(Holding(steps, places)) <= Slots
      /\ Cardinality(Holding(steps, places)) \in Nat
  BY FS_CardinalityType DEF Within
<1>3. IsFiniteSet(Holding(next, places)) /\ Cardinality(Holding(next, places)) <= Slots
  <2>1. CASE Holding(next, places) \subseteq Holding(steps, places)
    BY <2>1, <1>2, FS_Subset, FS_CardinalityType
  <2>2. CASE ~(Holding(next, places) \subseteq Holding(steps, places))
    <3>1. /\ Holding(next, places) = Holding(steps, places) \cup {p}
          /\ p \notin Holding(steps, places)
          /\ Cardinality(Holding(steps, places)) < Slots
      BY <2>2, <1>1 DEF Holding
    <3> QED BY <3>1, <1>2, FS_AddElement
  <2> QED BY <2>1, <2>2
<1> QED BY <1>3 DEF Within, next

\* All begin to wait for one.
LEMMA NobodyHolds ==
  ASSUME Slots \in Nat, NEW S, NEW places, "waiting" \notin places
  PROVE  Within([p \in S |-> "waiting"], places)
<1> DEFINE steps == [p \in S |-> "waiting"]
<1>1. Holding(steps, places) = {}
  <2>1. \A p \in DOMAIN steps : steps[p] = "waiting"
    OBVIOUS
  <2> QED BY <2>1 DEF Holding
<1> HIDE DEF steps
<1>2. Within(steps, places)
  BY <1>1, FS_EmptySet DEF Within
<1> QED BY <1>2 DEF steps

Sync == INSTANCE RepositorySync

\* The instance counts as the standard module does.
LEMMA SyncCounts == \A T : Sync!Cardinality(T) = Cardinality(T)
BY DEF Sync!Cardinality, Cardinality

-----------------------------------------------------------------------------
(* RepositorySync: a plan names a branch, and the slots are never exceeded. *)

SyncSpec == Sync!SyncInit /\ [][Sync!SyncNext]_vars

PulledRight(h) ==
  h.was.branch # None /\ ~h.was.dirty /\ h.was.upstream /\ ~h.was.ahead /\ h.was.branch = h.plan.branch
Slotted == {"admitted", "valid"}
SyncSteps(steps) ==
  /\ steps = [p \in DOMAIN steps |-> steps[p]]
  /\ \A p \in DOMAIN steps : p.branch # None
  /\ Within(steps, Slotted)
SyncCall(c) == c.at = "run" => c = [at |-> "run", plans |-> c.plans, scans |-> 0] /\ SyncSteps(c.plans)
SyncInv ==
  /\ store = [rows |-> store.rows, plans |-> store.plans]
  /\ \A p \in store.plans : p.branch # None
  /\ SyncCall(calls)
  /\ \A h \in history : PulledRight(h)

LEMMA SyncInitially == Sync!SyncInit => SyncInv
BY DEF Sync!SyncInit, SyncInv, SyncCall

LEMMA SyncStep ==
  ASSUME Slots \in Nat, SyncInv, Sync!SyncNext
  PROVE  SyncInv'
<1> USE DEF SyncInv
<1>1. CASE Sync!PlanSync
  <2>1. /\ store'.plans = {[repository |-> q, branch |-> store.rows[q].branch] :
                            q \in {t \in Repositories : Sync!Eligible(store.rows[t])}}
        /\ store' = [rows |-> store'.rows, plans |-> store'.plans]
        /\ UNCHANGED <<calls, history>>
    BY <1>1 DEF Sync!PlanSync
  <2>2. \A q : Sync!Eligible(store.rows[q]) => store.rows[q].branch # None
    BY DEF Sync!Eligible
  <2>3. \A q \in store'.plans : q.branch # None
    BY <2>1, <2>2
  <2> QED BY <2>1, <2>3 DEF SyncCall
<1>2. CASE Sync!Execute
  <2>1. PICK chosen \in (SUBSET store.plans) \ {{}} :
          calls' = [at |-> "run", plans |-> [p \in chosen |-> "waiting"], scans |-> 0]
    BY <1>2 DEF Sync!Execute
  <2>2. UNCHANGED <<store, history>>
    BY <1>2 DEF Sync!Execute
  <2> DEFINE steps == [p \in chosen |-> "waiting"]
  <2>3. /\ DOMAIN steps = chosen /\ steps = [p \in DOMAIN steps |-> steps[p]]
        /\ \A p \in chosen : p.branch # None
    OBVIOUS
  <2>4. Within(steps, Slotted)
    BY NobodyHolds DEF Slotted
  <2> HIDE DEF steps
  <2>5. SyncSteps(steps)
    BY <2>3, <2>4 DEF SyncSteps
  <2> QED BY <2>1, <2>2, <2>5 DEF SyncCall, steps
<1>3. ASSUME NEW p \in DOMAIN calls.plans, calls.at = "run", NEW step, Sync!Set(p, step),
             \/ step \notin Slotted
             \/ calls.plans[p] \in Slotted
             \/ Cardinality(Holding(calls.plans, Slotted)) < Slots
      PROVE  SyncCall(calls')
  <2>1. SyncSteps(calls.plans) /\ calls = [at |-> "run", plans |-> calls.plans, scans |-> 0]
    BY <1>3 DEF SyncCall
  <2>2. calls' = [at |-> "run", plans |-> [calls.plans EXCEPT ![p] = step], scans |-> 0]
    BY <1>3, <2>1 DEF Sync!Set
  <2>3. SyncSteps([calls.plans EXCEPT ![p] = step])
    <3> DEFINE next == [calls.plans EXCEPT ![p] = step]
    <3>1. Within(next, Slotted)
      BY <1>3, <2>1, SlotsAreKept DEF SyncSteps
    <3>2. next = [q \in DOMAIN next |-> next[q]] /\ DOMAIN next = DOMAIN calls.plans
      BY <2>1 DEF SyncSteps
    <3> QED BY <2>1, <3>1, <3>2 DEF SyncSteps
  <2> QED BY <2>2, <2>3 DEF SyncCall
<1>4. ASSUME NEW p \in store.plans, calls.at = "run", p \in DOMAIN calls.plans,
             Sync!Take(p) \/ Sync!Pull(p)
      PROVE  SyncInv'
  <2>1. Cardinality(Holding(calls.plans, Slotted)) = Sync!Cardinality(Sync!Running({"admitted", "valid"}))
    BY SyncCounts DEF Holding, Slotted, Sync!Running
  <2>2. UNCHANGED <<store, history>> /\ \E step \in {"admitted", "failed", "succeeded"} :
          Sync!Set(p, step) /\ (step = "admitted" => Cardinality(Holding(calls.plans, Slotted)) < Slots)
    <3>1. CASE Sync!Take(p)
      <4>1. UNCHANGED <<store, history>> /\ Cardinality(Holding(calls.plans, Slotted)) < Slots
        BY <3>1, <2>1 DEF Sync!Take, Sync!Unchanged
      <4>2. \E step \in {"admitted", "failed"} : Sync!Set(p, step)
        BY <3>1 DEF Sync!Take
      <4> QED BY <4>1, <4>2
    <3>2. CASE Sync!Pull(p)
      BY <3>2 DEF Sync!Pull, Sync!Unchanged
    <3> QED BY <3>1, <3>2, <1>4
  <2> QED BY <1>3, <1>4, <2>2 DEF Slotted
<1>5. ASSUME NEW p \in store.plans, calls.at = "run", p \in DOMAIN calls.plans, Sync!Revalidate(p)
      PROVE  SyncInv'
  <2>1. calls.plans[p] \in Slotted /\ p.branch # None /\ UNCHANGED store
    BY <1>5 DEF Sync!Revalidate, Slotted
  <2>2. SyncCall(calls')
    BY <1>3, <1>5, <2>1 DEF Sync!Revalidate
  <2>3. Sync!SyncStateIsValid(p) => PulledRight([plan |-> p, was |-> world[p.repository]])
    BY <2>1 DEF Sync!SyncStateIsValid, PulledRight
  <2>4. \A h \in history' : PulledRight(h)
    BY <1>5, <2>3 DEF Sync!Revalidate
  <2> QED BY <2>1, <2>2, <2>4
<1>6. CASE Sync!JoinSync
  <2>1. calls.at = "run" /\ calls'.at = "ended" /\ UNCHANGED history
    BY <1>6 DEF Sync!JoinSync, SyncCall
  <2>2. store' = [rows |-> store'.rows, plans |-> {}]
    BY <1>6 DEF Sync!JoinSync
  <2> QED BY <2>1, <2>2 DEF SyncCall
<1>7. ASSUME NEW r \in Repositories, Sync!ChangeWorktree(r)
      PROVE  SyncInv'
  BY <1>7 DEF Sync!ChangeWorktree
<1> QED BY <1>1, <1>2, <1>4, <1>5, <1>6, <1>7 DEF Sync!SyncNext

\* Only a worktree that was found clean, on the planned branch and without
\* commits of its own is pulled, and never more of them at once than there are
\* slots (validateRepositorySyncState, repository_sync.go).
THEOREM OnlyCleanWorktreesArePulled ==
  ASSUME Slots \in Nat
  PROVE  SyncSpec => []Sync!OnlyCleanIsPulled
<1>1. SyncInv /\ [Sync!SyncNext]_vars => SyncInv'
  <2>1. SyncInv /\ UNCHANGED vars => SyncInv'
    BY DEF SyncInv, vars
  <2> QED BY <2>1, SyncStep
<1>2. SyncInv => Sync!OnlyCleanIsPulled
  <2>1. Cardinality(Holding(calls.plans, Slotted)) = Sync!Cardinality(Sync!Running({"admitted", "valid"}))
    BY SyncCounts DEF Holding, Slotted, Sync!Running
  <2>2. SyncInv => \A h \in history : Sync!Eligible(h.was) /\ h.was.branch = h.plan.branch
    BY DEF SyncInv, PulledRight, Sync!Eligible
  <2>3. SyncInv /\ calls.at = "run" => Cardinality(Holding(calls.plans, Slotted)) <= Slots
    BY DEF SyncInv, SyncCall, SyncSteps, Within
  <2> QED BY <2>1, <2>2, <2>3 DEF Sync!OnlyCleanIsPulled
<1> QED BY <1>1, <1>2, SyncInitially, PTL DEF SyncSpec

-----------------------------------------------------------------------------
(* ExternalWork: a plan is approved once and never replaced, so that what an *)
(* execution has read stays what was approved; a build that has succeeded    *)
(* has no way back.                                                          *)

Work == INSTANCE ExternalWork

\* The instance counts as the standard module does.
LEMMA WorkCounts == \A T : Work!Cardinality(T) = Cardinality(T)
BY DEF Work!Cardinality, Cardinality

WorkSpec == Work!WorkInit /\ [][Work!WorkNext]_vars

\* What an execution of the plan has read of it.
WorkRead(c, rows) ==
  /\ c = [at |-> c.at, group |-> c.group, expected |-> c.expected, targets |-> c.targets]
  /\ rows.plan # None /\ c.group = rows.plan.digest[1] /\ c.expected = rows.plan.expected
  /\ c.targets = [t \in Targets |-> c.targets[t]]
Occupied == {"started", "queue", "build"}
Posted(posts) == {h.target : h \in posts}
\* How far the target is, beside what was posted and what Jenkins says.
WorkTargetIs(step, t, posts, builds) ==
  /\ step \in {"queue", "build", "succeeded"} => t \in Posted(posts)
  /\ step = "succeeded" => builds[t] = "SUCCESS"
WorkRuns(c, rows, posts, builds) ==
  /\ WorkRead(c, rows) /\ Within(c.targets, Occupied)
  /\ rows.leased /\ rows.approved = rows.plan
  /\ \A h \in posts : h.group = c.group /\ h.target \in Targets
  /\ \A t \in Targets : WorkTargetIs(c.targets[t], t, posts, builds)
WorkEnded(c, rows, posts, builds) ==
  /\ c = [at |-> c.at, result |-> c.result]
  /\ c.result.status = "succeeded" =>
       /\ \A t \in Targets : builds[t] = "SUCCESS"
       /\ Posted(posts) = Targets /\ rows.plan.expected = None
WorkCall(c, rows, posts, builds) ==
  \/ c.at = "idle"
  \/ c.at = "admit" /\ WorkRead(c, rows) /\ Within(c.targets, Occupied)
                    /\ \A t \in Targets : c.targets[t] = "waiting"
  \/ c.at = "evidence" /\ WorkRead(c, rows) /\ Within(c.targets, Occupied)
                       /\ (\A t \in Targets : c.targets[t] = "waiting")
                       /\ rows.leased /\ rows.approved = rows.plan
  \/ c.at = "run" /\ WorkRuns(c, rows, posts, builds)
  \/ c.at \in {"release", "save"} /\ rows.plan # None /\ WorkEnded(c, rows, posts, builds)
WorkInv ==
  /\ store = [plan |-> store.plan, approved |-> store.approved, leased |-> store.leased, result |-> store.result]
  /\ store.approved # None => store.approved = store.plan
  /\ world = [group |-> world.group, key |-> world.key, moved |-> world.moved, builds |-> world.builds]
  /\ world.builds = [t \in Targets |-> world.builds[t]]
  /\ WorkCall(calls, store, history, world.builds)

LEMMA WorkInitially == Work!WorkInit => WorkInv
BY DEF Work!WorkInit, Work!Fresh, WorkInv, WorkCall

\* The plan, once there, and its approval stay; what is known of the execution
\* stays true when only the plan, the approval or the lease are set.
LEMMA WorkPlanStep ==
  ASSUME WorkInv, (\E expected \in Expected : Work!PlanWork(expected)) \/ Work!Approve
  PROVE  WorkInv'
<1>1. /\ UNCHANGED <<calls, world, history>>
      /\ store' = [plan |-> store'.plan, approved |-> store'.approved, leased |-> store.leased, result |-> store.result]
      /\ store'.approved # None => store'.approved = store'.plan
      /\ \/ calls.at = "idle"
         \/ store'.plan = store.plan /\ store'.leased = store.leased /\ store.plan # None /\ store.approved = None
  BY DEF WorkInv, Work!PlanWork, Work!Approve, Work!Kept
<1>2. WorkCall(calls, store', history, world.builds)
  BY <1>1 DEF WorkInv, WorkCall, WorkRead, WorkRuns, WorkEnded
<1> QED BY <1>1, <1>2 DEF WorkInv

\* The steps of the handler itself.
LEMMA WorkHandlerStep ==
  ASSUME Slots \in Nat, WorkInv,
         Work!ReadPlan \/ Work!Admit \/ Work!CheckEvidence \/ Work!Join \/ Work!ReleaseLease \/ Work!SaveResult
  PROVE  WorkInv'
<1> USE DEF WorkInv
<1>1. CASE Work!ReadPlan
  <2>1. /\ calls' = [at |-> "admit", group |-> world.group, expected |-> store.plan.expected,
                     targets |-> [t \in Targets |-> "waiting"]]
        /\ UNCHANGED <<store, world, history>> /\ store.plan # None
        /\ world.group = store.plan.digest[1]
    BY <1>1 DEF Work!ReadPlan, Work!PlanIsCurrent, Work!Digest
  <2>2. Within([t \in Targets |-> "waiting"], Occupied)
    BY NobodyHolds DEF Occupied
  <2>3. WorkCall(calls', store, history, world.builds)
    BY <2>1, <2>2 DEF WorkCall, WorkRead
  <2> QED BY <2>1, <2>3
<1>2. CASE Work!Admit
  <2>1. WorkRead(calls, store) /\ Within(calls.targets, Occupied) /\ UNCHANGED <<world, history>>
        /\ \A t \in Targets : calls.targets[t] = "waiting"
    BY <1>2 DEF Work!Admit, Work!Kept, WorkCall
  <2>2. CASE store.approved = store.plan
    <3>1. store' = [plan |-> store.plan, approved |-> store.plan, leased |-> TRUE, result |-> store.result]
      BY <1>2, <2>2 DEF Work!Admit
    <3>2. calls' = [at |-> "evidence", group |-> calls.group, expected |-> calls.expected, targets |-> calls.targets]
      BY <1>2, <2>1, <2>2 DEF Work!Admit, Work!Calls, WorkRead
    <3>3. WorkRead(calls', store')
      BY <3>1, <3>2, <2>1 DEF WorkRead
    <3> QED BY <2>1, <3>1, <3>2, <3>3 DEF WorkCall
  <2>3. CASE store.approved # store.plan
    BY <1>2, <2>1, <2>3 DEF Work!Admit, WorkCall
  <2> QED BY <2>2, <2>3
<1>3. CASE Work!CheckEvidence
  <2>1. WorkRead(calls, store) /\ Within(calls.targets, Occupied) /\ store.leased /\ store.approved = store.plan
        /\ \A t \in Targets : calls.targets[t] = "waiting"
    BY <1>3 DEF Work!CheckEvidence, WorkCall
  <2>2. CASE world.moved
    <3>1. /\ store' = [plan |-> store.plan, approved |-> store.approved, leased |-> FALSE, result |-> store.result]
          /\ calls' = [at |-> "idle"] /\ UNCHANGED world
      BY <1>3, <2>2 DEF Work!CheckEvidence, Work!Kept
    <3> QED BY <3>1 DEF WorkCall
  <2>3. CASE ~world.moved
    <3>1. /\ calls' = [at |-> "run", group |-> calls.group, expected |-> calls.expected, targets |-> calls.targets]
          /\ world' = [group |-> world.group, key |-> world.key, moved |-> world.moved, builds |-> Work!Fresh]
          /\ history' = {} /\ UNCHANGED store
      BY <1>3, <2>1, <2>3 DEF Work!CheckEvidence, Work!Calls, WorkRead
    <3>2. WorkRead(calls', store) /\ Within(calls'.targets, Occupied)
      BY <3>1, <2>1 DEF WorkRead
    <3>3. \A t \in Targets : WorkTargetIs(calls'.targets[t], t, history', world'.builds)
      BY <3>1, <2>1 DEF WorkTargetIs
    <3>4. WorkCall(calls', store, history', world'.builds)
      BY <3>1, <3>2, <3>3, <2>1 DEF WorkCall, WorkRuns
    <3> QED BY <3>1, <3>4 DEF Work!Fresh
  <2> QED BY <2>2, <2>3
<1>4. CASE Work!Join
  <2>1. WorkRuns(calls, store, history, world.builds) /\ UNCHANGED <<store, world, history>>
    BY <1>4 DEF Work!Join, Work!Kept, WorkCall
  <2>2. calls' = [at |-> "release", result |-> calls'.result] /\ calls'.result.status = Work!Status(calls.expected)
    BY <1>4 DEF Work!Join
  <2>3. ASSUME calls'.result.status = "succeeded"
        PROVE  /\ \A t \in Targets : world.builds[t] = "SUCCESS"
               /\ Posted(history) = Targets /\ store.plan.expected = None
    <3>1. (\A t \in Targets : calls.targets[t] = "succeeded") /\ calls.expected = None
      BY <2>2, <2>3 DEF Work!Status, Work!Succeeded
    <3> QED BY <2>1, <3>1 DEF WorkRuns, WorkRead, WorkTargetIs, Posted
  <2> QED BY <2>1, <2>2, <2>3 DEF WorkCall, WorkEnded, WorkRuns, WorkRead
<1>5. CASE Work!ReleaseLease \/ Work!SaveResult
  <2>1. /\ calls.at \in {"release", "save"} /\ WorkEnded(calls, store, history, world.builds) /\ store.plan # None
    BY <1>5 DEF Work!ReleaseLease, Work!SaveResult, WorkCall
  <2>2. /\ store' = [plan |-> store.plan, approved |-> store.approved, leased |-> store'.leased, result |-> store'.result]
        /\ UNCHANGED <<world, history>>
    BY <1>5 DEF Work!ReleaseLease, Work!SaveResult, Work!Kept
  <2>3. calls' = [at |-> "idle"] \/ calls' = [at |-> "save", result |-> calls.result]
    BY <1>5, <2>1 DEF Work!ReleaseLease, Work!SaveResult, Work!Calls, WorkEnded
  <2> QED BY <2>1, <2>2, <2>3 DEF WorkCall, WorkEnded
<1> QED BY <1>1, <1>2, <1>3, <1>4, <1>5

\* The steps of one target: a slot, the post, the answers of Jenkins.
LEMMA WorkTargetStep ==
  ASSUME Slots \in Nat, WorkInv, NEW t \in Targets, Work!WorkTarget(t)
  PROVE  WorkInv'
<1>1. calls.at = "run" /\ WorkRuns(calls, store, history, world.builds) /\ UNCHANGED store
  BY DEF WorkInv, WorkCall, Work!WorkTarget, Work!StartTarget, Work!Trigger, Work!TriggerFails,
         Work!PollQueue, Work!PollBuild, Work!GiveUp
<1>2. calls = [at |-> "run", group |-> calls.group, expected |-> calls.expected, targets |-> calls.targets]
      /\ DOMAIN calls.targets = Targets /\ calls.targets = [r \in Targets |-> calls.targets[r]]
  BY <1>1 DEF WorkRuns, WorkRead
<1> DEFINE builds == world.builds
           next(step) == [calls.targets EXCEPT ![t] = step]
<1>3. ASSUME NEW step, Work!Target(t, step),
             step \in Occupied => \/ calls.targets[t] \in Occupied
                                  \/ Cardinality(Holding(calls.targets, Occupied)) < Slots,
             history \subseteq history', \A h \in history' \ history : h.group = calls.group /\ h.target = t,
             WorkTargetIs(step, t, history', world'.builds),
             \A r \in Targets : calls.targets[r] = "succeeded" => world'.builds[r] = builds[r]
      PROVE  WorkCall(calls', store, history', world'.builds)
  <2>1. calls' = [at |-> "run", group |-> calls.group, expected |-> calls.expected, targets |-> next(step)]
    BY <1>2, <1>3 DEF Work!Target
  <2>2. Within(next(step), Occupied)
    BY <1>1, <1>2, <1>3, SlotsAreKept DEF WorkRuns
  <2>3. next(step) = [r \in Targets |-> next(step)[r]] /\ next(step)[t] = step
        /\ \A r \in Targets : r # t => next(step)[r] = calls.targets[r]
    BY <1>2
  <2> HIDE DEF next, builds
  <2>4. \A r \in Targets : WorkTargetIs(next(step)[r], r, history', world'.builds)
    BY <2>3, <1>1, <1>3 DEF WorkRuns, WorkTargetIs, Posted, builds
  <2>5. \A h \in history' : h.group = calls.group /\ h.target \in Targets
    BY <1>1, <1>3 DEF WorkRuns
  <2> QED BY <1>1, <2>1, <2>2, <2>3, <2>4, <2>5 DEF WorkCall, WorkRuns, WorkRead
<1>4. CASE Work!StartTarget(t)
  <2>1. /\ Work!Target(t, "started") /\ UNCHANGED <<world, history>>
        /\ Work!Cardinality(Work!Busy) < Slots
    BY <1>4 DEF Work!StartTarget, Work!Kept
  <2>2. Cardinality(Holding(calls.targets, Occupied)) < Slots
    BY <2>1, <1>2, WorkCounts DEF Work!Busy, Holding, Occupied
  <2>3. WorkCall(calls', store, history', world'.builds)
    BY <2>1, <2>2, <1>3 DEF WorkTargetIs
  <2> QED BY <1>1, <2>1, <2>3 DEF WorkInv
<1>5. CASE Work!Trigger(t)
  <2>1. PICK answer \in {"queue", "failed"} : Work!Target(t, answer)
    BY <1>5 DEF Work!Trigger
  <2>2. /\ calls.targets[t] = "started"
        /\ history' = history \cup {[target |-> t, group |-> calls.group, key |-> world.key]}
        /\ world' = [group |-> world.group, key |-> world.key, moved |-> world.moved,
                     builds |-> [builds EXCEPT ![t] = "queued"]]
    BY <1>5 DEF Work!Trigger, WorkInv
  <2>3. \A r \in Targets : r # t => [builds EXCEPT ![t] = "queued"][r] = builds[r]
    BY DEF WorkInv
  <2>4. [builds EXCEPT ![t] = "queued"] = [r \in Targets |-> [builds EXCEPT ![t] = "queued"][r]]
    BY DEF WorkInv
  <2>5. WorkTargetIs(answer, t, history', world'.builds)
    BY <2>2 DEF WorkTargetIs, Posted
  <2>6. WorkCall(calls', store, history', world'.builds)
    BY <1>3, <2>1, <2>2, <2>3, <2>5 DEF Occupied
  <2> QED BY <1>1, <2>2, <2>4, <2>6 DEF WorkInv
<1>6. CASE Work!TriggerFails(t) \/ Work!GiveUp(t)
  <2>1. Work!Target(t, "failed") /\ UNCHANGED <<world, history>>
    BY <1>6 DEF Work!TriggerFails, Work!GiveUp, Work!Kept
  <2>2. WorkCall(calls', store, history', world'.builds)
    BY <2>1, <1>3 DEF WorkTargetIs, Occupied
  <2> QED BY <1>1, <2>1, <2>2 DEF WorkInv
<1>7. CASE Work!PollQueue(t) \/ Work!PollBuild(t)
  <2>1. /\ calls.targets[t] \in {"queue", "build"} /\ UNCHANGED <<world, history>>
        /\ \E step \in {"failed", "build", "succeeded"} :
             Work!Target(t, step) /\ (step = "succeeded" => builds[t] = "SUCCESS")
    BY <1>7 DEF Work!PollQueue, Work!PollBuild, Work!Kept, Work!OutcomeOf
  <2>2. PICK step \in {"failed", "build", "succeeded"} :
          Work!Target(t, step) /\ (step = "succeeded" => builds[t] = "SUCCESS")
    BY <2>1
  <2>3. WorkTargetIs(step, t, history', world'.builds)
    BY <1>1, <2>1, <2>2 DEF WorkTargetIs, WorkRuns
  <2>4. WorkCall(calls', store, history', world'.builds)
    BY <1>3, <2>1, <2>2, <2>3 DEF Occupied
  <2> QED BY <1>1, <2>1, <2>4 DEF WorkInv
<1> QED BY <1>4, <1>5, <1>6, <1>7 DEF Work!WorkTarget

\* Jenkins never takes a success back; edits and commits move nothing of it.
LEMMA WorkWorldStep ==
  ASSUME WorkInv, (\E t \in Targets : Work!Jenkins(t)) \/ Work!EditConfiguration \/ Work!MoveWorktree
  PROVE  WorkInv'
<1>1. /\ UNCHANGED <<store, calls, history>>
      /\ world' = [group |-> world'.group, key |-> world'.key, moved |-> world'.moved, builds |-> world'.builds]
      /\ world'.builds = [t \in Targets |-> world'.builds[t]]
      /\ \A t \in Targets : world.builds[t] = "SUCCESS" => world'.builds[t] = "SUCCESS"
  <2>1. ASSUME NEW t \in Targets, Work!Jenkins(t)
        PROVE  /\ UNCHANGED <<store, calls, history>> /\ world.builds[t] # "SUCCESS"
               /\ \E b : world' = [group |-> world.group, key |-> world.key, moved |-> world.moved,
                                   builds |-> [world.builds EXCEPT ![t] = b]]
    BY <2>1 DEF Work!Jenkins, WorkInv
  <2>2. CASE \E t \in Targets : Work!Jenkins(t)
    BY <2>1, <2>2 DEF WorkInv
  <2>3. CASE Work!EditConfiguration \/ Work!MoveWorktree
    BY <2>3 DEF Work!EditConfiguration, Work!MoveWorktree, WorkInv
  <2> QED BY <2>2, <2>3
<1>2. WorkCall(calls, store, history, world'.builds)
  BY <1>1 DEF WorkInv, WorkCall, WorkRuns, WorkEnded, WorkTargetIs
<1> QED BY <1>1, <1>2 DEF WorkInv

LEMMA WorkIsSound ==
  ASSUME Slots \in Nat
  PROVE  WorkSpec => []WorkInv
<1>1. WorkInv /\ [Work!WorkNext]_vars => WorkInv'
  <2>1. WorkInv /\ UNCHANGED vars => WorkInv'
    BY DEF WorkInv, vars
  <2> QED BY <2>1, WorkPlanStep, WorkHandlerStep, WorkTargetStep, WorkWorldStep DEF Work!WorkNext
<1> QED BY <1>1, WorkInitially, PTL DEF WorkSpec

\* Nothing is posted to Jenkins but the group that was approved, under the lease
\* of the execution, and never more builds at once than slots (external.go:380).
THEOREM OnlyTheApprovedGroupIsPosted ==
  ASSUME Slots \in Nat
  PROVE  WorkSpec => []Work!OnlyApprovedIsPosted
<1>1. ASSUME WorkInv, calls.at = "run"
      PROVE  /\ store.leased /\ store.approved = store.plan /\ Work!Cardinality(Work!Busy) <= Slots
             /\ \A h \in history : h.group = store.approved.digest[1]
  <2>1. WorkRuns(calls, store, history, world.builds)
    BY <1>1 DEF WorkInv, WorkCall
  <2>2. Work!Busy = Holding(calls.targets, Occupied)
    BY <2>1 DEF Work!Busy, Holding, Occupied, WorkRuns, WorkRead
  <2> QED BY <2>1, <2>2, WorkCounts DEF WorkRuns, WorkRead, Within
<1>2. WorkInv => Work!OnlyApprovedIsPosted
  BY <1>1 DEF Work!OnlyApprovedIsPosted
<1> QED BY <1>2, WorkIsSound, PTL

\* A group is reported as succeeded only when this execution started a build of
\* every target and all of them ended with SUCCESS, and when no revision was
\* expected that nobody could verify (external.go, release.go).
THEOREM SuccessMeansEveryBuild ==
  ASSUME Slots \in Nat
  PROVE  WorkSpec => []Work!SuccessIsEveryTarget
<1>1. WorkInv => Work!SuccessIsEveryTarget
  BY DEF WorkInv, WorkCall, WorkEnded, Posted, Work!SuccessIsEveryTarget
<1> QED BY <1>1, WorkIsSound, PTL

-----------------------------------------------------------------------------
(* Cleanup: the row that was reviewed is the row that was found again after  *)
(* the admission, and a commit loses a branch only to a remote or a newer    *)
(* commit that contains it.                                                  *)

Clean == INSTANCE Cleanup

CleanupSpec == Clean!CleanupInit /\ [][Clean!CleanupNext]_vars

CleanupCall(c, rows) ==
  /\ c = [at |-> c.at] \/ c = [at |-> "finish", status |-> c.status]
  /\ c.at \in {"rescan", "recheck", "remove", "branch"} => rows.leased /\ rows.approved
  /\ c.at \in {"remove", "branch"} =>
       rows.plan.merged /\ rows.row = rows.plan.row /\ rows.row.head \in Merged
\* The worktree and its branches, beside the commits that were made.
KeptByRefs(commits, w) == \A c \in commits : c \in w.pushed \/ \E b \in Branches : w.refs[b] = c
CleanupWorld(w, commits) ==
  /\ w = [branch |-> w.branch, refs |-> w.refs, dirty |-> w.dirty, locked |-> w.locked,
          pushed |-> w.pushed, answers |-> w.answers]
  /\ w.branch \in Branches \cup {None} /\ w.refs = [b \in Branches |-> w.refs[b]]
  /\ KeptByRefs(commits, w)
CleanupInv ==
  /\ store = [row |-> store.row, plan |-> store.plan, approved |-> store.approved,
              leased |-> store.leased, result |-> store.result]
  /\ CleanupCall(calls, store)
  /\ CleanupWorld(world, history.commits)
  /\ history = [commits |-> history.commits, removed |-> history.removed]
  /\ \A facts \in history.removed : ~facts.dirty /\ ~facts.locked

LEMMA CleanupInitially == Clean!CleanupInit => CleanupInv
<1> SUFFICES ASSUME Clean!CleanupInit PROVE CleanupInv
  OBVIOUS
<1>1. /\ world \in [branch : Branches, refs : [Branches -> Commits], dirty : BOOLEAN, locked : BOOLEAN,
                    pushed : SUBSET Commits, answers : {TRUE}]
      /\ history = [commits |-> {world.refs[b] : b \in Branches}, removed |-> {}]
      /\ calls = [at |-> "idle"]
      /\ store = [row |-> None, plan |-> None, approved |-> FALSE, leased |-> FALSE, result |-> None]
  BY DEF Clean!CleanupInit
<1>2. CleanupWorld(world, history.commits)
  BY <1>1 DEF CleanupWorld, KeptByRefs
<1> QED BY <1>1, <1>2 DEF CleanupInv, CleanupCall

\* The steps that only read, scan, plan, approve or end.
LEMMA CleanupHandlerStep ==
  ASSUME CleanupInv,
         \/ Clean!PlanScan \/ Clean!PlanCandidate \/ Clean!Approve \/ Clean!ExecuteScan \/ Clean!ReadPlan
         \/ Clean!Admit \/ Clean!Rescan \/ Clean!RemoveFails \/ Clean!DeleteFails \/ Clean!Postcheck
         \/ Clean!SaveResult \/ Clean!ReleaseLease \/ Clean!Die
  PROVE  CleanupInv'
<1> USE DEF CleanupInv
<1>1. CASE Clean!PlanScan \/ Clean!ExecuteScan
  BY <1>1 DEF Clean!PlanScan, Clean!ExecuteScan, Clean!Scanned, Clean!To, Clean!Kept, CleanupCall
<1>2. CASE Clean!PlanCandidate
  BY <1>2 DEF Clean!PlanCandidate, Clean!To, Clean!Kept, CleanupCall
<1>3. CASE Clean!Approve
  BY <1>3 DEF Clean!Approve, Clean!Kept, CleanupCall
<1>4. CASE Clean!ReadPlan
  BY <1>4 DEF Clean!ReadPlan, Clean!To, Clean!Kept, CleanupCall
<1>5. CASE Clean!Admit
  BY <1>5 DEF Clean!Admit, Clean!To, Clean!Kept, CleanupCall
<1>6. CASE Clean!Rescan
  BY <1>6 DEF Clean!Rescan, Clean!To, Clean!Finish, Clean!Kept, CleanupCall
<1>7. CASE Clean!RemoveFails \/ Clean!DeleteFails
  BY <1>7 DEF Clean!RemoveFails, Clean!DeleteFails, Clean!Finish, Clean!Kept, CleanupCall
<1>8. CASE Clean!Postcheck
  BY <1>8 DEF Clean!Postcheck, Clean!Finish, Clean!Kept, CleanupCall
<1>9. CASE Clean!SaveResult \/ Clean!ReleaseLease \/ Clean!Die
  BY <1>9 DEF Clean!SaveResult, Clean!ReleaseLease, Clean!Die, Clean!Kept, CleanupCall
<1> QED BY <1>1, <1>2, <1>3, <1>4, <1>5, <1>6, <1>7, <1>8, <1>9

\* The candidate is found again, then worktree and branch go.
LEMMA CleanupRemovalStep ==
  ASSUME CleanupInv, Clean!Recheck \/ Clean!RemoveWorktree \/ Clean!DeleteBranch
  PROVE  CleanupInv'
<1> USE DEF CleanupInv
<1>1. CASE Clean!Recheck
  <2>1. Clean!PlanIsCurrent /\ Clean!Reviewable(store.row) =>
          store.plan.merged /\ store.row = store.plan.row /\ store.row.head \in Merged
    <3>1. Clean!PlanIsCurrent => store.plan.merged = Clean!Reviewable(store.row) /\ store.plan.row = store.row
      BY DEF Clean!PlanIsCurrent, Clean!Candidate
    <3>2. Clean!Reviewable(store.row) => store.row.head \in Merged
      BY DEF Clean!Reviewable, Clean!IsMerged
    <3> QED BY <3>1, <3>2
  <2> QED BY <1>1, <2>1 DEF Clean!Recheck, Clean!To, Clean!Finish, Clean!Kept, CleanupCall
<1>2. CASE Clean!RemoveWorktree
  <2>1. /\ calls.at = "remove" /\ calls' = [at |-> "branch"] /\ UNCHANGED store
        /\ world' = [branch |-> None, refs |-> world.refs, dirty |-> world.dirty, locked |-> world.locked,
                     pushed |-> world.pushed, answers |-> world.answers]
        /\ history' = [commits |-> history.commits, removed |-> history.removed \cup {Clean!Facts(world)}]
        /\ ~world.dirty /\ ~world.locked
    <3>1. /\ calls.at = "remove" /\ calls' = [calls EXCEPT !.at = "branch"] /\ UNCHANGED store
          /\ world' = [world EXCEPT !.branch = None]
          /\ history' = [history EXCEPT !.removed = @ \cup {Clean!Facts(world)}]
          /\ ~world.dirty /\ ~world.locked
      BY <1>2 DEF Clean!RemoveWorktree, Clean!To
    <3>2. calls' = [at |-> "branch"]
      BY <3>1 DEF CleanupCall
    <3>3. world' = [branch |-> None, refs |-> world.refs, dirty |-> world.dirty, locked |-> world.locked,
                    pushed |-> world.pushed, answers |-> world.answers]
      BY <3>1 DEF CleanupWorld
    <3> QED BY <3>1, <3>2, <3>3
  <2>2. ~Clean!Facts(world).dirty /\ ~Clean!Facts(world).locked
    BY <2>1 DEF Clean!Facts
  <2>3. CleanupWorld(world', history'.commits)
    BY <2>1 DEF CleanupWorld, KeptByRefs
  <2> QED BY <2>1, <2>2, <2>3 DEF CleanupCall
<1>3. CASE Clean!DeleteBranch
  <2>1. /\ calls.at = "branch" /\ calls' = [at |-> "postcheck"] /\ UNCHANGED <<store, history>>
        /\ world' = [branch |-> world.branch, refs |-> [world.refs EXCEPT ![Clean!Planned] = None], dirty |-> world.dirty,
                     locked |-> world.locked, pushed |-> world.pushed, answers |-> world.answers]
        /\ world.refs[Clean!Planned] \in world.pushed
    BY <1>3 DEF Clean!DeleteBranch, Clean!To, CleanupCall, CleanupWorld
  <2>2. /\ world'.refs = [b \in Branches |-> world'.refs[b]]
        /\ \A b \in Branches : b # Clean!Planned => world'.refs[b] = world.refs[b]
    BY <2>1 DEF CleanupWorld
  <2>3. CleanupWorld(world', history.commits)
    BY <2>1, <2>2 DEF CleanupWorld, KeptByRefs
  <2> QED BY <2>1, <2>3 DEF CleanupCall
<1> QED BY <1>1, <1>2, <1>3

\* What users do: a commit replaces the one it contains, the others stay.
LEMMA CleanupWorldStep ==
  ASSUME CleanupInv,
         \/ Clean!Edit \/ Clean!CommitWork \/ Clean!Push \/ Clean!LockWorktree \/ Clean!GitHubAnswers
         \/ \E b \in Branches : Clean!Checkout(b)
  PROVE  CleanupInv'
<1> USE DEF CleanupInv
<1>1. CASE Clean!CommitWork
  <2>1. world.branch \in Branches /\ world.refs = [b \in Branches |-> world.refs[b]]
    BY <1>1 DEF Clean!CommitWork, Clean!Present, CleanupWorld
  <2>2. PICK c :
          /\ world' = [world EXCEPT !.refs[world.branch] = c, !.dirty = FALSE]
          /\ history' = [history EXCEPT !.commits = (@ \ {world.refs[world.branch]}) \cup {c}]
          /\ UNCHANGED <<store, calls>>
    BY <1>1 DEF Clean!CommitWork, Clean!Change
  <2>3. /\ world' = [branch |-> world.branch, refs |-> [world.refs EXCEPT ![world.branch] = c], dirty |-> FALSE,
                     locked |-> world.locked, pushed |-> world.pushed, answers |-> world.answers]
        /\ history' = [commits |-> (history.commits \ {world.refs[world.branch]}) \cup {c}, removed |-> history.removed]
    BY <2>2 DEF CleanupWorld
  <2>4. /\ world'.refs = [b \in Branches |-> world'.refs[b]] /\ world'.refs[world.branch] = c
        /\ \A b \in Branches : b # world.branch => world'.refs[b] = world.refs[b]
    BY <2>1, <2>3
  <2>5. KeptByRefs(history'.commits, world')
    BY <2>1, <2>3, <2>4 DEF CleanupWorld, KeptByRefs
  <2> QED BY <2>2, <2>3, <2>4, <2>5 DEF CleanupCall, CleanupWorld
<1>2. CASE \/ Clean!Edit \/ Clean!Push \/ Clean!LockWorktree \/ Clean!GitHubAnswers
           \/ \E b \in Branches : Clean!Checkout(b)
  <2>1. /\ UNCHANGED <<store, calls, history>>
        /\ world' = [branch |-> world'.branch, refs |-> world.refs, dirty |-> world'.dirty, locked |-> world'.locked,
                     pushed |-> world'.pushed, answers |-> world'.answers]
        /\ world.pushed \subseteq world'.pushed /\ world'.branch \in Branches \cup {None}
    BY <1>2 DEF Clean!Edit, Clean!Push, Clean!LockWorktree, Clean!GitHubAnswers, Clean!Checkout, Clean!Change,
                CleanupWorld
  <2>2. CleanupWorld(world', history.commits)
    BY <2>1 DEF CleanupWorld, KeptByRefs
  <2> QED BY <2>1, <2>2 DEF CleanupCall
<1> QED BY <1>1, <1>2

LEMMA CleanupIsSound == CleanupSpec => []CleanupInv
<1>1. CleanupInv /\ [Clean!CleanupNext]_vars => CleanupInv'
  <2>1. CleanupInv /\ UNCHANGED vars => CleanupInv'
    BY DEF CleanupInv, vars
  <2> QED BY <2>1, CleanupHandlerStep, CleanupRemovalStep, CleanupWorldStep DEF Clean!CleanupNext
<1> QED BY <1>1, CleanupInitially, PTL DEF CleanupSpec

\* Whatever is committed, checked out or pushed meanwhile, every commit stays on
\* a branch or a remote, and no worktree goes with changes in it (cleanup.go).
THEOREM CleanupLosesNoWork == CleanupSpec => []Clean!NoWorkIsLost
<1>1. CleanupInv => Clean!NoWorkIsLost
  BY DEF CleanupInv, CleanupWorld, KeptByRefs, Clean!NoWorkIsLost
<1> QED BY <1>1, CleanupIsSound, PTL

\* Worktree and branch go only under the lease of an approved plan whose merged
\* candidate was found again after the admission (ExecuteCleanup, cleanup.go).
THEOREM OnlyReviewedIsRemoved == CleanupSpec => []Clean!RemovalIsReviewed
<1>1. CleanupInv => Clean!RemovalIsReviewed
  BY DEF CleanupInv, CleanupCall, Clean!RemovalIsReviewed
<1> QED BY <1>1, CleanupIsSound, PTL

-----------------------------------------------------------------------------
(* InspectionFlow: what a revision stands for.  A handler keeps a row that  *)
(* it has read; the row has gone on since, or is still the very same.       *)

Flow == INSTANCE InspectionFlow

FlowPlan(p) ==
  /\ p = [checks |-> p.checks, head |-> p.head, tools |-> p.tools, state |-> p.state,
          revision |-> p.revision]
  /\ p.revision \in Nat
\* A plan row as it was read, beside the row as it is.
ReadPlan(plans, id, p) ==
  /\ id \in Flow!Ids /\ FlowPlan(p) /\ FlowPlan(plans[id])
  /\ p.revision <= plans[id].revision
  /\ p.revision = plans[id].revision => p = plans[id]
\* A proposal, made for a row of its plan that was read.
FlowItem(plans, i) ==
  /\ i = [id |-> i.id, plan |-> i.plan, base |-> i.base, head |-> i.head, tools |-> i.tools,
          changes |-> i.changes, state |-> i.state, revision |-> i.revision]
  /\ i.revision \in Nat /\ ReadPlan(plans, i.plan, i.base)
\* A proposal as it was read, beside the stored one.
ReadItem(plans, items, i) ==
  /\ FlowItem(plans, i)
  /\ \E s \in items : /\ s.id = i.id /\ i.revision <= s.revision
                      /\ i.revision = s.revision => i = s
\* A score of a plan that has a row, for an approved revision.
FlowScore(plans, approved, s) ==
  /\ s.plan \in Flow!Ids /\ FlowPlan(plans[s.plan])
  /\ <<s.plan, s.revision, s.checks>> \in approved

\* What a handler knows at each of its places.
FlowCall(plans, items, approved, c) ==
  /\ c.at \in {"idle", "asking", "lookup", "insert", "generated", "decide", "evidence", "stale", "checks",
               "score", "artifact", "propose", "judge", "base", "fresh", "outdated", "apply"}
  /\ c.at = "idle" => c = [at |-> "idle"]
  /\ c.at = "asking" => c = [at |-> c.at, asked |-> c.asked, evidence |-> c.evidence, checks |-> c.checks]
  /\ c.at \in {"lookup", "insert", "generated"} =>
       c = [at |-> c.at, id |-> c.id, evidence |-> c.evidence, plan |-> c.plan]
  /\ c.at \in {"lookup", "insert"} => FlowPlan(c.plan) /\ c.plan.state = "proposed"
  /\ c.at = "decide" =>
       /\ c = [at |-> c.at, id |-> c.id, plan |-> c.plan, decision |-> c.decision]
       /\ ReadPlan(plans, c.id, c.plan) /\ c.decision \in Flow!Decisions(c.plan.state)
  /\ c.at \in {"evidence", "stale", "checks"} =>
       /\ c = [at |-> c.at, id |-> c.id, plan |-> c.plan]
       /\ ReadPlan(plans, c.id, c.plan) /\ c.plan.state = "approved"
       /\ <<c.id, c.plan.revision, c.plan.checks>> \in approved
  /\ c.at \in {"score", "artifact"} =>
       c = [at |-> c.at, results |-> c.results, score |-> c.score] /\ FlowScore(plans, approved, c.score)
  /\ c.at = "propose" => c = [at |-> c.at, item |-> c.item] /\ FlowItem(plans, c.item)
  /\ c.at = "judge" =>
       /\ c = [at |-> c.at, item |-> c.item, decision |-> c.decision]
       /\ ReadItem(plans, items, c.item) /\ c.decision \in Flow!Decisions(c.item.state)
  /\ c.at \in {"base", "fresh", "outdated"} =>
       c = [at |-> c.at, item |-> c.item] /\ ReadItem(plans, items, c.item) /\ c.item.state = "approved"
  /\ c.at = "apply" =>
       /\ c = [at |-> c.at, item |-> c.item, next |-> c.next]
       /\ ReadItem(plans, items, c.item) /\ c.item.state = "approved"
       /\ FlowPlan(c.next) /\ c.next.state = "proposed" /\ c.next.revision = c.item.base.revision + 1

FlowStore(rows, approved) ==
  /\ rows = [plans |-> rows.plans, proposals |-> rows.proposals, scores |-> rows.scores,
             artifacts |-> rows.artifacts]
  /\ rows.plans = [id \in Flow!Ids |-> rows.plans[id]]
  /\ \A id \in Flow!Ids : rows.plans[id] # None =>
       /\ FlowPlan(rows.plans[id])
       /\ rows.plans[id].state = "approved" =>
            <<id, rows.plans[id].revision, rows.plans[id].checks>> \in approved
  /\ \A i \in rows.proposals : FlowItem(rows.plans, i)
  /\ \A i, j \in rows.proposals : i.id = j.id => i = j
  /\ \A s \in rows.scores : FlowScore(rows.plans, approved, s)
  /\ \A a \in rows.artifacts : FlowScore(rows.plans, approved, a.score)

FlowInv ==
  /\ FlowStore(store, history.approved)
  /\ history = [approved |-> history.approved, applied |-> history.applied]
  /\ DOMAIN calls = Users
  /\ \A u \in Users : FlowCall(store.plans, store.proposals, history.approved, calls[u])


\* None is told apart from a plan.
FlowConstants == ~FlowPlan(None)

\* Rows that only go on: a plan stays or gets a later revision, and so does an item.
PlansGrow(old, new) ==
  \A id \in Flow!Ids : FlowPlan(old[id]) =>
    FlowPlan(new[id]) /\ (new[id] = old[id] \/ new[id].revision > old[id].revision)
ItemsGrow(old, new) ==
  \A s \in old : s.revision \in Nat =>
    \E t \in new : t.id = s.id /\ t.revision \in Nat /\ (t = s \/ t.revision > s.revision)

LEMMA ReadsStay ==
  ASSUME NEW old, NEW new, PlansGrow(old, new)
  PROVE  /\ \A id, p : ReadPlan(old, id, p) => ReadPlan(new, id, p)
         /\ \A i : FlowItem(old, i) => FlowItem(new, i)
<1>1. ASSUME NEW id, NEW p, ReadPlan(old, id, p)
      PROVE  ReadPlan(new, id, p)
  <2>1. /\ id \in Flow!Ids /\ FlowPlan(p) /\ FlowPlan(old[id]) /\ p.revision <= old[id].revision
        /\ p.revision = old[id].revision => p = old[id]
    BY <1>1 DEF ReadPlan
  <2>2. FlowPlan(new[id]) /\ (new[id] = old[id] \/ new[id].revision > old[id].revision)
    BY <2>1 DEF PlansGrow
  <2>3. p.revision \in Nat /\ old[id].revision \in Nat /\ new[id].revision \in Nat
    BY <2>1, <2>2 DEF FlowPlan
  <2> QED BY <2>1, <2>2, <2>3 DEF ReadPlan
<1> QED BY <1>1 DEF FlowItem

LEMMA ItemsStay ==
  ASSUME NEW plans, NEW later, PlansGrow(plans, later), NEW old, NEW new, ItemsGrow(old, new),
         \A s \in old : s.revision \in Nat, NEW i, ReadItem(plans, old, i)
  PROVE  ReadItem(later, new, i)
<1>1. FlowItem(later, i) /\ i.revision \in Nat
  BY ReadsStay DEF ReadItem, FlowItem
<1>2. PICK s \in old : s.id = i.id /\ i.revision <= s.revision /\ (i.revision = s.revision => i = s)
  BY DEF ReadItem
<1>3. PICK t \in new : t.id = s.id /\ t.revision \in Nat /\ (t = s \/ t.revision > s.revision)
  BY <1>2 DEF ItemsGrow
<1>4. t.id = i.id /\ i.revision <= t.revision /\ (i.revision = t.revision => i = t)
  BY <1>1, <1>2, <1>3
<1> QED BY <1>1, <1>3, <1>4 DEF ReadItem

LEMMA ScoresStay ==
  ASSUME NEW old, NEW new, PlansGrow(old, new), NEW approved, NEW more, approved \subseteq more,
         NEW s, FlowScore(old, approved, s)
  PROVE  FlowScore(new, more, s)
BY DEF FlowScore, PlansGrow

\* What a handler knows stays true while others go on.
LEMMA CallsStay ==
  ASSUME NEW plans, NEW later, PlansGrow(plans, later), NEW old, NEW new, ItemsGrow(old, new),
         \A s \in old : s.revision \in Nat,
         NEW approved, NEW more, approved \subseteq more, NEW c, FlowCall(plans, old, approved, c)
  PROVE  FlowCall(later, new, more, c)
<1>1. /\ \A id, p : ReadPlan(plans, id, p) => ReadPlan(later, id, p)
      /\ \A i : FlowItem(plans, i) => FlowItem(later, i)
      /\ \A i : ReadItem(plans, old, i) => ReadItem(later, new, i)
      /\ \A s : FlowScore(plans, approved, s) => FlowScore(later, more, s)
  BY ReadsStay, ItemsStay, ScoresStay
<1> QED BY <1>1 DEF FlowCall

FlowChange == Flow!ChecksChangeByProposal /\ Flow!PlanRevisionsAreTaken /\ Flow!ItemRevisionsAreTaken

\* A step that stores nothing.
LEMMA FlowReads ==
  ASSUME FlowInv, NEW u \in Users, NEW c, UNCHANGED <<store, history>>,
         calls' = [calls EXCEPT ![u] = c],
         FlowCall(store.plans, store.proposals, history.approved, c)
  PROVE  FlowInv' /\ FlowChange
<1>1. DOMAIN calls' = Users /\ calls'[u] = c /\ \A v \in Users : v # u => calls'[v] = calls[v]
  BY DEF FlowInv
<1>2. \A v \in Users : FlowCall(store.plans, store.proposals, history.approved, calls'[v])
  BY <1>1 DEF FlowInv
<1>3. FlowInv'
  BY <1>1, <1>2 DEF FlowInv
<1>4. \A i, j \in store.proposals : i.id = j.id => i = j
  BY DEF FlowInv, FlowStore
<1>5. FlowChange
  BY <1>4 DEF FlowChange, Flow!ChecksChangeByProposal, Flow!PlanRevisionsAreTaken, Flow!ItemRevisionsAreTaken
<1> QED BY <1>3, <1>5

\* A step that stores rows, and the handler goes on or ends.
LEMMA FlowWrites ==
  ASSUME FlowInv, NEW u \in Users, NEW c,
         FlowStore(store', history'.approved),
         history' = [approved |-> history'.approved, applied |-> history'.applied],
         history.approved \subseteq history'.approved,
         PlansGrow(store.plans, store'.plans), ItemsGrow(store.proposals, store'.proposals),
         calls' = [calls EXCEPT ![u] = c],
         FlowCall(store'.plans, store'.proposals, history'.approved, c)
  PROVE  FlowInv'
<1>1. DOMAIN calls' = Users /\ calls'[u] = c /\ \A v \in Users : v # u => calls'[v] = calls[v]
  BY DEF FlowInv
<1>2. \A s \in store.proposals : s.revision \in Nat
  BY DEF FlowInv, FlowStore, FlowItem
<1>3. \A v \in Users : FlowCall(store.plans, store.proposals, history.approved, calls[v])
  BY DEF FlowInv
<1>4. \A v \in Users : FlowCall(store'.plans, store'.proposals, history'.approved, calls[v])
  BY <1>2, <1>3, CallsStay
<1>5. \A v \in Users : FlowCall(store'.plans, store'.proposals, history'.approved, calls'[v])
  BY <1>1, <1>4
<1> QED BY <1>1, <1>5 DEF FlowInv

\* A plan is stored under a free id or as the next revision of its row.
LEMMA PlanIsSet ==
  ASSUME FlowConstants, FlowInv, NEW id \in Flow!Ids, NEW plan, FlowPlan(plan),
         \/ store.plans[id] = None
         \/ FlowPlan(store.plans[id]) /\ plan.revision > store.plans[id].revision,
         history.approved \subseteq history'.approved,
         plan.state = "approved" => <<id, plan.revision, plan.checks>> \in history'.approved,
         store' = [store EXCEPT !.plans = Flow!SetPlan(@, id, plan)]
  PROVE  /\ FlowStore(store', history'.approved) /\ PlansGrow(store.plans, store'.plans)
         /\ store'.plans[id] = plan /\ \A x \in Flow!Ids : x # id => store'.plans[x] = store.plans[x]
         /\ store'.proposals = store.proposals /\ store'.scores = store.scores /\ store'.artifacts = store.artifacts
<1>1. /\ store = [plans |-> store.plans, proposals |-> store.proposals, scores |-> store.scores,
                  artifacts |-> store.artifacts]
      /\ store.plans = [x \in Flow!Ids |-> store.plans[x]]
  BY DEF FlowInv, FlowStore
<1>2. store' = [plans |-> [store.plans EXCEPT ![id] = plan], proposals |-> store.proposals,
              scores |-> store.scores, artifacts |-> store.artifacts]
  BY <1>1 DEF Flow!SetPlan
<1>3. /\ store'.plans = [x \in Flow!Ids |-> store'.plans[x]] /\ store'.plans[id] = plan
      /\ \A x \in Flow!Ids : x # id => store'.plans[x] = store.plans[x]
  BY <1>1, <1>2
<1>4. PlansGrow(store.plans, store'.plans)
  BY <1>3 DEF PlansGrow, FlowConstants
<1>5. \A x \in Flow!Ids : store'.plans[x] # None =>
        /\ FlowPlan(store'.plans[x])
        /\ store'.plans[x].state = "approved" => <<x, store'.plans[x].revision, store'.plans[x].checks>> \in history'.approved
  BY <1>3 DEF FlowInv, FlowStore
<1>6. /\ \A i \in store.proposals : FlowItem(store'.plans, i)
      /\ \A s \in store.scores : FlowScore(store'.plans, history'.approved, s)
      /\ \A a \in store.artifacts : FlowScore(store'.plans, history'.approved, a.score)
  BY <1>4, ReadsStay, ScoresStay DEF FlowInv, FlowStore
<1>7. FlowStore(store', history'.approved)
  BY <1>2, <1>3, <1>5, <1>6 DEF FlowInv, FlowStore
<1> QED BY <1>2, <1>3, <1>4, <1>7

\* The row that was read, when it has still its revision.
LEMMA PlanIsTheRow ==
  ASSUME NEW id, NEW plan, ReadPlan(store.plans, id, plan), Flow!PlanIs(id, plan)
  PROVE  plan = store.plans[id] /\ FlowPlan(plan) /\ id \in Flow!Ids
BY DEF ReadPlan, Flow!PlanIs

LEMMA RaisedPlan ==
  ASSUME NEW plan, FlowPlan(plan), NEW state
  PROVE  /\ FlowPlan(Flow!Raised(plan, state))
         /\ Flow!Raised(plan, state) = [checks |-> plan.checks, head |-> plan.head, tools |-> plan.tools,
                                        state |-> state, revision |-> plan.revision + 1]
<1>1. Flow!Raised(plan, state) = [checks |-> plan.checks, head |-> plan.head, tools |-> plan.tools,
                                  state |-> state, revision |-> plan.revision + 1]
  <2>1. [plan EXCEPT !.state = state] = [checks |-> plan.checks, head |-> plan.head, tools |-> plan.tools,
                                         state |-> state, revision |-> plan.revision]
    BY DEF FlowPlan
  <2>2. Flow!Raised(plan, state) = [[plan EXCEPT !.state = state] EXCEPT !.revision = @ + 1]
    BY DEF Flow!Raised
  <2> QED BY <2>1, <2>2
<1> QED BY <1>1 DEF FlowPlan

\* The revision of the row goes up by one and its checks stay.
LEMMA PlanIsRaised ==
  ASSUME FlowConstants, FlowInv, NEW u \in Users, NEW id, NEW plan, NEW state,
         ReadPlan(store.plans, id, plan), Flow!PlanIs(id, plan), plan.state \notin {"rejected", "stale"},
         store' = [store EXCEPT !.plans = Flow!SetPlan(@, id, Flow!Raised(plan, state))],
         history' = [approved |-> history'.approved, applied |-> history'.applied],
         history.approved \subseteq history'.approved,
         state = "approved" => <<id, plan.revision + 1, plan.checks>> \in history'.approved,
         calls' = [calls EXCEPT ![u] = Flow!Idle]
  PROVE  FlowInv' /\ FlowChange
<1>1. plan = store.plans[id] /\ FlowPlan(plan) /\ id \in Flow!Ids
  BY PlanIsTheRow
<1> DEFINE next == Flow!Raised(plan, state)
<1>2. /\ FlowPlan(next) /\ next.checks = plan.checks /\ next.state = state /\ next.revision = plan.revision + 1
      /\ plan.revision \in Nat
  BY <1>1, RaisedPlan DEF FlowPlan
<1> HIDE DEF next
<1>3. next.revision > plan.revision
  BY <1>2
<1>4. store' = [store EXCEPT !.plans = Flow!SetPlan(@, id, next)]
  BY DEF next
<1>5. /\ FlowStore(store', history'.approved) /\ PlansGrow(store.plans, store'.plans)
      /\ store'.plans[id] = next /\ \A x \in Flow!Ids : x # id => store'.plans[x] = store.plans[x]
      /\ store'.proposals = store.proposals
  <2>1. FlowPlan(store.plans[id]) /\ next.revision > store.plans[id].revision
    BY <1>1, <1>3
  <2>2. next.state = "approved" => <<id, next.revision, next.checks>> \in history'.approved
    BY <1>2
  <2> QED BY <1>1, <1>2, <1>4, <2>1, <2>2, PlanIsSet
<1>6. ItemsGrow(store.proposals, store'.proposals)
  BY <1>5 DEF ItemsGrow
<1>7. FlowCall(store'.plans, store'.proposals, history'.approved, Flow!Idle)
  BY DEF FlowCall, Flow!Idle
<1>8. FlowInv'
  BY <1>5, <1>6, <1>7, FlowWrites
<1>9. \A i, j \in store.proposals : i.id = j.id => i = j
  BY DEF FlowInv, FlowStore
<1>10. Flow!ChecksChangeByProposal /\ Flow!PlanRevisionsAreTaken
  BY <1>1, <1>2, <1>5 DEF Flow!ChecksChangeByProposal, Flow!PlanRevisionsAreTaken
<1>11. Flow!ItemRevisionsAreTaken
  BY <1>5, <1>9 DEF Flow!ItemRevisionsAreTaken
<1> QED BY <1>8, <1>10, <1>11 DEF FlowChange

LEMMA FlowInsertPlan ==
  ASSUME FlowConstants, FlowInv, NEW u \in Users, Flow!InsertPlan(u)
  PROVE  FlowInv' /\ FlowChange
<1> DEFINE c == calls[u]
<1>1. /\ c = [at |-> "insert", id |-> c.id, evidence |-> c.evidence, plan |-> c.plan]
      /\ FlowPlan(c.plan) /\ c.plan.state = "proposed" /\ UNCHANGED history
  BY DEF FlowInv, FlowCall, Flow!InsertPlan
<1>2. CASE store.plans[c.id] = None /\ c.id \in Flow!Ids
  <2>1. /\ store' = [store EXCEPT !.plans[c.id] = c.plan]
        /\ calls' = [calls EXCEPT ![u].at = "generated"]
    BY <1>2 DEF Flow!InsertPlan
  <2>2. store' = [store EXCEPT !.plans = Flow!SetPlan(@, c.id, c.plan)]
    BY <2>1 DEF Flow!SetPlan
  <2>3. /\ FlowStore(store', history'.approved) /\ PlansGrow(store.plans, store'.plans)
        /\ \A x \in Flow!Ids : x # c.id => store'.plans[x] = store.plans[x]
        /\ store'.proposals = store.proposals
    BY <1>1, <1>2, <2>2, PlanIsSet
  <2>4. calls' = [calls EXCEPT ![u] = [at |-> "generated", id |-> c.id, evidence |-> c.evidence, plan |-> c.plan]]
    <3>1. [c EXCEPT !.at = "generated"] = [at |-> "generated", id |-> c.id, evidence |-> c.evidence, plan |-> c.plan]
      BY <1>1
    <3> QED BY <3>1, <2>1
  <2>5. FlowCall(store'.plans, store'.proposals, history'.approved,
                 [at |-> "generated", id |-> c.id, evidence |-> c.evidence, plan |-> c.plan])
    BY DEF FlowCall
  <2>6. ItemsGrow(store.proposals, store'.proposals)
    BY <2>3 DEF ItemsGrow
  <2>7. FlowInv'
    BY <1>1, <2>3, <2>4, <2>5, <2>6, FlowWrites DEF FlowInv
  <2>8. \A i, j \in store.proposals : i.id = j.id => i = j
    BY DEF FlowInv, FlowStore
  <2> QED BY <1>2, <2>3, <2>7, <2>8
          DEF FlowChange, Flow!ChecksChangeByProposal, Flow!PlanRevisionsAreTaken, Flow!ItemRevisionsAreTaken
<1>3. CASE store.plans[c.id] = None /\ c.id \notin Flow!Ids
  <2>1. /\ store' = [store EXCEPT !.plans[c.id] = c.plan]
        /\ calls' = [calls EXCEPT ![u].at = "generated"]
    BY <1>3 DEF Flow!InsertPlan
  <2>2. [store.plans EXCEPT ![c.id] = c.plan] = store.plans
    BY <1>3 DEF FlowInv, FlowStore
  <2>3. UNCHANGED store
    BY <2>1, <2>2 DEF FlowInv, FlowStore
  <2>4. calls' = [calls EXCEPT ![u] = [at |-> "generated", id |-> c.id, evidence |-> c.evidence, plan |-> c.plan]]
    <3>1. [c EXCEPT !.at = "generated"] = [at |-> "generated", id |-> c.id, evidence |-> c.evidence, plan |-> c.plan]
      BY <1>1
    <3> QED BY <3>1, <2>1
  <2>5. FlowCall(store.plans, store.proposals, history.approved,
                 [at |-> "generated", id |-> c.id, evidence |-> c.evidence, plan |-> c.plan])
    BY DEF FlowCall
  <2> QED BY <1>1, <2>3, <2>4, <2>5, FlowReads
<1>4. CASE store.plans[c.id] # None
  <2>1. UNCHANGED store /\ calls' = [calls EXCEPT ![u] = Flow!Idle]
    BY <1>4 DEF Flow!InsertPlan, Flow!ToIdle
  <2> QED BY <1>1, <2>1, FlowReads DEF FlowCall, Flow!Idle
<1> QED BY <1>2, <1>3, <1>4

LEMMA FlowDecide ==
  ASSUME FlowConstants, FlowInv, NEW u \in Users, Flow!DecidePlan(u) \/ Flow!MarkStale(u)
  PROVE  FlowInv' /\ FlowChange
<1> DEFINE c == calls[u]
<1>1. calls' = [calls EXCEPT ![u] = Flow!Idle] /\ ReadPlan(store.plans, c.id, c.plan)
  BY DEF FlowInv, FlowCall, Flow!DecidePlan, Flow!MarkStale, Flow!ToIdle
<1>2. CASE ~Flow!PlanIs(c.id, c.plan)
  <2>1. UNCHANGED <<store, history>>
    BY <1>2 DEF Flow!DecidePlan, Flow!MarkStale
  <2> QED BY <1>1, <2>1, FlowReads DEF FlowCall, Flow!Idle
<1>3. CASE Flow!PlanIs(c.id, c.plan) /\ Flow!DecidePlan(u)
  <2>1. /\ store' = [store EXCEPT !.plans = Flow!SetPlan(@, c.id, Flow!Raised(c.plan, c.decision))]
        /\ c.decision \in Flow!Decisions(c.plan.state)
        /\ IF c.decision # "approved" THEN UNCHANGED history
           ELSE history' = [history EXCEPT !.approved = @ \cup {<<c.id, c.plan.revision + 1, c.plan.checks>>}]
    BY <1>3 DEF FlowInv, FlowCall, Flow!DecidePlan
  <2>2. c.plan.state \notin {"rejected", "stale"}
    BY <2>1 DEF Flow!Decisions
  <2>3. /\ history' = [approved |-> history'.approved, applied |-> history'.applied]
        /\ history.approved \subseteq history'.approved
        /\ c.decision = "approved" => <<c.id, c.plan.revision + 1, c.plan.checks>> \in history'.approved
    BY <2>1 DEF FlowInv
  <2> HIDE DEF c
  <2> QED BY <1>1, <1>3, <2>1, <2>2, <2>3, PlanIsRaised
<1>4. CASE Flow!PlanIs(c.id, c.plan) /\ Flow!MarkStale(u)
  <2>1. /\ store' = [store EXCEPT !.plans = Flow!SetPlan(@, c.id, Flow!Raised(c.plan, "stale"))]
        /\ c.plan.state = "approved" /\ UNCHANGED history
    BY <1>4 DEF FlowInv, FlowCall, Flow!MarkStale
  <2>2. history = [approved |-> history.approved, applied |-> history.applied]
    BY DEF FlowInv
  <2> HIDE DEF c
  <2> QED BY <1>1, <1>4, <2>1, <2>2, PlanIsRaised
<1> QED BY <1>2, <1>3, <1>4

\* The stored proposal is the one that was read, when it has still its revision.
LEMMA ItemIsTheRow ==
  ASSUME FlowInv, NEW item, ReadItem(store.plans, store.proposals, item), Flow!ItemIs(item)
  PROVE  item \in store.proposals
<1>1. PICK s \in store.proposals : s.id = item.id /\ (item.revision = s.revision => item = s)
  BY DEF ReadItem
<1>2. PICK t \in store.proposals : t.id = item.id /\ t.revision = item.revision
  BY DEF Flow!ItemIs
<1>3. s = t
  BY <1>1, <1>2 DEF FlowInv, FlowStore
<1> QED BY <1>1, <1>2, <1>3

LEMMA RaisedItem ==
  ASSUME NEW plans, NEW item, FlowItem(plans, item), NEW state
  PROVE  /\ FlowItem(plans, Flow!Raised(item, state)) /\ item.revision \in Nat
         /\ Flow!Raised(item, state).id = item.id /\ Flow!Raised(item, state).state = state
         /\ Flow!Raised(item, state).revision = item.revision + 1
<1>1. Flow!Raised(item, state) =
        [id |-> item.id, plan |-> item.plan, base |-> item.base, head |-> item.head, tools |-> item.tools,
         changes |-> item.changes, state |-> state, revision |-> item.revision + 1]
  <2>1. [item EXCEPT !.state = state] =
          [id |-> item.id, plan |-> item.plan, base |-> item.base, head |-> item.head, tools |-> item.tools,
           changes |-> item.changes, state |-> state, revision |-> item.revision]
    BY DEF FlowItem
  <2>2. Flow!Raised(item, state) = [[item EXCEPT !.state = state] EXCEPT !.revision = @ + 1]
    BY DEF Flow!Raised
  <2> QED BY <2>1, <2>2
<1> QED BY <1>1 DEF FlowItem

\* A proposal goes on to its next revision; the others stay.
LEMMA ItemIsSet ==
  ASSUME FlowInv, NEW item \in store.proposals, NEW state, NEW next, next = Flow!Raised(item, state),
         NEW items, items = Flow!SetItem(store.proposals, next)
  PROVE  /\ ItemsGrow(store.proposals, items)
         /\ \A i \in items : FlowItem(store.plans, i)
         /\ \A i, j \in items : i.id = j.id => i = j
         /\ next \in items /\ next.id = item.id /\ next.state = state /\ next.revision = item.revision + 1
         /\ \A i \in store.proposals : \A now \in items :
              now.id = i.id /\ now # i => i = item /\ now = next
<1>1. /\ \A i \in store.proposals : FlowItem(store.plans, i)
      /\ \A i, j \in store.proposals : i.id = j.id => i = j
  BY DEF FlowInv, FlowStore
<1>2. /\ FlowItem(store.plans, next) /\ next.id = item.id /\ next.state = state
      /\ next.revision = item.revision + 1 /\ item.revision \in Nat
  BY <1>1, RaisedItem
<1>3. /\ next \in items
      /\ \A i : i \in items <=> i = next \/ (i \in store.proposals /\ i.id # item.id)
  BY <1>2 DEF Flow!SetItem
<1>4. ItemsGrow(store.proposals, items)
  <2> SUFFICES ASSUME NEW s \in store.proposals, s.revision \in Nat
               PROVE  \E t \in items : t.id = s.id /\ t.revision \in Nat /\ (t = s \/ t.revision > s.revision)
    BY DEF ItemsGrow
  <2>1. CASE s.id # item.id
    BY <2>1, <1>3
  <2>2. CASE s.id = item.id
    <3>1. s = item /\ next.revision > s.revision /\ next.revision \in Nat
      BY <2>2, <1>1, <1>2
    <3> QED BY <3>1, <1>2, <1>3
  <2> QED BY <2>1, <2>2
<1> QED BY <1>1, <1>2, <1>3, <1>4

\* What the update of a proposal leaves of the other rows.
LEMMA ItemIsUpdated ==
  ASSUME FlowInv, NEW u \in Users, NEW item, NEW state, ReadItem(store.plans, store.proposals, item),
         item.state \notin {"rejected", "stale", "applied"},
         Flow!UpdateItem(item, state), UNCHANGED history, calls' = [calls EXCEPT ![u] = Flow!Idle]
  PROVE  FlowInv' /\ FlowChange
<1>1. CASE ~Flow!ItemIs(item)
  <2>1. UNCHANGED store
    BY <1>1 DEF Flow!UpdateItem
  <2> QED BY <2>1, FlowReads DEF FlowCall, Flow!Idle
<1>2. CASE Flow!ItemIs(item)
  <2>1. item \in store.proposals
    BY <1>2, ItemIsTheRow
  <2>2. store = [plans |-> store.plans, proposals |-> store.proposals, scores |-> store.scores,
                 artifacts |-> store.artifacts]
    BY DEF FlowInv, FlowStore
  <2>3. store' = [plans |-> store.plans, proposals |-> Flow!SetItem(store.proposals, Flow!Raised(item, state)),
                  scores |-> store.scores, artifacts |-> store.artifacts]
    BY <1>2, <2>2 DEF Flow!UpdateItem
  <2> DEFINE next == Flow!Raised(item, state)
  <2>4. store'.proposals = Flow!SetItem(store.proposals, next)
    BY <2>3
  <2>5. /\ ItemsGrow(store.proposals, store'.proposals)
        /\ \A i \in store'.proposals : FlowItem(store.plans, i)
        /\ \A i, j \in store'.proposals : i.id = j.id => i = j
        /\ next.revision = item.revision + 1
        /\ \A i \in store.proposals : \A now \in store'.proposals :
             now.id = i.id /\ now # i => i = item /\ now = next
    BY <2>1, <2>4, ItemIsSet
  <2> HIDE DEF next
  <2>6. /\ store'.plans = store.plans /\ store'.scores = store.scores /\ store'.artifacts = store.artifacts
        /\ store' = [plans |-> store'.plans, proposals |-> store'.proposals, scores |-> store'.scores,
                     artifacts |-> store'.artifacts]
    BY <2>3
  <2>7. FlowStore(store', history'.approved)
    BY <2>5, <2>6 DEF FlowInv, FlowStore
  <2>8. PlansGrow(store.plans, store'.plans) /\ FlowCall(store'.plans, store'.proposals, history'.approved, Flow!Idle)
    BY <2>6 DEF PlansGrow, FlowCall, Flow!Idle
  <2>9. history' = [approved |-> history'.approved, applied |-> history'.applied]
        /\ history.approved \subseteq history'.approved
    BY DEF FlowInv
  <2>10. FlowInv'
    BY <2>5, <2>7, <2>8, <2>9, FlowWrites
  <2>11. FlowChange
    BY <2>5, <2>6 DEF FlowChange, Flow!ChecksChangeByProposal, Flow!PlanRevisionsAreTaken, Flow!ItemRevisionsAreTaken
  <2> QED BY <2>10, <2>11
<1> QED BY <1>1, <1>2

LEMMA FlowJudge ==
  ASSUME FlowInv, NEW u \in Users, Flow!JudgeItem(u) \/ Flow!Outdate(u)
  PROVE  FlowInv' /\ FlowChange
<1>1. UNCHANGED history /\ calls' = [calls EXCEPT ![u] = Flow!Idle]
      /\ ReadItem(store.plans, store.proposals, calls[u].item)
  BY DEF FlowInv, FlowCall, Flow!JudgeItem, Flow!Outdate, Flow!ToIdle
<1>2. CASE Flow!JudgeItem(u)
  <2>1. Flow!UpdateItem(calls[u].item, calls[u].decision) /\ calls[u].decision \in Flow!Decisions(calls[u].item.state)
    BY <1>2 DEF Flow!JudgeItem, FlowInv, FlowCall
  <2>2. calls[u].item.state \notin {"rejected", "stale", "applied"}
    BY <2>1 DEF Flow!Decisions
  <2> QED BY <1>1, <2>1, <2>2, ItemIsUpdated
<1>3. CASE Flow!Outdate(u)
  <2>1. Flow!UpdateItem(calls[u].item, "stale") /\ calls[u].item.state = "approved"
    BY <1>3 DEF Flow!Outdate, FlowInv, FlowCall
  <2> QED BY <1>1, <2>1, ItemIsUpdated
<1> QED BY <1>2, <1>3

\* A new proposal takes no id of another one.
LEMMA FlowPropose ==
  ASSUME FlowInv, NEW u \in Users, Flow!Propose(u)
  PROVE  FlowInv' /\ FlowChange
<1> DEFINE item == calls[u].item
<1>1. /\ FlowItem(store.plans, item) /\ UNCHANGED history /\ calls' = [calls EXCEPT ![u] = Flow!Idle]
      /\ IF \E i \in store.proposals : i.id = item.id THEN UNCHANGED store
         ELSE store' = [store EXCEPT !.proposals = @ \cup {item}]
  BY DEF FlowInv, FlowCall, Flow!Propose, Flow!ToIdle
<1> HIDE DEF item
<1>2. CASE \E i \in store.proposals : i.id = item.id
  BY <1>1, <1>2, FlowReads DEF FlowCall, Flow!Idle
<1>3. CASE ~(\E i \in store.proposals : i.id = item.id)
  <2>1. store' = [plans |-> store.plans, proposals |-> store.proposals \cup {item}, scores |-> store.scores,
                  artifacts |-> store.artifacts]
    BY <1>1, <1>3 DEF FlowInv, FlowStore
  <2>2. FlowStore(store', history'.approved)
    BY <1>1, <1>3, <2>1 DEF FlowInv, FlowStore
  <2>3. PlansGrow(store.plans, store'.plans) /\ ItemsGrow(store.proposals, store'.proposals)
        /\ FlowCall(store'.plans, store'.proposals, history'.approved, Flow!Idle)
    BY <2>1 DEF PlansGrow, ItemsGrow, FlowCall, Flow!Idle
  <2>4. history' = [approved |-> history'.approved, applied |-> history'.applied]
        /\ history.approved \subseteq history'.approved
    BY <1>1 DEF FlowInv
  <2>5. FlowInv'
    BY <1>1, <2>2, <2>3, <2>4, FlowWrites
  <2>6. \A i, j \in store.proposals : i.id = j.id => i = j
    BY DEF FlowInv, FlowStore
  <2>7. FlowChange
    BY <1>3, <2>1, <2>6 DEF FlowChange, Flow!ChecksChangeByProposal, Flow!PlanRevisionsAreTaken, Flow!ItemRevisionsAreTaken
  <2> QED BY <2>5, <2>7
<1> QED BY <1>2, <1>3

\* A score and its artifact are kept beside the others.
LEMMA FlowScoreIsSaved ==
  ASSUME FlowInv, NEW u \in Users, Flow!SaveScore(u) \/ Flow!SaveArtifact(u)
  PROVE  FlowInv' /\ FlowChange
<1> DEFINE c == calls[u]
<1>1. /\ c = [at |-> c.at, results |-> c.results, score |-> c.score]
      /\ FlowScore(store.plans, history.approved, c.score) /\ UNCHANGED history
  BY DEF FlowInv, FlowCall, Flow!SaveScore, Flow!SaveArtifact
<1>2. /\ store' = [plans |-> store.plans, proposals |-> store.proposals, scores |-> store'.scores,
                   artifacts |-> store'.artifacts]
      /\ store'.scores \subseteq store.scores \cup {c.score}
      /\ \A a \in store'.artifacts : a \in store.artifacts \/ a.score = c.score
  <2>1. store = [plans |-> store.plans, proposals |-> store.proposals, scores |-> store.scores,
                 artifacts |-> store.artifacts]
    BY DEF FlowInv, FlowStore
  <2>2. \/ store' = [store EXCEPT !.scores = @ \cup {c.score}]
        \/ store' = [store EXCEPT !.artifacts = @ \cup {[score |-> c.score, results |-> c.results]}]
    BY DEF Flow!SaveScore, Flow!SaveArtifact
  <2> HIDE DEF c
  <2> QED BY <2>1, <2>2
<1>3. \E d : calls' = [calls EXCEPT ![u] = d] /\ FlowCall(store.plans, store.proposals, history.approved, d)
  <2>1. CASE Flow!SaveScore(u)
    <3>1. [c EXCEPT !.at = "artifact"] = [at |-> "artifact", results |-> c.results, score |-> c.score]
      BY <1>1
    <3>2. calls' = [calls EXCEPT ![u] = [at |-> "artifact", results |-> c.results, score |-> c.score]]
      BY <2>1, <3>1 DEF Flow!SaveScore
    <3>3. FlowCall(store.plans, store.proposals, history.approved,
                   [at |-> "artifact", results |-> c.results, score |-> c.score])
      BY <1>1 DEF FlowCall
    <3> QED BY <3>2, <3>3
  <2>2. CASE Flow!SaveArtifact(u)
    <3>1. calls' = [calls EXCEPT ![u] = Flow!Idle]
      BY <2>2 DEF Flow!SaveArtifact, Flow!ToIdle
    <3>2. FlowCall(store.plans, store.proposals, history.approved, Flow!Idle)
      BY DEF FlowCall, Flow!Idle
    <3> QED BY <3>1, <3>2
  <2> QED BY <2>1, <2>2
<1> HIDE DEF c
<1>4. FlowStore(store', history'.approved)
  BY <1>1, <1>2 DEF FlowInv, FlowStore
<1>5. store'.plans = store.plans /\ store'.proposals = store.proposals
  BY <1>2
<1>6. PlansGrow(store.plans, store'.plans) /\ ItemsGrow(store.proposals, store'.proposals)
  BY <1>5 DEF PlansGrow, ItemsGrow
<1>7. history' = [approved |-> history'.approved, applied |-> history'.applied]
      /\ history.approved \subseteq history'.approved
  BY <1>1 DEF FlowInv
<1>8. FlowInv'
  BY <1>1, <1>3, <1>4, <1>5, <1>6, <1>7, FlowWrites
<1>9. \A i, j \in store.proposals : i.id = j.id => i = j
  BY DEF FlowInv, FlowStore
<1>10. FlowChange
  BY <1>5, <1>9 DEF FlowChange, Flow!ChecksChangeByProposal, Flow!PlanRevisionsAreTaken, Flow!ItemRevisionsAreTaken
<1> QED BY <1>8, <1>10

\* Both rows go on together, from just the revisions that were approved.
LEMMA FlowApplies ==
  ASSUME FlowConstants, FlowInv, NEW u \in Users, Flow!Apply(u)
  PROVE  FlowInv' /\ FlowChange
<1> DEFINE item == calls[u].item
           plan == calls[u].next
<1>1. /\ ReadItem(store.plans, store.proposals, item) /\ item.state = "approved"
      /\ FlowPlan(plan) /\ plan.state = "proposed" /\ plan.revision = item.base.revision + 1
      /\ calls' = [calls EXCEPT ![u] = Flow!Idle]
  BY DEF FlowInv, FlowCall, Flow!Apply, Flow!ToIdle
<1>2. CASE ~(Flow!PlanIs(item.plan, item.base) /\ Flow!ItemIs(item))
  <2>1. UNCHANGED <<store, history>>
    BY <1>2 DEF Flow!Apply
  <2> QED BY <1>1, <2>1, FlowReads DEF FlowCall, Flow!Idle
<1>3. CASE Flow!PlanIs(item.plan, item.base) /\ Flow!ItemIs(item)
  <2>1. /\ store' = [store EXCEPT !.plans = Flow!SetPlan(@, item.plan, plan),
                                  !.proposals = Flow!SetItem(@, Flow!Raised(item, "applied"))]
        /\ history' = [history EXCEPT !.applied = Append(@, item)]
    BY <1>3 DEF Flow!Apply
  <2>2. item \in store.proposals
    BY <1>1, <1>3, ItemIsTheRow
  <2> DEFINE used == Flow!Raised(item, "applied")
  <2> HIDE DEF item, plan
  <2>3. /\ item.base = store.plans[item.plan] /\ FlowPlan(item.base) /\ item.plan \in Flow!Ids
    BY <1>1, <1>3, PlanIsTheRow DEF ReadItem, FlowItem
  <2>4. item.base.revision \in Nat
    BY <2>3 DEF FlowPlan
  <2>5. /\ store = [plans |-> store.plans, proposals |-> store.proposals, scores |-> store.scores,
                    artifacts |-> store.artifacts]
        /\ store.plans = [x \in Flow!Ids |-> store.plans[x]]
    BY DEF FlowInv, FlowStore
  <2>6. store' = [plans |-> [store.plans EXCEPT ![item.plan] = plan], proposals |-> Flow!SetItem(store.proposals, used),
                  scores |-> store.scores, artifacts |-> store.artifacts]
    BY <2>1, <2>5 DEF Flow!SetPlan
  <2>7. /\ store'.plans = [x \in Flow!Ids |-> store'.plans[x]] /\ store'.plans[item.plan] = plan
        /\ \A x \in Flow!Ids : x # item.plan => store'.plans[x] = store.plans[x]
    BY <2>3, <2>5, <2>6
  <2>8. /\ ItemsGrow(store.proposals, store'.proposals)
        /\ \A i \in store'.proposals : FlowItem(store.plans, i)
        /\ \A i, j \in store'.proposals : i.id = j.id => i = j
        /\ used \in store'.proposals /\ used.id = item.id /\ used.state = "applied" /\ used.revision = item.revision + 1
        /\ \A i \in store.proposals : \A now \in store'.proposals :
             now.id = i.id /\ now # i => i = item /\ now = used
    <3>1. store'.proposals = Flow!SetItem(store.proposals, used)
      BY <2>6
    <3> QED BY <2>2, <3>1, ItemIsSet
  <2> HIDE DEF used
  <2>9. PlansGrow(store.plans, store'.plans)
    BY <1>1, <2>3, <2>4, <2>7 DEF PlansGrow
  <2>10. /\ \A i \in store'.proposals : FlowItem(store'.plans, i)
         /\ \A s \in store'.scores : FlowScore(store'.plans, history.approved, s)
         /\ \A a \in store'.artifacts : FlowScore(store'.plans, history.approved, a.score)
    BY <2>6, <2>8, <2>9, ReadsStay, ScoresStay DEF FlowInv, FlowStore
  <2>11. \A id \in Flow!Ids : store'.plans[id] # None =>
           /\ FlowPlan(store'.plans[id])
           /\ store'.plans[id].state = "approved" =>
                <<id, store'.plans[id].revision, store'.plans[id].checks>> \in history.approved
    BY <1>1, <2>7 DEF FlowInv, FlowStore
  <2>12. FlowStore(store', history.approved)
    BY <2>6, <2>7, <2>8, <2>10, <2>11 DEF FlowStore
  <2>13. history' = [approved |-> history.approved, applied |-> history'.applied]
    BY <2>1 DEF FlowInv
  <2>14. FlowCall(store'.plans, store'.proposals, history'.approved, Flow!Idle)
    BY DEF FlowCall, Flow!Idle
  <2>15. FlowInv'
    <3>1. /\ history' = [approved |-> history'.approved, applied |-> history'.applied]
          /\ history'.approved = history.approved
      BY <2>13
    <3>2. FlowStore(store', history'.approved) /\ history.approved \subseteq history'.approved
      BY <2>12, <3>1
    <3> QED BY <1>1, <2>8, <2>9, <2>14, <3>1, <3>2, FlowWrites
  <2>16. Flow!ChecksChangeByProposal
    BY <1>1, <2>2, <2>3, <2>7, <2>8 DEF Flow!ChecksChangeByProposal, Flow!UsedUp
  <2>17. Flow!PlanRevisionsAreTaken
    BY <1>1, <2>3, <2>7 DEF Flow!PlanRevisionsAreTaken
  <2>18. Flow!ItemRevisionsAreTaken
    BY <1>1, <2>8 DEF Flow!ItemRevisionsAreTaken
  <2> QED BY <2>15, <2>16, <2>17, <2>18 DEF FlowChange
<1> QED BY <1>2, <1>3

\* A plan is looked for and composed.
LEMMA FlowGenerate ==
  ASSUME FlowInv, NEW u \in Users,
         Flow!Generate(u) \/ Flow!Compose(u) \/ Flow!LookUpPlan(u) \/ Flow!Generated(u)
  PROVE  FlowInv' /\ FlowChange
<1> DEFINE c == calls[u]
           Known(d) == FlowCall(store.plans, store.proposals, history.approved, d)
<1>1. UNCHANGED <<store, history>> /\ Known(c)
  BY DEF Flow!Generate, Flow!Compose, Flow!LookUpPlan, Flow!Generated, FlowInv
<1>2. CASE Flow!Generate(u)
  <2>1. PICK asked : calls' = [calls EXCEPT ![u] =
          [at |-> "asking", asked |-> asked, evidence |-> world, checks |-> Flow!Runnable]]
    BY <1>2 DEF Flow!Generate
  <2>2. Known([at |-> "asking", asked |-> asked, evidence |-> world, checks |-> Flow!Runnable])
    BY DEF FlowCall
  <2> QED BY <1>1, <2>1, <2>2, FlowReads
<1>3. CASE Flow!Compose(u)
  <2>1. PICK id, plan :
          /\ calls' = [calls EXCEPT ![u] = [at |-> "lookup", id |-> id, evidence |-> c.evidence, plan |-> plan]]
          /\ plan = [checks |-> c.checks, head |-> c.evidence.head, tools |-> Flow!ToolState(c.checks),
                     state |-> "proposed", revision |-> 1]
    BY <1>3 DEF Flow!Compose
  <2>2. Known([at |-> "lookup", id |-> id, evidence |-> c.evidence, plan |-> plan])
    BY <2>1 DEF FlowCall, FlowPlan
  <2> QED BY <1>1, <2>1, <2>2, FlowReads
<1>4. CASE Flow!LookUpPlan(u)
  <2>1. /\ c = [at |-> "lookup", id |-> c.id, evidence |-> c.evidence, plan |-> c.plan]
        /\ FlowPlan(c.plan) /\ c.plan.state = "proposed"
    BY <1>1, <1>4 DEF Flow!LookUpPlan, FlowCall
  <2>2. ASSUME NEW at \in {"insert", "generated"}, NEW id, NEW plan, at = "insert" => plan = c.plan,
               calls' = [calls EXCEPT ![u] = [at |-> at, id |-> id, evidence |-> c.evidence, plan |-> plan]]
        PROVE  FlowInv' /\ FlowChange
    <3>1. Known([at |-> at, id |-> id, evidence |-> c.evidence, plan |-> plan])
      BY <2>1, <2>2 DEF FlowCall
    <3> QED BY <1>1, <2>2, <3>1, FlowReads
  <2> DEFINE existing == store.plans[c.id]
             free == Flow!FreeNonces(c.id)
             nonce == CHOOSE n \in free : \A m \in free : n <= m
  <2>3. calls' = [calls EXCEPT ![u] =
          CASE existing = None -> [c EXCEPT !.at = "insert"]
            [] existing # None /\ existing.state # "rejected" ->
                 [c EXCEPT !.at = "generated", !.plan = existing]
            [] existing # None /\ existing.state = "rejected" /\ free # {} ->
                 [c EXCEPT !.at = "insert", !.id[3] = nonce]
            [] OTHER -> Flow!Idle]
    BY <1>4 DEF Flow!LookUpPlan
  <2> HIDE DEF existing, free, nonce, c, Known
  <2>4. CASE existing = None
    <3>1. [c EXCEPT !.at = "insert"] = [at |-> "insert", id |-> c.id, evidence |-> c.evidence, plan |-> c.plan]
      BY <2>1
    <3> QED BY <2>2, <2>3, <2>4, <3>1
  <2>5. CASE existing # None /\ existing.state # "rejected"
    <3>1. [c EXCEPT !.at = "generated", !.plan = existing] =
            [at |-> "generated", id |-> c.id, evidence |-> c.evidence, plan |-> existing]
      <4>1. [c EXCEPT !.at = "generated"] =
              [at |-> "generated", id |-> c.id, evidence |-> c.evidence, plan |-> c.plan]
        BY <2>1
      <4>2. [c EXCEPT !.at = "generated", !.plan = existing] = [[c EXCEPT !.at = "generated"] EXCEPT !.plan = existing]
        OBVIOUS
      <4>3. [[at |-> "generated", id |-> c.id, evidence |-> c.evidence, plan |-> c.plan] EXCEPT !.plan = existing] =
              [at |-> "generated", id |-> c.id, evidence |-> c.evidence, plan |-> existing]
        OBVIOUS
      <4> QED BY <4>1, <4>2, <4>3
    <3> QED BY <2>2, <2>3, <2>5, <3>1
  <2>6. CASE existing # None /\ existing.state = "rejected" /\ free # {}
    <3>1. [c EXCEPT !.at = "insert", !.id[3] = nonce] =
            [at |-> "insert", id |-> [c.id EXCEPT ![3] = nonce], evidence |-> c.evidence, plan |-> c.plan]
      <4>1. [c EXCEPT !.at = "insert"] =
              [at |-> "insert", id |-> c.id, evidence |-> c.evidence, plan |-> c.plan]
        BY <2>1
      <4>2. [c EXCEPT !.at = "insert", !.id[3] = nonce] = [[c EXCEPT !.at = "insert"] EXCEPT !.id[3] = nonce]
        OBVIOUS
      <4>3. [[at |-> "insert", id |-> c.id, evidence |-> c.evidence, plan |-> c.plan] EXCEPT !.id[3] = nonce] =
              [at |-> "insert", id |-> [c.id EXCEPT ![3] = nonce], evidence |-> c.evidence, plan |-> c.plan]
        OBVIOUS
      <4> QED BY <4>1, <4>2, <4>3
    <3> QED BY <2>2, <2>3, <2>6, <3>1
  <2>7. CASE existing # None /\ existing.state = "rejected" /\ free = {}
    <3>1. calls' = [calls EXCEPT ![u] = Flow!Idle]
      BY <2>3, <2>7
    <3> QED BY <1>1, <3>1, FlowReads DEF FlowCall, Flow!Idle
  <2> QED BY <2>4, <2>5, <2>6, <2>7
<1>5. CASE Flow!Generated(u)
  BY <1>1, <1>5, FlowReads DEF Flow!Generated, Flow!ToIdle, FlowCall, Flow!Idle
<1> QED BY <1>2, <1>3, <1>4, <1>5

\* A reviewer reads a plan or a proposal; a run reads an approved plan.
LEMMA FlowReviews ==
  ASSUME FlowInv, NEW u \in Users,
         \/ \E id \in Flow!Ids : Flow!ReviewPlan(u, id) \/ Flow!RunPlan(u, id)
         \/ Flow!ReviewItem(u) \/ Flow!ApplyItem(u)
  PROVE  FlowInv' /\ FlowChange
<1> DEFINE Known(d) == FlowCall(store.plans, store.proposals, history.approved, d)
<1>1. CASE \E id \in Flow!Ids : Flow!ReviewPlan(u, id) \/ Flow!RunPlan(u, id)
  <2>1. PICK id \in Flow!Ids : Flow!ReviewPlan(u, id) \/ Flow!RunPlan(u, id)
    BY <1>1
  <2>2. UNCHANGED <<store, history>> /\ store.plans[id] # None
    BY <2>1 DEF Flow!ReviewPlan, Flow!RunPlan
  <2>3. /\ FlowPlan(store.plans[id])
        /\ store.plans[id].state = "approved" =>
             <<id, store.plans[id].revision, store.plans[id].checks>> \in history.approved
    BY <2>2 DEF FlowInv, FlowStore
  <2>4. ReadPlan(store.plans, id, store.plans[id])
    BY <2>3 DEF ReadPlan, FlowPlan
  <2>5. CASE Flow!ReviewPlan(u, id)
    <3>1. PICK decision \in Flow!Decisions(store.plans[id].state) :
            calls' = [calls EXCEPT ![u] =
              [at |-> "decide", id |-> id, plan |-> store.plans[id], decision |-> decision]]
      BY <2>5 DEF Flow!ReviewPlan
    <3>2. Known([at |-> "decide", id |-> id, plan |-> store.plans[id], decision |-> decision])
      BY <2>4 DEF FlowCall
    <3> QED BY <2>2, <3>1, <3>2, FlowReads
  <2>6. CASE Flow!RunPlan(u, id)
    <3>1. /\ calls' = [calls EXCEPT ![u] = [at |-> "evidence", id |-> id, plan |-> store.plans[id]]]
          /\ store.plans[id].state = "approved"
      BY <2>6 DEF Flow!RunPlan
    <3>2. Known([at |-> "evidence", id |-> id, plan |-> store.plans[id]])
      BY <2>3, <2>4, <3>1 DEF FlowCall
    <3> QED BY <2>2, <3>1, <3>2, FlowReads
  <2> QED BY <2>1, <2>5, <2>6
<1>2. CASE Flow!ReviewItem(u) \/ Flow!ApplyItem(u)
  <2>1. UNCHANGED <<store, history>>
    BY <1>2 DEF Flow!ReviewItem, Flow!ApplyItem
  <2>2. \A i \in store.proposals : ReadItem(store.plans, store.proposals, i)
    <3>1. \A i \in store.proposals : FlowItem(store.plans, i) /\ i.revision <= i.revision
      BY DEF FlowInv, FlowStore, FlowItem
    <3> QED BY <3>1 DEF ReadItem
  <2>3. CASE Flow!ReviewItem(u)
    <3>1. PICK item \in store.proposals : \E decision \in Flow!Decisions(item.state) :
            calls' = [calls EXCEPT ![u] = [at |-> "judge", item |-> item, decision |-> decision]]
      BY <2>3 DEF Flow!ReviewItem
    <3>2. PICK decision \in Flow!Decisions(item.state) :
            calls' = [calls EXCEPT ![u] = [at |-> "judge", item |-> item, decision |-> decision]]
      BY <3>1
    <3>3. Known([at |-> "judge", item |-> item, decision |-> decision])
      BY <2>2 DEF FlowCall
    <3> QED BY <2>1, <3>2, <3>3, FlowReads
  <2>4. CASE Flow!ApplyItem(u)
    <3>1. PICK item \in store.proposals :
            item.state = "approved" /\ calls' = [calls EXCEPT ![u] = [at |-> "base", item |-> item]]
      BY <2>4 DEF Flow!ApplyItem
    <3>2. Known([at |-> "base", item |-> item])
      BY <2>2, <3>1 DEF FlowCall
    <3> QED BY <2>1, <3>1, <3>2, FlowReads
  <2> QED BY <1>2, <2>3, <2>4
<1> QED BY <1>1, <1>2

\* An approved plan is found stale, or its checks run and get a score.
LEMMA FlowRuns ==
  ASSUME FlowInv, NEW u \in Users, Flow!RunEvidence(u) \/ Flow!RunChecks(u)
  PROVE  FlowInv' /\ FlowChange
<1> DEFINE c == calls[u]
           Known(d) == FlowCall(store.plans, store.proposals, history.approved, d)
<1>1. /\ UNCHANGED <<store, history>> /\ c.at \in {"evidence", "checks"}
      /\ c = [at |-> c.at, id |-> c.id, plan |-> c.plan]
      /\ ReadPlan(store.plans, c.id, c.plan) /\ c.plan.state = "approved"
      /\ <<c.id, c.plan.revision, c.plan.checks>> \in history.approved
  BY DEF Flow!RunEvidence, Flow!RunChecks, FlowInv, FlowCall
<1>2. CASE Flow!RunEvidence(u)
  <2>1. PICK at \in {"stale", "checks"} : calls' = [calls EXCEPT ![u].at = at]
    BY <1>2 DEF Flow!RunEvidence
  <2>2. [c EXCEPT !.at = at] = [at |-> at, id |-> c.id, plan |-> c.plan]
    BY <1>1
  <2>3. calls' = [calls EXCEPT ![u] = [at |-> at, id |-> c.id, plan |-> c.plan]]
    BY <2>1, <2>2
  <2>4. Known([at |-> at, id |-> c.id, plan |-> c.plan])
    BY <1>1 DEF FlowCall
  <2> QED BY <1>1, <2>3, <2>4, FlowReads
<1>3. CASE Flow!RunChecks(u)
  <2>1. PICK results : calls' = [calls EXCEPT ![u] =
          [at |-> "score", results |-> results, score |-> Flow!ScoreOf(c.id, c.plan, results)]]
    BY <1>3 DEF Flow!RunChecks
  <2> DEFINE score == Flow!ScoreOf(c.id, c.plan, results)
  <2>2. score.plan = c.id /\ score.revision = c.plan.revision /\ score.checks = c.plan.checks
    BY DEF Flow!ScoreOf
  <2> HIDE DEF score
  <2>3. FlowScore(store.plans, history.approved, score)
    BY <1>1, <2>2 DEF FlowScore, ReadPlan
  <2>4. Known([at |-> "score", results |-> results, score |-> score])
    BY <2>3 DEF FlowCall
  <2> QED BY <1>1, <2>1, <2>4, FlowReads DEF score
<1> QED BY <1>2, <1>3

\* A proposal is made for the plan as it is now, from the results of a run.
LEMMA FlowImproves ==
  ASSUME FlowInv, NEW u \in Users, Flow!ImprovePlan(u)
  PROVE  FlowInv' /\ FlowChange
<1>1. UNCHANGED <<store, history>>
  BY DEF Flow!ImprovePlan
<1>2. PICK a \in store.artifacts : \E changes : calls' = [calls EXCEPT ![u] = [at |-> "propose", item |->
        [id |-> <<a.score, a.results, world.head, changes>>, plan |-> a.score.plan,
         base |-> store.plans[a.score.plan], head |-> world.head,
         tools |-> Flow!ToolState(store.plans[a.score.plan].checks),
         changes |-> changes, state |-> "proposed", revision |-> 1]]]
  BY DEF Flow!ImprovePlan, Flow!LoadedRuns
<1> DEFINE plan == store.plans[a.score.plan]
           item(changes) ==
             [id |-> <<a.score, a.results, world.head, changes>>, plan |-> a.score.plan, base |-> plan,
              head |-> world.head, tools |-> Flow!ToolState(plan.checks),
              changes |-> changes, state |-> "proposed", revision |-> 1]
<1>3. FlowScore(store.plans, history.approved, a.score)
  BY DEF FlowInv, FlowStore
<1>4. ReadPlan(store.plans, a.score.plan, plan)
  BY <1>3 DEF ReadPlan, FlowScore, FlowPlan
<1>5. PICK changes : calls' = [calls EXCEPT ![u] = [at |-> "propose", item |-> item(changes)]]
  BY <1>2
<1>6. FlowItem(store.plans, item(changes))
  BY <1>4 DEF FlowItem
<1> HIDE DEF item
<1>7. FlowCall(store.plans, store.proposals, history.approved, [at |-> "propose", item |-> item(changes)])
  BY <1>6 DEF FlowCall
<1> QED BY <1>1, <1>5, <1>7, FlowReads

\* The plan and the worktree are looked at before a proposal is applied.
LEMMA FlowLooks ==
  ASSUME FlowInv, NEW u \in Users, Flow!ApplyBase(u) \/ Flow!ApplyEvidence(u)
  PROVE  FlowInv' /\ FlowChange
<1> DEFINE c == calls[u]
           Known(d) == FlowCall(store.plans, store.proposals, history.approved, d)
<1>1. /\ UNCHANGED <<store, history>> /\ c.at \in {"base", "fresh"} /\ c = [at |-> c.at, item |-> c.item]
      /\ ReadItem(store.plans, store.proposals, c.item) /\ c.item.state = "approved"
  BY DEF Flow!ApplyBase, Flow!ApplyEvidence, FlowInv, FlowCall
<1>2. ASSUME NEW at \in {"fresh", "outdated"}, calls' = [calls EXCEPT ![u] = [c EXCEPT !.at = at]]
      PROVE  FlowInv' /\ FlowChange
  <2>1. [c EXCEPT !.at = at] = [at |-> at, item |-> c.item]
    BY <1>1
  <2>2. Known([at |-> at, item |-> c.item])
    BY <1>1 DEF FlowCall
  <2> QED BY <1>1, <1>2, <2>1, <2>2, FlowReads
<1>3. CASE Flow!ApplyBase(u)
  BY <1>2, <1>3 DEF Flow!ApplyBase
<1>4. CASE Flow!ApplyEvidence(u)
  <2> DEFINE base == c.item.base
             checks == Flow!Applied(base.checks, c.item.changes)
             next == [Flow!Raised(base, "proposed") EXCEPT !.checks = checks, !.tools = Flow!ToolState(checks)]
  <2>1. \/ calls' = [calls EXCEPT ![u] = [c EXCEPT !.at = "outdated"]]
        \/ calls' = [calls EXCEPT ![u] = Flow!Idle]
        \/ calls' = [calls EXCEPT ![u] = [at |-> "apply", item |-> c.item, next |-> next]]
    BY <1>4 DEF Flow!ApplyEvidence
  <2>2. FlowPlan(base) /\ base.revision \in Nat
    BY <1>1 DEF ReadItem, FlowItem, ReadPlan, FlowPlan
  <2>3. /\ Flow!Raised(base, "proposed") =
             [checks |-> base.checks, head |-> base.head, tools |-> base.tools, state |-> "proposed",
              revision |-> base.revision + 1]
    BY <2>2, RaisedPlan
  <2>4. next = [checks |-> checks, head |-> base.head, tools |-> Flow!ToolState(checks), state |-> "proposed",
                revision |-> base.revision + 1]
    <3>1. [Flow!Raised(base, "proposed") EXCEPT !.checks = checks] =
             [checks |-> checks, head |-> base.head, tools |-> base.tools, state |-> "proposed",
              revision |-> base.revision + 1]
      BY <2>3
    <3>2. next = [[Flow!Raised(base, "proposed") EXCEPT !.checks = checks] EXCEPT !.tools = Flow!ToolState(checks)]
      OBVIOUS
    <3> HIDE DEF next, checks, base
    <3>3. [[checks |-> checks, head |-> base.head, tools |-> base.tools, state |-> "proposed",
            revision |-> base.revision + 1] EXCEPT !.tools = Flow!ToolState(checks)] =
          [checks |-> checks, head |-> base.head, tools |-> Flow!ToolState(checks), state |-> "proposed",
           revision |-> base.revision + 1]
      OBVIOUS
    <3> QED BY <3>1, <3>2, <3>3
  <2> HIDE DEF next
  <2>5. FlowPlan(next) /\ next.state = "proposed" /\ next.revision = base.revision + 1
    BY <2>2, <2>4 DEF FlowPlan
  <2>6. Known([at |-> "apply", item |-> c.item, next |-> next])
    BY <1>1, <2>5 DEF FlowCall
  <2>7. Known(Flow!Idle)
    BY DEF FlowCall, Flow!Idle
  <2> QED BY <1>1, <1>2, <2>1, <2>6, <2>7, FlowReads
<1> QED BY <1>3, <1>4

LEMMA FlowInitially == Flow!InspectionInit => FlowInv
<1> SUFFICES ASSUME Flow!InspectionInit PROVE FlowInv
  OBVIOUS
<1>1. /\ store = [plans |-> [id \in Flow!Ids |-> None], proposals |-> {}, scores |-> {}, artifacts |-> {}]
      /\ calls = [u \in Users |-> Flow!Idle] /\ history = [approved |-> {}, applied |-> <<>>]
  BY DEF Flow!InspectionInit
<1>2. FlowStore(store, history.approved)
  BY <1>1 DEF FlowStore
<1>3. \A u \in Users : FlowCall(store.plans, store.proposals, history.approved, calls[u])
  BY <1>1 DEF FlowCall, Flow!Idle
<1> QED BY <1>1, <1>2, <1>3 DEF FlowInv

LEMMA FlowStep ==
  ASSUME FlowConstants, FlowInv, Flow!InspectionNext
  PROVE  FlowInv' /\ FlowChange
<1>1. ASSUME NEW u \in Users, Flow!InspectionStep(u)
      PROVE  FlowInv' /\ FlowChange
  BY <1>1, FlowGenerate, FlowInsertPlan, FlowDecide, FlowRuns, FlowScoreIsSaved, FlowPropose, FlowJudge,
     FlowLooks, FlowApplies DEF Flow!InspectionStep
<1>2. ASSUME NEW u \in Users, Flow!InspectionRequest(u)
      PROVE  FlowInv' /\ FlowChange
  BY <1>2, FlowGenerate, FlowImproves, FlowReviews DEF Flow!InspectionRequest
<1>3. CASE Flow!ChangeWorktree
  <2>1. UNCHANGED <<store, calls, history>>
    BY <1>3 DEF Flow!ChangeWorktree
  <2>2. \A i, j \in store.proposals : i.id = j.id => i = j
    BY DEF FlowInv, FlowStore
  <2> QED BY <2>1, <2>2
          DEF FlowInv, FlowChange, Flow!ChecksChangeByProposal, Flow!PlanRevisionsAreTaken, Flow!ItemRevisionsAreTaken
<1> QED BY <1>1, <1>2, <1>3 DEF Flow!InspectionNext

LEMMA FlowStutter ==
  ASSUME FlowInv, UNCHANGED vars
  PROVE  FlowInv'
BY DEF FlowInv, vars

LEMMA FlowIsSound ==
  ASSUME FlowConstants
  PROVE  Flow!InspectionSpec => []FlowInv
<1>1. FlowInv /\ [Flow!InspectionNext]_Flow!inspectionVars => FlowInv'
  BY FlowStep, FlowStutter DEF Flow!inspectionVars, vars
<1> QED BY <1>1, FlowInitially, PTL DEF Flow!InspectionSpec

\* Every score is of a revision of the plan that a reviewer approved with just
\* these checks, however plans change and are found stale meanwhile
\* (RunInspectionPlan, inspection.go:501).
THEOREM ScoresAreOfApprovedPlans ==
  ASSUME FlowConstants
  PROVE  Flow!InspectionSpec => []Flow!RunsAreApproved
<1>1. FlowInv => Flow!RunsAreApproved
  BY DEF FlowInv, FlowStore, FlowScore, Flow!RunsAreApproved
<1> QED BY <1>1, FlowIsSound, PTL

\* A revision of a plan or of a proposal is taken by one decision only, and the
\* checks of a plan change only by an approved proposal for that very revision
\* (UpdateInspectionPlan, ApplyQualityImprovementProposalCAS, store/assurance.go).
THEOREM PlansChangeOneDecisionAtATime ==
  ASSUME FlowConstants
  PROVE  Flow!InspectionSpec => Flow!PlansChangeByDecision
<1>1. FlowInv /\ [Flow!InspectionNext]_Flow!inspectionVars =>
        [/\ Flow!ChecksChangeByProposal /\ Flow!PlanRevisionsAreTaken
         /\ Flow!ItemRevisionsAreTaken]_Flow!inspectionVars
  BY FlowStep DEF FlowChange
<1> QED BY <1>1, FlowIsSound, PTL DEF Flow!InspectionSpec, Flow!PlansChangeByDecision

-----------------------------------------------------------------------------
(* ArtifactStore: a handler works on a copy of a row.  What it may promise of *)
(* that copy is the evidence in the file or in an archive that the copy names. *)

Art == INSTANCE ArtifactStore

ArtifactSpec == Art!StoreInit /\ [][Art!StoreNext]_vars
\* None is no content of a file, no row and no directory.
ArtifactConstants ==
  /\ None \notin {"good", "bad"}
  /\ \A x, y : /\ None # [retention |-> x, archive |-> y] /\ None # [files |-> x, manifest |-> y]
                /\ None # [at |-> x, manifest |-> y] /\ None # [ids |-> x, nonce |-> y]

RowSteps == {"unpin", "pin", "restore", "delete", "put", "update"}
\* A step that may write "pinned" has looked at the evidence, or somebody else has.
PinSteps == {"pin", "restore", "put", "update"}
Staging == {"copy", "publish"}
ExportSteps == {"make", "copy", "publish", "mark"}
Manifest(m) == m = [ids |-> m.ids, nonce |-> m.nonce] /\ m.ids \subseteq Artifacts
Directory(dir) ==
  dir = [files |-> dir.files, manifest |-> dir.manifest] /\ dir.files \in [Artifacts -> Art!Contents]
Whole(dir, m) == dir # None /\ dir.manifest = m /\ \A a \in m.ids : dir.files[a] = "good"
Touch(h) == h.tampered \cup h.crossed
GoodRow(a, row, w, h) ==
  /\ row # None /\ row = [retention |-> row.retention, archive |-> row.archive] /\ row.retention \in Art!Retentions
  /\ row.archive # None =>
       /\ row.archive.at \in Destinations /\ a \in row.archive.manifest.ids
       /\ row.archive.at \in Touch(h) \/ Whole(w.archives[row.archive.at], row.archive.manifest)
\* The artifact can be had back from its file or from the archive of a row.
Kept(a, row, w, h) ==
  a \in Touch(h) \/ (Touch(h) \cap Destinations # {}) \/ w.files[a] = "good" \/ row.archive # None
ArtifactRow(a, rows, w, h) ==
  rows[a] # None =>
    /\ GoodRow(a, rows[a], w, h)
    /\ a \in h.tampered \/ a \in h.deletions \/ w.files[a] = "good"
    /\ rows[a].retention = "pinned" => Kept(a, rows[a], w, h)
InsertCall(c, rows, w, h) ==
  /\ c.at = "insert" /\ c = [at |-> "insert", id |-> c.id] /\ c.id \in Artifacts /\ rows[c.id] = None
  /\ c.id \in h.tampered \/ w.files[c.id] = "good"
RowCall(c, rows, w, h) ==
  /\ c.at \in RowSteps /\ c = [at |-> c.at, id |-> c.id, row |-> c.row] /\ c.id \in Artifacts
  /\ rows[c.id] # None /\ GoodRow(c.id, c.row, w, h)
  /\ c.at \in PinSteps /\ c.row.retention = "pinned" => Kept(c.id, c.row, w, h)
ExportCall(c, rows, w, h) ==
  /\ c.at \in ExportSteps /\ c = [at |-> c.at, dest |-> c.dest, left |-> c.left, rows |-> c.rows, manifest |-> c.manifest]
  /\ c.dest \in Destinations /\ Manifest(c.manifest) /\ c.left \subseteq c.manifest.ids
  /\ c.at = "make" => c.left = c.manifest.ids
  /\ \A a \in c.manifest.ids : rows[a] # None /\ GoodRow(a, c.rows[a], w, h)
  /\ c.at \in Staging /\ c.dest \notin h.crossed =>
       /\ w.staging[c.dest] # None
       /\ \A a \in c.manifest.ids : a \in c.left \/ w.staging[c.dest].files[a] = "good"
       /\ c.at = "publish" => w.staging[c.dest].manifest = c.manifest /\ c.left = {}
  /\ c.at = "mark" => c.dest \in Touch(h) \/ Whole(w.archives[c.dest], c.manifest)
ArtifactCall(c, rows, w, h) ==
  c = Art!Idle \/ InsertCall(c, rows, w, h) \/ RowCall(c, rows, w, h) \/ ExportCall(c, rows, w, h)
\* Two handlers neither insert one artifact nor, unless that was noticed, fill one
\* staging directory.
Apart(c, d, h) ==
  /\ ~(c.at = "insert" /\ d.at = "insert" /\ c.id = d.id)
  /\ c.at \in Staging /\ d.at \in Staging /\ c.dest = d.dest => c.dest \in h.crossed
FilesTyped(w, h) ==
  /\ w = [files |-> w.files, archives |-> w.archives, staging |-> w.staging]
  /\ w.files \in [Artifacts -> Art!Contents]
  /\ w.archives = [d \in Destinations |-> w.archives[d]] /\ w.staging = [d \in Destinations |-> w.staging[d]]
  /\ \A d \in Destinations :
       /\ w.staging[d] # None => Directory(w.staging[d])
       /\ w.archives[d] # None =>
            Directory(w.archives[d]) /\ (d \notin h.crossed => Whole(w.archives[d], w.archives[d].manifest))
       /\ w.archives[d] # None /\ d \notin h.crossed => w.archives[d].manifest # None
HistoryTyped(h) ==
  h = [tampered |-> h.tampered, deletions |-> h.deletions, crossed |-> h.crossed,
       unchecked |-> h.unchecked, overlapped |-> h.overlapped]
ArtifactInv ==
  /\ FilesTyped(world, history) /\ HistoryTyped(history)
  /\ store = [a \in Artifacts |-> store[a]] /\ \A a \in Artifacts : ArtifactRow(a, store, world, history)
  /\ calls = [u \in Users |-> calls[u]] /\ \A u \in Users : ArtifactCall(calls[u], store, world, history)
  /\ \A u, v \in Users : u # v => Apart(calls[u], calls[v], history)

\* While handlers do not overlap, a copy of a row that is not deleted is of a row
\* that is not deleted, and a deleted row has no file.
Live(rows, a) == rows[a] # None /\ rows[a].retention # "deleted"
Usage(rows) == {a \in Artifacts : Live(rows, a)}
QuotaCall(c, rows, w) ==
  /\ c.at = "insert" => Cardinality(Usage(rows)) < Quota
  /\ c.at \in RowSteps \ {"update"} => c.row.retention # "deleted" /\ Live(rows, c.id)
  /\ c.at = "update" => (IF c.row.retention = "deleted" THEN w.files[c.id] # "good" ELSE Live(rows, c.id))
  /\ c.at = "copy" => \A a \in c.manifest.ids : a \in c.left \/ Live(rows, a)
  /\ c.at = "publish" => \A a \in c.manifest.ids : Live(rows, a)
  /\ c.at = "mark" => \A a \in c.left : Live(rows, a)
\* There is room for what is not deleted, and what is deleted has no file.
Room(rows, w) ==
  /\ Cardinality(Usage(rows)) <= Quota
  /\ \A a \in Artifacts : rows[a] # None /\ rows[a].retention = "deleted" => w.files[a] # "good"
QuotaInv ==
  ~history.unchecked /\ ~history.overlapped =>
    /\ \A u, v \in Users : calls[u] # Art!Idle /\ calls[v] # Art!Idle => u = v
    /\ Room(store, world)
    /\ \A u \in Users : QuotaCall(calls[u], store, world)
QuotaConstants == ArtifactConstants /\ IsFiniteSet(Artifacts) /\ Quota \in Nat

\* What is noticed is not forgotten, and an archive stays unless it is taken away.
Grows(h, then) ==
  /\ h.tampered \subseteq then.tampered /\ h.deletions \subseteq then.deletions /\ h.crossed \subseteq then.crossed
ArchivesStay(w, then, h) ==
  \A d \in Destinations : d \in Touch(h) \/ w.archives[d] = None \/ then.archives[d] = w.archives[d]

LEMMA GoodRowStays ==
  ASSUME NEW a, NEW row, NEW w, NEW h, NEW w2, NEW h2,
         GoodRow(a, row, w, h), Grows(h, h2), ArchivesStay(w, w2, h2)
  PROVE  GoodRow(a, row, w2, h2)
<1>1. /\ row # None /\ row = [retention |-> row.retention, archive |-> row.archive] /\ row.retention \in Art!Retentions
      /\ row.archive # None =>
           /\ row.archive.at \in Destinations /\ a \in row.archive.manifest.ids
           /\ row.archive.at \in Touch(h) \/ Whole(w.archives[row.archive.at], row.archive.manifest)
  BY DEF GoodRow
<1>2. row.archive # None => row.archive.at \in Touch(h2) \/ Whole(w2.archives[row.archive.at], row.archive.manifest)
  BY <1>1 DEF Grows, ArchivesStay, Touch, Whole
<1> QED BY <1>1, <1>2 DEF GoodRow

LEMMA KeptStays ==
  ASSUME NEW a, NEW row, NEW w, NEW h, NEW w2, NEW h2,
         Kept(a, row, w, h), Grows(h, h2), w.files[a] = "good" => w2.files[a] = "good" \/ a \in Touch(h2)
  PROVE  Kept(a, row, w2, h2)
<1>1. Touch(h) \subseteq Touch(h2)
  BY DEF Touch, Grows
<1> QED BY <1>1 DEF Kept

LEMMA ArtifactRowStays ==
  ASSUME NEW a, NEW rows, NEW w, NEW h, NEW rows2, NEW w2, NEW h2,
         ArtifactRow(a, rows, w, h), rows2[a] = rows[a], Grows(h, h2), ArchivesStay(w, w2, h2),
         w.files[a] = "good" =>
           \/ w2.files[a] = "good" \/ a \in h2.tampered \/ rows[a] = None
           \/ a \in h2.deletions /\ (rows[a].retention = "pinned" => a \in Touch(h2))
  PROVE  ArtifactRow(a, rows2, w2, h2)
<1> SUFFICES ASSUME rows[a] # None
             PROVE  /\ GoodRow(a, rows[a], w2, h2)
                    /\ a \in h2.tampered \/ a \in h2.deletions \/ w2.files[a] = "good"
                    /\ rows[a].retention = "pinned" => Kept(a, rows[a], w2, h2)
  BY DEF ArtifactRow
<1>1. /\ GoodRow(a, rows[a], w, h) /\ (a \in h.tampered \/ a \in h.deletions \/ w.files[a] = "good")
      /\ rows[a].retention = "pinned" => Kept(a, rows[a], w, h)
  BY DEF ArtifactRow
<1>2. GoodRow(a, rows[a], w2, h2)
  BY <1>1, GoodRowStays
<1>3. a \in h2.tampered \/ a \in h2.deletions \/ w2.files[a] = "good"
  BY <1>1 DEF Grows
<1>4. rows[a].retention = "pinned" => (w.files[a] = "good" => w2.files[a] = "good" \/ a \in Touch(h2))
  BY DEF Touch
<1>5. rows[a].retention = "pinned" => Kept(a, rows[a], w2, h2)
  BY <1>1, <1>4, KeptStays
<1> QED BY <1>2, <1>3, <1>5

\* A handler keeps what it knows as long as nobody touches what it works on.
LEMMA ArtifactCallStays ==
  ASSUME NEW c, NEW rows, NEW w, NEW h, NEW rows2, NEW w2, NEW h2,
         ArtifactCall(c, rows, w, h), Grows(h, h2), ArchivesStay(w, w2, h2),
         \A a \in Artifacts : rows[a] # None => rows2[a] # None,
         c.at \in PinSteps => (w.files[c.id] = "good" => w2.files[c.id] = "good" \/ c.id \in Touch(h2)),
         c.at = "insert" => rows2[c.id] = None /\ (w.files[c.id] = "good" => w2.files[c.id] = "good" \/ c.id \in h2.tampered),
         c.at \in Staging /\ c.dest \notin h2.crossed => w2.staging[c.dest] = w.staging[c.dest]
  PROVE  ArtifactCall(c, rows2, w2, h2)
<1>1. CASE c = Art!Idle
  BY <1>1 DEF ArtifactCall
<1>2. CASE InsertCall(c, rows, w, h)
  <2>1. InsertCall(c, rows2, w2, h2)
    BY <1>2 DEF InsertCall, Grows
  <2> QED BY <2>1 DEF ArtifactCall
<1>3. CASE RowCall(c, rows, w, h)
  <2>1. /\ c.at \in RowSteps /\ c = [at |-> c.at, id |-> c.id, row |-> c.row] /\ c.id \in Artifacts
        /\ rows[c.id] # None /\ GoodRow(c.id, c.row, w, h)
        /\ c.at \in PinSteps /\ c.row.retention = "pinned" => Kept(c.id, c.row, w, h)
    BY <1>3 DEF RowCall
  <2>2. GoodRow(c.id, c.row, w2, h2)
    BY <2>1, GoodRowStays
  <2>3. c.at \in PinSteps /\ c.row.retention = "pinned" => Kept(c.id, c.row, w2, h2)
    BY <2>1, KeptStays
  <2>4. RowCall(c, rows2, w2, h2)
    BY <2>1, <2>2, <2>3 DEF RowCall
  <2> QED BY <2>4 DEF ArtifactCall
<1>4. CASE ExportCall(c, rows, w, h)
  <2>1. /\ c.at \in ExportSteps
        /\ c = [at |-> c.at, dest |-> c.dest, left |-> c.left, rows |-> c.rows, manifest |-> c.manifest]
        /\ c.dest \in Destinations /\ Manifest(c.manifest) /\ c.left \subseteq c.manifest.ids
        /\ c.at = "make" => c.left = c.manifest.ids
    BY <1>4 DEF ExportCall
  <2>2. \A a \in c.manifest.ids : rows[a] # None /\ GoodRow(a, c.rows[a], w, h)
    BY <1>4 DEF ExportCall
  <2>3. \A a \in c.manifest.ids : rows2[a] # None /\ GoodRow(a, c.rows[a], w2, h2)
    BY <2>1, <2>2, GoodRowStays DEF Manifest
  <2>4. c.at \in Staging /\ c.dest \notin h2.crossed =>
          /\ w2.staging[c.dest] # None
          /\ \A a \in c.manifest.ids : a \in c.left \/ w2.staging[c.dest].files[a] = "good"
          /\ c.at = "publish" => w2.staging[c.dest].manifest = c.manifest /\ c.left = {}
    BY <1>4 DEF ExportCall, Grows
  <2>5. c.at = "mark" => c.dest \in Touch(h2) \/ Whole(w2.archives[c.dest], c.manifest)
    BY <1>4, <2>1 DEF ExportCall, Grows, Touch, ArchivesStay, Whole
  <2>6. ExportCall(c, rows2, w2, h2)
    BY <2>1, <2>3, <2>4, <2>5 DEF ExportCall
  <2> QED BY <2>6 DEF ArtifactCall
<1> QED BY <1>1, <1>2, <1>3, <1>4 DEF ArtifactCall

\* The handler of u goes on to c; the others keep what they know.
LEMMA ArtifactStep ==
  ASSUME ArtifactInv, NEW u \in Users, NEW c, Art!To(u, c),
         FilesTyped(world', history'), HistoryTyped(history'), Grows(history, history'),
         store' = [a \in Artifacts |-> store'[a]],
         \A a \in Artifacts : ArtifactRow(a, store', world', history'),
         ArtifactCall(c, store', world', history'),
         \A v \in Users \ {u} : ArtifactCall(calls[v], store', world', history'),
         \A v \in Users \ {u} : Apart(c, calls[v], history')
  PROVE  ArtifactInv'
<1>1. /\ calls = [w \in Users |-> calls[w]] /\ calls' = [calls EXCEPT ![u] = c]
      /\ \A w, v \in Users : w # v => Apart(calls[w], calls[v], history)
  BY DEF ArtifactInv, Art!To
<1>2. calls' = [w \in Users |-> calls'[w]] /\ calls'[u] = c /\ \A v \in Users \ {u} : calls'[v] = calls[v]
  BY <1>1
<1>3. \A w \in Users : ArtifactCall(calls'[w], store', world', history')
  BY <1>2
<1>4. ASSUME NEW w \in Users, NEW v \in Users, w # v PROVE Apart(calls'[w], calls'[v], history')
  <2>1. CASE w = u
    BY <1>2, <1>4, <2>1
  <2>2. CASE v = u
    <3>1. Apart(c, calls[w], history')
      BY <1>4, <2>2
    <3> QED BY <1>2, <1>4, <2>2, <3>1 DEF Apart
  <2>3. CASE w # u /\ v # u
    BY <1>1, <1>2, <1>4, <2>3 DEF Apart, Grows
  <2> QED BY <2>1, <2>2, <2>3
<1> QED BY <1>2, <1>3, <1>4 DEF ArtifactInv

\* A step that only looks.
LEMMA ArtifactLook ==
  ASSUME ArtifactInv, NEW u \in Users, NEW c, Art!To(u, c), store' = store, world' = world,
         HistoryTyped(history'), history'.tampered = history.tampered, history'.deletions = history.deletions,
         history'.crossed = history.crossed,
         ArtifactCall(c, store, world, history), c.at # "insert", c.at \in Staging => calls[u].at \in Staging /\ calls[u].dest = c.dest
  PROVE  ArtifactInv'
<1>1. Grows(history, history') /\ ArchivesStay(world, world', history') /\ Touch(history') = Touch(history)
  BY DEF Grows, ArchivesStay, Touch
<1>2. /\ FilesTyped(world, history) /\ store = [a \in Artifacts |-> store[a]]
      /\ \A a \in Artifacts : ArtifactRow(a, store, world, history)
      /\ \A v \in Users : ArtifactCall(calls[v], store, world, history)
      /\ \A w, v \in Users : w # v => Apart(calls[w], calls[v], history)
  BY DEF ArtifactInv
<1>3. FilesTyped(world', history')
  BY <1>2 DEF FilesTyped
<1>4. \A a \in Artifacts : ArtifactRow(a, store', world', history')
  BY <1>1, <1>2, ArtifactRowStays
<1>5. ASSUME NEW k, ArtifactCall(k, store, world, history) PROVE ArtifactCall(k, store', world', history')
  <2>1. k.at = "insert" => store[k.id] = None
    BY <1>5 DEF ArtifactCall, InsertCall, RowCall, ExportCall, Art!Idle, RowSteps, ExportSteps
  <2> QED BY <1>1, <1>5, <2>1, ArtifactCallStays
<1>6. \A v \in Users \ {u} : Apart(c, calls[v], history')
  BY <1>2 DEF Apart
<1> QED BY <1>1, <1>2, <1>3, <1>4, <1>5, <1>6, ArtifactStep

\* What the step of a handler says about its call.
LEMMA ArtifactAt ==
  ASSUME NEW c, NEW rows, NEW w, NEW h, ArtifactCall(c, rows, w, h)
  PROVE  /\ c.at = "insert" => InsertCall(c, rows, w, h)
         /\ c.at \in RowSteps => RowCall(c, rows, w, h)
         /\ c.at \in ExportSteps => ExportCall(c, rows, w, h)
BY DEF ArtifactCall, InsertCall, RowCall, ExportCall, Art!Idle, RowSteps, ExportSteps

LEMMA ArtifactRests == \A rows, w, h : ArtifactCall(Art!Idle, rows, w, h)
BY DEF ArtifactCall

LEMMA ArtifactStarts ==
  ASSUME ArtifactConstants, Art!StoreInit
  PROVE  ArtifactInv
<1>1. store = [a \in Artifacts |-> None] /\ calls = [u \in Users |-> Art!Idle]
  BY DEF Art!StoreInit
<1>2. world = [files |-> Art!NoFiles, archives |-> [d \in Destinations |-> None], staging |-> [d \in Destinations |-> None]]
  BY DEF Art!StoreInit
<1>3. history = [tampered |-> {}, deletions |-> {}, crossed |-> {}, unchecked |-> FALSE, overlapped |-> FALSE]
  BY DEF Art!StoreInit
<1>4. FilesTyped(world, history)
  <2>1. Art!NoFiles \in [Artifacts -> Art!Contents]
    BY DEF Art!NoFiles, Art!Contents
  <2> QED BY <1>2, <2>1 DEF FilesTyped
<1>5. HistoryTyped(history)
  BY <1>3 DEF HistoryTyped
<1>6. store = [a \in Artifacts |-> store[a]] /\ \A a \in Artifacts : ArtifactRow(a, store, world, history)
  BY <1>1 DEF ArtifactRow
<1>7. calls = [u \in Users |-> calls[u]] /\ \A u \in Users : ArtifactCall(calls[u], store, world, history)
  BY <1>1 DEF ArtifactCall
<1>8. \A u, v \in Users : u # v => Apart(calls[u], calls[v], history)
  BY <1>1 DEF Apart, Art!Idle, Staging
<1> QED BY <1>4, <1>5, <1>6, <1>7, <1>8 DEF ArtifactInv

\* A handler that starts is counted, and whether it overlaps is noticed.
LEMMA ArtifactCalled ==
  ASSUME ArtifactInv, NEW u \in Users, Art!Called(u)
  PROVE  /\ HistoryTyped(history') /\ history'.tampered = history.tampered
         /\ history'.deletions = history.deletions /\ history'.crossed = history.crossed
         /\ history'.unchecked = history.unchecked /\ history'.overlapped = Art!Overlaps(u)
BY DEF ArtifactInv, HistoryTyped, Art!Called

LEMMA ArtifactRead ==
  ASSUME ArtifactInv, NEW u \in Users, NEW a \in Artifacts, Art!Read(u, a)
  PROVE  ArtifactInv'
<1>1. PICK step \in {"unpin", "pin", "restore", "delete"} : Art!To(u, [at |-> step, id |-> a, row |-> store[a]])
  BY DEF Art!Read
<1> DEFINE c == [at |-> step, id |-> a, row |-> store[a]]
<1>2. store[a] # None /\ Art!Called(u) /\ store' = store /\ world' = world
  BY DEF Art!Read
<1>3. GoodRow(a, store[a], world, history) /\ (store[a].retention = "pinned" => Kept(a, store[a], world, history))
  BY <1>2 DEF ArtifactInv, ArtifactRow
<1>4. RowCall(c, store, world, history)
  BY <1>2, <1>3 DEF RowCall, RowSteps
<1>5. ArtifactCall(c, store, world, history) /\ c.at # "insert" /\ c.at \notin Staging
  BY <1>4 DEF ArtifactCall, Staging
<1>6. Art!To(u, c)
  BY <1>1
<1> HIDE DEF c
<1> QED BY <1>2, <1>5, <1>6, ArtifactCalled, ArtifactLook

LEMMA ArtifactExport ==
  ASSUME ArtifactInv, NEW u \in Users, NEW ids \in SUBSET Artifacts, NEW d \in Destinations, Art!Export(u, ids, d)
  PROVE  ArtifactInv'
<1> DEFINE m == [ids |-> ids, nonce |-> budget.calls]
           c == [at |-> "make", dest |-> d, left |-> ids, rows |-> [a \in ids |-> store[a]], manifest |-> m]
<1>1. /\ \A a \in ids : store[a] # None
      /\ Art!Called(u) /\ store' = store /\ world' = world /\ Art!To(u, c)
  BY DEF Art!Export
<1>2. \A a \in ids : GoodRow(a, store[a], world, history)
  BY <1>1 DEF ArtifactInv, ArtifactRow
<1>3. Manifest(m)
  BY DEF Manifest
<1>4. ExportCall(c, store, world, history)
  BY <1>1, <1>2, <1>3 DEF ExportCall, ExportSteps, Staging
<1>5. ArtifactCall(c, store, world, history) /\ c.at # "insert" /\ c.at \notin Staging
  BY <1>4 DEF ArtifactCall, Staging
<1> HIDE DEF c
<1> QED BY <1>1, <1>5, ArtifactCalled, ArtifactLook

\* A handler that works on a row goes on to write it.
LEMMA ArtifactWrites ==
  ASSUME ArtifactInv, ArtifactConstants, NEW u \in Users, calls[u].at \in RowSteps, UNCHANGED <<store, world, history>>,
         NEW retention \in Art!Retentions,
         Art!Write(u, calls[u].id, [calls[u].row EXCEPT !.retention = retention]),
         retention = "pinned" => \/ calls[u].at \in PinSteps /\ calls[u].row.retention = "pinned"
                                 \/ Kept(calls[u].id, calls[u].row, world, history)
  PROVE  ArtifactInv'
<1> DEFINE a == calls[u].id
           old == calls[u].row
           row == [old EXCEPT !.retention = retention]
           c == [at |-> "update", id |-> a, row |-> row]
<1>1. RowCall(calls[u], store, world, history)
  BY ArtifactAt DEF ArtifactInv
<1>2. /\ a \in Artifacts /\ store[a] # None /\ GoodRow(a, old, world, history)
      /\ calls[u].at \in PinSteps /\ old.retention = "pinned" => Kept(a, old, world, history)
  BY <1>1 DEF RowCall
<1> HIDE DEF old
<1>3. row = [retention |-> retention, archive |-> old.archive]
  BY <1>2 DEF GoodRow
<1>4. GoodRow(a, row, world, history)
  <2> HIDE DEF row
  <2> QED BY <1>2, <1>3 DEF GoodRow, ArtifactConstants
<1>5. retention = "pinned" => Kept(a, row, world, history)
  <2>1. retention = "pinned" => Kept(a, old, world, history)
    BY <1>2 DEF old
  <2> QED BY <1>3, <2>1 DEF Kept
<1>6. RowCall(c, store, world, history)
  <2> HIDE DEF row, a
  <2> QED BY <1>2, <1>3, <1>4, <1>5 DEF RowCall, RowSteps
<1>7. ArtifactCall(c, store, world, history) /\ c.at # "insert" /\ c.at \notin Staging
  BY <1>6 DEF ArtifactCall, Staging
<1>8. Art!To(u, c)
  BY DEF Art!Write, old
<1>9. HistoryTyped(history')
  BY DEF ArtifactInv
<1> HIDE DEF c
<1> QED BY <1>7, <1>8, <1>9, ArtifactLook

\* A handler that gives up.
LEMMA ArtifactGivesUp ==
  ASSUME ArtifactInv, NEW u \in Users, Art!To(u, Art!Idle), UNCHANGED <<store, world, history>>
  PROVE  ArtifactInv'
<1>1. HistoryTyped(history') /\ Art!Idle.at # "insert" /\ Art!Idle.at \notin Staging
  BY DEF ArtifactInv, Art!Idle, Staging
<1> QED BY <1>1, ArtifactRests, ArtifactLook

LEMMA ArtifactUnpin ==
  ASSUME ArtifactInv, ArtifactConstants, NEW u \in Users, Art!Unpin(u)
  PROVE  ArtifactInv'
<1>1. calls[u].at \in RowSteps /\ "active" \in Art!Retentions /\ UNCHANGED <<store, world, history>>
  BY DEF Art!Unpin, RowSteps, Art!Retentions
<1>2. \/ Art!To(u, Art!Idle)
      \/ Art!Write(u, calls[u].id, [calls[u].row EXCEPT !.retention = "active"])
  BY DEF Art!Unpin
<1> QED BY <1>1, <1>2, ArtifactGivesUp, ArtifactWrites

LEMMA ArtifactPin ==
  ASSUME ArtifactInv, ArtifactConstants, NEW u \in Users, Art!Pin(u)
  PROVE  ArtifactInv'
<1>1. calls[u].at \in RowSteps /\ calls[u].at \in PinSteps /\ "pinned" \in Art!Retentions /\ UNCHANGED <<store, world, history>>
  BY DEF Art!Pin, RowSteps, PinSteps, Art!Retentions
<1>2. \/ Art!To(u, Art!Idle)
      \/ /\ Art!Pinnable(calls[u].id, calls[u].row)
         /\ Art!Write(u, calls[u].id, [calls[u].row EXCEPT !.retention = "pinned"])
  BY DEF Art!Pin
<1>3. Art!Pinnable(calls[u].id, calls[u].row) =>
        calls[u].row.retention = "pinned" \/ Kept(calls[u].id, calls[u].row, world, history)
  BY DEF Art!Pinnable, Art!InArchive, Kept
<1> QED BY <1>1, <1>2, <1>3, ArtifactGivesUp, ArtifactWrites

\* The retention after a restoration.
LEMMA RestoredIs ==
  ASSUME NEW row, NEW a, NEW w, NEW h, GoodRow(a, row, w, h)
  PROVE  \E retention \in Art!Retentions :
           /\ Art!Restored(row) = [row EXCEPT !.retention = retention]
           /\ retention = "pinned" => row.retention = "pinned"
BY DEF Art!Restored, Art!Retentions, GoodRow

LEMMA ArtifactRestore ==
  ASSUME ArtifactInv, ArtifactConstants, NEW u \in Users, Art!Restore(u)
  PROVE  ArtifactInv'
<1> DEFINE a == calls[u].id
           old == calls[u].row
           c == [calls[u] EXCEPT !.at = "put"]
<1>1. calls[u].at = "restore" /\ UNCHANGED <<store, world, history>>
  BY DEF Art!Restore
<1>2. RowCall(calls[u], store, world, history)
  BY <1>1, ArtifactAt DEF ArtifactInv, RowSteps
<1>3. \/ Art!To(u, Art!Idle)
      \/ Art!Write(u, a, Art!Restored(old))
      \/ Art!To(u, c)
  BY DEF Art!Restore
<1>4. CASE Art!Write(u, a, Art!Restored(old))
  <2>1. PICK retention \in Art!Retentions :
          Art!Restored(old) = [old EXCEPT !.retention = retention] /\ (retention = "pinned" => old.retention = "pinned")
    BY <1>2, RestoredIs DEF RowCall
  <2> QED BY <1>1, <1>4, <2>1, ArtifactWrites DEF RowSteps, PinSteps
<1>5. CASE Art!To(u, c)
  <2>1. c = [at |-> "put", id |-> a, row |-> old]
    BY <1>2 DEF RowCall
  <2>2. RowCall(c, store, world, history)
    <3> HIDE DEF c
    <3> QED BY <1>1, <1>2, <2>1 DEF RowCall, RowSteps, PinSteps
  <2>3. ArtifactCall(c, store, world, history) /\ c.at # "insert" /\ c.at \notin Staging
    BY <2>1, <2>2 DEF ArtifactCall, Staging
  <2>4. HistoryTyped(history')
    BY <1>1 DEF ArtifactInv
  <2> HIDE DEF c
  <2> QED BY <1>1, <1>5, <2>3, <2>4, ArtifactLook
<1> QED BY <1>1, <1>3, <1>4, <1>5, ArtifactGivesUp

\* A row is replaced by a copy of it that is as good.
LEMMA ArtifactStored ==
  ASSUME ArtifactInv, NEW u \in Users, NEW c, NEW a \in Artifacts, NEW row, Art!To(u, c),
         store' = [store EXCEPT ![a] = row], world' = world, history' = history, store[a] # None,
         GoodRow(a, row, world, history), row.retention = "pinned" => Kept(a, row, world, history),
         ArtifactCall(c, store, world, history), c.at # "insert", c.at \notin Staging
  PROVE  ArtifactInv'
<1>1. Grows(history, history') /\ ArchivesStay(world, world', history')
  BY DEF Grows, ArchivesStay
<1>2. /\ FilesTyped(world', history') /\ HistoryTyped(history') /\ store = [b \in Artifacts |-> store[b]]
      /\ \A b \in Artifacts : ArtifactRow(b, store, world, history)
      /\ \A v \in Users : ArtifactCall(calls[v], store, world, history)
      /\ \A w, v \in Users : w # v => Apart(calls[w], calls[v], history)
  BY DEF ArtifactInv
<1>3. store' = [b \in Artifacts |-> store'[b]] /\ store'[a] = row /\ \A b \in Artifacts \ {a} : store'[b] = store[b]
  BY <1>2
<1>4. row # None
  BY DEF GoodRow
<1>5. \A b \in Artifacts : ArtifactRow(b, store', world', history')
  <2>1. ArtifactRow(a, store', world', history')
    <3>1. a \in history.tampered \/ a \in history.deletions \/ world.files[a] = "good"
      BY <1>2 DEF ArtifactRow
    <3> QED BY <1>3, <3>1 DEF ArtifactRow
  <2>2. \A b \in Artifacts \ {a} : ArtifactRow(b, store', world', history')
    BY <1>2, <1>3 DEF ArtifactRow
  <2> QED BY <2>1, <2>2
<1>6. \A b \in Artifacts : (store[b] # None => store'[b] # None) /\ (store[b] = None => store'[b] = None)
  BY <1>3, <1>4
<1>7. ASSUME NEW k, ArtifactCall(k, store, world, history) PROVE ArtifactCall(k, store', world', history')
  <2>1. k.at = "insert" => store'[k.id] = None
    BY <1>6, <1>7, ArtifactAt DEF InsertCall
  <2> QED BY <1>1, <1>6, <1>7, <2>1, ArtifactCallStays
<1>8. \A v \in Users \ {u} : Apart(c, calls[v], history')
  BY DEF Apart
<1> QED BY <1>1, <1>2, <1>3, <1>5, <1>7, <1>8, ArtifactStep

LEMMA ArtifactUpdate ==
  ASSUME ArtifactInv, NEW u \in Users, Art!Update(u)
  PROVE  ArtifactInv'
<1>1. calls[u].at = "update" /\ Art!To(u, Art!Idle) /\ world' = world /\ history' = history
  BY DEF Art!Update
<1>2. store' = store \/ store' = [store EXCEPT ![calls[u].id] = calls[u].row]
  BY DEF Art!Update
<1>3. RowCall(calls[u], store, world, history)
  BY <1>1, ArtifactAt DEF ArtifactInv, RowSteps
<1>4. /\ calls[u].id \in Artifacts /\ store[calls[u].id] # None /\ GoodRow(calls[u].id, calls[u].row, world, history)
      /\ calls[u].row.retention = "pinned" => Kept(calls[u].id, calls[u].row, world, history)
  BY <1>1, <1>3 DEF RowCall, PinSteps
<1>5. Art!Idle.at # "insert" /\ Art!Idle.at \notin Staging
  BY DEF Art!Idle, Staging
<1>6. CASE store' = store
  BY <1>1, <1>6, ArtifactGivesUp
<1>7. CASE store' = [store EXCEPT ![calls[u].id] = calls[u].row]
  BY <1>1, <1>4, <1>5, <1>7, ArtifactRests, ArtifactStored
<1> QED BY <1>2, <1>6, <1>7

\* A row that names an archive with its artifact.
LEMMA ArchivedRow ==
  ASSUME ArtifactConstants, NEW c, NEW rows, NEW w, NEW h, ExportCall(c, rows, w, h), c.at = "mark", NEW a \in c.left
  PROVE  LET row == Art!Archived(c.rows[a], c.dest, c.manifest)
         IN a \in Artifacts /\ rows[a] # None /\ GoodRow(a, row, w, h) /\ Kept(a, row, w, h)
<1> DEFINE row == Art!Archived(c.rows[a], c.dest, c.manifest)
           archive == [at |-> c.dest, manifest |-> c.manifest]
           retention == IF c.rows[a].retention = "pinned" THEN "pinned" ELSE "archived"
<1>1. /\ c.dest \in Destinations /\ a \in c.manifest.ids /\ c.manifest.ids \subseteq Artifacts
      /\ c.dest \in Touch(h) \/ Whole(w.archives[c.dest], c.manifest)
      /\ rows[a] # None
  BY DEF ExportCall, Manifest
<1>2. row = [retention |-> retention, archive |-> archive] /\ retention \in Art!Retentions
  BY DEF Art!Archived, Art!Retentions
<1> HIDE DEF retention
<1>3. archive.at = c.dest /\ archive.manifest = c.manifest /\ archive # None
  BY DEF ArtifactConstants
<1> HIDE DEF archive, row
<1>4. row.retention = retention /\ row.archive = archive /\ row # None
  BY <1>2 DEF ArtifactConstants
<1>5. GoodRow(a, row, w, h)
  BY <1>1, <1>2, <1>3, <1>4 DEF GoodRow
<1>6. Kept(a, row, w, h)
  BY <1>1, <1>3, <1>4 DEF Kept, Whole
<1> USE DEF row
<1> QED BY <1>1, <1>5, <1>6

LEMMA ArtifactMark ==
  ASSUME ArtifactInv, ArtifactConstants, NEW u \in Users, Art!Mark(u)
  PROVE  ArtifactInv'
<1>1. calls[u].at = "mark" /\ world' = world /\ history' = history
  BY DEF Art!Mark
<1>2. ExportCall(calls[u], store, world, history)
  BY <1>1, ArtifactAt DEF ArtifactInv, ExportSteps
<1>3. CASE calls[u].left = {}
  BY <1>1, <1>3, ArtifactGivesUp DEF Art!Mark
<1>4. CASE calls[u].left # {}
  <2>1. PICK reply \in Art!Replies, a \in calls[u].left :
          /\ Art!To(u, IF reply = "done" THEN [calls[u] EXCEPT !.left = @ \ {a}] ELSE Art!Idle)
          /\ store' = IF reply = "failed" THEN store
                      ELSE [store EXCEPT ![a] = Art!Archived(calls[u].rows[a], calls[u].dest, calls[u].manifest)]
    BY <1>4 DEF Art!Mark
  <2> DEFINE c == [calls[u] EXCEPT !.left = @ \ {a}]
             row == Art!Archived(calls[u].rows[a], calls[u].dest, calls[u].manifest)
             k == IF reply = "done" THEN c ELSE Art!Idle
  <2>2. a \in Artifacts /\ store[a] # None /\ GoodRow(a, row, world, history) /\ Kept(a, row, world, history)
    BY <1>1, <1>2, ArchivedRow
  <2>3. c = [at |-> "mark", dest |-> calls[u].dest, left |-> calls[u].left \ {a}, rows |-> calls[u].rows,
             manifest |-> calls[u].manifest]
    BY <1>1, <1>2 DEF ExportCall
  <2> HIDE DEF c, row
  <2>4. ExportCall(c, store, world, history)
    BY <1>1, <1>2, <2>3 DEF ExportCall, Staging
  <2>5. ArtifactCall(k, store, world, history) /\ k.at # "insert" /\ k.at \notin Staging
    BY <2>3, <2>4 DEF ArtifactCall, Art!Idle, Staging
  <2>6. Art!To(u, k)
    BY <2>1 DEF c
  <2> HIDE DEF k
  <2>7. CASE reply = "failed"
    BY <1>1, <2>1, <2>7, ArtifactGivesUp
  <2>8. CASE reply # "failed"
    <3>1. store' = [store EXCEPT ![a] = row]
      BY <2>1, <2>8 DEF row
    <3> QED BY <1>1, <2>2, <2>5, <2>6, <3>1, ArtifactStored
  <2> QED BY <2>7, <2>8
<1> QED BY <1>3, <1>4

\* One file changes, nothing else of the world.
LEMMA ArtifactFile ==
  ASSUME ArtifactInv, NEW a \in Artifacts, NEW content \in Art!Contents, world' = [world EXCEPT !.files[a] = content],
         history'.crossed = history.crossed \/ history.crossed \subseteq history'.crossed
  PROVE  /\ FilesTyped(world', history') /\ world'.archives = world.archives /\ world'.staging = world.staging
         /\ world'.files[a] = content /\ \A b \in Artifacts \ {a} : world'.files[b] = world.files[b]
<1>1. FilesTyped(world, history)
  BY DEF ArtifactInv
<1> DEFINE files == [world.files EXCEPT ![a] = content]
<1>2. world' = [files |-> files, archives |-> world.archives, staging |-> world.staging]
  BY <1>1 DEF FilesTyped
<1>3. files \in [Artifacts -> Art!Contents] /\ files[a] = content /\ \A b \in Artifacts \ {a} : files[b] = world.files[b]
  BY <1>1 DEF FilesTyped
<1> HIDE DEF files
<1> QED BY <1>1, <1>2, <1>3 DEF FilesTyped

LEMMA ArtifactSave ==
  ASSUME ArtifactInv, NEW u \in Users, NEW a \in Artifacts, Art!Save(u, a)
  PROVE  ArtifactInv'
<1> DEFINE c == [at |-> "insert", id |-> a]
<1>1. /\ store[a] = None /\ \A v \in Users : calls[v].at = "insert" => calls[v].id # a
      /\ world' = [world EXCEPT !.files[a] = "good"] /\ Art!To(u, c) /\ store' = store
  BY DEF Art!Save
<1>2. /\ HistoryTyped(history') /\ history'.tampered = history.tampered
      /\ history'.deletions = history.deletions /\ history'.crossed = history.crossed
  BY DEF Art!Save, Art!Called, ArtifactInv, HistoryTyped
<1>3. /\ FilesTyped(world', history') /\ world'.archives = world.archives /\ world'.staging = world.staging
      /\ world'.files[a] = "good" /\ \A b \in Artifacts \ {a} : world'.files[b] = world.files[b]
  BY <1>1, <1>2, ArtifactFile DEF Art!Contents
<1>4. Grows(history, history') /\ ArchivesStay(world, world', history')
  BY <1>2, <1>3 DEF Grows, ArchivesStay
<1>5. \A b \in Artifacts : world.files[b] = "good" => world'.files[b] = "good"
  BY <1>3
<1>6. ASSUME NEW b \in Artifacts PROVE ArtifactRow(b, store', world', history')
  <2>1. ArtifactRow(b, store, world, history)
    BY DEF ArtifactInv
  <2>2. store'[b] = store[b] /\ (world.files[b] = "good" => world'.files[b] = "good")
    BY <1>1, <1>5
  <2> QED BY <1>4, <2>1, <2>2, ArtifactRowStays
<1>7. ASSUME NEW v \in Users PROVE ArtifactCall(calls[v], store', world', history')
  <2>1. ArtifactCall(calls[v], store, world, history)
    BY DEF ArtifactInv
  <2>2. calls[v].at = "insert" => store'[calls[v].id] = None /\ calls[v].id \in Artifacts
    BY <1>1, <2>1, ArtifactAt DEF InsertCall
  <2>3. calls[v].at \in PinSteps => calls[v].id \in Artifacts
    BY <2>1, ArtifactAt DEF RowCall, RowSteps, PinSteps
  <2>4. \A b \in Artifacts : store[b] # None => store'[b] # None
    BY <1>1
  <2> QED BY <1>3, <1>4, <1>5, <2>1, <2>2, <2>3, <2>4, ArtifactCallStays
<1>8. ArtifactCall(c, store', world', history')
  BY <1>1, <1>3 DEF ArtifactCall, InsertCall
<1>9. \A v \in Users \ {u} : Apart(c, calls[v], history')
  BY <1>1 DEF Apart, Staging
<1>10. store' = [b \in Artifacts |-> store'[b]]
  BY <1>1 DEF ArtifactInv
<1> QED BY <1>1, <1>2, <1>3, <1>4, <1>6, <1>7, <1>8, <1>9, <1>10, ArtifactStep

LEMMA ArtifactPut ==
  ASSUME ArtifactInv, ArtifactConstants, NEW u \in Users, Art!Put(u)
  PROVE  ArtifactInv'
<1> DEFINE a == calls[u].id
           old == calls[u].row
           row == Art!Restored(old)
           c == [at |-> "update", id |-> a, row |-> row]
<1>1. calls[u].at = "put" /\ store' = store /\ history' = history
  BY DEF Art!Put
<1>2. RowCall(calls[u], store, world, history)
  BY <1>1, ArtifactAt DEF ArtifactInv, RowSteps
<1>3. a \in Artifacts /\ store[a] # None /\ GoodRow(a, old, world, history)
  BY <1>2 DEF RowCall
<1>4. CASE world.files[a] = "bad"
  BY <1>1, <1>4, ArtifactGivesUp DEF Art!Put
<1>5. CASE world.files[a] # "bad"
  <2>1. world' = [world EXCEPT !.files[a] = "good"] /\ Art!To(u, c)
    BY <1>5 DEF Art!Put, Art!Write
  <2>2. /\ FilesTyped(world', history') /\ world'.archives = world.archives /\ world'.staging = world.staging
        /\ world'.files[a] = "good" /\ \A b \in Artifacts \ {a} : world'.files[b] = world.files[b]
    BY <1>1, <1>3, <2>1, ArtifactFile DEF Art!Contents
  <2>3. Grows(history, history') /\ ArchivesStay(world, world', history')
    BY <1>1, <2>2 DEF Grows, ArchivesStay
  <2>4. \A b \in Artifacts : world.files[b] = "good" => world'.files[b] = "good"
    BY <2>2
  <2>5. \A b \in Artifacts : ArtifactRow(b, store', world', history')
    BY <1>1, <2>3, <2>4, ArtifactRowStays DEF ArtifactInv
  <2>6. ASSUME NEW v \in Users PROVE ArtifactCall(calls[v], store', world', history')
    <3>1. ArtifactCall(calls[v], store, world, history)
      BY DEF ArtifactInv
    <3>2. calls[v].at = "insert" => store'[calls[v].id] = None /\ calls[v].id \in Artifacts
      BY <1>1, <3>1, ArtifactAt DEF InsertCall
    <3>3. calls[v].at \in PinSteps => calls[v].id \in Artifacts
      BY <3>1, ArtifactAt DEF RowCall, RowSteps, PinSteps
    <3> QED BY <1>1, <2>2, <2>3, <2>4, <3>1, <3>2, <3>3, ArtifactCallStays
  <2>7. GoodRow(a, row, world', history')
    <3>1. GoodRow(a, old, world', history')
      BY <1>3, <2>3, GoodRowStays
    <3>2. PICK retention \in Art!Retentions : row = [old EXCEPT !.retention = retention]
      BY <1>3, RestoredIs
    <3> HIDE DEF old, row
    <3>3. row = [retention |-> retention, archive |-> old.archive]
      BY <3>1, <3>2 DEF GoodRow
    <3> QED BY <3>1, <3>3 DEF GoodRow, ArtifactConstants
  <2>8. Kept(a, row, world', history')
    BY <2>2 DEF Kept
  <2> HIDE DEF row, a
  <2>9. RowCall(c, store', world', history')
    BY <1>1, <1>3, <2>7, <2>8 DEF RowCall, RowSteps
  <2>10. ArtifactCall(c, store', world', history') /\ c.at # "insert" /\ c.at \notin Staging
    BY <2>9 DEF ArtifactCall, Staging
  <2>11. HistoryTyped(history') /\ store' = [b \in Artifacts |-> store'[b]]
    BY <1>1 DEF ArtifactInv
  <2> HIDE DEF c
  <2>12. \A v \in Users \ {u} : Apart(c, calls[v], history')
    BY <2>10 DEF Apart
  <2> QED BY <2>1, <2>2, <2>3, <2>5, <2>6, <2>10, <2>11, <2>12, ArtifactStep
<1> QED BY <1>4, <1>5

\* The file of an insert that was not answered as done goes again.
LEMMA ArtifactInsert ==
  ASSUME ArtifactInv, ArtifactConstants, NEW u \in Users, Art!Insert(u)
  PROVE  ArtifactInv'
<1> DEFINE a == calls[u].id
           row == [retention |-> "active", archive |-> None]
<1>1. calls[u].at = "insert" /\ Art!To(u, Art!Idle)
  BY DEF Art!Insert
<1>2. PICK reply \in Art!Replies :
        /\ store' = IF reply = "failed" THEN store ELSE [store EXCEPT ![a] = row]
        /\ world' = IF reply = "done" THEN world ELSE [world EXCEPT !.files[a] = None]
        /\ history' = IF reply = "lost" THEN [history EXCEPT !.deletions = @ \cup {a}] ELSE history
  BY DEF Art!Insert
<1>3. a \in Artifacts /\ store[a] = None /\ (a \in history.tampered \/ world.files[a] = "good")
  BY <1>1, ArtifactAt DEF ArtifactInv, InsertCall
<1>4. /\ HistoryTyped(history') /\ history'.tampered = history.tampered /\ history'.crossed = history.crossed
      /\ history.deletions \subseteq history'.deletions /\ (reply = "lost" => a \in history'.deletions)
      /\ history'.deletions \subseteq history.deletions \cup {a}
  BY <1>2 DEF ArtifactInv, HistoryTyped
<1>5. /\ FilesTyped(world', history') /\ world'.archives = world.archives /\ world'.staging = world.staging
      /\ (reply = "done" => world'.files[a] = world.files[a])
      /\ \A b \in Artifacts \ {a} : world'.files[b] = world.files[b]
  <2>1. CASE reply = "done"
    <3>1. world' = world
      BY <1>2, <2>1
    <3> QED BY <1>4, <3>1 DEF ArtifactInv, FilesTyped
  <2>2. CASE reply # "done"
    <3>1. world' = [world EXCEPT !.files[a] = None]
      BY <1>2, <2>2
    <3> HIDE DEF a
    <3> QED BY <1>3, <1>4, <2>2, <3>1, ArtifactFile DEF Art!Contents
  <2> QED BY <2>1, <2>2
<1>6. Grows(history, history') /\ ArchivesStay(world, world', history')
  BY <1>4, <1>5 DEF Grows, ArchivesStay
<1>7. /\ store' = [b \in Artifacts |-> store'[b]] /\ \A b \in Artifacts \ {a} : store'[b] = store[b]
      /\ (reply = "failed" => store'[a] = None) /\ (reply # "failed" => store'[a] = row)
  <2>1. store = [b \in Artifacts |-> store[b]]
    BY DEF ArtifactInv
  <2> HIDE DEF row, a
  <2> QED BY <1>2, <1>3, <2>1
<1>8. ASSUME NEW b \in Artifacts PROVE ArtifactRow(b, store', world', history')
  <2>1. CASE b # a
    <3>1. ArtifactRow(b, store, world, history) /\ store'[b] = store[b] /\ world'.files[b] = world.files[b]
      BY <1>5, <1>7, <2>1 DEF ArtifactInv
    <3> QED BY <1>6, <3>1, ArtifactRowStays
  <2>2. CASE b = a /\ reply = "failed"
    BY <1>7, <2>2 DEF ArtifactRow
  <2>3. CASE b = a /\ reply # "failed"
    <3>1. row = [retention |-> row.retention, archive |-> row.archive] /\ row.archive = None /\ row.retention = "active" /\ row # None
      BY DEF ArtifactConstants
    <3> HIDE DEF row, a
    <3>2. store'[a] = row /\ GoodRow(a, row, world', history')
      BY <1>7, <2>3, <3>1 DEF GoodRow, Art!Retentions
    <3>3. a \in history'.tampered \/ a \in history'.deletions \/ world'.files[a] = "good"
      BY <1>3, <1>4, <1>5, <2>3 DEF Art!Replies
    <3> QED BY <2>3, <3>1, <3>2, <3>3 DEF ArtifactRow
  <2> QED BY <2>1, <2>2, <2>3
<1>9. ASSUME NEW v \in Users \ {u} PROVE ArtifactCall(calls[v], store', world', history')
  <2>1. ArtifactCall(calls[v], store, world, history) /\ Apart(calls[u], calls[v], history)
    BY DEF ArtifactInv
  <2>2. calls[v].at = "insert" => calls[v].id \in Artifacts \ {a} /\ store[calls[v].id] = None
    BY <1>1, <2>1, ArtifactAt DEF InsertCall, Apart
  <2>3. calls[v].at \in PinSteps => calls[v].id \in Artifacts \ {a}
    BY <1>3, <2>1, ArtifactAt DEF RowCall, RowSteps, PinSteps
  <2>4. \A b \in Artifacts : store[b] # None => store'[b] # None
    BY <1>3, <1>7
  <2> HIDE DEF a
  <2> QED BY <1>5, <1>6, <1>7, <2>1, <2>2, <2>3, <2>4, ArtifactCallStays
<1>10. \A v \in Users \ {u} : Apart(Art!Idle, calls[v], history')
  BY DEF Apart, Art!Idle, Staging
<1> QED BY <1>1, <1>4, <1>5, <1>6, <1>7, <1>8, <1>9, <1>10, ArtifactRests, ArtifactStep

\* The deletion of a file that another handler works on, or that has been pinned,
\* is noticed.
LEMMA ArtifactDelete ==
  ASSUME ArtifactInv, ArtifactConstants, NEW u \in Users, Art!Delete(u)
  PROVE  ArtifactInv'
<1> DEFINE a == calls[u].id
           old == calls[u].row
           row == [old EXCEPT !.retention = "deleted"]
           c == [at |-> "update", id |-> a, row |-> row]
<1>1. /\ calls[u].at = "delete" /\ store' = store /\ world' = [world EXCEPT !.files[a] = None] /\ Art!To(u, c)
      /\ history' = [history EXCEPT !.deletions = @ \cup {a},
           !.crossed = IF Art!Shares(u, a) \/ store[a].retention = "pinned" THEN @ \cup {a} ELSE @]
  BY DEF Art!Delete, Art!Write
<1>2. a \in Artifacts /\ store[a] # None /\ GoodRow(a, old, world, history)
  BY <1>1, ArtifactAt DEF ArtifactInv, RowCall, RowSteps
<1>3. /\ HistoryTyped(history') /\ history'.tampered = history.tampered /\ history'.deletions = history.deletions \cup {a}
      /\ history.crossed \subseteq history'.crossed
      /\ Art!Shares(u, a) \/ store[a].retention = "pinned" => a \in history'.crossed
  <2>1. HistoryTyped(history)
    BY DEF ArtifactInv
  <2> DEFINE crossed == IF Art!Shares(u, a) \/ store[a].retention = "pinned" THEN history.crossed \cup {a} ELSE history.crossed
  <2>2. history' = [tampered |-> history.tampered, deletions |-> history.deletions \cup {a}, crossed |-> crossed,
                    unchecked |-> history.unchecked, overlapped |-> history.overlapped]
    BY <1>1, <2>1 DEF HistoryTyped
  <2> QED BY <2>2 DEF HistoryTyped
<1>4. /\ FilesTyped(world', history') /\ world'.archives = world.archives /\ world'.staging = world.staging
      /\ \A b \in Artifacts \ {a} : world'.files[b] = world.files[b]
  BY <1>1, <1>2, <1>3, ArtifactFile DEF Art!Contents
<1>5. Grows(history, history') /\ ArchivesStay(world, world', history')
  BY <1>3, <1>4 DEF Grows, ArchivesStay
<1>6. ASSUME NEW b \in Artifacts PROVE ArtifactRow(b, store', world', history')
  <2>1. ArtifactRow(b, store, world, history) /\ store'[b] = store[b]
    BY <1>1 DEF ArtifactInv
  <2>2. b # a => world'.files[b] = world.files[b]
    BY <1>4
  <2>3. b = a => b \in history'.deletions /\ (store[b].retention = "pinned" => b \in Touch(history'))
    BY <1>3 DEF Touch
  <2> HIDE DEF a
  <2> QED BY <1>5, <2>1, <2>2, <2>3, ArtifactRowStays
<1>7. ASSUME NEW v \in Users \ {u} PROVE ArtifactCall(calls[v], store', world', history')
  <2>1. ArtifactCall(calls[v], store, world, history)
    BY DEF ArtifactInv
  <2>2. calls[v].at = "insert" => calls[v].id \in Artifacts \ {a} /\ store'[calls[v].id] = None
    BY <1>1, <1>2, <2>1, ArtifactAt DEF InsertCall
  <2>3. calls[v].at \in PinSteps => calls[v].id \in Artifacts
    BY <2>1, ArtifactAt DEF RowCall, RowSteps, PinSteps
  <2>4. calls[v].at \in PinSteps /\ calls[v].id = a => a \in Touch(history')
    BY <1>3 DEF Art!Shares, PinSteps, Touch
  <2>5. \A b \in Artifacts : store[b] # None => store'[b] # None
    BY <1>1
  <2> HIDE DEF a
  <2> QED BY <1>4, <1>5, <2>1, <2>2, <2>3, <2>4, <2>5, ArtifactCallStays
<1> HIDE DEF old
<1>8. row = [retention |-> "deleted", archive |-> old.archive]
  BY <1>2 DEF GoodRow
<1>9. GoodRow(a, row, world', history')
  <2>1. GoodRow(a, old, world', history')
    BY <1>2, <1>5, GoodRowStays
  <2> HIDE DEF row
  <2> QED BY <1>8, <2>1 DEF GoodRow, ArtifactConstants, Art!Retentions
<1>10. row.retention # "pinned"
  BY <1>8
<1>11. RowCall(c, store', world', history')
  <2> HIDE DEF row, a
  <2> QED BY <1>1, <1>2, <1>9, <1>10 DEF RowCall, RowSteps
<1>12. ArtifactCall(c, store', world', history') /\ c.at # "insert" /\ c.at \notin Staging
  BY <1>11 DEF ArtifactCall, Staging
<1>13. store' = [b \in Artifacts |-> store'[b]]
  BY <1>1 DEF ArtifactInv
<1>14. Art!To(u, c)
  BY <1>1 DEF old
<1> HIDE DEF c
<1>15. \A v \in Users \ {u} : Apart(c, calls[v], history')
  BY <1>12 DEF Apart
<1> QED BY <1>3, <1>4, <1>5, <1>6, <1>7, <1>12, <1>13, <1>14, <1>15, ArtifactStep

\* An export changes the staging directory of its destination, or puts an archive
\* where there is none.
LEMMA ArtifactPlaces ==
  ASSUME ArtifactInv, NEW u \in Users, NEW c, NEW d \in Destinations, Art!To(u, c), store' = store,
         FilesTyped(world', history'), world'.files = world.files, HistoryTyped(history'), Grows(history, history'),
         ArchivesStay(world, world', history'),
         \A e \in Destinations \ {d} : world'.staging[e] = world.staging[e],
         \A v \in Users \ {u} : calls[v].at \in Staging /\ calls[v].dest = d => d \in history'.crossed,
         ArtifactCall(c, store, world', history'), c.at # "insert", c.at \in Staging => c.dest = d
  PROVE  ArtifactInv'
<1>1. ASSUME NEW b \in Artifacts PROVE ArtifactRow(b, store', world', history')
  <2>1. ArtifactRow(b, store, world, history)
    BY DEF ArtifactInv
  <2> QED BY <2>1, ArtifactRowStays
<1>2. ASSUME NEW v \in Users \ {u} PROVE ArtifactCall(calls[v], store', world', history')
  <2>1. ArtifactCall(calls[v], store, world, history)
    BY DEF ArtifactInv
  <2>2. calls[v].at = "insert" => store'[calls[v].id] = None
    BY <2>1, ArtifactAt DEF InsertCall
  <2>3. calls[v].at \in Staging => calls[v].dest \in Destinations
    BY <2>1, ArtifactAt DEF ExportCall, Staging, ExportSteps
  <2>4. calls[v].at \in Staging /\ calls[v].dest \notin history'.crossed => world'.staging[calls[v].dest] = world.staging[calls[v].dest]
    BY <2>3
  <2> QED BY <2>1, <2>2, <2>4, ArtifactCallStays
<1>3. \A v \in Users \ {u} : Apart(c, calls[v], history')
  BY DEF Apart
<1>4. store' = [b \in Artifacts |-> store'[b]]
  BY DEF ArtifactInv
<1> QED BY <1>1, <1>2, <1>3, <1>4, ArtifactStep

\* What an export does to the world: the staging directory becomes dir.
LEMMA StagingBecomes ==
  ASSUME ArtifactInv, NEW d \in Destinations, NEW dir, dir # None => Directory(dir),
         world' = [world EXCEPT !.staging[d] = dir], history.crossed \subseteq history'.crossed
  PROVE  /\ FilesTyped(world', history') /\ world'.files = world.files /\ world'.archives = world.archives
         /\ world'.staging[d] = dir /\ \A e \in Destinations \ {d} : world'.staging[e] = world.staging[e]
<1>1. FilesTyped(world, history)
  BY DEF ArtifactInv
<1> DEFINE staging == [world.staging EXCEPT ![d] = dir]
<1>2. world' = [files |-> world.files, archives |-> world.archives, staging |-> staging]
  BY <1>1 DEF FilesTyped
<1>3. /\ staging = [e \in Destinations |-> staging[e]] /\ staging[d] = dir
      /\ \A e \in Destinations \ {d} : staging[e] = world.staging[e]
  BY <1>1 DEF FilesTyped
<1> HIDE DEF staging
<1> QED BY <1>1, <1>2, <1>3 DEF FilesTyped

\* Whoever else fills a staging directory, that was noticed.
LEMMA OneStages ==
  ASSUME ArtifactInv, NEW u \in Users, calls[u].at \in Staging
  PROVE  \A v \in Users \ {u} : calls[v].at \in Staging /\ calls[v].dest = calls[u].dest => calls[u].dest \in history.crossed
BY DEF ArtifactInv, Apart

LEMMA ArtifactMakeStaging ==
  ASSUME ArtifactInv, ArtifactConstants, NEW u \in Users, Art!MakeStaging(u)
  PROVE  ArtifactInv'
<1> DEFINE d == calls[u].dest
           c == [calls[u] EXCEPT !.at = "copy"]
<1>1. calls[u].at = "make" /\ Art!To(u, c) /\ store' = store
  BY DEF Art!MakeStaging
<1>2. ExportCall(calls[u], store, world, history)
  BY <1>1, ArtifactAt DEF ArtifactInv, ExportSteps
<1>3. d \in Destinations
  BY <1>2 DEF ExportCall
<1>4. c = [at |-> "copy", dest |-> d, left |-> calls[u].left, rows |-> calls[u].rows, manifest |-> calls[u].manifest]
  BY <1>2 DEF ExportCall
<1>5. CASE world.staging[d] = None
  <2>1. world' = [world EXCEPT !.staging[d] = Art!NoArchive] /\ history' = history
    BY <1>5 DEF Art!MakeStaging
  <2>2. Directory(Art!NoArchive) /\ Art!NoArchive # None
    BY DEF Directory, Art!NoArchive, Art!NoFiles, Art!Contents, ArtifactConstants
  <2>3. /\ FilesTyped(world', history') /\ world'.files = world.files /\ world'.archives = world.archives
        /\ world'.staging[d] = Art!NoArchive /\ \A e \in Destinations \ {d} : world'.staging[e] = world.staging[e]
    <3> HIDE DEF d
    <3> QED BY <1>3, <2>1, <2>2, StagingBecomes
  <2>4. Grows(history, history') /\ ArchivesStay(world, world', history') /\ HistoryTyped(history')
    BY <2>1, <2>3 DEF Grows, ArchivesStay, ArtifactInv
  <2>5. \A v \in Users \ {u} : calls[v].at \in Staging /\ calls[v].dest = d => d \in history'.crossed
    BY <1>5, <2>1, ArtifactAt DEF ArtifactInv, ExportCall, Staging, ExportSteps
  <2>6. \A a \in calls[u].manifest.ids : store[a] # None /\ GoodRow(a, calls[u].rows[a], world', history')
    BY <1>2, <2>4, GoodRowStays DEF ExportCall
  <2>7. ExportCall(c, store, world', history')
    <3>1. /\ Manifest(calls[u].manifest) /\ calls[u].left = calls[u].manifest.ids
      BY <1>1, <1>2 DEF ExportCall
    <3> HIDE DEF d, c
    <3> QED BY <1>3, <1>4, <2>2, <2>3, <2>6, <3>1 DEF ExportCall, ExportSteps, Staging
  <2>8. ArtifactCall(c, store, world', history') /\ c.at # "insert" /\ c.dest = d
    BY <1>4, <2>7 DEF ArtifactCall
  <2> HIDE DEF c, d
  <2> QED BY <1>1, <1>3, <2>3, <2>4, <2>5, <2>8, ArtifactPlaces
<1>6. CASE world.staging[d] # None
  <2>1. world' = world /\ history' = [history EXCEPT !.crossed = @ \cup {d}]
    BY <1>6 DEF Art!MakeStaging
  <2>2. /\ HistoryTyped(history') /\ Grows(history, history') /\ d \in history'.crossed
    BY <2>1 DEF ArtifactInv, HistoryTyped, Grows
  <2>3. FilesTyped(world', history') /\ ArchivesStay(world, world', history')
    BY <2>1, <2>2 DEF ArtifactInv, FilesTyped, ArchivesStay, Grows
  <2>4. \A a \in calls[u].manifest.ids : store[a] # None /\ GoodRow(a, calls[u].rows[a], world', history')
    BY <1>2, <2>2, <2>3, GoodRowStays DEF ExportCall
  <2>5. ExportCall(c, store, world', history')
    <3>1. /\ Manifest(calls[u].manifest) /\ calls[u].left = calls[u].manifest.ids
      BY <1>1, <1>2 DEF ExportCall
    <3> HIDE DEF d, c
    <3> QED BY <1>3, <1>4, <2>2, <2>4, <3>1 DEF ExportCall, ExportSteps, Staging
  <2>6. ArtifactCall(c, store, world', history') /\ c.at # "insert" /\ c.dest = d
    BY <1>4, <2>5 DEF ArtifactCall
  <2> HIDE DEF c, d
  <2> QED BY <1>1, <1>3, <2>1, <2>2, <2>3, <2>6, ArtifactPlaces
<1> QED BY <1>5, <1>6

\* What fails before the rename takes the staging directory away.
LEMMA ArtifactAbandoned ==
  ASSUME ArtifactInv, ArtifactConstants, NEW u \in Users, calls[u].at \in Staging, Art!Abandoned(u),
         store' = store, history' = history
  PROVE  ArtifactInv'
<1> DEFINE d == calls[u].dest
<1>1. world' = [world EXCEPT !.staging[d] = None] /\ Art!To(u, Art!Idle)
  BY DEF Art!Abandoned
<1>2. d \in Destinations
  BY ArtifactAt DEF ArtifactInv, ExportCall, Staging, ExportSteps
<1>3. \A v \in Users \ {u} : calls[v].at \in Staging /\ calls[v].dest = d => d \in history'.crossed
  BY OneStages
<1> HIDE DEF d
<1>4. /\ FilesTyped(world', history') /\ world'.files = world.files /\ world'.archives = world.archives
      /\ \A e \in Destinations \ {d} : world'.staging[e] = world.staging[e]
  BY <1>1, <1>2, StagingBecomes
<1>5. Grows(history, history') /\ ArchivesStay(world, world', history') /\ HistoryTyped(history')
  BY <1>4 DEF Grows, ArchivesStay, ArtifactInv
<1>6. Art!Idle.at # "insert" /\ Art!Idle.at \notin Staging
  BY DEF Art!Idle, Staging
<1> QED BY <1>1, <1>2, <1>3, <1>4, <1>5, <1>6, ArtifactRests, ArtifactPlaces

\* A directory is made, and changed.
LEMMA DirectoryMade ==
  ASSUME NEW dir, Directory(dir)
  PROVE  /\ \A m : LET d2 == [dir EXCEPT !.manifest = m] IN Directory(d2) /\ d2.files = dir.files /\ d2.manifest = m
         /\ \A a \in Artifacts :
              LET d2 == [dir EXCEPT !.files[a] = "good"]
              IN /\ Directory(d2) /\ d2.files[a] = "good" /\ d2.manifest = dir.manifest
                 /\ \A b \in Artifacts \ {a} : d2.files[b] = dir.files[b]
<1>1. ASSUME NEW m PROVE LET d2 == [dir EXCEPT !.manifest = m] IN Directory(d2) /\ d2.files = dir.files /\ d2.manifest = m
  <2>1. [dir EXCEPT !.manifest = m] = [files |-> dir.files, manifest |-> m]
    BY DEF Directory
  <2> QED BY <2>1 DEF Directory
<1>2. ASSUME NEW a \in Artifacts
      PROVE  LET d2 == [dir EXCEPT !.files[a] = "good"]
             IN /\ Directory(d2) /\ d2.files[a] = "good" /\ d2.manifest = dir.manifest
                /\ \A b \in Artifacts \ {a} : d2.files[b] = dir.files[b]
  <2> DEFINE files == [dir.files EXCEPT ![a] = "good"]
  <2>1. [dir EXCEPT !.files[a] = "good"] = [files |-> files, manifest |-> dir.manifest]
    BY DEF Directory
  <2>2. files \in [Artifacts -> Art!Contents] /\ files[a] = "good" /\ \A b \in Artifacts \ {a} : files[b] = dir.files[b]
    BY DEF Directory, Art!Contents
  <2> HIDE DEF files
  <2> QED BY <2>1, <2>2 DEF Directory
<1> QED BY <1>1, <1>2

LEMMA ArtifactCopy ==
  ASSUME ArtifactInv, ArtifactConstants, NEW u \in Users, Art!Copy(u)
  PROVE  ArtifactInv'
<1> DEFINE d == calls[u].dest
           dir == world.staging[d]
<1>1. calls[u].at = "copy" /\ calls[u].at \in Staging /\ store' = store /\ history' = history
  BY DEF Art!Copy, Staging
<1>2. ExportCall(calls[u], store, world, history)
  BY <1>1, ArtifactAt DEF ArtifactInv, ExportSteps
<1>3. /\ d \in Destinations /\ Manifest(calls[u].manifest) /\ calls[u].left \subseteq calls[u].manifest.ids
      /\ \A a \in calls[u].manifest.ids : store[a] # None /\ GoodRow(a, calls[u].rows[a], world, history)
      /\ d \notin history.crossed => \A a \in calls[u].manifest.ids : a \in calls[u].left \/ dir.files[a] = "good"
  BY <1>1, <1>2 DEF ExportCall
<1>4. \A v \in Users \ {u} : calls[v].at \in Staging /\ calls[v].dest = d => d \in history'.crossed
  BY <1>1, OneStages
<1>5. dir # None => Directory(dir)
  BY <1>3 DEF ArtifactInv, FilesTyped
<1>6. Grows(history, history') /\ HistoryTyped(history')
  BY <1>1 DEF Grows, ArtifactInv
<1>7. ASSUME NEW c, NEW d2, NEW left, NEW at \in Staging, Art!To(u, c), dir # None, Directory(d2), d2 # None,
             world' = [world EXCEPT !.staging[d] = d2],
             c = [at |-> at, dest |-> d, left |-> left, rows |-> calls[u].rows, manifest |-> calls[u].manifest],
             left \subseteq calls[u].left,
             \A a \in calls[u].manifest.ids : a \in left \/ d2.files[a] = "good" \/ (a \notin calls[u].left /\ d2.files[a] = dir.files[a]),
             at = "publish" => d2.manifest = calls[u].manifest /\ left = {}
      PROVE  ArtifactInv'
  <2> HIDE DEF d, dir
  <2>1. /\ FilesTyped(world', history') /\ world'.files = world.files /\ world'.archives = world.archives
        /\ world'.staging[d] = d2 /\ \A e \in Destinations \ {d} : world'.staging[e] = world.staging[e]
    BY <1>1, <1>3, <1>7, StagingBecomes
  <2>2. ArchivesStay(world, world', history')
    BY <2>1 DEF ArchivesStay
  <2>3. \A a \in calls[u].manifest.ids : store[a] # None /\ GoodRow(a, calls[u].rows[a], world', history')
    BY <1>3, <1>6, <2>2, GoodRowStays
  <2>4. d \notin history'.crossed => \A a \in calls[u].manifest.ids : a \in left \/ world'.staging[d].files[a] = "good"
    BY <1>1, <1>3, <1>7, <2>1
  <2>5. ExportCall(c, store, world', history')
    BY <1>3, <1>7, <2>1, <2>3, <2>4 DEF ExportCall, ExportSteps, Staging
  <2>6. ArtifactCall(c, store, world', history') /\ c.at # "insert" /\ c.dest = d
    BY <1>7, <2>5 DEF ArtifactCall, Staging
  <2> QED BY <1>1, <1>3, <1>4, <1>6, <1>7, <2>1, <2>2, <2>6, ArtifactPlaces
<1>8. CASE /\ calls[u].left = {} /\ dir # None
           /\ world' = [world EXCEPT !.staging[d].manifest = calls[u].manifest]
           /\ Art!To(u, [calls[u] EXCEPT !.at = "publish"])
  <2> DEFINE c == [calls[u] EXCEPT !.at = "publish"]
             d2 == [dir EXCEPT !.manifest = calls[u].manifest]
  <2>1. c = [at |-> "publish", dest |-> d, left |-> calls[u].left, rows |-> calls[u].rows, manifest |-> calls[u].manifest]
    BY <1>2 DEF ExportCall
  <2>2. world' = [world EXCEPT !.staging[d] = d2]
    BY <1>8, <1>3 DEF ArtifactInv, FilesTyped
  <2>3. Directory(d2) /\ d2.files = dir.files /\ d2.manifest = calls[u].manifest
    BY <1>5, <1>8, DirectoryMade
  <2>4. d2 # None
    BY <1>5, <1>8 DEF ArtifactConstants, Directory
  <2>5. Art!To(u, c) /\ "publish" \in Staging /\ dir # None /\ calls[u].left = {}
    BY <1>8 DEF Staging
  <2> HIDE DEF c, d2, d, dir
  <2>6. /\ calls[u].left \subseteq calls[u].left
        /\ \A a \in calls[u].manifest.ids :
             a \in calls[u].left \/ d2.files[a] = "good" \/ (a \notin calls[u].left /\ d2.files[a] = dir.files[a])
    BY <2>3
  <2> QED BY <1>7, <2>1, <2>2, <2>3, <2>4, <2>5, <2>6
<1>9. CASE \E a \in calls[u].left :
             /\ world.files[a] = "good" /\ dir # None
             /\ world' = [world EXCEPT !.staging[d].files[a] = "good"]
             /\ Art!To(u, [calls[u] EXCEPT !.left = @ \ {a}])
  <2>1. PICK a \in calls[u].left :
             /\ dir # None
             /\ world' = [world EXCEPT !.staging[d].files[a] = "good"]
             /\ Art!To(u, [calls[u] EXCEPT !.left = @ \ {a}])
    BY <1>9
  <2> DEFINE left == calls[u].left \ {a}
             c == [calls[u] EXCEPT !.left = @ \ {a}]
             d2 == [dir EXCEPT !.files[a] = "good"]
  <2>2. c = [at |-> "copy", dest |-> d, left |-> left, rows |-> calls[u].rows, manifest |-> calls[u].manifest]
    BY <1>1, <1>2 DEF ExportCall
  <2>3. world' = [world EXCEPT !.staging[d] = d2]
    BY <2>1, <1>3 DEF ArtifactInv, FilesTyped
  <2>4. a \in Artifacts /\ calls[u].manifest.ids \subseteq Artifacts
    BY <1>3 DEF Manifest
  <2>5. Directory(d2) /\ d2.files[a] = "good" /\ \A b \in Artifacts \ {a} : d2.files[b] = dir.files[b]
    BY <1>5, <2>1, <2>4, DirectoryMade
  <2>6. d2 # None
    BY <1>5, <2>1 DEF ArtifactConstants, Directory
  <2>7. Art!To(u, c) /\ "copy" \in Staging /\ dir # None
    BY <2>1 DEF Staging
  <2>8. left \subseteq calls[u].left /\ \A b \in Artifacts : b \notin left => b = a \/ b \notin calls[u].left
    OBVIOUS
  <2> HIDE DEF c, d2, d, dir, left
  <2>9. \A b \in calls[u].manifest.ids :
          b \in left \/ d2.files[b] = "good" \/ (b \notin calls[u].left /\ d2.files[b] = dir.files[b])
    BY <2>4, <2>5, <2>8
  <2> QED BY <1>7, <2>2, <2>3, <2>5, <2>6, <2>7, <2>8, <2>9
<1>10. CASE Art!Abandoned(u)
  BY <1>1, <1>10, ArtifactAbandoned
<1> QED BY <1>8, <1>9, <1>10 DEF Art!Copy

\* The rename puts a whole archive where there is none.
LEMMA ArtifactPublish ==
  ASSUME ArtifactInv, ArtifactConstants, NEW u \in Users, Art!Publish(u)
  PROVE  ArtifactInv'
<1> DEFINE d == calls[u].dest
           dir == world.staging[d]
           c == [calls[u] EXCEPT !.at = "mark", !.left = calls[u].manifest.ids]
<1>1. calls[u].at = "publish" /\ calls[u].at \in Staging /\ store' = store /\ history' = history
  BY DEF Art!Publish, Staging
<1>2. ExportCall(calls[u], store, world, history)
  BY <1>1, ArtifactAt DEF ArtifactInv, ExportSteps
<1>3. /\ d \in Destinations /\ Manifest(calls[u].manifest)
      /\ \A a \in calls[u].manifest.ids : store[a] # None /\ GoodRow(a, calls[u].rows[a], world, history)
      /\ d \notin history.crossed => Whole(dir, calls[u].manifest)
  BY <1>1, <1>2 DEF ExportCall, Staging, Whole
<1>4. \A v \in Users \ {u} : calls[v].at \in Staging /\ calls[v].dest = d => d \in history'.crossed
  BY <1>1, OneStages
<1>5. CASE Art!Abandoned(u)
  BY <1>1, <1>5, ArtifactAbandoned
<1>6. CASE /\ dir # None /\ world.archives[d] = None
           /\ world' = [world EXCEPT !.archives[d] = dir, !.staging[d] = None]
           /\ Art!To(u, c)
  <2>1. FilesTyped(world, history) /\ Directory(dir)
    BY <1>3, <1>6 DEF ArtifactInv, FilesTyped
  <2> DEFINE archives == [world.archives EXCEPT ![d] = dir]
             staging == [world.staging EXCEPT ![d] = None]
  <2>2. world' = [files |-> world.files, archives |-> archives, staging |-> staging]
    BY <1>6, <2>1 DEF FilesTyped
  <2>3. /\ archives = [e \in Destinations |-> archives[e]] /\ archives[d] = dir
        /\ \A e \in Destinations \ {d} : archives[e] = world.archives[e]
        /\ staging = [e \in Destinations |-> staging[e]] /\ staging[d] = None
        /\ \A e \in Destinations \ {d} : staging[e] = world.staging[e]
    BY <1>3, <2>1 DEF FilesTyped
  <2>4. c = [at |-> "mark", dest |-> d, left |-> calls[u].manifest.ids, rows |-> calls[u].rows, manifest |-> calls[u].manifest]
    <3>1. calls[u] = [at |-> calls[u].at, dest |-> d, left |-> calls[u].left, rows |-> calls[u].rows, manifest |-> calls[u].manifest]
      BY <1>2 DEF ExportCall
    <3> DEFINE k == calls[u]
               m == [k EXCEPT !.at = "mark"]
    <3>2. m = [at |-> "mark", dest |-> d, left |-> k.left, rows |-> k.rows, manifest |-> k.manifest]
      BY <3>1
    <3>3. c = [m EXCEPT !.left = k.manifest.ids]
      BY <3>1
    <3> HIDE DEF c, m, d, k
    <3>4. c = [at |-> "mark", dest |-> d, left |-> k.manifest.ids, rows |-> k.rows, manifest |-> k.manifest]
      BY <3>2, <3>3
    <3> QED BY <3>4 DEF k
  <2>5. d \notin history.crossed => dir.manifest = calls[u].manifest /\ dir.manifest # None /\ Whole(dir, dir.manifest)
    BY <1>3 DEF Whole, Manifest, ArtifactConstants
  <2>6. Grows(history, history') /\ HistoryTyped(history')
    BY <1>1 DEF Grows, ArtifactInv
  <2>7. dir # None /\ world.archives[d] = None /\ Art!To(u, c)
    BY <1>6
  <2> HIDE DEF c, d, dir, archives, staging
  <2>8. FilesTyped(world', history')
    BY <1>1, <2>1, <2>2, <2>3, <2>5 DEF FilesTyped
  <2>9. /\ world'.files = world.files /\ ArchivesStay(world, world', history')
        /\ \A e \in Destinations \ {d} : world'.staging[e] = world.staging[e]
    BY <2>2, <2>3, <2>7 DEF ArchivesStay
  <2>10. \A a \in calls[u].manifest.ids : store[a] # None /\ GoodRow(a, calls[u].rows[a], world', history')
    BY <1>3, <2>6, <2>9, GoodRowStays
  <2>11. d \in Touch(history') \/ Whole(world'.archives[d], calls[u].manifest)
    BY <1>1, <1>3, <2>2, <2>3 DEF Touch
  <2>12. ExportCall(c, store, world', history')
    BY <1>3, <2>4, <2>10, <2>11 DEF ExportCall, ExportSteps, Staging
  <2>13. ArtifactCall(c, store, world', history') /\ c.at # "insert" /\ c.dest = d
    BY <2>4, <2>12 DEF ArtifactCall
  <2> QED BY <1>1, <1>3, <1>4, <2>6, <2>7, <2>8, <2>9, <2>13, ArtifactPlaces
<1> QED BY <1>5, <1>6 DEF Art!Publish

\* The process ends: what handlers knew is gone, what is stored stays.
LEMMA ArtifactCrash ==
  ASSUME ArtifactInv, Art!Crash
  PROVE  ArtifactInv'
<1>1. calls' = [u \in Users |-> Art!Idle] /\ UNCHANGED <<store, world, history>>
  BY DEF Art!Crash
<1>2. calls' = [u \in Users |-> calls'[u]] /\ \A u \in Users : calls'[u] = Art!Idle
  BY <1>1
<1>3. \A u \in Users : ArtifactCall(calls'[u], store, world, history)
  BY <1>2, ArtifactRests
<1>4. \A u, v \in Users : u # v => Apart(calls'[u], calls'[v], history)
  BY <1>2 DEF Apart, Art!Idle, Staging
<1> QED BY <1>1, <1>2, <1>3, <1>4 DEF ArtifactInv

\* What is taken away or changed from outside is noticed.
LEMMA ArtifactTampered ==
  ASSUME ArtifactInv, HistoryTyped(history'), Grows(history, history'), history'.crossed = history.crossed,
         FilesTyped(world', history'), ArchivesStay(world, world', history'), world'.staging = world.staging,
         UNCHANGED <<store, calls>>,
         \A a \in Artifacts : world.files[a] = "good" => world'.files[a] = "good" \/ a \in history'.tampered
  PROVE  ArtifactInv'
<1>1. ASSUME NEW b \in Artifacts PROVE ArtifactRow(b, store', world', history')
  <2>1. ArtifactRow(b, store, world, history)
    BY DEF ArtifactInv
  <2> QED BY <2>1, ArtifactRowStays
<1>2. ASSUME NEW v \in Users PROVE ArtifactCall(calls'[v], store', world', history')
  <2>1. ArtifactCall(calls[v], store, world, history)
    BY DEF ArtifactInv
  <2>2. calls[v].at = "insert" => store'[calls[v].id] = None /\ calls[v].id \in Artifacts
    BY <2>1, ArtifactAt DEF InsertCall
  <2>3. calls[v].at \in PinSteps => calls[v].id \in Artifacts
    BY <2>1, ArtifactAt DEF RowCall, RowSteps, PinSteps
  <2>4. calls[v].at \in PinSteps =>
          (world.files[calls[v].id] = "good" => world'.files[calls[v].id] = "good" \/ calls[v].id \in Touch(history'))
    BY <2>3 DEF Touch
  <2> QED BY <2>1, <2>2, <2>4, ArtifactCallStays
<1>3. /\ store' = [a \in Artifacts |-> store'[a]] /\ calls' = [u \in Users |-> calls'[u]]
      /\ \A u, v \in Users : u # v => Apart(calls'[u], calls'[v], history')
  BY DEF ArtifactInv, Apart
<1> QED BY <1>1, <1>2, <1>3 DEF ArtifactInv

LEMMA ArtifactTamper ==
  ASSUME ArtifactInv, ArtifactConstants, Art!Tamper
  PROVE  ArtifactInv'
<1>1. UNCHANGED <<store, calls>> /\ FilesTyped(world, history) /\ HistoryTyped(history)
  BY DEF Art!Tamper, ArtifactInv
<1>2. ASSUME NEW x, history' = [history EXCEPT !.tampered = @ \cup {x}]
      PROVE  /\ HistoryTyped(history') /\ Grows(history, history') /\ history'.crossed = history.crossed
             /\ x \in history'.tampered
  BY <1>1, <1>2 DEF HistoryTyped, Grows
<1>3. CASE \E a \in Artifacts, to \in {None, "bad"} :
             world' = [world EXCEPT !.files[a] = to] /\ history' = [history EXCEPT !.tampered = @ \cup {a}]
  <2>1. PICK a \in Artifacts, to \in {None, "bad"} :
          world' = [world EXCEPT !.files[a] = to] /\ history' = [history EXCEPT !.tampered = @ \cup {a}]
    BY <1>3
  <2>2. /\ HistoryTyped(history') /\ Grows(history, history') /\ history'.crossed = history.crossed /\ a \in history'.tampered
    BY <1>2, <2>1
  <2>3. /\ FilesTyped(world', history') /\ world'.archives = world.archives /\ world'.staging = world.staging
        /\ \A b \in Artifacts \ {a} : world'.files[b] = world.files[b]
    BY <2>1, <2>2, ArtifactFile DEF Art!Contents
  <2>4. ArchivesStay(world, world', history')
    BY <2>3 DEF ArchivesStay
  <2>5. \A b \in Artifacts : world.files[b] = "good" => world'.files[b] = "good" \/ b \in history'.tampered
    BY <2>2, <2>3
  <2> QED BY <1>1, <2>2, <2>3, <2>4, <2>5, ArtifactTampered
<1>4. CASE \E d \in Destinations :
             world' = [world EXCEPT !.archives[d] = None] /\ history' = [history EXCEPT !.tampered = @ \cup {d}]
  <2>1. PICK d \in Destinations :
          world' = [world EXCEPT !.archives[d] = None] /\ history' = [history EXCEPT !.tampered = @ \cup {d}]
    BY <1>4
  <2>2. /\ HistoryTyped(history') /\ Grows(history, history') /\ history'.crossed = history.crossed /\ d \in history'.tampered
    BY <1>2, <2>1
  <2> DEFINE archives == [world.archives EXCEPT ![d] = None]
  <2>3. world' = [files |-> world.files, archives |-> archives, staging |-> world.staging]
    BY <1>1, <2>1 DEF FilesTyped
  <2>4. /\ archives = [e \in Destinations |-> archives[e]] /\ archives[d] = None
        /\ \A e \in Destinations \ {d} : archives[e] = world.archives[e]
    BY <1>1 DEF FilesTyped
  <2> HIDE DEF archives
  <2>5. FilesTyped(world', history')
    BY <1>1, <2>2, <2>3, <2>4 DEF FilesTyped
  <2>6. ArchivesStay(world, world', history') /\ world'.staging = world.staging /\ world'.files = world.files
    BY <2>2, <2>3, <2>4 DEF ArchivesStay, Touch
  <2> QED BY <1>1, <2>2, <2>5, <2>6, ArtifactTampered
<1> QED BY <1>3, <1>4 DEF Art!Tamper

LEMMA ArtifactNext ==
  ASSUME ArtifactConstants, ArtifactInv, [Art!StoreNext]_vars
  PROVE  ArtifactInv'
<1>1. CASE UNCHANGED vars
  BY <1>1 DEF vars, ArtifactInv
<1>2. ASSUME NEW u \in Users, Art!Handle(u) PROVE ArtifactInv'
  <2>1. CASE \/ Art!Insert(u) \/ Art!Update(u) \/ Art!Unpin(u) \/ Art!Pin(u) \/ Art!Restore(u) \/ Art!Put(u) \/ Art!Delete(u)
    BY <2>1, ArtifactInsert, ArtifactUpdate, ArtifactUnpin, ArtifactPin, ArtifactRestore, ArtifactPut, ArtifactDelete
  <2>2. CASE Art!Abandon(u)
    BY <2>2, ArtifactAbandoned DEF Art!Abandon, Staging
  <2>3. CASE Art!MakeStaging(u) \/ Art!Copy(u) \/ Art!Publish(u) \/ Art!Mark(u)
    BY <2>3, ArtifactMakeStaging, ArtifactCopy, ArtifactPublish, ArtifactMark
  <2>4. CASE \E a \in Artifacts : Art!Save(u, a) \/ Art!Read(u, a)
    BY <2>4, ArtifactSave, ArtifactRead
  <2>5. CASE \E ids \in SUBSET Artifacts, d \in Destinations : Art!Export(u, ids, d)
    BY <2>5, ArtifactExport
  <2> QED BY <1>2, <2>1, <2>2, <2>3, <2>4, <2>5 DEF Art!Handle
<1> QED BY <1>1, <1>2, ArtifactCrash, ArtifactTamper DEF Art!StoreNext

\* An archive that a row names is as the row names it.
LEMMA NamedArchive ==
  ASSUME NEW a \in Artifacts, ArtifactInv, store[a] # None, store[a].archive # None
  PROVE  store[a].archive.at \in Destinations /\ (store[a].archive.at \in Touch(history) \/ Art!InArchive(a, store[a]))
BY DEF ArtifactInv, ArtifactRow, GoodRow, Whole, Art!InArchive

LEMMA ArtifactsAreSafe ==
  ASSUME ArtifactConstants
  PROVE  ArtifactSpec => []ArtifactInv
<1>1. ArtifactInv /\ [Art!StoreNext]_vars => ArtifactInv'
  BY ArtifactNext
<1> QED BY <1>1, ArtifactStarts, PTL DEF ArtifactSpec

\* ArtifactStore: what is pinned can be had back, from its file or from the
\* archive that its row names, however handlers, failed writes and crashes
\* interleave, unless somebody took it away or a deletion removed the file under
\* another handler (SetAssuranceArtifactRetention, DeleteAssuranceArtifact,
\* RestoreAssuranceArtifact).
THEOREM PinnedIsRecoverable ==
  ASSUME ArtifactConstants
  PROVE  ArtifactSpec => []Art!PinnedIsRecoverable
<1>1. ArtifactInv => Art!PinnedIsRecoverable
  <2> SUFFICES ASSUME ArtifactInv PROVE Art!PinnedIsRecoverable
    OBVIOUS
  <2>1. SUFFICES ASSUME NEW a \in Artifacts, store[a] # None, store[a].retention = "pinned", Art!Untouched(a)
                 PROVE  Art!Recoverable(a)
    BY DEF Art!PinnedIsRecoverable
  <2>2. a \notin Touch(history) /\ Touch(history) \cap Destinations = {}
    BY <2>1 DEF Art!Untouched, Art!Touched, Touch
  <2>3. Kept(a, store[a], world, history)
    BY <2>1 DEF ArtifactInv, ArtifactRow
  <2> QED BY <2>1, <2>2, <2>3, NamedArchive DEF Kept, Art!Recoverable
<1> QED BY <1>1, ArtifactsAreSafe, PTL

\* ArtifactStore: evidence that is gone was deleted on request, or its insert had
\* no answer, whatever is stored and lost between the steps of the handlers
\* (artifacts.go).
THEOREM OnlyDeletedIsGone ==
  ASSUME ArtifactConstants
  PROVE  ArtifactSpec => []Art!OnlyDeletedIsGone
<1>1. ArtifactInv => Art!OnlyDeletedIsGone
  <2> SUFFICES ASSUME ArtifactInv PROVE Art!OnlyDeletedIsGone
    OBVIOUS
  <2> QED BY DEF ArtifactInv, ArtifactRow, Art!OnlyDeletedIsGone, Art!Recoverable, Art!Untouched, Art!Touched
<1> QED BY <1>1, ArtifactsAreSafe, PTL

\* ArtifactStore: an archive in place is whole and every row that names one names
\* it as it is, unless two exports shared its destination or it was taken away
\* (ExportAssuranceArtifacts).
THEOREM ArchivesAreWhole ==
  ASSUME ArtifactConstants
  PROVE  ArtifactSpec => []Art!ArchivesAreWhole
<1>1. ArtifactInv => Art!ArchivesAreWhole
  <2> SUFFICES ASSUME ArtifactInv PROVE Art!ArchivesAreWhole
    OBVIOUS
  <2>1. ASSUME NEW d \in Destinations \ history.crossed, world.archives[d] # None
        PROVE  /\ world.archives[d].manifest # None
               /\ \A a \in world.archives[d].manifest.ids : world.archives[d].files[a] = "good"
    BY <2>1 DEF ArtifactInv, FilesTyped, Whole
  <2>2. ASSUME NEW a \in Artifacts, store[a] # None, store[a].archive # None
        PROVE  store[a].archive.at \in Art!Touched \/ Art!InArchive(a, store[a])
    BY <2>2, NamedArchive DEF Art!Touched, Touch
  <2> QED BY <2>1, <2>2 DEF Art!ArchivesAreWhole
<1> QED BY <1>1, ArtifactsAreSafe, PTL

\* Cardinality in the instance is that of FiniteSets.
LEMMA UsedIsUsage == Art!Used = Cardinality(Usage(store))
BY DEF Art!Used, Usage, Live, Art!Cardinality, Cardinality

LEMMA UsageGrows ==
  ASSUME QuotaConstants, NEW rows, NEW rows2
  PROVE  /\ IsFiniteSet(Usage(rows)) /\ Cardinality(Usage(rows)) \in Nat
         /\ Usage(rows2) \subseteq Usage(rows) => Cardinality(Usage(rows2)) <= Cardinality(Usage(rows))
         /\ \A a : Usage(rows2) \subseteq Usage(rows) \cup {a} => Cardinality(Usage(rows2)) <= Cardinality(Usage(rows)) + 1
<1>1. IsFiniteSet(Usage(rows)) /\ Cardinality(Usage(rows)) \in Nat /\ IsFiniteSet(Usage(rows2)) /\ Cardinality(Usage(rows2)) \in Nat
  BY FS_Subset, FS_CardinalityType DEF QuotaConstants, Usage
<1>2. Usage(rows2) \subseteq Usage(rows) => Cardinality(Usage(rows2)) <= Cardinality(Usage(rows))
  BY <1>1, FS_Subset
<1>3. ASSUME NEW a, Usage(rows2) \subseteq Usage(rows) \cup {a}
      PROVE  Cardinality(Usage(rows2)) <= Cardinality(Usage(rows)) + 1
  <2>1. IsFiniteSet(Usage(rows) \cup {a}) /\ Cardinality(Usage(rows2)) <= Cardinality(Usage(rows) \cup {a})
    BY <1>1, <1>3, FS_AddElement, FS_Subset
  <2>2. Cardinality(Usage(rows) \cup {a}) = Cardinality(Usage(rows)) \/ Cardinality(Usage(rows) \cup {a}) = Cardinality(Usage(rows)) + 1
    BY <1>1, FS_AddElement
  <2> QED BY <1>1, <2>1, <2>2
<1> QED BY <1>1, <1>2, <1>3

\* A handler that does not overlap with another goes on.
LEMMA QuotaGoesOn ==
  ASSUME ArtifactInv, QuotaInv, NEW u \in Users, NEW c, Art!To(u, c),
         history'.unchecked = history.unchecked, history'.overlapped = history.overlapped, calls[u] # Art!Idle,
         Room(store, world) /\ QuotaCall(calls[u], store, world) =>
           Room(store', world') /\ QuotaCall(c, store', world')
  PROVE  QuotaInv'
<1> SUFFICES ASSUME ~history.unchecked, ~history.overlapped
             PROVE  /\ \A v, w \in Users : calls'[v] # Art!Idle /\ calls'[w] # Art!Idle => v = w
                    /\ Room(store', world') /\ \A v \in Users : QuotaCall(calls'[v], store', world')
  BY DEF QuotaInv
<1>1. /\ \A v \in Users \ {u} : calls[v] = Art!Idle
      /\ Room(store, world) /\ QuotaCall(calls[u], store, world)
  BY DEF QuotaInv
<1>2. calls'[u] = c /\ \A v \in Users \ {u} : calls'[v] = Art!Idle
  BY <1>1 DEF ArtifactInv, Art!To
<1>3. \A v \in Users \ {u} : QuotaCall(calls'[v], store', world')
  BY <1>2 DEF QuotaCall, Art!Idle, RowSteps
<1> QED BY <1>1, <1>2, <1>3

\* A handler that starts alone.
LEMMA QuotaBegins ==
  ASSUME ArtifactInv, QuotaInv, NEW u \in Users, NEW c, Art!To(u, c), store' = store, calls[u] = Art!Idle,
         history'.unchecked = history.unchecked, history'.overlapped = Art!Overlaps(u),
         Room(store, world) => Room(store, world') /\ QuotaCall(c, store, world')
  PROVE  QuotaInv'
<1> SUFFICES ASSUME ~history'.unchecked, ~history'.overlapped
             PROVE  /\ \A v, w \in Users : calls'[v] # Art!Idle /\ calls'[w] # Art!Idle => v = w
                    /\ Room(store', world') /\ \A v \in Users : QuotaCall(calls'[v], store', world')
  BY DEF QuotaInv
<1>1. ~history.unchecked /\ ~history.overlapped /\ \A v \in Users \ {u} : calls[v] = Art!Idle
  BY DEF Art!Overlaps
<1>2. Room(store, world)
  BY <1>1 DEF QuotaInv
<1>3. calls'[u] = c /\ \A v \in Users \ {u} : calls'[v] = Art!Idle
  BY <1>1 DEF ArtifactInv, Art!To
<1>4. \A v \in Users \ {u} : QuotaCall(calls'[v], store', world')
  BY <1>3 DEF QuotaCall, Art!Idle, RowSteps
<1> QED BY <1>2, <1>3, <1>4

LEMMA QuotaStarts ==
  ASSUME QuotaConstants, Art!StoreInit
  PROVE  QuotaInv
<1>1. store = [a \in Artifacts |-> None] /\ calls = [u \in Users |-> Art!Idle]
  BY DEF Art!StoreInit
<1>2. Usage(store) = {}
  BY <1>1 DEF Usage, Live
<1>3. Room(store, world)
  <2>1. Cardinality(Usage(store)) <= Quota
    BY <1>2, FS_EmptySet DEF QuotaConstants
  <2> QED BY <1>1, <2>1 DEF Room
<1>4. \A u \in Users : QuotaCall(calls[u], store, world)
  BY <1>1 DEF QuotaCall, Art!Idle, RowSteps
<1> QED BY <1>1, <1>3, <1>4 DEF QuotaInv

LEMMA QuotaSave ==
  ASSUME QuotaConstants, ArtifactInv, QuotaInv, NEW u \in Users, NEW a \in Artifacts, Art!Save(u, a)
  PROVE  QuotaInv'
<1> DEFINE c == [at |-> "insert", id |-> a]
<1>1. /\ calls[u] = Art!Idle /\ store[a] = None /\ store' = store /\ Art!To(u, c)
      /\ world' = [world EXCEPT !.files[a] = "good"]
  BY DEF Art!Save
<1>2. CASE Art!Used < Quota /\ Art!Called(u)
  <2>1. history'.unchecked = history.unchecked /\ history'.overlapped = Art!Overlaps(u)
    BY <1>2, ArtifactCalled
  <2>2. \A b \in Artifacts \ {a} : world'.files[b] = world.files[b]
    BY <1>1 DEF ArtifactInv, FilesTyped
  <2>3. Room(store, world) => Room(store, world')
    BY <1>1, <2>2 DEF Room
  <2>4. QuotaCall(c, store, world')
    BY <1>2, UsedIsUsage DEF QuotaCall, RowSteps
  <2> HIDE DEF c
  <2> QED BY <1>1, <2>1, <2>3, <2>4, QuotaBegins
<1>3. CASE history' = [history EXCEPT !.unchecked = TRUE, !.overlapped = Art!Overlaps(u)]
  <2>1. history'.unchecked
    BY <1>3 DEF ArtifactInv, HistoryTyped
  <2> QED BY <2>1 DEF QuotaInv
<1> QED BY <1>2, <1>3 DEF Art!Save

LEMMA QuotaRead ==
  ASSUME ArtifactInv, QuotaInv, NEW u \in Users, NEW a \in Artifacts, Art!Read(u, a)
  PROVE  QuotaInv'
<1>1. PICK step \in {"unpin", "pin", "restore", "delete"} : Art!To(u, [at |-> step, id |-> a, row |-> store[a]])
  BY DEF Art!Read
<1> DEFINE c == [at |-> step, id |-> a, row |-> store[a]]
<1>2. /\ store[a] # None /\ store[a].retention # "deleted" /\ Art!Called(u) /\ store' = store /\ world' = world
      /\ calls[u] = Art!Idle
  BY DEF Art!Read
<1>3. QuotaCall(c, store, world)
  BY <1>2 DEF QuotaCall, RowSteps, Live
<1>4. Art!To(u, c)
  BY <1>1
<1> HIDE DEF c
<1> QED BY <1>2, <1>3, <1>4, ArtifactCalled, QuotaBegins

LEMMA QuotaExport ==
  ASSUME ArtifactInv, QuotaInv, NEW u \in Users, NEW ids \in SUBSET Artifacts, NEW d \in Destinations, Art!Export(u, ids, d)
  PROVE  QuotaInv'
<1> DEFINE m == [ids |-> ids, nonce |-> budget.calls]
           c == [at |-> "make", dest |-> d, left |-> ids, rows |-> [a \in ids |-> store[a]], manifest |-> m]
<1>1. Art!Called(u) /\ store' = store /\ world' = world /\ Art!To(u, c) /\ calls[u] = Art!Idle
  BY DEF Art!Export
<1>2. QuotaCall(c, store, world)
  BY DEF QuotaCall, RowSteps
<1> HIDE DEF c
<1> QED BY <1>1, <1>2, ArtifactCalled, QuotaBegins

\* The quota was looked at, and nobody has taken the place since.
LEMMA QuotaInsert ==
  ASSUME QuotaConstants, ArtifactInv, QuotaInv, NEW u \in Users, Art!Insert(u)
  PROVE  QuotaInv'
<1> DEFINE a == calls[u].id
           row == [retention |-> "active", archive |-> None]
<1>1. calls[u].at = "insert" /\ Art!To(u, Art!Idle) /\ calls[u] # Art!Idle
  BY DEF Art!Insert, Art!Idle
<1>2. PICK reply \in Art!Replies :
        /\ store' = IF reply = "failed" THEN store ELSE [store EXCEPT ![a] = row]
        /\ world' = IF reply = "done" THEN world ELSE [world EXCEPT !.files[a] = None]
        /\ history' = IF reply = "lost" THEN [history EXCEPT !.deletions = @ \cup {a}] ELSE history
  BY DEF Art!Insert
<1>3. a \in Artifacts /\ store[a] = None
  BY <1>1, ArtifactAt DEF ArtifactInv, InsertCall
<1>4. history'.unchecked = history.unchecked /\ history'.overlapped = history.overlapped
  BY <1>2 DEF ArtifactInv, HistoryTyped
<1>5. \A b \in Artifacts \ {a} : store'[b] = store[b] /\ world'.files[b] = world.files[b]
  <2>1. FilesTyped(world, history) /\ store = [b \in Artifacts |-> store[b]]
    BY DEF ArtifactInv
  <2> HIDE DEF a, row
  <2>2. \A b \in Artifacts \ {a} : store'[b] = store[b]
    BY <1>2, <2>1
  <2>3. \A b \in Artifacts \ {a} : world'.files[b] = world.files[b]
    BY <1>2, <2>1 DEF FilesTyped
  <2> QED BY <2>2, <2>3
<1>6. store'[a] = None \/ store'[a].retention = "active"
  <2>1. store = [b \in Artifacts |-> store[b]]
    BY DEF ArtifactInv
  <2> HIDE DEF a
  <2> QED BY <1>2, <1>3, <2>1
<1>7. ASSUME Room(store, world), QuotaCall(calls[u], store, world) PROVE Room(store', world')
  <2>1. Cardinality(Usage(store)) < Quota
    BY <1>1, <1>7 DEF QuotaCall
  <2> HIDE DEF a
  <2>2. Usage(store') \subseteq Usage(store) \cup {a}
    BY <1>5 DEF Usage, Live
  <2>3. Cardinality(Usage(store')) <= Cardinality(Usage(store)) + 1
    BY <2>2, UsageGrows
  <2>4. Cardinality(Usage(store')) \in Nat /\ Cardinality(Usage(store)) \in Nat
    BY UsageGrows
  <2>5. Cardinality(Usage(store')) <= Quota
    BY <2>1, <2>3, <2>4 DEF QuotaConstants
  <2> QED BY <1>5, <1>6, <1>7, <2>5 DEF Room
<1>8. QuotaCall(Art!Idle, store', world')
  BY DEF QuotaCall, Art!Idle, RowSteps
<1> QED BY <1>1, <1>4, <1>7, <1>8, QuotaGoesOn

\* A row that is replaced by one that is not deleted, where one was, or by one that
\* is, where there is no file.
LEMMA RoomStays ==
  ASSUME QuotaConstants, NEW rows, NEW w, NEW rows2, Room(rows, w), NEW a \in Artifacts,
         \A b \in Artifacts \ {a} : rows2[b] = rows[b],
         IF rows2[a].retention = "deleted" THEN w.files[a] # "good" ELSE Live(rows, a)
  PROVE  Room(rows2, w)
<1>1. Usage(rows2) \subseteq Usage(rows)
  BY DEF Usage, Live
<1>2. Cardinality(Usage(rows2)) <= Cardinality(Usage(rows)) /\ Cardinality(Usage(rows2)) \in Nat /\ Cardinality(Usage(rows)) \in Nat
  BY <1>1, UsageGrows
<1>3. Cardinality(Usage(rows2)) <= Quota
  BY <1>2 DEF Room, QuotaConstants
<1> QED BY <1>3 DEF Room

LEMMA QuotaUpdate ==
  ASSUME QuotaConstants, ArtifactInv, QuotaInv, NEW u \in Users, Art!Update(u)
  PROVE  QuotaInv'
<1>1. /\ calls[u].at = "update" /\ calls[u] # Art!Idle /\ Art!To(u, Art!Idle) /\ world' = world /\ history' = history
      /\ store' = store \/ store' = [store EXCEPT ![calls[u].id] = calls[u].row]
  BY DEF Art!Update, Art!Idle
<1>2. calls[u].id \in Artifacts
  BY <1>1, ArtifactAt DEF ArtifactInv, RowCall, RowSteps
<1>3. QuotaCall(Art!Idle, store', world')
  BY DEF QuotaCall, Art!Idle, RowSteps
<1>4. ASSUME Room(store, world), QuotaCall(calls[u], store, world), store' # store PROVE Room(store', world')
  <2>1. IF calls[u].row.retention = "deleted" THEN world.files[calls[u].id] # "good" ELSE Live(store, calls[u].id)
    BY <1>1, <1>4 DEF QuotaCall
  <2>2. store'[calls[u].id] = calls[u].row /\ \A b \in Artifacts \ {calls[u].id} : store'[b] = store[b]
    BY <1>1, <1>2, <1>4 DEF ArtifactInv
  <2> QED BY <1>1, <1>2, <1>4, <2>1, <2>2, RoomStays
<1> QED BY <1>1, <1>3, <1>4, QuotaGoesOn

\* A handler that read the row goes on to write one that is not deleted, puts a
\* file back or gives up.
LEMMA QuotaRow ==
  ASSUME ArtifactInv, QuotaInv, NEW u \in Users, calls[u].at \in {"unpin", "pin", "restore", "put"}, NEW c,
         Art!To(u, c), store' = store, history' = history,
         world'.files = world.files \/ world'.files = [world.files EXCEPT ![calls[u].id] = "good"],
         \/ c = Art!Idle
         \/ c.at = "put" /\ c.id = calls[u].id /\ c.row = calls[u].row
         \/ c.at = "update" /\ c.id = calls[u].id /\ c.row.retention # "deleted"
  PROVE  QuotaInv'
<1>1. calls[u] # Art!Idle /\ calls[u].id \in Artifacts /\ world.files \in [Artifacts -> Art!Contents]
  BY ArtifactAt DEF ArtifactInv, FilesTyped, RowCall, RowSteps, Art!Idle
<1>2. ASSUME Room(store, world), QuotaCall(calls[u], store, world) PROVE Room(store', world') /\ QuotaCall(c, store', world')
  <2>1. calls[u].row.retention # "deleted" /\ Live(store, calls[u].id)
    BY <1>2 DEF QuotaCall, RowSteps
  <2>2. \A b \in Artifacts : b # calls[u].id => world'.files[b] = world.files[b]
    BY <1>1
  <2>3. Room(store', world')
    BY <1>2, <2>1, <2>2 DEF Room, Live
  <2>4. QuotaCall(c, store', world')
    BY <2>1 DEF QuotaCall, RowSteps, Art!Idle
  <2> QED BY <2>3, <2>4
<1> QED BY <1>1, <1>2, QuotaGoesOn

LEMMA QuotaLooks ==
  ASSUME ArtifactInv, QuotaInv, NEW u \in Users, Art!Unpin(u) \/ Art!Pin(u) \/ Art!Restore(u) \/ Art!Put(u)
  PROVE  QuotaInv'
<1> DEFINE a == calls[u].id
           old == calls[u].row
<1>1. calls[u].at \in {"unpin", "pin", "restore", "put"} /\ store' = store /\ history' = history
  BY DEF Art!Unpin, Art!Pin, Art!Restore, Art!Put
<1>2. RowCall(calls[u], store, world, history) /\ FilesTyped(world, history)
  BY <1>1, ArtifactAt DEF ArtifactInv, RowSteps
<1>3. world'.files = world.files \/ world'.files = [world.files EXCEPT ![a] = "good"]
  <2>1. world' = world \/ world' = [world EXCEPT !.files[a] = "good"]
    BY DEF Art!Unpin, Art!Pin, Art!Restore, Art!Put
  <2> HIDE DEF a
  <2> QED BY <1>2, <2>1 DEF FilesTyped
<1>4. \/ Art!To(u, Art!Idle)
      \/ Art!Write(u, a, [old EXCEPT !.retention = "active"])
      \/ Art!Write(u, a, [old EXCEPT !.retention = "pinned"])
      \/ Art!Write(u, a, Art!Restored(old))
      \/ Art!To(u, [calls[u] EXCEPT !.at = "put"])
  BY DEF Art!Unpin, Art!Pin, Art!Restore, Art!Put
<1>5. ASSUME NEW row, row.retention # "deleted", Art!Write(u, a, row) PROVE QuotaInv'
  <2> DEFINE c == [at |-> "update", id |-> a, row |-> row]
  <2>1. Art!To(u, c) /\ c.at = "update" /\ c.id = a /\ c.row.retention # "deleted"
    BY <1>5 DEF Art!Write
  <2> HIDE DEF c
  <2> QED BY <1>1, <1>3, <2>1, QuotaRow
<1>6. /\ [old EXCEPT !.retention = "active"].retention # "deleted" /\ [old EXCEPT !.retention = "pinned"].retention # "deleted"
      /\ Art!Restored(old).retention # "deleted"
  <2>1. old = [retention |-> old.retention, archive |-> old.archive]
    BY <1>2 DEF RowCall, GoodRow
  <2> HIDE DEF old
  <2>2. Art!Restored(old).retention = IF old.retention = "pinned" THEN "pinned" ELSE "active"
    BY <2>1 DEF Art!Restored
  <2> QED BY <2>1, <2>2
<1>7. CASE Art!To(u, [calls[u] EXCEPT !.at = "put"])
  <2> DEFINE c == [calls[u] EXCEPT !.at = "put"]
  <2>1. c.at = "put" /\ c.id = a /\ c.row = old
    BY <1>2 DEF RowCall
  <2>2. Art!To(u, c)
    BY <1>7
  <2> HIDE DEF c
  <2> QED BY <1>1, <1>3, <2>1, <2>2, QuotaRow
<1>8. CASE Art!To(u, Art!Idle)
  BY <1>1, <1>3, <1>8, QuotaRow
<1> QED BY <1>4, <1>5, <1>6, <1>7, <1>8

LEMMA QuotaDelete ==
  ASSUME ArtifactConstants, ArtifactInv, QuotaInv, NEW u \in Users, Art!Delete(u)
  PROVE  QuotaInv'
<1> DEFINE a == calls[u].id
           row == [calls[u].row EXCEPT !.retention = "deleted"]
           c == [at |-> "update", id |-> a, row |-> row]
<1>1. /\ calls[u].at = "delete" /\ calls[u] # Art!Idle /\ store' = store
      /\ world' = [world EXCEPT !.files[a] = None] /\ Art!To(u, c)
  BY DEF Art!Delete, Art!Write, Art!Idle
<1>2. RowCall(calls[u], store, world, history) /\ FilesTyped(world, history)
  BY <1>1, ArtifactAt DEF ArtifactInv, RowSteps
<1>3. history'.unchecked = history.unchecked /\ history'.overlapped = history.overlapped
  BY DEF Art!Delete, ArtifactInv, HistoryTyped
<1>4. world'.files[a] = None /\ \A b \in Artifacts \ {a} : world'.files[b] = world.files[b]
  BY <1>1, <1>2 DEF FilesTyped, RowCall
<1>5. row.retention = "deleted"
  BY <1>2 DEF RowCall, GoodRow
<1>6. ASSUME Room(store, world) PROVE Room(store', world') /\ QuotaCall(c, store', world')
  <2>1. c.at = "update" /\ c.id = a /\ c.row.retention = "deleted" /\ None # "good"
    BY <1>5 DEF ArtifactConstants
  <2> HIDE DEF c, a
  <2> QED BY <1>1, <1>4, <1>6, <2>1 DEF Room, QuotaCall, RowSteps
<1> HIDE DEF c
<1> QED BY <1>1, <1>3, <1>6, QuotaGoesOn

\* An export changes no row and no file until it marks what it has put in place.
LEMMA QuotaStages ==
  ASSUME ArtifactInv, QuotaInv, NEW u \in Users, calls[u].at \in ExportSteps, NEW c, Art!To(u, c), store' = store,
         world'.files = world.files, history'.unchecked = history.unchecked, history'.overlapped = history.overlapped,
         Room(store, world) /\ QuotaCall(calls[u], store, world) => QuotaCall(c, store, world)
  PROVE  QuotaInv'
<1>1. calls[u] # Art!Idle
  BY DEF ExportSteps, Art!Idle
<1>2. ASSUME Room(store, world), QuotaCall(calls[u], store, world) PROVE Room(store', world') /\ QuotaCall(c, store', world')
  BY <1>2 DEF Room, QuotaCall
<1> QED BY <1>1, <1>2, QuotaGoesOn

LEMMA QuotaRests == \A rows, w : QuotaCall(Art!Idle, rows, w)
BY DEF QuotaCall, Art!Idle, RowSteps

LEMMA QuotaAbandoned ==
  ASSUME ArtifactInv, QuotaInv, NEW u \in Users, calls[u].at \in Staging, Art!Abandoned(u), store' = store, history' = history
  PROVE  QuotaInv'
<1>1. Art!To(u, Art!Idle) /\ world'.files = world.files /\ calls[u].at \in ExportSteps
  BY DEF Art!Abandoned, ArtifactInv, FilesTyped, Staging, ExportSteps
<1> QED BY <1>1, QuotaRests, QuotaStages

LEMMA QuotaMakeStaging ==
  ASSUME ArtifactInv, QuotaInv, NEW u \in Users, Art!MakeStaging(u)
  PROVE  QuotaInv'
<1> DEFINE c == [calls[u] EXCEPT !.at = "copy"]
<1>1. calls[u].at = "make" /\ calls[u].at \in ExportSteps /\ Art!To(u, c) /\ store' = store
  BY DEF Art!MakeStaging, ExportSteps
<1>2. ExportCall(calls[u], store, world, history)
  BY <1>1, ArtifactAt DEF ArtifactInv
<1>3. c.at = "copy" /\ c.left = calls[u].left /\ c.manifest = calls[u].manifest /\ calls[u].left = calls[u].manifest.ids
  BY <1>1, <1>2 DEF ExportCall
<1>4. /\ world'.files = world.files /\ history'.unchecked = history.unchecked
      /\ history'.overlapped = history.overlapped
  BY DEF Art!MakeStaging, ArtifactInv, FilesTyped, HistoryTyped
<1> HIDE DEF c
<1>5. QuotaCall(c, store, world)
  BY <1>3 DEF QuotaCall, RowSteps
<1> QED BY <1>1, <1>4, <1>5, QuotaStages

\* What is copied has a file, so it is not deleted.
LEMMA QuotaCopy ==
  ASSUME ArtifactInv, QuotaInv, NEW u \in Users, Art!Copy(u)
  PROVE  QuotaInv'
<1>1. calls[u].at = "copy" /\ calls[u].at \in ExportSteps /\ calls[u].at \in Staging /\ store' = store /\ history' = history
  BY DEF Art!Copy, ExportSteps, Staging
<1>2. ExportCall(calls[u], store, world, history)
  BY <1>1, ArtifactAt DEF ArtifactInv
<1>3. /\ calls[u] = [at |-> "copy", dest |-> calls[u].dest, left |-> calls[u].left, rows |-> calls[u].rows, manifest |-> calls[u].manifest]
      /\ calls[u].left \subseteq calls[u].manifest.ids /\ calls[u].manifest.ids \subseteq Artifacts
      /\ \A a \in calls[u].manifest.ids : store[a] # None
  BY <1>1, <1>2 DEF ExportCall, Manifest
<1>4. FilesTyped(world, history)
  BY DEF ArtifactInv
<1>5. CASE /\ calls[u].left = {} /\ world' = [world EXCEPT !.staging[calls[u].dest].manifest = calls[u].manifest]
           /\ Art!To(u, [calls[u] EXCEPT !.at = "publish"])
  <2> DEFINE c == [calls[u] EXCEPT !.at = "publish"]
  <2>1. c.at = "publish" /\ c.manifest = calls[u].manifest /\ Art!To(u, c) /\ world'.files = world.files
    BY <1>3, <1>4, <1>5 DEF FilesTyped
  <2> HIDE DEF c
  <2>2. QuotaCall(calls[u], store, world) => QuotaCall(c, store, world)
    BY <1>1, <1>5, <2>1 DEF QuotaCall, RowSteps
  <2> QED BY <1>1, <2>1, <2>2, QuotaStages
<1>6. CASE \E a \in calls[u].left :
             /\ world.files[a] = "good" /\ world' = [world EXCEPT !.staging[calls[u].dest].files[a] = "good"]
             /\ Art!To(u, [calls[u] EXCEPT !.left = @ \ {a}])
  <2>1. PICK a \in calls[u].left :
             /\ world.files[a] = "good" /\ world' = [world EXCEPT !.staging[calls[u].dest].files[a] = "good"]
             /\ Art!To(u, [calls[u] EXCEPT !.left = @ \ {a}])
    BY <1>6
  <2> DEFINE c == [calls[u] EXCEPT !.left = @ \ {a}]
  <2>2. /\ c.at = "copy" /\ c.manifest = calls[u].manifest /\ c.left = calls[u].left \ {a} /\ Art!To(u, c)
        /\ world'.files = world.files
    BY <1>3, <1>4, <2>1 DEF FilesTyped
  <2> HIDE DEF c
  <2>3. Room(store, world) /\ QuotaCall(calls[u], store, world) => QuotaCall(c, store, world)
    <3>1. Room(store, world) => Live(store, a)
      BY <1>3, <2>1 DEF Room, Live
    <3> QED BY <1>1, <2>2, <3>1 DEF QuotaCall, RowSteps
  <2> QED BY <1>1, <2>2, <2>3, QuotaStages
<1>7. CASE Art!Abandoned(u)
  BY <1>1, <1>7, QuotaAbandoned
<1> QED BY <1>5, <1>6, <1>7 DEF Art!Copy

LEMMA QuotaPublish ==
  ASSUME ArtifactInv, QuotaInv, NEW u \in Users, Art!Publish(u)
  PROVE  QuotaInv'
<1> DEFINE ids == calls[u].manifest.ids
           d == calls[u].dest
           m == [calls[u] EXCEPT !.at = "mark"]
           c == [calls[u] EXCEPT !.at = "mark", !.left = ids]
<1>1. calls[u].at = "publish" /\ calls[u].at \in ExportSteps /\ calls[u].at \in Staging /\ store' = store /\ history' = history
  BY DEF Art!Publish, ExportSteps, Staging
<1>2. ExportCall(calls[u], store, world, history) /\ FilesTyped(world, history)
  BY <1>1, ArtifactAt DEF ArtifactInv
<1>3. m.at = "mark" /\ c = [m EXCEPT !.left = ids] /\ m = [at |-> m.at, dest |-> m.dest, left |-> m.left, rows |-> m.rows, manifest |-> m.manifest]
  BY <1>2 DEF ExportCall
<1>4. c.at = "mark" /\ c.left = ids
  <2> HIDE DEF m, c, ids
  <2> QED BY <1>3
<1>5. CASE Art!Abandoned(u)
  BY <1>1, <1>5, QuotaAbandoned
<1>6. CASE world' = [world EXCEPT !.archives[d] = world.staging[d], !.staging[d] = None] /\ Art!To(u, c)
  <2>1. world'.files = world.files
    BY <1>2, <1>6 DEF FilesTyped
  <2> HIDE DEF c
  <2>2. QuotaCall(calls[u], store, world) => QuotaCall(c, store, world)
    BY <1>1, <1>4 DEF QuotaCall, RowSteps
  <2> QED BY <1>1, <1>6, <2>1, <2>2, QuotaStages
<1> QED BY <1>5, <1>6 DEF Art!Publish

LEMMA QuotaMark ==
  ASSUME QuotaConstants, ArtifactInv, QuotaInv, NEW u \in Users, Art!Mark(u)
  PROVE  QuotaInv'
<1>1. calls[u].at = "mark" /\ calls[u].at \in ExportSteps /\ calls[u] # Art!Idle /\ world' = world /\ history' = history
  BY DEF Art!Mark, ExportSteps, Art!Idle
<1>2. ExportCall(calls[u], store, world, history)
  BY <1>1, ArtifactAt DEF ArtifactInv
<1>3. /\ calls[u] = [at |-> "mark", dest |-> calls[u].dest, left |-> calls[u].left, rows |-> calls[u].rows, manifest |-> calls[u].manifest]
      /\ calls[u].left \subseteq Artifacts
  BY <1>1, <1>2 DEF ExportCall, Manifest
<1>4. CASE calls[u].left = {}
  BY <1>1, <1>4, QuotaRests, QuotaStages DEF Art!Mark
<1>5. CASE calls[u].left # {}
  <2>1. PICK reply \in Art!Replies, a \in calls[u].left :
          /\ Art!To(u, IF reply = "done" THEN [calls[u] EXCEPT !.left = @ \ {a}] ELSE Art!Idle)
          /\ store' = IF reply = "failed" THEN store
                      ELSE [store EXCEPT ![a] = Art!Archived(calls[u].rows[a], calls[u].dest, calls[u].manifest)]
    BY <1>5 DEF Art!Mark
  <2> DEFINE c == IF reply = "done" THEN [calls[u] EXCEPT !.left = @ \ {a}] ELSE Art!Idle
             row == Art!Archived(calls[u].rows[a], calls[u].dest, calls[u].manifest)
  <2>2. row # None /\ row.retention # "deleted"
    BY DEF Art!Archived, QuotaConstants, ArtifactConstants
  <2>3. c = Art!Idle \/ (c.at = "mark" /\ c.left \subseteq calls[u].left)
    BY <1>3
  <2>4. Art!To(u, c) /\ (store' = store \/ store' = [store EXCEPT ![a] = row])
    BY <2>1
  <2> HIDE DEF c, row
  <2>5. ASSUME Room(store, world), QuotaCall(calls[u], store, world)
        PROVE  Room(store', world') /\ QuotaCall(c, store', world')
    <3>1. \A b \in calls[u].left : Live(store, b)
      BY <1>1, <2>5 DEF QuotaCall
    <3>2. CASE store' = store
      BY <1>1, <2>3, <2>5, <3>1, <3>2, QuotaRests DEF QuotaCall, RowSteps
    <3>3. CASE store' = [store EXCEPT ![a] = row]
      <4>1. store'[a] = row /\ \A b \in Artifacts \ {a} : store'[b] = store[b]
        BY <1>3, <3>3 DEF ArtifactInv
      <4>2. Room(store', world')
        BY <1>1, <1>3, <2>2, <2>5, <3>1, <4>1, RoomStays
      <4>3. \A b \in calls[u].left : Live(store', b)
        BY <1>3, <2>2, <3>1, <4>1 DEF Live
      <4> QED BY <2>3, <4>2, <4>3, QuotaRests DEF QuotaCall, RowSteps
    <3> QED BY <2>4, <3>2, <3>3
  <2> QED BY <1>1, <2>4, <2>5, QuotaGoesOn
<1> QED BY <1>4, <1>5

\* A crash forgets the calls; what is taken away makes no file good.
LEMMA QuotaOutside ==
  ASSUME ArtifactConstants, ArtifactInv, QuotaInv, Art!Crash \/ Art!Tamper
  PROVE  QuotaInv'
<1>1. CASE Art!Crash
  <2>1. calls' = [u \in Users |-> Art!Idle] /\ UNCHANGED <<store, world, history>>
    BY <1>1 DEF Art!Crash
  <2>2. \A u \in Users : calls'[u] = Art!Idle
    BY <2>1
  <2> QED BY <2>1, <2>2, QuotaRests DEF QuotaInv
<1>2. CASE Art!Tamper
  <2>1. /\ UNCHANGED <<store, calls>> /\ history'.unchecked = history.unchecked /\ history'.overlapped = history.overlapped
        /\ FilesTyped(world, history)
    BY <1>2 DEF Art!Tamper, ArtifactInv, HistoryTyped
  <2>2. \A a \in Artifacts : world.files[a] # "good" => world'.files[a] # "good"
    BY <1>2, <2>1 DEF Art!Tamper, FilesTyped, ArtifactConstants
  <2>3. Room(store, world) => Room(store', world')
    BY <2>1, <2>2 DEF Room
  <2>4. ASSUME NEW u \in Users, QuotaCall(calls[u], store, world) PROVE QuotaCall(calls'[u], store', world')
    <3>1. calls[u].at = "update" => calls[u].id \in Artifacts
      BY ArtifactAt DEF ArtifactInv, RowCall, RowSteps
    <3> QED BY <2>1, <2>2, <2>4, <3>1 DEF QuotaCall
  <2> QED BY <2>1, <2>3, <2>4 DEF QuotaInv
<1> QED BY <1>1, <1>2

LEMMA QuotaNext ==
  ASSUME QuotaConstants, ArtifactInv, QuotaInv, [Art!StoreNext]_vars
  PROVE  QuotaInv'
<1>1. CASE UNCHANGED vars
  BY <1>1 DEF vars, QuotaInv
<1>2. ASSUME NEW u \in Users, Art!Handle(u) PROVE QuotaInv'
  <2>1. CASE Art!Insert(u) \/ Art!Update(u) \/ Art!Unpin(u) \/ Art!Pin(u) \/ Art!Restore(u) \/ Art!Put(u) \/ Art!Delete(u)
    BY <2>1, QuotaInsert, QuotaUpdate, QuotaLooks, QuotaDelete DEF QuotaConstants
  <2>2. CASE Art!Abandon(u)
    BY <2>2, QuotaAbandoned DEF Art!Abandon, Staging
  <2>3. CASE Art!MakeStaging(u) \/ Art!Copy(u) \/ Art!Publish(u) \/ Art!Mark(u)
    BY <2>3, QuotaMakeStaging, QuotaCopy, QuotaPublish, QuotaMark
  <2>4. CASE \E a \in Artifacts : Art!Save(u, a) \/ Art!Read(u, a)
    BY <2>4, QuotaSave, QuotaRead
  <2>5. CASE \E ids \in SUBSET Artifacts, d \in Destinations : Art!Export(u, ids, d)
    BY <2>5, QuotaExport
  <2> QED BY <1>2, <2>1, <2>2, <2>3, <2>4, <2>5 DEF Art!Handle
<1> QED BY <1>1, <1>2, QuotaOutside DEF Art!StoreNext, QuotaConstants

\* ArtifactStore: the quota of the evidence holds, across retries, lost answers,
\* deletions, restorations and crashes, as long as the rows could be read whenever
\* it was looked at and no two handlers overlapped (SaveAssuranceArtifact,
\* AssuranceArtifactStorage).
THEOREM QuotaIsKept ==
  ASSUME QuotaConstants
  PROVE  ArtifactSpec => []Art!QuotaIsKept
<1>1. ArtifactConstants
  BY DEF QuotaConstants
<1>2. ArtifactInv /\ QuotaInv /\ [Art!StoreNext]_vars => (ArtifactInv /\ QuotaInv)'
  BY <1>1, ArtifactNext, QuotaNext
<1>3. QuotaInv => Art!QuotaIsKept
  BY UsedIsUsage DEF QuotaInv, Room, Art!QuotaIsKept
<1> QED BY <1>1, <1>2, <1>3, ArtifactStarts, QuotaStarts, PTL DEF ArtifactSpec

-----------------------------------------------------------------------------
(* ConfigStore: the file always says what was confirmed, a start takes the    *)
(* projects and profiles out of it once, and an edit is in the file before it *)
(* is confirmed.                                                              *)

Files == INSTANCE ConfigStore

FilesSpec == Files!ConfigInit /\ [][Files!ConfigNext]_vars

ConfigRecord(c) ==
  c = [version |-> c.version, projects |-> c.projects, initialized |-> c.initialized, items |-> c.items, results |-> c.results]
Config(c) == ConfigRecord(c) /\ c.version = 3
Result == [plan : Plans, value : Values]
\* A log keeps few results and one of every plan.
ResultList(list) ==
  /\ list \in Seq(Result) /\ Len(list) <= MaxResults
  /\ \A i, j \in DOMAIN list : list[i].plan = list[j].plan => i = j
ResultLogs(results) == results = [l \in Files!Logs |-> results[l]] /\ \A l \in Files!Logs : ResultList(results[l])
\* A file of another time is a configuration of one of the versions, whose results
\* are as they were written.
FilesConstants ==
  /\ MaxResults \in Nat
  /\ \A version, projects, initialized, items, results :
       None # [version |-> version, projects |-> projects, initialized |-> initialized, items |-> items, results |-> results]
  /\ \A c \in Old : ConfigRecord(c) /\ c.version \in 1..3 /\ ResultLogs(c.results)

\* The results of a configuration are the last ones of their plans.
LastResults(results, last) ==
  /\ ResultLogs(results) /\ last = [l \in Files!Logs |-> last[l]]
  /\ \A l \in Files!Logs :
       /\ last[l] = [plan \in Plans |-> last[l][plan]]
       /\ \A i \in DOMAIN results[l] : results[l][i].value = last[l][results[l][i].plan]
HistoryIs(h) ==
  h = [items |-> h.items, results |-> h.results, removed |-> h.removed, dropped |-> h.dropped, profiles |-> h.profiles]
RowsAre(rows) ==
  /\ rows = [file |-> rows.file, tmp |-> rows.tmp, projects |-> rows.projects, profiles |-> rows.profiles]
  /\ rows.profiles = [p \in Defaults |-> rows.profiles[p]]
  /\ rows.file = None \/ rows.file \in Old \/ Config(rows.file)
\* The projects are in the file until all are in the database.
Imported(found, projects, all, removed) ==
  /\ projects \subseteq all
  /\ IF found.projects = <<>> THEN projects = all \ removed ELSE removed = {} /\ Files!ToSet(found.projects) = all
Once(p, profiles, h) ==
  \/ profiles[p] = h.profiles[p]
  \/ h.profiles[p] = None /\ p \notin h.dropped /\ profiles[p] = "default"
  \/ p = Codex /\ h.profiles[p] = "legacy" /\ profiles[p] = "default"
Profiled(found, profiles, h) ==
  /\ h.profiles = [p \in Defaults |-> h.profiles[p]]
  /\ \A p \in Defaults : Once(p, profiles, h)
  /\ found.initialized \/ (h.dropped = {} /\ \A p \in Defaults : h.profiles[p] = None)
StandsFor(found, rows, all, h) ==
  /\ Config(found) /\ found.items = h.items /\ LastResults(found.results, h.results)
  /\ Imported(found, rows.projects, all, h.removed) /\ Profiled(found, rows.profiles, h)

\* A process that has what the file says.
Reads(c, file) ==
  /\ c.at \in {"import", "profiles", "codex", "serving"} /\ c = [at |-> c.at, mem |-> c.mem]
  /\ Config(c.mem) /\ file = c.mem
  /\ c.at # "import" => c.mem.projects = <<>>
  /\ c.at \in {"codex", "serving"} => c.mem.initialized
\* A start that writes what it has taken out, or an edit.
Starts(c, found, projects) ==
  /\ c.before = None /\ c = [at |-> c.at, mem |-> c.mem, before |-> None, then |-> c.then]
  /\ c.mem.items = found.items /\ c.mem.results = found.results
  /\ \/ c.then = "import" /\ c.mem = found
     \/ /\ c.then = "profiles" /\ c.mem.projects = <<>> /\ Files!ToSet(found.projects) \subseteq projects
        /\ c.mem.initialized <=> found.initialized
     \/ c.then = "codex" /\ c.mem.projects = <<>> /\ found.projects = <<>> /\ c.mem.initialized
Edits(c, file, h) ==
  /\ c.before # None /\ c = [at |-> c.at, mem |-> c.mem, before |-> c.before, then |-> "serving", edited |-> c.edited]
  /\ Config(c.before) /\ c.before = file
  /\ c.mem.projects = <<>> /\ file.projects = <<>> /\ c.mem.initialized /\ file.initialized
  /\ c.edited = [items |-> c.mem.items, results |-> c.edited.results, removed |-> h.removed,
                 dropped |-> h.dropped, profiles |-> h.profiles]
  /\ LastResults(c.mem.results, c.edited.results)
Writes(c, rows, found, h) ==
  /\ c.at \in {"write", "rename", "failed"} /\ Config(c.mem)
  /\ c.at = "rename" => rows.tmp = c.mem
  /\ Starts(c, found, rows.projects) \/ Edits(c, rows.file, h)
FilesInv ==
  /\ RowsAre(store) /\ HistoryIs(history) /\ StandsFor(Files!Found, store, world, history)
  /\ calls = [at |-> "down"] \/ Reads(calls, store.file) \/ Writes(calls, store, Files!Found, history)
-----------------------------------------------------------------------------
\* A current configuration is what loadConfig makes of it.
LEMMA CurrentIsFound ==
  ASSUME NEW c, Config(c) PROVE Files!Migrated(c) = c
<1>1. c = [version |-> 3, projects |-> c.projects, initialized |-> c.initialized, items |-> c.items, results |-> c.results] /\ c.version = 3
  BY DEF Config, ConfigRecord
<1> QED BY <1>1 DEF Files!Migrated

LEMMA NoneIsNoConfig ==
  ASSUME FilesConstants, NEW c, ConfigRecord(c) PROVE c # None
BY DEF FilesConstants, ConfigRecord

\* Only the process moves.
LEMMA FilesCallsMove ==
  ASSUME FilesInv, UNCHANGED <<store, world, history>>,
         calls' = [at |-> "down"] \/ Reads(calls', store.file) \/ Writes(calls', store, Files!Found, history)
  PROVE FilesInv'
<1>1. Files!Found' = Files!Found
  BY DEF Files!Found
<1> QED BY <1>1 DEF FilesInv

\* The steps of one save keep what is saved and why.
LEMMA FilesWritesGoOn ==
  ASSUME NEW c, NEW rows, NEW found, NEW h, Writes(c, rows, found, h), NEW next, NEW at \in {"write", "rename", "failed"},
         next.file = rows.file, next.projects = rows.projects, at = "rename" => next.tmp = c.mem
  PROVE Writes([c EXCEPT !.at = at], next, found, h)
<1> DEFINE d == [c EXCEPT !.at = at]
<1>1. CASE Starts(c, found, rows.projects)
  <2>1. d = [at |-> at, mem |-> c.mem, before |-> None, then |-> c.then]
    BY <1>1 DEF Starts
  <2> HIDE DEF d
  <2>2. Starts(d, found, next.projects)
    BY <1>1, <2>1 DEF Starts
  <2> QED BY <2>1, <2>2 DEF Writes, d
<1>2. CASE Edits(c, rows.file, h)
  <2>1. d = [at |-> at, mem |-> c.mem, before |-> c.before, then |-> "serving", edited |-> c.edited]
    BY <1>2 DEF Edits
  <2> HIDE DEF d
  <2>2. Edits(d, next.file, h)
    BY <1>2, <2>1 DEF Edits
  <2> QED BY <2>1, <2>2 DEF Writes, d
<1> QED BY <1>1, <1>2 DEF Writes

\* What the process is, by where it is.
LEMMA FilesCalls ==
  ASSUME FilesInv
  PROVE /\ calls.at \in {"import", "profiles", "codex", "serving"} => Reads(calls, store.file)
        /\ calls.at \in {"write", "rename", "failed"} => Writes(calls, store, Files!Found, history)
BY DEF FilesInv, Reads, Writes

LEMMA FilesLoad ==
  ASSUME FilesConstants, FilesInv, Files!LoadConfig PROVE FilesInv'
<1>1. /\ UNCHANGED <<store, world, history>> /\ Config(Files!Found)
      /\ store.file = None \/ store.file \in Old \/ Config(store.file)
      /\ calls' = IF store.file # None /\ store.file.version = 3
              THEN [at |-> "import", mem |-> Files!Found]
              ELSE [at |-> "write", mem |-> Files!Found, before |-> None, then |-> "import"]
  BY DEF FilesInv, Files!LoadConfig, Files!Rest, StandsFor, RowsAre
<1>2. CASE store.file # None /\ store.file.version = 3
  <2>1. Config(store.file)
    BY <1>1, <1>2 DEF FilesConstants, Config
  <2>2. Files!Found = store.file
    BY <1>2, <2>1, CurrentIsFound DEF Files!Found
  <2>3. Reads(calls', store.file)
    BY <1>1, <1>2, <2>1, <2>2 DEF Reads
  <2> QED BY <1>1, <2>3, FilesCallsMove
<1>3. CASE ~(store.file # None /\ store.file.version = 3)
  <2>1. calls' = [at |-> "write", mem |-> Files!Found, before |-> None, then |-> "import"]
    BY <1>1, <1>3
  <2>2. Starts(calls', Files!Found, store.projects)
    BY <2>1 DEF Starts
  <2>3. Writes(calls', store, Files!Found, history)
    BY <1>1, <2>1, <2>2 DEF Writes
  <2> QED BY <1>1, <2>3, FilesCallsMove
<1> QED BY <1>2, <1>3

\* The rows that the inverse of a save does not touch.
LEMMA FilesTmpMoves ==
  ASSUME FilesInv, UNCHANGED <<world, history>>, NEW tmp, store' = [store EXCEPT !.tmp = tmp],
         calls' = [at |-> "down"] \/ Reads(calls', store'.file) \/ Writes(calls', store', Files!Found, history)
  PROVE FilesInv'
<1>1. RowsAre(store) /\ HistoryIs(history) /\ StandsFor(Files!Found, store, world, history)
  BY DEF FilesInv
<1>2. store' = [file |-> store.file, tmp |-> tmp, projects |-> store.projects, profiles |-> store.profiles]
  BY <1>1 DEF RowsAre
<1>3. Files!Found' = Files!Found
  BY <1>2 DEF Files!Found
<1>4. RowsAre(store') /\ StandsFor(Files!Found, store', world, history)
  BY <1>1, <1>2 DEF RowsAre, StandsFor
<1> QED BY <1>1, <1>3, <1>4 DEF FilesInv

LEMMA FilesWrite ==
  ASSUME FilesInv, Files!WriteConfig \/ Files!WriteFails \/ Files!RenameFails PROVE FilesInv'
<1>1. /\ UNCHANGED <<world, history>> /\ calls.at \in {"write", "rename"}
      /\ \E at \in {"rename", "failed"} :
           /\ calls' = [calls EXCEPT !.at = at]
           /\ \/ at = "failed" /\ UNCHANGED store
              \/ at = "failed" /\ \E tmp : store' = [store EXCEPT !.tmp = tmp]
              \/ at = "rename" /\ store' = [store EXCEPT !.tmp = calls.mem]
  BY DEF Files!WriteConfig, Files!WriteFails, Files!RenameFails, Files!Rest
<1>2. Writes(calls, store, Files!Found, history) /\ RowsAre(store)
  BY <1>1, FilesCalls DEF FilesInv
<1>3. PICK at \in {"rename", "failed"} :
           /\ calls' = [calls EXCEPT !.at = at]
           /\ \/ at = "failed" /\ UNCHANGED store
              \/ at = "failed" /\ \E tmp : store' = [store EXCEPT !.tmp = tmp]
              \/ at = "rename" /\ store' = [store EXCEPT !.tmp = calls.mem]
  BY <1>1
<1>4. CASE at = "failed" /\ UNCHANGED store
  <2>1. Writes(calls', store, Files!Found, history)
    BY <1>2, <1>3, <1>4, FilesWritesGoOn
  <2> QED BY <1>1, <1>4, <2>1, FilesCallsMove
<1>5. ASSUME NEW tmp, store' = [store EXCEPT !.tmp = tmp], at = "rename" => tmp = calls.mem PROVE FilesInv'
  <2>1. store'.file = store.file /\ store'.projects = store.projects /\ store'.tmp = tmp
    BY <1>2, <1>5 DEF RowsAre
  <2>2. Writes(calls', store', Files!Found, history)
    BY <1>2, <1>3, <1>5, <2>1, FilesWritesGoOn
  <2> QED BY <1>1, <1>5, <2>2, FilesTmpMoves
<1> QED BY <1>3, <1>4, <1>5

LEMMA FilesSaveFails ==
  ASSUME FilesConstants, FilesInv, Files!SaveFails PROVE FilesInv'
<1>1. /\ UNCHANGED <<store, world, history>> /\ calls.at = "failed"
      /\ calls' = IF calls.before = None THEN [at |-> "down"] ELSE [at |-> "serving", mem |-> calls.before]
  BY DEF Files!SaveFails, Files!Rest
<1>2. Writes(calls, store, Files!Found, history)
  BY <1>1, FilesCalls
<1>3. calls' = [at |-> "down"] \/ Reads(calls', store.file)
  BY <1>1, <1>2 DEF Writes, Starts, Edits, Reads
<1> QED BY <1>1, <1>3, FilesCallsMove

LEMMA FilesStops ==
  ASSUME FilesInv, Files!Die \/ Files!Restart PROVE FilesInv'
<1>1. UNCHANGED <<store, world, history>> /\ calls' = [at |-> "down"]
  BY DEF Files!Die, Files!Restart, Files!Rest
<1> QED BY <1>1, FilesCallsMove

LEMMA FilesRename ==
  ASSUME FilesConstants, FilesInv, Files!RenameConfig PROVE FilesInv'
<1>1. /\ calls.at = "rename" /\ store' = [store EXCEPT !.file = store.tmp, !.tmp = None]
      /\ calls' = [at |-> calls.then, mem |-> calls.mem] /\ world' = world
      /\ history' = IF calls.then = "serving" THEN calls.edited ELSE history
  BY DEF Files!RenameConfig
<1>2. /\ RowsAre(store) /\ HistoryIs(history) /\ StandsFor(Files!Found, store, world, history)
      /\ Writes(calls, store, Files!Found, history)
  BY <1>1, FilesCalls DEF FilesInv
<1>3. store.tmp = calls.mem /\ Config(calls.mem)
  BY <1>1, <1>2 DEF Writes
<1>4. store' = [file |-> calls.mem, tmp |-> None, projects |-> store.projects, profiles |-> store.profiles]
  BY <1>1, <1>2, <1>3 DEF RowsAre
<1>5. RowsAre(store')
  BY <1>2, <1>3, <1>4 DEF RowsAre
<1>6. Files!Found' = calls.mem
  <2>1. calls.mem # None
    BY <1>3, NoneIsNoConfig DEF Config
  <2>2. Files!Migrated(calls.mem) = calls.mem
    BY <1>3, CurrentIsFound
  <2>3. Files!Found' = IF calls.mem = None THEN Files!DefaultConfig ELSE Files!Migrated(calls.mem)
    BY <1>4 DEF Files!Found
  <2> QED BY <2>1, <2>2, <2>3
<1>7. CASE Starts(calls, Files!Found, store.projects)
  <2>1. calls.then \in {"import", "profiles", "codex"} /\ history' = history
    BY <1>1, <1>7 DEF Starts
  <2>2. calls.mem.items = history.items /\ LastResults(calls.mem.results, history.results)
    BY <1>2, <1>7 DEF Starts, StandsFor
  <2>3. Imported(calls.mem, store.projects, world, history.removed)
    BY <1>2, <1>7 DEF Starts, StandsFor, Imported
  <2>4. Profiled(calls.mem, store.profiles, history)
    BY <1>2, <1>7 DEF Starts, StandsFor, Profiled
  <2>5. StandsFor(calls.mem, store', world, history)
    BY <1>3, <1>4, <2>2, <2>3, <2>4 DEF StandsFor
  <2>6. Reads(calls', store'.file)
    <3>1. calls.then # "import" => calls.mem.projects = <<>>
      BY <1>7 DEF Starts
    <3>2. calls.then \in {"codex", "serving"} => calls.mem.initialized
      BY <1>7 DEF Starts
    <3> QED BY <1>1, <1>3, <1>4, <2>1, <3>1, <3>2 DEF Reads
  <2> QED BY <1>1, <1>2, <1>5, <1>6, <2>1, <2>5, <2>6 DEF FilesInv
<1>8. CASE Edits(calls, store.file, history)
  <2>1. /\ calls.then = "serving" /\ history' = calls.edited /\ calls.mem.projects = <<>> /\ calls.mem.initialized
        /\ calls.edited = [items |-> calls.mem.items, results |-> calls.edited.results, removed |-> history.removed,
                 dropped |-> history.dropped, profiles |-> history.profiles]
        /\ LastResults(calls.mem.results, calls.edited.results)
    BY <1>1, <1>8 DEF Edits
  <2>2. Files!Found = store.file
    BY <1>8, CurrentIsFound, NoneIsNoConfig DEF Edits, Files!Found, Config
  <2>3. Imported(calls.mem, store.projects, world, history.removed)
    BY <1>2, <1>8, <2>2 DEF Edits, StandsFor, Imported
  <2>4. Profiled(calls.mem, store.profiles, calls.edited)
    BY <1>2, <2>1 DEF StandsFor, Profiled, Once
  <2>5. StandsFor(calls.mem, store', world, calls.edited)
    BY <1>3, <1>4, <2>1, <2>3, <2>4 DEF StandsFor
  <2>6. Reads(calls', store'.file)
    BY <1>1, <1>3, <1>4, <2>1 DEF Reads
  <2>7. HistoryIs(calls.edited)
    BY <2>1 DEF HistoryIs
  <2> QED BY <1>1, <1>5, <1>6, <2>1, <2>5, <2>6, <2>7 DEF FilesInv
<1> QED BY <1>2, <1>7, <1>8 DEF Writes

\* Only rows of the database change, and with them perhaps what is remembered.
LEMMA FilesRowsMove ==
  ASSUME FilesInv, UNCHANGED <<calls, world>>, calls.at \in {"import", "profiles", "codex", "serving"},
         RowsAre(store'), store'.file = store.file, HistoryIs(history'), StandsFor(Files!Found, store', world, history')
  PROVE FilesInv'
<1>1. Files!Found' = Files!Found
  BY DEF Files!Found
<1>2. Reads(calls, store.file)
  BY FilesCalls
<1>3. Reads(calls', store'.file)
  BY <1>2
<1> QED BY <1>1, <1>3 DEF FilesInv

\* A process that has read the file has what loadConfig would make of it.
LEMMA ReadIsFound ==
  ASSUME FilesConstants, FilesInv, Reads(calls, store.file)
  PROVE /\ Files!Found = calls.mem /\ Config(calls.mem) /\ store.file = calls.mem
        /\ RowsAre(store) /\ HistoryIs(history) /\ StandsFor(calls.mem, store, world, history)
<1>1. Config(calls.mem) /\ store.file = calls.mem
  BY DEF Reads
<1>2. Files!Found = calls.mem
  BY <1>1, CurrentIsFound, NoneIsNoConfig DEF Config, Files!Found
<1> QED BY <1>1, <1>2 DEF FilesInv

LEMMA FilesImport ==
  ASSUME FilesConstants, FilesInv, Files!ImportProject PROVE FilesInv'
<1>1. /\ calls.at = "import" /\ UNCHANGED <<calls, world, history>>
      /\ \E i \in DOMAIN calls.mem.projects : store' = [store EXCEPT !.projects = store.projects \cup {calls.mem.projects[i]}]
  BY DEF Files!ImportProject, Files!Rest, Files!Missing
<1>2. PICK i \in DOMAIN calls.mem.projects : store' = [store EXCEPT !.projects = store.projects \cup {calls.mem.projects[i]}]
  BY <1>1
<1>3. Reads(calls, store.file)
  BY <1>1, FilesCalls
<1>4. /\ Files!Found = calls.mem /\ RowsAre(store) /\ HistoryIs(history) /\ StandsFor(calls.mem, store, world, history)
  BY <1>3, ReadIsFound
<1> DEFINE project == calls.mem.projects[i]
<1>5. project \in Files!ToSet(calls.mem.projects)
  BY <1>2 DEF Files!ToSet
<1> HIDE DEF project
<1>6. store' = [file |-> store.file, tmp |-> store.tmp, projects |-> store.projects \cup {project}, profiles |-> store.profiles]
  BY <1>2, <1>4 DEF RowsAre, project
<1>7. RowsAre(store')
  BY <1>4, <1>6 DEF RowsAre
<1>8. calls.mem.projects # <<>>
  BY <1>2
<1>9. Imported(calls.mem, store.projects \cup {project}, world, history.removed)
  BY <1>4, <1>5, <1>8 DEF StandsFor, Imported
<1>10. StandsFor(calls.mem, store', world, history)
  BY <1>4, <1>6, <1>9 DEF StandsFor
<1> QED BY <1>1, <1>4, <1>6, <1>7, <1>10, FilesRowsMove

LEMMA FilesFinishImport ==
  ASSUME FilesConstants, FilesInv, Files!FinishImport PROVE FilesInv'
<1>1. /\ calls.at = "import" /\ UNCHANGED <<store, world, history>>
      /\ \A i \in DOMAIN calls.mem.projects : calls.mem.projects[i] \in store.projects
      /\ calls' = IF calls.mem.projects = <<>> THEN [at |-> "profiles", mem |-> calls.mem]
              ELSE [at |-> "write", mem |-> [calls.mem EXCEPT !.projects = <<>>],
                    before |-> None, then |-> "profiles"]
  BY DEF Files!FinishImport, Files!Rest, Files!Missing
<1>2. Reads(calls, store.file)
  BY <1>1, FilesCalls
<1>3. Files!Found = calls.mem /\ Config(calls.mem)
  BY <1>2, ReadIsFound
<1>4. CASE calls.mem.projects = <<>>
  <2>1. Reads(calls', store.file)
    BY <1>1, <1>2, <1>4 DEF Reads
  <2> QED BY <1>1, <2>1, FilesCallsMove
<1>5. CASE calls.mem.projects # <<>>
  <2> DEFINE mem == [calls.mem EXCEPT !.projects = <<>>]
  <2>1. mem = [version |-> 3, projects |-> <<>>, initialized |-> calls.mem.initialized, items |-> calls.mem.items, results |-> calls.mem.results]
    BY <1>3 DEF Config, ConfigRecord
  <2>2. calls' = [at |-> "write", mem |-> mem, before |-> None, then |-> "profiles"]
    BY <1>1, <1>5
  <2> HIDE DEF mem
  <2>3. Files!ToSet(calls.mem.projects) \subseteq store.projects
    BY <1>1 DEF Files!ToSet
  <2>4. Config(mem)
    BY <2>1 DEF Config, ConfigRecord
  <2>5. mem.initialized <=> calls.mem.initialized
    BY <2>1
  <2>6. Starts(calls', calls.mem, store.projects)
    BY <2>1, <2>2, <2>3, <2>5 DEF Starts
  <2>7. Writes(calls', store, Files!Found, history)
    BY <1>3, <2>2, <2>4, <2>6 DEF Writes
  <2> QED BY <1>1, <2>7, FilesCallsMove
<1> QED BY <1>4, <1>5

\* One profile is as it was set, made or changed.
LEMMA FilesProfileMoves ==
  ASSUME FilesConstants, FilesInv, calls.at \in {"profiles", "codex", "serving"}, UNCHANGED <<calls, world>>,
         NEW p \in Defaults, NEW value,
         store' = [store EXCEPT !.profiles[p] = value], HistoryIs(history'),
         history'.items = history.items, history'.results = history.results, history'.removed = history.removed,
         history'.profiles = [q \in Defaults |-> history'.profiles[q]],
         \A q \in Defaults \ {p} : history'.profiles[q] = history.profiles[q] /\ (q \in history'.dropped <=> q \in history.dropped),
         Once(p, [store.profiles EXCEPT ![p] = value], history'),
         calls.mem.initialized \/ history' = history
  PROVE FilesInv'
<1>1. Reads(calls, store.file)
  BY FilesCalls
<1>2. /\ Files!Found = calls.mem /\ RowsAre(store) /\ HistoryIs(history) /\ StandsFor(calls.mem, store, world, history)
  BY <1>1, ReadIsFound
<1> DEFINE profiles == [store.profiles EXCEPT ![p] = value]
<1>3. store' = [file |-> store.file, tmp |-> store.tmp, projects |-> store.projects, profiles |-> profiles]
  BY <1>2 DEF RowsAre
<1>4. profiles = [q \in Defaults |-> IF q = p THEN value ELSE store.profiles[q]]
  BY <1>2 DEF RowsAre
<1>5. Once(p, profiles, history')
  OBVIOUS
<1> HIDE DEF profiles
<1>6. RowsAre(store')
  BY <1>2, <1>3, <1>4 DEF RowsAre
<1>7. \A q \in Defaults : Once(q, profiles, history')
  <2> SUFFICES ASSUME NEW q \in Defaults, q # p PROVE Once(q, profiles, history')
    BY <1>5
  <2>1. Once(q, store.profiles, history)
    BY <1>2 DEF StandsFor, Profiled
  <2> QED BY <1>4, <2>1 DEF Once
<1>8. calls.mem.initialized \/ (history'.dropped = {} /\ \A q \in Defaults : history'.profiles[q] = None)
  BY <1>2 DEF StandsFor, Profiled
<1>9. Profiled(calls.mem, profiles, history')
  BY <1>7, <1>8 DEF Profiled
<1>10. StandsFor(calls.mem, store', world, history')
  BY <1>2, <1>3, <1>9 DEF StandsFor
<1> QED BY <1>2, <1>3, <1>6, <1>10, FilesRowsMove

LEMMA FilesEnsure ==
  ASSUME FilesConstants, FilesInv, NEW p \in Defaults, Files!EnsureDefaultProfile(p) PROVE FilesInv'
<1>1. /\ calls.at = "profiles" /\ ~calls.mem.initialized /\ store.profiles[p] = None
      /\ store' = [store EXCEPT !.profiles[p] = "default"] /\ UNCHANGED <<calls, world, history>>
  BY DEF Files!EnsureDefaultProfile, Files!Absent, Files!Rest
<1>2. Reads(calls, store.file)
  BY <1>1, FilesCalls
<1>3. /\ RowsAre(store) /\ HistoryIs(history) /\ StandsFor(calls.mem, store, world, history)
  BY <1>2, ReadIsFound
<1>4. history.dropped = {} /\ history.profiles[p] = None /\ history.profiles = [q \in Defaults |-> history.profiles[q]]
  BY <1>1, <1>3 DEF StandsFor, Profiled
<1>5. Once(p, [store.profiles EXCEPT ![p] = "default"], history)
  <2>1. [store.profiles EXCEPT ![p] = "default"][p] = "default"
    BY <1>3 DEF RowsAre
  <2> QED BY <1>4, <2>1 DEF Once
<1> QED BY <1>1, <1>3, <1>4, <1>5, FilesProfileMoves

LEMMA FilesFinishProfiles ==
  ASSUME FilesConstants, FilesInv, Files!FinishProfiles PROVE FilesInv'
<1>1. /\ calls.at = "profiles" /\ UNCHANGED <<store, world, history>>
      /\ calls' = IF calls.mem.initialized THEN [at |-> "codex", mem |-> calls.mem]
              ELSE [at |-> "write", mem |-> [calls.mem EXCEPT !.initialized = TRUE],
                    before |-> None, then |-> "codex"]
  BY DEF Files!FinishProfiles, Files!Rest
<1>2. Reads(calls, store.file)
  BY <1>1, FilesCalls
<1>3. Files!Found = calls.mem /\ Config(calls.mem)
  BY <1>2, ReadIsFound
<1>4. CASE calls.mem.initialized
  <2>1. Reads(calls', store.file)
    BY <1>1, <1>2, <1>4 DEF Reads
  <2> QED BY <1>1, <2>1, FilesCallsMove
<1>5. CASE ~calls.mem.initialized
  <2> DEFINE mem == [calls.mem EXCEPT !.initialized = TRUE]
  <2>1. mem = [version |-> 3, projects |-> calls.mem.projects, initialized |-> TRUE, items |-> calls.mem.items, results |-> calls.mem.results]
    <3>1. \A b : [calls.mem EXCEPT !.initialized = b] =
        [version |-> 3, projects |-> calls.mem.projects, initialized |-> b, items |-> calls.mem.items, results |-> calls.mem.results]
      BY <1>3 DEF Config, ConfigRecord
    <3> QED BY <3>1, Zenon
  <2>2. calls' = [at |-> "write", mem |-> mem, before |-> None, then |-> "codex"]
    BY <1>1, <1>5
  <2> HIDE DEF mem
  <2>3. calls.mem.projects = <<>>
    BY <1>1, <1>2 DEF Reads
  <2>4. Config(mem) /\ mem.initialized
    BY <2>1 DEF Config, ConfigRecord
  <2>5. Starts(calls', calls.mem, store.projects)
    BY <2>1, <2>2, <2>3, <2>4 DEF Starts
  <2>6. Writes(calls', store, Files!Found, history)
    BY <1>3, <2>2, <2>4, <2>5 DEF Writes
  <2> QED BY <1>1, <2>6, FilesCallsMove
<1> QED BY <1>4, <1>5

LEMMA FilesCodex ==
  ASSUME FilesConstants, FilesInv, Codex \in Defaults, Files!MigrateCodex PROVE FilesInv'
<1>1. /\ calls.at = "codex" /\ UNCHANGED <<world, history>>
      /\ store' = [store EXCEPT !.profiles[Codex] = IF store.profiles[Codex] = "legacy" THEN "default" ELSE store.profiles[Codex]]
      /\ calls' = [at |-> "serving", mem |-> calls.mem]
  <2>1. store' = [store EXCEPT !.profiles[Codex] = IF @ = "legacy" THEN "default" ELSE @]
    BY DEF Files!MigrateCodex
  <2> QED BY <2>1 DEF Files!MigrateCodex, Files!Rest
<1>2. Reads(calls, store.file)
  BY <1>1, FilesCalls
<1>3. /\ Files!Found = calls.mem /\ RowsAre(store) /\ HistoryIs(history) /\ StandsFor(calls.mem, store, world, history)
  BY <1>2, ReadIsFound
<1> DEFINE value == IF store.profiles[Codex] = "legacy" THEN "default" ELSE store.profiles[Codex]
           profiles == [store.profiles EXCEPT ![Codex] = value]
<1>4. store' = [file |-> store.file, tmp |-> store.tmp, projects |-> store.projects, profiles |-> profiles]
  BY <1>1, <1>3 DEF RowsAre
<1>5. profiles = [q \in Defaults |-> IF q = Codex THEN value ELSE store.profiles[q]]
  BY <1>3 DEF RowsAre
<1> HIDE DEF profiles
<1>6. RowsAre(store')
  BY <1>3, <1>4, <1>5 DEF RowsAre
<1>7. \A q \in Defaults : Once(q, profiles, history)
  <2> SUFFICES ASSUME NEW q \in Defaults PROVE Once(q, profiles, history)
    OBVIOUS
  <2>1. Once(q, store.profiles, history)
    BY <1>3 DEF StandsFor, Profiled
  <2> QED BY <1>5, <2>1 DEF Once
<1>8. Profiled(calls.mem, profiles, history)
  BY <1>3, <1>7 DEF StandsFor, Profiled
<1>9. StandsFor(calls.mem, store', world, history)
  BY <1>3, <1>4, <1>8 DEF StandsFor
<1>10. Reads(calls', store'.file)
  BY <1>1, <1>2, <1>4 DEF Reads
<1>11. Files!Found' = Files!Found
  BY <1>4 DEF Files!Found
<1> QED BY <1>1, <1>3, <1>6, <1>9, <1>10, <1>11 DEF FilesInv

LEMMA FilesSetProfile ==
  ASSUME FilesConstants, FilesInv, NEW p \in Defaults, NEW value, Files!SetProfile(p, value) PROVE FilesInv'
<1>1. /\ calls.at = "serving" /\ store' = [store EXCEPT !.profiles[p] = value] /\ UNCHANGED <<calls, world>>
      /\ history' = [history EXCEPT !.profiles[p] = value, !.dropped = history.dropped \ {p}]
  BY DEF Files!SetProfile
<1>2. Reads(calls, store.file)
  BY <1>1, FilesCalls
<1>3. RowsAre(store) /\ HistoryIs(history) /\ StandsFor(calls.mem, store, world, history)
  BY <1>2, ReadIsFound
<1> DEFINE profiles == [history.profiles EXCEPT ![p] = value]
<1>4. history' = [items |-> history.items, results |-> history.results, removed |-> history.removed,
                  dropped |-> history.dropped \ {p}, profiles |-> profiles]
  BY <1>1, <1>3 DEF HistoryIs
<1>5. profiles = [q \in Defaults |-> IF q = p THEN value ELSE history.profiles[q]]
  BY <1>3 DEF StandsFor, Profiled
<1> HIDE DEF profiles
<1>6. HistoryIs(history') /\ history'.profiles = [q \in Defaults |-> history'.profiles[q]]
  BY <1>4, <1>5 DEF HistoryIs
<1>7. Once(p, [store.profiles EXCEPT ![p] = value], history')
  <2>1. [store.profiles EXCEPT ![p] = value][p] = value
    BY <1>3 DEF RowsAre
  <2> QED BY <1>4, <1>5, <2>1 DEF Once
<1>8. calls.mem.initialized
  BY <1>1, <1>2 DEF Reads
<1> QED BY <1>1, <1>4, <1>5, <1>6, <1>7, <1>8, FilesProfileMoves

LEMMA FilesRemoveProfile ==
  ASSUME FilesConstants, FilesInv, NEW p \in Defaults, Files!RemoveAgentProfile(p) PROVE FilesInv'
<1>1. /\ calls.at = "serving" /\ store' = [store EXCEPT !.profiles[p] = None] /\ UNCHANGED <<calls, world>>
      /\ history' = [history EXCEPT !.profiles[p] = None, !.dropped = history.dropped \cup {p}]
  BY DEF Files!RemoveAgentProfile
<1>2. Reads(calls, store.file)
  BY <1>1, FilesCalls
<1>3. RowsAre(store) /\ HistoryIs(history) /\ StandsFor(calls.mem, store, world, history)
  BY <1>2, ReadIsFound
<1> DEFINE profiles == [history.profiles EXCEPT ![p] = None]
<1>4. history' = [items |-> history.items, results |-> history.results, removed |-> history.removed,
                  dropped |-> history.dropped \cup {p}, profiles |-> profiles]
  BY <1>1, <1>3 DEF HistoryIs
<1>5. profiles = [q \in Defaults |-> IF q = p THEN None ELSE history.profiles[q]]
  BY <1>3 DEF StandsFor, Profiled
<1> HIDE DEF profiles
<1>6. HistoryIs(history') /\ history'.profiles = [q \in Defaults |-> history'.profiles[q]]
  BY <1>4, <1>5 DEF HistoryIs
<1>7. Once(p, [store.profiles EXCEPT ![p] = None], history')
  <2>1. [store.profiles EXCEPT ![p] = None][p] = None
    BY <1>3 DEF RowsAre
  <2> QED BY <1>4, <1>5, <2>1 DEF Once
<1>8. calls.mem.initialized
  BY <1>1, <1>2 DEF Reads
<1> QED BY <1>1, <1>4, <1>5, <1>6, <1>7, <1>8, FilesProfileMoves

LEMMA FilesRemoveProject ==
  ASSUME FilesConstants, FilesInv, NEW p, Files!RemoveProject(p) PROVE FilesInv'
<1>1. /\ calls.at = "serving" /\ UNCHANGED <<calls, world>>
      /\ store' = [store EXCEPT !.projects = store.projects \ {p}]
      /\ history' = [history EXCEPT !.removed = history.removed \cup {p}]
  BY DEF Files!RemoveProject
<1>2. Reads(calls, store.file)
  BY <1>1, FilesCalls
<1>3. Files!Found = calls.mem /\ RowsAre(store) /\ HistoryIs(history) /\ StandsFor(calls.mem, store, world, history)
  BY <1>2, ReadIsFound
<1>4. store' = [file |-> store.file, tmp |-> store.tmp, projects |-> store.projects \ {p}, profiles |-> store.profiles]
  BY <1>1, <1>3 DEF RowsAre
<1>5. history' = [items |-> history.items, results |-> history.results, removed |-> history.removed \cup {p},
                  dropped |-> history.dropped, profiles |-> history.profiles]
  BY <1>1, <1>3 DEF HistoryIs
<1>6. RowsAre(store') /\ HistoryIs(history')
  BY <1>3, <1>4, <1>5 DEF RowsAre, HistoryIs
<1>7. calls.mem.projects = <<>>
  BY <1>1, <1>2 DEF Reads
<1>8. Imported(calls.mem, store'.projects, world, history'.removed)
  BY <1>3, <1>4, <1>5, <1>7 DEF StandsFor, Imported
<1>9. Profiled(calls.mem, store'.profiles, history')
  BY <1>3, <1>4, <1>5 DEF StandsFor, Profiled, Once
<1>10. StandsFor(calls.mem, store', world, history')
  BY <1>3, <1>4, <1>5, <1>8, <1>9 DEF StandsFor
<1> QED BY <1>1, <1>3, <1>4, <1>6, <1>10, FilesRowsMove

\* An edit is in the memory first, and what it will make of the file is known.
LEMMA FilesSaving ==
  ASSUME FilesConstants, FilesInv, NEW mem, NEW edited, calls.at = "serving", Files!Saving(mem, edited),
         mem = [version |-> 3, projects |-> calls.mem.projects, initialized |-> calls.mem.initialized, items |-> mem.items, results |-> mem.results],
         edited = [items |-> mem.items, results |-> edited.results, removed |-> history.removed,
                   dropped |-> history.dropped, profiles |-> history.profiles],
         LastResults(mem.results, edited.results)
  PROVE FilesInv'
<1>1. /\ UNCHANGED <<store, world, history>>
      /\ calls' = [at |-> "write", mem |-> mem, before |-> calls.mem, then |-> "serving", edited |-> edited]
  BY DEF Files!Saving
<1>2. Reads(calls, store.file)
  BY FilesCalls
<1>3. Config(calls.mem) /\ store.file = calls.mem /\ calls.mem.projects = <<>> /\ calls.mem.initialized
  BY <1>2 DEF Reads
<1>4. calls.mem # None
  BY <1>3, NoneIsNoConfig DEF Config
<1>5. Config(mem) /\ mem.projects = calls.mem.projects /\ mem.initialized = calls.mem.initialized
  BY DEF Config, ConfigRecord
<1>6. mem.initialized
  BY <1>3, <1>5
<1>7. Edits(calls', store.file, history)
  BY <1>1, <1>3, <1>4, <1>5, <1>6 DEF Edits
<1>8. Writes(calls', store, Files!Found, history)
  BY <1>1, <1>5, <1>7 DEF Writes
<1> QED BY <1>1, <1>8, FilesCallsMove

LEMMA FilesSetItems ==
  ASSUME FilesConstants, FilesInv, NEW kind, NEW list, calls.at = "serving", Files!SetItems(kind, list) PROVE FilesInv'
<1> DEFINE mem == [calls.mem EXCEPT !.items[kind] = list]
           edited == [history EXCEPT !.items[kind] = list]
           items == [calls.mem.items EXCEPT ![kind] = list]
<1>1. Files!Saving(mem, edited)
  BY DEF Files!SetItems
<1>2. Reads(calls, store.file)
  BY FilesCalls
<1>3. Config(calls.mem) /\ HistoryIs(history) /\ StandsFor(calls.mem, store, world, history)
  BY <1>2, ReadIsFound
<1>4. calls.mem.items = history.items /\ LastResults(calls.mem.results, history.results)
  BY <1>3 DEF StandsFor
<1>5. mem = [calls.mem EXCEPT !.items = items] /\ edited = [history EXCEPT !.items = items]
  BY <1>4
<1> HIDE DEF items
<1>6. mem = [version |-> 3, projects |-> calls.mem.projects, initialized |-> calls.mem.initialized, items |-> items, results |-> calls.mem.results]
  BY <1>3, <1>5 DEF Config, ConfigRecord
<1>7. edited = [items |-> items, results |-> history.results, removed |-> history.removed,
                dropped |-> history.dropped, profiles |-> history.profiles]
  BY <1>3, <1>5 DEF HistoryIs
<1> HIDE DEF mem, edited
<1>8. mem.items = items /\ mem.results = calls.mem.results /\ edited.results = history.results
  BY <1>6, <1>7
<1> QED BY <1>1, <1>4, <1>6, <1>7, <1>8, FilesSaving

LEMMA FilesItems ==
  ASSUME FilesConstants, FilesInv, NEW kind, NEW id, NEW value,
         Files!AddItem(kind, id, value) \/ Files!UpdateItem(kind, id, value) \/ Files!RemoveItem(kind, id)
  PROVE FilesInv'
<1>1. calls.at = "serving" /\ \E list : Files!SetItems(kind, list)
  BY DEF Files!AddItem, Files!UpdateItem, Files!RemoveItem
<1> QED BY <1>1, FilesSetItems

\* saveCleanupResult and its kin: a plan has one result, its last.
LEMMA RecordedIsLast ==
  ASSUME MaxResults \in Nat, NEW list, ResultList(list), NEW last, last = [q \in Plans |-> last[q]],
         \A i \in DOMAIN list : list[i].value = last[list[i].plan],
         NEW plan \in Plans, NEW value \in Values
  PROVE LET recorded == Files!Recorded(list, plan, value)
        IN /\ ResultList(recorded)
           /\ \A i \in DOMAIN recorded : recorded[i].value = [last EXCEPT ![plan] = value][recorded[i].plan]
<1> DEFINE now == [last EXCEPT ![plan] = value]
           places == {i \in DOMAIN list : list[i].plan = plan}
           all == IF places # {} THEN [list EXCEPT ![CHOOSE i \in places : TRUE].value = value]
                  ELSE Append(list, [plan |-> plan, value |-> value])
<1>1. list \in Seq(Result) /\ Len(list) <= MaxResults /\ \A i, j \in DOMAIN list : list[i].plan = list[j].plan => i = j
  BY DEF ResultList
<1>0. \A i \in DOMAIN list : list[i] \in Result /\ list[i].plan \in Plans /\ list[i] = [plan |-> list[i].plan, value |-> list[i].value]
  <2>1. \A i \in DOMAIN list : list[i] \in Result
    BY <1>1
  <2>2. \A r \in Result : r.plan \in Plans /\ r = [plan |-> r.plan, value |-> r.value]
    BY DEF Result
  <2> QED BY <2>1, <2>2
<1>2. now = [q \in Plans |-> IF q = plan THEN value ELSE last[q]]
  OBVIOUS
<1> HIDE DEF now
<1>3. /\ all \in Seq(Result) /\ Len(all) <= MaxResults + 1
      /\ \A i, j \in DOMAIN all : all[i].plan = all[j].plan => i = j
      /\ \A i \in DOMAIN all : all[i].value = now[all[i].plan]
  <2>1. CASE places # {}
    <3> DEFINE place == CHOOSE i \in places : TRUE
    <3>1. place \in places
      BY <2>1
    <3>2. place \in DOMAIN list /\ list[place].plan = plan
      BY <3>1
    <3>3. all = [list EXCEPT ![place] = [list[place] EXCEPT !.value = value]]
      BY <2>1
    <3> HIDE DEF place, places, all
    <3>4. [list[place] EXCEPT !.value = value] = [plan |-> plan, value |-> value] /\ [plan |-> plan, value |-> value] \in Result
      <4> DEFINE old == list[place]
      <4>1. old = [plan |-> plan, value |-> old.value]
        BY <1>0, <3>2
      <4> HIDE DEF old
      <4>2. [old EXCEPT !.value = value] = [plan |-> plan, value |-> value]
        BY <4>1
      <4> QED BY <4>2 DEF old, Result
    <3>5. all \in Seq(Result) /\ Len(all) = Len(list) /\ DOMAIN all = DOMAIN list
      BY <1>1, <3>2, <3>3, <3>4
    <3>6. \A i \in DOMAIN list : all[i] = IF i = place THEN [plan |-> plan, value |-> value] ELSE list[i]
      BY <1>1, <3>2, <3>3, <3>4
    <3>7. \A i \in DOMAIN list : all[i].plan = list[i].plan /\ (i # place => list[i].plan # plan /\ list[i].plan \in Plans)
      <4> SUFFICES ASSUME NEW i \in DOMAIN list
          PROVE all[i].plan = list[i].plan /\ (i # place => list[i].plan # plan /\ list[i].plan \in Plans)
        OBVIOUS
      <4>1. CASE i = place
        BY <3>2, <3>6, <4>1
      <4>2. CASE i # place
        BY <1>0, <1>1, <3>2, <3>6, <4>2
      <4> QED BY <4>1, <4>2
    <3>8. \A i \in DOMAIN all : all[i].value = now[all[i].plan]
      <4> SUFFICES ASSUME NEW i \in DOMAIN list PROVE all[i].value = now[all[i].plan]
        BY <3>5
      <4>1. CASE i = place
        BY <1>2, <3>6, <4>1
      <4>2. CASE i # place
        BY <1>2, <3>6, <3>7, <4>2
      <4> QED BY <4>1, <4>2
    <3> QED BY <1>1, <3>5, <3>7, <3>8
  <2>2. CASE places = {}
    <3>1. \A i \in DOMAIN list : list[i].plan # plan
      BY <2>2
    <3>2. all = Append(list, [plan |-> plan, value |-> value])
      BY <2>2
    <3> DEFINE new == [plan |-> plan, value |-> value]
    <3>3. new \in Result /\ new.plan = plan /\ new.value = value
      BY DEF Result
    <3> HIDE DEF new, all, places
    <3>4. all = Append(list, new)
      BY <3>2 DEF new
    <3>5. all \in Seq(Result) /\ Len(all) = Len(list) + 1 /\ DOMAIN all = 1..(Len(list) + 1) /\ DOMAIN list = 1..Len(list) /\ Len(list) \in Nat
      BY <1>1, <3>3, <3>4
    <3>6. \A i \in DOMAIN all : (i \in DOMAIN list /\ all[i] = list[i]) \/ (i = Len(list) + 1 /\ all[i] = new)
      <4> SUFFICES ASSUME NEW i \in 1..(Len(list) + 1) PROVE (i \in DOMAIN list /\ all[i] = list[i]) \/ (i = Len(list) + 1 /\ all[i] = new)
        BY <3>5
      <4>1. CASE i <= Len(list)
        <5>1. i \in 1..Len(list)
          BY <3>5, <4>1
        <5>2. all[i] = list[i]
          BY <1>1, <3>4, <5>1
        <5> QED BY <3>5, <5>1, <5>2
      <4>2. CASE i = Len(list) + 1
        BY <1>1, <3>4, <3>5, <4>2
      <4> QED BY <3>5, <4>1, <4>2
    <3>7. \A i \in DOMAIN all : all[i].value = now[all[i].plan]
      <4> SUFFICES ASSUME NEW i \in DOMAIN all PROVE all[i].value = now[all[i].plan]
        OBVIOUS
      <4>1. CASE i \in DOMAIN list /\ all[i] = list[i]
        <5>1. list[i].plan \in Plans /\ list[i].plan # plan
          BY <1>0, <3>1, <4>1
        <5> QED BY <1>2, <4>1, <5>1
      <4>2. CASE all[i] = new
        BY <1>2, <3>3, <4>2
      <4> QED BY <3>6, <4>1, <4>2
    <3>8. \A i, j \in DOMAIN all : all[i].plan = all[j].plan => i = j
      BY <1>1, <3>1, <3>3, <3>6
    <3> QED BY <1>1, <3>5, <3>7, <3>8
  <2> QED BY <2>1, <2>2
<1> DEFINE recorded == IF Len(all) > MaxResults THEN Tail(all) ELSE all
<1>4. Files!Recorded(list, plan, value) = recorded
  BY DEF Files!Recorded
<1> HIDE DEF all
<1>5. ResultList(recorded) /\ \A i \in DOMAIN recorded : recorded[i].value = now[recorded[i].plan]
  <2>1. CASE Len(all) > MaxResults
    <3>1. all # <<>> /\ recorded = Tail(all)
      BY <1>3, <2>1
    <3> HIDE DEF recorded
    <3>2. recorded \in Seq(Result) /\ Len(recorded) = Len(all) - 1 /\ \A i \in DOMAIN recorded : i + 1 \in DOMAIN all /\ recorded[i] = all[i + 1]
      BY <1>3, <3>1
    <3>3. \A i, j \in DOMAIN recorded : recorded[i].plan = recorded[j].plan => i = j
      BY <1>3, <3>2
    <3>4. Len(recorded) <= MaxResults
      BY <1>3, <3>2
    <3> QED BY <1>3, <3>2, <3>3, <3>4 DEF ResultList
  <2>2. CASE ~(Len(all) > MaxResults)
    <3>1. recorded = all
      BY <2>2
    <3> HIDE DEF recorded
    <3> QED BY <1>3, <2>2, <3>1 DEF ResultList
  <2> QED BY <2>1, <2>2
<1> QED BY <1>4, <1>5 DEF now

LEMMA FilesSaveResult ==
  ASSUME FilesConstants, FilesInv, NEW log \in Files!Logs, NEW plan \in Plans, NEW value \in Values,
         Files!SaveResult(log, plan, value)
  PROVE FilesInv'
<1> DEFINE list == Files!Recorded(calls.mem.results[log], plan, value)
           mem == [calls.mem EXCEPT !.results[log] = list]
           edited == [history EXCEPT !.results[log][plan] = value]
           logs == [calls.mem.results EXCEPT ![log] = list]
           now == [history.results[log] EXCEPT ![plan] = value]
           last == [history.results EXCEPT ![log] = now]
<1>1. calls.at = "serving" /\ Files!Saving(mem, edited)
  BY DEF Files!SaveResult
<1>2. Reads(calls, store.file)
  BY <1>1, FilesCalls
<1>3. Config(calls.mem) /\ HistoryIs(history) /\ StandsFor(calls.mem, store, world, history)
  BY <1>2, ReadIsFound
<1>4. calls.mem.items = history.items /\ LastResults(calls.mem.results, history.results)
  BY <1>3 DEF StandsFor
<1>5. /\ ResultList(calls.mem.results[log]) /\ history.results[log] = [q \in Plans |-> history.results[log][q]]
      /\ \A i \in DOMAIN calls.mem.results[log] : calls.mem.results[log][i].value = history.results[log][calls.mem.results[log][i].plan]
  BY <1>4 DEF LastResults, ResultLogs
<1>6. ResultList(list) /\ \A i \in DOMAIN list : list[i].value = now[list[i].plan]
  <2>1. MaxResults \in Nat
    BY DEF FilesConstants
  <2> QED BY <1>5, <2>1, RecordedIsLast
<1>7. now = [q \in Plans |-> now[q]]
  BY <1>5
<1>8. mem = [calls.mem EXCEPT !.results = logs] /\ edited = [history EXCEPT !.results = last]
  OBVIOUS
<1> HIDE DEF list, now
<1>9. /\ calls.mem.results = [l \in Files!Logs |-> calls.mem.results[l]] /\ history.results = [l \in Files!Logs |-> history.results[l]]
  BY <1>4 DEF LastResults, ResultLogs
<1>10. /\ logs = [l \in Files!Logs |-> IF l = log THEN list ELSE calls.mem.results[l]]
       /\ last = [l \in Files!Logs |-> IF l = log THEN now ELSE history.results[l]]
  BY <1>9
<1> HIDE DEF logs, last
<1>11. LastResults(logs, last)
  BY <1>4, <1>6, <1>7, <1>10 DEF LastResults, ResultLogs
<1>12. mem = [version |-> 3, projects |-> calls.mem.projects, initialized |-> calls.mem.initialized, items |-> calls.mem.items, results |-> logs]
  BY <1>3, <1>8 DEF Config, ConfigRecord
<1>13. edited = [items |-> history.items, results |-> last, removed |-> history.removed,
                 dropped |-> history.dropped, profiles |-> history.profiles]
  BY <1>3, <1>8 DEF HistoryIs
<1> HIDE DEF mem, edited
<1>14. mem.items = calls.mem.items /\ mem.results = logs /\ edited.results = last
  BY <1>12, <1>13
<1> QED BY <1>1, <1>4, <1>11, <1>12, <1>13, <1>14, FilesSaving

\* What the first start finds is what is remembered of it.
LEMMA FoundIsLast ==
  ASSUME NEW results, ResultLogs(results)
  PROVE LastResults(results, [l \in Files!Logs |-> [plan \in Plans |-> Files!ResultOf(results[l], plan)]])
<1> DEFINE last == [l \in Files!Logs |-> [plan \in Plans |-> Files!ResultOf(results[l], plan)]]
<1>1. ASSUME NEW l \in Files!Logs, NEW i \in DOMAIN results[l]
      PROVE results[l][i].value = last[l][results[l][i].plan]
  <2> DEFINE list == results[l]
             plan == list[i].plan
             place == CHOOSE j \in DOMAIN list : list[j].plan = plan
  <2>1. ResultList(list)
    BY DEF ResultLogs
  <2>2. plan \in Plans /\ \A j \in DOMAIN list : list[j].plan = plan => j = i
    <3>1. list[i] \in Result /\ \A j \in DOMAIN list : list[j].plan = list[i].plan => j = i
      BY <1>1, <2>1 DEF ResultList
    <3> QED BY <3>1 DEF Result
  <2>3. place \in DOMAIN list /\ list[place].plan = plan
    OBVIOUS
  <2>4. place = i
    BY <2>2, <2>3
  <2>5. Files!ResultOf(list, plan) = list[place].value
    BY <2>3 DEF Files!ResultOf
  <2>6. last[l][plan] = Files!ResultOf(list, plan)
    BY <2>2
  <2> QED BY <2>4, <2>5, <2>6
<1> QED BY <1>1 DEF LastResults

LEMMA FilesInit ==
  ASSUME FilesConstants, Files!ConfigInit PROVE FilesInv
<1> DEFINE found == Files!Found
           results == [l \in Files!Logs |-> [plan \in Plans |-> Files!ResultOf(found.results[l], plan)]]
<1>1. /\ store \in [file : Old \cup {None}, tmp : {None}, projects : {{}}, profiles : [Defaults -> {None}]]
      /\ calls = [at |-> "down"] /\ world = IF store.file = None THEN {} ELSE Files!ToSet(store.file.projects)
      /\ history = [items |-> found.items, results |-> results, removed |-> {}, dropped |-> {}, profiles |-> [p \in Defaults |-> None]]
  BY DEF Files!ConfigInit
<1>2. /\ store = [file |-> store.file, tmp |-> store.tmp, projects |-> {}, profiles |-> store.profiles]
      /\ store.profiles \in [Defaults -> {None}] /\ store.file \in Old \cup {None}
  BY <1>1
<1>3. RowsAre(store)
  BY <1>2 DEF RowsAre
<1>4. HistoryIs(history)
  <2> HIDE DEF found, results
  <2> QED BY <1>1 DEF HistoryIs
<1>5. Config(found) /\ ResultLogs(found.results) /\ Files!ToSet(found.projects) = world
  <2>1. CASE store.file = None
    <3>1. found = Files!DefaultConfig
      BY <2>1 DEF Files!Found
    <3>2. found = [version |-> 3, projects |-> <<>>, initialized |-> FALSE, items |-> Files!NoItems, results |-> Files!NoResults]
      BY <3>1 DEF Files!DefaultConfig
    <3>3. <<>> \in Seq(Result)
      OBVIOUS
    <3>4. ResultList(<<>>)
      BY <3>3 DEF ResultList, FilesConstants
    <3> HIDE DEF found
    <3>5. ResultLogs(found.results)
      BY <3>2, <3>4 DEF ResultLogs, Files!NoResults
    <3>6. Config(found)
      BY <3>2 DEF Config, ConfigRecord
    <3>7. Files!ToSet(found.projects) = {}
      BY <3>2 DEF Files!ToSet
    <3> QED BY <1>1, <2>1, <3>5, <3>6, <3>7
  <2>2. CASE store.file # None
    <3> DEFINE c == store.file
    <3>1. c \in Old /\ ConfigRecord(c) /\ ResultLogs(c.results)
      BY <1>2, <2>2 DEF FilesConstants
    <3>2. found = Files!Migrated(c)
      BY <2>2 DEF Files!Found
    <3> HIDE DEF found, c
    <3>3. CASE c.version = 1
      <4>1. found = [Files!DefaultConfig EXCEPT !.projects = c.projects]
        BY <3>2, <3>3 DEF Files!Migrated
      <4>2. found = [version |-> 3, projects |-> c.projects, initialized |-> FALSE, items |-> Files!NoItems, results |-> Files!NoResults]
        BY <4>1 DEF Files!DefaultConfig
      <4>3. <<>> \in Seq(Result)
        OBVIOUS
      <4>4. ResultList(<<>>)
        BY <4>3 DEF ResultList, FilesConstants
      <4>5. ResultLogs(found.results)
        BY <4>2, <4>4 DEF ResultLogs, Files!NoResults
      <4> QED BY <1>1, <2>2, <4>2, <4>5 DEF Config, ConfigRecord, c
    <3>4. CASE c.version # 1
      <4>1. found = [c EXCEPT !.version = 3]
        BY <3>2, <3>4 DEF Files!Migrated
      <4>2. found = [version |-> 3, projects |-> c.projects, initialized |-> c.initialized, items |-> c.items, results |-> c.results]
        BY <3>1, <4>1 DEF ConfigRecord
      <4> QED BY <1>1, <2>2, <3>1, <4>2 DEF Config, ConfigRecord, c
    <3> QED BY <3>3, <3>4
  <2> QED BY <2>1, <2>2
<1>6. LastResults(found.results, results)
  BY <1>5, FoundIsLast
<1> HIDE DEF found, results
<1>7. Imported(found, store.projects, world, history.removed)
  <2>1. store.projects = {} /\ history.removed = {}
    BY <1>1, <1>2
  <2>2. found.projects = <<>> => world = {}
    BY <1>5 DEF Files!ToSet
  <2> QED BY <1>5, <2>1, <2>2 DEF Imported
<1>8. Profiled(found, store.profiles, history)
  <2>1. /\ history.dropped = {} /\ history.profiles = [p \in Defaults |-> None]
        /\ \A p \in Defaults : store.profiles[p] = None
    BY <1>1, <1>2
  <2> QED BY <2>1 DEF Profiled, Once
<1>9. found.items = history.items /\ results = history.results
  BY <1>1
<1>10. StandsFor(found, store, world, history)
  BY <1>5, <1>6, <1>7, <1>8, <1>9 DEF StandsFor
<1> QED BY <1>1, <1>3, <1>4, <1>10 DEF FilesInv, found

LEMMA FilesStep ==
  ASSUME FilesConstants, Codex \in Defaults, FilesInv, [Files!ConfigNext]_vars PROVE FilesInv'
<1>1. CASE Files!ConfigStart
  BY <1>1, FilesLoad, FilesWrite, FilesRename, FilesSaveFails, FilesImport, FilesFinishImport, FilesFinishProfiles, FilesCodex,
     FilesEnsure, FilesStops DEF Files!ConfigStart
<1>2. CASE Files!ConfigEdit
  <2>1. ASSUME NEW id, NEW value,
               \/ Files!RemoveIntegration(id) \/ Files!RemoveRunbook(id) \/ Files!RemoveGroup(id)
               \/ Files!AddIntegration(id, value) \/ Files!UpdateIntegration(id, value)
               \/ Files!AddRunbook(id, value) \/ Files!UpdateRunbook(id, value)
               \/ Files!AddGroup(id, value) \/ Files!UpdateGroup(id, value)
        PROVE FilesInv'
    BY <2>1, FilesItems DEF Files!RemoveIntegration, Files!RemoveRunbook, Files!RemoveGroup, Files!AddIntegration, Files!UpdateIntegration,
       Files!AddRunbook, Files!UpdateRunbook, Files!AddGroup, Files!UpdateGroup
  <2>2. ASSUME NEW plan \in Plans, NEW value \in Values,
               Files!SaveWorkResult(plan, value) \/ Files!SaveReleaseResult(plan, value) \/ Files!SaveCleanupResult(plan, value)
        PROVE FilesInv'
    BY <2>2, FilesSaveResult DEF Files!SaveWorkResult, Files!SaveReleaseResult, Files!SaveCleanupResult, Files!Logs
  <2>3. ASSUME NEW p \in Defaults, NEW value, Files!AddAgentProfile(p, value) \/ Files!UpdateAgentProfile(p, value) PROVE FilesInv'
    BY <2>3, FilesSetProfile DEF Files!AddAgentProfile, Files!UpdateAgentProfile
  <2> QED BY <1>2, <2>1, <2>2, <2>3, FilesRemoveProfile, FilesRemoveProject DEF Files!ConfigEdit
<1>3. CASE UNCHANGED vars
  <2>1. UNCHANGED <<store, calls, world, history>>
    BY <1>3 DEF vars
  <2>2. calls' = [at |-> "down"] \/ Reads(calls', store.file) \/ Writes(calls', store, Files!Found, history)
    BY <2>1 DEF FilesInv
  <2> QED BY <2>1, <2>2, FilesCallsMove
<1> QED BY <1>1, <1>2, <1>3 DEF Files!ConfigNext

LEMMA FilesAlways ==
  ASSUME FilesConstants, Codex \in Defaults PROVE FilesSpec => []FilesInv
<1>1. Files!ConfigInit => FilesInv
  BY FilesInit
<1>2. FilesInv /\ [Files!ConfigNext]_vars => FilesInv'
  BY FilesStep
<1> QED BY <1>1, <1>2, PTL DEF FilesSpec

\* While it serves, the process has what the file says.
LEMMA ServingIs ==
  ASSUME FilesConstants, FilesInv, calls.at = "serving"
  PROVE store.file = calls.mem /\ StandsFor(calls.mem, store, world, history)
BY FilesCalls, ReadIsFound

\* What a handler has confirmed is in the file, whatever fails or dies later.
THEOREM ConfirmedEditsStay ==
  ASSUME FilesConstants, Codex \in Defaults PROVE FilesSpec => []Files!ConfirmedEditsStay
<1>1. FilesInv => Files!ConfirmedEditsStay
  BY ServingIs DEF Files!ConfirmedEditsStay, StandsFor
<1> QED BY <1>1, FilesAlways, PTL

\* An interrupted import goes on with the projects that are missing.
THEOREM NoProjectIsSkipped ==
  ASSUME FilesConstants, Codex \in Defaults PROVE FilesSpec => []Files!NoProjectIsSkipped
<1>1. FilesInv => Files!NoProjectIsSkipped
  <2> SUFFICES ASSUME FilesInv, calls.at \in {"profiles", "codex", "serving"} PROVE store.projects = world \ history.removed
    BY DEF Files!NoProjectIsSkipped
  <2>1. Reads(calls, store.file)
    BY FilesCalls
  <2>2. calls.mem.projects = <<>> /\ StandsFor(calls.mem, store, world, history)
    BY <2>1, ReadIsFound DEF Reads
  <2> QED BY <2>2 DEF StandsFor, Imported
<1> QED BY <1>1, FilesAlways, PTL

\* A kept result is the last of its plan and the only one.
THEOREM ResultsAreTheLast ==
  ASSUME FilesConstants, Codex \in Defaults PROVE FilesSpec => []Files!ResultsAreTheLast
<1>1. FilesInv => Files!ResultsAreTheLast
  <2> SUFFICES ASSUME FilesInv, calls.at = "serving", NEW l \in Files!Logs
      PROVE LET list == store.file.results[l]
            IN /\ Len(list) <= MaxResults /\ \A i, j \in DOMAIN list : list[i].plan = list[j].plan => i = j
               /\ \A i \in DOMAIN list : list[i].value = history.results[l][list[i].plan]
    BY DEF Files!ResultsAreTheLast
  <2>1. LastResults(store.file.results, history.results)
    BY ServingIs DEF StandsFor
  <2> QED BY <2>1 DEF LastResults, ResultLogs, ResultList
<1> QED BY <1>1, FilesAlways, PTL

\* The default profiles are made once; what the user removed or edited stays so.
THEOREM ProfilesAreInitializedOnce ==
  ASSUME FilesConstants, Codex \in Defaults PROVE FilesSpec => []Files!ProfilesAreInitializedOnce
<1>1. FilesInv => Files!ProfilesAreInitializedOnce
  BY ServingIs DEF Files!ProfilesAreInitializedOnce, StandsFor, Profiled, Once
<1> QED BY <1>1, FilesAlways, PTL

-----------------------------------------------------------------------------
(* Numbers: a set that a first number is in, and the next of each one, holds  *)
(* every number up to a bound; sums that are computed from the front.         *)

\* A set of numbers that is not empty has a least one.
LEMMA LeastNumber ==
  ASSUME NEW T, T \subseteq Nat, T # {}
  PROVE  \E n \in T : \A m \in T : n <= m
<1> DEFINE less == {pair \in Nat \X Nat : pair[1] < pair[2]}
<1>1. IsWellFoundedOn(less, Nat)
  <2>1. OpToRel(<, Nat) = less
    BY DEF OpToRel
  <2> QED BY <2>1, NatLessThanWellFounded
<1>2. PICK n \in T : \A m \in T : <<m, n>> \notin less
  BY <1>1, WFMin
<1>3. ASSUME NEW m \in T, m < n
      PROVE  FALSE
  <2>1. <<m, n>> \in Nat \X Nat /\ <<m, n>>[1] < <<m, n>>[2]
    BY <1>3
  <2> QED BY <1>2, <2>1
<1>4. \A m \in T : ~(m < n) => n <= m
  OBVIOUS
<1> QED BY <1>2, <1>3, <1>4

\* By the least number that were not in it.
LEMMA UpTo ==
  ASSUME NEW last \in Nat, NEW S, 0 \in S, \A n \in Nat : n < last /\ n \in S => n + 1 \in S
  PROVE  last \in S
<1> DEFINE T == {n \in Nat : n <= last /\ n \notin S}
<1> SUFFICES ASSUME T # {}
             PROVE  FALSE
  OBVIOUS
<1>1. PICK n \in T : \A m \in T : n <= m
  BY LeastNumber
<1>2. n \in Nat /\ n <= last /\ n \notin S /\ n # 0
  OBVIOUS
<1>3. n - 1 \in Nat /\ n - 1 < last /\ n - 1 \notin T /\ (n - 1) + 1 = n
  BY <1>1, <1>2
<1>4. n - 1 \in S
  BY <1>2, <1>3
<1> QED BY <1>2, <1>3, <1>4

\* The sums of a list of numbers.
IsSum(sum, terms, last) ==
  sum = [n \in 0..last |-> IF n = 0 THEN 0 ELSE sum[n - 1] + terms[n]]
LEMMA SumsExist ==
  ASSUME NEW last \in Nat, NEW terms, \A n \in 1..last : terms[n] \in Nat
  PROVE  \E sum : IsSum(sum, terms, last)
<1> DEFINE Sums(sum, n) == /\ sum \in [0..n -> Nat] /\ sum[0] = 0
                           /\ \A m \in 1..n : sum[m] = sum[m - 1] + terms[m]
           S == {n \in Nat : \E sum : Sums(sum, n)}
<1>1. 0 \in S
  <2> DEFINE sum == [n \in 0..0 |-> 0]
  <2>1. Sums(sum, 0)
    OBVIOUS
  <2> QED BY <2>1
<1>2. ASSUME NEW n \in Nat, n < last, n \in S
      PROVE  n + 1 \in S
  <2>1. PICK sum : Sums(sum, n)
    BY <1>2
  <2> DEFINE longer == [m \in 0..(n + 1) |-> IF m = n + 1 THEN sum[n] + terms[n + 1] ELSE sum[m]]
  <2>2. n + 1 \in 1..last /\ sum[n] \in Nat
    BY <1>2, <2>1
  <2>3. terms[n + 1] \in Nat
    BY <2>2
  <2>4. longer \in [0..(n + 1) -> Nat] /\ longer[0] = 0
    BY <2>1, <2>2, <2>3
  <2>5. ASSUME NEW m \in 1..(n + 1)
        PROVE  longer[m] = longer[m - 1] + terms[m]
    <3>1. m \in 0..(n + 1) /\ m - 1 \in 0..(n + 1) /\ m - 1 # n + 1
      OBVIOUS
    <3>2. CASE m = n + 1
      <4>1. longer[m] = sum[n] + terms[n + 1] /\ m - 1 = n
        BY <3>1, <3>2
      <4>2. longer[m - 1] = sum[m - 1]
        BY <3>1
      <4> QED BY <3>2, <4>1, <4>2
    <3>3. CASE m # n + 1
      <4>1. m \in 1..n
        BY <3>3
      <4>2. longer[m] = sum[m] /\ longer[m - 1] = sum[m - 1]
        BY <3>1, <3>3
      <4> QED BY <2>1, <4>1, <4>2
    <3> QED BY <3>2, <3>3
  <2>6. Sums(longer, n + 1)
    BY <2>4, <2>5
  <2> HIDE DEF longer
  <2> QED BY <2>6
<1> HIDE DEF S
<1>3. last \in S
  BY <1>1, <1>2, UpTo
<1>4. PICK sum : Sums(sum, last)
  BY <1>3 DEF S
<1>5. \A n \in 0..last : sum[n] = IF n = 0 THEN 0 ELSE sum[n - 1] + terms[n]
  <2> SUFFICES ASSUME NEW n \in 0..last
               PROVE  sum[n] = IF n = 0 THEN 0 ELSE sum[n - 1] + terms[n]
    OBVIOUS
  <2>1. n # 0 => n \in 1..last
    OBVIOUS
  <2> QED BY <1>4, <2>1
<1>6. sum = [n \in 0..last |-> sum[n]]
  BY <1>4
<1> QED BY <1>5, <1>6 DEF IsSum

\* Numbers whose sum is one: one of them, and the others are nothing.
LEMMA SumsOfOne ==
  ASSUME NEW last \in Nat, NEW terms, \A n \in 1..last : terms[n] \in Nat, NEW sum, IsSum(sum, terms, last), sum[last] = 1
  PROVE  \E k \in 1..last : {n \in 1..last : terms[n] # 0} = {k}
<1> DEFINE Counted(n) == {m \in 1..n : terms[m] # 0}
           S == {n \in Nat : /\ sum[n] \in Nat /\ (sum[n] = 0 => Counted(n) = {})
                             /\ (sum[n] = 1 => \E k \in 1..n : Counted(n) = {k})}
<1>1. sum[0] = 0 /\ \A n \in 1..last : sum[n] = sum[n - 1] + terms[n]
  <2>1. \A n \in 0..last : sum[n] = IF n = 0 THEN 0 ELSE sum[n - 1] + terms[n]
    BY DEF IsSum
  <2>2. \A n \in 1..last : n \in 0..last /\ n # 0
    OBVIOUS
  <2>3. 0 \in 0..last
    OBVIOUS
  <2> QED BY <2>1, <2>2, <2>3
<1>2. 0 \in S
  <2>1. Counted(0) = {}
    OBVIOUS
  <2> QED BY <1>1, <2>1
<1>3. ASSUME NEW n \in Nat, n < last, n \in S
      PROVE  n + 1 \in S
  <2>1. n + 1 \in 1..last /\ (n + 1) - 1 = n
    BY <1>3
  <2>2. sum[n + 1] = sum[n] + terms[n + 1] /\ sum[n] \in Nat /\ terms[n + 1] \in Nat
    BY <1>1, <1>3, <2>1
  <2>3. \A m \in 1..(n + 1) : m \in 1..n \/ m = n + 1
    OBVIOUS
  <2>4. \A m \in 1..n : m \in 1..(n + 1)
    OBVIOUS
  <2>5. n + 1 \in 1..(n + 1) /\ n + 1 \notin 1..n
    OBVIOUS
  <2>6. Counted(n + 1) = Counted(n) \cup (IF terms[n + 1] = 0 THEN {} ELSE {n + 1})
    BY <2>3, <2>4, <2>5
  <2>7. /\ sum[n] = 0 => Counted(n) = {}
        /\ sum[n] = 1 => \E k \in 1..n : Counted(n) = {k}
    BY <1>3
  <2> HIDE DEF Counted
  <2>8. sum[n + 1] = 0 => Counted(n + 1) = {}
    BY <2>2, <2>6, <2>7
  <2>9. ASSUME sum[n + 1] = 1
        PROVE  \E k \in 1..(n + 1) : Counted(n + 1) = {k}
    <3>1. CASE terms[n + 1] = 0
      BY <2>2, <2>4, <2>6, <2>7, <2>9, <3>1
    <3>2. CASE terms[n + 1] # 0
      <4>1. sum[n] = 0
        BY <2>2, <2>9, <3>2
      <4> QED BY <2>5, <2>6, <2>7, <3>2, <4>1
    <3> QED BY <3>1, <3>2
  <2> QED BY <2>2, <2>8, <2>9
<1> HIDE DEF S
<1>4. last \in S
  BY <1>2, <1>3, UpTo
<1> QED BY <1>4 DEF S

-----------------------------------------------------------------------------
(* QualityRuns: what a handler has stored and holds at each of its steps.     *)

Runs == INSTANCE QualityRuns

QualitySpec == Runs!QualityInit /\ [][Runs!QualityNext]_vars

\* What a choice, a run and an answer can say.
Texts ==
  {"worktree.revalidation_failed", "runner.selection_unavailable", "worktree.go_mod_missing", "worktree.go_mod_invalid",
   "worktree.go_source_symlink_rejected", "worktree.go_source_invalid", "worktree.go_source_bounds_exceeded",
   "target.go_test_missing", "target.go_test_ambiguous", "quality.persistence_failed", "ok", "failed", "unavailable"}
\* A worktree is seen as the walk and the registry see it; None is no value of theirs.
QualityConstants ==
  /\ MaxTargets \in Nat /\ None \notin Texts
  /\ \A x, y : None # <<x, y>> /\ None # [revision |-> x, run |-> y]
  /\ \A w \in Worktrees :
       /\ w.same \in BOOLEAN /\ w.root \in BOOLEAN /\ w.module \in {"module", "missing", "invalid"}
       /\ w.tool \in {"native", "missing", "untrusted"}
       /\ w.files \in Seq([in : {"test", "source", "vendor", "link", "device"}, targets : Nat, broken : BOOLEAN])

\* A run as a row or a handler has it; a process was only started after a choice.
RunRecord(run) ==
  run = [state |-> run.state, outcome |-> run.outcome, reason |-> run.reason, seen |-> run.seen,
         exit |-> run.exit, artifacts |-> run.artifacts, coverage |-> run.coverage]
Chosen(u, run) ==
  /\ RunRecord(run) /\ run.seen \in Worktrees /\ run.coverage \in BOOLEAN
  /\ run.exit # None => Runs!Selection(TechniqueOf[u], run.seen) = None
ArtifactLists(u) == {<<>>, <<Runs!Profile(u)>>, <<Runs!Report(u)>>, <<Runs!Profile(u), Runs!Report(u)>>}
Has(run, a) == a \in Runs!Range(run.artifacts)
\* Before the process, after it, and after the compensation.
Unstarted(u, run) ==
  /\ Chosen(u, run) /\ run.reason = None /\ run.exit = None /\ run.artifacts = <<>> /\ ~run.coverage
Over(u, run) ==
  /\ Chosen(u, run) /\ run.state \in {"succeeded", "failed", "timed_out"}
  /\ run.reason = None \/ run.state = "failed" \/ run.reason = "runner.timeout"
  /\ run.artifacts \in ArtifactLists(u) /\ (run.coverage => Has(run, Runs!Profile(u)))
Reported(u, run) == Over(u, run) /\ Has(run, Runs!Report(u))
TakenBack(u, run, here) ==
  /\ Chosen(u, run) /\ run.state = "failed" /\ run.reason = "quality.persistence_failed"
  /\ run.coverage => run.artifacts # <<>>
  /\ run.artifacts = <<>> => here = {}
\* The files of a run that is held are the ones it names, and their rows are live.
InUse == {"active", "pinned"}
Holds(u, run, here, rows) ==
  /\ here = Runs!Range(run.artifacts)
  /\ \A a \in here : rows[a] \in InUse
Row(row) == row = [revision |-> row.revision, run |-> row.run]
Before(u, row) == Row(row) /\ Unstarted(u, row.run)
RowIsSafe(u, row, here) ==
  \/ row = None \/ Before(u, row)
  \/ Row(row) /\ (Reported(u, row.run) \/ TakenBack(u, row.run, here))

\* What a handler holds that is about to write the profile or the report.
WritesEvidence(u, c, here, rows) ==
  /\ c.at \in {"profile", "report"}
  /\ Over(u, c.run) /\ Holds(u, c.run, here, rows) /\ rows[Runs!Report(u)] = "none"
  /\ \/ /\ c.at = "profile" /\ c = [at |-> "profile", run |-> c.run, whole |-> c.whole] /\ c.run.artifacts = <<>>
        /\ rows[Runs!Profile(u)] = "none" /\ c.whole \in BOOLEAN
     \/ c.at = "report" /\ c = [at |-> "report", run |-> c.run] /\ c.run.artifacts \in {<<>>, <<Runs!Profile(u)>>}
Inserts(u, c, here, rows) ==
  /\ c.at = "insert" /\ c = [at |-> "insert", artifact |-> c.artifact, then |-> c.then]
  /\ c.artifact = <<u, c.then.at>> /\ c.artifact \in here
  /\ WritesEvidence(u, c.then, here \ {c.artifact}, rows)
Compensates(u, c, row, here) ==
  /\ c.at = "compensate" /\ c = [at |-> "compensate", run |-> c.run, left |-> c.left, failed |-> c.failed]
  /\ Over(u, c.run) /\ c.failed \in BOOLEAN
  /\ c.left \in ArtifactLists(u) /\ Runs!Range(c.left) \subseteq Runs!Range(c.run.artifacts)
  /\ here \subseteq Runs!Range(c.run.artifacts) /\ (~c.failed => here \subseteq Runs!Range(c.left))
  /\ Before(u, row) \/ (Row(row) /\ row.run = c.run /\ Reported(u, c.run))
Settles(u, c, row, here) ==
  /\ c.at = "settle" /\ c = [at |-> "settle", run |-> c.run, tries |-> c.tries] /\ TakenBack(u, c.run, here)
  /\ RowIsSafe(u, row, here) /\ row # None
Lists(u, c, row, here, rows, listed) ==
  /\ c.at \in {"load", "append"} /\ Row(row) /\ row.run = c.run /\ Reported(u, c.run) /\ Holds(u, c.run, here, rows)
  /\ \/ c.at = "load" /\ c = [at |-> "load", run |-> c.run, tries |-> c.tries]
     \/ c.at = "append" /\ c = [at |-> "append", run |-> c.run, tries |-> c.tries, read |-> c.read] /\ ~listed
Returned(u, row, h, here, rows, listed) ==
  \/ /\ h \in {"ok", "failed", "unavailable"} /\ listed /\ Row(row) /\ Reported(u, row.run)
     /\ Holds(u, row.run, here, rows) /\ Runs!Answer(u, row.run) = h
  \/ h = "error" /\ ~listed /\ RowIsSafe(u, row, here)
  \/ h = "error" /\ Row(row) /\ TakenBack(u, row.run, here)
  \/ h = "unsettled" /\ RowIsSafe(u, row, here) /\ row # None
Handler(u, c, row, h, here, rows, listed) ==
  /\ c.at # "returned" => h = None
  /\ \/ c = [at |-> "idle"] /\ row = None /\ ~listed /\ here = {} /\ \A a \in DOMAIN rows : rows[a] = "none"
     \/ /\ c.at \in {"queued", "running"} /\ c = [at |-> c.at, run |-> c.run] /\ Before(u, row) /\ row.run = c.run
        /\ ~listed /\ here = {} /\ \A a \in DOMAIN rows : rows[a] = "none"
     \/ WritesEvidence(u, c, here, rows) /\ Before(u, row) /\ ~listed
     \/ Inserts(u, c, here, rows) /\ Before(u, row) /\ ~listed
     \/ c.at = "finish" /\ c = [at |-> "finish", run |-> c.run] /\ Reported(u, c.run) /\ Holds(u, c.run, here, rows) /\ Before(u, row) /\ ~listed
     \/ Lists(u, c, row, here, rows, listed)
     \/ Compensates(u, c, row, here)
     \/ Settles(u, c, row, here)
     \/ c = [at |-> "returned"] /\ Returned(u, row, h, here, rows, listed)
     \/ c = [at |-> "crashed"] /\ RowIsSafe(u, row, here) /\ (listed => row # None)

Own(u) == {Runs!Profile(u), Runs!Report(u)}
Here(u, files) == files \cap Own(u)
RowsOf(u, artifacts) == [a \in Own(u) |-> artifacts[a]]
\* A campaign lists a run once; a handler that has read it can only replace what it has read.
CampaignIs(campaign) ==
  /\ campaign = [revision |-> campaign.revision, runs |-> campaign.runs]
  /\ campaign.runs \in Seq(Users) /\ campaign.revision = Len(campaign.runs) + 1
  /\ \A m, n \in DOMAIN campaign.runs : campaign.runs[m] = campaign.runs[n] => m = n
HasRead(read, campaign) ==
  /\ CampaignIs(read) /\ read.revision <= campaign.revision
  /\ read.revision = campaign.revision => read = campaign
Listed(u) == u \in Runs!Range(store.campaign.runs)
HandlerOf(u) ==
  Handler(u, calls[u], store.rows[u], history[u], Here(u, world.files), RowsOf(u, store.artifacts), Listed(u))
QualityInv ==
  /\ store = [campaign |-> store.campaign, rows |-> store.rows, artifacts |-> store.artifacts]
  /\ world = [files |-> world.files, profiles |-> world.profiles] /\ world.files \subseteq Runs!Artifacts
  /\ store.rows = [u \in Users |-> store.rows[u]] /\ store.artifacts = [a \in Runs!Artifacts |-> store.artifacts[a]]
  /\ calls = [u \in Users |-> calls[u]] /\ history = [u \in Users |-> history[u]]
  /\ CampaignIs(store.campaign)
  /\ \A a \in world.files : store.artifacts[a] # "deleted"
  /\ \A u \in Users : HandlerOf(u) /\ (calls[u].at = "append" => HasRead(calls[u].read, store.campaign))

\* A list of one with one more.
LEMMA AppendedToOne ==
  ASSUME NEW p, NEW r
  PROVE  Append(<<p>>, r) = <<p, r>>
<1>1. <<p>> \in Seq({p, r}) /\ Len(<<p>>) = 1 /\ r \in {p, r}
  OBVIOUS
<1>2. /\ Append(<<p>>, r) \in Seq({p, r}) /\ Len(Append(<<p>>, r)) = 2
      /\ Append(<<p>>, r)[1] = p /\ Append(<<p>>, r)[2] = r
  BY <1>1
<1>3. <<p, r>> \in Seq({p, r}) /\ Len(<<p, r>>) = 2 /\ <<p, r>>[1] = p /\ <<p, r>>[2] = r
  OBVIOUS
<1>4. ASSUME NEW s \in Seq({p, r}), NEW t \in Seq({p, r}), Len(s) = 2, Len(t) = 2, s[1] = t[1], s[2] = t[2]
      PROVE  s = t
  <2>1. s = [i \in 1..2 |-> s[i]] /\ t = [i \in 1..2 |-> t[i]]
    BY <1>4
  <2>2. \A i \in 1..2 : i = 1 \/ i = 2
    OBVIOUS
  <2>3. \A i \in 1..2 : s[i] = t[i]
    BY <2>2, <1>4
  <2> QED BY <2>1, <2>3
<1> QED BY <1>2, <1>3, <1>4

\* What lists of at most two artifacts hold.
LEMMA ShortLists ==
  ASSUME NEW u
  PROVE  /\ Runs!Range(<<>>) = {}
         /\ Runs!Range(<<Runs!Profile(u)>>) = {Runs!Profile(u)} /\ Runs!Range(<<Runs!Report(u)>>) = {Runs!Report(u)}
         /\ Runs!Range(<<Runs!Profile(u), Runs!Report(u)>>) = {Runs!Profile(u), Runs!Report(u)}
         /\ Append(<<>>, Runs!Profile(u)) = <<Runs!Profile(u)>> /\ Append(<<>>, Runs!Report(u)) = <<Runs!Report(u)>>
         /\ Append(<<Runs!Profile(u)>>, Runs!Report(u)) = <<Runs!Profile(u), Runs!Report(u)>>
         /\ Runs!Profile(u) # Runs!Report(u)
<1> DEFINE p == Runs!Profile(u)
           r == Runs!Report(u)
<1>1. p # r
  BY DEF Runs!Profile, Runs!Report
<1> HIDE DEF p, r
<1>2. ASSUME NEW a
      PROVE  Runs!Range(<<a>>) = {a} /\ Append(<<>>, a) = <<a>>
  <2>1. DOMAIN <<a>> = {1} /\ <<a>>[1] = a
    OBVIOUS
  <2>2. Append(<<>>, a) = <<a>>
    OBVIOUS
  <2> QED BY <2>1, <2>2 DEF Runs!Range
<1>3. Runs!Range(<<p, r>>) = {p, r}
  <2>1. DOMAIN <<p, r>> = {1, 2} /\ <<p, r>>[1] = p /\ <<p, r>>[2] = r
    OBVIOUS
  <2> QED BY <2>1 DEF Runs!Range
<1>4. Runs!Range(<<>>) = {}
  <2>1. DOMAIN <<>> = {}
    OBVIOUS
  <2> QED BY <2>1 DEF Runs!Range
<1> QED BY <1>1, <1>2, <1>3, <1>4, AppendedToOne DEF p, r

\* Of such a list, the first artifact and the others.
LEMMA HeadsOfLists ==
  ASSUME NEW u, NEW list \in ArtifactLists(u), list # <<>>
  PROVE  /\ Head(list) \in Own(u) /\ Tail(list) \in ArtifactLists(u)
         /\ Runs!Range(Tail(list)) = Runs!Range(list) \ {Head(list)} /\ Head(list) \in Runs!Range(list)
<1> DEFINE p == Runs!Profile(u)
           r == Runs!Report(u)
<1>1. /\ list \in {<<p>>, <<r>>, <<p, r>>} /\ p # r /\ Own(u) = {p, r} /\ ArtifactLists(u) = {<<>>, <<p>>, <<r>>, <<p, r>>}
      /\ Runs!Range(<<>>) = {} /\ Runs!Range(<<p>>) = {p} /\ Runs!Range(<<r>>) = {r} /\ Runs!Range(<<p, r>>) = {p, r}
  BY ShortLists DEF ArtifactLists, Own
<1> HIDE DEF p, r
<1>2. CASE list = <<p, r>>
  <2>1. Head(list) = p /\ Tail(list) = <<r>>
    BY <1>2
  <2> QED BY <1>1, <1>2, <2>1
<1>3. ASSUME NEW a \in {p, r}, list = <<a>>
      PROVE  Head(list) \in Own(u) /\ Tail(list) = <<>> /\ Runs!Range(list) = {a} /\ Head(list) = a
  <2>1. Head(list) = a /\ Tail(list) = <<>>
    BY <1>3
  <2> QED BY <1>1, <1>3, <2>1
<1> QED BY <1>1, <1>2, <1>3

\* The campaign with one more run.
LEMMA AppendedRuns ==
  ASSUME NEW S, NEW runs \in Seq(S), NEW u \in S
  PROVE  /\ Append(runs, u) \in Seq(S) /\ Len(Append(runs, u)) = Len(runs) + 1
         /\ Runs!Range(Append(runs, u)) = Runs!Range(runs) \cup {u}
         /\ \A n \in DOMAIN runs : Append(runs, u)[n] = runs[n]
         /\ Append(runs, u)[Len(runs) + 1] = u /\ DOMAIN Append(runs, u) = DOMAIN runs \cup {Len(runs) + 1}
<1>1. /\ Append(runs, u) \in Seq(S) /\ Len(Append(runs, u)) = Len(runs) + 1
      /\ \A n \in DOMAIN runs : Append(runs, u)[n] = runs[n]
      /\ Append(runs, u)[Len(runs) + 1] = u
      /\ DOMAIN Append(runs, u) = 1..(Len(runs) + 1) /\ DOMAIN runs = 1..Len(runs) /\ Len(runs) \in Nat
  OBVIOUS
<1>2. DOMAIN Append(runs, u) = DOMAIN runs \cup {Len(runs) + 1}
  BY <1>1
<1> QED BY <1>1, <1>2 DEF Runs!Range

-----------------------------------------------------------------------------
\* What a handler holds at each of its steps.
LEMMA HandlerCases ==
  ASSUME NEW u, NEW c, NEW row, NEW h, NEW here, NEW rows, NEW listed \in BOOLEAN,
         Handler(u, c, row, h, here, rows, listed)
  PROVE  /\ c.at # "returned" => h = None
         /\ c.at = "idle" =>
              c = [at |-> "idle"] /\ row = None /\ ~listed /\ here = {} /\ \A a \in DOMAIN rows : rows[a] = "none"
         /\ c.at \in {"queued", "running"} =>
              /\ c = [at |-> c.at, run |-> c.run] /\ Before(u, row) /\ row.run = c.run
              /\ ~listed /\ here = {} /\ \A a \in DOMAIN rows : rows[a] = "none"
         /\ c.at \in {"profile", "report"} => WritesEvidence(u, c, here, rows) /\ Before(u, row) /\ ~listed
         /\ c.at = "insert" => Inserts(u, c, here, rows) /\ Before(u, row) /\ ~listed
         /\ c.at = "finish" =>
              /\ c = [at |-> "finish", run |-> c.run] /\ Reported(u, c.run) /\ Holds(u, c.run, here, rows)
              /\ Before(u, row) /\ ~listed
         /\ c.at \in {"load", "append"} => Lists(u, c, row, here, rows, listed)
         /\ c.at = "compensate" => Compensates(u, c, row, here)
         /\ c.at = "settle" => Settles(u, c, row, here)
         /\ c.at = "returned" => c = [at |-> "returned"] /\ Returned(u, row, h, here, rows, listed)
         /\ c.at = "crashed" => c = [at |-> "crashed"] /\ RowIsSafe(u, row, here) /\ (listed => row # None)
<1>1. c = [at |-> "idle"] => c.at = "idle"
  OBVIOUS
<1>2. (c = [at |-> "returned"] => c.at = "returned") /\ (c = [at |-> "crashed"] => c.at = "crashed")
  OBVIOUS
<1>3. /\ WritesEvidence(u, c, here, rows) => c.at \in {"profile", "report"}
      /\ Inserts(u, c, here, rows) => c.at = "insert"
      /\ Lists(u, c, row, here, rows, listed) => c.at \in {"load", "append"}
      /\ Compensates(u, c, row, here) => c.at = "compensate"
      /\ Settles(u, c, row, here) => c.at = "settle"
  BY DEF WritesEvidence, Inserts, Lists, Compensates, Settles
<1> QED BY <1>1, <1>2, <1>3 DEF Handler

\* A step of one handler touches its own artifacts, and the campaign grows.
OwnOnly(u, files, artifacts) ==
  /\ files \subseteq Runs!Artifacts /\ artifacts = [a \in Runs!Artifacts |-> artifacts[a]]
  /\ \A a \in Runs!Artifacts \ Own(u) : (a \in files <=> a \in world.files) /\ artifacts[a] = store.artifacts[a]
  /\ \A a \in files : artifacts[a] # "deleted"
ListGrows(u, campaign) ==
  \/ campaign = store.campaign
  \/ /\ CampaignIs(campaign) /\ campaign.revision > store.campaign.revision
     /\ Runs!Range(campaign.runs) = Runs!Range(store.campaign.runs) \cup {u}
LEMMA HandlerSteps ==
  ASSUME QualityInv, NEW u \in Users, NEW call, NEW row, NEW ended, NEW files, NEW artifacts, NEW campaign, NEW profiles,
         store' = [campaign |-> campaign, rows |-> [store.rows EXCEPT ![u] = row], artifacts |-> artifacts],
         world' = [files |-> files, profiles |-> profiles],
         calls' = [calls EXCEPT ![u] = call], history' = [history EXCEPT ![u] = ended],
         OwnOnly(u, files, artifacts), ListGrows(u, campaign),
         Handler(u, call, row, ended, Here(u, files), RowsOf(u, artifacts), u \in Runs!Range(campaign.runs)),
         call.at = "append" => HasRead(call.read, campaign)
  PROVE  QualityInv'
<1>1. /\ store'.campaign = campaign /\ store'.rows = [store.rows EXCEPT ![u] = row] /\ store'.artifacts = artifacts
      /\ store' = [campaign |-> store'.campaign, rows |-> store'.rows, artifacts |-> store'.artifacts]
      /\ world'.files = files /\ world' = [files |-> world'.files, profiles |-> world'.profiles]
  OBVIOUS
<1>2. /\ store.rows = [v \in Users |-> store.rows[v]] /\ calls = [v \in Users |-> calls[v]]
      /\ history = [v \in Users |-> history[v]] /\ CampaignIs(store.campaign) /\ world.files \subseteq Runs!Artifacts
      /\ store.artifacts = [a \in Runs!Artifacts |-> store.artifacts[a]]
      /\ \A v \in Users : HandlerOf(v) /\ (calls[v].at = "append" => HasRead(calls[v].read, store.campaign))
  BY DEF QualityInv
<1>3. /\ store'.rows = [v \in Users |-> store'.rows[v]] /\ store'.rows[u] = row
      /\ calls' = [v \in Users |-> calls'[v]] /\ calls'[u] = call
      /\ history' = [v \in Users |-> history'[v]] /\ history'[u] = ended
      /\ \A v \in Users : v # u => store'.rows[v] = store.rows[v] /\ calls'[v] = calls[v] /\ history'[v] = history[v]
  BY <1>1, <1>2
<1>4. CampaignIs(store'.campaign)
  BY <1>1, <1>2 DEF ListGrows
<1>5. HandlerOf(u)' /\ (calls'[u].at = "append" => HasRead(calls'[u].read, store'.campaign))
  BY <1>1, <1>3 DEF HandlerOf, Listed
<1>6. ASSUME NEW v \in Users, v # u
      PROVE  HandlerOf(v)' /\ (calls'[v].at = "append" => HasRead(calls'[v].read, store'.campaign))
  <2>1. \A a \in Own(v) : a \in Runs!Artifacts \ Own(u)
    BY <1>6 DEF Own, Runs!Artifacts, Runs!Profile, Runs!Report
  <2>2. Here(v, files) = Here(v, world.files)
    BY <2>1 DEF Here, OwnOnly
  <2>3. RowsOf(v, artifacts) = RowsOf(v, store.artifacts)
    BY <2>1 DEF RowsOf, OwnOnly
  <2>4. v \in Runs!Range(campaign.runs) <=> v \in Runs!Range(store.campaign.runs)
    BY <1>6 DEF ListGrows
  <2>5. /\ Handler(v, calls[v], store.rows[v], history[v], Here(v, world.files), RowsOf(v, store.artifacts),
                   v \in Runs!Range(store.campaign.runs))
        /\ calls[v].at = "append" => HasRead(calls[v].read, store.campaign)
    BY <1>2 DEF HandlerOf, Listed
  <2>6. HasRead(calls[v].read, store.campaign) => HasRead(calls[v].read, campaign)
    <3>1. CASE campaign = store.campaign
      BY <3>1
    <3>2. CASE CampaignIs(campaign) /\ campaign.revision > store.campaign.revision
      <4>1. ASSUME HasRead(calls[v].read, store.campaign)
            PROVE  /\ CampaignIs(calls[v].read) /\ calls[v].read.revision \in Nat
                   /\ calls[v].read.revision <= store.campaign.revision
        BY <4>1 DEF HasRead, CampaignIs
      <4>2. campaign.revision \in Nat /\ store.campaign.revision \in Nat
        BY <3>2, <1>2 DEF CampaignIs
      <4> QED BY <3>2, <4>1, <4>2 DEF HasRead
    <3> QED BY <3>1, <3>2 DEF ListGrows
  <2>7. Handler(v, calls'[v], store'.rows[v], history'[v], Here(v, world'.files), RowsOf(v, store'.artifacts),
                v \in Runs!Range(store'.campaign.runs))
    <3>1. \A l \in BOOLEAN : l = (v \in Runs!Range(store.campaign.runs)) => l = (v \in Runs!Range(campaign.runs))
      BY <2>4
    <3>2. (v \in Runs!Range(store.campaign.runs)) = (v \in Runs!Range(campaign.runs))
      BY <2>4
    <3> QED BY <1>1, <1>3, <1>6, <2>2, <2>3, <2>5, <3>2
  <2> QED BY <1>1, <1>3, <1>6, <2>5, <2>6, <2>7 DEF HandlerOf, Listed
<1> QED BY <1>1, <1>3, <1>4, <1>5, <1>6 DEF QualityInv, OwnOnly

-----------------------------------------------------------------------------
\* What is there before a step of one handler.
LEMMA BeforeAStep ==
  ASSUME QualityInv, NEW u \in Users
  PROVE  /\ store = [campaign |-> store.campaign, rows |-> store.rows, artifacts |-> store.artifacts]
         /\ world = [files |-> world.files, profiles |-> world.profiles]
         /\ [store.rows EXCEPT ![u] = store.rows[u]] = store.rows /\ [history EXCEPT ![u] = history[u]] = history
         /\ world.files \subseteq Runs!Artifacts /\ store.artifacts = [a \in Runs!Artifacts |-> store.artifacts[a]]
         /\ \A a \in world.files : store.artifacts[a] # "deleted"
         /\ CampaignIs(store.campaign) /\ Listed(u) \in BOOLEAN
         /\ Handler(u, calls[u], store.rows[u], history[u], Here(u, world.files), RowsOf(u, store.artifacts), Listed(u))
         /\ calls[u].at = "append" => HasRead(calls[u].read, store.campaign)
<1>1. store.rows = [v \in Users |-> store.rows[v]] /\ history = [v \in Users |-> history[v]]
  BY DEF QualityInv
<1>2. [store.rows EXCEPT ![u] = store.rows[u]] = store.rows /\ [history EXCEPT ![u] = history[u]] = history
  BY <1>1
<1> QED BY <1>2 DEF QualityInv, HandlerOf, Listed

\* A step that leaves the artifacts and the campaign.
LEMMA OwnRowSteps ==
  ASSUME QualityInv, NEW u \in Users, NEW call, NEW row, NEW ended, NEW profiles,
         store' = [campaign |-> store.campaign, rows |-> [store.rows EXCEPT ![u] = row], artifacts |-> store.artifacts],
         world' = [files |-> world.files, profiles |-> profiles],
         calls' = [calls EXCEPT ![u] = call], history' = [history EXCEPT ![u] = ended],
         Handler(u, call, row, ended, Here(u, world.files), RowsOf(u, store.artifacts), Listed(u)),
         call.at = "append" => HasRead(call.read, store.campaign)
  PROVE  QualityInv'
<1>1. Handler(u, call, row, ended, Here(u, world.files), RowsOf(u, store.artifacts),
              u \in Runs!Range(store.campaign.runs))
  BY DEF Listed
<1>2. OwnOnly(u, world.files, store.artifacts) /\ ListGrows(u, store.campaign)
  BY BeforeAStep DEF OwnOnly, ListGrows
<1> QED BY <1>1, <1>2, HandlerSteps

\* The next revision of a row, or the row that is there.
LEMMA SavedRows ==
  ASSUME QualityConstants, QualityInv, NEW u \in Users, NEW run, NEW reply, Runs!SaveRow(u, run, reply)
  PROVE  \E row :
           /\ store' = [campaign |-> store.campaign, rows |-> [store.rows EXCEPT ![u] = row], artifacts |-> store.artifacts]
           /\ reply = "failed" => row = store.rows[u]
           /\ reply # "failed" => Row(row) /\ row.run = run /\ row # None
<1>1. /\ store = [campaign |-> store.campaign, rows |-> store.rows, artifacts |-> store.artifacts]
      /\ [store.rows EXCEPT ![u] = store.rows[u]] = store.rows
  BY BeforeAStep
<1>2. CASE reply = "failed"
  <2>1. store' = store
    BY <1>2 DEF Runs!SaveRow
  <2> QED BY <1>1, <1>2, <2>1
<1>3. CASE reply # "failed"
  <2> DEFINE n == IF store.rows[u] = None THEN 1 ELSE store.rows[u].revision + 1
             row == [revision |-> n, run |-> run]
  <2>1. store' = [store EXCEPT !.rows[u] = row]
    BY <1>3 DEF Runs!SaveRow
  <2>2. Row(row) /\ row.run = run /\ row # None
    BY DEF Row, QualityConstants
  <2> HIDE DEF row
  <2>3. store' = [campaign |-> store.campaign, rows |-> [store.rows EXCEPT ![u] = row], artifacts |-> store.artifacts]
    BY <1>1, <2>1
  <2> QED BY <1>3, <2>2, <2>3
<1> QED BY <1>2, <1>3

\* The end of a handler.
LEMMA Returns ==
  ASSUME QualityInv, NEW u \in Users, NEW answer, Runs!Return(u, answer)
  PROVE  /\ calls' = [calls EXCEPT ![u] = [at |-> "returned"]] /\ history' = [history EXCEPT ![u] = answer]
         /\ \E profiles : world' = [files |-> world.files, profiles |-> profiles]
<1>1. world = [files |-> world.files, profiles |-> world.profiles]
  BY BeforeAStep
<1>2. [world EXCEPT !.profiles = @ \ {u}] = [files |-> world.files, profiles |-> world.profiles \ {u}]
  BY <1>1
<1> QED BY <1>2 DEF Runs!Return, Runs!To

-----------------------------------------------------------------------------
\* The runs that a handler makes of the one it has.
LEMMA NewRuns ==
  ASSUME NEW u, NEW w \in Worktrees
  PROVE  Unstarted(u, Runs!NewRun(w))
BY DEF Unstarted, Chosen, RunRecord, Runs!NewRun

LEMMA BegunRuns ==
  ASSUME NEW u, NEW run, Unstarted(u, run)
  PROVE  Unstarted(u, [run EXCEPT !.state = "running"])
<1>1. [run EXCEPT !.state = "running"] =
        [state |-> "running", outcome |-> run.outcome, reason |-> run.reason, seen |-> run.seen,
         exit |-> run.exit, artifacts |-> run.artifacts, coverage |-> run.coverage]
  BY DEF Unstarted, Chosen, RunRecord
<1> QED BY <1>1 DEF Unstarted, Chosen, RunRecord

\* A run with another value of a field.
LEMMA ChangedRuns ==
  ASSUME NEW run, RunRecord(run), NEW x
  PROVE  /\ [run EXCEPT !.state = x] =
              [state |-> x, outcome |-> run.outcome, reason |-> run.reason, seen |-> run.seen,
               exit |-> run.exit, artifacts |-> run.artifacts, coverage |-> run.coverage]
         /\ [run EXCEPT !.outcome = x] =
              [state |-> run.state, outcome |-> x, reason |-> run.reason, seen |-> run.seen,
               exit |-> run.exit, artifacts |-> run.artifacts, coverage |-> run.coverage]
         /\ [run EXCEPT !.reason = x] =
              [state |-> run.state, outcome |-> run.outcome, reason |-> x, seen |-> run.seen,
               exit |-> run.exit, artifacts |-> run.artifacts, coverage |-> run.coverage]
         /\ [run EXCEPT !.coverage = x] =
              [state |-> run.state, outcome |-> run.outcome, reason |-> run.reason, seen |-> run.seen,
               exit |-> run.exit, artifacts |-> run.artifacts, coverage |-> x]
<1>1. run = [state |-> run.state, outcome |-> run.outcome, reason |-> run.reason, seen |-> run.seen,
             exit |-> run.exit, artifacts |-> run.artifacts, coverage |-> run.coverage]
  BY DEF RunRecord
<1>2. [run EXCEPT !.state = x] =
        [state |-> x, outcome |-> run.outcome, reason |-> run.reason, seen |-> run.seen,
         exit |-> run.exit, artifacts |-> run.artifacts, coverage |-> run.coverage]
  BY <1>1
<1>3. [run EXCEPT !.outcome = x] =
        [state |-> run.state, outcome |-> x, reason |-> run.reason, seen |-> run.seen,
         exit |-> run.exit, artifacts |-> run.artifacts, coverage |-> run.coverage]
  BY <1>1
<1>4. [run EXCEPT !.reason = x] =
        [state |-> run.state, outcome |-> run.outcome, reason |-> x, seen |-> run.seen,
         exit |-> run.exit, artifacts |-> run.artifacts, coverage |-> run.coverage]
  BY <1>1
<1>5. [run EXCEPT !.coverage = x] =
        [state |-> run.state, outcome |-> run.outcome, reason |-> run.reason, seen |-> run.seen,
         exit |-> run.exit, artifacts |-> run.artifacts, coverage |-> x]
  BY <1>1
<1> QED BY <1>2, <1>3, <1>4, <1>5

\* A run with no command, and a run with one, before its evidence.
LEMMA RefusedRuns ==
  ASSUME NEW u, NEW run, Unstarted(u, run), NEW reason
  PROVE  LET refused == [run EXCEPT !.state = "failed", !.outcome = "runner_unavailable", !.reason = reason]
         IN Over(u, refused) /\ refused.artifacts = <<>>
<1> DEFINE first == [run EXCEPT !.state = "failed"]
           second == [first EXCEPT !.outcome = "runner_unavailable"]
           third == [second EXCEPT !.reason = reason]
<1>1. [run EXCEPT !.state = "failed", !.outcome = "runner_unavailable", !.reason = reason] = third
  OBVIOUS
<1>2. first = [state |-> "failed", outcome |-> run.outcome, reason |-> run.reason, seen |-> run.seen,
               exit |-> run.exit, artifacts |-> run.artifacts, coverage |-> run.coverage]
  BY ChangedRuns DEF Unstarted, Chosen
<1> HIDE DEF first
<1>3. RunRecord(first)
  BY <1>2 DEF RunRecord
<1>4. second = [state |-> first.state, outcome |-> "runner_unavailable", reason |-> first.reason, seen |-> first.seen,
                exit |-> first.exit, artifacts |-> first.artifacts, coverage |-> first.coverage]
  BY <1>3, ChangedRuns
<1> HIDE DEF second
<1>5. RunRecord(second)
  BY <1>4 DEF RunRecord
<1>6. third = [state |-> second.state, outcome |-> second.outcome, reason |-> reason, seen |-> second.seen,
               exit |-> second.exit, artifacts |-> second.artifacts, coverage |-> second.coverage]
  BY <1>5, ChangedRuns
<1> HIDE DEF third
<1>7. third = [state |-> "failed", outcome |-> "runner_unavailable", reason |-> reason, seen |-> run.seen,
               exit |-> run.exit, artifacts |-> run.artifacts, coverage |-> run.coverage]
  BY <1>2, <1>4, <1>6
<1> QED BY <1>1, <1>7 DEF Unstarted, Chosen, RunRecord, Over, ArtifactLists

LEMMA EndedRuns ==
  ASSUME NEW u, NEW run, Unstarted(u, run), Runs!Unavailable(u, run) = None, NEW exit
  PROVE  Over(u, Runs!Ended(run, exit)) /\ Runs!Ended(run, exit).artifacts = <<>>
<1>1. \E state \in {"succeeded", "failed", "timed_out"} : \E outcome, reason :
        /\ Runs!Ended(run, exit) =
             [state |-> state, outcome |-> outcome, reason |-> reason, seen |-> run.seen,
              exit |-> exit, artifacts |-> run.artifacts, coverage |-> run.coverage]
        /\ reason = None \/ state = "failed" \/ reason = "runner.timeout"
  <2>1. /\ run = [state |-> run.state, outcome |-> run.outcome, reason |-> run.reason, seen |-> run.seen,
                  exit |-> run.exit, artifacts |-> run.artifacts, coverage |-> run.coverage]
        /\ run.reason = None
    BY DEF Unstarted, Chosen, RunRecord
  <2>2. CASE exit = "ok"
    <3>1. Runs!Ended(run, exit) = [run EXCEPT !.state = "succeeded", !.exit = exit]
      BY <2>2 DEF Runs!Ended
    <3> QED BY <2>1, <3>1
  <2>3. CASE exit = "timeout"
    <3>1. Runs!Ended(run, exit) = [run EXCEPT !.state = "timed_out", !.outcome = "inconclusive",
                                              !.reason = "runner.timeout", !.exit = exit]
      BY <2>3 DEF Runs!Ended
    <3> QED BY <2>1, <3>1
  <2>4. CASE exit = "failed"
    <3>1. Runs!Ended(run, exit) = [run EXCEPT !.state = "failed", !.outcome = "tests_failed",
                                              !.reason = "runner.tests_failed", !.exit = exit]
      BY <2>4 DEF Runs!Ended
    <3> QED BY <2>1, <3>1
  <2>5. CASE exit \notin {"ok", "timeout", "failed"}
    <3>1. Runs!Ended(run, exit) = [run EXCEPT !.state = "failed", !.outcome = "inconclusive",
                                              !.reason = "runner.inconclusive", !.exit = exit]
      BY <2>5 DEF Runs!Ended
    <3> QED BY <2>1, <3>1
  <2> QED BY <2>2, <2>3, <2>4, <2>5
<1> QED BY <1>1 DEF Unstarted, Chosen, RunRecord, Over, ArtifactLists, Runs!Unavailable

LEMMA InconclusiveRuns ==
  ASSUME NEW u, NEW run, Over(u, run), NEW reason
  PROVE  /\ Over(u, Runs!Inconclusive(run, reason)) /\ Runs!Inconclusive(run, reason).artifacts = run.artifacts
         /\ Runs!Inconclusive(run, reason).exit = run.exit
<1>1. CASE run.exit = "ok"
  <2>1. Runs!Inconclusive(run, reason) = [run EXCEPT !.state = "failed", !.outcome = "inconclusive", !.reason = reason]
    BY <1>1 DEF Runs!Inconclusive
  <2>2. Runs!Inconclusive(run, reason) =
          [state |-> "failed", outcome |-> "inconclusive", reason |-> reason, seen |-> run.seen,
           exit |-> run.exit, artifacts |-> run.artifacts, coverage |-> run.coverage]
    BY <2>1 DEF Over, Chosen, RunRecord
  <2> QED BY <2>2 DEF Over, Chosen, RunRecord, Has
<1>2. CASE run.exit # "ok"
  BY <1>2 DEF Runs!Inconclusive
<1> QED BY <1>1, <1>2

\* A run with one more artifact.
LEMMA RunsWithMore ==
  ASSUME NEW u, NEW run, Over(u, run), NEW a,
         \/ a = Runs!Profile(u) /\ run.artifacts = <<>>
         \/ a = Runs!Report(u) /\ run.artifacts \in {<<>>, <<Runs!Profile(u)>>}
  PROVE  LET with == [run EXCEPT !.artifacts = Append(@, a)]
         IN /\ Over(u, with) /\ Runs!Range(with.artifacts) = Runs!Range(run.artifacts) \cup {a}
            /\ with.artifacts = Append(run.artifacts, a)
            /\ with = [state |-> run.state, outcome |-> run.outcome, reason |-> run.reason, seen |-> run.seen,
                       exit |-> run.exit, artifacts |-> Append(run.artifacts, a), coverage |-> run.coverage]
<1>1. [run EXCEPT !.artifacts = Append(@, a)] =
        [state |-> run.state, outcome |-> run.outcome, reason |-> run.reason, seen |-> run.seen,
         exit |-> run.exit, artifacts |-> Append(run.artifacts, a), coverage |-> run.coverage]
  <2>1. RunRecord(run)
    BY DEF Over, Chosen
  <2>2. \A list : [run EXCEPT !.artifacts = list] =
                     [state |-> run.state, outcome |-> run.outcome, reason |-> run.reason, seen |-> run.seen,
                      exit |-> run.exit, artifacts |-> list, coverage |-> run.coverage]
    BY <2>1 DEF RunRecord
  <2> QED BY <2>2, Zenon
<1>2. /\ Append(run.artifacts, a) \in ArtifactLists(u)
      /\ Runs!Range(Append(run.artifacts, a)) = Runs!Range(run.artifacts) \cup {a}
  BY ShortLists DEF ArtifactLists
<1> QED BY <1>1, <1>2 DEF Over, Chosen, RunRecord, Has

LEMMA RunsWithProfile ==
  ASSUME NEW u, NEW run, Over(u, run), run.artifacts = <<>>, NEW whole \in BOOLEAN
  PROVE  LET with == Runs!WithProfile(run, Runs!Profile(u), whole)
         IN Over(u, with) /\ with.artifacts = <<Runs!Profile(u)>>
<1> DEFINE a == Runs!Profile(u)
           with == [run EXCEPT !.artifacts = Append(@, a)]
<1>1. /\ Over(u, with) /\ Runs!Range(with.artifacts) = Runs!Range(run.artifacts) \cup {a} /\ with.artifacts = <<a>>
      /\ with.exit = run.exit
  <2>1. Append(<<>>, a) = <<a>>
    BY ShortLists
  <2>2. a = Runs!Profile(u)
    OBVIOUS
  <2> HIDE DEF a
  <2>3. /\ Over(u, with) /\ Runs!Range(with.artifacts) = Runs!Range(run.artifacts) \cup {a}
        /\ with.artifacts = Append(run.artifacts, a)
        /\ with = [state |-> run.state, outcome |-> run.outcome, reason |-> run.reason, seen |-> run.seen,
                   exit |-> run.exit, artifacts |-> Append(run.artifacts, a), coverage |-> run.coverage]
    <3>1. \/ a = Runs!Profile(u) /\ run.artifacts = <<>>
          \/ a = Runs!Report(u) /\ run.artifacts \in {<<>>, <<Runs!Profile(u)>>}
      BY <2>2
    <3> QED BY <3>1, RunsWithMore, Zenon
  <2> HIDE DEF with
  <2>4. with.exit = run.exit
    BY <2>3
  <2> QED BY <2>1, <2>3, <2>4
<1> HIDE DEF with
<1>2. CASE whole /\ run.exit = "ok"
  <2> DEFINE other == [with EXCEPT !.outcome = "coverage_collected"]
             done == [other EXCEPT !.coverage = TRUE]
  <2>1. Runs!WithProfile(run, a, whole) = [with EXCEPT !.outcome = "coverage_collected", !.coverage = TRUE]
    BY <1>2 DEF Runs!WithProfile, with
  <2>2. [with EXCEPT !.outcome = "coverage_collected", !.coverage = TRUE] = done
    OBVIOUS
  <2>3. a \in Runs!Range(with.artifacts)
    BY <1>1
  <2>4. other = [state |-> with.state, outcome |-> "coverage_collected", reason |-> with.reason, seen |-> with.seen,
                 exit |-> with.exit, artifacts |-> with.artifacts, coverage |-> with.coverage]
    BY <1>1, ChangedRuns DEF Over, Chosen
  <2> HIDE DEF other
  <2>5. RunRecord(other)
    BY <2>4 DEF RunRecord
  <2>6. \A b : [other EXCEPT !.coverage = b] =
          [state |-> other.state, outcome |-> other.outcome, reason |-> other.reason, seen |-> other.seen,
           exit |-> other.exit, artifacts |-> other.artifacts, coverage |-> b]
    BY <2>5, ChangedRuns
  <2>7. done = [state |-> other.state, outcome |-> other.outcome, reason |-> other.reason, seen |-> other.seen,
                exit |-> other.exit, artifacts |-> other.artifacts, coverage |-> TRUE]
    BY <2>6, Zenon
  <2> HIDE DEF done
  <2>8. done = [state |-> with.state, outcome |-> "coverage_collected", reason |-> with.reason, seen |-> with.seen,
                exit |-> with.exit, artifacts |-> with.artifacts, coverage |-> TRUE]
    BY <2>4, <2>7
  <2> QED BY <1>1, <2>1, <2>2, <2>3, <2>8 DEF Over, Chosen, RunRecord, Has
<1>3. CASE ~(whole /\ run.exit = "ok")
  <2>1. Runs!WithProfile(run, a, whole) = Runs!Inconclusive(with, "coverage.profile_inconclusive")
    BY <1>3 DEF Runs!WithProfile, with
  <2> QED BY <1>1, <2>1, InconclusiveRuns
<1> QED BY <1>2, <1>3

\* A run that is taken back.
LEMMA CompensatedRuns ==
  ASSUME NEW u, NEW run, Over(u, run), NEW failed \in BOOLEAN, NEW here, ~failed => here = {},
         here \subseteq Runs!Range(run.artifacts)
  PROVE  TakenBack(u, Runs!Compensated(run, failed), here)
<1>1. /\ run = [state |-> run.state, outcome |-> run.outcome, reason |-> run.reason, seen |-> run.seen,
                exit |-> run.exit, artifacts |-> run.artifacts, coverage |-> run.coverage]
      /\ run.coverage \in BOOLEAN /\ (run.coverage => Has(run, Runs!Profile(u)))
      /\ run.seen \in Worktrees /\ (run.exit # None => Runs!Selection(TechniqueOf[u], run.seen) = None)
  BY DEF Over, Chosen, RunRecord
<1> DEFINE artifacts == IF failed THEN run.artifacts ELSE <<>>
           coverage == failed /\ run.coverage
<1>2. Runs!Compensated(run, failed) =
        [run EXCEPT !.state = "failed", !.outcome = "inconclusive", !.reason = "quality.persistence_failed",
                    !.artifacts = artifacts, !.coverage = coverage]
  BY DEF Runs!Compensated
<1>3. /\ coverage \in BOOLEAN /\ (coverage => failed /\ run.coverage)
      /\ (failed => artifacts = run.artifacts) /\ (~failed => artifacts = <<>>)
  BY <1>1
<1> HIDE DEF artifacts, coverage
<1>4. Runs!Compensated(run, failed) =
        [state |-> "failed", outcome |-> "inconclusive", reason |-> "quality.persistence_failed", seen |-> run.seen,
         exit |-> run.exit, artifacts |-> artifacts, coverage |-> coverage]
  BY <1>1, <1>2
<1>5. Runs!Range(<<>>) = {}
  BY ShortLists
<1>6. coverage => artifacts # <<>>
  BY <1>1, <1>3, <1>5 DEF Has
<1>7. artifacts = <<>> => here = {}
  BY <1>3, <1>5
<1> QED BY <1>1, <1>3, <1>4, <1>6, <1>7 DEF TakenBack, Chosen, RunRecord

-----------------------------------------------------------------------------
\* A handler's steps up to the report of the process.
LEMMA Requests ==
  ASSUME QualityConstants, QualityInv, NEW u \in Users, Runs!Request(u)
  PROVE  QualityInv'
<1>1. PICK w \in Worktrees, reply \in Runs!Replies :
        /\ Runs!SaveRow(u, Runs!NewRun(w), reply)
        /\ IF reply = "done"
           THEN /\ Runs!To(u, [at |-> "queued", run |-> Runs!NewRun(w)]) /\ UNCHANGED history
                /\ world' = IF TechniqueOf[u] = "go_test_coverage" /\ w.same /\ w.profile
                            THEN [world EXCEPT !.profiles = @ \cup {u}] ELSE world
           ELSE Runs!Return(u, "error")
  BY DEF Runs!Request
<1> DEFINE run == Runs!NewRun(w)
           here == Here(u, world.files)
           rows == RowsOf(u, store.artifacts)
           call == [at |-> "queued", run |-> run]
<1>2. Unstarted(u, run)
  BY NewRuns
<1> HIDE DEF run, here, rows
<1>3. /\ world = [files |-> world.files, profiles |-> world.profiles] /\ [history EXCEPT ![u] = history[u]] = history
      /\ Handler(u, calls[u], store.rows[u], history[u], here, rows, Listed(u)) /\ Listed(u) \in BOOLEAN
  BY BeforeAStep DEF here, rows
<1>4. /\ history[u] = None /\ store.rows[u] = None /\ ~Listed(u)
      /\ here = {} /\ \A a \in DOMAIN rows : rows[a] = "none"
  <2>1. calls[u].at = "idle"
    BY DEF Runs!Request
  <2>2. "idle" # "returned"
    OBVIOUS
  <2> QED BY <1>3, <2>1, <2>2, HandlerCases
<1>5. PICK row :
        /\ store' = [campaign |-> store.campaign, rows |-> [store.rows EXCEPT ![u] = row], artifacts |-> store.artifacts]
        /\ reply = "failed" => row = store.rows[u]
        /\ reply # "failed" => Row(row) /\ row.run = run /\ row # None
  BY <1>1, SavedRows DEF run
<1>6. CASE reply = "done"
  <2>1. call.at = "queued" /\ call.run = run /\ call = [at |-> call.at, run |-> call.run]
    OBVIOUS
  <2>2. /\ calls' = [calls EXCEPT ![u] = call] /\ history' = [history EXCEPT ![u] = history[u]]
        /\ \E profiles : world' = [files |-> world.files, profiles |-> profiles]
    <3>1. world = [files |-> world.files, profiles |-> world.profiles] /\ [history EXCEPT ![u] = history[u]] = history
      BY <1>3
    <3>2. \A profiles : [world EXCEPT !.profiles = profiles] = [files |-> world.files, profiles |-> profiles]
      BY <3>1
    <3>3. [world EXCEPT !.profiles = world.profiles \cup {u}] =
            [files |-> world.files, profiles |-> world.profiles \cup {u}]
      BY <3>2
    <3>4. calls' = [calls EXCEPT ![u] = call] /\ history' = history
      BY <1>1, <1>6 DEF Runs!To, run
    <3>5. world' = [world EXCEPT !.profiles = world.profiles \cup {u}] \/ world' = world
      BY <1>1, <1>6
    <3> QED BY <3>1, <3>3, <3>4, <3>5
  <2> HIDE DEF call
  <2>3. Handler(u, call, row, history[u], here, rows, Listed(u))
    BY <1>2, <1>4, <1>5, <1>6, <2>1 DEF Handler, Before
  <2>4. call.at # "append"
    BY <2>1
  <2> QED BY <1>5, <2>2, <2>3, <2>4, OwnRowSteps DEF here, rows
<1>7. CASE reply # "done"
  <2> DEFINE end == [at |-> "returned"]
  <2>1. /\ calls' = [calls EXCEPT ![u] = end] /\ history' = [history EXCEPT ![u] = "error"]
        /\ \E profiles : world' = [files |-> world.files, profiles |-> profiles]
    BY <1>1, <1>7, Returns
  <2>2. end.at = "returned"
    OBVIOUS
  <2>3. Handler(u, end, row, "error", here, rows, Listed(u))
    BY <1>2, <1>4, <1>5, <1>7 DEF Handler, Returned, RowIsSafe, Before
  <2> HIDE DEF end
  <2> QED BY <1>5, <2>1, <2>2, <2>3, OwnRowSteps DEF here, rows
<1> QED BY <1>6, <1>7

LEMMA Begins ==
  ASSUME QualityConstants, QualityInv, NEW u \in Users, Runs!Begin(u)
  PROVE  QualityInv'
<1> DEFINE run == [calls[u].run EXCEPT !.state = "running"]
           here == Here(u, world.files)
           rows == RowsOf(u, store.artifacts)
           call == [at |-> "running", run |-> run]
<1>1. PICK reply \in Runs!Replies :
        /\ Runs!SaveRow(u, run, reply)
        /\ IF reply = "done" THEN Runs!To(u, call) /\ UNCHANGED <<world, history>>
           ELSE Runs!Return(u, "error")
  BY DEF Runs!Begin
<1> HIDE DEF here, rows
<1>2. /\ world = [files |-> world.files, profiles |-> world.profiles] /\ [history EXCEPT ![u] = history[u]] = history
      /\ Handler(u, calls[u], store.rows[u], history[u], here, rows, Listed(u)) /\ Listed(u) \in BOOLEAN
  BY BeforeAStep DEF here, rows
<1>3. /\ history[u] = None /\ Before(u, store.rows[u]) /\ store.rows[u].run = calls[u].run /\ ~Listed(u)
      /\ here = {} /\ \A a \in DOMAIN rows : rows[a] = "none"
  <2>1. calls[u].at = "queued"
    BY DEF Runs!Begin
  <2>2. "queued" # "returned" /\ "queued" \in {"queued", "running"}
    OBVIOUS
  <2> QED BY <1>2, <2>1, <2>2, HandlerCases
<1>4. Unstarted(u, run)
  BY <1>3, BegunRuns DEF Before
<1> HIDE DEF run
<1>5. PICK row :
        /\ store' = [campaign |-> store.campaign, rows |-> [store.rows EXCEPT ![u] = row], artifacts |-> store.artifacts]
        /\ reply = "failed" => row = store.rows[u]
        /\ reply # "failed" => Row(row) /\ row.run = run /\ row # None
  BY <1>1, SavedRows
<1>6. CASE reply = "done"
  <2>1. call.at = "running" /\ call.run = run /\ call = [at |-> call.at, run |-> call.run]
    OBVIOUS
  <2>2. /\ calls' = [calls EXCEPT ![u] = call] /\ history' = [history EXCEPT ![u] = history[u]]
        /\ world' = [files |-> world.files, profiles |-> world.profiles]
    BY <1>1, <1>2, <1>6 DEF Runs!To
  <2> HIDE DEF call
  <2>3. Handler(u, call, row, history[u], here, rows, Listed(u))
    BY <1>3, <1>4, <1>5, <1>6, <2>1 DEF Handler, Before
  <2>4. call.at # "append"
    BY <2>1
  <2> QED BY <1>5, <2>2, <2>3, <2>4, OwnRowSteps DEF here, rows
<1>7. CASE reply # "done"
  <2> DEFINE end == [at |-> "returned"]
  <2>1. /\ calls' = [calls EXCEPT ![u] = end] /\ history' = [history EXCEPT ![u] = "error"]
        /\ \E profiles : world' = [files |-> world.files, profiles |-> profiles]
    BY <1>1, <1>7, Returns
  <2>2. end.at = "returned"
    OBVIOUS
  <2>3. Handler(u, end, row, "error", here, rows, Listed(u))
    BY <1>3, <1>4, <1>5, <1>7 DEF Handler, Returned, RowIsSafe, Before
  <2> HIDE DEF end
  <2> QED BY <1>5, <2>1, <2>2, <2>3, OwnRowSteps DEF here, rows
<1> QED BY <1>6, <1>7

LEMMA Executes ==
  ASSUME QualityConstants, QualityInv, NEW u \in Users, Runs!Execute(u)
  PROVE  QualityInv'
<1> DEFINE run == calls[u].run
           here == Here(u, world.files)
           rows == RowsOf(u, store.artifacts)
           reason == Runs!Unavailable(u, run)
           refused == [run EXCEPT !.state = "failed", !.outcome = "runner_unavailable", !.reason = reason]
<1>1. UNCHANGED <<store, world, history>> /\ calls[u].at = "running"
  BY DEF Runs!Execute
<1> HIDE DEF here, rows
<1>2. /\ store = [campaign |-> store.campaign, rows |-> store.rows, artifacts |-> store.artifacts]
      /\ world = [files |-> world.files, profiles |-> world.profiles] /\ [history EXCEPT ![u] = history[u]] = history
      /\ [store.rows EXCEPT ![u] = store.rows[u]] = store.rows
      /\ Handler(u, calls[u], store.rows[u], history[u], here, rows, Listed(u)) /\ Listed(u) \in BOOLEAN
  BY BeforeAStep DEF here, rows
<1>3. /\ history[u] = None /\ Before(u, store.rows[u]) /\ store.rows[u].run = run /\ ~Listed(u)
      /\ here = {} /\ \A a \in DOMAIN rows : rows[a] = "none"
  <2>1. "running" # "returned" /\ "running" \in {"queued", "running"}
    OBVIOUS
  <2> QED BY <1>1, <1>2, <2>1, HandlerCases
<1>4. Unstarted(u, run) /\ rows[Runs!Profile(u)] = "none" /\ rows[Runs!Report(u)] = "none"
  BY <1>3 DEF Before, rows, RowsOf, Own
<1>5. Runs!Range(<<>>) = {}
  BY ShortLists
<1>6. \/ \E next : calls' = [calls EXCEPT ![u] = [at |-> "report", run |-> next]] /\ Over(u, next) /\ next.artifacts = <<>>
      \/ \E next : \E whole \in BOOLEAN :
           /\ calls' = [calls EXCEPT ![u] = [at |-> "profile", run |-> next, whole |-> whole]]
           /\ Over(u, next) /\ next.artifacts = <<>>
  <2>1. CASE reason # None
    <3>1. calls' = [calls EXCEPT ![u] = [at |-> "report", run |-> refused]]
      <4>1. Runs!To(u, [at |-> "report", run |-> refused])
        BY <2>1, Zenon DEF Runs!Execute
      <4>2. \A next : Runs!To(u, next) => calls' = [calls EXCEPT ![u] = next]
        BY DEF Runs!To
      <4> HIDE DEF refused
      <4> QED BY <4>1, <4>2, Zenon
    <3>2. Over(u, refused) /\ refused.artifacts = <<>>
      <4>1. Unstarted(u, run)
        BY <1>4
      <4> HIDE DEF run, reason
      <4> QED BY <4>1, RefusedRuns, Zenon
    <3> HIDE DEF refused
    <3> QED BY <3>1, <3>2
  <2>2. CASE reason = None
    <3>1. PICK exit \in Exits, profile \in Profiles :
            LET ended == Runs!Ended(run, exit)
            IN CASE TechniqueOf[u] # "go_test_coverage" -> Runs!To(u, [at |-> "report", run |-> ended])
                 [] TechniqueOf[u] = "go_test_coverage" /\ profile = "unreadable" ->
                      Runs!To(u, [at |-> "report", run |-> Runs!Inconclusive(ended, "coverage.profile_inconclusive")])
                 [] TechniqueOf[u] = "go_test_coverage" /\ profile = "empty" ->
                      Runs!To(u, [at |-> "report", run |-> Runs!Inconclusive(ended, "coverage.profile_missing")])
                 [] OTHER -> Runs!To(u, [at |-> "profile", run |-> ended, whole |-> profile = "valid"])
      BY <2>2 DEF Runs!Execute
    <3> DEFINE ended == Runs!Ended(run, exit)
               whole == profile = "valid"
    <3>2. Over(u, ended) /\ ended.artifacts = <<>>
      BY <1>4, <2>2, EndedRuns
    <3>3. whole \in BOOLEAN
      OBVIOUS
    <3>4. \/ Runs!To(u, [at |-> "report", run |-> ended])
          \/ \E text : Runs!To(u, [at |-> "report", run |-> Runs!Inconclusive(ended, text)])
          \/ Runs!To(u, [at |-> "profile", run |-> ended, whole |-> whole])
      BY <3>1
    <3> HIDE DEF ended, whole
    <3>5. \A text : Over(u, Runs!Inconclusive(ended, text)) /\ Runs!Inconclusive(ended, text).artifacts = <<>>
      BY <3>2, InconclusiveRuns
    <3>6. CASE Runs!To(u, [at |-> "report", run |-> ended])
      BY <3>2, <3>6 DEF Runs!To
    <3>7. CASE Runs!To(u, [at |-> "profile", run |-> ended, whole |-> whole])
      <4>1. calls' = [calls EXCEPT ![u] = [at |-> "profile", run |-> ended, whole |-> whole]]
        BY <3>7 DEF Runs!To
      <4> QED BY <3>2, <3>3, <4>1, Zenon
    <3>8. CASE \E text : Runs!To(u, [at |-> "report", run |-> Runs!Inconclusive(ended, text)])
      BY <3>5, <3>8 DEF Runs!To
    <3> QED BY <3>4, <3>6, <3>7, <3>8
  <2> QED BY <2>1, <2>2
<1>7. \A call : calls' = [calls EXCEPT ![u] = call] /\ WritesEvidence(u, call, here, rows) => QualityInv'
  <2> SUFFICES ASSUME NEW call, calls' = [calls EXCEPT ![u] = call], WritesEvidence(u, call, here, rows)
               PROVE  QualityInv'
    OBVIOUS
  <2>1. Handler(u, call, store.rows[u], history[u], here, rows, Listed(u))
    BY <1>3 DEF Handler
  <2>2. call.at # "append"
    BY DEF WritesEvidence
  <2>3. /\ store' = [campaign |-> store.campaign, rows |-> [store.rows EXCEPT ![u] = store.rows[u]], artifacts |-> store.artifacts]
        /\ world' = [files |-> world.files, profiles |-> world.profiles] /\ history' = [history EXCEPT ![u] = history[u]]
    BY <1>1, <1>2
  <2> QED BY <2>1, <2>2, <2>3, OwnRowSteps DEF here, rows
<1>8. ASSUME NEW next, Over(u, next), next.artifacts = <<>>
      PROVE  /\ WritesEvidence(u, [at |-> "report", run |-> next], here, rows)
             /\ \A whole \in BOOLEAN : WritesEvidence(u, [at |-> "profile", run |-> next, whole |-> whole], here, rows)
  <2>1. Holds(u, next, here, rows)
    BY <1>3, <1>5, <1>8 DEF Holds
  <2>2. ASSUME NEW call, call = [at |-> "report", run |-> next]
        PROVE  WritesEvidence(u, call, here, rows)
    BY <1>4, <1>8, <2>1, <2>2 DEF WritesEvidence
  <2>3. ASSUME NEW whole \in BOOLEAN, NEW call, call = [at |-> "profile", run |-> next, whole |-> whole]
        PROVE  WritesEvidence(u, call, here, rows)
    BY <1>4, <1>8, <2>1, <2>3 DEF WritesEvidence
  <2> QED BY <2>2, <2>3
<1> QED BY <1>6, <1>7, <1>8

-----------------------------------------------------------------------------
\* A handler's steps that write its evidence.

\* A step that leaves the row and the campaign.
LEMMA EvidenceSteps ==
  ASSUME QualityInv, NEW u \in Users, NEW call, NEW files, NEW artifacts, OwnOnly(u, files, artifacts),
         store' = [store EXCEPT !.artifacts = artifacts], world' = [world EXCEPT !.files = files],
         calls' = [calls EXCEPT ![u] = call], history' = history, call.at # "append",
         Handler(u, call, store.rows[u], history[u], Here(u, files), RowsOf(u, artifacts), Listed(u))
  PROVE  QualityInv'
<1>1. /\ store = [campaign |-> store.campaign, rows |-> store.rows, artifacts |-> store.artifacts]
      /\ world = [files |-> world.files, profiles |-> world.profiles] /\ [history EXCEPT ![u] = history[u]] = history
      /\ [store.rows EXCEPT ![u] = store.rows[u]] = store.rows
  BY BeforeAStep
<1>2. /\ store' = [campaign |-> store.campaign, rows |-> [store.rows EXCEPT ![u] = store.rows[u]], artifacts |-> artifacts]
      /\ world' = [files |-> files, profiles |-> world.profiles] /\ history' = [history EXCEPT ![u] = history[u]]
  BY <1>1
<1>3. ListGrows(u, store.campaign)
  BY DEF ListGrows
<1>4. Handler(u, call, store.rows[u], history[u], Here(u, files), RowsOf(u, artifacts),
              u \in Runs!Range(store.campaign.runs))
  BY DEF Listed
<1> QED BY <1>2, <1>3, <1>4, HandlerSteps

\* One artifact has another row.
WithRow(a, s) == [store.artifacts EXCEPT ![a] = s]
LEMMA OwnRows ==
  ASSUME QualityInv, NEW u \in Users, NEW a \in Own(u), NEW s \in {"active", "pinned", "deleted"}
  PROVE  /\ OwnOnly(u, world.files \ {a}, WithRow(a, s))
         /\ s # "deleted" => OwnOnly(u, world.files, WithRow(a, s))
         /\ RowsOf(u, WithRow(a, s))[a] = s
         /\ \A b \in Own(u) \ {a} : RowsOf(u, WithRow(a, s))[b] = RowsOf(u, store.artifacts)[b]
<1> DEFINE other == [store.artifacts EXCEPT ![a] = s]
<1>1. /\ world.files \subseteq Runs!Artifacts /\ store.artifacts = [b \in Runs!Artifacts |-> store.artifacts[b]]
      /\ \A b \in world.files : store.artifacts[b] # "deleted"
  BY BeforeAStep
<1>2. a \in Runs!Artifacts /\ Own(u) \subseteq Runs!Artifacts
  BY DEF Own, Runs!Artifacts, Runs!Profile, Runs!Report
<1>3. /\ other = [b \in Runs!Artifacts |-> other[b]] /\ other[a] = s
      /\ \A b \in Runs!Artifacts : b # a => other[b] = store.artifacts[b]
  BY <1>1, <1>2
<1> HIDE DEF other
<1>4. OwnOnly(u, world.files \ {a}, other) /\ (s # "deleted" => OwnOnly(u, world.files, other))
  BY <1>1, <1>2, <1>3 DEF OwnOnly
<1>5. RowsOf(u, other)[a] = s /\ \A b \in Own(u) \ {a} : RowsOf(u, other)[b] = RowsOf(u, store.artifacts)[b]
  BY <1>2, <1>3 DEF RowsOf
<1> QED BY <1>4, <1>5 DEF other, WithRow

\* One artifact more or less.
LEMMA OwnChanges ==
  ASSUME QualityInv, NEW u \in Users, NEW a \in Own(u)
  PROVE  /\ OwnOnly(u, world.files, store.artifacts) /\ OwnOnly(u, world.files \ {a}, store.artifacts)
         /\ store.artifacts[a] # "deleted" => OwnOnly(u, world.files \cup {a}, store.artifacts)
         /\ Here(u, world.files \cup {a}) = Here(u, world.files) \cup {a}
         /\ Here(u, world.files \ {a}) = Here(u, world.files) \ {a}
         /\ \A b \in Own(u) : RowsOf(u, store.artifacts)[b] = store.artifacts[b]
<1>1. /\ world.files \subseteq Runs!Artifacts /\ store.artifacts = [b \in Runs!Artifacts |-> store.artifacts[b]]
      /\ \A b \in world.files : store.artifacts[b] # "deleted"
  BY BeforeAStep
<1>2. a \in Runs!Artifacts
  BY DEF Own, Runs!Artifacts, Runs!Profile, Runs!Report
<1>3. /\ OwnOnly(u, world.files, store.artifacts) /\ OwnOnly(u, world.files \ {a}, store.artifacts)
      /\ store.artifacts[a] # "deleted" => OwnOnly(u, world.files \cup {a}, store.artifacts)
  BY <1>1, <1>2 DEF OwnOnly
<1>4. Here(u, world.files \cup {a}) = Here(u, world.files) \cup {a} /\ Here(u, world.files \ {a}) = Here(u, world.files) \ {a}
  BY DEF Here
<1>5. \A b \in Own(u) : RowsOf(u, store.artifacts)[b] = store.artifacts[b]
  BY DEF RowsOf
<1> QED BY <1>3, <1>4, <1>5

\* A compensation begins with all that the run names.
LEMMA CompensationsBegin ==
  ASSUME NEW u, NEW run, Over(u, run), NEW row, NEW here, here \subseteq Runs!Range(run.artifacts),
         Before(u, row) \/ (Row(row) /\ row.run = run /\ Reported(u, run))
  PROVE  LET call == [at |-> "compensate", run |-> run, left |-> run.artifacts, failed |-> FALSE]
         IN Compensates(u, call, row, here) /\ call.at = "compensate"
<1>1. run.artifacts \in ArtifactLists(u)
  BY DEF Over
<1>2. ASSUME NEW failed \in BOOLEAN, NEW call, call = [at |-> "compensate", run |-> run, left |-> run.artifacts, failed |-> failed]
      PROVE  Compensates(u, call, row, here) /\ call.at = "compensate"
  <2>1. call.at = "compensate" /\ call.run = run /\ call.left = run.artifacts /\ call.failed = failed
    BY <1>2
  <2> QED BY <1>1, <1>2, <2>1 DEF Compensates
<1> QED BY <1>2, Zenon

LEMMA WritesOfFiles ==
  ASSUME QualityConstants, QualityInv, NEW u \in Users, Runs!WriteArtifact(u)
  PROVE  QualityInv'
<1> DEFINE c == calls[u]
           a == <<u, c.at>>
           here == Here(u, world.files)
           rows == RowsOf(u, store.artifacts)
           row == store.rows[u]
<1> HIDE DEF here, rows, row
<1>1. c.at \in {"profile", "report"} /\ UNCHANGED <<store, history>>
  BY DEF Runs!WriteArtifact
<1>2. /\ store = [store EXCEPT !.artifacts = store.artifacts] /\ world = [world EXCEPT !.files = world.files]
      /\ Handler(u, c, row, history[u], here, rows, Listed(u)) /\ Listed(u) \in BOOLEAN
  <2>1. /\ store = [campaign |-> store.campaign, rows |-> store.rows, artifacts |-> store.artifacts]
        /\ world = [files |-> world.files, profiles |-> world.profiles]
    BY BeforeAStep
  <2> QED BY <2>1, BeforeAStep DEF here, rows, row
<1>3. WritesEvidence(u, c, here, rows) /\ Before(u, row) /\ ~Listed(u) /\ history[u] = None
  <2>1. c.at # "returned"
    BY <1>1
  <2> QED BY <1>1, <1>2, <2>1, HandlerCases
<1>4. CASE /\ world' = [world EXCEPT !.files = @ \cup {a}]
           /\ calls' = [calls EXCEPT ![u] = [at |-> "insert", artifact |-> a, then |-> c]]
  <2> DEFINE call == [at |-> "insert", artifact |-> a, then |-> c]
  <2>1. /\ a \in Own(u) /\ rows[a] = "none" /\ a \notin here
    <3>1. \/ c.at = "profile" /\ c.run.artifacts = <<>> /\ rows[Runs!Profile(u)] = "none"
          \/ c.at = "report" /\ c.run.artifacts \in {<<>>, <<Runs!Profile(u)>>}
      BY <1>3 DEF WritesEvidence
    <3>2. here = Runs!Range(c.run.artifacts) /\ rows[Runs!Report(u)] = "none"
      BY <1>3 DEF WritesEvidence, Holds
    <3>3. /\ (c.at = "profile" => a = Runs!Profile(u)) /\ (c.at = "report" => a = Runs!Report(u))
          /\ Own(u) = {Runs!Profile(u), Runs!Report(u)}
      BY DEF Runs!Profile, Runs!Report, Own
    <3>4. /\ Runs!Range(<<>>) = {} /\ Runs!Range(<<Runs!Profile(u)>>) = {Runs!Profile(u)}
          /\ Runs!Profile(u) # Runs!Report(u)
      BY ShortLists
    <3> HIDE DEF a, c
    <3>5. Runs!Range(c.run.artifacts) \subseteq {Runs!Profile(u)}
      BY <3>1, <3>4
    <3> QED BY <3>1, <3>2, <3>3, <3>4, <3>5
  <2>2. OwnOnly(u, world.files \cup {a}, store.artifacts) /\ Here(u, world.files \cup {a}) = here \cup {a}
    <3>1. store.artifacts[a] # "deleted"
      BY <2>1, OwnChanges DEF rows
    <3> QED BY <2>1, <3>1, OwnChanges DEF here
  <2>3. call.at = "insert" /\ call.artifact = a /\ call.then = c /\ call = [at |-> "insert", artifact |-> call.artifact, then |-> call.then]
    OBVIOUS
  <2>4. calls' = [calls EXCEPT ![u] = call]
    BY <1>4
  <2> HIDE DEF call
  <2>5. (here \cup {a}) \ {a} = here
    BY <2>1
  <2>6. Inserts(u, call, here \cup {a}, rows)
    BY <1>3, <2>1, <2>3, <2>5 DEF Inserts
  <2>7. Handler(u, call, row, history[u], here \cup {a}, rows, Listed(u))
    BY <1>3, <2>6 DEF Handler
  <2>8. call.at # "append"
    BY <2>3
  <2>9. store' = [store EXCEPT !.artifacts = store.artifacts] /\ world' = [world EXCEPT !.files = world.files \cup {a}]
        /\ history' = history
    BY <1>1, <1>2, <1>4
  <2> QED BY <2>2, <2>4, <2>7, <2>8, <2>9, EvidenceSteps DEF rows, row
<1>5. CASE /\ calls' = [calls EXCEPT ![u] = [at |-> "compensate", run |-> c.run, left |-> c.run.artifacts, failed |-> FALSE]]
           /\ UNCHANGED world
  <2>1. PICK call : calls' = [calls EXCEPT ![u] = call] /\ Compensates(u, call, row, here) /\ call.at = "compensate"
    <3>1. Over(u, c.run) /\ here \subseteq Runs!Range(c.run.artifacts)
      BY <1>3 DEF WritesEvidence, Holds
    <3> QED BY <1>3, <1>5, <3>1, CompensationsBegin, Zenon
  <2>2. Handler(u, call, row, history[u], here, rows, Listed(u))
    BY <1>3, <2>1 DEF Handler
  <2>3. OwnOnly(u, world.files, store.artifacts)
    BY OwnChanges DEF Own
  <2>4. store' = [store EXCEPT !.artifacts = store.artifacts] /\ world' = [world EXCEPT !.files = world.files] /\ history' = history
    BY <1>1, <1>2, <1>5
  <2>5. call.at # "append"
    BY <2>1
  <2> QED BY <2>1, <2>2, <2>3, <2>4, <2>5, EvidenceSteps DEF here, rows, row
<1>6. \/ /\ world' = [world EXCEPT !.files = @ \cup {a}]
         /\ calls' = [calls EXCEPT ![u] = [at |-> "insert", artifact |-> a, then |-> c]]
      \/ /\ calls' = [calls EXCEPT ![u] = [at |-> "compensate", run |-> c.run, left |-> c.run.artifacts, failed |-> FALSE]]
         /\ UNCHANGED world
  BY DEF Runs!WriteArtifact, Runs!To
<1> QED BY <1>4, <1>5, <1>6

LEMMA InsertsOfRows ==
  ASSUME QualityConstants, QualityInv, NEW u \in Users, Runs!InsertArtifact(u)
  PROVE  QualityInv'
<1> DEFINE before == calls[u].then
           a == calls[u].artifact
           here == Here(u, world.files)
           rows == RowsOf(u, store.artifacts)
           row == store.rows[u]
           inserted == WithRow(a, "active")
           taken == [at |-> "compensate", run |-> before.run, left |-> before.run.artifacts, failed |-> FALSE]
           call(reply) == CASE reply # "done" -> taken
                            [] reply = "done" /\ before.at = "profile" ->
                                 [at |-> "report", run |-> Runs!WithProfile(before.run, a, before.whole)]
                            [] OTHER -> [at |-> "finish", run |-> [before.run EXCEPT !.artifacts = Append(@, a)]]
<1>1. PICK reply \in Runs!Replies :
        /\ store' = IF reply = "failed" THEN store ELSE [store EXCEPT !.artifacts[a] = "active"]
        /\ world' = IF reply = "done" THEN world ELSE [world EXCEPT !.files = @ \ {a}]
        /\ calls' = [calls EXCEPT ![u] = call(reply)]
        /\ UNCHANGED history
  BY DEF Runs!InsertArtifact, Runs!To
<1> HIDE DEF here, rows, row
<1>2. /\ store = [store EXCEPT !.artifacts = store.artifacts] /\ world = [world EXCEPT !.files = world.files]
      /\ Handler(u, calls[u], row, history[u], here, rows, Listed(u)) /\ Listed(u) \in BOOLEAN
  <2>1. /\ store = [campaign |-> store.campaign, rows |-> store.rows, artifacts |-> store.artifacts]
        /\ world = [files |-> world.files, profiles |-> world.profiles]
    BY BeforeAStep
  <2> QED BY <2>1, BeforeAStep DEF here, rows, row
<1>3. /\ a = <<u, before.at>> /\ a \in here /\ WritesEvidence(u, before, here \ {a}, rows)
      /\ Before(u, row) /\ ~Listed(u) /\ history[u] = None
  <2>1. calls[u].at = "insert" /\ "insert" # "returned"
    BY DEF Runs!InsertArtifact
  <2>2. Inserts(u, calls[u], here, rows) /\ Before(u, row) /\ ~Listed(u) /\ history[u] = None
    BY <1>2, <2>1, HandlerCases
  <2> QED BY <2>2 DEF Inserts
<1>4. /\ before.at \in {"profile", "report"} /\ Over(u, before.run) /\ Holds(u, before.run, here \ {a}, rows)
      /\ (before.at = "profile" =>
            before.whole \in BOOLEAN /\ before.run.artifacts = <<>> /\ rows[Runs!Report(u)] = "none" /\ a = Runs!Profile(u))
      /\ (before.at = "report" => before.run.artifacts \in {<<>>, <<Runs!Profile(u)>>} /\ a = Runs!Report(u))
  BY <1>3 DEF WritesEvidence, Runs!Profile, Runs!Report
<1>5. a \in Own(u)
  BY <1>4 DEF Own
<1> HIDE DEF before, a, call, inserted, taken
<1>6. CASE reply = "done"
  <2> DEFINE after == RowsOf(u, inserted)
             next == IF before.at = "profile" THEN Runs!WithProfile(before.run, a, before.whole)
                     ELSE [before.run EXCEPT !.artifacts = Append(@, a)]
  <2>1. /\ OwnOnly(u, world.files, inserted) /\ after[a] = "active"
        /\ \A b \in Own(u) \ {a} : after[b] = rows[b]
    BY <1>5, OwnRows DEF inserted, rows
  <2> HIDE DEF after
  <2>2. /\ Over(u, next) /\ Runs!Range(next.artifacts) = Runs!Range(before.run.artifacts) \cup {a}
        /\ (before.at = "profile" => next.artifacts = <<Runs!Profile(u)>>)
    <3>1. CASE before.at = "profile"
      <4>1. next = Runs!WithProfile(before.run, Runs!Profile(u), before.whole)
        BY <1>4, <3>1
      <4> HIDE DEF next
      <4>2. Over(u, next) /\ next.artifacts = <<Runs!Profile(u)>>
        BY <1>4, <3>1, <4>1, RunsWithProfile
      <4>3. Runs!Range(<<Runs!Profile(u)>>) = {a} /\ Runs!Range(<<>>) = {}
        BY <1>4, <3>1, ShortLists
      <4> QED BY <1>4, <3>1, <4>2, <4>3
    <3>2. CASE before.at = "report"
      <4>1. next = [before.run EXCEPT !.artifacts = Append(@, a)] /\ before.at # "profile"
        BY <3>2
      <4>2. /\ Over(u, before.run)
            /\ \/ a = Runs!Profile(u) /\ before.run.artifacts = <<>>
               \/ a = Runs!Report(u) /\ before.run.artifacts \in {<<>>, <<Runs!Profile(u)>>}
        BY <1>4, <3>2
      <4> DEFINE held == before.run
                 with == [held EXCEPT !.artifacts = Append(@, a)]
      <4>3. next = with /\ before.run = held
        BY <4>1
      <4> HIDE DEF held, next
      <4>4. Over(u, with) /\ Runs!Range(with.artifacts) = Runs!Range(held.artifacts) \cup {a}
        <5>1. /\ Over(u, held)
              /\ \/ a = Runs!Profile(u) /\ held.artifacts = <<>>
                 \/ a = Runs!Report(u) /\ held.artifacts \in {<<>>, <<Runs!Profile(u)>>}
          BY <4>2, <4>3
        <5> QED BY <5>1, RunsWithMore, Zenon
      <4> HIDE DEF with
      <4> QED BY <4>1, <4>3, <4>4
    <3> QED BY <1>4, <3>1, <3>2
  <2>3. before.at = "profile" => call(reply) = [at |-> "report", run |-> next]
    BY <1>6 DEF call
  <2>4. before.at = "report" => call(reply) = [at |-> "finish", run |-> next]
    BY <1>6 DEF call
  <2> HIDE DEF next
  <2>5. Runs!Range(next.artifacts) = here /\ here \subseteq Own(u)
    <3>1. here \subseteq Own(u)
      BY DEF here, Here
    <3> QED BY <1>3, <1>4, <1>5, <2>2, <3>1 DEF Holds
  <2>6. Holds(u, next, here, after)
    BY <1>4, <2>1, <2>5 DEF Holds, InUse
  <2>7. Handler(u, call(reply), row, history[u], here, after, Listed(u)) /\ call(reply).at # "append"
    <3>1. CASE before.at = "profile"
      <4>1. \A c : c = [at |-> "report", run |-> next] => c.at = "report" /\ c.run = next
        OBVIOUS
      <4>2. after[Runs!Report(u)] = "none"
        BY <1>4, <2>1, <3>1, ShortLists DEF Own
      <4>3. WritesEvidence(u, call(reply), here, after) /\ call(reply).at = "report"
        BY <2>2, <2>3, <2>6, <3>1, <4>1, <4>2 DEF WritesEvidence
      <4> QED BY <1>3, <4>3 DEF Handler
    <3>2. CASE before.at = "report"
      <4>1. \A c : c = [at |-> "finish", run |-> next] => c.at = "finish" /\ c.run = next
        OBVIOUS
      <4>2. Reported(u, next)
        BY <1>4, <2>2, <3>2 DEF Reported, Has
      <4> QED BY <1>3, <2>4, <2>6, <3>2, <4>1, <4>2 DEF Handler
    <3> QED BY <1>4, <3>1, <3>2
  <2>8. /\ store' = [store EXCEPT !.artifacts = inserted] /\ world' = [world EXCEPT !.files = world.files]
        /\ history' = history /\ calls' = [calls EXCEPT ![u] = call(reply)]
    BY <1>1, <1>2, <1>6 DEF inserted, WithRow
  <2> QED BY <2>1, <2>7, <2>8, EvidenceSteps DEF here, after, row
<1>7. CASE reply # "done"
  <2> DEFINE artifacts == IF reply = "failed" THEN store.artifacts ELSE inserted
             after == RowsOf(u, artifacts)
  <2>1. OwnOnly(u, world.files \ {a}, artifacts) /\ Here(u, world.files \ {a}) = here \ {a}
    <3>1. OwnOnly(u, world.files \ {a}, inserted)
      BY <1>5, OwnRows DEF inserted
    <3> QED BY <1>5, <3>1, OwnChanges DEF here
  <2>2. /\ store' = [store EXCEPT !.artifacts = artifacts] /\ world' = [world EXCEPT !.files = world.files \ {a}]
        /\ history' = history /\ calls' = [calls EXCEPT ![u] = call(reply)]
    BY <1>1, <1>2, <1>7 DEF inserted, WithRow
  <2> HIDE DEF artifacts
  <2>3. Compensates(u, call(reply), row, here \ {a}) /\ call(reply).at = "compensate"
    <3>1. call(reply) = taken
      BY <1>7 DEF call
    <3>2. here \ {a} \subseteq Runs!Range(before.run.artifacts)
      BY <1>4 DEF Holds
    <3>3. Compensates(u, taken, row, here \ {a}) /\ taken.at = "compensate"
      BY <1>3, <1>4, <3>2, CompensationsBegin, Zenon DEF taken
    <3> QED BY <3>1, <3>3
  <2>4. Handler(u, call(reply), row, history[u], here \ {a}, after, Listed(u)) /\ call(reply).at # "append"
    BY <1>3, <2>3 DEF Handler
  <2> QED BY <2>1, <2>2, <2>4, EvidenceSteps DEF row
<1> QED BY <1>6, <1>7

LEMMA Finishes ==
  ASSUME QualityConstants, QualityInv, NEW u \in Users, Runs!Finish(u)
  PROVE  QualityInv'
<1> DEFINE run == calls[u].run
           here == Here(u, world.files)
           rows == RowsOf(u, store.artifacts)
           call(reply) == IF reply = "done" THEN [at |-> "load", run |-> run, tries |-> 0]
                          ELSE [at |-> "compensate", run |-> run, left |-> run.artifacts, failed |-> FALSE]
<1>1. PICK reply \in Runs!Replies :
        /\ Runs!SaveRow(u, run, reply) /\ calls' = [calls EXCEPT ![u] = call(reply)] /\ UNCHANGED <<world, history>>
  BY DEF Runs!Finish, Runs!To
<1> HIDE DEF here, rows
<1>2. /\ world = [files |-> world.files, profiles |-> world.profiles] /\ [history EXCEPT ![u] = history[u]] = history
      /\ Handler(u, calls[u], store.rows[u], history[u], here, rows, Listed(u)) /\ Listed(u) \in BOOLEAN
  BY BeforeAStep DEF here, rows
<1>3. Reported(u, run) /\ Holds(u, run, here, rows) /\ Before(u, store.rows[u]) /\ ~Listed(u) /\ history[u] = None
  <2>1. calls[u].at = "finish" /\ "finish" # "returned"
    BY DEF Runs!Finish
  <2> QED BY <1>2, <2>1, HandlerCases
<1> HIDE DEF run, call
<1>4. PICK row :
        /\ store' = [campaign |-> store.campaign, rows |-> [store.rows EXCEPT ![u] = row], artifacts |-> store.artifacts]
        /\ reply = "failed" => row = store.rows[u]
        /\ reply # "failed" => Row(row) /\ row.run = run /\ row # None
  BY <1>1, SavedRows
<1>5. Handler(u, call(reply), row, history[u], here, rows, Listed(u)) /\ call(reply).at # "append"
  <2>1. CASE reply = "done"
    <3> DEFINE c == [at |-> "load", run |-> run, tries |-> 0]
    <3>1. call(reply) = c
      BY <2>1 DEF call
    <3>2. c.at = "load" /\ c.run = run /\ c = [at |-> "load", run |-> c.run, tries |-> c.tries]
      OBVIOUS
    <3> HIDE DEF c
    <3>3. Lists(u, c, row, here, rows, Listed(u))
      BY <1>3, <1>4, <2>1, <3>2 DEF Lists
    <3> QED BY <1>3, <3>1, <3>2, <3>3 DEF Handler
  <2>2. CASE reply # "done"
    <3>1. call(reply) = [at |-> "compensate", run |-> run, left |-> run.artifacts, failed |-> FALSE]
      BY <2>2 DEF call
    <3>2. here \subseteq Runs!Range(run.artifacts) /\ Over(u, run)
      BY <1>3 DEF Holds, Reported
    <3>3. Before(u, row) \/ (Row(row) /\ row.run = run /\ Reported(u, run))
      BY <1>3, <1>4
    <3>4. Compensates(u, call(reply), row, here) /\ call(reply).at = "compensate"
      BY <3>1, <3>2, <3>3, CompensationsBegin, Zenon
    <3> QED BY <1>3, <3>4 DEF Handler
  <2> QED BY <2>1, <2>2
<1>6. world' = [files |-> world.files, profiles |-> world.profiles] /\ history' = [history EXCEPT ![u] = history[u]]
  BY <1>1, <1>2
<1> QED BY <1>1, <1>4, <1>5, <1>6, OwnRowSteps DEF here, rows

-----------------------------------------------------------------------------
\* A handler's steps with the campaign.

\* A step that leaves the row and the artifacts.
LEMMA CampaignSteps ==
  ASSUME QualityInv, NEW u \in Users, NEW call, NEW ended, NEW campaign, NEW profiles, ListGrows(u, campaign),
         store' = [store EXCEPT !.campaign = campaign], world' = [files |-> world.files, profiles |-> profiles],
         calls' = [calls EXCEPT ![u] = call], history' = [history EXCEPT ![u] = ended],
         call.at = "append" => HasRead(call.read, campaign),
         Handler(u, call, store.rows[u], ended, Here(u, world.files), RowsOf(u, store.artifacts),
                 u \in Runs!Range(campaign.runs))
  PROVE  QualityInv'
<1>1. /\ store = [campaign |-> store.campaign, rows |-> store.rows, artifacts |-> store.artifacts]
      /\ [store.rows EXCEPT ![u] = store.rows[u]] = store.rows
  BY BeforeAStep
<1>2. store' = [campaign |-> campaign, rows |-> [store.rows EXCEPT ![u] = store.rows[u]], artifacts |-> store.artifacts]
  BY <1>1
<1>3. OwnOnly(u, world.files, store.artifacts)
  BY BeforeAStep DEF OwnOnly
<1> QED BY <1>2, <1>3, HandlerSteps

\* The run that is listed is answered; one whose listing failed is tried again or taken back.
LEMMA ListedReturns ==
  ASSUME NEW u, NEW c, NEW row, NEW here, NEW rows, NEW listed, Lists(u, c, row, here, rows, listed)
  PROVE  LET answer == Runs!Answer(u, c.run)
         IN \A end : end = [at |-> "returned"] => Handler(u, end, row, answer, here, rows, TRUE) /\ end.at = "returned"
<1> DEFINE answer == Runs!Answer(u, c.run)
<1>1. answer \in {"ok", "failed", "unavailable"}
  BY DEF Runs!Answer
<1>2. Row(row) /\ row.run = c.run /\ Reported(u, c.run) /\ Holds(u, c.run, here, rows)
  BY DEF Lists
<1>3. Returned(u, row, answer, here, rows, TRUE)
  BY <1>1, <1>2 DEF Returned
<1> HIDE DEF answer
<1>4. ASSUME NEW end, end = [at |-> "returned"]
      PROVE  Handler(u, end, row, answer, here, rows, TRUE) /\ end.at = "returned"
  BY <1>3, <1>4 DEF Handler
<1> QED BY <1>4 DEF answer
LEMMA ListingsGoOn ==
  ASSUME NEW u, NEW c, NEW row, NEW here, NEW rows, NEW listed, Lists(u, c, row, here, rows, listed), NEW next
  PROVE  /\ LET load == [at |-> "load", run |-> c.run, tries |-> next]
            IN Handler(u, load, row, None, here, rows, TRUE) /\ Handler(u, load, row, None, here, rows, FALSE) /\ load.at = "load"
         /\ LET call == [at |-> "compensate", run |-> c.run, left |-> c.run.artifacts, failed |-> FALSE]
            IN /\ Handler(u, call, row, None, here, rows, TRUE) /\ Handler(u, call, row, None, here, rows, FALSE)
               /\ call.at = "compensate"
<1>1. Row(row) /\ row.run = c.run /\ Reported(u, c.run) /\ Holds(u, c.run, here, rows) /\ Over(u, c.run)
  BY DEF Lists, Reported
<1>2. ASSUME NEW load, load = [at |-> "load", run |-> c.run, tries |-> next], NEW l \in BOOLEAN
      PROVE  Handler(u, load, row, None, here, rows, l) /\ load.at = "load"
  <2>1. load.at = "load" /\ load.run = c.run /\ load.tries = next
    BY <1>2
  <2>2. Lists(u, load, row, here, rows, l)
    BY <1>1, <1>2, <2>1 DEF Lists
  <2> QED BY <2>1, <2>2 DEF Handler
<1>3. ASSUME NEW call, Compensates(u, call, row, here), call.at = "compensate", NEW l \in BOOLEAN
      PROVE  Handler(u, call, row, None, here, rows, l)
  BY <1>3 DEF Handler
<1>4. here \subseteq Runs!Range(c.run.artifacts)
  BY <1>1 DEF Holds
<1>5. LET call == [at |-> "compensate", run |-> c.run, left |-> c.run.artifacts, failed |-> FALSE]
      IN Compensates(u, call, row, here) /\ call.at = "compensate"
  BY <1>1, <1>4, CompensationsBegin, Zenon
<1>6. TRUE \in BOOLEAN /\ FALSE \in BOOLEAN
  OBVIOUS
<1> QED BY <1>2, <1>3, <1>5, <1>6, Zenon

LEMMA Loads ==
  ASSUME QualityConstants, QualityInv, NEW u \in Users, Runs!LoadCampaign(u)
  PROVE  QualityInv'
<1> DEFINE c == calls[u]
           here == Here(u, world.files)
           rows == RowsOf(u, store.artifacts)
           row == store.rows[u]
           listed == u \in Runs!Range(store.campaign.runs)
<1> HIDE DEF here, rows, row
<1>1. /\ store = [store EXCEPT !.campaign = store.campaign] /\ world = [files |-> world.files, profiles |-> world.profiles]
      /\ [history EXCEPT ![u] = history[u]] = history /\ CampaignIs(store.campaign) /\ ListGrows(u, store.campaign)
      /\ Lists(u, c, row, here, rows, Listed(u)) /\ history[u] = None
  <2>1. /\ store = [campaign |-> store.campaign, rows |-> store.rows, artifacts |-> store.artifacts]
        /\ Handler(u, c, row, history[u], here, rows, Listed(u)) /\ Listed(u) \in BOOLEAN
    BY BeforeAStep DEF here, rows, row
  <2>2. c.at = "load" /\ c.at # "returned" /\ c.at \in {"load", "append"}
    BY DEF Runs!LoadCampaign
  <2>3. Lists(u, c, row, here, rows, Listed(u)) /\ history[u] = None
    BY <2>1, <2>2, HandlerCases
  <2> QED BY <2>1, <2>3, BeforeAStep DEF ListGrows
<1>2. CASE listed
  <2> DEFINE end == [at |-> "returned"]
             answer == Runs!Answer(u, c.run)
  <2>1. store' = store /\ Runs!Return(u, answer)
    BY <1>2 DEF Runs!LoadCampaign
  <2>2. /\ calls' = [calls EXCEPT ![u] = end] /\ history' = [history EXCEPT ![u] = answer]
        /\ \E profiles : world' = [files |-> world.files, profiles |-> profiles]
    BY <2>1, Returns
  <2>3. Handler(u, end, row, answer, here, rows, TRUE) /\ end.at # "append"
    BY <1>1, ListedReturns, Zenon
  <2> HIDE DEF end, answer
  <2>4. Handler(u, end, row, answer, here, rows, listed)
    <3>1. listed = TRUE
      BY <1>2
    <3> QED BY <2>3, <3>1
  <2> QED BY <1>1, <2>1, <2>2, <2>3, <2>4, CampaignSteps DEF here, rows, row
<1>3. ASSUME NEW call, calls' = [calls EXCEPT ![u] = call], UNCHANGED <<store, world, history>>,
             Handler(u, call, row, None, here, rows, listed), call.at = "append" => HasRead(call.read, store.campaign)
      PROVE  QualityInv'
  <2>1. /\ store' = [store EXCEPT !.campaign = store.campaign] /\ world' = [files |-> world.files, profiles |-> world.profiles]
        /\ history' = [history EXCEPT ![u] = history[u]] /\ Handler(u, call, row, history[u], here, rows, listed)
    BY <1>1, <1>3
  <2> QED BY <1>1, <1>3, <2>1, CampaignSteps DEF here, rows, row
<1>4. CASE ~listed
  <2>1. CASE /\ calls' = [calls EXCEPT ![u] = [at |-> "append", run |-> c.run, tries |-> c.tries, read |-> store.campaign]]
             /\ UNCHANGED <<store, world, history>>
    <3> DEFINE call == [at |-> "append", run |-> c.run, tries |-> c.tries, read |-> store.campaign]
    <3>1. /\ call.at = "append" /\ call.run = c.run /\ call.read = store.campaign
          /\ call = [at |-> "append", run |-> call.run, tries |-> call.tries, read |-> call.read]
      OBVIOUS
    <3>2. calls' = [calls EXCEPT ![u] = call]
      BY <2>1
    <3> HIDE DEF call
    <3>3. Lists(u, call, row, here, rows, listed)
      BY <1>1, <1>4, <3>1 DEF Lists
    <3>4. HasRead(store.campaign, store.campaign)
      <4>1. store.campaign.revision \in Nat
        BY <1>1 DEF CampaignIs
      <4> QED BY <1>1, <4>1 DEF HasRead
    <3>5. Handler(u, call, row, None, here, rows, listed)
      BY <3>3 DEF Handler
    <3> QED BY <1>3, <2>1, <3>1, <3>2, <3>4, <3>5
  <2>2. CASE /\ calls' = [calls EXCEPT ![u] = [at |-> "compensate", run |-> c.run, left |-> c.run.artifacts, failed |-> FALSE]]
             /\ UNCHANGED <<store, world, history>>
    <3> DEFINE call == [at |-> "compensate", run |-> c.run, left |-> c.run.artifacts, failed |-> FALSE]
    <3>1. Handler(u, call, row, None, here, rows, FALSE) /\ call.at = "compensate"
      BY <1>1, ListingsGoOn, Zenon
    <3>2. calls' = [calls EXCEPT ![u] = call]
      BY <2>2
    <3> HIDE DEF call
    <3>3. Handler(u, call, row, None, here, rows, listed) /\ call.at # "append"
      <4>1. listed = FALSE
        BY <1>4
      <4> QED BY <3>1, <4>1
    <3> QED BY <1>3, <2>2, <3>2, <3>3
  <2>3. \/ /\ calls' = [calls EXCEPT ![u] = [at |-> "append", run |-> c.run, tries |-> c.tries, read |-> store.campaign]]
           /\ UNCHANGED <<store, world, history>>
        \/ /\ calls' = [calls EXCEPT ![u] = [at |-> "compensate", run |-> c.run, left |-> c.run.artifacts, failed |-> FALSE]]
           /\ UNCHANGED <<store, world, history>>
    BY <1>4 DEF Runs!LoadCampaign, Runs!To
  <2> QED BY <2>1, <2>2, <2>3
<1> QED BY <1>2, <1>4

LEMMA Appends ==
  ASSUME QualityConstants, QualityInv, NEW u \in Users, Runs!AppendRun(u)
  PROVE  QualityInv'
<1> DEFINE c == calls[u]
           here == Here(u, world.files)
           rows == RowsOf(u, store.artifacts)
           row == store.rows[u]
           taken == store.campaign.revision = c.read.revision
           more == [revision |-> c.read.revision + 1, runs |-> Append(c.read.runs, u)]
           answer == Runs!Answer(u, c.run)
           load == [at |-> "load", run |-> c.run, tries |-> c.tries + 1]
           back == [at |-> "compensate", run |-> c.run, left |-> c.run.artifacts, failed |-> FALSE]
<1>1. PICK reply \in Runs!Replies :
        /\ store' = IF taken /\ reply # "failed" THEN [store EXCEPT !.campaign = more] ELSE store
        /\ \/ taken /\ reply = "done" /\ Runs!Return(u, answer)
           \/ /\ ~(taken /\ reply = "done") /\ UNCHANGED <<world, history>>
              /\ calls' = [calls EXCEPT ![u] = load] \/ calls' = [calls EXCEPT ![u] = back]
  BY DEF Runs!AppendRun, Runs!To
<1> HIDE DEF here, rows, row
<1>2. /\ store = [store EXCEPT !.campaign = store.campaign] /\ world = [files |-> world.files, profiles |-> world.profiles]
      /\ [history EXCEPT ![u] = history[u]] = history /\ CampaignIs(store.campaign) /\ ListGrows(u, store.campaign)
      /\ Lists(u, c, row, here, rows, Listed(u)) /\ history[u] = None /\ HasRead(c.read, store.campaign)
      /\ u \notin Runs!Range(store.campaign.runs)
  <2>1. /\ store = [campaign |-> store.campaign, rows |-> store.rows, artifacts |-> store.artifacts]
        /\ Handler(u, c, row, history[u], here, rows, Listed(u)) /\ Listed(u) \in BOOLEAN
    BY BeforeAStep DEF here, rows, row
  <2>2. c.at = "append" /\ c.at # "returned" /\ c.at \in {"load", "append"}
    BY DEF Runs!AppendRun
  <2>3. Lists(u, c, row, here, rows, Listed(u)) /\ history[u] = None
    BY <2>1, <2>2, HandlerCases
  <2>4. ~Listed(u)
    BY <2>2, <2>3 DEF Lists
  <2> QED BY <2>1, <2>2, <2>3, <2>4, BeforeAStep DEF ListGrows, Listed
<1>3. taken => more = [revision |-> store.campaign.revision + 1, runs |-> Append(store.campaign.runs, u)]
  BY <1>2 DEF HasRead
<1>4. taken => ListGrows(u, more) /\ u \in Runs!Range(more.runs)
  <2> SUFFICES ASSUME taken
               PROVE  ListGrows(u, more) /\ u \in Runs!Range(more.runs)
    OBVIOUS
  <2> DEFINE runs == store.campaign.runs
             n == Len(store.campaign.runs) + 1
             longer == Append(store.campaign.runs, u)
  <2>1. /\ runs \in Seq(Users) /\ store.campaign.revision = n /\ n \in Nat /\ u \notin Runs!Range(runs)
        /\ \A i, j \in DOMAIN runs : runs[i] = runs[j] => i = j
    BY <1>2 DEF CampaignIs
  <2>2. /\ longer \in Seq(Users) /\ Len(longer) = n
        /\ Runs!Range(longer) = Runs!Range(runs) \cup {u}
        /\ \A i \in DOMAIN runs : longer[i] = runs[i]
        /\ longer[n] = u /\ DOMAIN longer = DOMAIN runs \cup {n}
    BY <2>1, AppendedRuns
  <2>3. more = [revision |-> n + 1, runs |-> longer] /\ more.revision = n + 1 /\ more.runs = longer
        /\ more = [revision |-> more.revision, runs |-> more.runs]
    BY <1>3, <2>1
  <2> HIDE DEF more, longer, runs, n
  <2>4. \A i \in DOMAIN runs : runs[i] # u
    BY <2>1 DEF Runs!Range
  <2>5. \A i, j \in DOMAIN longer : longer[i] = longer[j] => i = j
    BY <2>1, <2>2, <2>4
  <2>6. CampaignIs(more)
    BY <2>2, <2>3, <2>5 DEF CampaignIs
  <2>7. Runs!Range(more.runs) = Runs!Range(store.campaign.runs) \cup {u}
    BY <2>2, <2>3 DEF runs
  <2>8. more.revision > store.campaign.revision
    BY <2>1, <2>3
  <2> QED BY <2>6, <2>7, <2>8 DEF ListGrows
<1>5. PICK campaign :
        /\ store' = [store EXCEPT !.campaign = campaign] /\ ListGrows(u, campaign)
        /\ taken /\ reply = "done" => u \in Runs!Range(campaign.runs)
  <2>1. CASE taken /\ reply # "failed"
    BY <1>1, <1>4, <2>1
  <2>2. CASE ~(taken /\ reply # "failed")
    <3>1. "done" # "failed"
      OBVIOUS
    <3> QED BY <1>1, <1>2, <2>2, <3>1
  <2> QED BY <2>1, <2>2
<1> DEFINE listed == u \in Runs!Range(campaign.runs)
<1> HIDE DEF more
<1>6. CASE taken /\ reply = "done" /\ Runs!Return(u, answer)
  <2> DEFINE end == [at |-> "returned"]
  <2>1. /\ calls' = [calls EXCEPT ![u] = end] /\ history' = [history EXCEPT ![u] = answer]
        /\ \E profiles : world' = [files |-> world.files, profiles |-> profiles]
    BY <1>6, Returns
  <2>2. Handler(u, end, row, answer, here, rows, TRUE) /\ end.at # "append"
    BY <1>2, ListedReturns, Zenon
  <2> HIDE DEF end, answer
  <2>3. Handler(u, end, row, answer, here, rows, listed)
    <3>1. listed = TRUE
      BY <1>5, <1>6
    <3> QED BY <2>2, <3>1
  <2> QED BY <1>5, <2>1, <2>2, <2>3, CampaignSteps DEF here, rows, row
<1>7. ASSUME UNCHANGED <<world, history>>, NEW call, calls' = [calls EXCEPT ![u] = call], call.at # "append",
             Handler(u, call, row, None, here, rows, TRUE), Handler(u, call, row, None, here, rows, FALSE)
      PROVE  QualityInv'
  <2>1. world' = [files |-> world.files, profiles |-> world.profiles] /\ history' = [history EXCEPT ![u] = history[u]]
    BY <1>2, <1>7
  <2>2. Handler(u, call, row, history[u], here, rows, listed)
    <3>1. CASE listed
      <4>1. listed = TRUE
        BY <3>1
      <4> QED BY <1>2, <1>7, <4>1
    <3>2. CASE ~listed
      <4>1. listed = FALSE
        BY <3>2
      <4> QED BY <1>2, <1>7, <4>1
    <3> QED BY <3>1, <3>2
  <2> QED BY <1>5, <1>7, <2>1, <2>2, CampaignSteps DEF here, rows, row
<1>8. /\ Handler(u, load, row, None, here, rows, TRUE) /\ Handler(u, load, row, None, here, rows, FALSE) /\ load.at # "append"
      /\ Handler(u, back, row, None, here, rows, TRUE) /\ Handler(u, back, row, None, here, rows, FALSE) /\ back.at # "append"
  <2>1. \A next : /\ LET going == [at |-> "load", run |-> c.run, tries |-> next]
                     IN /\ Handler(u, going, row, None, here, rows, TRUE) /\ Handler(u, going, row, None, here, rows, FALSE)
                        /\ going.at = "load"
                  /\ Handler(u, back, row, None, here, rows, TRUE) /\ Handler(u, back, row, None, here, rows, FALSE)
                  /\ back.at = "compensate"
    BY <1>2, ListingsGoOn, Zenon
  <2>2. "load" # "append" /\ "compensate" # "append"
    OBVIOUS
  <2> QED BY <2>1, <2>2, Zenon
<1> HIDE DEF load, back, taken, answer
<1> QED BY <1>1, <1>6, <1>7, <1>8

-----------------------------------------------------------------------------
\* A handler's steps that take a run back.

\* Of an artifact that is deleted no file is left; without that the run keeps its names.
LEMMA CompensationsGoOn ==
  ASSUME NEW u, NEW c, NEW row, NEW here, NEW after, Compensates(u, c, row, here), c.left # <<>>,
         NEW failed \in BOOLEAN, c.failed => failed, after \subseteq here, ~failed => Head(c.left) \notin after
  PROVE  LET call == [c EXCEPT !.left = Tail(@), !.failed = failed]
         IN Compensates(u, call, row, after) /\ call.at = "compensate"
<1> DEFINE rest == [c EXCEPT !.left = Tail(c.left)]
           call == [rest EXCEPT !.failed = failed]
<1>1. /\ c = [at |-> "compensate", run |-> c.run, left |-> c.left, failed |-> c.failed]
      /\ Over(u, c.run) /\ c.failed \in BOOLEAN
      /\ c.left \in ArtifactLists(u) /\ Runs!Range(c.left) \subseteq Runs!Range(c.run.artifacts)
      /\ here \subseteq Runs!Range(c.run.artifacts) /\ (~c.failed => here \subseteq Runs!Range(c.left))
      /\ Before(u, row) \/ (Row(row) /\ row.run = c.run /\ Reported(u, c.run))
  BY DEF Compensates
<1>2. Tail(c.left) \in ArtifactLists(u) /\ Runs!Range(Tail(c.left)) = Runs!Range(c.left) \ {Head(c.left)}
  BY <1>1, HeadsOfLists
<1>3. rest = [at |-> "compensate", run |-> c.run, left |-> Tail(c.left), failed |-> c.failed]
  <2>1. c = [at |-> "compensate", run |-> c.run, left |-> c.left, failed |-> c.failed]
    BY <1>1
  <2>2. \A left : [c EXCEPT !.left = left] = [at |-> "compensate", run |-> c.run, left |-> left, failed |-> c.failed]
    BY <2>1
  <2> QED BY <2>2
<1>4. [c EXCEPT !.left = Tail(@), !.failed = failed] = call
  OBVIOUS
<1>5. call = [at |-> "compensate", run |-> c.run, left |-> Tail(c.left), failed |-> failed]
  <2> HIDE DEF rest
  <2>1. \A b : [rest EXCEPT !.failed = b] = [at |-> "compensate", run |-> c.run, left |-> Tail(c.left), failed |-> b]
    BY <1>3
  <2> QED BY <2>1, Zenon
<1> HIDE DEF call
<1>6. /\ call.at = "compensate" /\ call.run = c.run /\ call.left = Tail(c.left) /\ call.failed \in BOOLEAN
      /\ call = [at |-> "compensate", run |-> call.run, left |-> call.left, failed |-> call.failed]
      /\ call.failed = failed
  BY <1>5
<1>7. after \subseteq Runs!Range(c.run.artifacts) /\ (~failed => after \subseteq Runs!Range(Tail(c.left)))
  BY <1>1, <1>2
<1>8. Runs!Range(Tail(c.left)) \subseteq Runs!Range(c.run.artifacts)
  BY <1>1, <1>2
<1>9. Compensates(u, call, row, after)
  BY <1>1, <1>2, <1>6, <1>7, <1>8 DEF Compensates
<1> QED BY <1>4, <1>6, <1>9

LEMMA Deletes ==
  ASSUME QualityConstants, QualityInv, NEW u \in Users, Runs!DeleteOne(u)
  PROVE  QualityInv'
<1> DEFINE c == calls[u]
           a == Head(c.left)
           here == Here(u, world.files)
           rows == RowsOf(u, store.artifacts)
           row == store.rows[u]
           call(failed) == [c EXCEPT !.left = Tail(@), !.failed = failed]
<1> HIDE DEF here, rows, row
<1>1. /\ store = [store EXCEPT !.artifacts = store.artifacts] /\ world = [world EXCEPT !.files = world.files]
      /\ Compensates(u, c, row, here) /\ c.left # <<>> /\ history[u] = None /\ c.failed \in BOOLEAN
  <2>1. /\ store = [campaign |-> store.campaign, rows |-> store.rows, artifacts |-> store.artifacts]
        /\ world = [files |-> world.files, profiles |-> world.profiles]
        /\ Handler(u, c, row, history[u], here, rows, Listed(u)) /\ Listed(u) \in BOOLEAN
    BY BeforeAStep DEF here, rows, row
  <2>2. c.at = "compensate" /\ c.at # "returned" /\ c.left # <<>>
    BY DEF Runs!DeleteOne
  <2>3. Compensates(u, c, row, here) /\ history[u] = None
    BY <2>1, <2>2, HandlerCases
  <2> QED BY <2>1, <2>2, <2>3 DEF Compensates
<1>2. a \in Own(u)
  BY <1>1, HeadsOfLists DEF Compensates
<1>3. ASSUME NEW failed \in BOOLEAN, c.failed => failed, calls' = [calls EXCEPT ![u] = call(failed)], history' = history,
             NEW files, NEW artifacts, store' = [store EXCEPT !.artifacts = artifacts], world' = [world EXCEPT !.files = files],
             OwnOnly(u, files, artifacts), Here(u, files) \subseteq here, ~failed => a \notin Here(u, files)
      PROVE  QualityInv'
  <2>1. Compensates(u, call(failed), row, Here(u, files)) /\ call(failed).at = "compensate"
    <3>1. Compensates(u, c, row, here) /\ c.left # <<>> /\ (~failed => Head(c.left) \notin Here(u, files))
      BY <1>1, <1>3
    <3> QED BY <1>3, <3>1, CompensationsGoOn, ZenonT(30)
  <2> HIDE DEF call
  <2>2. Handler(u, call(failed), row, history[u], Here(u, files), RowsOf(u, artifacts), Listed(u))
    BY <1>1, <2>1 DEF Handler
  <2>3. call(failed).at # "append"
    BY <2>1
  <2> QED BY <1>3, <2>2, <2>3, EvidenceSteps DEF row
<1>4. /\ OwnOnly(u, world.files, store.artifacts) /\ OwnOnly(u, world.files \ {a}, store.artifacts)
      /\ OwnOnly(u, world.files \ {a}, WithRow(a, "deleted"))
      /\ Here(u, world.files \ {a}) = here \ {a}
  BY <1>2, OwnChanges, OwnRows DEF here
<1>5. history' = history
  BY DEF Runs!DeleteOne
<1> HIDE DEF call
<1>6. ASSUME UNCHANGED <<store, world>>, calls' = [calls EXCEPT ![u] = call(TRUE)]
      PROVE  QualityInv'
  <2>1. store' = [store EXCEPT !.artifacts = store.artifacts] /\ world' = [world EXCEPT !.files = world.files]
    BY <1>1, <1>6
  <2>2. TRUE \in BOOLEAN /\ (c.failed => TRUE) /\ (~TRUE => a \notin Here(u, world.files)) /\ Here(u, world.files) \subseteq here
    BY DEF here
  <2> QED BY <1>3, <1>4, <1>5, <1>6, <2>1, <2>2, Zenon
<1>7. ASSUME UNCHANGED <<store, world>>, calls' = [calls EXCEPT ![u] = call(c.failed)], store.artifacts[a] = "deleted"
      PROVE  QualityInv'
  <2>1. store' = [store EXCEPT !.artifacts = store.artifacts] /\ world' = [world EXCEPT !.files = world.files]
    BY <1>1, <1>7
  <2>2. a \notin world.files
    BY <1>7, BeforeAStep
  <2>3. a \notin Here(u, world.files) /\ Here(u, world.files) \subseteq here
    BY <2>2 DEF here, Here
  <2> QED BY <1>1, <1>3, <1>4, <1>5, <1>7, <2>1, <2>3
<1>8. ASSUME NEW failed \in BOOLEAN, c.failed => failed, calls' = [calls EXCEPT ![u] = call(failed)],
             world' = [world EXCEPT !.files = @ \ {a}],
             store' = store \/ store' = [store EXCEPT !.artifacts[a] = "deleted"]
      PROVE  QualityInv'
  <2>1. \/ store' = [store EXCEPT !.artifacts = store.artifacts]
        \/ store' = [store EXCEPT !.artifacts = WithRow(a, "deleted")]
    BY <1>1, <1>8 DEF WithRow
  <2>2. Here(u, world.files \ {a}) \subseteq here /\ a \notin Here(u, world.files \ {a})
    BY <1>4
  <2>3. world' = [world EXCEPT !.files = world.files \ {a}]
    BY <1>8
  <2> QED BY <1>3, <1>4, <1>5, <1>8, <2>1, <2>2, <2>3
<1>9. \/ UNCHANGED <<store, world>> /\ calls' = [calls EXCEPT ![u] = call(c.failed \/ ~FALSE)]
      \/ /\ UNCHANGED <<store, world>> /\ calls' = [calls EXCEPT ![u] = call(c.failed \/ ~TRUE)]
         /\ store.artifacts[a] = "deleted"
      \/ \E reply \in Runs!Replies :
           /\ calls' = [calls EXCEPT ![u] = call(c.failed \/ ~(reply = "done"))]
           /\ world' = [world EXCEPT !.files = @ \ {a}]
           /\ store' = IF reply = "failed" THEN store ELSE [store EXCEPT !.artifacts[a] = "deleted"]
  BY DEF Runs!DeleteOne, Runs!To, call
<1>10. (c.failed \/ ~FALSE) = TRUE /\ (c.failed \/ ~TRUE) = c.failed
  BY <1>1
<1>11. CASE UNCHANGED <<store, world>> /\ calls' = [calls EXCEPT ![u] = call(c.failed \/ ~FALSE)]
  BY <1>6, <1>10, <1>11, Zenon
<1>12. CASE /\ UNCHANGED <<store, world>> /\ calls' = [calls EXCEPT ![u] = call(c.failed \/ ~TRUE)]
            /\ store.artifacts[a] = "deleted"
  BY <1>7, <1>10, <1>12, Zenon
<1>13. ASSUME NEW reply \in Runs!Replies, calls' = [calls EXCEPT ![u] = call(c.failed \/ ~(reply = "done"))],
              world' = [world EXCEPT !.files = @ \ {a}],
              store' = IF reply = "failed" THEN store ELSE [store EXCEPT !.artifacts[a] = "deleted"]
       PROVE  QualityInv'
  <2> DEFINE failed == c.failed \/ ~(reply = "done")
  <2>1. failed \in BOOLEAN /\ (c.failed => failed)
    BY <1>1
  <2>2. store' = store \/ store' = [store EXCEPT !.artifacts[a] = "deleted"]
    BY <1>13
  <2>3. calls' = [calls EXCEPT ![u] = call(failed)] /\ world' = [world EXCEPT !.files = @ \ {a}]
    BY <1>13
  <2> HIDE DEF failed
  <2> QED BY <1>8, <2>1, <2>2, <2>3, Zenon
<1> QED BY <1>9, <1>11, <1>12, <1>13

\* A row that is there is no missing one.
LEMMA RowsAreThere ==
  ASSUME QualityConstants, NEW row, Row(row)
  PROVE  row # None
BY DEF QualityConstants, Row

LEMMA Forgives ==
  ASSUME QualityConstants, QualityInv, NEW u \in Users, Runs!Forgive(u)
  PROVE  QualityInv'
<1> DEFINE c == calls[u]
           here == Here(u, world.files)
           rows == RowsOf(u, store.artifacts)
           row == store.rows[u]
           run == Runs!Compensated(c.run, c.failed)
           call == [at |-> "settle", run |-> run, tries |-> 0]
<1> HIDE DEF here, rows, row
<1>1. /\ calls' = [calls EXCEPT ![u] = call] /\ UNCHANGED <<store, world, history>>
      /\ c.at = "compensate" /\ c.left = <<>>
  BY DEF Runs!Forgive, Runs!To
<1>2. /\ store = [campaign |-> store.campaign, rows |-> store.rows, artifacts |-> store.artifacts]
      /\ world = [files |-> world.files, profiles |-> world.profiles]
      /\ [store.rows EXCEPT ![u] = row] = store.rows /\ [history EXCEPT ![u] = history[u]] = history
      /\ Handler(u, c, row, history[u], here, rows, Listed(u)) /\ Listed(u) \in BOOLEAN
  BY BeforeAStep DEF here, rows, row
<1>3. Compensates(u, c, row, here) /\ history[u] = None
  <2>1. "compensate" # "returned"
    OBVIOUS
  <2> QED BY <1>1, <1>2, <2>1, HandlerCases
<1>4. /\ Over(u, c.run) /\ c.failed \in BOOLEAN /\ here \subseteq Runs!Range(c.run.artifacts)
      /\ (~c.failed => here \subseteq Runs!Range(<<>>))
      /\ Before(u, row) \/ (Row(row) /\ row.run = c.run /\ Reported(u, c.run))
  BY <1>1, <1>3 DEF Compensates
<1>5. TakenBack(u, run, here)
  <2>1. ~c.failed => here = {}
    BY <1>4, ShortLists
  <2> QED BY <1>4, <2>1, CompensatedRuns
<1>6. RowIsSafe(u, row, here) /\ row # None
  <2>1. Row(row)
    BY <1>4 DEF Before
  <2> QED BY <1>4, <2>1, RowsAreThere DEF RowIsSafe
<1> HIDE DEF run
<1>7. call.at = "settle" /\ call.run = run /\ call = [at |-> "settle", run |-> call.run, tries |-> call.tries]
  OBVIOUS
<1> HIDE DEF call
<1>8. Settles(u, call, row, here)
  BY <1>5, <1>6, <1>7 DEF Settles
<1>9. Handler(u, call, row, history[u], here, rows, Listed(u)) /\ call.at # "append"
  BY <1>3, <1>7, <1>8 DEF Handler
<1>10. /\ store' = [campaign |-> store.campaign, rows |-> [store.rows EXCEPT ![u] = row], artifacts |-> store.artifacts]
       /\ world' = [files |-> world.files, profiles |-> world.profiles] /\ history' = [history EXCEPT ![u] = history[u]]
  BY <1>1, <1>2
<1> QED BY <1>1, <1>9, <1>10, OwnRowSteps DEF here, rows

LEMMA SettlesRuns ==
  ASSUME QualityConstants, QualityInv, NEW u \in Users, Runs!Settle(u)
  PROVE  QualityInv'
<1> DEFINE c == calls[u]
           here == Here(u, world.files)
           rows == RowsOf(u, store.artifacts)
           again == [c EXCEPT !.tries = @ + 1]
           end == [at |-> "returned"]
<1> HIDE DEF here, rows
<1>1. PICK reply \in Runs!Replies :
        /\ Runs!SaveRow(u, c.run, reply)
        /\ \/ reply = "done" /\ Runs!Return(u, "error")
           \/ reply # "done" /\ Runs!Return(u, "unsettled")
           \/ calls' = [calls EXCEPT ![u] = again] /\ UNCHANGED <<world, history>>
  BY DEF Runs!Settle, Runs!To
<1>2. /\ world = [files |-> world.files, profiles |-> world.profiles] /\ [history EXCEPT ![u] = history[u]] = history
      /\ Handler(u, c, store.rows[u], history[u], here, rows, Listed(u)) /\ Listed(u) \in BOOLEAN
  BY BeforeAStep DEF here, rows
<1>3. Settles(u, c, store.rows[u], here) /\ history[u] = None
  <2>1. c.at = "settle" /\ "settle" # "returned"
    BY DEF Runs!Settle
  <2> QED BY <1>2, <2>1, HandlerCases
<1>4. /\ c = [at |-> "settle", run |-> c.run, tries |-> c.tries] /\ TakenBack(u, c.run, here)
      /\ RowIsSafe(u, store.rows[u], here) /\ store.rows[u] # None
  BY <1>3 DEF Settles
<1>5. PICK row :
        /\ store' = [campaign |-> store.campaign, rows |-> [store.rows EXCEPT ![u] = row], artifacts |-> store.artifacts]
        /\ reply = "failed" => row = store.rows[u]
        /\ reply # "failed" => Row(row) /\ row.run = c.run /\ row # None
  BY <1>1, SavedRows
<1>6. RowIsSafe(u, row, here) /\ row # None
  BY <1>4, <1>5 DEF RowIsSafe
<1>7. CASE reply = "done" /\ Runs!Return(u, "error")
  <2>1. /\ calls' = [calls EXCEPT ![u] = end] /\ history' = [history EXCEPT ![u] = "error"]
        /\ \E profiles : world' = [files |-> world.files, profiles |-> profiles]
    BY <1>7, Returns
  <2>2. end.at = "returned"
    OBVIOUS
  <2>3. Row(row) /\ TakenBack(u, row.run, here)
    BY <1>4, <1>5, <1>7
  <2>4. Handler(u, end, row, "error", here, rows, Listed(u))
    BY <2>3 DEF Handler, Returned
  <2> HIDE DEF end
  <2> QED BY <1>5, <2>1, <2>2, <2>4, OwnRowSteps DEF here, rows
<1>8. CASE reply # "done" /\ Runs!Return(u, "unsettled")
  <2>1. /\ calls' = [calls EXCEPT ![u] = end] /\ history' = [history EXCEPT ![u] = "unsettled"]
        /\ \E profiles : world' = [files |-> world.files, profiles |-> profiles]
    BY <1>8, Returns
  <2>2. end.at = "returned"
    OBVIOUS
  <2>3. Handler(u, end, row, "unsettled", here, rows, Listed(u))
    BY <1>6 DEF Handler, Returned
  <2> HIDE DEF end
  <2> QED BY <1>5, <2>1, <2>2, <2>3, OwnRowSteps DEF here, rows
<1>9. CASE calls' = [calls EXCEPT ![u] = again] /\ UNCHANGED <<world, history>>
  <2>1. again = [at |-> "settle", run |-> c.run, tries |-> c.tries + 1]
    BY <1>4
  <2> HIDE DEF again
  <2>2. again.at = "settle" /\ again.run = c.run /\ again = [at |-> "settle", run |-> again.run, tries |-> again.tries]
    BY <2>1
  <2>3. Settles(u, again, row, here)
    BY <1>4, <1>6, <2>2 DEF Settles
  <2>4. Handler(u, again, row, history[u], here, rows, Listed(u)) /\ again.at # "append"
    BY <1>3, <2>2, <2>3 DEF Handler
  <2>5. world' = [files |-> world.files, profiles |-> world.profiles] /\ history' = [history EXCEPT ![u] = history[u]]
    BY <1>2, <1>9
  <2> QED BY <1>5, <1>9, <2>4, <2>5, OwnRowSteps DEF here, rows
<1> QED BY <1>1, <1>7, <1>8, <1>9

-----------------------------------------------------------------------------
\* Steps that are no handler's.

\* A row that is looked at stays live, and one that is missing stays so.
LEMMA PinnedRows ==
  ASSUME NEW u, NEW c, NEW row, NEW h, NEW here, NEW rows, NEW after, NEW listed, DOMAIN rows = Own(u), DOMAIN after = Own(u),
         Handler(u, c, row, h, here, rows, listed), here \subseteq Own(u),
         \A a \in Own(u) : (rows[a] = "none" => after[a] = "none") /\ (rows[a] \in InUse => after[a] \in InUse)
  PROVE  Handler(u, c, row, h, here, after, listed)
<1>1. Runs!Profile(u) \in Own(u) /\ Runs!Report(u) \in Own(u)
  BY DEF Own
<1>2. ASSUME NEW run, NEW some, some \subseteq here, Holds(u, run, some, rows)
      PROVE  Holds(u, run, some, after)
  BY <1>2 DEF Holds
<1>3. ASSUME NEW d, NEW some, some \subseteq here, WritesEvidence(u, d, some, rows)
      PROVE  WritesEvidence(u, d, some, after)
  BY <1>1, <1>2, <1>3 DEF WritesEvidence
<1>4. here \subseteq here /\ here \ {c.artifact} \subseteq here
  OBVIOUS
<1>5. Inserts(u, c, here, rows) => Inserts(u, c, here, after)
  BY <1>3, <1>4 DEF Inserts
<1>6. Lists(u, c, row, here, rows, listed) => Lists(u, c, row, here, after, listed)
  BY <1>2, <1>4 DEF Lists
<1>7. Returned(u, row, h, here, rows, listed) => Returned(u, row, h, here, after, listed)
  BY <1>2, <1>4 DEF Returned
<1>8. (\A a \in DOMAIN rows : rows[a] = "none") => (\A a \in DOMAIN after : after[a] = "none")
  OBVIOUS
<1>9. /\ Holds(u, c.run, here, rows) => Holds(u, c.run, here, after)
      /\ WritesEvidence(u, c, here, rows) => WritesEvidence(u, c, here, after)
  BY <1>2, <1>3, <1>4
<1> QED BY <1>5, <1>6, <1>7, <1>8, <1>9 DEF Handler

LEMMA Pins ==
  ASSUME QualityConstants, QualityInv, NEW a \in Runs!Artifacts, Runs!Pin(a)
  PROVE  QualityInv'
<1>1. PICK u \in Users : a \in Own(u)
  BY DEF Runs!Artifacts, Own, Runs!Profile, Runs!Report
<1> DEFINE here == Here(u, world.files)
           rows == RowsOf(u, store.artifacts)
           after == RowsOf(u, WithRow(a, "pinned"))
<1>2. /\ store' = [store EXCEPT !.artifacts = WithRow(a, "pinned")] /\ UNCHANGED <<calls, world, history>>
      /\ store.artifacts[a] = "active"
  BY DEF Runs!Pin, WithRow
<1>3. /\ store = [campaign |-> store.campaign, rows |-> store.rows, artifacts |-> store.artifacts]
      /\ world = [files |-> world.files, profiles |-> world.profiles]
      /\ [store.rows EXCEPT ![u] = store.rows[u]] = store.rows /\ [history EXCEPT ![u] = history[u]] = history
      /\ Handler(u, calls[u], store.rows[u], history[u], here, rows, u \in Runs!Range(store.campaign.runs))
      /\ calls[u].at = "append" => HasRead(calls[u].read, store.campaign)
  BY BeforeAStep DEF Listed
<1>4. /\ OwnOnly(u, world.files, WithRow(a, "pinned")) /\ after[a] = "pinned"
      /\ \A b \in Own(u) \ {a} : after[b] = rows[b]
  <2>1. "pinned" # "deleted"
    OBVIOUS
  <2> QED BY <1>1, <2>1, OwnRows
<1>5. rows[a] = "active"
  BY <1>1, <1>2, OwnChanges
<1>6. DOMAIN rows = Own(u) /\ DOMAIN after = Own(u) /\ here \subseteq Own(u)
  BY DEF RowsOf, Here
<1> HIDE DEF here, rows, after
<1>7. \A b \in Own(u) : (rows[b] = "none" => after[b] = "none") /\ (rows[b] \in InUse => after[b] \in InUse)
  BY <1>4, <1>5 DEF InUse
<1>8. Handler(u, calls[u], store.rows[u], history[u], here, after, u \in Runs!Range(store.campaign.runs))
  BY <1>3, <1>6, <1>7, PinnedRows
<1>9. calls' = [calls EXCEPT ![u] = calls[u]]
  <2>1. calls = [v \in Users |-> calls[v]]
    BY DEF QualityInv
  <2> QED BY <1>2, <2>1
<1>10. /\ store' = [campaign |-> store.campaign, rows |-> [store.rows EXCEPT ![u] = store.rows[u]], artifacts |-> WithRow(a, "pinned")]
       /\ world' = [files |-> world.files, profiles |-> world.profiles] /\ history' = [history EXCEPT ![u] = history[u]]
  BY <1>2, <1>3
<1>11. ListGrows(u, store.campaign)
  BY DEF ListGrows
<1> QED BY <1>3, <1>4, <1>8, <1>9, <1>10, <1>11, HandlerSteps DEF here, after

\* What a handler had stored when the process ended.
LEMMA CrashedHandlers ==
  ASSUME QualityConstants, NEW u, NEW c, NEW row, NEW h, NEW here, NEW rows, NEW listed \in BOOLEAN,
         Handler(u, c, row, h, here, rows, listed), c.at # "idle", c.at # "returned"
  PROVE  \A end : end = [at |-> "crashed"] => Handler(u, end, row, h, here, rows, listed) /\ end.at = "crashed"
<1>1. h = None /\ \/ c.at \in {"queued", "running", "profile", "report", "insert", "finish", "load", "append"}
                  \/ c.at \in {"compensate", "settle", "crashed"}
  BY DEF Handler, WritesEvidence, Inserts, Lists, Compensates, Settles
<1>2. RowIsSafe(u, row, here) /\ (listed => row # None)
  <2>1. CASE c.at \in {"queued", "running"}
    BY <2>1, HandlerCases DEF RowIsSafe
  <2>2. CASE c.at \in {"profile", "report"}
    BY <2>2, HandlerCases DEF RowIsSafe
  <2>3. CASE c.at = "insert"
    BY <2>3, HandlerCases DEF RowIsSafe
  <2>4. CASE c.at = "finish"
    BY <2>4, HandlerCases DEF RowIsSafe
  <2>5. CASE c.at \in {"load", "append"}
    <3>1. Row(row) /\ Reported(u, row.run)
      BY <2>5, HandlerCases DEF Lists
    <3> QED BY <3>1, RowsAreThere DEF RowIsSafe
  <2>6. CASE c.at = "compensate"
    <3>1. Before(u, row) \/ (Row(row) /\ Reported(u, row.run))
      BY <2>6, HandlerCases DEF Compensates
    <3>2. Row(row)
      BY <3>1 DEF Before
    <3> QED BY <3>1, <3>2, RowsAreThere DEF RowIsSafe
  <2>7. CASE c.at = "settle"
    BY <2>7, HandlerCases DEF Settles
  <2>8. CASE c.at = "crashed"
    BY <2>8, HandlerCases
  <2> QED BY <1>1, <2>1, <2>2, <2>3, <2>4, <2>5, <2>6, <2>7, <2>8
<1>3. ASSUME NEW end, end = [at |-> "crashed"]
      PROVE  Handler(u, end, row, h, here, rows, listed) /\ end.at = "crashed"
  BY <1>1, <1>2, <1>3 DEF Handler
<1> QED BY <1>3

LEMMA Crashes ==
  ASSUME QualityConstants, QualityInv, Runs!Crash
  PROVE  QualityInv'
<1> DEFINE end == [at |-> "crashed"]
<1>1. /\ UNCHANGED <<store, world, history>>
      /\ calls' = [u \in Users |-> IF calls[u].at \in {"idle", "returned"} THEN calls[u] ELSE end]
  BY DEF Runs!Crash
<1>2. end.at # "append"
  OBVIOUS
<1>3. ASSUME NEW u \in Users
      PROVE  HandlerOf(u)' /\ (calls'[u].at = "append" => HasRead(calls'[u].read, store'.campaign))
  <2> DEFINE here == Here(u, world.files)
             rows == RowsOf(u, store.artifacts)
             listed == u \in Runs!Range(store.campaign.runs)
  <2>1. Handler(u, calls[u], store.rows[u], history[u], here, rows, listed) /\ listed \in BOOLEAN
    BY BeforeAStep DEF Listed
  <2>2. Handler(u, calls'[u], store.rows[u], history[u], here, rows, listed) /\ calls'[u].at # "append"
    <3>1. CASE calls[u].at \in {"idle", "returned"}
      <4>1. calls'[u] = calls[u]
        BY <1>1, <3>1
      <4>2. calls'[u].at # "append"
        BY <3>1, <4>1
      <4> QED BY <2>1, <4>1, <4>2
    <3>2. CASE calls[u].at \notin {"idle", "returned"}
      <4>1. calls'[u] = end
        BY <1>1, <3>2
      <4>2. Handler(u, end, store.rows[u], history[u], here, rows, listed)
        <5>1. calls[u].at # "idle" /\ calls[u].at # "returned"
          BY <3>2
        <5>2. ASSUME NEW l \in BOOLEAN, Handler(u, calls[u], store.rows[u], history[u], here, rows, l)
              PROVE  \A e : e = [at |-> "crashed"] => Handler(u, e, store.rows[u], history[u], here, rows, l)
          BY <5>1, <5>2, CrashedHandlers
        <5> QED BY <2>1, <5>2, Zenon
      <4> HIDE DEF end
      <4> QED BY <1>2, <4>1, <4>2
    <3> QED BY <3>1, <3>2
  <2> QED BY <1>1, <2>2 DEF HandlerOf, Listed
<1>4. calls' = [u \in Users |-> calls'[u]]
  BY <1>1
<1> QED BY <1>1, <1>3, <1>4 DEF QualityInv

-----------------------------------------------------------------------------
(* What the registry chose.                                                  *)

\* Files whose only target was found.
LEMMA OneTarget ==
  ASSUME MaxTargets \in Nat, None \notin Texts,
         NEW files \in Seq([in : {"test", "source", "vendor", "link", "device"}, targets : Nat, broken : BOOLEAN]),
         Runs!TargetReason(files) = None
  PROVE  LET walked == {n \in DOMAIN files : files[n].in # "vendor"}
         IN /\ \A n \in walked : files[n].in \notin {"link", "device"}
            /\ Cardinality({n \in walked : files[n].in = "test" /\ files[n].targets # 0}) = 1
<1> DEFINE last == Len(files)
           term(n) == IF n \in Runs!Parsed(files) THEN files[n].targets ELSE 0
           terms == [n \in 1..last |-> term(n)]
           first(entries) == CHOOSE n \in entries : \A k \in entries : n <= k
           bad == {n \in Runs!Walked(files) : files[n].in \in {"link", "device"}}
           broken == {n \in Runs!Parsed(files) : files[n].broken \/ Runs!Total(files)[n] > MaxTargets}
           count == Runs!Total(files)[last]
           badly == IF files[first(bad)].in = "link"
                    THEN "worktree.go_source_symlink_rejected" ELSE "worktree.go_source_invalid"
           brokenly == IF files[first(broken)].broken
                       THEN "worktree.go_source_invalid" ELSE "worktree.go_source_bounds_exceeded"
<1>1. last \in Nat /\ DOMAIN files = 1..last
  OBVIOUS
<1>2. \A n \in 1..last :
        files[n] \in [in : {"test", "source", "vendor", "link", "device"}, targets : Nat, broken : BOOLEAN]
  <2> DEFINE R == [in : {"test", "source", "vendor", "link", "device"}, targets : Nat, broken : BOOLEAN]
  <2>1. files \in Seq(R)
    OBVIOUS
  <2> HIDE DEF R
  <2>2. \A n \in 1..last : files[n] \in R
    BY <2>1
  <2> QED BY <2>2 DEF R
<1>3. \A n \in 1..last : files[n].targets \in Nat
  BY <1>2
<1>4. Runs!TargetReason(files) =
        CASE bad # {} -> badly
          [] bad = {} /\ broken # {} -> brokenly
          [] OTHER -> CASE count = 0 -> "target.go_test_missing"
                        [] count = 1 -> None
                        [] OTHER -> "target.go_test_ambiguous"
  BY DEF Runs!TargetReason
<1>5. IsSum(Runs!Total(files), terms, last)
  <2>1. \A n \in 1..last : terms[n] \in Nat
    BY <1>3
  <2> HIDE DEF terms
  <2>2. \E sum : IsSum(sum, terms, last)
    BY <1>1, <2>1, SumsExist
  <2>3. ASSUME NEW sum
        PROVE  IsSum(sum, terms, last) <=>
                 sum = [n \in 0..Len(files) |-> IF n = 0 THEN 0 ELSE sum[n - 1] + term(n)]
    <3>1. \A n \in 0..last : n # 0 => terms[n] = term(n)
      BY <1>1 DEF terms
    <3>2. [n \in 0..last |-> IF n = 0 THEN 0 ELSE sum[n - 1] + terms[n]] =
          [n \in 0..last |-> IF n = 0 THEN 0 ELSE sum[n - 1] + term(n)]
      BY <3>1
    <3> QED BY <3>2 DEF IsSum
  <2>4. Runs!Total(files) =
          CHOOSE sum : sum = [n \in 0..Len(files) |-> IF n = 0 THEN 0 ELSE sum[n - 1] + term(n)]
    BY DEF Runs!Total
  <2> HIDE DEF term
  <2> QED BY <2>2, <2>3, <2>4
<1>6. badly # None /\ brokenly # None
  BY DEF Texts
<1> HIDE DEF count, bad, broken, first, badly, brokenly
<1>7. bad = {}
  BY <1>4, <1>6
<1>8. broken = {}
  BY <1>4, <1>6, <1>7
<1>9. None = CASE count = 0 -> "target.go_test_missing" [] count = 1 -> None [] OTHER -> "target.go_test_ambiguous"
  BY <1>4, <1>7, <1>8
<1>10. count = 1
  <2>1. None # "target.go_test_missing" /\ None # "target.go_test_ambiguous"
    BY DEF Texts
  <2>2. CASE count = 0
    BY <1>9, <2>1, <2>2
  <2>3. CASE count # 0 /\ count # 1
    BY <1>9, <2>1, <2>3
  <2> QED BY <2>2, <2>3
<1>11. PICK k \in 1..last : {n \in 1..last : terms[n] # 0} = {k}
  <2>1. \A n \in 1..last : terms[n] \in Nat
    BY <1>3
  <2>2. Runs!Total(files)[last] = 1
    BY <1>10 DEF count
  <2> HIDE DEF terms
  <2> QED BY <1>1, <1>5, <2>1, <2>2, SumsOfOne
<1>12. {n \in 1..last : terms[n] # 0} =
        {n \in {m \in DOMAIN files : files[m].in # "vendor"} : files[n].in = "test" /\ files[n].targets # 0}
  BY <1>1 DEF Runs!Parsed, Runs!Walked
<1>13. Cardinality({k}) = 1
  BY FS_Singleton
<1>14. \A n \in {m \in DOMAIN files : files[m].in # "vendor"} : files[n].in \notin {"link", "device"}
  BY <1>7 DEF bad, Runs!Walked
<1> QED BY <1>11, <1>12, <1>13, <1>14

\* A command is chosen only in a worktree that is as it should be.
LEMMA SelectedWorktrees ==
  ASSUME QualityConstants, NEW technique, NEW w \in Worktrees, Runs!Selection(technique, w) = None
  PROVE  /\ w.same /\ w.root /\ w.module = "module" /\ w.tool = "native"
         /\ technique = "property" => Runs!TargetReason(w.files) = None
<1> DEFINE module == CASE w.module = "missing" -> "worktree.go_mod_missing"
                       [] w.module = "invalid" -> "worktree.go_mod_invalid" [] OTHER -> None
           target == IF technique = "property" THEN Runs!TargetReason(w.files) ELSE None
           name == IF technique = "mutation" THEN "go_mutesting" ELSE "go"
           tool == Runs!ToolReason(w.tool, name)
           reasons == <<module, target, tool>>
<1>1. /\ None \notin Texts /\ \A x, y : None # <<x, y>>
      /\ w.same \in BOOLEAN /\ w.root \in BOOLEAN /\ w.module \in {"module", "missing", "invalid"}
      /\ w.tool \in {"native", "missing", "untrusted"}
  BY DEF QualityConstants
<1>2. Runs!Reasons(technique, w) = reasons
  BY DEF Runs!Reasons
<1> HIDE DEF module, target, tool, reasons
<1>3. w.same /\ w.root /\ Runs!FirstReason(reasons) = None
  <2>1. None # "worktree.revalidation_failed" /\ None # "runner.selection_unavailable"
    BY <1>1 DEF Texts
  <2>2. w.same
    BY <1>1, <2>1 DEF Runs!Selection
  <2>3. w.root /\ ~(technique = "go_test_coverage" /\ ~w.profile)
    BY <1>1, <2>1, <2>2 DEF Runs!Selection
  <2> QED BY <1>2, <2>2, <2>3 DEF Runs!Selection
<1>4. DOMAIN reasons = 1..3 /\ reasons[1] = module /\ reasons[2] = target /\ reasons[3] = tool
  BY DEF reasons
<1>5. \A n \in DOMAIN reasons : reasons[n] = None
  <2> SUFFICES ASSUME ~\A n \in DOMAIN reasons : reasons[n] = None
               PROVE  FALSE
    OBVIOUS
  <2> DEFINE T == {n \in 1..3 : reasons[n] # None}
             chosen == CHOOSE n \in DOMAIN reasons : reasons[n] # None /\ \A k \in 1..(n - 1) : reasons[k] = None
  <2>1. T # {} /\ T \subseteq Nat
    BY <1>4
  <2> HIDE DEF T
  <2>2. PICK n \in T : \A m \in T : n <= m
    BY <2>1, LeastNumber
  <2>3. n \in DOMAIN reasons /\ reasons[n] # None /\ \A k \in 1..(n - 1) : reasons[k] = None
    BY <1>4, <2>2 DEF T
  <2>4. chosen \in DOMAIN reasons /\ reasons[chosen] # None
    BY <2>3
  <2>5. Runs!FirstReason(reasons) = reasons[chosen]
    BY DEF Runs!FirstReason
  <2> QED BY <1>3, <2>4, <2>5
<1>6. module = None /\ target = None /\ tool = None
  <2>1. 1 \in 1..3 /\ 2 \in 1..3 /\ 3 \in 1..3
    OBVIOUS
  <2> QED BY <1>4, <1>5, <2>1
<1>7. w.module = "module"
  BY <1>1, <1>6 DEF module, Texts
<1>8. w.tool = "native"
  BY <1>1, <1>6 DEF tool, Runs!ToolReason
<1>9. technique = "property" => Runs!TargetReason(w.files) = None
  BY <1>6 DEF target
<1> QED BY <1>3, <1>7, <1>8, <1>9

-----------------------------------------------------------------------------
LEMMA QualityStarts ==
  ASSUME QualityConstants, Runs!QualityInit
  PROVE  QualityInv
<1>1. /\ store = [campaign |-> [revision |-> 1, runs |-> <<>>], rows |-> [u \in Users |-> None],
                  artifacts |-> [a \in Runs!Artifacts |-> "none"]]
      /\ calls = [u \in Users |-> [at |-> "idle"]] /\ world = [files |-> {}, profiles |-> {}]
      /\ history = [u \in Users |-> None]
  BY DEF Runs!QualityInit
<1>2. /\ store = [campaign |-> store.campaign, rows |-> store.rows, artifacts |-> store.artifacts]
      /\ store.campaign = [revision |-> 1, runs |-> <<>>] /\ store.rows = [u \in Users |-> None]
      /\ store.artifacts = [a \in Runs!Artifacts |-> "none"]
      /\ world = [files |-> world.files, profiles |-> world.profiles] /\ world.files = {}
  BY <1>1
<1>3. CampaignIs(store.campaign) /\ Runs!Range(store.campaign.runs) = {}
  <2>1. <<>> \in Seq(Users) /\ Len(<<>>) = 0 /\ DOMAIN <<>> = {}
    OBVIOUS
  <2>2. store.campaign.revision = 1 /\ store.campaign.runs = <<>>
    BY <1>2
  <2> QED BY <1>2, <2>1, <2>2 DEF CampaignIs, Runs!Range
<1>4. ASSUME NEW u \in Users
      PROVE  HandlerOf(u) /\ calls[u].at # "append"
  <2>1. calls[u] = [at |-> "idle"] /\ calls[u].at = "idle" /\ store.rows[u] = None /\ history[u] = None
    BY <1>1, <1>2
  <2>2. Here(u, world.files) = {} /\ ~Listed(u)
    BY <1>2, <1>3 DEF Here, Listed
  <2>3. Own(u) \subseteq Runs!Artifacts
    BY DEF Own, Runs!Artifacts, Runs!Profile, Runs!Report
  <2>4. \A a \in DOMAIN RowsOf(u, store.artifacts) : RowsOf(u, store.artifacts)[a] = "none"
    BY <1>2, <2>3 DEF RowsOf
  <2> QED BY <2>1, <2>2, <2>4 DEF HandlerOf, Handler
<1>5. /\ store.rows = [u \in Users |-> store.rows[u]] /\ store.artifacts = [a \in Runs!Artifacts |-> store.artifacts[a]]
      /\ calls = [u \in Users |-> calls[u]] /\ history = [u \in Users |-> history[u]]
  BY <1>1, <1>2
<1> QED BY <1>2, <1>3, <1>4, <1>5 DEF QualityInv

LEMMA QualityGoesOn ==
  ASSUME QualityConstants, QualityInv, [Runs!QualityNext]_vars
  PROVE  QualityInv'
<1>1. ASSUME NEW u \in Users, Runs!Handle(u)
      PROVE  QualityInv'
  BY <1>1, Requests, Begins, Executes, WritesOfFiles, InsertsOfRows, Finishes, Loads, Appends, Deletes, Forgives,
     SettlesRuns DEF Runs!Handle
<1>2. ASSUME NEW a \in Runs!Artifacts, Runs!Pin(a)
      PROVE  QualityInv'
  BY <1>2, Pins
<1>3. CASE Runs!Crash
  BY <1>3, Crashes
<1>4. CASE UNCHANGED vars
  BY <1>4 DEF vars, QualityInv, HandlerOf, Listed
<1> QED BY <1>1, <1>2, <1>3, <1>4 DEF Runs!QualityNext

LEMMA QualityIsInvariant ==
  ASSUME QualityConstants
  PROVE  QualitySpec => []QualityInv
<1>1. Runs!QualityInit => QualityInv
  BY QualityStarts
<1>2. QualityInv /\ [Runs!QualityNext]_vars => QualityInv'
  BY QualityGoesOn
<1> QED BY <1>1, <1>2, PTL DEF QualitySpec

-----------------------------------------------------------------------------
(* What follows for the rows, the campaign and the answers.                  *)

\* The sizes of sets in the module of the runs are those of the theorems on finite sets.
LEMMA RunsCount == \A T : Runs!Cardinality(T) = Cardinality(T)
BY DEF Runs!Cardinality, Cardinality

\* A row that is there is one of a run before the process, of one that is over
\* with its report, or of one that was taken back.
LEMMA RowsAreSafe ==
  ASSUME QualityInv, NEW u \in Users
  PROVE  RowIsSafe(u, store.rows[u], Here(u, world.files))
<1>1. HandlerOf(u)
  BY DEF QualityInv
<1> QED BY <1>1 DEF HandlerOf, Handler, Lists, Compensates, Settles, Returned, RowIsSafe

\* The evidence of a row whose artifacts are held.
LEMMA HeldIsEvidence ==
  ASSUME NEW u \in Users, Over(u, store.rows[u].run),
         Holds(u, store.rows[u].run, Here(u, world.files), RowsOf(u, store.artifacts))
  PROVE  Runs!Evidence(u)
<1>1. \A a \in Runs!Range(store.rows[u].run.artifacts) :
        a \in world.files /\ a \in Own(u) /\ RowsOf(u, store.artifacts)[a] \in InUse
  BY DEF Holds, Here
<1>2. \A a \in Own(u) : RowsOf(u, store.artifacts)[a] = store.artifacts[a]
  BY DEF RowsOf
<1> QED BY <1>1, <1>2 DEF Runs!Evidence, Runs!Row, InUse

\* A process is only ever started for a worktree that is still the one that was
\* reviewed, has a module and a trusted tool, and, for a property test, one target in
\* files that are all regular (runQualityWithPersistence, QualityRunnerRegistry.Select,
\* discoverQualityGoTargets).
THEOREM OnlyReviewedCommandsRunAlways ==
  ASSUME QualityConstants
  PROVE  QualitySpec => []Runs!OnlyReviewedCommandsRun
<1>1. ASSUME QualityInv
      PROVE  Runs!OnlyReviewedCommandsRun
  <2> SUFFICES ASSUME NEW u \in Users, Runs!Stored(u), Runs!Row(u).exit # None
               PROVE  LET w == Runs!Row(u).seen
                          inspected == {n \in DOMAIN w.files : w.files[n].in # "vendor"}
                      IN /\ w.same /\ w.root /\ w.module = "module" /\ w.tool = "native"
                         /\ TechniqueOf[u] = "property" =>
                              /\ \A n \in inspected : w.files[n].in \notin {"link", "device"}
                              /\ Runs!Cardinality({n \in inspected : w.files[n].in = "test" /\ w.files[n].targets # 0}) = 1
    BY DEF Runs!OnlyReviewedCommandsRun
  <2>1. Chosen(u, store.rows[u].run)
    BY <1>1, RowsAreSafe DEF RowIsSafe, Before, Unstarted, Reported, Over, TakenBack, Runs!Stored
  <2> DEFINE w == store.rows[u].run.seen
  <2>2. w \in Worktrees /\ Runs!Selection(TechniqueOf[u], w) = None
    BY <2>1 DEF Chosen, Runs!Row
  <2>3. Runs!Row(u).seen = w
    BY DEF Runs!Row
  <2> HIDE DEF w
  <2>4. /\ w.same /\ w.root /\ w.module = "module" /\ w.tool = "native"
        /\ TechniqueOf[u] = "property" => Runs!TargetReason(w.files) = None
    BY <2>2, SelectedWorktrees
  <2>5. /\ MaxTargets \in Nat /\ None \notin Texts
        /\ w.files \in Seq([in : {"test", "source", "vendor", "link", "device"}, targets : Nat, broken : BOOLEAN])
    BY <2>2 DEF QualityConstants
  <2>6. ASSUME TechniqueOf[u] = "property"
        PROVE  LET walked == {n \in DOMAIN w.files : w.files[n].in # "vendor"}
               IN /\ \A n \in walked : w.files[n].in \notin {"link", "device"}
                  /\ Cardinality({n \in walked : w.files[n].in = "test" /\ w.files[n].targets # 0}) = 1
    <3>1. Runs!TargetReason(w.files) = None
      BY <2>4, <2>6
    <3> QED BY <2>5, <3>1, OneTarget
  <2> QED BY <2>3, <2>4, <2>6, RunsCount
<1> QED BY <1>1, QualityIsInvariant, PTL

\* The handler of a run that the campaign lists.
LEMMA ListedHandlers ==
  ASSUME NEW u, NEW c, NEW row, NEW h, NEW here, NEW rows, NEW listed, listed,
         Handler(u, c, row, h, here, rows, listed)
  PROVE  \/ Lists(u, c, row, here, rows, listed) \/ Compensates(u, c, row, here) \/ Settles(u, c, row, here)
         \/ Returned(u, row, h, here, rows, listed)
         \/ c.at = "crashed" /\ row # None
<1>1. \/ Lists(u, c, row, here, rows, listed) \/ Compensates(u, c, row, here) \/ Settles(u, c, row, here)
      \/ Returned(u, row, h, here, rows, listed) \/ (c = [at |-> "crashed"] /\ row # None)
  BY Zenon DEF Handler
<1>2. c = [at |-> "crashed"] => c.at = "crashed"
  OBVIOUS
<1> QED BY <1>1, <1>2

\* A run that the campaign lists is stored, and has its evidence, or says that it was
\* taken back, or its handler takes it back, died, or gave up
\* (appendQualityRunToCampaign, compensateQualityRunArtifacts).
THEOREM ListedRunsHaveEvidenceAlways ==
  ASSUME QualityConstants
  PROVE  QualitySpec => []Runs!ListedRunsHaveEvidence
<1>1. ASSUME QualityInv
      PROVE  Runs!ListedRunsHaveEvidence
  <2> SUFFICES ASSUME NEW u \in Runs!Range(store.campaign.runs)
               PROVE  /\ Runs!Stored(u)
                      /\ \/ Runs!Evidence(u) \/ Runs!Row(u).reason = "quality.persistence_failed"
                         \/ calls[u].at \in {"compensate", "settle", "crashed"} \/ history[u] = "unsettled"
    BY DEF Runs!ListedRunsHaveEvidence
  <2>1. u \in Users /\ Listed(u)
    BY <1>1 DEF QualityInv, CampaignIs, Runs!Range, Listed
  <2>2. \A x, y : None # [revision |-> x, run |-> y]
    BY DEF QualityConstants
  <2>3. HandlerOf(u)
    BY <1>1, <2>1 DEF QualityInv
  <2> DEFINE row == store.rows[u]
             here == Here(u, world.files)
             rows == RowsOf(u, store.artifacts)
  <2>4. \/ row # None /\ Row(row) /\ Reported(u, row.run) /\ Holds(u, row.run, here, rows)
        \/ row # None /\ TakenBack(u, row.run, here)
        \/ row # None /\ (calls[u].at \in {"compensate", "settle", "crashed"} \/ history[u] = "unsettled")
    <3>1. CASE Lists(u, calls[u], row, here, rows, Listed(u))
      BY <2>2, <3>1 DEF Lists, Row
    <3>2. CASE Compensates(u, calls[u], row, here)
      BY <2>2, <3>2 DEF Compensates, Before, Row
    <3>3. CASE Settles(u, calls[u], row, here)
      BY <3>3 DEF Settles
    <3>4. CASE Returned(u, row, history[u], here, rows, Listed(u))
      BY <2>1, <2>2, <3>4 DEF Returned, Row
    <3>5. CASE calls[u].at = "crashed" /\ row # None
      BY <3>5
    <3> DEFINE c == calls[u]
    <3>6. \/ Lists(u, c, row, here, rows, Listed(u)) \/ Compensates(u, c, row, here) \/ Settles(u, c, row, here)
          \/ Returned(u, row, history[u], here, rows, Listed(u))
          \/ c.at = "crashed" /\ row # None
      <4>1. Handler(u, c, row, history[u], here, rows, Listed(u))
        BY <2>3 DEF HandlerOf
      <4> HIDE DEF c, row, here, rows
      <4> QED BY <2>1, <4>1, ListedHandlers, Zenon
    <3> QED BY <3>1, <3>2, <3>3, <3>4, <3>5, <3>6
  <2>5. row # None /\ Reported(u, row.run) /\ Holds(u, row.run, here, rows) => Runs!Evidence(u)
    BY <2>1, HeldIsEvidence DEF Reported
  <2> QED BY <2>4, <2>5 DEF TakenBack, Runs!Stored, Runs!Row
<1> QED BY <1>1, QualityIsInvariant, PTL

\* A run that was taken back says so, and keeps no file that it does not name
\* (compensateQualityRunArtifacts, persistTerminalQualityRunFailure).
THEOREM TakenBackIsCleanAlways ==
  ASSUME QualityConstants
  PROVE  QualitySpec => []Runs!TakenBackIsClean
<1>1. ASSUME QualityInv
      PROVE  Runs!TakenBackIsClean
  <2> SUFFICES ASSUME NEW u \in Users, Runs!Stored(u), Runs!Row(u).reason = "quality.persistence_failed"
               PROVE  /\ Runs!Row(u).state = "failed" /\ (Runs!Row(u).coverage => Runs!Row(u).artifacts # <<>>)
                      /\ Runs!Row(u).artifacts = <<>> => world.files \cap {Runs!Profile(u), Runs!Report(u)} = {}
    BY DEF Runs!TakenBackIsClean
  <2> DEFINE run == store.rows[u].run
             here == Here(u, world.files)
  <2>1. Runs!Row(u) = run /\ here = world.files \cap {Runs!Profile(u), Runs!Report(u)}
    BY DEF Runs!Row, Here, Own
  <2>2. None # "quality.persistence_failed"
    BY DEF QualityConstants, Texts
  <2>3. Reported(u, run) \/ TakenBack(u, run, here)
    BY <1>1, <2>1, <2>2, RowsAreSafe DEF RowIsSafe, Before, Unstarted, Runs!Stored
  <2> HIDE DEF run, here
  <2>4. CASE Reported(u, run)
    <3>1. run.artifacts # <<>>
      BY <2>4 DEF Reported, Has, Runs!Range
    <3> QED BY <2>1, <2>2, <2>4, <3>1 DEF Reported, Over
  <2>5. CASE TakenBack(u, run, here)
    BY <2>1, <2>5 DEF TakenBack
  <2> QED BY <2>3, <2>4, <2>5
<1> QED BY <1>1, QualityIsInvariant, PTL

\* A run that was answered is stored as it was answered, with its report and all its
\* evidence, and the campaign lists it once whoever else added to it
\* (runQualityWithPersistence, appendQualityRunToCampaign).
THEOREM AnswersAreKeptAlways ==
  ASSUME QualityConstants
  PROVE  QualitySpec => []Runs!AnswersAreKept
<1>1. ASSUME QualityInv
      PROVE  Runs!AnswersAreKept
  <2> SUFFICES ASSUME NEW u \in Users, history[u] \in {"ok", "failed", "unavailable"}
               PROVE  /\ Runs!Stored(u) /\ Runs!Answer(u, Runs!Row(u)) = history[u]
                      /\ Runs!Row(u).state \notin {"queued", "running"}
                      /\ Runs!Report(u) \in Runs!Range(Runs!Row(u).artifacts) /\ Runs!Evidence(u)
                      /\ Runs!Cardinality({n \in DOMAIN store.campaign.runs : store.campaign.runs[n] = u}) = 1
                      /\ Runs!Row(u).coverage => Runs!Profile(u) \in Runs!Range(Runs!Row(u).artifacts)
    BY DEF Runs!AnswersAreKept
  <2> DEFINE row == store.rows[u]
             here == Here(u, world.files)
             rows == RowsOf(u, store.artifacts)
             runs == store.campaign.runs
  <2>1. history[u] # None /\ \A x, y : None # [revision |-> x, run |-> y]
    BY DEF QualityConstants, Texts
  <2>2. HandlerOf(u) /\ CampaignIs(store.campaign)
    BY <1>1 DEF QualityInv
  <2>3. calls[u].at = "returned"
    BY <2>1, <2>2 DEF HandlerOf, Handler
  <2>4. Returned(u, row, history[u], here, rows, Listed(u))
    BY <2>2, <2>3 DEF HandlerOf, Handler, WritesEvidence, Inserts, Lists, Compensates, Settles
  <2>5. /\ Listed(u) /\ Row(row) /\ Reported(u, row.run) /\ Holds(u, row.run, here, rows)
        /\ Runs!Answer(u, row.run) = history[u]
    BY <2>4 DEF Returned
  <2>6. row # None
    BY <2>1, <2>5 DEF Row
  <2>7. Runs!Evidence(u)
    BY <2>5, HeldIsEvidence DEF Reported
  <2>8. Runs!Cardinality({n \in DOMAIN runs : runs[n] = u}) = 1
    <3>1. PICK k \in DOMAIN runs : runs[k] = u
      BY <2>5 DEF Listed, Runs!Range
    <3>2. \A n \in DOMAIN runs : runs[n] = u => n = k
      BY <2>2, <3>1 DEF CampaignIs
    <3>3. {n \in DOMAIN runs : runs[n] = u} = {k}
      BY <3>1, <3>2
    <3> QED BY <3>3, FS_Singleton, RunsCount
  <2> QED BY <2>5, <2>6, <2>7, <2>8 DEF Reported, Over, Has, Runs!Stored, Runs!Row
<1> QED BY <1>1, QualityIsInvariant, PTL
=============================================================================

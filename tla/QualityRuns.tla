------------------------------ MODULE QualityRuns ------------------------------
(***************************************************************************)
(* Runs of a quality campaign (internal/app/assurance.go,                  *)
(* quality_coverage.go, internal/assurance/quality_runner.go): the choice  *)
(* of a reviewed command, the process, its evidence as artifacts, the      *)
(* result, the campaign's list of runs, and the compensation when one of   *)
(* these could not be stored.  User u makes the run u.                     *)
(***************************************************************************)
EXTENDS Naturals, Sequences, FiniteSets, Functions

CONSTANTS
  Users, TechniqueOf,   \* user -> technique
  Worktrees,            \* what a worktree may look like: see Selection
  Exits, Profiles,      \* how a process ends, what its coverage profile is like
  MaxTargets,           \* 64 in the code
  MaxFaults, MaxPins, MaxCrashes, \* bounds
  None

VARIABLES
  store,   \* the campaign, the rows of runs with their revision, the rows of artifacts
  calls,   \* user -> the handler and its copy of the run
  world,   \* the artifact files and the profiles of runs that are under way
  history, \* user -> how the call ended
  budget   \* faults of storage calls, pins and crashes so far

Profile(u) == <<u, "profile">>
Report(u) == <<u, "report">>
Artifacts == Users \X {"profile", "report"}
Techniques == {"static_security", "mutation", "property", "go_test_coverage"}

-----------------------------------------------------------------------------
\* discoverQualityGoTargets of a walk: a list of entries that are links, not
\* regular, broken, generated or have so many targets of the technique.
Walked(files) == {n \in DOMAIN files : files[n].in # "vendor"}
Parsed(files) == {n \in Walked(files) : files[n].in = "test"}
\* The targets of the first n entries.
Total(files) ==
  LET upTo[n \in 0..Len(files)] ==
        IF n = 0 THEN 0 ELSE upTo[n - 1] + (IF n \in Parsed(files) THEN files[n].targets ELSE 0)
  IN upTo
TargetReason(files) ==
  LET first(entries) == CHOOSE n \in entries : \A k \in entries : n <= k
      bad == {n \in Walked(files) : files[n].in \in {"link", "device"}}
      broken == {n \in Parsed(files) : files[n].broken \/ Total(files)[n] > MaxTargets}
      count == Total(files)[Len(files)]
  IN CASE bad # {} -> IF files[first(bad)].in = "link"
                        THEN "worktree.go_source_symlink_rejected" ELSE "worktree.go_source_invalid"
       [] bad = {} /\ broken # {} -> IF files[first(broken)].broken
                        THEN "worktree.go_source_invalid" ELSE "worktree.go_source_bounds_exceeded"
       [] OTHER -> CASE count = 0 -> "target.go_test_missing"
                     [] count = 1 -> None
                     [] OTHER -> "target.go_test_ambiguous"
\* resolveNativeQualityTool.
ToolReason(tool, name) ==
  CASE tool = "missing" -> <<name, "unavailable">> [] tool = "untrusted" -> <<name, "untrusted">> [] OTHER -> None
\* QualityRunnerRegistry.Select: why there is no command, None if there is one.
Reasons(technique, w) == \* in the order in which they are looked for
  <<CASE w.module = "missing" -> "worktree.go_mod_missing"
      [] w.module = "invalid" -> "worktree.go_mod_invalid" [] OTHER -> None,
    IF technique = "property" THEN TargetReason(w.files) ELSE None,
    ToolReason(w.tool, IF technique = "mutation" THEN "go_mutesting" ELSE "go")>>
FirstReason(reasons) ==
  IF \A n \in DOMAIN reasons : reasons[n] = None THEN None
  ELSE reasons[CHOOSE n \in DOMAIN reasons : reasons[n] # None /\ \A k \in 1..(n - 1) : reasons[k] = None]
\* runQualityWithPersistence: a worktree that is no longer what it was, or a
\* profile that cannot be created, comes before the registry.
Selection(technique, w) ==
  CASE ~w.same -> "worktree.revalidation_failed"
    [] w.same /\ (~w.root \/ (technique = "go_test_coverage" /\ ~w.profile)) -> "runner.selection_unavailable"
    [] OTHER -> FirstReason(Reasons(technique, w))

-----------------------------------------------------------------------------
QualityInit ==
  /\ store = [campaign |-> [revision |-> 1, runs |-> <<>>], rows |-> [u \in Users |-> None],
              artifacts |-> [a \in Artifacts |-> "none"]]
  /\ calls = [u \in Users |-> [at |-> "idle"]]
  /\ world = [files |-> {}, profiles |-> {}]
  /\ history = [u \in Users |-> None]
  /\ budget = [faults |-> 0, pins |-> 0, crashes |-> 0]

\* A call of the store is done, fails, or is done and its answer is lost.
Replies == {"done", "lost", "failed"}
Answered(reply) ==
  IF reply = "done" THEN UNCHANGED budget
  ELSE budget.faults < MaxFaults /\ budget' = [budget EXCEPT !.faults = @ + 1]
To(u, call) == calls' = [calls EXCEPT ![u] = call]
\* The handler ends; the deferred cleanup removes the profile.
Return(u, answer) ==
  /\ To(u, [at |-> "returned"]) /\ history' = [history EXCEPT ![u] = answer]
  /\ world' = [world EXCEPT !.profiles = @ \ {u}]
\* updateAssuranceRevision: the next revision of the row that is there.
SaveRow(u, run, reply) == store' =
  IF reply = "failed" THEN store
  ELSE [store EXCEPT !.rows[u] = [revision |-> IF @ = None THEN 1 ELSE @.revision + 1, run |-> run]]

\* From the campaign to the row of a queued run.
NewRun(w) ==
  [state |-> "queued", outcome |-> None, reason |-> None, seen |-> w,
   exit |-> None, artifacts |-> <<>>, coverage |-> FALSE]
Unavailable(u, run) == Selection(TechniqueOf[u], run.seen)
Request(u) ==
  /\ calls[u].at = "idle"
  /\ \E w \in Worktrees, reply \in Replies :
       LET run == NewRun(w)
       IN /\ SaveRow(u, run, reply) /\ Answered(reply)
          /\ IF reply = "done"
             THEN /\ To(u, [at |-> "queued", run |-> run]) /\ UNCHANGED history
                  /\ world' = IF TechniqueOf[u] = "go_test_coverage" /\ w.same /\ w.profile
                              THEN [world EXCEPT !.profiles = @ \cup {u}] ELSE world
             ELSE Return(u, "error")
Begin(u) ==
  /\ calls[u].at = "queued"
  /\ \E reply \in Replies :
       LET run == [calls[u].run EXCEPT !.state = "running"]
       IN /\ SaveRow(u, run, reply) /\ Answered(reply)
          /\ IF reply = "done" THEN To(u, [at |-> "running", run |-> run]) /\ UNCHANGED <<world, history>>
             ELSE Return(u, "error")

\* qualityRunProcessOutcome.
Ended(run, exit) ==
  CASE exit = "ok" -> [run EXCEPT !.state = "succeeded", !.exit = exit]
    [] exit = "timeout" -> [run EXCEPT !.state = "timed_out", !.outcome = "inconclusive",
                                       !.reason = "runner.timeout", !.exit = exit]
    [] exit = "failed" -> [run EXCEPT !.state = "failed", !.outcome = "tests_failed",
                                      !.reason = "runner.tests_failed", !.exit = exit]
    [] OTHER -> [run EXCEPT !.state = "failed", !.outcome = "inconclusive",
                            !.reason = "runner.inconclusive", !.exit = exit]
Inconclusive(run, reason) ==
  IF run.exit = "ok" THEN [run EXCEPT !.state = "failed", !.outcome = "inconclusive", !.reason = reason] ELSE run
\* The run of a command or the reason why there is none; then the profile.
Execute(u) ==
  /\ calls[u].at = "running"
  /\ LET run == calls[u].run
     IN IF Unavailable(u, run) # None
        THEN To(u, [at |-> "report", run |-> [run EXCEPT !.state = "failed", !.outcome = "runner_unavailable",
                                                         !.reason = Unavailable(u, run)]])
        ELSE \E exit \in Exits, profile \in Profiles :
          LET ended == Ended(run, exit)
          IN CASE TechniqueOf[u] # "go_test_coverage" -> To(u, [at |-> "report", run |-> ended])
               [] TechniqueOf[u] = "go_test_coverage" /\ profile = "unreadable" ->
                    To(u, [at |-> "report", run |-> Inconclusive(ended, "coverage.profile_inconclusive")])
               [] TechniqueOf[u] = "go_test_coverage" /\ profile = "empty" ->
                    To(u, [at |-> "report", run |-> Inconclusive(ended, "coverage.profile_missing")])
               [] OTHER -> To(u, [at |-> "profile", run |-> ended, whole |-> profile = "valid"])
  /\ UNCHANGED <<store, world, history, budget>>

-----------------------------------------------------------------------------
\* SaveAssuranceArtifact: the file is renamed into place, then the row is
\* inserted; without its answer the file is removed again.
WriteArtifact(u) ==
  /\ calls[u].at \in {"profile", "report"}
  /\ \/ /\ world' = [world EXCEPT !.files = @ \cup {<<u, calls[u].at>>}]
        /\ To(u, [at |-> "insert", artifact |-> <<u, calls[u].at>>, then |-> calls[u]]) /\ UNCHANGED budget
     \/ Answered("failed") /\ To(u, [at |-> "compensate", run |-> calls[u].run, left |-> calls[u].run.artifacts,
                                     failed |-> FALSE]) /\ UNCHANGED world
  /\ UNCHANGED <<store, history>>
\* The run with its profile: a success has its coverage, unless the profile is
\* too long or cannot be parsed.
WithProfile(run, a, whole) ==
  LET with == [run EXCEPT !.artifacts = Append(@, a)]
  IN IF whole /\ run.exit = "ok" THEN [with EXCEPT !.outcome = "coverage_collected", !.coverage = TRUE]
     ELSE Inconclusive(with, "coverage.profile_inconclusive")
InsertArtifact(u) ==
  /\ calls[u].at = "insert"
  /\ LET a == calls[u].artifact
         before == calls[u].then
     IN \E reply \in Replies :
          /\ Answered(reply)
          /\ store' = IF reply = "failed" THEN store ELSE [store EXCEPT !.artifacts[a] = "active"]
          /\ world' = IF reply = "done" THEN world ELSE [world EXCEPT !.files = @ \ {a}]
          /\ To(u, CASE reply # "done" -> [at |-> "compensate", run |-> before.run, left |-> before.run.artifacts,
                                           failed |-> FALSE]
                     [] reply = "done" /\ before.at = "profile" ->
                          [at |-> "report", run |-> WithProfile(before.run, a, before.whole)]
                     [] OTHER -> [at |-> "finish", run |-> [before.run EXCEPT !.artifacts = Append(@, a)]])
  /\ UNCHANGED history

\* The final revision.
Finish(u) ==
  /\ calls[u].at = "finish"
  /\ \E reply \in Replies :
       /\ SaveRow(u, calls[u].run, reply) /\ Answered(reply)
       /\ To(u, IF reply = "done" THEN [at |-> "load", run |-> calls[u].run, tries |-> 0]
                ELSE [at |-> "compensate", run |-> calls[u].run, left |-> calls[u].run.artifacts, failed |-> FALSE])
  /\ UNCHANGED <<world, history>>

\* appendQualityRunToCampaign: read, and write the next revision, three times.
Attempts == 3
Answer(u, run) ==
  IF Unavailable(u, run) # None THEN "unavailable"
  ELSE IF run.exit # "ok" \/ run.outcome = "inconclusive" THEN "failed" ELSE "ok"
LoadCampaign(u) ==
  /\ calls[u].at = "load"
  /\ IF u \in Range(store.campaign.runs)
     THEN Return(u, Answer(u, calls[u].run)) /\ UNCHANGED <<store, budget>>
     ELSE \/ /\ To(u, [at |-> "append", run |-> calls[u].run, tries |-> calls[u].tries, read |-> store.campaign])
             /\ UNCHANGED <<store, world, history, budget>>
          \/ /\ Answered("failed") /\ UNCHANGED <<store, world, history>>
             /\ To(u, [at |-> "compensate", run |-> calls[u].run, left |-> calls[u].run.artifacts, failed |-> FALSE])
AppendRun(u) ==
  /\ calls[u].at = "append"
  /\ LET c == calls[u]
         taken == store.campaign.revision = c.read.revision
     IN \E reply \in Replies :
          /\ Answered(reply)
          /\ store' = IF taken /\ reply # "failed"
                      THEN [store EXCEPT !.campaign = [revision |-> c.read.revision + 1, runs |-> Append(c.read.runs, u)]]
                      ELSE store
          /\ IF taken /\ reply = "done" THEN Return(u, Answer(u, c.run))
             ELSE /\ To(u, IF c.tries + 1 = Attempts
                           THEN [at |-> "compensate", run |-> c.run, left |-> c.run.artifacts, failed |-> FALSE]
                           ELSE [at |-> "load", run |-> c.run, tries |-> c.tries + 1])
                  /\ UNCHANGED <<world, history>>

-----------------------------------------------------------------------------
\* compensateQualityRunArtifacts: every artifact is deleted, file and row, unless
\* it is pinned; the run keeps them all if one could not be deleted.
DeleteOne(u) ==
  /\ calls[u].at = "compensate" /\ calls[u].left # <<>>
  /\ LET a == Head(calls[u].left)
         rest(ok) == To(u, [calls[u] EXCEPT !.left = Tail(@), !.failed = @ \/ ~ok])
     IN CASE store.artifacts[a] = "pinned" -> rest(FALSE) /\ UNCHANGED <<store, world, budget>>
          [] store.artifacts[a] = "deleted" -> rest(TRUE) /\ UNCHANGED <<store, world, budget>>
          [] OTHER ->
            \/ Answered("failed") /\ rest(FALSE) /\ UNCHANGED <<store, world>>
            \/ \E reply \in Replies :
                 /\ Answered(reply) /\ rest(reply = "done")
                 /\ world' = [world EXCEPT !.files = @ \ {a}]
                 /\ store' = IF reply = "failed" THEN store ELSE [store EXCEPT !.artifacts[a] = "deleted"]
  /\ UNCHANGED history
\* persistTerminalQualityRunFailure: the next revision, whatever is there, three times.
Compensated(run, failed) ==
  [run EXCEPT !.state = "failed", !.outcome = "inconclusive", !.reason = "quality.persistence_failed",
              !.artifacts = IF failed THEN @ ELSE <<>>, !.coverage = failed /\ @]
Forgive(u) ==
  /\ calls[u].at = "compensate" /\ calls[u].left = <<>>
  /\ To(u, [at |-> "settle", run |-> Compensated(calls[u].run, calls[u].failed), tries |-> 0])
  /\ UNCHANGED <<store, world, history, budget>>
Settle(u) ==
  /\ calls[u].at = "settle"
  /\ \E reply \in Replies :
       /\ SaveRow(u, calls[u].run, reply) /\ Answered(reply)
       /\ IF reply = "done" \/ calls[u].tries + 1 = Attempts
          THEN Return(u, IF reply = "done" THEN "error" ELSE "unsettled")
          ELSE To(u, [calls[u] EXCEPT !.tries = @ + 1]) /\ UNCHANGED <<world, history>>

\* SetAssuranceArtifactRetention by a person who has looked at the artifact.
Pin(a) ==
  /\ store.artifacts[a] = "active" /\ a \in world.files /\ budget.pins < MaxPins
  /\ store' = [store EXCEPT !.artifacts[a] = "pinned"]
  /\ budget' = [budget EXCEPT !.pins = @ + 1] /\ UNCHANGED <<calls, world, history>>
\* The end of the process, with every handler in it.
Crash ==
  /\ budget.crashes < MaxCrashes /\ budget' = [budget EXCEPT !.crashes = @ + 1]
  /\ calls' = [u \in Users |-> IF calls[u].at \in {"idle", "returned"} THEN calls[u] ELSE [at |-> "crashed"]]
  /\ UNCHANGED <<store, world, history>>

Handle(u) ==
  \/ Request(u) \/ Begin(u) \/ Execute(u) \/ WriteArtifact(u) \/ InsertArtifact(u) \/ Finish(u)
  \/ LoadCampaign(u) \/ AppendRun(u) \/ DeleteOne(u) \/ Forgive(u) \/ Settle(u)
QualityNext == (\E u \in Users : Handle(u)) \/ (\E a \in Artifacts : Pin(a)) \/ Crash

-----------------------------------------------------------------------------
Stored(u) == store.rows[u] # None
Row(u) == store.rows[u].run
QualityTypeOK ==
  /\ TechniqueOf \in [Users -> Techniques]
  /\ store.campaign.revision = Len(store.campaign.runs) + 1
  /\ store.artifacts \in [Artifacts -> {"none", "active", "pinned", "deleted"}]
  /\ world.files \subseteq Artifacts /\ world.profiles \subseteq Users
  /\ \A u \in Users : Stored(u) =>
       /\ Row(u).state \in {"queued", "running", "succeeded", "failed", "timed_out"}
       /\ Range(Row(u).artifacts) \subseteq {Profile(u), Report(u)}
  /\ history \in [Users -> {None, "ok", "failed", "unavailable", "error", "unsettled"}]

\* A run that is answered is stored as it was answered, the campaign lists it once
\* whoever else added to it, and its evidence is there: an answer never precedes
\* what it stands on (runQualityWithPersistence, appendQualityRunToCampaign).
Evidence(u) == \A a \in Range(Row(u).artifacts) : a \in world.files /\ store.artifacts[a] \in {"active", "pinned"}
AnswersAreKept ==
  \A u \in Users : history[u] \in {"ok", "failed", "unavailable"} =>
    /\ Stored(u) /\ Answer(u, Row(u)) = history[u] /\ Row(u).state \notin {"queued", "running"}
    /\ Report(u) \in Range(Row(u).artifacts) /\ Evidence(u)
    /\ Cardinality({n \in DOMAIN store.campaign.runs : store.campaign.runs[n] = u}) = 1
    /\ Row(u).coverage => Profile(u) \in Range(Row(u).artifacts)
\* A run that the campaign lists has its evidence or says that it was taken back;
\* only while a handler takes it back, or died or gave up doing so, it does not.
ListedRunsHaveEvidence ==
  \A u \in Range(store.campaign.runs) :
    /\ Stored(u)
    /\ \/ Evidence(u) \/ Row(u).reason = "quality.persistence_failed"
       \/ calls[u].at \in {"compensate", "settle", "crashed"} \/ history[u] = "unsettled"
\* A run that was taken back says so, and keeps either no artifact or, because one
\* could not be deleted, the names of all (compensateQualityRunArtifacts).
TakenBackIsClean ==
  \A u \in Users : Stored(u) /\ Row(u).reason = "quality.persistence_failed" =>
    /\ Row(u).state = "failed" /\ (Row(u).coverage => Row(u).artifacts # <<>>)
    /\ Row(u).artifacts = <<>> => world.files \cap {Profile(u), Report(u)} = {}
\* A process was started only in the worktree that was chosen, with a module and a
\* trusted tool, and for the one target of files that are all regular and readable.
OnlyReviewedCommandsRun ==
  \A u \in Users : Stored(u) /\ Row(u).exit # None =>
    LET w == Row(u).seen
        inspected == {n \in DOMAIN w.files : w.files[n].in # "vendor"}
    IN /\ w.same /\ w.root /\ w.module = "module" /\ w.tool = "native"
       /\ TechniqueOf[u] = "property" =>
            /\ \A n \in inspected : w.files[n].in \notin {"link", "device"}
            /\ Cardinality({n \in inspected : w.files[n].in = "test" /\ w.files[n].targets # 0}) = 1
=============================================================================

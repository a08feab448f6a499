------------------------------- MODULE MCRecords -------------------------------
(***************************************************************************)
(* The components that keep records and act on what was reviewed, each in  *)
(* a scenario of its own: the first step chooses one and the others sleep. *)
(* The variables have the same meaning everywhere: what is stored, what    *)
(* handlers have read, the world outside, what happened, the bounds.       *)
(***************************************************************************)
EXTENDS Naturals, Sequences, FiniteSets, TLC

CONSTANTS v1, v2, v3, v4, v5, w1, w2, None

VARIABLES scenario, store, calls, world, history, budget
vars == <<scenario, store, calls, world, history, budget>>

-----------------------------------------------------------------------------
\* Two reviewers of one plan that can be run once; one user whose worktree
\* changes and who asks the provider.
Two == INSTANCE InspectionFlow WITH Order <- <<v1, v2>>, Heads <- {v3}, Exclusions <- {},
  Users <- {w1, w2}, MaxNonce <- 0, MaxChanges <- 0, MaxRuns <- 1, MaxRevision <- 3
One == INSTANCE InspectionFlow WITH Order <- <<v1, v2>>, Heads <- {v3, v4}, Exclusions <- {{v2}},
  Users <- {w1}, MaxNonce <- 0, MaxChanges <- 1, MaxRuns <- 0, MaxRevision <- 2
\* The same without the provider, but a second plan may be asked for.
Again == INSTANCE InspectionFlow WITH Order <- <<v1, v2>>, Heads <- {v3, v4}, Exclusions <- {},
  Users <- {w1}, MaxNonce <- 1, MaxChanges <- 1, MaxRuns <- 0, MaxRevision <- 2

\* A home directory of version 1 or 2 with projects, items and a result, faults
\* while it starts and while it is edited.
OldConfig(version, projects, items, list) ==
  [version |-> version, projects |-> projects, initialized |-> FALSE, items |-> items,
   results |-> [l \in {"cleanups", "releases", "work"} |-> IF l = "work" THEN list ELSE <<>>]]
NothingOld == [k \in {"integrations", "runbooks", "groups"} |-> <<>>]
OldFiles == {OldConfig(1, <<v1, v2>>, NothingOld, <<>>),
             OldConfig(2, <<v1>>, [NothingOld EXCEPT !.runbooks = <<[id |-> v3, value |-> w1]>>],
                       <<[plan |-> v3, value |-> w2]>>)}
Files == INSTANCE ConfigStore WITH Old <- OldFiles, Names <- {v3, v4}, Values <- {w1, w2}, Unsafe <- {w2},
  Plans <- {v3, v4}, Defaults <- {v4, v5}, Codex <- v4, MaxItems <- 1, MaxResults <- 1,
  MaxEdits <- 2, MaxFaults <- 2

\* A folder with two directories, one of which has two more; depth and entries
\* are too few for all of them.
Tree == [n \in {v1, v2, v3, v4, v5} |-> CASE n = v1 -> <<v3, v2>> [] n = v2 -> <<v4, v5>> [] OTHER -> <<>>]
Search == INSTANCE RepositoryDiscovery WITH Root <- v1, Kids <- Tree, MaxDepth <- 2, MaxEntries <- 3, MaxVanished <- 1
Shallow == INSTANCE RepositoryDiscovery WITH Root <- v1, Kids <- Tree, MaxDepth <- 1, MaxEntries <- 9, MaxVanished <- 0

\* Two users, two projects, two folders of the same name.
Catalog == INSTANCE ProjectCatalog WITH ProjectIds <- {v1, v2}, Folders <- <<v3, v4>>,
  Name <- [f \in {v3, v4} |-> <<"name">>], Users <- {w1, w2}, MaxEdits <- 3, MaxFaults <- 1

\* Two targets and one slot; the group and the integration are edited.
Work == INSTANCE ExternalWork WITH Targets <- {v1, v2}, Groups <- {v3, v4}, Keys <- {w1, w2}, Expected <- {None, v5},
  Slots <- 1, MaxChanges <- 1, MaxRuns <- 1
\* Two branches and three commits, one of them merged.
Clean == INSTANCE Cleanup WITH Branches <- {v1, v2}, Commits <- {v3, v4, v5}, Merged <- {v3}, MaxChanges <- 2, MaxRuns <- 1
\* Two repositories that share one slot.
Sync == INSTANCE RepositorySync WITH Repositories <- {v1, v2}, Branches <- {v3, v4}, Slots <- 1, MaxChanges <- 1

\* The service and the CLI observe failures of one scope; one process, long
\* enough for a rule to be activated.
Both == INSTANCE Safeguard WITH Prints <- {v1, v2}, Scope <- [f \in {v1, v2} |-> v3], Processes <- {w1, w2},
  Repeats <- 2, Retries <- 2, MaxRefs <- 2, MaxFailures <- 3, MaxDecisions <- 1
Single == INSTANCE Safeguard WITH Prints <- {v1}, Scope <- [f \in {v1} |-> v3], Processes <- {w1},
  Repeats <- 2, Retries <- 2, MaxRefs <- 2, MaxFailures <- 4, MaxDecisions <- 4

\* Two reviewers of one objective; one, whose worktree moves between two commits.
Reviewers == INSTANCE QualityObjective WITH Users <- {w1, w2}, Heads <- {v1}, Runners <- {v2}, Percents <- {1},
  MaxRevalidations <- 1, MaxRevision <- 4, MaxRuns <- 1, MaxChanges <- 1
Objective == INSTANCE QualityObjective WITH Users <- {w1}, Heads <- {v1, v2}, Runners <- {v3}, Percents <- {1, 2},
  MaxRevalidations <- 1, MaxRevision <- 5, MaxRuns <- 1, MaxChanges <- 1

\* Two runs of one campaign, whose worktrees differ in what Select looks at; one
\* run of each kind of end, with faults, a pin and a crash.
File(in, targets) == [in |-> in, targets |-> targets, broken |-> FALSE]
Checkout(files) == [same |-> TRUE, root |-> TRUE, profile |-> TRUE, module |-> "module", tool |-> "native", files |-> files]
Good == Checkout(<<File("vendor", 1), File("test", 1), File("source", 0)>>)
Checkouts == {Good, [Good EXCEPT !.same = FALSE], [Good EXCEPT !.profile = FALSE], [Good EXCEPT !.module = "missing"],
  [Good EXCEPT !.tool = "untrusted"], Checkout(<<File("test", 1), File("link", 0)>>),
  Checkout(<<File("test", 1), File("test", 1)>>), Checkout(<<[File("test", 1) EXCEPT !.broken = TRUE]>>)}
Campaign == INSTANCE QualityRuns WITH Users <- {w1, w2}, Worktrees <- Checkouts,
  TechniqueOf <- [u \in {w1, w2} |-> IF u = w1 THEN "property" ELSE "go_test_coverage"],
  Exits <- {"ok"}, Profiles <- {"valid"}, MaxTargets <- 2, MaxFaults <- 0, MaxPins <- 0, MaxCrashes <- 0
Evidence == INSTANCE QualityRuns WITH Users <- {w1}, Worktrees <- {Good},
  TechniqueOf <- [u \in {w1} |-> "go_test_coverage"],
  Exits <- {"ok", "failed", "timeout", "unknown"}, Profiles <- {"valid", "truncated", "empty", "unreadable"},
  MaxTargets <- 2, MaxFaults <- 3, MaxPins <- 1, MaxCrashes <- 1

\* Two users of two artifacts and one place for archives.
Artifact == INSTANCE ArtifactStore WITH Users <- {w1, w2}, Artifacts <- {v1, v2}, Destinations <- {v3}, Quota <- 1,
  MaxCalls <- 4, MaxFaults <- 1, MaxCrashes <- 1, MaxTampered <- 1

\* One workflow file with a command that is known; another, and two reviewers.
Line(indent, kind) == [indent |-> indent, kind |-> kind, command |-> "status"]
Workflow == <<Line(0, "steps"), Line(1, "run")>>
Other == <<Line(0, "steps"), Line(1, "run"), Line(2, "text")>>
Needs(a, b, c) == v1 :> a @@ v2 :> b @@ v3 :> c
Review == INSTANCE ProposalReview WITH Users <- {w1, w2}, Heads <- {v4}, Sources <- {Workflow, Other}, Typed <- {"status"},
  Sets <- {v5}, Steps <- <<v1>>, Inputs <- {v1 :> {}}, MaxCalls <- 6, MaxChanges <- 1, MaxFaults <- 1, MaxCrashes <- 0
\* One user, three steps that depend on one another in many ways, some of them invalid.
Order == INSTANCE ProposalReview WITH Users <- {w1}, Heads <- {v4}, Sources <- {Workflow}, Typed <- {"status"},
  Sets <- {v5}, Steps <- <<v1, v2, v3>>,
  Inputs <- {Needs(a, b, c) : a \in {{}, {v3}}, b \in SUBSET {v1, v3}, c \in {{}, {v1}, {v2}, {v4}}},
  MaxCalls <- 5, MaxChanges <- 0, MaxFaults <- 0, MaxCrashes <- 0
\* Workflow files of up to four lines.
Lines == {Line(i, k) : i \in 0..2, k \in {"steps", "run", "literal", "text"}} \cup {Line(0, "blank"), Line(0, "comment")}
Texts == UNION {[1..n -> Lines] : n \in 0..4}
Parse == INSTANCE ProposalReview WITH Users <- {w1}, Heads <- {v4}, Sources <- Texts, Typed <- {"status"},
  Sets <- {v5}, Steps <- <<v1>>, Inputs <- {v1 :> {}}, MaxCalls <- 0, MaxChanges <- 0, MaxFaults <- 0, MaxCrashes <- 0

\* A worktree with two directories under it, one of them left out or too deep, and
\* files that agree, disagree, or cannot be understood.
Entry(type, name, says) == [type |-> type, name |-> name, fits |-> TRUE, says |-> says]
Dir(name) == Entry("dir", name, {})
Doc(name, says) == Entry("file", name, says)
Layout == 1 :> 0 @@ 2 :> 0 @@ 3 :> 0 @@ 4 :> 2 @@ 5 :> 2 @@ 6 :> 5
Folder == 0 :> Dir("root") @@ 1 :> Doc("go.mod", {}) @@ 2 :> Dir("web") @@ 3 :> Dir("vendor") @@
  4 :> Doc("package.json", {"npm", "runs eslint"}) @@ 5 :> Dir("deep") @@ 6 :> Doc("ruff.toml", {})
Folders == {[Folder EXCEPT ![1] = a, ![4] = b, ![5] = c] :
  a \in {Doc("go.mod", {}), Doc("pyproject.toml", {"ruff", "malformed"}), Doc("readme", {}), Entry("link", "go.mod", {})},
  b \in {Doc("package.json", {"npm", "runs eslint"}), Doc("package.json", {"unknown manager", "another script"}),
         Doc("package.json", {"eslint", "unclear"}), [Doc("vitest.config.ts", {}) EXCEPT !.fits = FALSE]},
  c \in {Dir("deep"), Doc("yarn.lock", {}), Doc("uv.lock", {}), Doc("tsconfig.json", {})}}
Setup == INSTANCE QualitySetup WITH Root <- 0, Parent <- Layout, Trees <- Folders, Requests <- {{}, {"javascript"}},
  MaxDepth <- 1, MaxEntries <- 9, MaxEligible <- 2, MaxChanges <- 1
Tight == INSTANCE QualitySetup WITH Root <- 0, Parent <- Layout, Trees <- {Folder, [Folder EXCEPT ![3] = Doc("uv.lock", {})]},
  Requests <- {{}}, MaxDepth <- 1, MaxEntries <- 4, MaxEligible <- 2, MaxChanges <- 1

\* Every kind of request in worktrees with one component, several or a nested one; one
\* request of two users that is repeated; two users of one approval scope, and one
\* user who asks for something beyond each of its bounds.
Layouts == {<<>> :> {"python"}, <<>> :> {"go"} @@ <<"web">> :> {"javascript"},
  <<"api">> :> {"python"} @@ <<"web">> :> {"javascript"}, <<"web">> :> {"javascript"} @@ <<"web", "ui">> :> {"typescript"}}
Install(kind, component, files, global) ==
  [kind |-> kind, component |-> component, files |-> files, global |-> global, exact |-> TRUE, preview |-> FALSE]
FileLists == {<<<<"lock">>>>, <<<<"web", "lock">>>>, <<<<"lock">>, <<"web", "lock">>>>, <<<<"api", "lock">>>>}
Ruff == Install("ruff", None, <<<<"lock">>>>, TRUE)
Requested ==
  {Install("eslint", c, f, FALSE) : c \in {None, {}, {<<"web">>}}, f \in FileLists} \cup
  {Install("ruff", {}, f, g) : f \in FileLists, g \in BOOLEAN} \cup
  {[Ruff EXCEPT !.exact = FALSE], [Ruff EXCEPT !.preview = TRUE], [Ruff EXCEPT !.files = <<<<"..", "lock">>>>],
   [Ruff EXCEPT !.kind = "unreviewed"]}
NoBounds == [s \in {} |-> None]
Installing == INSTANCE ActionPlanning WITH Users <- {w1}, Installs <- Requested, Asks <- {}, Bounds <- NoBounds,
  Trees <- Layouts, Heads <- {v1, v2}, MaxTime <- 0, MaxCalls <- 1, MaxChanges <- 1, MaxFaults <- 0
Repeating == INSTANCE ActionPlanning WITH Users <- {w1, w2}, Installs <- {Ruff}, Asks <- {}, Bounds <- NoBounds,
  Trees <- {NoBounds}, Heads <- {v1, v2}, MaxTime <- 1, MaxCalls <- 2, MaxChanges <- 1, MaxFaults <- 1
Tool(version, config, arguments) == [version |-> version, config |-> config, arguments |-> arguments]
Limits == [target |-> v1, provider |-> v2, actions |-> {"test"}, risks |-> {"low"}, techniques |-> {"unit", "fuzz"}, setup |-> {"go"},
  tool |-> Tool(v3, v4, v5), network |-> "offline", roots |-> {<<"web">>}, disk |-> 2, deadline |-> 1,
  prohibited |-> {"commit", "delete", "push"}]
Wants == [target |-> v1, provider |-> v2, action |-> "test", risk |-> "low", techniques |-> {"unit"}, setup |-> {},
  tool |-> Tool(v3, v4, v5), network |-> "offline", paths |-> {<<"web", "report">>}, disk |-> 1, deadline |-> 1,
  prohibited |-> {"commit", "delete", "push"}]
\* One thing beyond each bound.
Excessive == {[Wants EXCEPT !.target = v2], [Wants EXCEPT !.provider = v1], [Wants EXCEPT !.action = "release"],
  [Wants EXCEPT !.risk = "high"], [Wants EXCEPT !.techniques = {"unit", "mutation"}], [Wants EXCEPT !.setup = {"go", "node"}],
  [Wants EXCEPT !.tool = Tool(v1, v4, v5)], [Wants EXCEPT !.tool = Tool(v3, v1, v5)], [Wants EXCEPT !.tool = Tool(v3, v4, v1)],
  [Wants EXCEPT !.network = "online"], [Wants EXCEPT !.paths = {<<"web">>, <<"api">>}], [Wants EXCEPT !.disk = 3],
  [Wants EXCEPT !.deadline = 2], [Wants EXCEPT !.prohibited = {"commit", "delete"}]}
Bounded == INSTANCE ActionPlanning WITH Users <- {w1}, Installs <- {}, Bounds <- v4 :> Limits,
  Asks <- {[plan |-> v5, scope |-> v4, wants |-> w] : w \in Excessive \cup {Wants, [Wants EXCEPT !.setup = {"go"}, !.disk = 2]}},
  Trees <- {NoBounds}, Heads <- {v1}, MaxTime <- 1, MaxCalls <- 4, MaxChanges <- 0, MaxFaults <- 0
Scoped == INSTANCE ActionPlanning WITH Users <- {w1, w2}, Installs <- {}, Bounds <- v4 :> Limits,
  Asks <- {[plan |-> v5, scope |-> v4, wants |-> w] :
             w \in {Wants, [Wants EXCEPT !.paths = {<<"web">>, <<"api">>}], [Wants EXCEPT !.prohibited = {"commit", "delete"}]}},
  Trees <- {NoBounds}, Heads <- {v1}, MaxTime <- 1, MaxCalls <- 5, MaxChanges <- 0, MaxFaults <- 0

\* Manifests with one measurement of every kind, and some that were edited; a few
\* good ones that two users import, with texts that the masker replaces.
Contract == INSTANCE MeasurementContract
Probe(id, name, required, status, provenance, counts, samples) ==
  Contract!NewMeasurement([id |-> id, name |-> name, required |-> required, status |-> status, provenance |-> provenance,
    requests |-> counts[1], successes |-> counts[2], failures |-> counts[3], samples |-> samples, command |-> 7])
Envelope(id, head, dirty, tools, ended) ==
  [id |-> id, head |-> head, dirty |-> dirty, tools |-> tools, started |-> 1, ended |-> ended]
Go(version, path) == "go" :> [version |-> version, path |-> path]
Probes == {Probe(1, "latency", r, s, p, c, x) : r \in BOOLEAN, s \in {"pass", "fail", "unknown"},
  p \in {"measured", "inferred", "unavailable"}, c \in {<<0, 0, 0>>, <<2, 2, 0>>, <<2, 1, 1>>, <<2, 0, 2>>},
  x \in {<<>>, <<4>>, <<9, 2>>, <<7, 1, 5>>}}
Timed(id, required, status, samples) == Probe(id, "latency", required, status, "measured", <<0, 0, 0>>, samples)
OneProbe == {Contract!NewRun(Envelope(1, 5, "clean", Go(6, 6), 1), <<m>>) : m \in Probes}
TwoProbes == {Contract!NewRun(Envelope(1, 5, "dirty", Go(6, None), 1), <<Timed(1, TRUE, "pass", <<4>>), Timed(i, r, s, <<3>>)>>) :
  i \in {1, 2}, r \in BOOLEAN, s \in {"pass", "fail", "unknown"}}
Edited == {[m EXCEPT !.status = s] : m \in TwoProbes, s \in {"pass", "fail", "unknown"}} \cup
  {[m EXCEPT !.metrics[1].p50 = 20] : m \in TwoProbes} \cup {[m EXCEPT !.started = 2] : m \in TwoProbes}
Gate == INSTANCE Measurement WITH Users <- {w1}, Manifests <- OneProbe \cup TwoProbes \cup Edited,
  Secrets <- {}, Replacement <- 0, MaxCalls <- 1, MaxFaults <- 0
Covered(percent) == Probe(3, "coverage_percent", FALSE, "pass", "measured", <<0, 0, 0>>, <<percent>>)
Evident(id, head, dirty, tools, ended, metrics) == Contract!NewRun(Envelope(id, head, dirty, tools, ended), metrics)
Imported == {
  Evident(1, 5, "clean", Go(6, 6), 1, <<Timed(2, TRUE, "pass", <<4>>), Covered(8)>>),
  Evident(2, 5, "clean", Go(6, 6), 2, <<Timed(2, TRUE, "pass", <<5, 3>>), Covered(7)>>),
  Evident(2, 5, "clean", Go(6, 6), 3, <<Timed(2, TRUE, "fail", <<4>>), Covered(9)>>),
  Evident(3, 5, "clean", Go(6, None), 2, <<Timed(2, TRUE, "pass", <<4>>)>>),
  Evident(4, 5, "dirty", Go(6, 6), 3, <<Timed(2, TRUE, "pass", <<4>>)>>),
  Evident(5, 5, "dirty", Go(6, 6), 1, <<Timed(2, TRUE, "pass", <<4>>)>>),
  Evident(6, 5, "clean", Go(6, None), 3, <<Timed(2, TRUE, "pass", <<4>>)>>),
  Evident(7, 7, "clean", Go(2, 6), 3, <<Timed(7, TRUE, "unknown", <<4>>)>>)}
Imports == INSTANCE Measurement WITH Users <- {w1, w2}, Manifests <- Imported,
  Secrets <- {2, 7}, Replacement <- 0, MaxCalls <- 3, MaxFaults <- 1

\* An effect that differs from a complete one in one thing, beside others, in
\* periods of many lengths; handlers that read while rows change.
Ran(id, state, at, project, provider) ==
  [id |-> id, trace |-> id + 10, state |-> state, head |-> 5, project |-> project, provider |-> provider, calls |-> {1},
   artifacts |-> <<21>>, at |-> at, updated |-> at]
Kept(id, valid, at) == [id |-> id, trace |-> 12, retention |-> "active", valid |-> valid, at |-> at, updated |-> at]
Complete == [id |-> 41, kind |-> "measured", project |-> 1, source |-> 2, finding |-> 31, evidence |-> <<21>>, traces |-> <<>>,
  adopted |-> TRUE, reverified |-> TRUE, adoptedAt |-> None, commit |-> 5, reverifiedCommit |-> 5, ref |-> 3,
  timed |-> TRUE, value |-> 4, unit |-> 1, at |-> 17]
Effects == {Complete} \cup
  {[Complete EXCEPT !.kind = k] : k \in {"prevented_regression", "user_estimated", "ai_inference", "unavailable"}} \cup
  {[Complete EXCEPT !.project = None], [Complete EXCEPT !.adopted = FALSE], [Complete EXCEPT !.reverified = FALSE],
   [Complete EXCEPT !.commit = None], [Complete EXCEPT !.commit = 6, !.reverifiedCommit = 6], [Complete EXCEPT !.commit = 6],
   [Complete EXCEPT !.timed = FALSE], [Complete EXCEPT !.value = None], [Complete EXCEPT !.unit = None], [Complete EXCEPT !.unit = 2]} \cup
  {[Complete EXCEPT !.source = r] : r \in {None, 12, 1, 9}} \cup {[Complete EXCEPT !.ref = r] : r \in {None, 13, 1, 9, 4}} \cup
  {[Complete EXCEPT !.source = 9, !.traces = <<r, 2>>] : r \in {11, 4}} \cup
  {[Complete EXCEPT !.finding = f] : f \in {None, 32, 33}} \cup {[Complete EXCEPT !.evidence = e] : e \in {<<>>, <<21, 22>>, <<23>>, <<29>>}} \cup
  {[Complete EXCEPT !.at = t] : t \in {2, 10, 13, 15, 16, 19, 20}}
Besides == {{}, {[Complete EXCEPT !.id = 42, !.unit = 2, !.at = 18], [Complete EXCEPT !.id = 43, !.unit = 2, !.at = 16]}, {[Complete EXCEPT !.id = 42, !.value = 3, !.at = 14]}}
Histories ==
  {[now |-> 20, files |-> {21, 23},
    rows |-> [invocations |-> {Ran(1, "succeeded", 15, None, 8)}, effects |-> {a} \cup b, findings |-> {[id |-> 31, project |-> 1], [id |-> 32, project |-> 2]},
      runs |-> {Ran(2, "succeeded", 17, 1, 7), Ran(3, "succeeded", 16, 1, None), again},
      artifacts |-> {Kept(21, TRUE, 17), Kept(22, TRUE, 13), Kept(23, FALSE, 18)}]] :
     a \in Effects, b \in Besides, again \in {Ran(4, "failed", 12, 1, None), [Ran(4, "failed", 12, 1, None) EXCEPT !.trace = 13]}}
Asked(what, days, project, provider) == [what |-> what, days |-> days, project |-> project, provider |-> provider, effect |-> 41]
Period == INSTANCE Impact WITH Users <- {w1}, Stores <- Histories, Inputs <- {}, Later <- [k \in {"invocations", "runs"} |-> {}],
  Queries <- {Asked("dashboard", 0, None, None), Asked("dashboard", 9, 1, 7), Asked("json", 2, 1, None), Asked("json", 5, None, 8),
              Asked("trace", 0, None, None)},
  Day <- 2, DefaultDays <- 2, MaxDays <- 5, DailyDays <- 2, Week <- 2, MaxTime <- 20, MaxCalls <- 1, MaxChanges <- 0
Before(state) == [now |-> 2, files |-> {21},
  rows |-> [invocations |-> {}, runs |-> {Ran(3, state, 1, 1, None)}, effects |-> {}, findings |-> {}, artifacts |-> {Kept(21, TRUE, 1)}]]
Moving == INSTANCE Impact WITH Users <- {w1, w2}, Stores <- {Before("running"), Before("succeeded")},
  Inputs <- {[Complete EXCEPT !.at = 0, !.finding = None]}, Later <- [k \in {"invocations", "runs"} |-> IF k = "runs" THEN {Ran(2, "running", 0, 1, None)} ELSE {}],
  Queries <- {Asked("json", 0, None, None), Asked("trace", 0, None, None)},
  Day <- 2, DefaultDays <- 2, MaxDays <- 5, DailyDays <- 2, Week <- 2, MaxTime <- 3, MaxCalls <- 2, MaxChanges <- 2

-----------------------------------------------------------------------------
Init ==
  \/ scenario = "two" /\ Two!InspectionInit
  \/ scenario = "one" /\ One!InspectionInit
  \/ scenario = "again" /\ Again!InspectionInit
  \/ scenario = "files" /\ Files!ConfigInit
  \/ scenario = "search" /\ Search!DiscoveryInit
  \/ scenario = "shallow" /\ Shallow!DiscoveryInit
  \/ scenario = "catalog" /\ Catalog!CatalogInit
  \/ scenario = "work" /\ Work!WorkInit
  \/ scenario = "clean" /\ Clean!CleanupInit
  \/ scenario = "sync" /\ Sync!SyncInit
  \/ scenario = "both" /\ Both!SafeguardInit
  \/ scenario = "alone" /\ Single!SafeguardInit
  \/ scenario = "reviewers" /\ Reviewers!ObjectiveInit
  \/ scenario = "objective" /\ Objective!ObjectiveInit
  \/ scenario = "campaign" /\ Campaign!QualityInit
  \/ scenario = "evidence" /\ Evidence!QualityInit
  \/ scenario = "artifact" /\ Artifact!StoreInit
  \/ scenario = "review" /\ Review!ReviewInit
  \/ scenario = "order" /\ Order!ReviewInit
  \/ scenario = "parse" /\ Parse!ReviewInit
  \/ scenario = "setup" /\ Setup!SetupInit
  \/ scenario = "tight" /\ Tight!SetupInit
  \/ scenario = "installing" /\ Installing!PlanningInit
  \/ scenario = "repeating" /\ Repeating!PlanningInit
  \/ scenario = "scoped" /\ Scoped!PlanningInit
  \/ scenario = "bounded" /\ Bounded!PlanningInit
  \/ scenario = "gate" /\ Gate!MeasurementInit
  \/ scenario = "imports" /\ Imports!MeasurementInit
  \/ scenario = "period" /\ Period!ImpactInit
  \/ scenario = "moving" /\ Moving!ImpactInit

TwoNext == scenario = "two" /\ Two!InspectionNext /\ UNCHANGED scenario
OneNext == scenario = "one" /\ One!InspectionNext /\ UNCHANGED scenario
AgainNext == scenario = "again" /\ Again!InspectionNext /\ UNCHANGED scenario
FilesNext == scenario = "files" /\ Files!ConfigNext /\ UNCHANGED scenario
SearchNext == scenario = "search" /\ Search!DiscoveryNext /\ UNCHANGED scenario
ShallowNext == scenario = "shallow" /\ Shallow!DiscoveryNext /\ UNCHANGED scenario
CatalogNext == scenario = "catalog" /\ Catalog!CatalogNext /\ UNCHANGED scenario
WorkNext == scenario = "work" /\ Work!WorkNext /\ UNCHANGED scenario
CleanNext == scenario = "clean" /\ Clean!CleanupNext /\ UNCHANGED scenario
SyncNext == scenario = "sync" /\ Sync!SyncNext /\ UNCHANGED scenario
BothNext == scenario = "both" /\ Both!SafeguardNext /\ UNCHANGED scenario
SingleNext == scenario = "alone" /\ Single!SafeguardNext /\ UNCHANGED scenario
ReviewersNext == scenario = "reviewers" /\ Reviewers!ObjectiveNext /\ UNCHANGED scenario
ObjectiveNext == scenario = "objective" /\ Objective!ObjectiveNext /\ UNCHANGED scenario
CampaignNext == scenario = "campaign" /\ Campaign!QualityNext /\ UNCHANGED scenario
EvidenceNext == scenario = "evidence" /\ Evidence!QualityNext /\ UNCHANGED scenario
ArtifactNext == scenario = "artifact" /\ Artifact!StoreNext /\ UNCHANGED scenario
ReviewNext == scenario = "review" /\ Review!ReviewNext /\ UNCHANGED scenario
OrderNext == scenario = "order" /\ Order!ReviewNext /\ UNCHANGED scenario
SetupNext == scenario = "setup" /\ Setup!SetupNext /\ UNCHANGED scenario
TightNext == scenario = "tight" /\ Tight!SetupNext /\ UNCHANGED scenario
InstallingNext == scenario = "installing" /\ Installing!PlanningNext /\ UNCHANGED scenario
RepeatingNext == scenario = "repeating" /\ Repeating!PlanningNext /\ UNCHANGED scenario
ScopedNext == scenario = "scoped" /\ Scoped!PlanningNext /\ UNCHANGED scenario
BoundedNext == scenario = "bounded" /\ Bounded!PlanningNext /\ UNCHANGED scenario
GateNext == scenario = "gate" /\ Gate!MeasurementNext /\ UNCHANGED scenario
ImportsNext == scenario = "imports" /\ Imports!MeasurementNext /\ UNCHANGED scenario
PeriodNext == scenario = "period" /\ Period!ImpactNext /\ UNCHANGED scenario
MovingNext == scenario = "moving" /\ Moving!ImpactNext /\ UNCHANGED scenario
Next ==
  \/ TwoNext \/ OneNext \/ AgainNext \/ FilesNext \/ SearchNext \/ ShallowNext \/ CatalogNext
  \/ WorkNext \/ CleanNext \/ SyncNext \/ BothNext \/ SingleNext \/ ReviewersNext \/ ObjectiveNext
  \/ CampaignNext \/ EvidenceNext \/ ArtifactNext \/ ReviewNext \/ OrderNext
  \/ SetupNext \/ TightNext \/ InstallingNext \/ RepeatingNext \/ ScopedNext \/ BoundedNext
  \/ GateNext \/ ImportsNext \/ PeriodNext \/ MovingNext

-----------------------------------------------------------------------------
\* Every component keeps the types of its records.
RecordsTypeOK ==
  CASE scenario = "two" -> Two!InspectionTypeOK
    [] scenario = "one" -> One!InspectionTypeOK
    [] scenario = "again" -> Again!InspectionTypeOK
    [] scenario = "files" -> Files!ConfigTypeOK
    [] scenario = "search" -> Search!DiscoveryTypeOK
    [] scenario = "shallow" -> Shallow!DiscoveryTypeOK
    [] scenario = "catalog" -> Catalog!CatalogTypeOK
    [] scenario = "work" -> Work!WorkTypeOK
    [] scenario = "clean" -> Clean!CleanupTypeOK
    [] scenario = "sync" -> Sync!SyncTypeOK
    [] scenario = "both" -> Both!SafeguardTypeOK
    [] scenario = "alone" -> Single!SafeguardTypeOK
    [] scenario = "reviewers" -> Reviewers!ObjectiveTypeOK
    [] scenario = "objective" -> Objective!ObjectiveTypeOK
    [] scenario = "campaign" -> Campaign!QualityTypeOK
    [] scenario = "evidence" -> Evidence!QualityTypeOK
    [] scenario = "artifact" -> Artifact!StoreTypeOK
    [] scenario = "review" -> Review!ReviewTypeOK
    [] scenario = "order" -> Order!ReviewTypeOK
    [] scenario = "parse" -> Parse!ReviewTypeOK
    [] scenario = "setup" -> Setup!SetupTypeOK
    [] scenario = "tight" -> Tight!SetupTypeOK
    [] scenario = "installing" -> Installing!PlanningTypeOK
    [] scenario = "repeating" -> Repeating!PlanningTypeOK
    [] scenario = "scoped" -> Scoped!PlanningTypeOK
    [] scenario = "bounded" -> Bounded!PlanningTypeOK
    [] scenario = "gate" -> Gate!MeasurementTypeOK
    [] scenario = "imports" -> Imports!MeasurementTypeOK
    [] scenario = "period" -> Period!ImpactTypeOK
    [] scenario = "moving" -> Moving!ImpactTypeOK

\* What is run, posted, removed or pulled is what a person has reviewed, and the
\* world is then still as it was reviewed: scores (RunsAreApproved), builds
\* (OnlyApprovedIsPosted), worktrees that go or are pulled (RemovalIsReviewed,
\* OnlyCleanIsPulled), commands (OnlyReviewedCommandsRun,
\* OnlyReviewedCommandsAreChecked); a plan is of what was asked for and within its
\* scope (InstallIsBound, MatchedIsWithinScope).
OnlyReviewedIsDone ==
  /\ scenario = "two" => Two!RunsAreApproved
  /\ scenario = "one" => One!RunsAreApproved
  /\ scenario = "again" => Again!RunsAreApproved
  /\ scenario = "work" => Work!OnlyApprovedIsPosted
  /\ scenario = "clean" => Clean!RemovalIsReviewed
  /\ scenario = "sync" => Sync!OnlyCleanIsPulled
  /\ scenario = "campaign" => Campaign!OnlyReviewedCommandsRun
  /\ scenario = "review" => Review!OnlyReviewedCommandsAreChecked
  /\ scenario = "order" => Order!OnlyReviewedCommandsAreChecked
  /\ scenario = "installing" => Installing!InstallIsBound
  /\ scenario = "repeating" => Repeating!InstallIsBound
  /\ scenario = "scoped" => Scoped!MatchedIsWithinScope
  /\ scenario = "bounded" => Bounded!MatchedIsWithinScope

\* Faults, restarts and other actors lose nothing that was confirmed: projects,
\* edits, results and profiles (NoProjectIsSkipped, ConfirmedEditsStay,
\* ResultsAreTheLast, ProfilesAreInitializedOnce), commits (NoWorkIsLost), rules
\* and objectives (UpdatesAreKept, RepeatsAreGuarded, RevalidationsAreKept),
\* evidence (ListedRunsHaveEvidence, TakenBackIsClean, PinnedIsRecoverable,
\* OnlyDeletedIsGone), the events of plans (PlannedIsAudited) and measurements
\* (ImportsAreKept).
NothingIsLost ==
  /\ scenario = "files" =>
       /\ Files!NoProjectIsSkipped /\ Files!ConfirmedEditsStay
       /\ Files!ResultsAreTheLast /\ Files!ProfilesAreInitializedOnce
  /\ scenario = "clean" => Clean!NoWorkIsLost
  /\ scenario = "both" => Both!UpdatesAreKept /\ Both!RepeatsAreGuarded
  /\ scenario = "alone" => Single!UpdatesAreKept /\ Single!RepeatsAreGuarded
  /\ scenario = "reviewers" => Reviewers!RevalidationsAreKept
  /\ scenario = "objective" => Objective!RevalidationsAreKept
  /\ scenario = "campaign" => Campaign!ListedRunsHaveEvidence /\ Campaign!TakenBackIsClean
  /\ scenario = "evidence" => Evidence!ListedRunsHaveEvidence /\ Evidence!TakenBackIsClean
  /\ scenario = "artifact" => Artifact!PinnedIsRecoverable /\ Artifact!OnlyDeletedIsGone
  /\ scenario = "installing" => Installing!PlannedIsAudited
  /\ scenario = "repeating" => Repeating!PlannedIsAudited
  /\ scenario = "scoped" => Scoped!PlannedIsAudited
  /\ scenario = "bounded" => Bounded!PlannedIsAudited
  /\ scenario = "imports" => Imports!ImportsAreKept

\* An answer that says complete, succeeded or valid is one: of a search or a setup
\* (CompleteOrPartial, SetupIsCompleteOrPartial, SetupIsNotGuessed), of builds
\* (SuccessIsEveryTarget), of the catalog (FoldersDiffer, RemovalsRetainARepository),
\* of an objective (AdoptionIsProven), of runs and check sets (AnswersAreKept,
\* RunsAreScheduled, StepsAreNeverStuck, CandidatesAreSteps), of archives (ArchivesAreWhole, QuotaIsKept),
\* of plans and scopes (ReuseIsSafe, RevokedNeverMatches, ProposalsApply), of
\* measurements (GateIsEvidence, SummariesFitSamples, ComparisonIsReproducible) and of the impact
\* (VerifiedIsReverified, TrendAddsUp, MetricsAreSampled, TracesAgree,
\* ReportListsWhatItCounts).
AnswersAreTrue ==
  /\ scenario = "search" => Search!CompleteOrPartial
  /\ scenario = "shallow" => Shallow!CompleteOrPartial
  /\ scenario = "work" => Work!SuccessIsEveryTarget
  /\ scenario = "catalog" => Catalog!FoldersDiffer /\ Catalog!RemovalsRetainARepository
  /\ scenario = "reviewers" => Reviewers!AdoptionIsProven
  /\ scenario = "objective" => Objective!AdoptionIsProven
  /\ scenario = "campaign" => Campaign!AnswersAreKept
  /\ scenario = "evidence" => Evidence!AnswersAreKept
  /\ scenario = "artifact" => Artifact!ArchivesAreWhole /\ Artifact!QuotaIsKept
  /\ scenario = "order" => Order!RunsAreScheduled /\ Order!StepsAreNeverStuck
  /\ scenario = "parse" => Parse!CandidatesAreSteps
  /\ scenario = "setup" => Setup!SetupIsCompleteOrPartial /\ Setup!SetupIsNotGuessed
  /\ scenario = "tight" => Tight!SetupIsCompleteOrPartial /\ Tight!SetupIsNotGuessed
  /\ scenario = "repeating" => Repeating!ReuseIsSafe
  /\ scenario = "scoped" => Scoped!RevokedNeverMatches
  /\ scenario = "bounded" => Bounded!RevokedNeverMatches
  /\ scenario = "gate" => Gate!GateIsEvidence /\ Gate!SummariesFitSamples
  /\ scenario = "imports" => Imports!GateIsEvidence /\ Imports!SummariesFitSamples /\ Imports!ComparisonIsReproducible
  /\ scenario = "period" =>
       /\ Period!VerifiedIsReverified /\ Period!TrendAddsUp /\ Period!MetricsAreSampled
       /\ Period!TracesAgree /\ Period!ReportListsWhatItCounts
  /\ scenario = "moving" =>
       /\ Moving!VerifiedIsReverified /\ Moving!TrendAddsUp /\ Moving!MetricsAreSampled
       /\ Moving!TracesAgree /\ Moving!ReportListsWhatItCounts
  /\ scenario = "two" => Two!ProposalsApply
  /\ scenario = "one" => One!ProposalsApply
  /\ scenario = "again" => Again!ProposalsApply

\* Of one revision one decision is taken, by one user, and what it led to changes
\* only as its component says.  Reviewed command proposals (ReviewsAreFinal), action
\* plans and revoked scopes (PlansAreImmutable, ScopesAdvance), adopted and rejected
\* objectives (ObjectiveChangesByReview) and retired rules (ActivationIsEarned) stay;
\* an inspection plan, a rejected one too, changes its checks only by one approved
\* proposal for that very revision, which sends it back to a review
\* (ChecksChangeByProposal).  Records that are evidence never change
\* (RunsAreImmutable, EffectsAreImmutable).
DecisionsStand ==
  [][/\ scenario = "two" =>
          Two!ChecksChangeByProposal /\ Two!PlanRevisionsAreTaken /\ Two!ItemRevisionsAreTaken
     /\ scenario = "one" =>
          One!ChecksChangeByProposal /\ One!PlanRevisionsAreTaken /\ One!ItemRevisionsAreTaken
     /\ scenario = "again" =>
          Again!ChecksChangeByProposal /\ Again!PlanRevisionsAreTaken /\ Again!ItemRevisionsAreTaken
     /\ scenario = "both" => Both!ActivationIsEarned
     /\ scenario = "review" => Review!ReviewsAreFinal
     /\ scenario = "alone" => Single!ActivationIsEarned
     /\ scenario = "repeating" => Repeating!PlansAreImmutable
     /\ scenario = "scoped" => Scoped!PlansAreImmutable /\ Scoped!ScopesAdvance
     /\ scenario = "bounded" => Bounded!PlansAreImmutable /\ Bounded!ScopesAdvance
     /\ scenario = "imports" => Imports!RunsAreImmutable
     /\ scenario = "moving" => Moving!EffectsAreImmutable
     /\ scenario = "reviewers" => Reviewers!ObjectiveChangesByReview
     /\ scenario = "objective" => Objective!ObjectiveChangesByReview]_vars
=============================================================================

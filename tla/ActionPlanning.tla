------------------------------ MODULE ActionPlanning ------------------------------
(***************************************************************************)
(* How an action plan comes to be: the installation of a quality tool into *)
(* a component of a worktree (internal/app/quality_install.go,             *)
(* internal/assurance/tool_install.go), plans under an unattended approval *)
(* scope and the life of such scopes (internal/app/approval_scope.go,      *)
(* internal/domain/assurance.go), and Plan of internal/action/broker.go,   *)
(* which stores a plan and its "planned" event in two transactions.        *)
(* Each storage call is a step, as is each look at the worktree; callers   *)
(* are requests of the service and CLI processes.                          *)
(***************************************************************************)
EXTENDS Naturals, Sequences, FiniteSets, SequencesExt, FiniteSetsExt

CONSTANTS
  Users,
  Installs,        \* the installations that are asked for
  Asks,            \* plans under a scope that are asked for: [plan, scope, wants]
  Bounds,          \* what a scope may allow: scope id -> record
  Trees,           \* the components of the worktree: path -> languages
  Heads,
  MaxTime, MaxCalls, MaxChanges, MaxFaults, \* bounds
  None

VARIABLES
  store,   \* the HEAD of the last scan, plans, planned events, approval scopes
  calls,   \* user -> the handler
  world,   \* the worktree: components, project environments, links, HEAD
  history, \* requests, the scopes that were stored and when they were revoked
  budget   \* the clock, calls, changes and faults

Put(f, id, value) == [k \in DOMAIN f \cup {id} |-> IF k = id THEN value ELSE f[k]]

-----------------------------------------------------------------------------
\* The component of an installation.  Paths are sequences of names, a component is
\* named by its path; None names the repository itself.
Python(kind) == kind \in {"ruff", "pytest"}
ToolLanguages(kind) == IF Python(kind) THEN {"python"} ELSE {"javascript", "typescript"}
\* qualityToolKindMatchesComponent.
Fits(kind, languages) == languages \cap ToolLanguages(kind) # {}
Inside(path, file) == IsPrefix(path, file)
Escapes(file) == file = <<>> \/ file[1] = ".."
\* normalizeQualityInstallAffectedFiles: a file is named from the worktree or from
\* the component, and then belongs to no other one.
Misplaced(path, paths, file) ==
  ~Inside(path, file) /\ \E other \in paths \ {<<>>, path} : Inside(other, file)
Acceptable(path, paths, files) == \A i \in DOMAIN files : ~Escapes(files[i]) /\ ~Misplaced(path, paths, files[i])
Normalized(path, files) == [i \in DOMAIN files |-> IF Inside(path, files[i]) THEN files[i] ELSE path \o files[i]]

\* verifiedQualityInstallTarget: the components that may be meant.
Candidates(tree, r) == {p \in DOMAIN tree : Fits(r.kind, tree[p]) /\ Acceptable(p, DOMAIN tree, r.files)}
Targets(tree, r) ==
  CASE r.component = None -> {None}
    [] r.component \notin {None, {}} -> r.component \cap DOMAIN tree
    [] r.component = {} /\ DOMAIN tree = {} -> {None}
    [] r.component = {} /\ DOMAIN tree # {} ->
         LET found == Candidates(tree, r)
         IN CASE Cardinality(found) = 1 -> found
              [] found = {} /\ Cardinality(DOMAIN tree) = 1 -> DOMAIN tree
              [] OTHER -> {}
PathOf(component) == IF component = None THEN <<>> ELSE component
\* qualityInstallPathContainsSymlink and the check of the directory; installRoots.
Usable(path) == ~\E linked \in world.linked : Inside(linked, path)

\* resolveQualityPython: the environment of the component, else what PATH has.
Interpreter(kind, path) ==
  CASE ~Python(kind) -> [scope |-> "project", executable |-> "node", at |-> <<>>]
    [] Python(kind) /\ path \in world.venvs -> [scope |-> "project", executable |-> "venv", at |-> path]
    [] OTHER -> [scope |-> "global", executable |-> "python", at |-> <<>>]
\* validateInstallExecutable and resolveNPMCLIPath.
Native(interpreter) ==
  IF interpreter.executable = "venv" THEN interpreter.at \in world.venvs ELSE interpreter.executable \in world.native
\* BuildQualityToolInstallAction.
Buildable(r, path, files, interpreter) ==
  /\ Usable(path) /\ r.exact /\ r.files # <<>> /\ r.kind # "unreviewed"
  /\ interpreter.scope = "global" => r.global
  /\ Native(interpreter) /\ \A i \in DOMAIN files : Inside(path, files[i])
Built(r, component, files, interpreter) ==
  [kind |-> r.kind, component |-> component, files |-> ToSet(files), count |-> Len(files), interpreter |-> interpreter]

-----------------------------------------------------------------------------
\* Approval scopes.  A digest covers the bounds, the state and the revision, so a
\* stored scope stands for its own digest.
Required == {"commit", "delete"}
\* Validate of a scope.
Bounded(b) ==
  /\ b.actions # {} /\ b.risks # {} /\ b.techniques # {} /\ b.roots # {} /\ Required \subseteq b.prohibited
  /\ b.disk > 0 /\ b.deadline >= budget.now
\* ValidateForApprovalAt.
Approvable(scope) == scope.state = "draft" /\ scope.bounds.deadline > budget.now
\* pathsWithin.
PathsWithin(roots, paths) == paths # {} /\ \A p \in paths : \E root \in roots : Inside(root, p)
\* ValidateForExecutionAt.
Active(scope, now) == scope.state = "approved" /\ scope.bounds.deadline > now
\* Mutant: the risk of the action is not compared.
Matches_AnyRisk(scope, digest, wants, now) ==
  LET b == scope.bounds
  IN /\ Active(scope, now) /\ digest = scope
     /\ wants.target = b.target /\ wants.provider = b.provider
     /\ wants.action \in b.actions
     /\ wants.techniques \subseteq b.techniques
     /\ wants.setup \subseteq b.setup /\ wants.tool = b.tool
     /\ PathsWithin(b.roots, wants.paths) /\ wants.network = b.network
     /\ wants.disk \in 1..b.disk
     /\ wants.deadline <= b.deadline /\ wants.deadline > now
     /\ b.prohibited \subseteq wants.prohibited
\* Match: every bound, at an instant.  The tool is its version with the digests of its
\* configuration and of its arguments; the set-up of tools is compared apart.
Matches(scope, digest, wants, now) ==
  LET b == scope.bounds
  IN /\ Active(scope, now) /\ digest = scope
     /\ wants.target = b.target /\ wants.provider = b.provider
     /\ wants.action \in b.actions /\ wants.risk \in b.risks
     /\ wants.techniques \subseteq b.techniques
     /\ wants.setup \subseteq b.setup /\ wants.tool = b.tool
     /\ PathsWithin(b.roots, wants.paths) /\ wants.network = b.network
     /\ wants.disk \in 1..b.disk
     /\ wants.deadline <= b.deadline /\ wants.deadline > now
     /\ b.prohibited \subseteq wants.prohibited
\* The binding of an installation: each file is written once.
BoundInstall(does) == does.files # {} /\ Cardinality(does.files) = does.count
\* validateUnattendedApprovalRequest.
BoundRequest(wants) ==
  wants.disk > 0 /\ wants.paths # {} /\ wants.techniques # {} /\ Required \subseteq wants.prohibited
Valid(plan) == IF plan.scope = None THEN BoundInstall(plan.does) ELSE BoundRequest(plan.does)

-----------------------------------------------------------------------------
Idle == [at |-> "idle", what |-> "nothing", plan |-> None, shown |-> None]
PlanningInit ==
  /\ \E h \in Heads : store = [seen |-> h, plans |-> <<>>, events |-> {}, scopes |-> <<>>]
  /\ calls = [u \in Users |-> Idle]
  /\ \E tree \in Trees : \E h \in Heads :
       world = [tree |-> tree, venvs |-> {p \in DOMAIN tree : "python" \in tree[p]}, linked |-> {},
                native |-> {"node", "python"}, head |-> h, same |-> TRUE]
  /\ history = [made |-> {}, versions |-> {}, revoked |-> {}]
  /\ budget = [now |-> 0, calls |-> 0, changes |-> 0, faults |-> 0]

Call(u, call) == calls' = [calls EXCEPT ![u] = call]
Answer(u, what, plan, shown) == Call(u, [at |-> "idle", what |-> what, plan |-> plan, shown |-> shown])
Refuse(u) == Answer(u, "refused", None, None)
NewCall(u) ==
  /\ calls[u].at = "idle" /\ budget.calls < MaxCalls /\ budget' = [budget EXCEPT !.calls = @ + 1]
Read == UNCHANGED <<store, world, history, budget>>
At(u, place) == calls[u].at = place

\* PlanQualityToolInstall and PlanQualityToolInstallAction: discoveryWorktree.
AskInstall(u) ==
  /\ NewCall(u)
  /\ \E r \in Installs :
       IF store.seen = None \/ ~world.same THEN Refuse(u)
       ELSE Call(u, [at |-> "choose", r |-> r, head |-> world.head])
  /\ UNCHANGED <<store, world, history>>
\* verifiedQualityInstallTarget.
Choose(u) ==
  /\ At(u, "choose")
  /\ LET r == calls[u].r
         targets == Targets(world.tree, r)
     IN IF targets = {} THEN Refuse(u)
        ELSE LET component == CHOOSE t \in targets : TRUE
                 path == PathOf(component)
             IN IF ~Usable(path) \/ ~Acceptable(path, DOMAIN world.tree, r.files) THEN Refuse(u)
                ELSE Call(u, [at |-> "build", r |-> r, head |-> calls[u].head, component |-> component,
                              files |-> Normalized(path, r.files), tree |-> world.tree])
  /\ Read
\* PlanQualityToolInstall ends with the preview.
Preview(u, action) == Answer(u, "preview", None, action)
\* resolveQualityPython and BuildQualityToolInstallAction, for a preview and for a plan;
\* the identity of a plan has the HEAD and everything that it does.
Build(u) ==
  /\ At(u, "build")
  /\ LET c == calls[u]
         path == PathOf(c.component)
         interpreter == Interpreter(c.r.kind, path)
         action == Built(c.r, c.component, c.files, interpreter)
     IN /\ CASE ~Buildable(c.r, path, c.files, interpreter) -> Refuse(u)
             [] Buildable(c.r, path, c.files, interpreter) /\ c.r.preview -> Preview(u, action)
             [] OTHER -> Call(u, [at |-> "context", id |-> [head |-> c.head, does |-> action], does |-> action,
                                  scope |-> None, shown |-> action])
        /\ history' = [history EXCEPT !.made = @ \cup {[does |-> action, r |-> c.r, tree |-> c.tree]}]
  /\ UNCHANGED <<store, world, budget>>

\* PlanAction with a scope.
AskScoped(u) ==
  /\ NewCall(u)
  /\ \E ask \in Asks : Call(u, [at |-> "context", id |-> ask.plan, does |-> ask.wants, scope |-> ask.scope, shown |-> None])
  /\ UNCHANGED <<store, world, history>>

-----------------------------------------------------------------------------
\* Plan.  The worktree that the last scan saw is the context; the clock is read once.
ReadContext(u) ==
  /\ At(u, "context")
  /\ IF store.seen = None THEN Refuse(u)
     ELSE Call(u, [at |-> IF calls[u].scope = None THEN "existing" ELSE "scope", shown |-> calls[u].shown,
                   plan |-> [id |-> calls[u].id, does |-> calls[u].does, scope |-> calls[u].scope,
                             context |-> store.seen, digest |-> None, matched |-> TRUE, checked |-> 0, asked |-> budget.now]])
  /\ Read
ReadScope(u) ==
  /\ At(u, "scope")
  /\ LET plan == calls[u].plan
     IN IF plan.scope \notin DOMAIN store.scopes THEN Refuse(u)
        ELSE LET scope == store.scopes[plan.scope]
             IN Call(u, [calls[u] EXCEPT !.at = "existing",
                  !.plan = [plan EXCEPT !.digest = scope, !.checked = plan.asked,
                                        !.matched = Matches(scope, scope, plan.does, plan.asked)]])
  /\ Read
\* actionPlansEquivalentExceptRequestedAt.
Equivalent(p, q) == [p EXCEPT !.asked = 0] = [q EXCEPT !.asked = 0]
Stored(id) == id \in DOMAIN store.plans
Reusable(plan) == Stored(plan.id) /\ Equivalent(store.plans[plan.id], plan)
ReadExisting(u) ==
  /\ At(u, "existing")
  /\ LET plan == calls[u].plan
     IN Call(u, IF Reusable(plan) THEN [calls[u] EXCEPT !.at = "find", !.plan = store.plans[plan.id]]
                ELSE [calls[u] EXCEPT !.at = "save"])
  /\ Read
\* SaveActionPlan: nothing for a plan that is invalid or was made for a worktree that
\* a scan has changed since; a plan is never replaced.  A stored plan is read again.
SavePlan(u) ==
  /\ At(u, "save")
  /\ LET plan == calls[u].plan
     IN CASE ~Valid(plan) \/ store.seen # plan.context -> Refuse(u) /\ UNCHANGED store
          [] Valid(plan) /\ store.seen = plan.context /\ ~Stored(plan.id) ->
               /\ store' = [store EXCEPT !.plans = Put(@, plan.id, plan)]
               /\ Call(u, [calls[u] EXCEPT !.at = "find"])
          [] OTHER ->
               /\ IF store.plans[plan.id] = plan \/ Reusable(plan)
                  THEN Call(u, [calls[u] EXCEPT !.at = "find", !.plan = store.plans[plan.id]])
                  ELSE Answer(u, "conflict", plan, calls[u].shown)
               /\ UNCHANGED store
  /\ UNCHANGED <<world, history, budget>>
\* ensurePlannedAudit: the event is looked up, saved, and looked up again when it
\* was there after all.
Planned(u) == Answer(u, IF calls[u].plan.scope # None /\ ~calls[u].plan.matched THEN "mismatch" ELSE "planned",
                     calls[u].plan, calls[u].shown)
Event(plan) == [id |-> plan.id, at |-> plan.asked]
EventOf(id) == {e \in store.events : e.id = id}
FindEvent(u) ==
  /\ At(u, "find")
  /\ LET plan == calls[u].plan
     IN CASE EventOf(plan.id) = {} -> Call(u, [calls[u] EXCEPT !.at = "log"])
          [] EventOf(plan.id) = {Event(plan)} -> Planned(u)
          [] OTHER -> Refuse(u)
  /\ Read
LogEvent(u) ==
  /\ At(u, "log")
  /\ LET plan == calls[u].plan
     IN IF EventOf(plan.id) = {} THEN store' = [store EXCEPT !.events = @ \cup {Event(plan)}] /\ Planned(u)
        ELSE Call(u, [calls[u] EXCEPT !.at = "find"]) /\ UNCHANGED store
  /\ UNCHANGED <<world, history, budget>>
PlanPlaces == {"context", "scope", "existing", "save", "find", "log"}
\* A storage call fails or its reply is lost, or the process of the caller ends.
Fault(u) ==
  /\ calls[u].at \in PlanPlaces /\ budget.faults < MaxFaults /\ budget' = [budget EXCEPT !.faults = @ + 1]
  /\ \/ UNCHANGED store
     \/ /\ At(u, "save") /\ Valid(calls[u].plan) /\ store.seen = calls[u].plan.context /\ ~Stored(calls[u].plan.id)
        /\ store' = [store EXCEPT !.plans = Put(@, calls[u].plan.id, calls[u].plan)]
     \/ /\ At(u, "log") /\ EventOf(calls[u].plan.id) = {}
        /\ store' = [store EXCEPT !.events = @ \cup {Event(calls[u].plan)}]
  /\ Refuse(u) /\ UNCHANGED <<world, history>>

-----------------------------------------------------------------------------
\* CreateUnattendedApprovalScope: nothing replaces a scope.
CreateScope(u) ==
  /\ NewCall(u)
  /\ \E s \in DOMAIN Bounds :
       LET scope == [bounds |-> Bounds[s], state |-> "draft", revision |-> 1]
       IN IF store.seen = None \/ s \in DOMAIN store.scopes \/ ~Bounded(Bounds[s])
          THEN Refuse(u) /\ UNCHANGED <<store, history>>
          ELSE /\ store' = [store EXCEPT !.scopes = Put(@, s, scope)]
               /\ history' = [history EXCEPT !.versions = @ \cup {[id |-> s, scope |-> scope]}]
               /\ Answer(u, "scope", None, None)
  /\ UNCHANGED world
\* ApproveUnattendedApprovalScope and RevokeUnattendedApprovalScope read a scope and
\* write its next revision; UpdateAssuranceRevision compares it.
Decide(scope, state) == [scope EXCEPT !.state = state, !.revision = @ + 1]
ReadForDecision(u) ==
  /\ NewCall(u)
  /\ \E s \in DOMAIN store.scopes : \E state \in {"approved", "revoked"} :
       LET scope == store.scopes[s]
           allowed == IF state = "approved" THEN Approvable(scope) /\ store.seen # None ELSE scope.state = "approved"
       IN IF allowed THEN Call(u, [at |-> "decide", id |-> s, scope |-> Decide(scope, state)]) ELSE Refuse(u)
  /\ UNCHANGED <<store, world, history>>
WriteDecision(u) ==
  /\ At(u, "decide")
  /\ LET next == calls[u].scope
         s == calls[u].id
     IN IF store.scopes[s].revision = next.revision - 1
        THEN /\ store' = [store EXCEPT !.scopes[s] = next]
             /\ history' = [history EXCEPT !.versions = @ \cup {[id |-> s, scope |-> next]},
                                           !.revoked = IF next.state = "revoked" THEN @ \cup {s} ELSE @]
             /\ Answer(u, "scope", None, None)
        ELSE Refuse(u) /\ UNCHANGED <<store, history>>
  /\ UNCHANGED <<world, budget>>
Over == history.revoked \cup {s \in DOMAIN Bounds : Bounds[s].deadline <= budget.now}
\* CheckUnattendedApprovalScope: the plan, then the scope as it is.
ReadForCheck(u) ==
  /\ NewCall(u)
  /\ \E id \in DOMAIN store.plans :
       IF store.plans[id].scope = None THEN Refuse(u)
       ELSE Call(u, [at |-> "check", plan |-> store.plans[id], over |-> Over])
  /\ UNCHANGED <<store, world, history>>
Check(u) ==
  /\ At(u, "check")
  /\ LET plan == calls[u].plan
         scope == store.scopes[plan.scope]
     IN Answer(u, IF Matches(scope, plan.digest, plan.does, budget.now) /\ plan.matched THEN "match" ELSE "no match",
               plan, IF plan.scope \in calls[u].over THEN "over" ELSE "live")
  /\ Read

-----------------------------------------------------------------------------
\* The worktree changes, is scanned, or leaves the registry; time passes.
Change ==
  /\ budget.changes < MaxChanges /\ budget' = [budget EXCEPT !.changes = @ + 1]
  /\ \/ \E h \in Heads : world' = [world EXCEPT !.head = h]
     \/ \E tree \in Trees : world' = [world EXCEPT !.tree = tree]
     \/ \E p \in DOMAIN world.tree : world' = [world EXCEPT !.linked = @ \cup {p}]
     \/ \E p \in DOMAIN world.tree : world' = [world EXCEPT !.venvs = @ \ {p}]
     \/ \E e \in world.native : world' = [world EXCEPT !.native = @ \ {e}]
     \/ world' = [world EXCEPT !.same = FALSE]
  /\ world' # world /\ UNCHANGED <<store, calls, history>>
Scan ==
  /\ store.seen # world.head /\ world.same
  /\ store' = [store EXCEPT !.seen = world.head] /\ UNCHANGED <<calls, world, history, budget>>
Tombstone ==
  /\ store.seen # None /\ ~world.same
  /\ store' = [store EXCEPT !.seen = None] /\ UNCHANGED <<calls, world, history, budget>>
Tick ==
  /\ budget.now < MaxTime /\ budget' = [budget EXCEPT !.now = @ + 1] /\ UNCHANGED <<store, calls, world, history>>
PlanningNext ==
  \/ \E u \in Users :
       \/ AskInstall(u) \/ Choose(u) \/ Build(u) \/ AskScoped(u)
       \/ ReadContext(u) \/ ReadScope(u) \/ ReadExisting(u) \/ SavePlan(u) \/ FindEvent(u) \/ LogEvent(u) \/ Fault(u)
       \/ CreateScope(u) \/ ReadForDecision(u) \/ WriteDecision(u) \/ ReadForCheck(u) \/ Check(u)
  \/ Change \/ Scan \/ Tombstone \/ Tick

-----------------------------------------------------------------------------
PlanningTypeOK ==
  /\ store.seen \in Heads \cup {None}
  /\ \A id \in DOMAIN store.plans : store.plans[id].id = id /\ store.plans[id].asked \in 0..MaxTime
  /\ \A s \in DOMAIN store.scopes : store.scopes[s].state \in {"draft", "approved", "revoked"}
  /\ \A u \in Users : calls[u].at \in PlanPlaces \cup {"idle", "choose", "build", "decide", "check"}

\* An installation that is planned does what someone asked for, in the one component
\* that this can mean: it writes files of that component and of no other one, each
\* once, and uses what is installed globally only with permission.
Means(made, path) ==
  LET r == made.r
      paths == DOMAIN made.tree
  IN \/ r.component = None /\ path = <<>>
     \/ r.component # None /\ path \in r.component
     \/ /\ r.component = {}
        /\ paths = {} \/ Cardinality(paths) = 1 \/ (Fits(r.kind, made.tree[path]) /\
             \A other \in paths \ {path} : Fits(r.kind, made.tree[other]) => \E i \in DOMAIN r.files : Misplaced(other, paths, r.files[i]))
AsAsked(does, made) ==
  LET r == made.r
      path == PathOf(does.component)
  IN /\ does.kind = r.kind /\ r.exact /\ Means(made, path)
     /\ \A file \in does.files : \E i \in DOMAIN r.files :
          \/ file = r.files[i]
          \/ /\ file = path \o r.files[i]
             /\ \A other \in DOMAIN made.tree \ {<<>>, path} : ~Inside(other, r.files[i])
     /\ does.interpreter.executable = "python" => r.global
InstallIsBound ==
  \A id \in DOMAIN store.plans : store.plans[id].scope = None =>
    LET does == store.plans[id].does
        path == PathOf(does.component)
    IN /\ does.files # {} /\ Cardinality(does.files) = does.count
       /\ \A file \in does.files : Inside(path, file)
       /\ does.interpreter.executable = "venv" => does.interpreter.at = path
       /\ \E made \in history.made : made.does = does /\ AsAsked(does, made)
\* What a plan does is all within the bounds of a scope: in its worktree and with its
\* provider, tool and network; no other action, risk, technique, set-up or path; no
\* more disk, no longer, and nothing less prohibited.
Contained(does, b) ==
  /\ \A what \in {"target", "provider", "tool", "network"} : does[what] = b[what]
  /\ does.action \in b.actions /\ does.risk \in b.risks
  /\ does.techniques \subseteq b.techniques /\ does.setup \subseteq b.setup
  /\ PathsWithin(b.roots, does.paths) /\ b.prohibited \subseteq does.prohibited
  /\ does.disk <= b.disk /\ does.deadline <= b.deadline
\* A plan that is said to match is bound to one revision of its scope, which was
\* approved and has the bounds that the scope was created with, stays within every
\* one of them, and had not run out when it was compared.
MatchedIsWithinScope ==
  \A id \in DOMAIN store.plans : LET plan == store.plans[id] IN plan.scope # None /\ plan.matched =>
    /\ plan.digest.state = "approved" /\ [id |-> plan.scope, scope |-> plan.digest] \in history.versions
    /\ plan.digest.bounds = Bounds[plan.scope]
    /\ Contained(plan.does, Bounds[plan.scope]) /\ plan.checked < plan.does.deadline
\* A plan that was answered is stored as it was answered and shown, and has its one
\* event, whatever failed before.
PlannedIsAudited ==
  /\ \A u \in Users : At(u, "idle") /\ calls[u].what \in {"planned", "mismatch"} =>
       LET plan == calls[u].plan
       IN Stored(plan.id) /\ store.plans[plan.id] = plan /\ Event(plan) \in store.events
          /\ (plan.scope = None => plan.does = calls[u].shown)
  /\ \A e, f \in store.events : e.id = f.id => e = f
\* A scope that was revoked before the check, or whose deadline had passed, matches
\* nothing; neither does one that was approved after the plan was made.
RevokedNeverMatches ==
  \A u \in Users : At(u, "idle") /\ calls[u].what = "match" =>
    /\ calls[u].shown = "live" /\ calls[u].plan.digest.state = "approved"
    /\ \E version \in history.versions : version.id = calls[u].plan.scope /\ version.scope = calls[u].plan.digest
\* An installation that is asked for again is refused as a conflict only when a scan
\* has changed the context in between.
ReuseIsSafe ==
  \A u \in Users : At(u, "idle") /\ calls[u].what = "conflict" /\ calls[u].plan.scope = None =>
    store.plans[calls[u].plan.id].context # calls[u].plan.context
\* A scope goes from draft to approved to revoked, one revision at a time and with the
\* bounds it was created with; a plan and an event never change.
ScopesAdvance ==
  \A s \in DOMAIN store.scopes :
    /\ s \in DOMAIN store'.scopes /\ store'.scopes[s].bounds = store.scopes[s].bounds
    /\ store'.scopes[s] # store.scopes[s] =>
         /\ store'.scopes[s].revision = store.scopes[s].revision + 1
         /\ <<store.scopes[s].state, store'.scopes[s].state>> \in {<<"draft", "approved">>, <<"approved", "revoked">>}
PlansAreImmutable ==
  /\ \A id \in DOMAIN store.plans : id \in DOMAIN store'.plans /\ store'.plans[id] = store.plans[id]
  /\ store.events \subseteq store'.events
=============================================================================

------------------------------ MODULE QualitySetup ------------------------------
(***************************************************************************)
(* What a worktree already has for checks and what it lacks: one walk over *)
(* its directories with limits, the files that say something about a       *)
(* component and the checks that are shown for it                          *)
(* (internal/qualitysetup/setup.go, internal/app/quality_setup.go).        *)
(* The walk opens one directory or file in a step, and other programs      *)
(* change the worktree in between.                                         *)
(***************************************************************************)
EXTENDS Naturals, Sequences, FiniteSets, SequencesExt, FiniteSetsExt

CONSTANTS
  Root, Parent,                      \* Parent maps every other node, a number that sorts like its name, to its directory
  Trees,                             \* the worktrees to start from: node -> entry
  Requests,                          \* the languages that are asked for, {} for all
  MaxDepth, MaxEntries, MaxEligible, \* 3, 2000 and 64 in the code
  MaxChanges,                        \* bound
  None

VARIABLES
  store,   \* nothing is stored
  calls,   \* the walk
  world,   \* node -> entry
  history, \* the nodes that changed since the walk began
  budget   \* changes

\* An entry is a directory, a file, a link or gone; a file has a name, a size that
\* fits into 128 KiB or does not, and what it says.
Nodes == DOMAIN Parent \cup {Root}
Children(d) == {n \in DOMAIN Parent : Parent[n] = d}
Ancestors[n \in Nodes] == IF n = Root THEN {} ELSE {Parent[n]} \cup Ancestors[Parent[n]]
\* checkAncestors and openObserved: no link on the way.
Opens(n, type) == world[n].type = type /\ \A d \in Ancestors[n] : world[d].type = "dir"
Excluded == {".git", "node_modules", ".venv", "vendor", "dist", "build", "testdata"}

Languages == {"python", "javascript", "typescript", "go"}
LockManager(name) ==
  CASE name = "package-lock.json" -> "npm" [] name = "pnpm-lock.yaml" -> "pnpm" [] name = "yarn.lock" -> "yarn"
    [] name = "bun.lock" -> "bun" [] name = "uv.lock" -> "uv" [] name = "poetry.lock" -> "poetry"
    [] OTHER -> None
IsEslint(name) == name \in {".eslintrc.json", ".eslintrc", "eslint.config.js", "eslint.config.ts"}
IsVitest(name) == name \in {"vitest.config.js", "vitest.config.ts"}
PythonNames == {"pyproject.toml", "requirements.txt", "setup.cfg", "ruff.toml", "pytest.ini"}
Recognized(name) ==
  \/ name \in PythonNames \cup {"go.mod", "package.json", "tsconfig.json"}
  \/ LockManager(name) # None \/ IsEslint(name) \/ IsVitest(name)

-----------------------------------------------------------------------------
\* analyzeFile: what a name says of its component, and what a file says that was
\* read as a whole and could be understood.
NameLanguages(name) ==
  CASE name = "go.mod" -> {"go"}
    [] name \in PythonNames \cup {"uv.lock", "poetry.lock"} -> {"python"}
    [] name = "tsconfig.json" -> {"typescript"}
    [] name \in {"eslint.config.ts", "vitest.config.ts"} -> {"javascript", "typescript"}
    [] OTHER -> {"javascript"}
NameManagers(name) ==
  IF name = "go.mod" THEN {"go"} ELSE {LockManager(name)} \ {None}
NameConfigures(name) ==
  CASE name = "ruff.toml" -> {"ruff"} [] name = "pytest.ini" -> {"pytest"}
    [] IsEslint(name) -> {"eslint"} [] IsVitest(name) -> {"vitest"} [] OTHER -> {}
\* The names whose content matters; a file of another name is never malformed.
Parsed(name) == name \in {"package.json", "pyproject.toml", "setup.cfg", "ruff.toml", ".eslintrc.json"}
Malformed(file) == file.complete /\ Parsed(file.name) /\ "malformed" \in file.says
Heard(file) == IF file.complete /\ ~Malformed(file) THEN file.says ELSE {}
\* A part that cannot be understood: a reference in requirements, a dependency that
\* is not a string, metadata that is dynamic.
Unclear(file) == ~file.complete \/ Malformed(file) \/ "unclear" \in Heard(file)
FileLanguages(file) == NameLanguages(file.name) \cup (Heard(file) \cap {"typescript"})
FileManagers(file) == NameManagers(file.name) \cup (Heard(file) \cap {"npm", "pnpm", "yarn", "bun", "uv", "poetry"})
FileConfigures(file) ==
  (Heard(file) \cap {"ruff", "pytest", "eslint"}) \cup
  (IF file.complete /\ ~Malformed(file) THEN NameConfigures(file.name) ELSE {})
Says(tool) ==
  CASE tool = "eslint" -> "runs eslint" [] tool = "vitest" -> "runs vitest" [] OTHER -> "another script"
FileScripts(file) == {s \in {"eslint", "vitest", "lint"} : Says(s) \in Heard(file)}
FileFrameworks(file) == Heard(file) \cap {"FastAPI", "Vue"}

-----------------------------------------------------------------------------
\* makeComponents: the files of one directory.
Component(files, selected) ==
  LET managers == UNION {FileManagers(f) : f \in files}
  IN [languages |-> UNION {FileLanguages(f) : f \in files}, frameworks |-> UNION {FileFrameworks(f) : f \in files},
      manager |-> IF Cardinality(managers) = 1 THEN CHOOSE m \in managers : TRUE ELSE None,
      conflicting |-> Cardinality(managers) > 1,
      unclear |-> \E f \in files : Unclear(f),
      unknown |-> \E f \in files : "unknown manager" \in Heard(f),
      configured |-> UNION {FileConfigures(f) : f \in files}, scripts |-> UNION {FileScripts(f) : f \in files},
      selected |-> selected]
\* checkStatus.
Status(c, configured) ==
  CASE c.unclear \/ c.conflicting -> "ambiguous"
    [] ~(c.unclear \/ c.conflicting) /\ c.unknown -> "unsupported"
    [] ~(c.unclear \/ c.conflicting \/ c.unknown) /\ configured -> "existing"
    [] OTHER -> "setup_needed"
\* pythonPreview, nodeCommand and nodeRunScript: who runs the tool.
NodeManagers == {"npm", "pnpm", "yarn", "bun"}
Runner(c, tool) ==
  CASE tool \in {"ruff", "pytest"} -> IF c.manager \in {"uv", "poetry"} THEN c.manager ELSE ".venv"
    [] tool \in {"eslint", "vitest"} /\ tool \notin c.scripts -> "node_modules"
    [] tool \in c.scripts -> IF c.manager \in NodeManagers THEN c.manager ELSE None
    [] OTHER -> "go"
\* newCheck: no command for what is not understood, nothing to set up for what exists.
Check(c, tool, configured) ==
  LET status == Status(c, configured)
  IN [tool |-> tool, status |-> status,
      command |-> IF status \in {"ambiguous", "unsupported"} THEN None ELSE Runner(c, tool),
      setup |-> status # "existing"]
\* makeChecks.
Has(c, languages) == c.languages \cap c.selected \cap languages # {}
Checks(c) ==
  {Check(c, t, t \in c.configured) : t \in IF Has(c, {"python"}) THEN {"ruff", "pytest"} ELSE {}} \cup
  {Check(c, t, t \in c.configured \cup c.scripts) :
     t \in IF Has(c, {"javascript", "typescript"}) THEN {"eslint", "vitest"} ELSE {}} \cup
  {Check(c, t, TRUE) : t \in IF Has(c, {"javascript", "typescript"}) THEN c.scripts \cap {"lint"} ELSE {}} \cup
  {Check(c, t, FALSE) : t \in IF Has(c, {"go"}) THEN {"go-test"} ELSE {}}

Selection(requested) == IF requested = {} THEN Languages ELSE requested
Report(walk) ==
  LET selected == Selection(walk.requested)
      dirs == {Parent[f.node] : f \in walk.evidence}
      component == [d \in dirs |-> Component({f \in walk.evidence : Parent[f.node] = d}, selected)]
  IN [at |-> "done", partial |-> walk.partial, evidence |-> walk.evidence,
      components |-> component, checks |-> [d \in dirs |-> Checks(component[d])],
      languages |-> IF walk.requested = {} THEN UNION {component[d].languages : d \in dirs} ELSE walk.requested]

-----------------------------------------------------------------------------
SetupInit ==
  /\ store = None /\ world \in Trees /\ history = {} /\ budget = 0
  /\ calls \in [at : {"request"}, requested : Requests]

Walking == calls.at = "walk" /\ calls.stack # <<>>
Top == Last(calls.stack)
Below == Front(calls.stack)
Walk(walk) == calls' = walk
Keep == UNCHANGED <<store, world, history, budget>>

\* QualitySetup up to Inspect, and the check of the root there.
Begin ==
  /\ calls.at = "request"
  /\ Walk(IF ~Opens(Root, "dir") THEN [at |-> "refused"]
          ELSE [at |-> "walk", stack |-> <<[dir |-> Root, depth |-> 0, left |-> None]>>, requested |-> calls.requested,
                entries |-> MaxEntries, eligible |-> 0, evidence |-> {}, partial |-> FALSE])
  /\ Keep

\* visit and readDirectory: what is listed is in any order when there is more of it
\* than the limit leaves, and has the type that it had then.
OpenDirectory ==
  /\ Walking /\ Top.left = None
  /\ IF calls.entries = 0 \/ ~Opens(Top.dir, "dir")
     THEN Walk([calls EXCEPT !.stack = Below, !.partial = TRUE])
     ELSE LET there == {n \in Children(Top.dir) : world[n].type # "gone"}
          IN \E listed \in kSubset(Min({calls.entries, Cardinality(there)}), there) :
               Walk([calls EXCEPT !.entries = @ - Cardinality(listed),
                 !.partial = @ \/ calls.entries = Cardinality(listed),
                 !.stack[Len(calls.stack)].left = {[node |-> n, type |-> world[n].type, name |-> world[n].name] : n \in listed}])
  /\ Keep
\* One entry of a listing, the first by name.
Listed == Walking /\ Top.left \notin {None, {}}
First == CHOOSE e \in Top.left : \A f \in Top.left : e.node <= f.node
Entry(e) == [calls EXCEPT !.stack[Len(calls.stack)].left = @ \ {e}]
VisitDirectory ==
  /\ Listed /\ First.type = "dir"
  /\ LET e == First
     IN CASE e.name \in Excluded -> Walk(Entry(e))
          [] e.name \notin Excluded /\ Top.depth = MaxDepth -> Walk([Entry(e) EXCEPT !.partial = TRUE])
          [] e.name \notin Excluded /\ Top.depth # MaxDepth ->
               Walk([Entry(e) EXCEPT !.stack = Append(@, [dir |-> e.node, depth |-> Top.depth + 1, left |-> None])])
  /\ Keep
\* readEvidence: the file as it is now, if it is still one.
ReadEvidence(e) ==
  [node |-> e.node, name |-> e.name, complete |-> Opens(e.node, "file") /\ world[e.node].fits,
   says |-> IF Opens(e.node, "file") THEN world[e.node].says ELSE {}]
VisitFile ==
  /\ Listed /\ First.type # "dir"
  /\ LET e == First
     IN CASE e.type = "link" -> Walk([Entry(e) EXCEPT !.partial = TRUE])
          [] e.type = "file" /\ ~Recognized(e.name) -> Walk(Entry(e))
          [] e.type = "file" /\ Recognized(e.name) /\ calls.eligible = MaxEligible ->
               Walk([Entry(e) EXCEPT !.partial = TRUE])
          [] e.type = "file" /\ Recognized(e.name) /\ calls.eligible # MaxEligible ->
               Walk([Entry(e) EXCEPT !.eligible = @ + 1, !.evidence = @ \cup {ReadEvidence(e)},
                                     !.partial = @ \/ ~ReadEvidence(e).complete])
  /\ Keep
LeaveDirectory ==
  /\ Walking /\ Top.left = {} /\ Walk([calls EXCEPT !.stack = Below]) /\ Keep
\* The report, once the whole worktree is walked; a malformed file makes it partial.
Finish ==
  /\ calls.at = "walk" /\ calls.stack = <<>>
  /\ Walk([Report(calls) EXCEPT !.partial = @ \/ \E f \in calls.evidence : f.complete /\ Unclear(f)])
  /\ Keep
\* A request that is canceled has no report.
Cancel == Walking /\ Walk([at |-> "canceled"]) /\ Keep

\* Other programs: a file is written, replaced by a link or removed.
Change ==
  /\ calls.at \in {"request", "walk"} /\ budget < MaxChanges /\ budget' = budget + 1
  /\ \E n \in Nodes :
       /\ history' = history \cup {n}
       /\ \/ world[n].type # "gone" /\ \E t \in {"gone", "link"} : world' = [world EXCEPT ![n].type = t]
          \/ world[n].type = "file" /\ \E to \in {tree[n].says : tree \in Trees} : world' = [world EXCEPT ![n].says = to]
  /\ world' # world /\ UNCHANGED <<store, calls>>
SetupNext ==
  Begin \/ OpenDirectory \/ VisitDirectory \/ VisitFile \/ LeaveDirectory \/ Finish \/ Cancel \/ Change

-----------------------------------------------------------------------------
SetupTypeOK ==
  calls.at = "walk" =>
    /\ calls.entries \in 0..MaxEntries /\ calls.eligible \in 0..MaxEligible
    /\ Cardinality(calls.evidence) <= MaxEligible
    /\ \A i \in DOMAIN calls.stack : calls.stack[i].depth \in 0..MaxDepth

\* The files that are there: reached through directories that are not left out, and
\* untouched, as are those directories.
InPlace(n, top) == IF n = Root THEN world[Root].type = "dir" ELSE n \notin history /\ world[n].type = top
There(n) ==
  /\ n # Root /\ InPlace(n, "file") /\ Recognized(world[n].name)
  /\ \A d \in Ancestors[n] : InPlace(d, "dir") /\ (d = Root \/ world[d].name \notin Excluded)
\* A report that is not partial has every file that is there, as it is.
SetupIsCompleteOrPartial ==
  calls.at = "done" /\ ~calls.partial =>
    \A n \in DOMAIN Parent : There(n) =>
      [node |-> n, name |-> world[n].name, complete |-> TRUE, says |-> world[n].says] \in calls.evidence
\* "Setup needed" is not said of a tool that a file of the component configures or
\* runs, read or not, unless the report is partial; and there is a command only where
\* one manager at most is in question and every file was understood.
Configures(n, tool) ==
  \/ tool \in NameConfigures(world[n].name)
  \/ Parsed(world[n].name) /\ world[n].says \cap {tool, Says(tool)} # {}
SetupIsNotGuessed ==
  calls.at = "done" =>
    \A d \in DOMAIN calls.checks : \A check \in calls.checks[d] :
      /\ check.status = "setup_needed" /\ ~calls.partial =>
           \A n \in Children(d) : There(n) => ~Configures(n, check.tool)
      /\ check.command # None =>
           LET files == {f \in calls.evidence : Parent[f.node] = d}
           IN Cardinality(UNION {FileManagers(f) : f \in files}) <= 1 /\ \A f \in files : f.complete /\ "unclear" \notin f.says
      /\ check.status = "existing" => \E f \in calls.evidence :
           Parent[f.node] = d /\ (check.tool \in FileConfigures(f) \/ check.tool \in FileScripts(f))
=============================================================================

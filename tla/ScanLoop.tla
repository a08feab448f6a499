------------------------------ MODULE ScanLoop ------------------------------
(***************************************************************************)
(* Scans and findings: QueueScan, RunDoctor, RunScan, scanProject,         *)
(* refreshStale and AcknowledgeFinding of internal/app/app.go, with the    *)
(* reconciliation of internal/reconcile/findings.go.  The serve process    *)
(* takes requests from a channel of one place; CLI commands and other      *)
(* handlers call RunScan directly, in their own process.  One action is    *)
(* one storage call or one collection.                                     *)
(***************************************************************************)
EXTENDS Naturals, SequencesExt

CONSTANTS
  Projects, Repositories,
  Order,         \* ListProjects: the projects by id
  Holds,         \* project -> its repositories in order
  Serve,         \* the serve process
  Others,        \* processes that call RunScan themselves
  Conditions,    \* what a finding is about: dirty, detached, no remote, ...
  Watched,       \* projects whose findings a user looks at
  Defaulting,    \* conditions that an unread repository seems to have
  Supposed,      \* conditions that a repository seems to have when an optional read fails
  Hidden,        \* conditions that are missed when an optional read fails
  MaxChanges, MaxRequests, MaxAcknowledged, MaxFaults,   \* bounds
  None

VARIABLES
  facts,     \* repository -> the conditions it has now
  queue,     \* scanNow: a request is in the channel
  owed,      \* history: a request after which no scan has begun
  stage,     \* process -> where its RunScan is
  todo,      \* process -> projects still to scan, the current one first
  rest,      \* process -> repositories of it still to scan
  active,    \* process -> findings that RepositoryFindings derives as active
  previous,  \* process -> findings of the repository as ListFindings gave them
  unsaved,   \* process -> findings still to save
  failed,    \* process -> collectorFailed of the project; collectErr of the repository
  latest,    \* project -> LatestScanRun
  witnessed, \* history: process -> repositories of which this run has read all that it must
  findings,  \* table findings, by repository and kind
  stale,     \* table findings: the stale-scan finding of a project
  reader,    \* project -> what refreshStale has decided and not yet saved
  review,    \* a finding that AcknowledgeFinding has read and not yet saved
  budget     \* bounds: changes, requests, acknowledgements, faults so far

Processes == {Serve} \cup Others
Kinds == Conditions \cup {"collector_error"}
States == {"none", "open", "acknowledged", "resolved"}
Runs == {None} \cup [by : Processes, status : {"running", "succeeded", "failed"},
                     covered : SUBSET Repositories]

local == <<stage, todo, rest, active, previous, unsaved, failed, witnessed>>
tables == <<latest, findings, stale>>
people == <<facts, reader, review>>
scanVars == <<local, tables, people, queue, owed, budget>>

ScanInit ==
  /\ facts = [r \in Repositories |-> {}] /\ queue = FALSE /\ owed = FALSE
  /\ stage = [s \in Processes |-> IF s = Serve THEN "start" ELSE "idle"]
  /\ todo = [s \in Processes |-> <<>>] /\ rest = [s \in Processes |-> <<>>]
  /\ active = [s \in Processes |-> {}] /\ previous = [s \in Processes |-> None]
  /\ unsaved = [s \in Processes |-> {}]
  /\ failed = [s \in Processes |-> [project |-> FALSE, repository |-> FALSE]]
  /\ witnessed = [s \in Processes |-> {}]
  /\ latest = [p \in Projects |-> None]
  /\ findings = [r \in Repositories |-> [k \in Kinds |-> "none"]]
  /\ stale = [p \in Projects |-> "none"]
  /\ reader = [p \in Projects |-> None] /\ review = None
  /\ budget = [what \in {"changes", "requests", "acknowledged", "faults"} |-> 0]

Spend(what, most) == budget[what] < most /\ budget' = [budget EXCEPT ![what] = @ + 1]
Works == UNCHANGED budget
Fails == Spend("faults", MaxFaults)
Enter(s, next) == stage' = [stage EXCEPT ![s] = next]
Project(s) == Head(todo[s])
Repository(s) == Head(rest[s])

\* The conditions of a repository change (not under src/).
Change(r) ==
  /\ Spend("changes", MaxChanges)
  /\ \E now \in SUBSET Conditions : now # facts[r] /\ facts' = [facts EXCEPT ![r] = now]
  /\ UNCHANGED <<local, tables, reader, review, queue, owed>>

-----------------------------------------------------------------------------
\* A request while one is queued is dropped.
QueueScan ==
  /\ Spend("requests", MaxRequests)
  /\ queue' = TRUE /\ owed' = TRUE
  /\ UNCHANGED <<local, tables, people>>

\* RunDoctor: the startup scan, a request from the channel, or the ticker.
Take ==
  /\ stage[Serve] = "idle"
  /\ queue' = FALSE
  /\ Enter(Serve, "start")
  /\ UNCHANGED <<todo, rest, active, previous, unsaved, failed, witnessed, tables, people, owed, budget>>
\* project scan, cleanup, repository sync.
Call(s) ==
  /\ s \in Others /\ stage[s] = "idle" /\ Enter(s, "start")
  /\ UNCHANGED <<todo, rest, active, previous, unsaved, failed, witnessed, tables, people, queue, owed, budget>>

\* RunScan: ListProjects.  An error ends the call.
ListProjects(s) ==
  /\ stage[s] = "start"
  /\ \/ Works /\ todo' = [todo EXCEPT ![s] = Order] /\ Enter(s, "project")
     \/ Fails /\ Enter(s, "idle") /\ UNCHANGED todo
  /\ owed' = IF s = Serve THEN FALSE ELSE owed
  /\ UNCHANGED <<rest, active, previous, unsaved, failed, witnessed, tables, people, queue>>

Fail(s) == Fails /\ Enter(s, "abort")

\* scanProject: the run is stored as running.
OpenRun(s) ==
  /\ stage[s] = "project" /\ todo[s] # <<>>
  /\ \/ /\ Works /\ Enter(s, "repository")
        /\ latest' = [latest EXCEPT ![Project(s)] = [by |-> s, status |-> "running", covered |-> {}]]
     \/ Fails /\ Enter(s, "idle") /\ UNCHANGED latest
  /\ rest' = [rest EXCEPT ![s] = Holds[Project(s)]]
  /\ failed' = [failed EXCEPT ![s] = [project |-> FALSE, repository |-> FALSE]]
  /\ witnessed' = [witnessed EXCEPT ![s] = {}]
  /\ UNCHANGED <<todo, active, previous, unsaved, findings, stale, people, queue, owed>>

\* What the optional reads leave of the conditions of a repository: the branch, the
\* remotes, the upstream and its distance are unknown when such a read fails, and
\* nothing records that it did.
Guesses(r) == {found \in SUBSET Conditions : facts[r] \ Hidden \subseteq found /\ found \subseteq facts[r] \cup Supposed}
\* Mutant: worktrees that could not be read do not fail the run.
Collect_Lenient(s) ==
  /\ stage[s] = "repository" /\ rest[s] # <<>>
  /\ LET r == Repository(s)
     IN \/ /\ Works
           /\ active' = [active EXCEPT ![s] = facts[r]]
           /\ failed' = [failed EXCEPT ![s].repository = FALSE]
           /\ witnessed' = [witnessed EXCEPT ![s] = @ \cup {r}]
        \/ /\ Fails
           /\ active' = [active EXCEPT ![s] = facts[r] \cup {"collector_error"}]
           /\ failed' = [failed EXCEPT ![s].repository = FALSE]
           /\ UNCHANGED witnessed
  /\ Enter(s, "observe")
  /\ UNCHANGED <<todo, rest, previous, unsaved, tables, people, queue, owed>>

\* Collect and WorktreeDetails: everything is read; or an optional read fails, which
\* the run does not count; or the list of worktrees or some worktree is not read (a
\* finding, a failed run); or Collect stops at the root, HEAD or status, which are
\* required.
Collect(s) ==
  /\ stage[s] = "repository" /\ rest[s] # <<>>
  /\ LET r == Repository(s)
     IN \/ /\ \/ Works /\ active' = [active EXCEPT ![s] = facts[r]]
              \/ Fails /\ \E found \in Guesses(r) : active' = [active EXCEPT ![s] = found]
           /\ failed' = [failed EXCEPT ![s].repository = FALSE]
           /\ witnessed' = [witnessed EXCEPT ![s] = @ \cup {r}]
        \/ /\ Fails
           /\ \/ /\ \E found \in Guesses(r) : active' = [active EXCEPT ![s] = found \cup {"collector_error"}]
                 /\ failed' = [failed EXCEPT ![s] = [project |-> TRUE, repository |-> FALSE]]
              \/ /\ \E found \in SUBSET Supposed : active' = [active EXCEPT ![s] = found \cup Defaulting \cup {"collector_error"}]
                 /\ failed' = [failed EXCEPT ![s] = [project |-> TRUE, repository |-> TRUE]]
           /\ UNCHANGED witnessed
  /\ Enter(s, "observe")
  /\ UNCHANGED <<todo, rest, previous, unsaved, tables, people, queue, owed>>

\* Mutant: the previous findings are not read.
Observe_Unread(s) ==
  /\ stage[s] = "observe"
  /\ Works /\ Enter(s, "save") /\ unsaved' = [unsaved EXCEPT ![s] = active[s]]
  /\ UNCHANGED <<todo, rest, active, previous, failed, witnessed, tables, people, queue, owed>>

\* ReplaceWorktrees (skipped if Collect failed), SaveObservation and ListFindings.
Observe(s) ==
  /\ stage[s] = "observe"
  /\ \/ /\ Works /\ Enter(s, "save")
        /\ previous' = [previous EXCEPT ![s] = findings[Repository(s)]]
        /\ unsaved' = [unsaved EXCEPT ![s] =
             active[s] \cup {k \in Kinds : findings[Repository(s)][k] # "none"}]
     \/ Fail(s) /\ UNCHANGED <<previous, unsaved>>
  /\ UNCHANGED <<todo, rest, active, failed, witnessed, tables, people, queue, owed>>

\* Mutant: a finding that was acknowledged stays so when its condition is gone.
Reconciled_Keep(s, k) ==
  CASE previous[s][k] = "acknowledged" -> "acknowledged"
    [] k \in active[s] /\ previous[s][k] # "acknowledged" -> "open"
    [] OTHER -> "resolved"

\* RepositoryFindings: an active condition keeps an acknowledgement, and a
\* finding that is not active any more is resolved.
Reconciled(s, k) ==
  CASE k \notin active[s] -> "resolved"
    [] k \in active[s] /\ previous[s][k] = "acknowledged" -> "acknowledged"
    [] OTHER -> "open"

SaveFinding(s) ==
  /\ stage[s] = "save" /\ unsaved[s] # {}
  /\ \/ \E k \in unsaved[s] :
          /\ Works /\ findings' = [findings EXCEPT ![Repository(s)][k] = Reconciled(s, k)]
          /\ unsaved' = [unsaved EXCEPT ![s] = @ \ {k}] /\ UNCHANGED stage
     \/ Fail(s) /\ UNCHANGED <<findings, unsaved>>
  /\ UNCHANGED <<todo, rest, active, previous, failed, witnessed, latest, stale, people, queue, owed>>

\* recordCollectorFailure for a repository that could not be read, then the next one.
NextRepository(s) ==
  /\ stage[s] = "save" /\ unsaved[s] = {}
  /\ \/ Works /\ rest' = [rest EXCEPT ![s] = Tail(@)] /\ Enter(s, "repository")
     \/ failed[s].repository /\ Fail(s) /\ UNCHANGED rest
  /\ active' = [active EXCEPT ![s] = {}] /\ previous' = [previous EXCEPT ![s] = None]
  /\ UNCHANGED <<todo, unsaved, failed, witnessed, tables, people, queue, owed>>

Finished(s, status) ==
  IF latest[Project(s)].by = s
  THEN [latest EXCEPT ![Project(s)].status = status, ![Project(s)].covered = witnessed[s]]
  ELSE latest

\* Mutant: the outcome of the last repository is the outcome of the run.
CloseRun_Last(s) ==
  /\ stage[s] = "repository" /\ rest[s] = <<>>
  /\ \/ /\ Works /\ latest' = Finished(s, IF failed[s].repository THEN "failed" ELSE "succeeded")
        /\ todo' = [todo EXCEPT ![s] = Tail(@)] /\ Enter(s, "project")
     \/ Fail(s) /\ UNCHANGED <<latest, todo>>
  /\ UNCHANGED <<rest, active, previous, unsaved, failed, witnessed, findings, stale, people, queue, owed>>

\* The run is stored with its outcome, and the next project begins.
CloseRun(s) ==
  /\ stage[s] = "repository" /\ rest[s] = <<>>
  /\ \/ /\ Works /\ latest' = Finished(s, IF failed[s].project THEN "failed" ELSE "succeeded")
        /\ todo' = [todo EXCEPT ![s] = Tail(@)] /\ Enter(s, "project")
     \/ Fail(s) /\ UNCHANGED <<latest, todo>>
  /\ UNCHANGED <<rest, active, previous, unsaved, failed, witnessed, findings, stale, people, queue, owed>>

Done(s) ==
  /\ Enter(s, "idle")
  /\ todo' = [todo EXCEPT ![s] = <<>>] /\ rest' = [rest EXCEPT ![s] = <<>>]
  /\ active' = [active EXCEPT ![s] = {}] /\ previous' = [previous EXCEPT ![s] = None]
  /\ unsaved' = [unsaved EXCEPT ![s] = {}] /\ witnessed' = [witnessed EXCEPT ![s] = {}]
  /\ failed' = [failed EXCEPT ![s] = [project |-> FALSE, repository |-> FALSE]]

\* Mutant: an error of a scan ends the loop of RunDoctor.
Abort_Ends(s) ==
  /\ stage[s] = "abort" /\ latest' = Finished(s, "failed")
  /\ UNCHANGED <<local, findings, stale, people, queue, owed, budget>>

\* The deferred SaveScanRun of scanProject, which may fail too; RunScan then
\* returns, and the projects after this one are not scanned.
Abort(s) ==
  /\ stage[s] = "abort"
  /\ \/ Works /\ latest' = Finished(s, "failed")
     \/ Fails /\ UNCHANGED latest
  /\ Done(s) /\ UNCHANGED <<findings, stale, people, queue, owed>>

\* The completion event, and the return of RunScan.
Return(s) ==
  /\ stage[s] = "project" /\ todo[s] = <<>>
  /\ Done(s) /\ UNCHANGED <<tables, people, queue, owed, budget>>

\* The process is killed: the channel and the scan are lost; serve starts again
\* with its startup scan.
Crash(s) ==
  /\ stage[s] # "idle" \/ (s = Serve /\ queue)
  /\ Fails
  /\ todo' = [todo EXCEPT ![s] = <<>>] /\ rest' = [rest EXCEPT ![s] = <<>>]
  /\ active' = [active EXCEPT ![s] = {}] /\ previous' = [previous EXCEPT ![s] = None]
  /\ unsaved' = [unsaved EXCEPT ![s] = {}] /\ witnessed' = [witnessed EXCEPT ![s] = {}]
  /\ failed' = [failed EXCEPT ![s] = [project |-> FALSE, repository |-> FALSE]]
  /\ Enter(s, IF s = Serve THEN "start" ELSE "idle")
  /\ queue' = IF s = Serve THEN FALSE ELSE queue
  /\ UNCHANGED <<tables, people, owed>>

-----------------------------------------------------------------------------
\* AcknowledgeFinding reads the finding and later stores all of it.
AcknowledgeRead(r, k) ==
  /\ review = None /\ findings[r][k] # "none"
  /\ Spend("acknowledged", MaxAcknowledged)
  /\ review' = <<r, k>> /\ UNCHANGED <<local, tables, facts, reader, queue, owed>>
AcknowledgeSave ==
  /\ review # None
  /\ findings' = [findings EXCEPT ![review[1]][review[2]] = "acknowledged"]
  /\ review' = None /\ UNCHANGED <<local, latest, stale, facts, reader, queue, owed, budget>>

\* Reading the findings of a project refreshes its stale mark: a run that is
\* missing, did not succeed or is too old opens it, otherwise it is resolved.
RefreshRead(p) ==
  /\ reader[p] = None
  /\ \E old \in BOOLEAN :
       reader' = [reader EXCEPT ![p] =
         IF latest[p] = None \/ latest[p].status # "succeeded" \/ old
         THEN IF stale[p] = "acknowledged" THEN "acknowledged" ELSE "open"
         ELSE IF stale[p] \in {"open", "acknowledged"} THEN "resolved" ELSE None]
  /\ UNCHANGED <<local, tables, facts, review, queue, owed, budget>>
RefreshSave(p) ==
  /\ reader[p] # None /\ stale' = [stale EXCEPT ![p] = reader[p]]
  /\ reader' = [reader EXCEPT ![p] = None]
  /\ UNCHANGED <<local, latest, findings, facts, review, queue, owed, budget>>

-----------------------------------------------------------------------------
Step(s) ==
  \/ ListProjects(s) \/ OpenRun(s) \/ Collect(s) \/ Observe(s) \/ SaveFinding(s)
  \/ NextRepository(s) \/ CloseRun(s) \/ Abort(s) \/ Return(s)
User ==
  \/ QueueScan \/ AcknowledgeSave
  \/ \E r \in Repositories, k \in Kinds : AcknowledgeRead(r, k)
  \/ \E p \in Watched : RefreshRead(p) \/ RefreshSave(p)
ScanNext ==
  \/ \E s \in Processes : Step(s) \/ Call(s) \/ Crash(s)
  \/ \E r \in Repositories : Change(r)
  \/ Take \/ User
ScanSpec == ScanInit /\ [][ScanNext]_scanVars
\* A scan that has begun goes on, the loop takes what is next (the ticker fires
\* for ever), and a handler that has read a finding stores it.
ScanFair == ScanSpec /\ WF_scanVars(Take) /\ WF_scanVars(AcknowledgeSave)
                     /\ \A s \in Processes : WF_scanVars(Step(s))

-----------------------------------------------------------------------------
ScanTypeOK ==
  /\ facts \in [Repositories -> SUBSET Conditions] /\ queue \in BOOLEAN /\ owed \in BOOLEAN
  /\ stage \in [Processes -> {"idle", "start", "project", "repository", "observe", "save", "abort"}]
  /\ todo \in [Processes -> Seq(Projects)] /\ rest \in [Processes -> Seq(Repositories)]
  /\ active \in [Processes -> SUBSET Kinds] /\ unsaved \in [Processes -> SUBSET Kinds]
  /\ previous \in [Processes -> [Kinds -> States] \cup {None}]
  /\ \A s \in Processes : stage[s] = "save" => previous[s] # None
  /\ failed \in [Processes -> [project : BOOLEAN, repository : BOOLEAN]]
  /\ witnessed \in [Processes -> SUBSET Repositories]
  /\ latest \in [Projects -> Runs]
  /\ findings \in [Repositories -> [Kinds -> States]]
  /\ stale \in [Projects -> States] /\ reader \in [Projects -> States \cup {None}]
  /\ review \in (Repositories \X Kinds) \cup {None}
  /\ budget \in [{"changes", "requests", "acknowledged", "faults"} -> Nat]
  /\ budget["changes"] <= MaxChanges /\ budget["requests"] <= MaxRequests
  /\ budget["acknowledged"] <= MaxAcknowledged /\ budget["faults"] <= MaxFaults

\* A scan run that is reported as succeeded has read of every repository of its
\* project what it must, the root, HEAD, status, list of worktrees and each of them,
\* whatever failed, was killed or ran beside it.  The optional reads are not in
\* this: when one fails the run succeeds all the same (git.go:191-212), although
\* docs/MILESTONE_1_VERIFICATION.md:29 promises "a completed, failed ScanRun".
ScanReportsAreTrue ==
  \A p \in Projects :
    latest[p] # None /\ latest[p].status = "succeeded" => latest[p].covered = ToSet(Holds[p])

\* A request is dropped when one is queued already, or with the process that
\* held it, but a scan that begins after it always comes (app.go:762).
RequestIsServed == owed ~> ~owed

\* Once repositories stay as they are and nothing fails, the findings come to
\* agree with them, in spite of scans that overlapped and of acknowledgements
\* stored over a newer finding (app.go:1182).
FindingsAgree ==
  \A r \in Repositories, k \in Kinds :
    (findings[r][k] \in {"open", "acknowledged"}) = (k \in facts[r])
FindingsSettle == <>[]FindingsAgree
=============================================================================

--------------------------- MODULE ScanLoopProofs ---------------------------
(***************************************************************************)
(* Proofs about ScanLoop: a scan run is reported as succeeded only when it *)
(* has read all that it must of every repository of its project, for any   *)
(* projects, repositories and processes.                                   *)
(***************************************************************************)
EXTENDS ScanLoop, SequenceTheorems, TLAPS

StoredRuns == [by : Processes, status : {"running", "succeeded", "failed"},
               covered : SUBSET Repositories]

\* What the constants are: every project has its repositories in some order,
\* and None is none of the values it stands beside.
ScanConstants ==
  /\ Order \in Seq(Projects) /\ Holds \in [Projects -> Seq(Repositories)]
  /\ Defaulting \subseteq Conditions /\ Supposed \subseteq Conditions /\ Watched \subseteq Projects
  /\ MaxChanges \in Nat /\ MaxRequests \in Nat /\ MaxAcknowledged \in Nat /\ MaxFaults \in Nat
  /\ None \notin States /\ None \notin [Kinds -> States] /\ None \notin StoredRuns

-----------------------------------------------------------------------------
\* A process inside scanProject has a project whose run is stored.
Running == {"repository", "observe", "save", "abort"}
HasRun(s) == stage[s] \in Running => todo[s] # <<>> /\ latest[Project(s)] # None

\* As long as no failure was counted, the repositories that were read and those
\* still to scan make up the project; the one in work was read.
Counted(s) ==
  /\ stage[s] \in {"repository", "observe", "save"} /\ ~failed[s].project
     => witnessed[s] \cup ToSet(rest[s]) = ToSet(Holds[Project(s)])
  /\ stage[s] \in {"observe", "save"}
     => rest[s] # <<>> /\ (~failed[s].project => Repository(s) \in witnessed[s])

ScanInv ==
  /\ ScanTypeOK
  /\ \A s \in Processes : HasRun(s) /\ Counted(s)
  /\ ScanReportsAreTrue

-----------------------------------------------------------------------------
\* The elements of a sequence are its head and those of its tail.
LEMMA HeadAndTail ==
  ASSUME NEW S, NEW q \in Seq(S), q # <<>>
  PROVE  /\ Head(q) \in S /\ Tail(q) \in Seq(S)
         /\ ToSet(q) = {Head(q)} \cup ToSet(Tail(q))
<1>1. /\ Head(q) \in S /\ Tail(q) \in Seq(S) /\ Len(Tail(q)) = Len(q) - 1
      /\ \A i \in 1..Len(Tail(q)) : Tail(q)[i] = q[i + 1]
  BY HeadTailProperties
<1>2. Len(q) \in Nat \ {0} /\ DOMAIN q = 1..Len(q) /\ DOMAIN Tail(q) = 1..Len(Tail(q))
  BY <1>1, EmptySeq, LenProperties
<1>3. Head(q) = q[1]
  BY <1>2
<1>4. ASSUME NEW e \in ToSet(q) PROVE e \in {Head(q)} \cup ToSet(Tail(q))
  <2>1. PICK i \in 1..Len(q) : e = q[i]
    BY <1>2 DEF ToSet
  <2>2. CASE i = 1
    BY <1>3, <2>1, <2>2
  <2>3. CASE i # 1
    <3>1. i - 1 \in 1..Len(Tail(q)) /\ (i - 1) + 1 = i
      BY <1>1, <1>2, <2>3
    <3>2. e = Tail(q)[i - 1]
      BY <1>1, <2>1, <3>1
    <3> QED BY <1>2, <3>1, <3>2 DEF ToSet
  <2> QED BY <2>2, <2>3
<1>5. ASSUME NEW e \in ToSet(Tail(q)) PROVE e \in ToSet(q)
  <2>1. PICK i \in 1..Len(Tail(q)) : e = Tail(q)[i]
    BY <1>2 DEF ToSet
  <2>2. i + 1 \in 1..Len(q)
    BY <1>1, <1>2
  <2> QED BY <1>1, <1>2, <2>1, <2>2 DEF ToSet
<1>6. Head(q) \in ToSet(q)
  BY <1>2, <1>3 DEF ToSet
<1> QED BY <1>1, <1>4, <1>5, <1>6

LEMMA EmptyHasNothing == ToSet(<<>>) = {}
BY DEF ToSet

\* A charge to a bound keeps the bounds.
WithinBounds ==
  /\ budget \in [{"changes", "requests", "acknowledged", "faults"} -> Nat]
  /\ budget["changes"] <= MaxChanges /\ budget["requests"] <= MaxRequests
  /\ budget["acknowledged"] <= MaxAcknowledged /\ budget["faults"] <= MaxFaults
LEMMA SpendKeepsBounds ==
  ASSUME ScanConstants, ScanTypeOK,
         \/ Spend("changes", MaxChanges) \/ Spend("requests", MaxRequests)
         \/ Spend("acknowledged", MaxAcknowledged) \/ Spend("faults", MaxFaults)
  PROVE  WithinBounds'
BY DEF ScanConstants, ScanTypeOK, Spend, WithinBounds

LEMMA ScanInitially ==
  ASSUME ScanConstants, ScanInit
  PROVE  ScanInv
<1>1. ScanTypeOK
  <2>1. WithinBounds
    BY DEF ScanConstants, ScanInit, WithinBounds
  <2>2. /\ todo \in [Processes -> Seq(Projects)] /\ rest \in [Processes -> Seq(Repositories)]
        /\ stage \in [Processes -> {"idle", "start", "project", "repository", "observe", "save", "abort"}]
        /\ \A s \in Processes : stage[s] # "save"
    BY EmptySeq DEF ScanInit
  <2>3. /\ findings \in [Repositories -> [Kinds -> States]] /\ stale \in [Projects -> States]
        /\ failed \in [Processes -> [project : BOOLEAN, repository : BOOLEAN]]
    BY DEF ScanInit, States
  <2> QED BY <2>1, <2>2, <2>3 DEF ScanInit, ScanTypeOK, WithinBounds, Runs
<1>2. \A s \in Processes : HasRun(s) /\ Counted(s)
  BY DEF ScanInit, HasRun, Counted, Running
<1>3. ScanReportsAreTrue
  BY DEF ScanInit, ScanReportsAreTrue
<1> QED BY <1>1, <1>2, <1>3 DEF ScanInv

-----------------------------------------------------------------------------
\* A step of one process keeps the invariant of the others: it changes their
\* runs at most from one stored run to another.
LEMMA OthersAreKept ==
  ASSUME ScanInv, NEW s \in Processes, ScanTypeOK', HasRun(s)', Counted(s)',
         \A x \in Processes \ {s} :
           /\ stage'[x] = stage[x] /\ todo'[x] = todo[x] /\ rest'[x] = rest[x]
           /\ failed'[x] = failed[x] /\ witnessed'[x] = witnessed[x],
         \A p \in Projects : latest[p] # None => latest'[p] # None,
         ScanReportsAreTrue'
  PROVE  ScanInv'
<1>1. ASSUME NEW x \in Processes \ {s}
      PROVE  (HasRun(x) /\ Counted(x))'
  <2>1. HasRun(x) /\ Counted(x)
    BY DEF ScanInv
  <2>2. stage[x] \in Running => Project(x) \in Projects
    BY <2>1, HeadTailProperties DEF ScanInv, ScanTypeOK, HasRun, Project
  <2> QED BY <2>1, <2>2 DEF HasRun, Counted, Project, Repository
<1> QED BY <1>1 DEF ScanInv

\* A step that leaves the scans and their stored runs alone.
LEMMA ScansAreKept ==
  ASSUME ScanInv, ScanTypeOK', UNCHANGED <<stage, todo, rest, failed, witnessed, latest>>
  PROVE  ScanInv'
BY DEF ScanInv, HasRun, Counted, ScanReportsAreTrue, Project, Repository

LEMMA UserStep ==
  ASSUME ScanConstants, ScanInv, User \/ \E r \in Repositories : Change(r)
  PROVE  ScanInv'
<1>1. UNCHANGED <<stage, todo, rest, active, previous, unsaved, failed, witnessed, latest>>
  BY DEF User, Change, QueueScan, AcknowledgeSave, AcknowledgeRead, RefreshRead, RefreshSave,
         local, tables
<1>2. WithinBounds'
  <2>1. UNCHANGED budget => WithinBounds'
    BY DEF ScanInv, ScanTypeOK, WithinBounds
  <2> QED BY <2>1, SpendKeepsBounds DEF ScanInv, User, Change, QueueScan, AcknowledgeSave,
            AcknowledgeRead, RefreshRead, RefreshSave
<1> DEFINE Inputs == facts' \in [Repositories -> SUBSET Conditions] /\ queue' \in BOOLEAN /\ owed' \in BOOLEAN
<1>3. Inputs
  <2>1. ASSUME NEW r \in Repositories, Change(r) PROVE Inputs
    BY <2>1 DEF Change, ScanInv, ScanTypeOK
  <2>2. CASE User
    BY <2>2 DEF ScanInv, ScanTypeOK, User, QueueScan, AcknowledgeSave, AcknowledgeRead,
                RefreshRead, RefreshSave, people
  <2> QED BY <2>1, <2>2
<1>4. /\ findings' \in [Repositories -> [Kinds -> States]]
      /\ review' \in (Repositories \X Kinds) \cup {None}
  <2>1. CASE AcknowledgeSave
    BY <2>1 DEF AcknowledgeSave, ScanInv, ScanTypeOK, States
  <2>2. CASE ~AcknowledgeSave
    BY <2>2 DEF ScanInv, ScanTypeOK, User, Change, QueueScan, AcknowledgeRead, RefreshRead,
                RefreshSave, people, tables
  <2> QED BY <2>1, <2>2
<1> DEFINE Marks == stale' \in [Projects -> States] /\ reader' \in [Projects -> States \cup {None}]
<1>5. Marks
  <2>1. ASSUME NEW p \in Watched, RefreshRead(p) PROVE  Marks
    BY <2>1 DEF RefreshRead, ScanInv, ScanTypeOK, ScanConstants, States, tables
  <2>2. ASSUME NEW p \in Watched, RefreshSave(p) PROVE  Marks
    BY <2>2 DEF RefreshSave, ScanInv, ScanTypeOK, ScanConstants
  <2>3. CASE ~\E p \in Watched : RefreshRead(p) \/ RefreshSave(p)
    BY <2>3 DEF ScanInv, ScanTypeOK, User, Change, QueueScan, AcknowledgeRead, AcknowledgeSave,
                people, tables
  <2> QED BY <2>1, <2>2, <2>3
<1>6. ScanTypeOK'
  BY <1>1, <1>2, <1>3, <1>4, <1>5 DEF ScanInv, ScanTypeOK, WithinBounds
<1> QED BY <1>1, <1>6, ScansAreKept

-----------------------------------------------------------------------------
\* Only CloseRun and Abort end a run, and only the process's own; the others
\* leave the outcome of every run as it is.
LEMMA TakeStep ==
  ASSUME ScanConstants, ScanInv, Take
  PROVE  ScanInv'
<1>1. /\ stage[Serve] = "idle" /\ stage' = [stage EXCEPT ![Serve] = "start"] /\ queue' = FALSE
      /\ UNCHANGED <<todo, rest, active, previous, unsaved, failed, witnessed, latest, findings,
                     stale, facts, reader, review, owed, budget>>
  BY DEF Take, Enter, tables, people
<1>2. ScanTypeOK' /\ Serve \in Processes
  BY <1>1 DEF ScanInv, ScanTypeOK, Processes
<1>3. HasRun(Serve)' /\ Counted(Serve)' /\ ScanReportsAreTrue'
  BY <1>1, <1>2 DEF ScanInv, ScanTypeOK, HasRun, Counted, Running, ScanReportsAreTrue
<1>4. \A x \in Processes \ {Serve} : stage'[x] = stage[x]
  BY <1>1 DEF ScanInv, ScanTypeOK
<1> QED BY <1>1, <1>2, <1>3, <1>4, OthersAreKept

LEMMA CallStep ==
  ASSUME ScanConstants, ScanInv, NEW s \in Processes, Call(s)
  PROVE  ScanInv'
<1>1. /\ stage' = [stage EXCEPT ![s] = "start"]
      /\ UNCHANGED <<todo, rest, active, previous, unsaved, failed, witnessed, latest, findings,
                     stale, facts, reader, review, queue, owed, budget>>
  BY DEF Call, Enter, tables, people
<1>2. ScanTypeOK'
  BY <1>1 DEF ScanInv, ScanTypeOK
<1>3. HasRun(s)' /\ Counted(s)' /\ ScanReportsAreTrue'
  BY <1>1, <1>2 DEF ScanInv, ScanTypeOK, HasRun, Counted, Running, ScanReportsAreTrue
<1>4. \A x \in Processes \ {s} : stage'[x] = stage[x]
  BY <1>1 DEF ScanInv, ScanTypeOK
<1> QED BY <1>1, <1>2, <1>3, <1>4, OthersAreKept

\* Every step of RunScan works, fails at a cost, or needs no call.
LEMMA StepIsBounded ==
  ASSUME ScanConstants, ScanInv, NEW s \in Processes, Step(s) \/ Crash(s)
  PROVE  /\ WithinBounds'
         /\ UNCHANGED <<facts, reader, review, stale>>
<1>1. UNCHANGED budget => WithinBounds'
  BY DEF ScanInv, ScanTypeOK, WithinBounds
<1>2. Works \/ Fails
  BY DEF Step, Crash, ListProjects, OpenRun, Collect, Observe, SaveFinding, NextRepository,
         CloseRun, Abort, Return, Fail, Works
<1>3. UNCHANGED <<facts, reader, review, stale>>
  BY DEF Step, Crash, ListProjects, OpenRun, Collect, Observe, SaveFinding, NextRepository,
         CloseRun, Abort, Return, tables, people
<1> QED BY <1>1, <1>2, <1>3, SpendKeepsBounds DEF ScanInv, Works, Fails

\* What a process leaves behind when RunScan returns or the process dies.
LEMMA Returned ==
  ASSUME ScanConstants, ScanInv, NEW s \in Processes, WithinBounds',
         UNCHANGED <<facts, reader, review, stale, findings>>, latest' \in [Projects -> Runs],
         queue' \in BOOLEAN, owed' \in BOOLEAN, NEW next \in {"idle", "start"},
         stage' = [stage EXCEPT ![s] = next],
         todo' = [todo EXCEPT ![s] = <<>>], rest' = [rest EXCEPT ![s] = <<>>],
         active' = [active EXCEPT ![s] = {}], previous' = [previous EXCEPT ![s] = None],
         unsaved' = [unsaved EXCEPT ![s] = {}], witnessed' = [witnessed EXCEPT ![s] = {}],
         failed' = [failed EXCEPT ![s] = [project |-> FALSE, repository |-> FALSE]],
         \A p \in Projects : latest[p] # None => latest'[p] # None,
         ScanReportsAreTrue'
  PROVE  ScanInv'
<1>1. ScanTypeOK'
  <2>1. todo' \in [Processes -> Seq(Projects)] /\ rest' \in [Processes -> Seq(Repositories)]
    BY EmptySeq DEF ScanInv, ScanTypeOK
  <2> QED BY <2>1 DEF ScanInv, ScanTypeOK, WithinBounds
<1>2. HasRun(s)' /\ Counted(s)'
  BY DEF ScanInv, ScanTypeOK, HasRun, Counted, Running
<1>3. \A x \in Processes \ {s} :
        /\ stage'[x] = stage[x] /\ todo'[x] = todo[x] /\ rest'[x] = rest[x]
        /\ failed'[x] = failed[x] /\ witnessed'[x] = witnessed[x]
  BY DEF ScanInv, ScanTypeOK
<1> QED BY <1>1, <1>2, <1>3, OthersAreKept

LEMMA CrashStep ==
  ASSUME ScanConstants, ScanInv, NEW s \in Processes, Crash(s)
  PROVE  ScanInv'
<1>1. WithinBounds' /\ UNCHANGED <<facts, reader, review, stale>>
  BY StepIsBounded
<1>2. UNCHANGED <<latest, findings, owed>> /\ queue' \in BOOLEAN
  BY DEF Crash, tables, ScanInv, ScanTypeOK
<1>3. /\ latest' \in [Projects -> Runs] /\ owed' \in BOOLEAN /\ ScanReportsAreTrue'
      /\ \A p \in Projects : latest[p] # None => latest'[p] # None
  BY <1>2 DEF ScanInv, ScanTypeOK, ScanReportsAreTrue
<1>4. \E next \in {"idle", "start"} : stage' = [stage EXCEPT ![s] = next]
  BY DEF Crash, Enter
<1> QED BY <1>1, <1>2, <1>3, <1>4, Returned DEF Crash

\* A run that ends keeps its project's other runs, is no longer running, and is
\* a success only if it covered the project.
LEMMA FinishedRun ==
  ASSUME ScanConstants, ScanInv, NEW s \in Processes, HasRun(s), stage[s] \in Running,
         NEW status \in {"succeeded", "failed"}, latest' = Finished(s, status),
         status = "succeeded" => witnessed[s] = ToSet(Holds[Project(s)])
  PROVE  /\ latest' \in [Projects -> Runs] /\ ScanReportsAreTrue'
         /\ \A p \in Projects : latest[p] # None => latest'[p] # None
<1>1. Project(s) \in Projects /\ latest[Project(s)] # None
  BY HeadTailProperties DEF HasRun, ScanInv, ScanTypeOK, Project
<1> DEFINE scanned == Project(s)
           old == latest[scanned]
           new == [old EXCEPT !.status = status, !.covered = witnessed[s]]
<1>2. old \in StoredRuns /\ witnessed[s] \in SUBSET Repositories /\ latest \in [Projects -> Runs]
  BY <1>1 DEF ScanInv, ScanTypeOK, Runs, StoredRuns
<1>3. new \in StoredRuns /\ new.status = status /\ new.covered = witnessed[s] /\ new # None
  BY <1>2 DEF StoredRuns, ScanConstants
<1>4. latest' = latest \/ latest' = [latest EXCEPT ![scanned] = new]
  BY <1>1, <1>2 DEF Finished, StoredRuns
<1> HIDE DEF new, scanned
<1>5. CASE latest' = latest
  BY <1>5, <1>2 DEF ScanInv, ScanReportsAreTrue
<1>6. CASE latest' = [latest EXCEPT ![scanned] = new]
  <2>1. latest' \in [Projects -> Runs] /\ latest'[scanned] = new /\ \A q \in Projects \ {scanned} : latest'[q] = latest[q]
    BY <1>1, <1>2, <1>3, <1>6 DEF Runs, StoredRuns, scanned
  <2> QED BY <1>3, <2>1 DEF ScanInv, ScanReportsAreTrue, scanned
<1> QED BY <1>4, <1>5, <1>6

LEMMA ReturnStep ==
  ASSUME ScanConstants, ScanInv, NEW s \in Processes, Return(s)
  PROVE  ScanInv'
<1>1. WithinBounds' /\ UNCHANGED <<facts, reader, review, stale, latest, findings, owed, queue>>
  BY StepIsBounded DEF Return, Step, tables
<1>2. latest' \in [Projects -> Runs] /\ owed' \in BOOLEAN /\ queue' \in BOOLEAN /\ ScanReportsAreTrue'
  BY <1>1 DEF ScanInv, ScanTypeOK, ScanReportsAreTrue
<1> QED BY <1>1, <1>2, Returned DEF Return, Done, Enter

LEMMA AbortStep ==
  ASSUME ScanConstants, ScanInv, NEW s \in Processes, Abort(s)
  PROVE  ScanInv'
<1>1. /\ WithinBounds' /\ UNCHANGED <<facts, reader, review, stale, findings, owed, queue>>
      /\ stage[s] = "abort"
  BY StepIsBounded DEF Abort, Step, people
<1>2. queue' \in BOOLEAN /\ owed' \in BOOLEAN
  BY <1>1 DEF ScanInv, ScanTypeOK
<1>3. /\ latest' \in [Projects -> Runs] /\ ScanReportsAreTrue'
      /\ \A p \in Projects : latest[p] # None => latest'[p] # None
  <2>1. CASE latest' = Finished(s, "failed")
    BY <1>1, <2>1, FinishedRun DEF ScanInv, Running
  <2>2. CASE UNCHANGED latest
    BY <2>2 DEF ScanInv, ScanTypeOK, ScanReportsAreTrue
  <2> QED BY <2>1, <2>2 DEF Abort
<1> QED BY <1>1, <1>2, <1>3, Returned DEF Abort, Done, Enter

LEMMA ListProjectsStep ==
  ASSUME ScanConstants, ScanInv, NEW s \in Processes, ListProjects(s)
  PROVE  ScanInv'
<1>1. /\ WithinBounds' /\ owed' \in BOOLEAN
      /\ UNCHANGED <<rest, active, previous, unsaved, failed, witnessed, latest, findings, stale,
                     facts, reader, review, queue>>
  BY StepIsBounded DEF ListProjects, Step, ScanInv, ScanTypeOK, tables, people
<1>2. /\ \E next \in {"project", "idle"} : stage' = [stage EXCEPT ![s] = next]
      /\ todo' = [todo EXCEPT ![s] = Order] \/ UNCHANGED todo
  BY DEF ListProjects, Enter
<1>3. ScanTypeOK'
  <2>1. /\ stage \in [Processes -> {"idle", "start", "project", "repository", "observe", "save", "abort"}]
        /\ todo \in [Processes -> Seq(Projects)] /\ Order \in Seq(Projects)
    BY DEF ScanInv, ScanTypeOK, ScanConstants
  <2>2. /\ stage' \in [Processes -> {"idle", "start", "project", "repository", "observe", "save", "abort"}]
        /\ todo' \in [Processes -> Seq(Projects)]
        /\ \A x \in Processes : stage'[x] = "save" => stage[x] = "save"
    BY <1>2, <2>1
  <2> QED BY <1>1, <2>2 DEF ScanInv, ScanTypeOK, WithinBounds
<1>4. HasRun(s)' /\ Counted(s)' /\ ScanReportsAreTrue'
  BY <1>1, <1>2 DEF ScanInv, ScanTypeOK, HasRun, Counted, Running, ScanReportsAreTrue
<1>5. \A x \in Processes \ {s} : stage'[x] = stage[x] /\ todo'[x] = todo[x]
  BY <1>2 DEF ScanInv, ScanTypeOK
<1> QED BY <1>1, <1>3, <1>4, <1>5, OthersAreKept

LEMMA OpenRunStep ==
  ASSUME ScanConstants, ScanInv, NEW s \in Processes, OpenRun(s)
  PROVE  ScanInv'
<1> DEFINE scanned == Project(s)
           run == [by |-> s, status |-> "running", covered |-> {}]
<1>1. /\ WithinBounds' /\ stage[s] = "project" /\ todo[s] # <<>>
      /\ UNCHANGED <<todo, active, previous, unsaved, findings, stale, facts, reader, review, queue, owed>>
  BY StepIsBounded DEF OpenRun, Step, people
<1>2. scanned \in Projects
  BY <1>1, HeadTailProperties DEF ScanInv, ScanTypeOK, Project
<1>3. /\ rest' = [rest EXCEPT ![s] = Holds[scanned]] /\ witnessed' = [witnessed EXCEPT ![s] = {}]
      /\ failed' = [failed EXCEPT ![s] = [project |-> FALSE, repository |-> FALSE]]
      /\ \/ stage' = [stage EXCEPT ![s] = "repository"] /\ latest' = [latest EXCEPT ![scanned] = run]
         \/ stage' = [stage EXCEPT ![s] = "idle"] /\ UNCHANGED latest
  BY DEF OpenRun, Enter
<1>4. run \in Runs /\ run # None /\ run.status = "running"
  BY DEF Runs, StoredRuns, ScanConstants
<1> HIDE DEF run
<1>5. latest' \in [Projects -> Runs] /\ \A q \in Projects : latest[q] # None => latest'[q] # None
  <2>1. latest \in [Projects -> Runs]
    BY DEF ScanInv, ScanTypeOK
  <2> QED BY <1>2, <1>3, <1>4, <2>1
<1>6. ScanTypeOK'
  <2>1. rest' \in [Processes -> Seq(Repositories)]
    BY <1>2, <1>3 DEF ScanInv, ScanTypeOK, ScanConstants
  <2>2. stage' \in [Processes -> {"idle", "start", "project", "repository", "observe", "save", "abort"}]
        /\ \A x \in Processes : stage'[x] = "save" => stage[x] = "save"
    BY <1>3 DEF ScanInv, ScanTypeOK
  <2>3. /\ witnessed' \in [Processes -> SUBSET Repositories]
        /\ failed' \in [Processes -> [project : BOOLEAN, repository : BOOLEAN]]
    BY <1>3 DEF ScanInv, ScanTypeOK
  <2> QED BY <1>1, <1>5, <2>1, <2>2, <2>3 DEF ScanInv, ScanTypeOK, WithinBounds
<1>7. HasRun(s)'
  BY <1>1, <1>2, <1>3, <1>4 DEF ScanInv, ScanTypeOK, HasRun, Running, Project
<1>8. Counted(s)'
  BY <1>1, <1>2, <1>3 DEF ScanInv, ScanTypeOK, Counted, Project
<1>9. ScanReportsAreTrue'
  BY <1>2, <1>3, <1>4 DEF ScanInv, ScanTypeOK, ScanReportsAreTrue
<1>10. \A x \in Processes \ {s} :
         /\ stage'[x] = stage[x] /\ rest'[x] = rest[x]
         /\ failed'[x] = failed[x] /\ witnessed'[x] = witnessed[x]
  BY <1>3 DEF ScanInv, ScanTypeOK
<1> QED BY <1>1, <1>5, <1>6, <1>7, <1>8, <1>9, <1>10, OthersAreKept

\* A repository is counted when all that must be read of it was; otherwise the
\* project has failed.
LEMMA CollectStep ==
  ASSUME ScanConstants, ScanInv, NEW s \in Processes, Collect(s)
  PROVE  ScanInv'
<1> DEFINE r == Repository(s)
<1>1. /\ WithinBounds' /\ stage[s] = "repository" /\ rest[s] # <<>>
      /\ stage' = [stage EXCEPT ![s] = "observe"]
      /\ UNCHANGED <<todo, rest, previous, unsaved, latest, findings, stale, facts, reader, review, queue, owed>>
  BY StepIsBounded DEF Collect, Step, Enter, people, tables
<1>2. /\ r \in Repositories /\ ToSet(rest[s]) = {r} \cup ToSet(Tail(rest[s]))
      /\ facts[r] \in SUBSET Conditions
  BY <1>1, HeadAndTail DEF ScanInv, ScanTypeOK, Repository
<1>3. \/ /\ failed' = [failed EXCEPT ![s].repository = FALSE]
         /\ witnessed' = [witnessed EXCEPT ![s] = @ \cup {r}]
      \/ /\ \E unread \in BOOLEAN :
              failed' = [failed EXCEPT ![s] = [project |-> TRUE, repository |-> unread]]
         /\ UNCHANGED witnessed
  BY DEF Collect
<1>4. active' \in [Processes -> SUBSET Kinds]
  <2>1. /\ active \in [Processes -> SUBSET Kinds] /\ Defaulting \subseteq Conditions /\ Supposed \subseteq Conditions
        /\ Conditions \subseteq Kinds /\ "collector_error" \in Kinds
    BY DEF ScanInv, ScanTypeOK, ScanConstants, Kinds
  <2>2. \E seen \in SUBSET Kinds : active' = [active EXCEPT ![s] = seen]
    <3>1. CASE active' = [active EXCEPT ![s] = facts[r]]
      BY <1>2, <2>1, <3>1
    <3>2. ASSUME NEW found \in SUBSET Conditions,
                 \/ active' = [active EXCEPT ![s] = found]
                 \/ active' = [active EXCEPT ![s] = found \cup {"collector_error"}]
          PROVE  \E seen \in SUBSET Kinds : active' = [active EXCEPT ![s] = seen]
      BY <2>1, <3>2
    <3>3. ASSUME NEW found \in SUBSET Supposed,
                 active' = [active EXCEPT ![s] = found \cup Defaulting \cup {"collector_error"}]
          PROVE  \E seen \in SUBSET Kinds : active' = [active EXCEPT ![s] = seen]
      BY <2>1, <3>3
    <3> QED BY <3>1, <3>2, <3>3 DEF Collect, Guesses
  <2> QED BY <2>1, <2>2
<1>5. /\ failed' \in [Processes -> [project : BOOLEAN, repository : BOOLEAN]]
      /\ witnessed' \in [Processes -> SUBSET Repositories]
  <2>1. /\ failed \in [Processes -> [project : BOOLEAN, repository : BOOLEAN]]
        /\ witnessed \in [Processes -> SUBSET Repositories]
    BY DEF ScanInv, ScanTypeOK
  <2>2. failed' \in [Processes -> [project : BOOLEAN, repository : BOOLEAN]]
    <3>1. CASE failed' = [failed EXCEPT ![s].repository = FALSE]
      <4>1. [failed[s] EXCEPT !.repository = FALSE] \in [project : BOOLEAN, repository : BOOLEAN]
        BY <2>1
      <4> QED BY <2>1, <3>1, <4>1
    <3>2. ASSUME NEW unread \in BOOLEAN,
                 failed' = [failed EXCEPT ![s] = [project |-> TRUE, repository |-> unread]]
          PROVE  failed' \in [Processes -> [project : BOOLEAN, repository : BOOLEAN]]
      BY <2>1, <3>2
    <3> QED BY <1>3, <3>1, <3>2
  <2> QED BY <1>2, <1>3, <2>1, <2>2
<1>6. ScanTypeOK'
  BY <1>1, <1>4, <1>5 DEF ScanInv, ScanTypeOK, WithinBounds
<1>7. HasRun(s)' /\ ScanReportsAreTrue'
  BY <1>1 DEF ScanInv, ScanTypeOK, HasRun, Running, Project, ScanReportsAreTrue
<1>8. Counted(s)'
  <2>1. \/ /\ failed'[s].project = failed[s].project /\ witnessed'[s] = witnessed[s] \cup {r}
        \/ failed'[s].project
    BY <1>3 DEF ScanInv, ScanTypeOK
  <2>2. ~failed[s].project => witnessed[s] \cup ToSet(rest[s]) = ToSet(Holds[Project(s)])
    BY <1>1 DEF ScanInv, Counted
  <2> QED BY <1>1, <1>2, <2>1, <2>2 DEF Counted, Project, Repository
<1>9. \A x \in Processes \ {s} :
        stage'[x] = stage[x] /\ failed'[x] = failed[x] /\ witnessed'[x] = witnessed[x]
  BY <1>1, <1>3 DEF ScanInv, ScanTypeOK
<1> QED BY <1>1, <1>6, <1>7, <1>8, <1>9, OthersAreKept

LEMMA ObserveStep ==
  ASSUME ScanConstants, ScanInv, NEW s \in Processes, Observe(s)
  PROVE  ScanInv'
<1>1. /\ WithinBounds' /\ stage[s] = "observe"
      /\ UNCHANGED <<todo, rest, active, failed, witnessed, latest, findings, stale, facts, reader,
                     review, queue, owed>>
  BY StepIsBounded DEF Observe, Step, people, tables
<1>2. Repository(s) \in Repositories
  BY <1>1, HeadAndTail DEF ScanInv, ScanTypeOK, Counted, Repository
<1>3. \/ /\ stage' = [stage EXCEPT ![s] = "save"]
         /\ previous' = [previous EXCEPT ![s] = findings[Repository(s)]]
         /\ unsaved' = [unsaved EXCEPT ![s] =
              active[s] \cup {k \in Kinds : findings[Repository(s)][k] # "none"}]
      \/ stage' = [stage EXCEPT ![s] = "abort"] /\ UNCHANGED <<previous, unsaved>>
  BY DEF Observe, Fail, Enter
<1>4. /\ unsaved' \in [Processes -> SUBSET Kinds]
      /\ previous' \in [Processes -> [Kinds -> States] \cup {None}]
      /\ \A x \in Processes : stage'[x] = "save" => previous'[x] # None
  <2>1. /\ stage \in [Processes -> {"idle", "start", "project", "repository", "observe", "save", "abort"}]
        /\ unsaved \in [Processes -> SUBSET Kinds] /\ active[s] \subseteq Kinds
        /\ previous \in [Processes -> [Kinds -> States] \cup {None}]
        /\ \A x \in Processes : stage[x] = "save" => previous[x] # None
        /\ findings[Repository(s)] \in [Kinds -> States] /\ findings[Repository(s)] # None
    BY <1>2 DEF ScanInv, ScanTypeOK, ScanConstants
  <2> QED BY <1>3, <2>1
<1>5. /\ stage' \in [Processes -> {"idle", "start", "project", "repository", "observe", "save", "abort"}]
      /\ stage'[s] \in {"save", "abort"} /\ \A x \in Processes \ {s} : stage'[x] = stage[x]
  BY <1>3 DEF ScanInv, ScanTypeOK
<1>6. ScanTypeOK'
  BY <1>1, <1>4, <1>5 DEF ScanInv, ScanTypeOK, WithinBounds
<1>7. HasRun(s)' /\ Counted(s)' /\ ScanReportsAreTrue'
  BY <1>1, <1>5 DEF ScanInv, HasRun, Counted, Running, Project, Repository, ScanReportsAreTrue
<1> QED BY <1>1, <1>5, <1>6, <1>7, OthersAreKept

LEMMA SaveFindingStep ==
  ASSUME ScanConstants, ScanInv, NEW s \in Processes, SaveFinding(s)
  PROVE  ScanInv'
<1>1. /\ WithinBounds' /\ stage[s] = "save"
      /\ UNCHANGED <<todo, rest, active, previous, failed, witnessed, latest, stale, facts, reader,
                     review, queue, owed>>
  BY StepIsBounded DEF SaveFinding, Step, people
<1>2. \A k \in Kinds : Reconciled(s, k) \in States
  BY DEF Reconciled, States
<1> DEFINE Saved == /\ findings' \in [Repositories -> [Kinds -> States]]
                    /\ unsaved' \in [Processes -> SUBSET Kinds]
                    /\ UNCHANGED stage \/ stage' = [stage EXCEPT ![s] = "abort"]
<1>3. Saved
  <2>1. ASSUME NEW k \in unsaved[s],
               findings' = [findings EXCEPT ![Repository(s)][k] = Reconciled(s, k)],
               unsaved' = [unsaved EXCEPT ![s] = @ \ {k}], UNCHANGED stage
        PROVE  Saved
    BY <1>2, <2>1 DEF ScanInv, ScanTypeOK
  <2>2. CASE stage' = [stage EXCEPT ![s] = "abort"] /\ UNCHANGED <<findings, unsaved>>
    BY <2>2 DEF ScanInv, ScanTypeOK
  <2> QED BY <2>1, <2>2 DEF SaveFinding, Fail, Enter
<1>4. /\ stage' \in [Processes -> {"idle", "start", "project", "repository", "observe", "save", "abort"}]
      /\ stage'[s] \in {"save", "abort"} /\ \A x \in Processes \ {s} : stage'[x] = stage[x]
      /\ \A x \in Processes : stage'[x] = "save" => stage[x] = "save"
  BY <1>1, <1>3 DEF ScanInv, ScanTypeOK
<1>5. ScanTypeOK'
  BY <1>1, <1>3, <1>4 DEF ScanInv, ScanTypeOK, WithinBounds
<1>6. HasRun(s)' /\ Counted(s)' /\ ScanReportsAreTrue'
  BY <1>1, <1>4 DEF ScanInv, HasRun, Counted, Running, Project, Repository, ScanReportsAreTrue
<1> QED BY <1>1, <1>4, <1>5, <1>6, OthersAreKept

\* The repository in work was counted, so those still to scan may drop it.
LEMMA NextRepositoryStep ==
  ASSUME ScanConstants, ScanInv, NEW s \in Processes, NextRepository(s)
  PROVE  ScanInv'
<1>1. /\ WithinBounds' /\ stage[s] = "save"
      /\ active' = [active EXCEPT ![s] = {}] /\ previous' = [previous EXCEPT ![s] = None]
      /\ UNCHANGED <<todo, unsaved, failed, witnessed, latest, findings, stale, facts, reader,
                     review, queue, owed>>
  BY StepIsBounded DEF NextRepository, Step, people, tables
<1>2. \/ rest' = [rest EXCEPT ![s] = Tail(@)] /\ stage' = [stage EXCEPT ![s] = "repository"]
      \/ UNCHANGED rest /\ stage' = [stage EXCEPT ![s] = "abort"]
  BY DEF NextRepository, Fail, Enter
<1>3. /\ Repository(s) \in Repositories /\ Tail(rest[s]) \in Seq(Repositories)
      /\ ToSet(rest[s]) = {Repository(s)} \cup ToSet(Tail(rest[s]))
  BY <1>1, HeadAndTail DEF ScanInv, ScanTypeOK, Counted, Repository
<1>4. /\ stage' \in [Processes -> {"idle", "start", "project", "repository", "observe", "save", "abort"}]
      /\ stage'[s] \in {"repository", "abort"} /\ rest' \in [Processes -> Seq(Repositories)]
      /\ stage'[s] = "repository" => rest'[s] = Tail(rest[s])
      /\ \A x \in Processes \ {s} : stage'[x] = stage[x] /\ rest'[x] = rest[x]
  <2>1. /\ stage \in [Processes -> {"idle", "start", "project", "repository", "observe", "save", "abort"}]
        /\ rest \in [Processes -> Seq(Repositories)]
    BY DEF ScanInv, ScanTypeOK
  <2> QED BY <1>2, <1>3, <2>1
<1>5. ScanTypeOK'
  BY <1>1, <1>4 DEF ScanInv, ScanTypeOK, WithinBounds
<1>6. HasRun(s)' /\ ScanReportsAreTrue'
  BY <1>1, <1>4 DEF ScanInv, HasRun, Running, Project, ScanReportsAreTrue
<1>7. Counted(s)'
  <2>1. ~failed[s].project => /\ witnessed[s] \cup ToSet(rest[s]) = ToSet(Holds[Project(s)])
                              /\ Repository(s) \in witnessed[s]
    BY <1>1 DEF ScanInv, Counted
  <2>2. ~failed[s].project => witnessed[s] \cup ToSet(Tail(rest[s])) = ToSet(Holds[Project(s)])
    BY <1>3, <2>1
  <2> QED BY <1>1, <1>4, <2>2 DEF Counted, Project
<1> QED BY <1>1, <1>4, <1>5, <1>6, <1>7, OthersAreKept

\* A run that closes with no repository left and no failure has covered them all.
LEMMA CloseRunStep ==
  ASSUME ScanConstants, ScanInv, NEW s \in Processes, CloseRun(s)
  PROVE  ScanInv'
<1>1. /\ WithinBounds' /\ stage[s] = "repository" /\ rest[s] = <<>>
      /\ UNCHANGED <<rest, active, previous, unsaved, failed, witnessed, findings, stale, facts,
                     reader, review, queue, owed>>
  BY StepIsBounded DEF CloseRun, Step, people
<1>2. /\ HasRun(s) /\ stage[s] \in Running /\ todo[s] # <<>> /\ Tail(todo[s]) \in Seq(Projects)
      /\ latest[Project(s)] # None
  BY <1>1, HeadTailProperties DEF ScanInv, ScanTypeOK, HasRun, Running
<1>3. ~failed[s].project => witnessed[s] = ToSet(Holds[Project(s)])
  BY <1>1, EmptyHasNothing DEF ScanInv, Counted
<1> DEFINE status == IF failed[s].project THEN "failed" ELSE "succeeded"
<1>4. \/ /\ latest' = Finished(s, status) /\ todo' = [todo EXCEPT ![s] = Tail(@)]
         /\ stage' = [stage EXCEPT ![s] = "project"]
      \/ UNCHANGED <<latest, todo>> /\ stage' = [stage EXCEPT ![s] = "abort"]
  BY DEF CloseRun, Fail, Enter
<1>5. /\ latest' \in [Projects -> Runs] /\ ScanReportsAreTrue'
      /\ \A p \in Projects : latest[p] # None => latest'[p] # None
  <2>1. CASE latest' = Finished(s, status)
    BY <1>2, <1>3, <2>1, FinishedRun
  <2>2. CASE UNCHANGED latest
    BY <2>2 DEF ScanInv, ScanTypeOK, ScanReportsAreTrue
  <2> QED BY <1>4, <2>1, <2>2
<1>6. /\ stage' \in [Processes -> {"idle", "start", "project", "repository", "observe", "save", "abort"}]
      /\ stage'[s] \in {"project", "abort"} /\ todo' \in [Processes -> Seq(Projects)]
      /\ stage'[s] = "abort" => todo'[s] = todo[s] /\ latest' = latest
      /\ \A x \in Processes \ {s} : stage'[x] = stage[x] /\ todo'[x] = todo[x]
  BY <1>2, <1>4 DEF ScanInv, ScanTypeOK
<1>7. ScanTypeOK'
  BY <1>1, <1>5, <1>6 DEF ScanInv, ScanTypeOK, WithinBounds
<1>8. HasRun(s)' /\ Counted(s)'
  BY <1>2, <1>6 DEF HasRun, Counted, Running, Project
<1> QED BY <1>1, <1>5, <1>6, <1>7, <1>8, OthersAreKept

-----------------------------------------------------------------------------
LEMMA ScanStep ==
  ASSUME ScanConstants, ScanInv, ScanNext
  PROVE  ScanInv'
BY UserStep, TakeStep, CallStep, CrashStep, ListProjectsStep, OpenRunStep, CollectStep, ObserveStep,
   SaveFindingStep, NextRepositoryStep, CloseRunStep, AbortStep, ReturnStep DEF ScanNext, Step

LEMMA ScanStutter ==
  ASSUME ScanInv, UNCHANGED scanVars
  PROVE  ScanInv'
<1>1. ScanTypeOK'
  BY DEF ScanInv, ScanTypeOK, scanVars, local, tables, people
<1> QED BY <1>1, ScansAreKept DEF scanVars, local, tables

\* Scans keep what their runs count on, with any number of processes beside
\* each other, faults and crashes.
THEOREM ScansAreCounted ==
  ASSUME ScanConstants
  PROVE  ScanSpec => []ScanInv
<1>1. ScanInit => ScanInv
  BY ScanInitially
<1>2. ScanInv /\ [ScanNext]_scanVars => ScanInv'
  BY ScanStep, ScanStutter
<1> QED BY <1>1, <1>2, PTL DEF ScanSpec

\* No scan run is ever reported as succeeded that did not read what it must of all
\* repositories of its project (app.go:778); that an optional read failed it may hide.
THEOREM NoUnreadSuccess ==
  ASSUME ScanConstants
  PROVE  ScanSpec => [](ScanTypeOK /\ ScanReportsAreTrue)
<1>1. ScanInv => ScanTypeOK /\ ScanReportsAreTrue
  BY DEF ScanInv
<1> QED BY <1>1, ScansAreCounted, PTL
=============================================================================

---------------------------- MODULE ProjectCatalog ----------------------------
(***************************************************************************)
(* The projects and repositories that users register (internal/app/app.go, *)
(* AddProject to ImportProject; the project and repository rows of         *)
(* internal/store/repository.go).  A handler reads, decides and saves in   *)
(* transactions of their own, and records an event afterwards.  Names that *)
(* normalizeAppID makes of directories are sequences: "a-2" is <<"a", 2>>. *)
(***************************************************************************)
EXTENDS Naturals, FiniteSets, SequencesExt

CONSTANTS
  ProjectIds, Folders, \* ids; existing directories, in the order of a discovery
  Name,                \* folder -> its normalized base name
  Users, MaxEdits, MaxFaults, \* bounds: edits; failed saves and folders that vanish
  None

VARIABLES
  store,   \* projects -> their repositories: id -> folder
  calls,   \* user -> the handler and what it has read
  world,   \* the folders that exist
  history, \* the exports that users keep; handlers whose check was overtaken
  budget   \* edits and faults so far

RepositoryIds == {Name[f] : f \in ToSet(Folders)} \cup {Append(Name[f], n) : f \in ToSet(Folders), n \in 2..Len(Folders)}
                 \cup {<<"repo", 1>>}
NoRepositories == [r \in {} |-> None]
Idle == [at |-> "idle"]
Exists(p) == store[p] # None
FolderOf(r, repositories) == repositories[r]
PathsOf(repositories) == {FolderOf(r, repositories) : r \in DOMAIN repositories}
\* Project.Validate.
ProjectIsValid(repositories) == DOMAIN repositories # {}
Registered == UNION {PathsOf(store[p]) : p \in {q \in ProjectIds : Exists(q)}}

CatalogInit ==
  /\ store = [p \in ProjectIds |-> None] /\ calls = [u \in Users |-> Idle]
  /\ world = ToSet(Folders) /\ history = [exports |-> {}, overtaken |-> {}]
  /\ budget = [edits |-> 0, faults |-> 0]

Begin(u, call) ==
  /\ calls[u] = Idle /\ budget.edits < MaxEdits
  /\ calls' = [calls EXCEPT ![u] = call] /\ budget' = [budget EXCEPT !.edits = @ + 1]
  /\ UNCHANGED <<store, world, history>>
\* What a handler will save: all repositories of a project, one of them, or
\* the removal of a row.
SaveAll(p, repositories) == [at |-> "save", project |-> p, repositories |-> repositories]
SaveOne(p, r, folder) == [at |-> "insert", project |-> p, repository |-> r, folder |-> folder]

-----------------------------------------------------------------------------
\* AddProject: neither the id nor the folder may be registered.
AddProject(u, p, f) ==
  /\ f \in world /\ ~Exists(p) /\ f \notin Registered
  /\ Begin(u, SaveAll(p, [r \in {<<"repo", 1>>} |-> f]))
\* AddProjectTree: ids are the names of the folders, numbered when they repeat.
NameCount(fs, i) == Cardinality({j \in 1..i : Name[fs[j]] = Name[fs[i]]})
TreeIds(fs) ==
  [i \in DOMAIN fs |-> IF NameCount(fs, i) > 1 THEN Append(Name[fs[i]], NameCount(fs, i)) ELSE Name[fs[i]]]
AddProjectTree(u, p, chosen) ==
  LET fs == SelectSeq(Folders, LAMBDA f : f \in chosen)
      ids == TreeIds(fs)
  IN /\ chosen # {} /\ chosen \subseteq world /\ ~Exists(p) /\ chosen \cap Registered = {} /\ IsInjective(ids)
     /\ Begin(u, SaveAll(p, [r \in ToSet(ids) |-> fs[CHOOSE i \in DOMAIN ids : ids[i] = r]]))
\* UpdateProject saves the project with the repositories it has read.
UpdateProject(u, p) ==
  /\ Exists(p) /\ ProjectIsValid(store[p])
  /\ Begin(u, SaveAll(p, store[p]))
\* ImportProject of an export whose folders are still there.
ImportProject(u, export) ==
  /\ PathsOf(export.repositories) \subseteq world /\ ~Exists(export.project)
  /\ Begin(u, SaveAll(export.project, export.repositories))
\* ExportProject reads only.
ExportProject(p) ==
  /\ Exists(p) /\ ProjectIsValid(store[p])
  /\ history' = [history EXCEPT !.exports = @ \cup {[project |-> p, repositories |-> store[p]]}]
  /\ UNCHANGED <<store, calls, world, budget>>
RemoveProject(u, p) ==
  /\ Exists(p) /\ Begin(u, [at |-> "drop", project |-> p])

\* AddRepository and UpdateRepository look at the folders of their project only.
AddRepository(u, p, r, f) ==
  /\ f \in world /\ Exists(p) /\ r \notin DOMAIN store[p] /\ f \notin PathsOf(store[p])
  /\ Begin(u, SaveOne(p, r, f))
OtherPaths_All(p, r) == {}
OtherPaths(p, r) == {FolderOf(s, store[p]) : s \in DOMAIN store[p] \ {r}}
UpdateRepository(u, p, r, f) ==
  /\ Exists(p) /\ r \in DOMAIN store[p] /\ f \in world \cup {store[p][r]} /\ f \notin OtherPaths(p, r)
  /\ Begin(u, SaveOne(p, r, f))
Another_Any(p) == DOMAIN store[p] # {}
Another(p) == Cardinality(DOMAIN store[p]) > 1
RemoveRepository(u, p, r) ==
  /\ Exists(p) /\ r \in DOMAIN store[p] /\ Another(p)
  /\ Begin(u, [at |-> "delete", project |-> p, repository |-> r])

-----------------------------------------------------------------------------
\* A handler that has checked the project and not saved yet is overtaken by one
\* that saves.
Overtaken(u) ==
  {[project |-> calls[u].project, by |-> calls[u].at, at |-> calls[v].at] :
     v \in {v \in Users \ {u} : calls[v].at \notin {"idle", "event"} /\ calls[v].project = calls[u].project}}
Commit(u, new) ==
  /\ store' = new /\ calls' = [calls EXCEPT ![u] = [at |-> "event"]]
  /\ history' = [history EXCEPT !.overtaken = @ \cup Overtaken(u)]
  /\ UNCHANGED <<world, budget>>
Refuse(u) ==
  /\ calls' = [calls EXCEPT ![u] = Idle] /\ UNCHANGED <<store, world, history, budget>>

\* SaveProject: one transaction that inserts or replaces the project, drops
\* the repositories that are not named and saves those that are.
SaveProject(u) ==
  /\ calls[u].at = "save"
  /\ Commit(u, [store EXCEPT ![calls[u].project] = calls[u].repositories])
\* SaveRepository looks for the project first; the foreign key is checked last.
InsertRepository(u) ==
  /\ calls[u].at = "insert"
  /\ LET c == calls[u]
     IN IF Exists(c.project)
        THEN Commit(u, [store EXCEPT ![c.project] =
               [r \in DOMAIN @ \cup {c.repository} |-> IF r = c.repository THEN c.folder ELSE @[r]]])
        ELSE Refuse(u)
\* DeleteProject and DeleteRepository: no row, no success.
DeleteProject(u) ==
  /\ calls[u].at = "drop"
  /\ IF Exists(calls[u].project) THEN Commit(u, [store EXCEPT ![calls[u].project] = None])
     ELSE Refuse(u)
DeleteRepository(u) ==
  /\ calls[u].at = "delete"
  /\ LET c == calls[u]
     IN IF Exists(c.project) /\ c.repository \in DOMAIN store[c.project]
        THEN Commit(u, [store EXCEPT ![c.project] = Restrict(@, DOMAIN @ \ {c.repository})])
        ELSE Refuse(u)
\* The call fails, or the process dies: before the save or before the event.
Fault(u) ==
  /\ calls[u] # Idle /\ budget.faults < MaxFaults
  /\ budget' = [budget EXCEPT !.faults = @ + 1] /\ calls' = [calls EXCEPT ![u] = Idle]
  /\ UNCHANGED <<store, world, history>>
\* recordEvent: what it stores is not looked at here.
RecordEvent(u) == calls[u].at = "event" /\ Refuse(u)
\* A folder is moved away.
Vanish(f) ==
  /\ f \in world /\ budget.faults < MaxFaults /\ budget' = [budget EXCEPT !.faults = @ + 1]
  /\ world' = world \ {f} /\ UNCHANGED <<store, calls, history>>

CatalogStep(u) ==
  SaveProject(u) \/ InsertRepository(u) \/ DeleteProject(u) \/ DeleteRepository(u)
  \/ Fault(u) \/ RecordEvent(u)
CatalogRequest(u) ==
  \/ \E p \in ProjectIds, f \in ToSet(Folders) : AddProject(u, p, f)
  \/ \E p \in ProjectIds : \E chosen \in SUBSET ToSet(Folders) : AddProjectTree(u, p, chosen)
  \/ \E p \in ProjectIds : UpdateProject(u, p) \/ RemoveProject(u, p)
  \/ \E export \in history.exports : ImportProject(u, export)
  \/ \E p \in ProjectIds, r \in RepositoryIds :
       \/ RemoveRepository(u, p, r)
       \/ \E f \in ToSet(Folders) : AddRepository(u, p, r, f) \/ UpdateRepository(u, p, r, f)
CatalogNext ==
  \/ \E u \in Users : CatalogStep(u) \/ CatalogRequest(u)
  \/ \E p \in ProjectIds : ExportProject(p)
  \/ \E f \in ToSet(Folders) : Vanish(f)

-----------------------------------------------------------------------------
CatalogTypeOK ==
  \A p \in ProjectIds : Exists(p) =>
    DOMAIN store[p] \subseteq RepositoryIds /\ PathsOf(store[p]) \subseteq ToSet(Folders)

Saving(by, p) == \E h \in history.overtaken : h.project = p /\ h.at = by /\ h.by \in {by, "save"}
\* "a project must retain at least one repository" (app.go:1169,
\* domain/model.go:1216).
ProjectsRetainARepository == \A p \in ProjectIds : Exists(p) => ProjectIsValid(store[p])
\* The same unless a removal was overtaken by another one or by a save of the
\* project: the check (app.go:1168) and the removal are two transactions.
RemovalsRetainARepository ==
  \A p \in ProjectIds : Exists(p) /\ ~Saving("delete", p) => ProjectIsValid(store[p])

\* One repository per folder in a project, whatever was added, moved, imported
\* and removed before, unless an addition or a move was overtaken in the same way.
FoldersDiffer ==
  \A p \in ProjectIds : Exists(p) /\ ~Saving("insert", p) =>
    Cardinality(PathsOf(store[p])) = Cardinality(DOMAIN store[p])
=============================================================================

------------------------------ MODULE ConfigStore ------------------------------
(***************************************************************************)
(* The configuration file of one home directory and the start of the       *)
(* program (internal/app/config.go, newWithMasker in app.go): migration of *)
(* older versions, import of its projects into the database, the default   *)
(* agent profiles, and the handlers that edit the configuration.  Every    *)
(* edit changes the memory, writes config.json.tmp and renames it; a write *)
(* may fail or be cut short, and the process may die at any step.          *)
(***************************************************************************)
EXTENDS Naturals, FiniteSets, SequencesExt

CONSTANTS
  Old,         \* configuration files that a first start may find, mostly of earlier versions
  Names, Values, Unsafe, \* ids and contents of items; the contents no validation accepts
  Plans,       \* plans whose results are kept
  Defaults, Codex, \* the ids of the default agent profiles; the one with a legacy form
  MaxItems, MaxResults, \* 64 and 128 in the code
  MaxEdits, MaxFaults,  \* bounds: edits; failed writes and deaths of the process
  None

VARIABLES
  store,   \* file and tmp of the home directory; projects and profiles of the database
  calls,   \* the process: where it is, its memory and what it saves
  world,   \* the projects that the file named before the first start
  history, \* the edits that reached the file; the projects removed, the profiles removed and not added again
  budget   \* edits and faults so far

Kinds == {"integrations", "runbooks", "groups"}
Logs == {"cleanups", "releases", "work"}
Limited == {"runbooks", "groups"}
NoItems == [k \in Kinds |-> <<>>]
NoResults == [l \in Logs |-> <<>>]
DefaultConfig == [version |-> 3, projects |-> <<>>, initialized |-> FALSE,
                  items |-> NoItems, results |-> NoResults]
Torn == [DefaultConfig EXCEPT !.version = 0] \* a file cut short: no version is read
ProjectNames == UNION {ToSet(c.projects) : c \in Old}

\* validateConfig: ids are unique, contents are safe and lists are limited.
IdsOf(list) == {item.id : item \in ToSet(list)}
ConfigIsValid(c) ==
  /\ c.version = 3 /\ IsInjective(c.projects)
  /\ \A k \in Kinds :
       /\ Cardinality(IdsOf(c.items[k])) = Len(c.items[k])
       /\ \A item \in ToSet(c.items[k]) : item.value \notin Unsafe
       /\ k \in Limited => Len(c.items[k]) <= MaxItems

\* migrateConfigV1 keeps the projects, version 2 is version 3 with less in it.
Migrated(c) ==
  IF c.version = 1 THEN [DefaultConfig EXCEPT !.projects = c.projects]
  ELSE [c EXCEPT !.version = 3]
\* What loadConfig makes of the file that is there.
Found == IF store.file = None THEN DefaultConfig ELSE Migrated(store.file)
ResultOf(list, plan) ==
  IF \E i \in DOMAIN list : list[i].plan = plan
  THEN list[CHOOSE i \in DOMAIN list : list[i].plan = plan].value ELSE None

\* The file may be missing, current, or of version 1 or 2.
ConfigInit ==
  /\ store \in [file : Old \cup {None}, tmp : {None}, projects : {{}},
                profiles : [Defaults -> {None}]]
  /\ calls = [at |-> "down"]
  /\ world = IF store.file = None THEN {} ELSE ToSet(store.file.projects)
  /\ history = [items |-> Found.items,
                results |-> [l \in Logs |-> [plan \in Plans |-> ResultOf(Found.results[l], plan)]],
                removed |-> {}, dropped |-> {}, profiles |-> [p \in Defaults |-> None]]
  /\ budget = [edits |-> 0, faults |-> 0]

Rest == UNCHANGED <<world, history, budget>>
Faulty == budget.faults < MaxFaults /\ budget' = [budget EXCEPT !.faults = @ + 1]
Edit == budget.edits < MaxEdits /\ budget' = [budget EXCEPT !.edits = @ + 1]

-----------------------------------------------------------------------------
\* loadConfig: an absent or old file is written before the start goes on.
LoadConfig ==
  /\ calls.at = "down"
  /\ store.file # None => store.file.version \in 1..3
  /\ ConfigIsValid(Found)
  /\ calls' = IF store.file # None /\ store.file.version = 3
              THEN [at |-> "import", mem |-> Found]
              ELSE [at |-> "write", mem |-> Found, before |-> None, then |-> "import"]
  /\ Rest /\ UNCHANGED store

\* saveConfig: the temporary file is written ...
WriteConfig_Unchecked ==
  /\ calls.at = "write"
  /\ store' = [store EXCEPT !.tmp = calls.mem] /\ calls' = [calls EXCEPT !.at = "rename"]
  /\ Rest
WriteConfig ==
  /\ calls.at = "write"
  /\ IF ConfigIsValid(calls.mem)
     THEN store' = [store EXCEPT !.tmp = calls.mem] /\ calls' = [calls EXCEPT !.at = "rename"]
     ELSE calls' = [calls EXCEPT !.at = "failed"] /\ UNCHANGED store
  /\ Rest
\* ... perhaps not to its end ...
WriteFails ==
  /\ calls.at = "write" /\ Faulty
  /\ store' = [store EXCEPT !.tmp = Torn] /\ calls' = [calls EXCEPT !.at = "failed"]
  /\ UNCHANGED <<world, history>>
\* ... and takes the place of the file, or is removed.
RenameConfig ==
  /\ calls.at = "rename"
  /\ store' = [store EXCEPT !.file = store.tmp, !.tmp = None]
  /\ calls' = [at |-> calls.then, mem |-> calls.mem]
  /\ history' = IF calls.then = "serving" THEN calls.edited ELSE history
  /\ UNCHANGED <<world, budget>>
RenameFails ==
  /\ calls.at = "rename" /\ Faulty
  /\ store' = [store EXCEPT !.tmp = None] /\ calls' = [calls EXCEPT !.at = "failed"]
  /\ UNCHANGED <<world, history>>
\* A handler puts the memory back; a start gives up.
SaveFails_Keep ==
  /\ calls.at = "failed"
  /\ calls' = IF calls.before = None THEN [at |-> "down"] ELSE [at |-> "serving", mem |-> calls.mem]
  /\ Rest /\ UNCHANGED store
SaveFails ==
  /\ calls.at = "failed"
  /\ calls' = IF calls.before = None THEN [at |-> "down"] ELSE [at |-> "serving", mem |-> calls.before]
  /\ Rest /\ UNCHANGED store

-----------------------------------------------------------------------------
\* The projects of the file that the database does not have yet, in their order.
Missing == {i \in DOMAIN calls.mem.projects : calls.mem.projects[i] \notin store.projects}
ImportProject ==
  /\ calls.at = "import"
  /\ \E i \in Missing :
       /\ \A j \in Missing : i <= j
       /\ store' = [store EXCEPT !.projects = @ \cup {calls.mem.projects[i]}]
  /\ Rest /\ UNCHANGED calls
FinishImport ==
  /\ calls.at = "import" /\ Missing = {}
  /\ calls' = IF calls.mem.projects = <<>> THEN [at |-> "profiles", mem |-> calls.mem]
              ELSE [at |-> "write", mem |-> [calls.mem EXCEPT !.projects = <<>>],
                    before |-> None, then |-> "profiles"]
  /\ Rest /\ UNCHANGED store

Absent == {p \in Defaults : store.profiles[p] = None}
\* ensureDefaultAgentProfiles, once in the life of the home directory.
EnsureDefaultProfile(p) ==
  /\ calls.at = "profiles" /\ ~calls.mem.initialized /\ p \in Absent
  /\ store' = [store EXCEPT !.profiles[p] = "default"] /\ Rest /\ UNCHANGED calls
FinishProfiles ==
  /\ calls.at = "profiles" /\ (calls.mem.initialized \/ Absent = {})
  /\ calls' = IF calls.mem.initialized THEN [at |-> "codex", mem |-> calls.mem]
              ELSE [at |-> "write", mem |-> [calls.mem EXCEPT !.initialized = TRUE],
                    before |-> None, then |-> "codex"]
  /\ Rest /\ UNCHANGED store
\* migrateLegacyDefaultCodexProfile: at every start, whoever wrote the old form.
MigrateCodex ==
  /\ calls.at = "codex"
  /\ store' = [store EXCEPT !.profiles[Codex] = IF @ = "legacy" THEN "default" ELSE @]
  /\ calls' = [at |-> "serving", mem |-> calls.mem] /\ Rest

Die ==
  /\ calls.at # "down" /\ Faulty
  /\ calls' = [at |-> "down"] /\ UNCHANGED <<store, world, history>>
Restart == calls.at = "serving" /\ calls' = [at |-> "down"] /\ Rest /\ UNCHANGED store

-----------------------------------------------------------------------------
\* An edit under configMu: the memory is changed and must be saved.
Saving(mem, edited) ==
  /\ calls' = [at |-> "write", mem |-> mem, before |-> calls.mem, then |-> "serving", edited |-> edited]
  /\ Edit /\ UNCHANGED <<store, world, history>>
Items(kind) == calls.mem.items[kind]
Place(kind, id) == {i \in DOMAIN Items(kind) : Items(kind)[i].id = id}
SetItems(kind, list) ==
  Saving([calls.mem EXCEPT !.items[kind] = list], [history EXCEPT !.items[kind] = list])
AddItem(kind, id, value) ==
  /\ calls.at = "serving" /\ value \notin Unsafe /\ Place(kind, id) = {}
  /\ SetItems(kind, Append(Items(kind), [id |-> id, value |-> value]))
UpdateItem(kind, id, value) ==
  /\ calls.at = "serving" /\ value \notin Unsafe
  /\ \E i \in Place(kind, id) : SetItems(kind, [Items(kind) EXCEPT ![i].value = value])
RemoveItem(kind, id) ==
  /\ calls.at = "serving"
  /\ \E i \in Place(kind, id) : SetItems(kind, RemoveAt(Items(kind), i))

AddIntegration(id, value) == AddItem("integrations", id, value)
UpdateIntegration(id, value) == UpdateItem("integrations", id, value)
RemoveIntegration(id) == RemoveItem("integrations", id)
AddRunbook(id, value) == AddItem("runbooks", id, value)
UpdateRunbook(id, value) == UpdateItem("runbooks", id, value)
RemoveRunbook(id) == RemoveItem("runbooks", id)
AddGroup(id, value) == AddItem("groups", id, value)
UpdateGroup(id, value) == UpdateItem("groups", id, value)
RemoveGroup(id) == RemoveItem("groups", id)

\* One result per plan; the oldest of too many goes.
Recorded(list, plan, value) ==
  LET places == {i \in DOMAIN list : list[i].plan = plan}
      all == IF places # {} THEN [list EXCEPT ![CHOOSE i \in places : TRUE].value = value]
             ELSE Append(list, [plan |-> plan, value |-> value])
  IN IF Len(all) > MaxResults THEN Tail(all) ELSE all
SaveResult(log, plan, value) ==
  /\ calls.at = "serving"
  /\ LET list == Recorded(calls.mem.results[log], plan, value)
     IN Saving([calls.mem EXCEPT !.results[log] = list],
               [history EXCEPT !.results[log][plan] = value])
SaveWorkResult(plan, value) == SaveResult("work", plan, value)
SaveReleaseResult(plan, value) == SaveResult("releases", plan, value)
SaveCleanupResult(plan, value) == SaveResult("cleanups", plan, value)

\* Agent profiles and projects are rows of the database.
SetProfile(p, value) ==
  /\ calls.at = "serving" /\ Edit
  /\ store' = [store EXCEPT !.profiles[p] = value]
  /\ history' = [history EXCEPT !.profiles[p] = value, !.dropped = @ \ {p}]
  /\ UNCHANGED <<calls, world>>
AddAgentProfile(p, value) == store.profiles[p] = None /\ SetProfile(p, value)
UpdateAgentProfile(p, value) == store.profiles[p] # None /\ SetProfile(p, value)
RemoveAgentProfile(p) ==
  /\ calls.at = "serving" /\ Edit /\ store.profiles[p] # None
  /\ store' = [store EXCEPT !.profiles[p] = None]
  /\ history' = [history EXCEPT !.profiles[p] = None, !.dropped = @ \cup {p}]
  /\ UNCHANGED <<calls, world>>
RemoveProject(p) ==
  /\ calls.at = "serving" /\ Edit /\ p \in store.projects
  /\ store' = [store EXCEPT !.projects = @ \ {p}]
  /\ history' = [history EXCEPT !.removed = @ \cup {p}]
  /\ UNCHANGED <<calls, world>>

-----------------------------------------------------------------------------
ConfigStart ==
  \/ LoadConfig \/ WriteConfig \/ WriteFails \/ RenameConfig \/ RenameFails \/ SaveFails
  \/ ImportProject \/ FinishImport \/ FinishProfiles \/ MigrateCodex
  \/ \E p \in Defaults : EnsureDefaultProfile(p)
  \/ Die \/ Restart
ConfigEdit ==
  \/ \E id \in Names : RemoveIntegration(id) \/ RemoveRunbook(id) \/ RemoveGroup(id)
  \/ \E id \in Names, value \in Values :
       \/ AddIntegration(id, value) \/ UpdateIntegration(id, value)
       \/ AddRunbook(id, value) \/ UpdateRunbook(id, value)
       \/ AddGroup(id, value) \/ UpdateGroup(id, value)
  \/ \E plan \in Plans, value \in Values :
       SaveWorkResult(plan, value) \/ SaveReleaseResult(plan, value) \/ SaveCleanupResult(plan, value)
  \/ \E p \in Defaults, value \in {"legacy", "edited"} :
       AddAgentProfile(p, value) \/ UpdateAgentProfile(p, value)
  \/ \E p \in Defaults : RemoveAgentProfile(p)
  \/ \E p \in ProjectNames : RemoveProject(p)
ConfigNext == ConfigStart \/ ConfigEdit
configVars == <<store, calls, world, history, budget>>
ConfigSpec == ConfigInit /\ [][ConfigNext]_configVars

-----------------------------------------------------------------------------
\* Types of the file, the memory and the rows.
ConfigTypeOK ==
  /\ store.file \in Old \cup {None} \/ ConfigIsValid(store.file)
  /\ store.tmp \in {None, Torn} \/ ConfigIsValid(store.tmp)
  /\ store.projects \subseteq ProjectNames
  /\ store.profiles \in [Defaults -> {None, "default", "legacy", "edited"}]
  /\ calls.at \in {"down", "write", "rename", "failed", "import", "profiles", "codex", "serving"}

\* The import "is idempotent so an interrupted multi-project migration resumes
\* on the next start instead of silently skipping entries" (app.go:96), and it
\* brings no project back that was removed since.
NoProjectIsSkipped ==
  calls.at \in {"profiles", "codex", "serving"} => store.projects = world \ history.removed

\* What a handler has confirmed is in the file, whatever fails or dies later,
\* and the memory answers with what the file says.
ConfirmedEditsStay ==
  calls.at = "serving" => store.file = calls.mem /\ store.file.items = history.items

\* Every result that is still kept is the last one of its plan, and at most one.
ResultsAreTheLast ==
  calls.at = "serving" => \A l \in Logs :
    LET list == store.file.results[l]
    IN /\ Len(list) <= MaxResults /\ \A i, j \in DOMAIN list : list[i].plan = list[j].plan => i = j
       /\ \A i \in DOMAIN list : list[i].value = history.results[l][list[i].plan]

\* A default profile that was removed or edited is not made again, except that
\* an edit to the old form of the codex profile is undone by the next start.
ProfilesAreInitializedOnce ==
  calls.at = "serving" => \A p \in Defaults :
    \/ store.profiles[p] = history.profiles[p]
    \/ history.profiles[p] = None /\ p \notin history.dropped /\ store.profiles[p] = "default"
    \/ p = Codex /\ history.profiles[p] = "legacy" /\ store.profiles[p] = "default"
=============================================================================

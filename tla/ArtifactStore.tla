----------------------------- MODULE ArtifactStore -----------------------------
(***************************************************************************)
(* Evidence: masked files with a row each, their retention, archives of    *)
(* them and what is restored from one (internal/app/artifacts.go, the      *)
(* artifacts of assurance.go, the storage and manifests of impact.go).     *)
(* A handler reads a row, works on files and writes the row back, whatever *)
(* is there by then.                                                       *)
(***************************************************************************)
EXTENDS Naturals, FiniteSets

CONSTANTS
  Users, Artifacts, Destinations,
  Quota,                                        \* 512 MiB in the code; every artifact is one unit
  MaxCalls, MaxFaults, MaxCrashes, MaxTampered, \* bounds
  None

VARIABLES
  store,   \* artifact -> its row
  calls,   \* user -> the handler
  world,   \* the files, the archives and the staging directories
  history, \* what was changed from outside; what was deleted; artifacts deleted while another handler worked
           \* on them, and destinations that two exports shared; whether a save did not look at the quota;
           \* whether handlers overlapped
  budget   \* calls, faults, crashes

\* A file has the bytes of the row's hash or others.
Contents == {None, "good", "bad"}
Retentions == {"active", "pinned", "archived", "deleted"}
Idle == [at |-> "idle"]
NoFiles == [a \in Artifacts |-> None]
NoArchive == [files |-> NoFiles, manifest |-> None]

StoreInit ==
  /\ store = [a \in Artifacts |-> None]
  /\ calls = [u \in Users |-> Idle]
  /\ world = [files |-> NoFiles, archives |-> [d \in Destinations |-> None], staging |-> [d \in Destinations |-> None]]
  /\ history = [tampered |-> {}, deletions |-> {}, crossed |-> {}, unchecked |-> FALSE, overlapped |-> FALSE]
  /\ budget = [calls |-> 0, faults |-> 0, crashes |-> 0]

To(u, call) == calls' = [calls EXCEPT ![u] = call]
\* A handler starts, alone or while another one is under way.
Overlaps(u) == history.overlapped \/ \E v \in Users \ {u} : calls[v] # Idle
Called(u) ==
  /\ budget.calls < MaxCalls /\ budget' = [budget EXCEPT !.calls = @ + 1]
  /\ history' = [history EXCEPT !.overlapped = Overlaps(u)]
Fault == budget.faults < MaxFaults /\ budget' = [budget EXCEPT !.faults = @ + 1]
\* A call of the store is done, fails, or is done and its answer is lost.
Answered(reply) == IF reply = "done" THEN UNCHANGED budget ELSE Fault
Replies == {"done", "lost", "failed"}

-----------------------------------------------------------------------------
\* AssuranceArtifactStorage: what every row that is not deleted takes, whether or
\* not its file is there.
Used == Cardinality({a \in Artifacts : store[a] # None /\ store[a].retention # "deleted"})
\* SaveAssuranceArtifact of a new artifact: the file first; the quota is not
\* looked at when the rows cannot be read.
Save(u, a) ==
  /\ calls[u] = Idle /\ store[a] = None /\ world.files[a] = None
  /\ \A v \in Users : calls[v].at = "insert" => calls[v].id # a
  /\ \/ Used < Quota /\ Called(u)
     \/ /\ budget.calls < MaxCalls /\ budget.faults < MaxFaults
        /\ budget' = [budget EXCEPT !.calls = @ + 1, !.faults = @ + 1]
        /\ history' = [history EXCEPT !.unchecked = TRUE, !.overlapped = Overlaps(u)]
  /\ world' = [world EXCEPT !.files[a] = "good"]
  /\ To(u, [at |-> "insert", id |-> a]) /\ UNCHANGED store
Insert(u) ==
  /\ calls[u].at = "insert"
  /\ \E reply \in Replies :
       LET a == calls[u].id
       IN /\ Answered(reply) /\ To(u, Idle)
          /\ store' = IF reply = "failed" THEN store ELSE [store EXCEPT ![a] = [retention |-> "active", archive |-> None]]
          /\ world' = IF reply = "done" THEN world ELSE [world EXCEPT !.files[a] = None]
          \* A row whose answer was lost has no file.
          /\ history' = IF reply = "lost" THEN [history EXCEPT !.deletions = @ \cup {a}] ELSE history

\* UpdateAssuranceArtifact: the row becomes the handler's copy with its change.
Write(u, a, row) == To(u, [at |-> "update", id |-> a, row |-> row])
Update(u) ==
  /\ calls[u].at = "update" /\ store[calls[u].id] # None
  /\ \E reply \in Replies :
       /\ Answered(reply) /\ To(u, Idle)
       /\ store' = IF reply = "failed" THEN store ELSE [store EXCEPT ![calls[u].id] = calls[u].row]
  /\ UNCHANGED <<world, history>>

\* archivedArtifactPath and what the handlers read there: the manifest is the one
\* that the row names, it lists the artifact, and the copy has its hash.
InArchive(a, row) ==
  /\ row.archive # None /\ world.archives[row.archive.at] # None
  /\ LET archive == world.archives[row.archive.at]
     IN archive.manifest = row.archive.manifest /\ a \in archive.manifest.ids /\ archive.files[a] = "good"

\* SetAssuranceArtifactRetention, RestoreAssuranceArtifact and
\* DeleteAssuranceArtifact read the row of an artifact that is not deleted; what
\* is pinned is not deleted.
Read(u, a) ==
  /\ calls[u] = Idle /\ store[a] # None /\ store[a].retention # "deleted" /\ Called(u)
  /\ \E step \in {"unpin", "pin", "restore", "delete"} :
       /\ step = "delete" => store[a].retention # "pinned"
       /\ To(u, [at |-> step, id |-> a, row |-> store[a]])
  /\ UNCHANGED <<store, world>>
\* Then the file or its archive must be as the new retention demands.
Unpin(u) ==
  /\ calls[u].at = "unpin"
  /\ IF world.files[calls[u].id] = "good" THEN Write(u, calls[u].id, [calls[u].row EXCEPT !.retention = "active"]) ELSE To(u, Idle)
  /\ UNCHANGED <<store, world, history, budget>>
Pinnable(a, row) ==
  \/ row.retention = "pinned" \/ world.files[a] = "good"
  \/ world.files[a] = None /\ InArchive(a, row)
Pin(u) ==
  /\ calls[u].at = "pin"
  /\ IF Pinnable(calls[u].id, calls[u].row)
     THEN Write(u, calls[u].id, [calls[u].row EXCEPT !.retention = "pinned"]) ELSE To(u, Idle)
  /\ UNCHANGED <<store, world, history, budget>>
\* A good local file or a verified copy of the archive ...
Restored(row) == [row EXCEPT !.retention = IF @ = "pinned" THEN @ ELSE "active"]
Restore(u) ==
  /\ calls[u].at = "restore"
  /\ LET a == calls[u].id
     IN CASE world.files[a] = "good" -> Write(u, a, Restored(calls[u].row))
          [] world.files[a] = None /\ InArchive(a, calls[u].row) -> To(u, [calls[u] EXCEPT !.at = "put"])
          [] OTHER -> To(u, Idle)
  /\ UNCHANGED <<store, world, history, budget>>
\* ... which restoreArtifactFile never puts over a file that is there by now.
Put(u) ==
  /\ calls[u].at = "put"
  /\ LET a == calls[u].id
     IN IF world.files[a] = "bad" THEN UNCHANGED world /\ To(u, Idle)
        ELSE world' = [world EXCEPT !.files[a] = "good"] /\ Write(u, a, Restored(calls[u].row))
  /\ UNCHANGED <<store, history, budget>>
\* The file goes first, whatever another handler has made of the row or is about to.
Shares(u, a) == \E v \in Users \ {u} : calls[v].at \in {"unpin", "pin", "restore", "put", "update"} /\ calls[v].id = a
Delete(u) ==
  /\ calls[u].at = "delete"
  /\ LET a == calls[u].id
     IN /\ world' = [world EXCEPT !.files[a] = None]
        /\ history' = [history EXCEPT !.deletions = @ \cup {a},
             !.crossed = IF Shares(u, a) \/ store[a].retention = "pinned" THEN @ \cup {a} ELSE @]
        /\ Write(u, a, [calls[u].row EXCEPT !.retention = "deleted"])
  /\ UNCHANGED <<store, budget>>

-----------------------------------------------------------------------------
\* ExportAssuranceArtifacts: a look at the rows and the destination, a staging
\* directory with a copy of each, its manifest, the rename into place, and then
\* one row after another.
Export(u, ids, d) ==
  /\ calls[u] = Idle /\ ids # {} /\ Called(u)
  /\ \A a \in ids : store[a] # None
  /\ world.archives[d] = None /\ world.staging[d] = None
  /\ To(u, [at |-> "make", dest |-> d, left |-> ids, rows |-> [a \in ids |-> store[a]],
            manifest |-> [ids |-> ids, nonce |-> budget.calls]])
  /\ UNCHANGED <<store, world>>
\* MkdirAll takes a directory that another export has made by now as its own.
MakeStaging(u) ==
  /\ calls[u].at = "make" /\ To(u, [calls[u] EXCEPT !.at = "copy"])
  /\ LET d == calls[u].dest
     IN IF world.staging[d] = None
        THEN world' = [world EXCEPT !.staging[d] = NoArchive] /\ UNCHANGED history
        ELSE UNCHANGED world /\ history' = [history EXCEPT !.crossed = @ \cup {d}]
  /\ UNCHANGED <<store, budget>>
\* What fails before the rename removes the staging directory.
Abandoned(u) == world' = [world EXCEPT !.staging[calls[u].dest] = None] /\ To(u, Idle)
Abandon(u) == calls[u].at \in {"copy", "publish"} /\ Fault /\ Abandoned(u) /\ UNCHANGED <<store, history>>
Copy(u) ==
  /\ calls[u].at = "copy"
  /\ LET d == calls[u].dest
     IN \/ /\ calls[u].left = {} /\ world.staging[d] # None
           /\ world' = [world EXCEPT !.staging[d].manifest = calls[u].manifest]
           /\ To(u, [calls[u] EXCEPT !.at = "publish"])
        \/ \E a \in calls[u].left :
             /\ world.files[a] = "good" /\ world.staging[d] # None
             /\ world' = [world EXCEPT !.staging[d].files[a] = "good"]
             /\ To(u, [calls[u] EXCEPT !.left = @ \ {a}])
        \/ (world.staging[d] = None \/ \E a \in calls[u].left : world.files[a] # "good") /\ Abandoned(u)
  /\ UNCHANGED <<store, history, budget>>
\* The rename, which replaces no archive.
Publish(u) ==
  /\ calls[u].at = "publish"
  /\ LET d == calls[u].dest
     IN IF world.staging[d] # None /\ world.archives[d] = None
        THEN /\ world' = [world EXCEPT !.archives[d] = world.staging[d], !.staging[d] = None]
             /\ To(u, [calls[u] EXCEPT !.at = "mark", !.left = calls[u].manifest.ids])
        ELSE Abandoned(u)
  /\ UNCHANGED <<store, history, budget>>
Archived(row, d, manifest) ==
  [retention |-> IF row.retention = "pinned" THEN "pinned" ELSE "archived", archive |-> [at |-> d, manifest |-> manifest]]
Mark(u) ==
  /\ calls[u].at = "mark"
  /\ IF calls[u].left = {} THEN To(u, Idle) /\ UNCHANGED <<store, budget>>
     ELSE \E reply \in Replies, a \in calls[u].left :
       /\ Answered(reply)
       /\ To(u, IF reply = "done" THEN [calls[u] EXCEPT !.left = @ \ {a}] ELSE Idle)
       /\ store' = IF reply = "failed" THEN store
                   ELSE [store EXCEPT ![a] = Archived(calls[u].rows[a], calls[u].dest, calls[u].manifest)]
  /\ UNCHANGED <<world, history>>

\* The end of the process; a staging directory stays.
Crash ==
  /\ budget.crashes < MaxCrashes /\ budget' = [budget EXCEPT !.crashes = @ + 1]
  /\ calls' = [u \in Users |-> Idle] /\ UNCHANGED <<store, world, history>>
\* A person or a program takes away or changes a file, or unplugs an archive.
Tamper ==
  /\ Cardinality(history.tampered) < MaxTampered
  /\ \/ \E a \in Artifacts, to \in {None, "bad"} :
          /\ world.files[a] = "good" /\ world' = [world EXCEPT !.files[a] = to]
          /\ history' = [history EXCEPT !.tampered = @ \cup {a}]
     \/ \E d \in Destinations :
          /\ world.archives[d] # None /\ world' = [world EXCEPT !.archives[d] = None]
          /\ history' = [history EXCEPT !.tampered = @ \cup {d}]
  /\ UNCHANGED <<store, calls, budget>>

Handle(u) ==
  \/ Insert(u) \/ Update(u) \/ Unpin(u) \/ Pin(u) \/ Restore(u) \/ Put(u) \/ Delete(u)
  \/ MakeStaging(u) \/ Abandon(u) \/ Copy(u) \/ Publish(u) \/ Mark(u)
  \/ \E a \in Artifacts : Save(u, a) \/ Read(u, a)
  \/ \E ids \in SUBSET Artifacts, d \in Destinations : Export(u, ids, d)
StoreNext == (\E u \in Users : Handle(u)) \/ Crash \/ Tamper

-----------------------------------------------------------------------------
StoreTypeOK ==
  /\ \A a \in Artifacts : store[a] # None =>
       /\ store[a].retention \in Retentions
       /\ store[a].archive # None => store[a].archive.at \in Destinations /\ a \in store[a].archive.manifest.ids
  /\ world.files \in [Artifacts -> Contents]
  /\ \A d \in Destinations :
       /\ world.archives[d] # None => world.archives[d].files \in [Artifacts -> Contents]
       /\ world.staging[d] # None => world.staging[d].files \in [Artifacts -> Contents]

\* Nothing from outside, and no two handlers that overlapped there, have changed
\* an artifact or a destination.
Touched == history.tampered \cup history.crossed
Untouched(a) == a \notin Touched /\ Touched \cap Destinations = {}
Recoverable(a) == world.files[a] = "good" \/ InArchive(a, store[a])
\* What is pinned can be had back, from its file or from the archive that its row
\* names, after failed writes and crashes at any point (the checks of
\* SetAssuranceArtifactRetention and DeleteAssuranceArtifact), as long as nobody
\* else took it away and no deletion removed the file of what another handler pins.
PinnedIsRecoverable ==
  \A a \in Artifacts : store[a] # None /\ store[a].retention = "pinned" /\ Untouched(a) => Recoverable(a)
\* Evidence is gone only if its deletion was asked for, or an insert had no answer.
OnlyDeletedIsGone ==
  \A a \in Artifacts : store[a] # None /\ Untouched(a) /\ a \notin history.deletions => Recoverable(a)
\* An archive that is in place is whole, and a row that names one names it as it is:
\* an interrupted export never looks like an archive, unless two exports share a
\* destination.
ArchivesAreWhole ==
  /\ \A d \in Destinations \ history.crossed : world.archives[d] # None =>
       /\ world.archives[d].manifest # None
       /\ \A a \in world.archives[d].manifest.ids : world.archives[d].files[a] = "good"
  /\ \A a \in Artifacts : store[a] # None /\ store[a].archive # None =>
       store[a].archive.at \in Touched \/ InArchive(a, store[a])
\* The quota holds unless the rows could not be read when it was to be looked at,
\* or handlers overlapped: it is looked at before the insert, and a stale write
\* may bring back a row that was deleted.
QuotaIsKept == Used <= Quota \/ history.unchecked \/ history.overlapped
=============================================================================

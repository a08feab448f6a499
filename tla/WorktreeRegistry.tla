-------------------------- MODULE WorktreeRegistry --------------------------
(***************************************************************************)
(* The registry of one repository's worktrees: what a scan reads from Git  *)
(* (internal/collector/git.go), and the transaction that reconciles it     *)
(* with the rows of table worktrees (ReplaceWorktrees of                   *)
(* internal/store/repository.go, the keys of internal/store/migrations.go).*)
(* Scans of several processes run side by side; Git is asked one worktree  *)
(* at a time while the checkouts change.                                   *)
(***************************************************************************)
EXTENDS Naturals, FiniteSets, SequencesExt

CONSTANTS
  Links,       \* Git's administrative directories of linked worktrees
  Places,      \* directories a linked worktree may be in
  Root,        \* the registered checkout
  Scanners,    \* processes, each with one scan at a time (scanMu)
  MaxChanges,  \* bound: changes of the checkouts
  MaxFaults,   \* bound: Git or storage calls that fail
  None

VARIABLES
  linkAt,     \* git worktree list: link -> its directory or None
  owner,      \* directory -> the link its .git file names, or None
  changes,    \* bound
  faults,     \* bound
  registry,   \* table worktrees: id -> row or None
  scan,       \* per process, where its scan is
  listed,     \* per process, the advertised worktrees with what was proved
  complete,   \* per process, WorktreeEnumerationComplete
  next,       \* per process, the worktree to probe or to save next
  transaction \* the open transaction: its process and uncommitted rows, or None

checkouts == <<linkAt, owner, changes>>
progress == <<scan, listed, complete, next>>
regVars == <<checkouts, faults, registry, progress, transaction>>

Paths == Places \cup {Root}
Primary == <<"primary", Root>>
Linked(a) == <<"linked", a>>
Unverified(p) == <<"unverified", p>>
Ids == {Primary} \cup {Linked(a) : a \in Links} \cup {Unverified(p) : p \in Paths}
\* Column association_fingerprint: NULL for the primary row.
Null == <<"null", Root>>
Associations == {Null} \cup {<<"verified", a>> : a \in Links} \cup {Unverified(p) : p \in Paths}
Rows == [association : Associations, path : Paths, live : BOOLEAN]
Items == [path : Paths, prunable : BOOLEAN, proved : Links \cup {Root, None}, id : Ids \cup {None}]

RegInit ==
  /\ linkAt = [a \in Links |-> None] /\ owner = [p \in Places |-> None] /\ changes = 0
  /\ faults = 0
  /\ registry = [i \in Ids |-> None]
  /\ scan = [s \in Scanners |-> "idle"] /\ listed = [s \in Scanners |-> <<>>]
  /\ complete = [s \in Scanners |-> FALSE] /\ next = [s \in Scanners |-> 1]
  /\ transaction = None

Fails == faults < MaxFaults /\ faults' = faults + 1
Works == UNCHANGED faults

-----------------------------------------------------------------------------
\* The checkouts, changed by Git commands and by hand (not under src/).
Changes == changes < MaxChanges /\ changes' = changes + 1
           /\ UNCHANGED <<faults, registry, progress, transaction>>

\* With -f, add and move prune the link that is still registered at the place.
PlacedAt(a, p) == [b \in Links |-> CASE b = a -> p [] b # a /\ linkAt[b] = p -> None [] OTHER -> linkAt[b]]
\* git worktree add.
AddLink(a, p) ==
  /\ Changes /\ linkAt[a] = None /\ owner[p] = None
  /\ linkAt' = PlacedAt(a, p) /\ owner' = [owner EXCEPT ![p] = a]
\* git worktree move.
MoveLink(a, p) ==
  /\ Changes /\ linkAt[a] # None /\ owner[p] = None /\ owner[linkAt[a]] = a
  /\ linkAt' = PlacedAt(a, p)
  /\ owner' = [owner EXCEPT ![p] = a, ![linkAt[a]] = None]
\* The directory is deleted; Git still advertises the link, as prunable.
DeletePlace(p) ==
  /\ Changes /\ owner[p] # None
  /\ owner' = [owner EXCEPT ![p] = None] /\ UNCHANGED linkAt
\* git worktree prune.
PruneLink(a) ==
  /\ Changes /\ linkAt[a] # None /\ owner[linkAt[a]] = None
  /\ linkAt' = [linkAt EXCEPT ![a] = None] /\ UNCHANGED owner

-----------------------------------------------------------------------------
\* What git worktree list advertises: the main worktree, then the links in any order.
Advertised(order) ==
  <<[path |-> Root, prunable |-> FALSE, proved |-> None, id |-> None]>> \o
  [n \in DOMAIN order |->
     LET place == linkAt[order[n]]
         gone == owner[place] = None
     IN [path |-> place, prunable |-> gone, proved |-> None,
         id |-> IF gone THEN Unverified(place) ELSE None]]

\* Collect: a command before the listing fails and the scan goes on without a
\* store, or the listing fails and is empty and incomplete, or it succeeds.
Enumerate(s) ==
  /\ scan[s] = "idle"
  /\ \/ Fails /\ UNCHANGED <<scan, listed, complete>>
     \/ /\ Fails
        /\ listed' = [listed EXCEPT ![s] = <<>>] /\ complete' = [complete EXCEPT ![s] = FALSE]
        /\ scan' = [scan EXCEPT ![s] = "begin"]
     \/ /\ Works
        /\ \E order \in SetToSeqs({a \in Links : linkAt[a] # None}) :
             listed' = [listed EXCEPT ![s] = Advertised(order)]
        /\ complete' = [complete EXCEPT ![s] = TRUE]
        /\ scan' = [scan EXCEPT ![s] = "common"]
  /\ next' = [next EXCEPT ![s] = 1]
  /\ UNCHANGED <<checkouts, registry, transaction>>

\* WorktreeDetails reads the common directory; if it cannot, the advertised
\* worktrees that are not prunable go on without an id.
ReadCommon(s) ==
  /\ scan[s] = "common"
  /\ \/ Works /\ scan' = [scan EXCEPT ![s] = "probe"]
     \/ Fails /\ scan' = [scan EXCEPT ![s] = "begin"]
  /\ UNCHANGED <<checkouts, registry, listed, complete, next, transaction>>

AtRoot(item) == item.path = Root
\* What Git proves about a directory when it is asked: nothing if it is not
\* there, otherwise the link that its .git file names.
Proof(item) == IF AtRoot(item) THEN Root ELSE owner[item.path]
IdOf(item, proof) ==
  CASE proof = Root -> Primary [] proof = None -> Unverified(item.path) [] OTHER -> Linked(proof)

\* One worktree of WorktreeDetails.  A prunable one is never entered; a state
\* that cannot be collected leaves the association proved (populateWorktree).
Probe(s) ==
  /\ scan[s] = "probe"
  /\ LET item == listed[s][next[s]]
     IN \/ item.prunable /\ Works /\ UNCHANGED listed
        \/ /\ ~item.prunable
           /\ \E proof \in {Proof(item), None} :
                /\ IF proof = Proof(item) THEN Works ELSE Fails
                /\ listed' = [listed EXCEPT ![s][next[s]] =
                                [item EXCEPT !.proved = proof, !.id = IdOf(item, proof)]]
  /\ IF next[s] < Len(listed[s])
     THEN next' = [next EXCEPT ![s] = @ + 1] /\ UNCHANGED scan
     ELSE next' = [next EXCEPT ![s] = 1] /\ scan' = [scan EXCEPT ![s] = "begin"]
  /\ UNCHANGED <<checkouts, registry, complete, transaction>>

-----------------------------------------------------------------------------
\* ReplaceWorktrees: one transaction, which no other process enters.
Begin(s) ==
  /\ scan[s] = "begin" /\ transaction = None
  /\ transaction' = [by |-> s, rows |-> registry, observed |-> {}]
  /\ scan' = [scan EXCEPT ![s] = "save"]
  /\ UNCHANGED <<checkouts, faults, registry, listed, complete, next>>

LiveIn(rows) == {i \in Ids : rows[i] # None /\ rows[i].live}
\* Mutant: the path decides even though the association is verified.
DurableIds_ByPath(rows, item) ==
  {i \in LiveIn(rows) :
     rows[i].path = item.path \/ (rows[i].association = <<"verified", item.proved>>)}
\* The ids a statement may return: a verified association is definitive, and
\* the path decides only for a worktree without one.
DurableIds(rows, item) ==
  {i \in LiveIn(rows) :
     IF item.proved = None THEN rows[i].path = item.path
                           ELSE rows[i].association = <<"verified", item.proved>>}
SavedAssociation(item) ==
  CASE item.proved = Root -> Null
    [] item.proved = None -> Unverified(item.path)
    [] OTHER -> <<"verified", item.proved>>

\* Mutant: worktree_observations has no key.
Storable_Twice(rows, observed, item, id) ==
  /\ id # None
  /\ (id = Primary) = (item.proved = Root)
  /\ \A i \in Ids \ {id} :
       rows[i] # None /\ rows[i].association # Null =>
         rows[i].association # SavedAssociation(item)

\* Validate, the unique association (over tombstoned rows too) and the key of
\* worktree_observations: a worktree that breaks one ends the transaction.
Storable(rows, observed, item, id) ==
  /\ id # None
  /\ (id = Primary) = (item.proved = Root)
  /\ \A i \in Ids \ {id} :
       rows[i] # None /\ rows[i].association # Null =>
         rows[i].association # SavedAssociation(item)
  /\ id \notin observed

Leave(s) == scan' = [scan EXCEPT ![s] = "idle"] /\ next' = [next EXCEPT ![s] = 1]
            /\ listed' = [listed EXCEPT ![s] = <<>>] /\ complete' = [complete EXCEPT ![s] = FALSE]

\* Rollback: the scan of this project ends with an error.
Abandon(s) ==
  /\ transaction' = None /\ Leave(s) /\ UNCHANGED <<checkouts, registry>>

\* One worktree: its durable id, its row, its observation.
Save(s) ==
  /\ scan[s] = "save" /\ next[s] <= Len(listed[s])
  /\ LET item == listed[s][next[s]]
         rows == transaction.rows
         durable == DurableIds(rows, item)
     IN \E id \in IF item.proved = Root THEN {Primary}
                  ELSE IF durable = {} THEN {item.id} ELSE durable :
          \/ /\ Storable(rows, transaction.observed, item, id)
             /\ transaction' = [transaction EXCEPT
                  !.rows[id] = [association |-> SavedAssociation(item),
                                path |-> item.path, live |-> TRUE],
                  !.observed = @ \cup {id}]
             /\ next' = [next EXCEPT ![s] = @ + 1]
             /\ Works /\ UNCHANGED <<checkouts, registry, scan, listed, complete>>
          \/ ~Storable(rows, transaction.observed, item, id) /\ Works /\ Abandon(s)

\* Mutant: nothing is tombstoned.
Commit_Keep(s) ==
  /\ scan[s] = "save" /\ next[s] > Len(listed[s])
  /\ registry' = transaction.rows
  /\ transaction' = None /\ Leave(s) /\ Works /\ UNCHANGED checkouts

\* Tombstones what a complete enumeration did not contain, and commits.
Commit(s) ==
  /\ scan[s] = "save" /\ next[s] > Len(listed[s])
  /\ registry' = [i \in Ids |->
       IF complete[s] /\ i \in LiveIn(transaction.rows) \ transaction.observed
       THEN [transaction.rows[i] EXCEPT !.live = FALSE] ELSE transaction.rows[i]]
  /\ transaction' = None /\ Leave(s) /\ Works /\ UNCHANGED checkouts

\* A statement or the commit fails, or the process is killed inside it.
Rollback(s) == scan[s] = "save" /\ Fails /\ Abandon(s)

-----------------------------------------------------------------------------
ScanStep(s) == \/ Enumerate(s) \/ ReadCommon(s) \/ Probe(s)
               \/ Begin(s) \/ Save(s) \/ Commit(s) \/ Rollback(s)
Checkout == \/ \E a \in Links : PruneLink(a)
            \/ \E p \in Places : DeletePlace(p)
            \/ \E a \in Links, p \in Places : AddLink(a, p) \/ MoveLink(a, p)
RegNext == (\E s \in Scanners : ScanStep(s)) \/ Checkout
RegSpec == RegInit /\ [][RegNext]_regVars
\* RunDoctor scans at every tick, and a scan that has begun runs on.
RegFair == RegSpec /\ \A s \in Scanners : WF_regVars(ScanStep(s))

-----------------------------------------------------------------------------
RegTypeOK ==
  /\ linkAt \in [Links -> Places \cup {None}] /\ owner \in [Places -> Links \cup {None}]
  /\ changes \in 0..MaxChanges /\ faults \in 0..MaxFaults
  /\ registry \in [Ids -> Rows \cup {None}]
  /\ scan \in [Scanners -> {"idle", "common", "probe", "begin", "save"}]
  /\ listed \in [Scanners -> Seq(Items)] /\ next \in [Scanners -> Nat]
  /\ \A s \in Scanners : next[s] \in 1..Len(listed[s]) + 1
  /\ complete \in [Scanners -> BOOLEAN]
  /\ transaction # None =>
       /\ transaction.by \in Scanners /\ transaction.observed \subseteq Ids
       /\ transaction.rows \in [Ids -> Rows \cup {None}]

\* An id is never given to another checkout: a verified association is only
\* ever in the row whose id was derived from it, the root's row is "primary" and
\* an unverified id belongs to one path (git.go:391, repository.go:278).
NamesOneCheckout(i, row) ==
  /\ (i = Primary) = (row.association = Null)
  /\ \A a \in Links : row.association = <<"verified", a>> => i = Linked(a)
  /\ \A p \in Paths : i = Unverified(p) => row.association = i /\ row.path = p
IdNamesOneCheckout == \A i \in Ids : registry[i] # None => NamesOneCheckout(i, registry[i])

\* A stored enumeration has one live row for each advertised worktree and no
\* other: two checkouts never share a row, none is left out, and the absent
\* ones are tombstoned (docs/SLICE_B_VERIFICATION.md:15).
StoresTheEnumeration ==
  \A s \in Scanners :
    Commit(s) /\ complete[s] => Cardinality(LiveIn(registry')) = Len(listed[s])
StoredIsTheEnumeration == [][StoresTheEnumeration]_regVars

\* Once the checkouts stay as they are and none is prunable, the live rows come
\* to be exactly them, whatever failed before and whatever older enumeration
\* another process still stores.
Sound == \A a \in Links : linkAt[a] # None => owner[linkAt[a]] = a
Present == {Primary} \cup {Linked(a) : a \in {b \in Links : linkAt[b] # None}}
Converged == LiveIn(registry) = Present
ScansConverge == <>[]Sound => <>[]Converged

\* docs/MILESTONE_1_VERIFICATION.md:29: "Every scan retains a distinct
\* Observation".  The code does not keep this: from some point on no scan of
\* the repository may be stored again, although no call fails (see the README).
EveryScanIsRetained == \A s \in Scanners : []<><<Commit(s)>>_regVars
=============================================================================

-------------------------- MODULE RepositoryDiscovery --------------------------
(***************************************************************************)
(* The bounded search for Git roots below a folder                         *)
(* (internal/collector/repository_discovery.go): depth and entries are     *)
(* limited, links and generated directories are skipped, a directory may   *)
(* vanish or be unreadable, and the caller may give up.  A result that is  *)
(* not marked Partial is a complete registration set.                      *)
(***************************************************************************)
EXTENDS Naturals, FiniteSets, SequencesExt

CONSTANTS
  Root, Kids, \* the folder; node -> the entries below it, sorted by name
  MaxDepth, MaxEntries, MaxVanished \* 8 and 10000 in the code; a bound

VARIABLES
  store,   \* roots and warnings found so far
  calls,   \* the directories that are open, each with the entries left
  world,   \* what every entry is
  history, \* the Git roots that were there when the search began
  budget   \* entries that vanished so far

Nodes == DOMAIN Kids
Below == UNION {ToSet(Kids[n]) : n \in Nodes}
\* Other: files, symbolic links and the names of skippedDiscoveryDirectory.
EntryKinds == {"directory", "git", "unreadable", "other", "gone"}
Partial == store.warnings # {}

DiscoveryInit ==
  /\ world \in {kind \in [Nodes -> EntryKinds \ {"gone"}] : kind[Root] # "other"}
  /\ store = [roots |-> {}, warnings |-> {}]
  /\ calls = [at |-> "start", open |-> <<>>, entries |-> 0, kid |-> Root]
  /\ history = {n \in Nodes : world[n] = "git"}
  /\ budget = 0

Warn(warning) == store' = [store EXCEPT !.warnings = @ \cup {warning}]
End(at) == calls' = [calls EXCEPT !.at = at, !.open = <<>>]

\* readRepositoryDiscoveryEntries: what fits the rest of the budget, in the
\* order of the directory, is sorted; one entry more says that it was cut.
Present(n) == SelectSeq(Kids[n], LAMBDA kid : world[kid] # "gone")
Reads_Limit(n, limit) ==
  {[items |-> SubSeq(Present(n), 1, IF Len(Present(n)) <= limit THEN Len(Present(n)) ELSE limit), truncated |-> FALSE]}
Reads(n, limit) ==
  LET all == Present(n)
  IN IF Len(all) <= limit THEN {[items |-> all, truncated |-> FALSE]}
     ELSE {[items |-> SelectSeq(all, LAMBDA kid : kid \in some), truncated |-> TRUE] :
             some \in {s \in SUBSET ToSet(all) : Cardinality(s) = limit}}

\* visit: the directory is a Git root, cannot be searched, or is opened.
Enter(n, depth, entries) ==
  CASE depth > MaxDepth ->
         /\ Warn("depth") /\ calls' = [calls EXCEPT !.entries = entries, !.at = "search"]
    [] depth <= MaxDepth /\ world[n] \in {"gone", "other"} ->
         /\ Warn("path") /\ calls' = [calls EXCEPT !.entries = entries, !.at = "search"]
    [] depth <= MaxDepth /\ world[n] = "git" ->
         /\ store' = [store EXCEPT !.roots = @ \cup {n}]
         /\ calls' = [calls EXCEPT !.entries = entries, !.at = "search"]
    [] depth <= MaxDepth /\ world[n] = "unreadable" ->
         IF depth = 0 THEN End("failed") /\ UNCHANGED store
         ELSE /\ Warn("read") /\ calls' = [calls EXCEPT !.entries = entries, !.at = "search"]
    [] OTHER ->
         \E read \in Reads(n, MaxEntries - entries) :
           /\ calls' = [calls EXCEPT !.at = "search", !.entries = entries, !.open = Append(@, read)]
           /\ IF read.truncated THEN Warn("entries") ELSE UNCHANGED store

Top == calls.open[Len(calls.open)]
Popped == [calls EXCEPT !.open = Front(@)]
Static == UNCHANGED <<world, history, budget>>

Start == calls.at = "start" /\ Enter(Root, 0, 0) /\ Static
\* The next entry of the open directory is counted, and visited if it is one.
TakeEntry ==
  /\ calls.at = "search" /\ calls.open # <<>> /\ Top.items # <<>>
  /\ LET kid == Head(Top.items)
         rest == [calls EXCEPT !.open[Len(calls.open)].items = Tail(@)]
     IN CASE calls.entries >= MaxEntries -> Warn("entries") /\ End("done")
          [] calls.entries < MaxEntries /\ world[kid] = "other" ->
               calls' = [rest EXCEPT !.entries = @ + 1] /\ UNCHANGED store
          [] OTHER -> calls' = [rest EXCEPT !.at = "visit", !.kid = kid] /\ UNCHANGED store
  /\ Static
VisitEntry ==
  /\ calls.at = "visit"
  /\ Enter(calls.kid, Len(calls.open), calls.entries + 1) /\ Static
\* The last entry of a directory that was cut ends the whole search.
LeaveDirectory ==
  /\ calls.at = "search" /\ calls.open # <<>> /\ Top.items = <<>>
  /\ IF Top.truncated THEN End("done") ELSE calls' = Popped
  /\ UNCHANGED store /\ Static
Finish == calls.at = "search" /\ calls.open = <<>> /\ End("done") /\ UNCHANGED store /\ Static
\* The context ends: what was found so far is partial.
Cancel ==
  /\ calls.at \in {"start", "search"} /\ Warn("cancelled") /\ End("failed") /\ Static
\* Something removes an entry meanwhile.
Vanish(n) ==
  /\ calls.at \in {"search", "visit"} /\ budget < MaxVanished /\ world[n] # "gone" /\ n # Root
  /\ world' = [world EXCEPT ![n] = "gone"] /\ budget' = budget + 1
  /\ UNCHANGED <<store, calls, history>>

DiscoveryNext ==
  \/ Start \/ TakeEntry \/ VisitEntry \/ LeaveDirectory \/ Finish \/ Cancel
  \/ \E n \in Below : Vanish(n)

-----------------------------------------------------------------------------
DiscoveryTypeOK ==
  /\ store.roots \subseteq Nodes
  /\ store.warnings \subseteq {"depth", "path", "read", "entries", "cancelled"}
  /\ calls.entries \in 0..MaxEntries

\* Reference: the Git roots that are reached through plain directories only.
ReachedFrom[n \in Nodes] ==
  IF world[n] = "git" THEN {n}
  ELSE IF world[n] = "directory" THEN UNION {ReachedFrom[kid] : kid \in ToSet(Kids[n])} ELSE {}

\* A search that is not Partial names every Git root that is there, and none
\* that is not or never was: "Partial results are safe to display but must not
\* be treated as a complete registration set".
CompleteOrPartial ==
  /\ store.roots \subseteq history
  /\ calls.at = "done" /\ ~Partial => ReachedFrom[Root] \subseteq store.roots
=============================================================================

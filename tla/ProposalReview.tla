----------------------------- MODULE ProposalReview -----------------------------
(***************************************************************************)
(* Commands that discovery finds in the workflow file of a worktree, their *)
(* review, the checksets made of them and the runs of a checkset           *)
(* (internal/discovery, the proposals and checksets of internal/app/app.go *)
(* and of internal/store/repository.go, internal/checkset).                *)
(* A handler reads and checks in one step and writes in a later one.       *)
(***************************************************************************)
EXTENDS Naturals, Sequences, FiniteSets, SequencesExt, FiniteSetsExt, TLC

CONSTANTS
  Users, Heads, Sources,     \* a source is the sequence of lines of a workflow file
  Typed,                     \* the commands for which a reviewed argv is known
  Sets,                      \* names of checksets
  Steps, Inputs,             \* the order of the steps of a checkset, dependencies that are asked for
  MaxCalls, MaxChanges, MaxFaults, MaxCrashes, \* bounds
  None

VARIABLES
  store,   \* proposals, checksets, runs, counted failures, events of reviews
  calls,   \* user -> the handler
  world,   \* the worktree as Git and the registry show it, its HEAD, its workflow file
  history, \* the proposals that were ever applied, the checksets as they were created
  budget   \* calls, changes, faults, crashes

\* A line: its indentation, its kind and, of a run, the command.
Blank(line) == line.kind \in {"blank", "comment"}

-----------------------------------------------------------------------------
\* workflowRuns: one pass over the lines with the indentation of the steps block
\* and of the block scalar that it is in (None outside).
NoBlock == [steps |-> None, scalar |-> None, commands |-> {}]
Deeper(line, indent) == line.indent > indent
InBlock(state, line) == state.steps # None /\ Deeper(line, state.steps)
Left(state, line) ==
  IF state.steps # None /\ ~Blank(line) /\ ~Deeper(line, state.steps)
  THEN [state EXCEPT !.steps = None, !.scalar = None] ELSE state
Entry(state, line, at) ==
  CASE line.kind = "literal" -> [state EXCEPT !.scalar = line.indent]
    [] line.kind = "run" -> [state EXCEPT !.scalar = None, !.commands = @ \cup {at}]
    [] OTHER -> [state EXCEPT !.scalar = None]
Scan(state, line, at) ==
  LET left == Left(state, line)
  IN CASE line.kind = "steps" -> [state EXCEPT !.steps = line.indent]
       [] line.kind # "steps" /\ ~InBlock(left, line) -> left
       [] line.kind # "steps" /\ InBlock(left, line) ->
            IF left.scalar # None /\ (line.kind = "blank" \/ Deeper(line, left.scalar)) THEN left
            ELSE Entry(left, line, at)
CandidateLines(source) ==
  FoldLeft(LAMBDA state, i : Scan(state, source[i], i), NoBlock, [i \in DOMAIN source |-> i]).commands
Candidates(source) == {source[i].command : i \in CandidateLines(source)}

-----------------------------------------------------------------------------
\* newProposal: the identity of a proposal is what it was found in.
Found == {[head |-> world.head, source |-> world.source, command |-> c] : c \in Candidates(world.source)}
\* proposalStale: the worktree is another one, has another HEAD or no longer has
\* the file of the proposal with a command in it.
Stale(id) ==
  \/ world.worktree = "changed" \/ world.head # id.head
  \/ world.source # id.source \/ Candidates(world.source) = {}
Verifiable == world.worktree # "unknown"

Known == DOMAIN store.proposals
Is(id, state) == id \in Known /\ store.proposals[id] = state

Idle == [at |-> "idle"]
ReviewInit ==
  /\ store = [proposals |-> << >>, sets |-> [s \in Sets |-> None], runs |-> {}, failures |-> {}, events |-> <<>>]
  /\ calls = [u \in Users |-> Idle]
  /\ world \in [worktree : {"current"}, head : Heads, source : Sources]
  /\ history = [drafts |-> {}]
  /\ budget = [calls |-> 0, changes |-> 0, faults |-> 0, crashes |-> 0]

To(u, call) == calls' = [calls EXCEPT ![u] = call]
Called(u) ==
  calls[u] = Idle /\ budget.calls < MaxCalls /\ budget' = [budget EXCEPT !.calls = @ + 1]

\* Discover: every candidate is saved on its own; what is known is left as it is.
Discover(u) ==
  /\ Called(u) /\ world.worktree = "current"
  /\ To(u, [at |-> "save", left |-> SetToSeq(Found)])
  /\ UNCHANGED <<store, world, history>>
SaveProposal(u) ==
  /\ calls[u].at = "save"
  /\ IF calls[u].left = <<>> THEN To(u, Idle) /\ UNCHANGED store
     ELSE LET id == Head(calls[u].left)
          IN /\ To(u, [calls[u] EXCEPT !.left = Tail(@)])
             /\ store' = [store EXCEPT !.proposals = [p \in Known \cup {id} |-> IF p \in Known THEN @[p] ELSE "pending"]]
  /\ UNCHANGED <<world, history, budget>>

\* reviewProposal up to its transaction; a pending proposal that is stale is marked.
Review(u, id, to) ==
  /\ Called(u) /\ Is(id, "pending") /\ Verifiable
  /\ To(u, IF Stale(id) THEN [at |-> "mark", id |-> id] ELSE [at |-> "review", id |-> id, to |-> to])
  /\ UNCHANGED <<store, world, history>>
MarkStale(u) ==
  /\ calls[u].at = "mark" /\ To(u, Idle)
  /\ store' = [store EXCEPT !.proposals[calls[u].id] = IF @ = "pending" THEN "stale" ELSE @]
  /\ UNCHANGED <<world, history, budget>>
\* ReviewProposal: from pending only, with its event in the same transaction.
CommitReview(u) ==
  /\ calls[u].at = "review" /\ To(u, Idle)
  /\ LET id == calls[u].id
     IN store' = IF store.proposals[id] # "pending" THEN store
                 ELSE [store EXCEPT !.proposals[id] = calls[u].to, !.events = Append(@, [id |-> id, to |-> calls[u].to])]
  /\ UNCHANGED <<world, history, budget>>

-----------------------------------------------------------------------------
\* Checkset.Validate: every dependency is another step and they have no cycle.
Reach(needs) ==
  LET Grow(seen) == [s \in DOMAIN needs |-> seen[s] \cup UNION {seen[t] : t \in seen[s] \cap DOMAIN needs}]
  IN FoldLeft(LAMBDA seen, i : Grow(seen), needs, [i \in 1..Cardinality(DOMAIN needs) |-> i])
ValidSteps(needs) ==
  /\ \A s \in DOMAIN needs : needs[s] \subseteq DOMAIN needs
  /\ \A s \in DOMAIN needs : s \notin Reach(needs)[s]
\* CreateCheckset: a draft of the command that was reviewed.
CreateSet(u, s, id, needs) ==
  /\ Called(u) /\ Is(id, "applied") /\ id.command \in Typed
  /\ Verifiable /\ ~Stale(id) /\ ValidSteps(needs)
  /\ To(u, [at |-> "keep", name |-> s, set |-> [id |-> id, needs |-> needs, state |-> "draft"]])
  /\ UNCHANGED <<store, world, history>>
ApplySet(u, s) ==
  /\ Called(u) /\ store.sets[s] # None /\ store.sets[s].state = "draft"
  /\ To(u, [at |-> "keep", name |-> s, set |-> [store.sets[s] EXCEPT !.state = "applied"]])
  /\ UNCHANGED <<store, world, history>>
\* SaveCheckset: whatever is there is replaced.
KeepSet(u) ==
  /\ calls[u].at = "keep" /\ To(u, Idle)
  /\ store' = [store EXCEPT !.sets[calls[u].name] = calls[u].set]
  /\ history' = IF calls[u].set.state = "draft" THEN [history EXCEPT !.drafts = @ \cup {calls[u].set}] ELSE history
  /\ UNCHANGED <<world, budget>>

\* RunCheckset: the proposal's evidence, and then the worktree once more.
RunSet(u, s) ==
  /\ Called(u) /\ store.sets[s] # None /\ store.sets[s].state = "applied"
  /\ Is(store.sets[s].id, "applied") /\ Verifiable /\ ~Stale(store.sets[s].id)
  /\ To(u, [at |-> "locate", name |-> s, set |-> store.sets[s]])
  /\ UNCHANGED <<store, world, history>>
Locate(u) ==
  /\ calls[u].at = "locate"
  /\ To(u, IF world.worktree = "current" /\ world.head = calls[u].set.id.head
           THEN [at |-> "run", name |-> calls[u].name, set |-> calls[u].set, head |-> world.head,
                 left |-> Steps, states |-> << >>, status |-> "passed"]
           ELSE Idle)
  /\ UNCHANGED <<store, world, history, budget>>

Statuses == {"passed", "failed", "unavailable", "timed_out", "cancelled"}
Ended(states, steps, status) == [s \in DOMAIN states \cup steps |-> IF s \in steps THEN status ELSE states[s]]
Ready(run) == {i \in DOMAIN run.left : run.set.needs[run.left[i]] \subseteq DOMAIN run.states}
Blocked(run, s) == \E t \in run.set.needs[s] : run.states[t] # "passed"
\* One step: the first of those whose dependencies are done; it is skipped if one
\* of them did not pass. A timeout or a cancellation skips the rest.
WithStep(run, i, status) ==
  LET s == run.left[i]
      rest == RemoveAt(run.left, i)
      stops == status \in {"timed_out", "cancelled"}
      states == Ended(run.states, {s}, status)
  IN [run EXCEPT !.left = IF stops THEN <<>> ELSE rest,
                 !.states = IF stops THEN Ended(states, ToSet(rest), "skipped") ELSE states,
                 !.status = IF @ = "passed" THEN status ELSE @]
RunStep(u) ==
  /\ calls[u].at = "run" /\ calls[u].left # <<>>
  /\ LET run == calls[u]
         i == Min(Ready(run))
     IN IF Ready(run) = {} THEN To(u, Idle)
        ELSE \E status \in IF Blocked(run, run.left[i]) THEN {"skipped"} ELSE Statuses :
               To(u, WithStep(run, i, status))
  /\ UNCHANGED <<store, world, history, budget>>
\* SaveCheckRun and, of a run that failed, the occurrence of the failure.
SaveRun(u) ==
  /\ calls[u].at = "run" /\ calls[u].left = <<>>
  /\ LET run == [set |-> calls[u].set, head |-> calls[u].head, states |-> calls[u].states,
                 status |-> calls[u].status, call |-> budget.calls]
     IN /\ store' = [store EXCEPT !.runs = @ \cup {run}]
        /\ To(u, IF run.status \in {"failed", "timed_out", "unavailable"} THEN [at |-> "count", run |-> run] ELSE Idle)
  /\ UNCHANGED <<world, history, budget>>
CountFailure(u) ==
  /\ calls[u].at = "count" /\ To(u, Idle)
  /\ store' = [store EXCEPT !.failures = @ \cup {calls[u].run}]
  /\ UNCHANGED <<world, history, budget>>

\* A call of the store fails: the handler ends where it is.
Fault(u) ==
  /\ \/ calls[u].at \in {"save", "mark", "review", "keep", "count"}
     \/ calls[u].at = "run" /\ calls[u].left = <<>>
  /\ budget.faults < MaxFaults /\ budget' = [budget EXCEPT !.faults = @ + 1]
  /\ To(u, Idle) /\ UNCHANGED <<store, world, history>>
Crash ==
  /\ budget.crashes < MaxCrashes /\ budget' = [budget EXCEPT !.crashes = @ + 1]
  /\ calls' = [u \in Users |-> Idle] /\ UNCHANGED <<store, world, history>>
\* Commits, edits and other worktrees in its place.
Change ==
  /\ budget.changes < MaxChanges /\ budget' = [budget EXCEPT !.changes = @ + 1]
  /\ \/ \E h \in Heads, source \in Sources : world' = [world EXCEPT !.head = h, !.source = source]
     \/ \E w \in {"current", "changed", "unknown"} : world' = [world EXCEPT !.worktree = w]
  /\ world' # world /\ UNCHANGED <<store, calls, history>>

Handle(u) ==
  \/ Discover(u) \/ SaveProposal(u) \/ MarkStale(u) \/ CommitReview(u) \/ KeepSet(u)
  \/ Locate(u) \/ RunStep(u) \/ SaveRun(u) \/ CountFailure(u) \/ Fault(u)
  \/ \E id \in Known, to \in {"applied", "rejected"} : Review(u, id, to)
  \/ \E s \in Sets :
       ApplySet(u, s) \/ RunSet(u, s) \/ \E id \in Known, needs \in Inputs : CreateSet(u, s, id, needs)
ReviewNext == (\E u \in Users : Handle(u)) \/ Crash \/ Change

-----------------------------------------------------------------------------
ReviewTypeOK ==
  /\ \A id \in Known : store.proposals[id] \in {"pending", "applied", "rejected", "stale"}
  /\ \A run \in store.runs :
       DOMAIN run.states = ToSet(Steps) /\ \A s \in ToSet(Steps) : run.states[s] \in Statuses \cup {"skipped"}
  /\ store.failures \subseteq store.runs

\* A command runs only if a person applied the proposal that names it, found at the
\* HEAD that the run is bound to, and the checkset as it was made from that proposal
\* while it was current: a checkset that is replaced, a proposal that is found again
\* or that others review change nothing (RunCheckset, CreateCheckset).
OnlyReviewedCommandsAreChecked ==
  /\ \A u \in Users : calls[u].at = "run" => calls[u].head = calls[u].set.id.head
  /\ \A set \in {store.sets[s] : s \in Sets} \cup {calls[u].set : u \in {v \in Users : calls[v].at = "run"}} :
       set # None =>
         /\ Is(set.id, "applied") /\ [id |-> set.id, to |-> "applied"] \in ToSet(store.events)
         /\ set.id.command \in Typed /\ [set EXCEPT !.state = "draft"] \in history.drafts
\* A step passed only if what it depends on has passed; a run passed if all its steps
\* have; and every step has a result.
RunsAreScheduled ==
  \A run \in store.runs :
    /\ \A s \in ToSet(Steps) :
         /\ run.states[s] = "passed" => \A t \in run.set.needs[s] : run.states[t] = "passed"
         /\ run.states[s] = "skipped" => run.status # "passed"
    /\ run.status = "passed" <=> \A s \in ToSet(Steps) : run.states[s] = "passed"
    /\ run.status \in Statuses
\* Dependencies never keep a run from its end: while steps are left, one of them
\* depends on nothing that is left.
StepsAreNeverStuck == \A u \in Users : calls[u].at = "run" /\ calls[u].left # <<>> => Ready(calls[u]) # {}
\* A candidate is a run below a line `steps:` with only deeper lines in between, and
\* not text of a block scalar that began there and holds no such line itself.
Between(source, from, to) == {k \in from + 1..to : ~Blank(source[k])}
Below(source, i) ==
  \E j \in 1..i - 1 : source[j].kind = "steps"
    /\ \A k \in Between(source, j, i) : Deeper(source[k], source[j].indent)
InScalar(source, i) ==
  \E h \in 1..i - 1 :
    /\ source[h].kind = "literal" /\ Below(source, h)
    /\ \A k \in Between(source, h, i) : Deeper(source[k], source[h].indent) /\ source[k].kind # "steps"
CandidatesAreSteps ==
  \A i \in CandidateLines(world.source) :
    world.source[i].kind = "run" /\ Below(world.source, i) /\ ~InScalar(world.source, i)
\* A review is taken once, from pending, with its one event; nothing that is found
\* again, or marked stale late, takes it back.
ReviewsAreFinal ==
  /\ \A id \in Known :
       store.proposals'[id] # store.proposals[id] => store.proposals[id] = "pending"
  /\ \A id \in DOMAIN store.proposals' :
       LET of == {n \in DOMAIN store.events' : store.events'[n].id = id}
       IN IF store.proposals'[id] \in {"applied", "rejected"}
          THEN \E n \in DOMAIN store.events' : of = {n} /\ store.events'[n].to = store.proposals'[id]
          ELSE of = {}
=============================================================================

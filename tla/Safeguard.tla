------------------------------- MODULE Safeguard -------------------------------
(***************************************************************************)
(* Failures that repeat and the rules that guard against them              *)
(* (internal/app/safeguard.go, the fingerprint and rule rows of            *)
(* internal/store/repository.go, SafeguardRule in internal/domain/model.go).*)
(* A mutex lets one handler of a process run at a time; the service and    *)
(* CLI processes share the rows and meet in the statements of the store.   *)
(***************************************************************************)
EXTENDS Naturals, Sequences, FiniteSets, Functions

CONSTANTS
  Prints, Scope,      \* fingerprints of failures; print -> category, project, repository, worktree
  Processes,
  Repeats, Retries, MaxRefs, \* 3, 20 and 20 in the code
  MaxFailures, MaxDecisions, \* bounds: failures that happen, decisions of users
  None

VARIABLES
  store,   \* the fingerprint rows and the rule rows
  calls,   \* process -> the handler that holds the mutex and what it has read
  world,   \* whether a process died in a handler
  history, \* confirmed updates of every rule and of its metrics, lost handlers
  budget   \* failures and decisions so far

Idle == [at |-> "idle"]
Decisions == {"review", "activate", "rollback", "retire", "positive", "false_positive"}
NoMetrics == [hits |-> 0, misses |-> 0, positive |-> 0, false |-> 0]
NewRule(count) == [state |-> "proposal", revision |-> 1, count |-> count, metrics |-> NoMetrics]
\* SafeguardRule.Validate.
RuleIsValid(rule) ==
  /\ rule.count >= Repeats /\ rule.revision >= 1
  /\ rule.state \in {"proposal", "shadow", "active", "retired"}
  /\ rule.metrics.positive + rule.metrics.false <= rule.metrics.hits

SafeguardInit ==
  /\ store = [prints |-> [f \in Prints |-> [count |-> 0, refs |-> <<>>]], rules |-> [f \in Prints |-> None]]
  /\ calls = [p \in Processes |-> Idle] /\ world = FALSE
  /\ history = [updates |-> [f \in Prints |-> 1], metrics |-> [f \in Prints |-> NoMetrics], failed |-> FALSE]
  /\ budget = [failures |-> 0, decisions |-> 0]

To(p, call) == calls' = [calls EXCEPT ![p] = call]
Rest == UNCHANGED <<store, world, history, budget>>
\* The handler ends with an error.
Fail(p) ==
  /\ To(p, Idle) /\ history' = [history EXCEPT !.failed = TRUE]
  /\ UNCHANGED <<store, world, budget>>

-----------------------------------------------------------------------------
\* recordFailureOccurrence of a check run or an action run; every run is
\* evidence of its own.
Occur(p, f) ==
  /\ calls[p] = Idle /\ budget.failures < MaxFailures
  /\ budget' = [budget EXCEPT !.failures = @ + 1]
  /\ To(p, [at |-> "count", print |-> f, evidence |-> budget.failures + 1])
  /\ UNCHANGED <<store, world, history>>
\* RecordFailureFingerprint: one statement inserts the row or counts, ...
CountFailure(p) ==
  /\ calls[p].at = "count"
  /\ LET f == calls[p].print
     IN store' = [store EXCEPT !.prints[f] =
          [count |-> @.count + 1, refs |-> IF @.count = 0 THEN <<calls[p].evidence>> ELSE @.refs]]
  /\ To(p, [at |-> "evidence", print |-> calls[p].print, evidence |-> calls[p].evidence, tries |-> Retries])
  /\ UNCHANGED <<world, history, budget>>
\* ... then the evidence is merged into the row that was read, if it still is
\* the row, or the row is read again.
ReadPrint(p) ==
  /\ calls[p].at = "evidence"
  /\ To(p, [at |-> "merge", print |-> calls[p].print, evidence |-> calls[p].evidence,
            tries |-> calls[p].tries, read |-> store.prints[calls[p].print]])
  /\ Rest
\* mergeEvidenceRefs: the newest references.
Merged(refs, evidence) ==
  LET all == IF evidence \in Range(refs) THEN refs ELSE Append(refs, evidence)
  IN IF Len(all) > MaxRefs THEN Tail(all) ELSE all
MergeEvidence(p) ==
  /\ calls[p].at = "merge"
  /\ LET c == calls[p]
     IN IF store.prints[c.print] = c.read
        THEN /\ store' = [store EXCEPT !.prints[c.print].refs = Merged(@, c.evidence)]
             /\ To(p, [at |-> "create", print |-> c.print, count |-> c.read.count])
             /\ UNCHANGED <<world, history, budget>>
        ELSE IF c.tries = 1 THEN Fail(p)
        ELSE To(p, [at |-> "evidence", print |-> c.print, evidence |-> c.evidence, tries |-> c.tries - 1]) /\ Rest
\* CreateSafeguardRule: a rule that is there stays as it is.
CreateRule(p) ==
  /\ calls[p].at = "create"
  /\ LET c == calls[p]
     IN store' = IF c.count >= Repeats /\ store.rules[c.print] = None
                 THEN [store EXCEPT !.rules[c.print] = NewRule(c.count)] ELSE store
  /\ To(p, [calls[p] EXCEPT !.at = "list"]) /\ UNCHANGED <<world, history, budget>>
\* ListSafeguardRules, of the category and the scope of the failure.
ListRules(p) ==
  /\ calls[p].at = "list"
  /\ To(p, [at |-> "rules", job |-> "failure", print |-> calls[p].print, count |-> calls[p].count, tries |-> Retries,
            todo |-> {f \in Prints : store.rules[f] # None /\ Scope[f] = Scope[calls[p].print]}])
  /\ Rest

-----------------------------------------------------------------------------
\* Transition and RecordFeedback: the rule after the decision, None for an error.
Observing(rule) == rule.state \in {"shadow", "active"}
Earned(metrics) == metrics.hits >= 1 /\ metrics.positive >= 1 /\ metrics.false = 0
Allowed(rule, decision) ==
  \/ decision = "review" /\ rule.state \in {"proposal", "active"}
  \/ decision = "activate" /\ rule.state = "shadow" /\ Earned(rule.metrics)
  \/ decision = "rollback" /\ rule.state = "active"
  \/ decision = "retire" /\ rule.state # "retired"
  \/ /\ decision \in {"positive", "false_positive"} /\ Observing(rule)
     /\ rule.metrics.positive + rule.metrics.false < rule.metrics.hits
DecidedRule(rule, decision) ==
  CASE decision \in {"review", "rollback"} -> [rule EXCEPT !.state = "shadow"]
    [] decision = "activate" -> [rule EXCEPT !.state = "active"]
    [] decision = "retire" -> [rule EXCEPT !.state = "retired"]
    [] decision = "positive" -> [rule EXCEPT !.metrics.positive = @ + 1]
    [] OTHER -> [rule EXCEPT !.metrics.false = @ + 1]
\* An occurrence raises the count of its own rule and is evaluated by every
\* rule that observes.
EvaluatedRule(rule, exact, count) ==
  LET counted == IF exact /\ count > rule.count THEN [rule EXCEPT !.count = count] ELSE rule
  IN IF ~Observing(rule) THEN counted
     ELSE IF exact THEN [counted EXCEPT !.metrics.hits = @ + 1]
     ELSE [counted EXCEPT !.metrics.misses = @ + 1]

\* transitionSafeguard and FeedbackSafeguard.
Decide(p, f, decision) ==
  /\ calls[p] = Idle /\ store.rules[f] # None /\ budget.decisions < MaxDecisions
  /\ budget' = [budget EXCEPT !.decisions = @ + 1]
  /\ To(p, [at |-> "rules", job |-> decision, print |-> f, count |-> 0, tries |-> Retries, todo |-> {f}])
  /\ UNCHANGED <<store, world, history>>
\* updateSafeguardRule: the rule is read and changed, ...
Done(c, f) == IF c.todo = {f} THEN Idle ELSE [c EXCEPT !.todo = @ \ {f}, !.tries = Retries]
ReadRule(p, f) ==
  /\ calls[p].at = "rules" /\ f \in calls[p].todo
  /\ LET c == calls[p]
         rule == store.rules[f]
         next == IF c.job = "failure" THEN EvaluatedRule(rule, f = c.print, c.count) ELSE DecidedRule(rule, c.job)
     IN IF c.job # "failure" /\ ~Allowed(rule, c.job) THEN To(p, Idle)
        ELSE IF next = rule THEN To(p, Done(c, f))
        ELSE To(p, [at |-> "update", job |-> c.job, print |-> c.print, count |-> c.count, tries |-> c.tries, todo |-> c.todo,
                    rule |-> f, read |-> rule.revision, next |-> [next EXCEPT !.revision = @ + 1]])
  /\ Rest
\* ... and stored if its revision is still the one that was read.
RevisionIs_Any(f, revision) == store.rules[f].revision >= revision
RevisionIs(f, revision) == store.rules[f].revision = revision
Added(metrics, job, f, c) ==
  CASE job = "failure" /\ ~Observing(c.next) -> metrics
    [] job = "failure" /\ Observing(c.next) /\ f = c.print -> [metrics EXCEPT !.hits = @ + 1]
    [] job = "failure" /\ Observing(c.next) /\ f # c.print -> [metrics EXCEPT !.misses = @ + 1]
    [] job = "positive" -> [metrics EXCEPT !.positive = @ + 1]
    [] job = "false_positive" -> [metrics EXCEPT !.false = @ + 1]
    [] OTHER -> metrics
UpdateRule(p) ==
  /\ calls[p].at = "update"
  /\ LET c == calls[p]
         f == c.rule
         again == [at |-> "rules", job |-> c.job, print |-> c.print, count |-> c.count, tries |-> c.tries, todo |-> c.todo]
     IN IF RevisionIs(f, c.read)
        THEN /\ store' = [store EXCEPT !.rules[f] = c.next] /\ To(p, Done(again, f))
             /\ history' = [history EXCEPT !.updates[f] = @ + 1, !.metrics[f] = Added(@, c.job, f, c)]
             /\ UNCHANGED <<world, budget>>
        ELSE IF c.tries = 1 THEN Fail(p)
        ELSE To(p, [again EXCEPT !.tries = @ - 1]) /\ Rest
\* Nothing is listed.
NoRules(p) == calls[p].at = "rules" /\ calls[p].todo = {} /\ To(p, Idle) /\ Rest
\* A process dies once.
Die(p) ==
  /\ calls[p] # Idle /\ ~world /\ world' = TRUE /\ To(p, Idle)
  /\ history' = [history EXCEPT !.failed = TRUE] /\ UNCHANGED <<store, budget>>

SafeguardStep(p) ==
  \/ CountFailure(p) \/ ReadPrint(p) \/ MergeEvidence(p) \/ CreateRule(p) \/ ListRules(p)
  \/ UpdateRule(p) \/ NoRules(p) \/ Die(p)
  \/ \E f \in Prints : ReadRule(p, f)
SafeguardRequest(p) ==
  \E f \in Prints : Occur(p, f) \/ \E decision \in Decisions : Decide(p, f, decision)
SafeguardNext == \E p \in Processes : SafeguardStep(p) \/ SafeguardRequest(p)
safeguardVars == <<store, calls, world, history, budget>>

-----------------------------------------------------------------------------
SafeguardTypeOK ==
  /\ \A f \in Prints : store.rules[f] # None => RuleIsValid(store.rules[f])
  /\ \A f \in Prints : Len(store.prints[f].refs) <= MaxRefs /\ store.prints[f].count \in 0..MaxFailures

\* "counts and revision-CAS rule updates preserve concurrent service/CLI
\* writers" (docs/HANDOFF.md:957): no update of a rule overwrites another one,
\* and its metrics are the evaluations and the feedback that were confirmed.
UpdatesAreKept ==
  \A f \in Prints : store.rules[f] # None =>
    /\ store.rules[f].revision = history.updates[f]
    /\ store.rules[f].metrics = history.metrics[f]

\* When the handlers have ended and none of them failed, a failure that was
\* repeated often enough has its rule, which knows how often, and the newest
\* evidence is kept, however the handlers of two processes have met.
RepeatsAreGuarded ==
  (\A p \in Processes : calls[p] = Idle) /\ ~history.failed =>
    \A f \in Prints :
      LET print == store.prints[f]
      IN /\ print.count >= Repeats => store.rules[f] # None /\ store.rules[f].count = print.count
         /\ print.count > 0 => Len(print.refs) = IF print.count < MaxRefs THEN print.count ELSE MaxRefs

\* A rule is activated only while its own metrics say that it has earned it, and
\* a retired rule never changes again but for its count.
ActivationIsEarned ==
  \A f \in Prints : store.rules[f] # None =>
    /\ store.rules[f].state # "active" /\ store'.rules[f].state = "active" =>
         Earned(store.rules[f].metrics)
    /\ store.rules[f].state = "retired" =>
         store'.rules[f].state = "retired" /\ store'.rules[f].metrics = store.rules[f].metrics
SafeguardDecisionsStand == [][ActivationIsEarned]_safeguardVars
=============================================================================

------------------------------ MODULE Measurement ------------------------------
(***************************************************************************)
(* Import of measurement manifests and their dashboard                     *)
(* (internal/app/measurement.go, internal/store/measurement.go).  A run is *)
(* evidence: an id is imported once and never replaced, also when a reply  *)
(* is lost and the import is repeated.  The dashboard compares the latest  *)
(* run with the newest earlier one that was made under the same            *)
(* conditions.                                                             *)
(***************************************************************************)
EXTENDS MeasurementContract

CONSTANTS
  Users, Manifests,     \* what a runner or a person may offer, valid or not
  Secrets, Replacement, \* texts that the masker replaces, and what it puts there
  MaxCalls, MaxFaults   \* bounds

VARIABLES
  store,   \* the runs in assurance_objects
  calls,   \* user -> the import and the manifest it carries
  world,   \* nothing outside changes
  history, \* manifests whose import was confirmed; ids that were answered as a conflict
  budget   \* calls and faults so far

Idle == [at |-> "idle"]
MeasurementInit ==
  /\ store = {} /\ calls = [u \in Users |-> Idle] /\ world = None
  /\ history = [imported |-> {}, conflicts |-> {}] /\ budget = [calls |-> 0, faults |-> 0]

To(u, call) == calls' = [calls EXCEPT ![u] = call]
Fault(n) == budget.faults + n <= MaxFaults /\ budget' = [budget EXCEPT !.faults = @ + n]

-----------------------------------------------------------------------------
\* maskedMeasurementRunJSON: the masker replaces texts wherever they are, also in
\* ids; restoreMeasurementRunIdentity brings the identity back, but not the
\* versions of tools and the text of commands.
Masked(text) == IF text \in Secrets THEN Replacement ELSE text
MaskedTool(tool) == [tool EXCEPT !.version = Masked(@)]
MaskedMetric(m) == [m EXCEPT !.id = Masked(@), !.command = Masked(@)]
Everywhere(run) ==
  [run EXCEPT !.id = Masked(@), !.head = Masked(@),
     !.failures = [i \in DOMAIN @ |-> Masked(@[i])],
     !.tools = [t \in DOMAIN @ |-> MaskedTool(@[t])],
     !.metrics = [i \in DOMAIN @ |-> MaskedMetric(@[i])]]
Restored_RunOnly(masked, run) == [masked EXCEPT !.id = run.id, !.head = run.head]
Restored(masked, run) ==
  [masked EXCEPT !.id = run.id, !.head = run.head, !.failures = run.failures,
     !.metrics = [i \in DOMAIN @ |-> [@[i] EXCEPT !.id = run.metrics[i].id]]]
Row(run) == Restored(Everywhere(run), run)

\* ImportMeasurementRun: a manifest that is not valid is refused at once.
Import(u) ==
  /\ calls[u] = Idle /\ budget.calls < MaxCalls /\ budget' = [budget EXCEPT !.calls = @ + 1]
  /\ \E m \in Manifests : To(u, IF ValidRun(m) THEN [at |-> "save", run |-> m] ELSE Idle)
  /\ UNCHANGED <<store, world, history>>
\* SaveMeasurementRun: one INSERT that leaves a row of the same id alone; what is
\* masked must still be valid (ImportsAreKept: it is).  It may fail, or succeed and
\* answer an error.
Taken(id) == \E r \in store : r.id = id
Inserted_Upsert(row) == {r \in store : r.id # row.id} \cup {row}
Inserted(row) == IF Taken(row.id) THEN store ELSE store \cup {row}
Save(u) ==
  /\ calls[u].at = "save"
  /\ LET run == calls[u].run
         row == Row(run)
     IN /\ ValidRun(row) /\ store' = Inserted(row)
        /\ \/ /\ To(u, IF Taken(row.id) THEN Idle ELSE [at |-> "read", run |-> run]) /\ UNCHANGED budget
              /\ history' = IF Taken(row.id) THEN [history EXCEPT !.conflicts = @ \cup {row.id}] ELSE history
           \/ Fault(1) /\ To(u, Idle) /\ UNCHANGED history
  /\ UNCHANGED world
SaveFails(u) == calls[u].at = "save" /\ Fault(1) /\ To(u, Idle) /\ UNCHANGED <<store, world, history>>
\* GetMeasurementRun answers what is stored, which must be valid.
Confirm(u) ==
  /\ calls[u].at = "read" /\ To(u, Idle)
  /\ LET stored == {r \in store : r.id = calls[u].run.id /\ ValidRun(r)}
     IN history' = IF stored = {} THEN history ELSE [history EXCEPT !.imported = @ \cup {calls[u].run}]
  /\ UNCHANGED <<store, world, budget>>
ConfirmFails(u) == calls[u].at = "read" /\ Fault(1) /\ To(u, Idle) /\ UNCHANGED <<store, world, history>>

MeasurementNext == \E u \in Users : Import(u) \/ Save(u) \/ SaveFails(u) \/ Confirm(u) \/ ConfirmFails(u)

-----------------------------------------------------------------------------
\* knownMeasurementRunIdentity.
KnownIdentity(r) ==
  /\ r.head # None /\ r.dirty \in {"clean", "dirty"} /\ DOMAIN r.tools # {}
  /\ \A t \in DOMAIN r.tools : r.tools[t].version # None /\ r.tools[t].path # None
\* comparableMeasurementRuns.
Comparable_Dirty(left, right) ==
  /\ KnownIdentity(left) /\ KnownIdentity(right)
  /\ left.head = right.head /\ left.dirty = right.dirty /\ left.tools = right.tools /\ right.ended < left.ended
Comparable(left, right) ==
  /\ KnownIdentity(left) /\ KnownIdentity(right) /\ left.dirty = "clean" /\ right.dirty = "clean"
  /\ left.head = right.head /\ left.tools = right.tools /\ right.ended < left.ended
\* sortMeasurementRuns: the last to end first; of two, the greater id.
Ordered(runs) == SetToSortSeq(runs, LAMBDA a, b : a.ended > b.ended \/ (a.ended = b.ended /\ a.id > b.id))

\* comparableMeasurementValues: name stands for name, unit, category and command.
ComparableValues(m, n) ==
  /\ m.name = n.name /\ m.status = "pass" /\ n.status = "pass"
  /\ m.provenance = "measured" /\ n.provenance = "measured" /\ m.p50 # None /\ n.p50 # None
\* measurementIsRegression: less coverage, or more of what costs time.
Coverage == {"coverage_percent"}
Costs == {"quality.go.test", "latency"}
Regression(m, n) ==
  \/ m.name \in Coverage /\ m.p50 < n.p50
  \/ m.name \in Costs /\ (m.p50 > n.p50 \/ m.p95 > n.p95)

\* measurementComparisons: the values that are compared, and what to do next.
Pairs(latest, previous) ==
  {p \in ToSet(latest.metrics) \X (IF previous = None THEN {} ELSE ToSet(previous.metrics)) :
     p[1].id = p[2].id /\ ComparableValues(p[1], p[2])}
Actions(latest, previous) ==
  LET unmeasured == {m \in ToSet(latest.metrics) : m.status = "unknown" \/ m.provenance = "unavailable"}
      regressions == {p \in Pairs(latest, previous) : Regression(p[1], p[2])}
      Ask(code, when) == IF when THEN {code} ELSE {}
  IN UNION {Ask("failed_required_check", latest.failures # <<>>),
            Ask("unavailable_probe", unmeasured # {}),
            Ask("incomplete_reproducibility", ~KnownIdentity(latest)),
            Ask("missing_comparable_baseline", previous = None /\ KnownIdentity(latest) /\ latest.dirty = "clean"),
            Ask("regression_comparable_metric", regressions # {})}
\* measurementDashboard, of the runs that are listed.
Dashboard(runs) ==
  LET ordered == Ordered(runs)
      latest == Head(ordered)
      earlier == SelectSeq(Tail(ordered), LAMBDA r : Comparable(latest, r))
      previous == IF earlier = <<>> THEN None ELSE Head(earlier)
  IN IF runs = {} THEN [state |-> "empty", latest |-> None, previous |-> None, pairs |-> {}, actions |-> {}]
     ELSE [state |-> CASE previous # None -> "comparable"
                       [] previous = None /\ ~KnownIdentity(latest) -> "unknown"
                       [] previous = None /\ KnownIdentity(latest) /\ Len(ordered) = 1 -> "missing"
                       [] OTHER -> "incomparable",
           latest |-> latest, previous |-> previous,
           pairs |-> Pairs(latest, previous), actions |-> Actions(latest, previous)]

-----------------------------------------------------------------------------
\* The statuses and places of the code; a stored run ends after it has started.
MeasurementTypeOK ==
  /\ \A r \in store : r.status \in Statuses /\ r.dirty \in DirtyStates /\ r.started <= r.ended
  /\ \A u \in Users : calls[u].at \in {"idle", "save", "read"}
  /\ history.imported \subseteq Manifests /\ budget.calls <= MaxCalls /\ budget.faults <= MaxFaults

\* "Importing an existing run ID again is rejected as a duplicate instead of
\* silently replacing evidence" (docs/MEASUREMENT_DASHBOARD.md:47): whatever fails
\* or is repeated, what was confirmed is stored with the identity of its manifest,
\* an id has one run, an id that is called a duplicate is stored, and masking makes
\* no manifest invalid (ImportMeasurementRun, SaveMeasurementRun).
Identity(r) == [r EXCEPT !.tools = None, !.metrics = [i \in DOMAIN @ |-> [@[i] EXCEPT !.command = None]]]
ImportsAreKept ==
  /\ \A m \in history.imported : \E r \in store : Identity(r) = Identity(m)
  /\ \A r, s \in store : r.id = s.id => r = s
  /\ \A id \in history.conflicts : Taken(id)
  /\ \A u \in Users : calls[u].at = "save" => ValidRun(Row(calls[u].run))

\* "The run status is only the fixed required-check gate"
\* (docs/DOGFOOD_MEASUREMENT.md:54): a stored run passes only with a required
\* measurement, each of which has passed on samples of its own, with every request
\* answered (Run.Validate).
GateIsEvidence ==
  \A r \in store : r.status = "pass" =>
    /\ \E m \in ToSet(r.metrics) : m.required
    /\ \A m \in ToSet(r.metrics) : m.required =>
         m.status = "pass" /\ m.samples # <<>> /\ (m.requests > 0 => Len(m.samples) = m.requests)
\* The p50 and p95 of a stored measurement lie in the order of its samples
\* (Summarize, Measurement.Validate).
IsMedian(value, samples) ==
  LET Below(i) == {j \in DOMAIN samples : samples[j] <= samples[i]}
      Above(i) == {j \in DOMAIN samples : samples[j] >= samples[i]}
      middle == {i \in DOMAIN samples : 2 * Cardinality(Below(i)) >= Len(samples) /\ 2 * Cardinality(Above(i)) >= Len(samples)}
  IN \E i, j \in middle : 2 * value = 20 * (samples[i] + samples[j])
                        /\ \A k \in middle : samples[i] <= samples[k] /\ samples[k] <= samples[j]
SummariesFitSamples ==
  \A r \in store : \A m \in ToSet(r.metrics) : m.samples # <<>> =>
    /\ IsMedian(m.p50, m.samples) /\ m.p50 <= m.p95
    /\ \E i \in DOMAIN m.samples : m.p95 <= 20 * m.samples[i]

\* The comparison rule of docs/PILOT_QUALITY_LOOP.md:46-56: a comparison is of the
\* run that ended last and the newest one before it that was made from the same
\* commit with the same tools, both clean; its values were measured by checks that
\* passed; and a loss of coverage or more time is called a regression.
SameConditions(r, s) ==
  /\ r.head = s.head /\ r.head # None /\ r.tools = s.tools /\ DOMAIN r.tools # {}
  /\ \A t \in DOMAIN r.tools : None \notin {r.tools[t].version, r.tools[t].path}
  /\ r.dirty = "clean" /\ s.dirty = "clean" /\ s.ended < r.ended
ComparisonIsReproducible ==
  LET d == Dashboard(store)
      before == {s \in store : SameConditions(d.latest, s)}
  IN IF store = {} THEN d.state = "empty"
     ELSE /\ d.latest \in store /\ \A s \in store : s.ended <= d.latest.ended
          /\ d.state = "comparable" <=> before # {}
          /\ before # {} => d.previous \in before /\ \A s \in before : s.ended <= d.previous.ended
          /\ \A p \in d.pairs : \A m \in {p[1], p[2]} :
               m.status = "pass" /\ m.provenance = "measured" /\ m.samples # <<>>
          /\ "regression_comparable_metric" \in d.actions <=> \E p \in d.pairs :
               CASE p[1].name = "coverage_percent" -> p[1].p50 < p[2].p50
                 [] p[1].name \in Costs -> p[1].p50 > p[2].p50 \/ p[1].p95 > p[2].p95
                 [] OTHER -> FALSE
          /\ "failed_required_check" \in d.actions <=>
               \E m \in ToSet(d.latest.metrics) : m.required /\ m.status # "pass"
          /\ d.state = "missing" => store = {d.latest}

\* A stored run is never changed and never goes away (SaveMeasurementRun).
RunsAreImmutable == store \subseteq store'
=============================================================================

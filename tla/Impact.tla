--------------------------------- MODULE Impact ---------------------------------
(***************************************************************************)
(* What the assurance records add up to (internal/app/impact.go): the      *)
(* dashboard of a period, the trace of one effect and the report, and      *)
(* CreateEffect of assurance.go.  Every handler reads one table after      *)
(* another while runs end, effects are recorded and evidence goes away.    *)
(* A provider stands for a provider and its model, a time for an instant   *)
(* that the clock counts; ids and trace ids are different names.           *)
(***************************************************************************)
EXTENDS Integers, FiniteSets, SequencesExt

CONSTANTS
  Users, Stores, Queries,                    \* who asks, what is stored at first, what is asked
  Inputs, Later,                             \* effects that may be recorded, runs that may start
  Day, DefaultDays, MaxDays, DailyDays, Week, \* 24 h, 30, 365, 31 and 7 days in the code
  MaxTime, MaxCalls, MaxChanges,             \* bounds
  None

VARIABLES
  store,   \* the rows of invocations, quality runs, effects, artifacts and findings
  calls,   \* user -> the handler, what it has read, its answer
  world,   \* the clock and the artifacts whose file, or archived copy, is there
  history, \* nothing more is remembered
  budget   \* calls and changes so far

Idle == [at |-> "idle"]
Nothing == [invocations |-> {}, runs |-> {}, effects |-> {}, artifacts |-> {}, findings |-> {}, files |-> {}]
\* What an effect refers to is traced, each once.
AppendUnique(values, value) == IF value = None \/ value \in ToSet(values) THEN values ELSE Append(values, value)
Traces(input) == FoldLeft(AppendUnique, input.traces, <<input.source, input.finding, input.ref>> \o input.evidence)
ImpactInit ==
  /\ \E s \in Stores :
       /\ store = [s.rows EXCEPT !.effects = {[e EXCEPT !.traces = Traces(e)] : e \in @}]
       /\ world = [now |-> s.now, files |-> s.files]
  /\ calls = [u \in Users |-> Idle] /\ history = None /\ budget = [calls |-> 0, changes |-> 0]

To(u, call) == calls' = [calls EXCEPT ![u] = call]
Called == budget.calls < MaxCalls /\ budget' = [budget EXCEPT !.calls = @ + 1]
Changed == budget.changes < MaxChanges /\ budget' = [budget EXCEPT !.changes = @ + 1]

-----------------------------------------------------------------------------
\* The maps of runs and invocations by id and by trace: of several rows, the last
\* that the listing (updated_at DESC, id DESC) brings.
Found(items, ref) == {i \in items : ref # None /\ ref \in {i.id, i.trace}}
LastOf(found) ==
  IF found = {} THEN None
  ELSE CHOOSE i \in found : \A j \in found : i.updated < j.updated \/ (i.updated = j.updated /\ i.id <= j.id)
Lookup(items, ref) == LastOf(Found(items, ref))
Either(one, other) == IF one # None THEN one ELSE other
\* artifactPresent, and what may support a claim.
Present(a, view) == a.retention # "deleted" /\ a.id \in view.files
Usable(id, view) == \E a \in view.artifacts : a.id = id /\ a.valid /\ Present(a, view)
\* effectEvidenceComplete, effectSourceLinked, effectAdoptionComplete.
EvidenceComplete(e, view) == e.evidence # <<>> /\ \A id \in ToSet(e.evidence) : Usable(id, view)
SourceLinked(e, view) ==
  \/ \E f \in view.findings : f.id = e.finding
  \/ \E ref \in {e.source} \cup ToSet(e.traces) : Found(view.invocations \cup view.runs, ref) # {}
ReverifiedBy_Metadata(e, run) == e.adopted /\ e.reverified /\ e.commit # None /\ e.commit = e.reverifiedCommit /\ e.ref # None
ReverifiedBy(e, run) ==
  /\ e.adopted /\ e.reverified /\ e.commit # None /\ e.commit = e.reverifiedCommit
  /\ run # None /\ run.state = "succeeded" /\ run.head = e.reverifiedCommit
AdoptionComplete(e, view) == ReverifiedBy(e, Either(Lookup(view.runs, e.ref), Lookup(view.invocations, e.ref)))
Traceable(e, view) == EvidenceComplete(e, view) /\ SourceLinked(e, view) /\ AdoptionComplete(e, view)
Verified(e, view) == e.kind \in {"measured", "prevented_regression"} /\ Traceable(e, view)
\* effectProviderModel: an invocation before a run, the source before the traces.
Executed(view, ref) == Either(Lookup(view.invocations, ref), Lookup(view.runs, ref))
ProviderOf(run) == IF run = None THEN None ELSE run.provider
AttributedTo(run, traced) == IF run # None \/ traced = <<>> THEN ProviderOf(run) ELSE Head(traced)
Attributed(e, view) ==
  AttributedTo(Executed(view, e.source),
    SelectSeq([i \in DOMAIN e.traces |-> ProviderOf(Executed(view, e.traces[i]))], LAMBDA p : p # None))

-----------------------------------------------------------------------------
\* The period, the one before it, and the bins of the trend.
Days(q) == IF q.days <= 0 THEN DefaultDays ELSE IF q.days > MaxDays THEN MaxDays ELSE q.days
Length(q) == Days(q) * Day
Step(q) == IF Days(q) > DailyDays THEN Week * Day ELSE Day
InWindow(at, from, to) == from <= at /\ at < to
Within(items, from, to) == {i \in items : InWindow(i.at, from, to)}
Index_Daily(at, from, step) == (at - from) \div Day
Index(at, from, step) == (at - from) \div step
Earlier(a, b) == IF a < b THEN a ELSE b
Bins(start, end, step) ==
  [k \in 1..((end - start + step - 1) \div step) |->
     [from |-> start + (k - 1) * step, to |-> Earlier(start + k * step, end)]]

\* assuranceInvocationMatches, assuranceRunMatches and the filters of effects.
InvocationMatches(i, q, view) ==
  /\ q.provider \in {None, i.provider}
  /\ \/ q.project \in {None, i.project}
     \/ i.project = None /\ \E r \in view.runs : i.id \in r.calls /\ r.project = q.project
RunMatches(r, q) == q.project \in {None, r.project} /\ q.provider \in {None, r.provider}
ProviderMatches(e, q, view) == q.provider = None \/ Attributed(e, view) = q.provider
EffectMatches(e, q, view) == q.project \in {None, e.project} /\ ProviderMatches(e, q, view)
\* What is counted; an artifact under a filter only when something that matches in
\* either period names it.
Matching(q, view, from, to) ==
  [invocations |-> Within({i \in view.invocations : InvocationMatches(i, q, view)}, from, to),
   runs |-> Within({r \in view.runs : RunMatches(r, q)}, from, to),
   effects |-> Within({e \in view.effects : EffectMatches(e, q, view)}, from, to)]
Selected(items) ==
  UNION {ToSet(i.artifacts) : i \in items.invocations \cup items.runs} \cup UNION {ToSet(e.evidence) : e \in items.effects}
WithArtifacts(q, view, items) ==
  items @@ [artifacts |-> {a \in view.artifacts : a.valid /\ ({q.provider, q.project} = {None} \/ a.id \in Selected(items))}]
Counted(items, from, to) == [table \in DOMAIN items |-> Within(items[table], from, to)]
\* addInvocationTrend, addRunTrend, addEffectTrend and addArtifactTrend.
Trend(bins, start, step, counted) ==
  [k \in DOMAIN bins |->
     bins[k] @@ [table \in DOMAIN counted |-> {i \in counted[table] : Index(i.at, start, step) = k - 1}]]

-----------------------------------------------------------------------------
\* addTimeSaved over the effects as they are listed: units are never mixed.
AddTimeSaved_Last(t, e) ==
  [count |-> t.count + 1, unit |-> e.unit, total |-> t.total + e.value, mixed |-> t.count > 0 /\ e.unit # t.unit]
AddTimeSaved(t, e) ==
  IF t.count = 0 THEN [count |-> 1, unit |-> e.unit, total |-> e.value, mixed |-> FALSE]
  ELSE [t EXCEPT !.count = @ + 1, !.mixed = @ \/ e.unit # t.unit,
          !.total = IF t.mixed \/ e.unit # t.unit THEN @ ELSE @ + e.value]
Listed(effects) == SetToSortSeq(effects, LAMBDA a, b : a.at > b.at \/ (a.at = b.at /\ a.id > b.id))
TimeSaved(effects, kind) ==
  FoldLeft(AddTimeSaved, [count |-> 0, unit |-> None, total |-> 0, mixed |-> FALSE],
    SelectSeq(Listed(effects), LAMBDA e : e.timed /\ e.value # None /\ e.unit # None /\ e.kind = kind))
\* metricWithComparison: a value is a fraction; there is none without samples.
Observation(n, d, available) == [n |-> n, d |-> d, available |-> available]
Value(o) == IF o.available THEN <<o.n, o.d>> ELSE None
Compared(delta) == IF delta > 0 THEN "increase" ELSE IF delta < 0 THEN "decrease" ELSE "neutral"
Metric(current, previous) ==
  [value |-> Value(current), previous |-> Value(previous),
   comparison |-> IF current.available /\ previous.available
                  THEN Compared(current.n * previous.d - previous.n * current.d) ELSE "unavailable"]
\* impactCountMetric, impactRateMetric, timeSavedMetric.
CountMetric(now, before, samples, previousSamples) ==
  Metric(Observation(Cardinality(now), 1, samples # {}), Observation(Cardinality(before), 1, previousSamples # {}))
Rate(part, whole) == Observation(Cardinality(part), Cardinality(whole), whole # {})
RateMetric(now, before, samples, previousSamples) == Metric(Rate(now, samples), Rate(before, previousSamples))
TimeMetric(now, before) ==
  Metric(Observation(now.total, 1, now.count > 0 /\ ~now.mixed),
         Observation(before.total, 1, /\ now.count > 0 /\ ~now.mixed
                                      /\ before.count > 0 /\ ~before.mixed /\ before.unit = now.unit))
Succeeded(items) == {i \in items : i.state = "succeeded"}
\* addEffectCounts.
Tallied(c, view) ==
  c @@ [succeeded |-> [runs |-> Succeeded(c.runs), invocations |-> Succeeded(c.invocations)],
        verified |-> {e \in c.effects : Verified(e, view)}, complete |-> {e \in c.effects : EvidenceComplete(e, view)},
        adopted |-> {e \in c.effects : e.adopted}, reverified |-> {e \in c.effects : e.reverified},
        timeSaved |-> TimeSaved(c.effects, "measured"), estimated |-> TimeSaved(c.effects, "user_estimated")]
Metrics(now, before) ==
  [quality_runs |-> CountMetric(now.runs, before.runs, now.runs, before.runs),
   quality_success_rate |-> RateMetric(now.succeeded.runs, before.succeeded.runs, now.runs, before.runs),
   agent_success_rate |-> RateMetric(now.succeeded.invocations, before.succeeded.invocations, now.invocations, before.invocations),
   verified_effects |-> CountMetric(now.verified, before.verified, now.effects, before.effects),
   effect_adoption_rate |-> RateMetric(now.adopted, before.adopted, now.effects, before.effects),
   reverification_rate |-> RateMetric(now.reverified, before.reverified, now.effects, before.effects),
   evidence_coverage |-> RateMetric(now.complete, before.complete, now.effects, before.effects),
   time_saved |-> TimeMetric(now.timeSaved, before.timeSaved),
   time_saved_estimated |-> TimeMetric(now.estimated, before.estimated)]

\* summarizeTraceability.
Status(effects, complete, partial) ==
  CASE effects = {} -> "unavailable" [] effects # {} /\ complete = effects -> "complete"
    [] complete # effects /\ complete \cup partial # {} -> "partial" [] OTHER -> "unresolved"
TraceabilityOf(effects, complete, partial) ==
  [complete |-> complete, partial |-> partial \ complete, status |-> Status(effects, complete, partial)]
Traceability(effects, view) ==
  TraceabilityOf(effects, {e \in effects : Traceable(e, view)},
    {e \in effects : SourceLinked(e, view) \/ e.evidence # <<>> \/ e.traces # <<>>})
\* AssuranceImpact, when it has read everything.
Summary(q, view, start, end, now, before) ==
  [start |-> start, end |-> end, counted |-> now, trend |-> Trend(Bins(start, end, Step(q)), start, Step(q), now),
   verified |-> {e \in now.effects : Verified(e, view)}, metrics |-> Metrics(Tallied(now, view), Tallied(before, view)),
   missing |-> {e \in now.effects : ~EvidenceComplete(e, view)},
   missingArtifacts |-> {id \in UNION {ToSet(e.evidence) : e \in now.effects} : ~Usable(id, view)},
   unattributed |-> {e \in view.effects : q.project \in {None, e.project} /\ ~ProviderMatches(e, q, view)},
   baseline |-> \E table \in DOMAIN before : before[table] # {},
   traceability |-> Traceability(now.effects, view)]
Periods(q, view, start, end, items) ==
  Summary(q, view, start, end, Counted(items, start, end), Counted(items, start - Length(q), start))
Dashboard(q, view, end) ==
  Periods(q, view, end - Length(q), end, WithArtifacts(q, view, Matching(q, view, end - 2 * Length(q), end)))

-----------------------------------------------------------------------------
\* AssuranceTrace of one effect: addArtifactTrace wants a row that is valid and a
\* file; a trace may name a run, an invocation or an artifact.
MissingArtifacts(ids, view) == {id \in ids : ~Usable(id, view)}
Ran(ref, view) == Found(view.runs \cup view.invocations, ref) # {}
ArtifactOf(ref, view) == {a.id : a \in {LastOf(Found(view.artifacts, ref))} \ {None}}
MissingRefs(e, view, source, findings, loose) ==
  {ref \in {e.source, e.ref} : ref # None /\ ~Ran(ref, view)}
  \cup (IF source = None THEN {} ELSE MissingArtifacts(ToSet(source.artifacts), view))
  \cup (IF e.finding # None /\ findings = {} THEN {e.finding} ELSE {})
  \cup MissingArtifacts(ToSet(e.evidence) \cup UNION {ArtifactOf(t, view) : t \in loose}, view)
  \cup {t \in loose : ArtifactOf(t, view) = {}}
TraceOf(e, view, findings, missing) ==
  [effect |-> e, missing |-> missing,
   complete |-> /\ missing = {} /\ EvidenceComplete(e, view) /\ AdoptionComplete(e, view)
                /\ findings # {} \/ \E ref \in {e.source} \cup ToSet(e.traces) : Ran(ref, view)]
TraceWith(e, view, findings) ==
  TraceOf(e, view, findings,
    MissingRefs(e, view, Either(Lookup(view.runs, e.source), Lookup(view.invocations, e.source)), findings,
      {t \in ToSet(e.traces) : ~Ran(t, view) /\ t # e.id /\ t \notin {f.id : f \in findings}}))
Trace(e, view) == TraceWith(e, view, {f \in view.findings : f.id = e.finding /\ e.project \in {None, f.project}})

\* ExportAssuranceReport: filterReportEffects of the effects that are read again, in
\* the period of the dashboard, and reportArtifacts of them (of the artifacts of one
\* trace, the first that is listed).
ReportEffects(q, impact, view) ==
  {e \in view.effects : InWindow(e.at, impact.start, impact.end) /\ EffectMatches(e, q, view)}
FirstOf(found) ==
  {i \in found : \A j \in found : i.updated > j.updated \/ (i.updated = j.updated /\ i.id >= j.id)}
Executions(e, view) == {Lookup(view.runs, e.source), Lookup(view.invocations, e.source)} \ {None}
Wanted(e, view) ==
  ToSet(e.evidence) \cup UNION {ToSet(x.artifacts) : x \in Executions(e, view)}
  \cup {a.id : a \in UNION {FirstOf(Found(view.artifacts, t)) : t \in ToSet(e.traces)}}
ReportArtifacts(effects, view) == {a \in view.artifacts : a.valid /\ \E e \in effects : a.id \in Wanted(e, view)}
ReportOf(impact, effects, view) == [impact |-> impact, effects |-> effects, artifacts |-> ReportArtifacts(effects, view)]
Report(q, impact, view) == ReportOf(impact, ReportEffects(q, impact, view), view)

-----------------------------------------------------------------------------
\* The order in which the handlers read.
Reading(what) ==
  CASE what = "trace" -> <<"effects", "runs", "invocations", "artifacts", "findings">>
    [] what = "again" -> <<"effects", "runs", "invocations", "artifacts">>
    [] OTHER -> <<"invocations", "runs", "effects", "artifacts">>
Ask(u) ==
  /\ calls[u] = Idle /\ Called
  /\ \E q \in Queries :
       To(u, [at |-> "read", query |-> q, left |-> Reading(q.what), view |-> Nothing, end |-> world.now, impact |-> None])
  /\ UNCHANGED <<store, world, history>>
ReadTable(c, table) == [c EXCEPT !.left = Tail(@), !.view[table] = store[table]]
Read(u) ==
  /\ calls[u].at = "read" /\ calls[u].left # <<>>
  /\ To(u, ReadTable(calls[u], Head(calls[u].left)))
  /\ UNCHANGED <<store, world, history, budget>>
\* The files are looked at, and the findings of a dashboard, when everything is read.
Looked(view) == [view EXCEPT !.files = world.files]
Done(u, answer) == To(u, [at |-> "done", query |-> calls[u].query, files |-> world.files, answer |-> answer])
ImpactOf(c) == Dashboard(c.query, [Looked(c.view) EXCEPT !.findings = store.findings], c.end)
AnswerImpact(u, impact) ==
  \/ calls[u].query.what = "dashboard" /\ Done(u, impact)
  \/ calls[u].query.what = "json" /\ To(u, [calls[u] EXCEPT !.left = Reading("again"), !.impact = impact])
AnswerTrace(u, effects, view) ==
  IF effects = {} THEN To(u, Idle) ELSE \E e \in effects : Done(u, Trace(e, view))
Ready(u) == calls[u].at = "read" /\ calls[u].left = <<>> /\ UNCHANGED <<store, world, history, budget>>
AssuranceImpact(u) ==
  Ready(u) /\ calls[u].query.what # "trace" /\ calls[u].impact = None /\ AnswerImpact(u, ImpactOf(calls[u]))
AssuranceTrace(u) ==
  /\ Ready(u) /\ calls[u].query.what = "trace"
  /\ AnswerTrace(u, {e \in calls[u].view.effects : e.id = calls[u].query.effect}, Looked(calls[u].view))
ExportAssuranceReport(u) ==
  /\ Ready(u) /\ calls[u].impact # None
  /\ Done(u, Report(calls[u].query, calls[u].impact, calls[u].view))

\* CreateEffect: an adoption (or a reverification, which adoptedAt stands for too)
\* before now is not valid.
Create(u) ==
  /\ calls[u] = Idle /\ Called
  /\ \E i \in Inputs :
       To(u, IF i.adoptedAt # None /\ i.adoptedAt < world.now THEN Idle
             ELSE [at |-> "save", row |-> [i EXCEPT !.traces = Traces(i), !.at = world.now,
                     !.adoptedAt = IF i.adopted /\ @ = None THEN world.now ELSE @]])
  /\ UNCHANGED <<store, world, history>>
\* SaveEffect: a row of the same fingerprint stays as it is.
Save(u) ==
  /\ calls[u].at = "save" /\ To(u, Idle)
  /\ LET row == calls[u].row
     IN store' = IF \E e \in store.effects : e.id = row.id THEN store ELSE [store EXCEPT !.effects = @ \cup {row}]
  /\ UNCHANGED <<world, history, budget>>

\* Elsewhere a run starts and ends, evidence is deleted (the file, then the row) or a
\* file vanishes, and time passes.
Start ==
  /\ Changed
  /\ \E kind \in {"invocations", "runs"} : \E r \in Later[kind] :
       /\ \A s \in store[kind] : s.id # r.id
       /\ store' = [store EXCEPT ![kind] = @ \cup {[r EXCEPT !.state = "running", !.at = world.now, !.updated = world.now]}]
  /\ UNCHANGED <<calls, world, history>>
End ==
  /\ Changed
  /\ \E kind \in {"invocations", "runs"} : \E r \in store[kind] : \E state \in {"succeeded", "failed"} :
       /\ r.state = "running"
       /\ store' = [store EXCEPT ![kind] = (@ \ {r}) \cup {[r EXCEPT !.state = state, !.updated = world.now]}]
  /\ UNCHANGED <<calls, world, history>>
Vanish ==
  /\ Changed /\ \E id \in world.files : world' = [world EXCEPT !.files = @ \ {id}]
  /\ UNCHANGED <<store, calls, history>>
Deleted ==
  /\ \E a \in store.artifacts :
       /\ a.retention # "deleted" /\ a.id \notin world.files
       /\ store' = [store EXCEPT !.artifacts = (@ \ {a}) \cup {[a EXCEPT !.retention = "deleted"]}]
  /\ Changed /\ UNCHANGED <<calls, world, history>>
Tick == world.now < MaxTime /\ Changed /\ world' = [world EXCEPT !.now = @ + 1] /\ UNCHANGED <<store, calls, history>>

ImpactNext ==
  \/ \E u \in Users : Ask(u) \/ Read(u) \/ AssuranceImpact(u) \/ AssuranceTrace(u) \/ ExportAssuranceReport(u) \/ Create(u) \/ Save(u)
  \/ Start \/ End \/ Vanish \/ Deleted \/ Tick

-----------------------------------------------------------------------------
\* Rows are named once in each table, and no time is ahead of the clock.
ImpactTypeOK ==
  /\ \A kind \in DOMAIN store : \A a, b \in store[kind] : a.id = b.id => a = b
  /\ \A kind \in DOMAIN store \ {"findings"} : \A a \in store[kind] : a.at <= world.now
  /\ \A u \in Users : calls[u].at \in {"idle", "read", "done", "save"}
  /\ budget.calls <= MaxCalls /\ budget.changes <= MaxChanges

Answers(what) == {calls[u] : u \in {v \in Users : calls[v].at = "done" /\ calls[v].query.what = what}}
Impacts == {a.answer : a \in Answers("dashboard")} \cup {a.answer.impact : a \in Answers("json")}
\* "A reverification run that did not succeed, or whose HEAD is not the adopted
\* commit, is not counted as a verified effect" (docs/ASSURANCE_EFFECT_DASHBOARD.md:87):
\* although the tables are read one after another, what an answer calls verified or
\* complete was adopted at a commit at which a run of that name or trace has
\* succeeded, and its evidence was there.
ReverifiedAt(e) ==
  /\ e.adopted /\ e.commit # None
  /\ \E r \in store.runs \cup store.invocations :
       e.ref \in {r.id, r.trace} /\ r.state = "succeeded" /\ r.head = e.commit
VerifiedIsReverified ==
  /\ \A impact \in Impacts : \A e \in impact.verified :
       e.kind \notin {"user_estimated", "ai_inference", "unavailable"} /\ ReverifiedAt(e)
  /\ \A impact \in Impacts : \A e \in impact.traceability.complete : ReverifiedAt(e)
  /\ \A a \in Answers("dashboard") : \A e \in a.answer.verified : e.evidence # <<>> /\ ToSet(e.evidence) \subseteq a.files
  /\ \A a \in Answers("trace") : a.answer.complete =>
       ReverifiedAt(a.answer.effect) /\ ToSet(a.answer.effect.evidence) \subseteq a.files

\* The bins of the trend cover the period without a gap, and what is counted in the
\* period is in the bin of its time and in no other (impactTrendIndex).
TrendAddsUp ==
  \A impact \in Impacts :
    LET trend == impact.trend
    IN /\ trend[1].from = impact.start /\ trend[Len(trend)].to = impact.end
       /\ \A k \in DOMAIN trend : trend[k].from < trend[k].to /\ (k > 1 => trend[k].from = trend[k - 1].to)
       /\ \A table \in {"invocations", "runs", "effects", "artifacts"} :
            /\ impact.counted[table] = UNION {trend[k][table] : k \in DOMAIN trend}
            /\ \A k \in DOMAIN trend : \A i \in trend[k][table] : trend[k].from <= i.at /\ i.at < trend[k].to

\* "A rate without a denominator, or a period before it without samples, is not
\* replaced by 0", and time saved does not mix units
\* (docs/ASSURANCE_EFFECT_DASHBOARD.md:42-46): a value is a part of its samples, and a
\* time is the sum of what was recorded in one unit.
Timed(effects, kind) == {e \in effects : e.timed /\ e.kind = kind /\ None \notin {e.value, e.unit}}
MetricsAreSampled ==
  \A impact \in Impacts :
    LET m == impact.metrics
        c == impact.counted
        Sampled(metric, samples) == metric.value # None <=> samples # {}
        Sum(effects) == MapThenSumSet(LAMBDA e : e.value, effects)
    IN /\ Sampled(m.quality_success_rate, c.runs) /\ Sampled(m.agent_success_rate, c.invocations)
       /\ \A key \in {"effect_adoption_rate", "reverification_rate", "evidence_coverage", "verified_effects"} :
            Sampled(m[key], c.effects)
       /\ \A key \in DOMAIN m :
            /\ m[key].comparison # "unavailable" => m[key].value # None /\ m[key].previous # None
            /\ key \notin {"time_saved", "time_saved_estimated"} =>
                 \A value \in {m[key].value, m[key].previous} \ {None} :
                   value[2] > 0 /\ (key \in {"quality_runs", "verified_effects"} \/ value[1] <= value[2])
       /\ \A kind \in {"measured", "user_estimated"} :
            LET timed == Timed(c.effects, kind)
                metric == IF kind = "measured" THEN m.time_saved ELSE m.time_saved_estimated
            IN metric.value = IF Cardinality({e.unit : e \in timed}) = 1 THEN <<Sum(timed), 1>> ELSE None

\* A trace that is complete is of an effect that the dashboard calls complete; it
\* misses nothing that the effect names (AssuranceTrace and summarizeTraceability
\* decide it apart).
Current == store @@ [files |-> world.files]
TracesAgree ==
  \A e \in store.effects :
    Trace(e, Current).complete =>
      /\ e \in Traceability({e}, Current).complete
      /\ e.finding # None => \E f \in store.findings : f.id = e.finding /\ e.project \in {None, f.project}
      /\ \A ref \in {e.source, e.ref} \ {None} :
           \E r \in store.runs \cup store.invocations : ref \in {r.id, r.trace}
      /\ \A id \in ToSet(e.evidence) : id \in world.files

\* "The JSON report contains the effects of the selected period and the artifacts
\* that belong to them" (docs/ASSURANCE_EFFECT_DASHBOARD.md:118): although effects
\* are read again, what the dashboard of a report counts is listed in it, with the
\* evidence that is valid.
ReportListsWhatItCounts ==
  \A a \in Answers("json") :
    /\ \A e \in a.answer.effects : a.answer.impact.start <= e.at /\ e.at < a.answer.impact.end
    /\ a.query.provider = None =>
         /\ a.answer.impact.counted.effects \subseteq a.answer.effects
         /\ \A e \in a.answer.impact.counted.effects : \A r \in store.artifacts :
              r.id \in ToSet(e.evidence) /\ r.valid => \E s \in a.answer.artifacts : s.id = r.id

\* An effect is evidence: none is changed or goes away (SaveEffect).
EffectsAreImmutable == store.effects \subseteq store'.effects
=============================================================================

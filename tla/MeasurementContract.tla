-------------------------- MODULE MeasurementContract --------------------------
(***************************************************************************)
(* What a measurement manifest must say of itself                          *)
(* (internal/measurement/contract.go, summary.go): the summary follows     *)
(* from the samples, the status of a probe from its requests, the status   *)
(* of the run from the required measurements.                              *)
(*                                                                         *)
(* A measurement is a record [id, name, required, status, provenance,      *)
(* requests, successes, failures, samples, p50, p95, command]; a run is a  *)
(* record [id, head, dirty, tools, started, ended, status, failures,       *)
(* metrics], where head stands for commit, HEAD, platform and the digest   *)
(* of the configuration, and tools maps a name to a version and a path.    *)
(* None is an unknown text or a value that is absent.  Samples are         *)
(* naturals and percentiles are counted in twentieths.                     *)
(***************************************************************************)
EXTENDS Naturals, SequencesExt

CONSTANT None

Statuses == {"pass", "fail", "unknown"}
Provenances == {"measured", "estimated", "inferred", "unavailable"}
DirtyStates == {"clean", "dirty", "unknown"}

\* percentileFromSorted: linear interpolation between two neighbours; percent is
\* 10 or 19 twentieths of a hundred.
Percentile_Nearest(samples, twentieths) ==
  LET sorted == SortSeq(samples, <)
      position == twentieths * (Len(sorted) - 1)
  IN 20 * sorted[position \div 20 + 1]
Percentile(samples, twentieths) ==
  LET sorted == SortSeq(samples, <)
      position == twentieths * (Len(sorted) - 1)
      lower == position \div 20 + 1
  IN IF position % 20 = 0 THEN 20 * sorted[lower]
     ELSE 20 * sorted[lower] + (position % 20) * (sorted[lower + 1] - sorted[lower])
\* Summarize; without samples there is no summary.
Summary(samples) ==
  IF samples = <<>> THEN [p50 |-> None, p95 |-> None]
  ELSE [p50 |-> Percentile(samples, 10), p95 |-> Percentile(samples, 19)]

\* NewMeasurement computes the summary of its input.
NewMeasurement(input) == Summary(input.samples) @@ input

\* validateRequestEvidence: requests that were answered are samples, and a probe
\* passes when all of them were.
StatusOfProbe(m) == CASE m.failures = 0 -> "pass" [] m.failures # 0 /\ m.successes = 0 -> "fail" [] OTHER -> "unknown"
RequestsAreEvidence_Mixed(m) ==
  IF m.requests = 0 THEN m.successes = 0 /\ m.failures = 0
  ELSE /\ m.successes + m.failures = m.requests /\ Len(m.samples) = m.successes
       /\ m.provenance = "measured" /\ (m.status = "pass" <=> m.successes > 0)
RequestsAreEvidence(m) ==
  IF m.requests = 0 THEN m.successes = 0 /\ m.failures = 0
  ELSE /\ m.successes + m.failures = m.requests /\ Len(m.samples) = m.successes
       /\ m.status = StatusOfProbe(m) /\ m.provenance = "measured"
\* A measurement without samples is unknown and unsourced, or a probe none of
\* whose requests was answered.
FailureOnly(m) ==
  m.requests > 0 /\ m.status = "fail" /\ m.provenance = "measured" /\ m.failures = m.requests
\* Measurement.Validate.
ValidMeasurement(m) ==
  /\ RequestsAreEvidence(m)
  /\ [p50 |-> m.p50, p95 |-> m.p95] = Summary(m.samples)
  /\ m.samples = <<>> => FailureOnly(m) \/ (m.status = "unknown" /\ m.provenance # "measured")
  /\ m.provenance = "unavailable" => m.samples = <<>> /\ m.status = "unknown"

\* requiredStatus: the gate of the run; without a required measurement it is unknown.
Required(metrics) == {i \in DOMAIN metrics : metrics[i].required}
RequiredFailures(metrics) ==
  LET upTo[n \in 0..Len(metrics)] ==
        IF n = 0 THEN <<>>
        ELSE IF n \in Required(metrics) /\ metrics[n].status # "pass" THEN Append(upTo[n - 1], metrics[n].id)
        ELSE upTo[n - 1]
  IN upTo[Len(metrics)]
RequiredStatus(metrics) ==
  CASE Required(metrics) = {} -> "unknown"
    [] Required(metrics) # {} /\ RequiredFailures(metrics) # <<>> -> "fail"
    [] OTHER -> "pass"

\* NewRun derives the gate; envelope is the rest of the run.
NewRun(envelope, metrics) ==
  [status |-> RequiredStatus(metrics), failures |-> RequiredFailures(metrics), metrics |-> metrics] @@ envelope

\* Reproducibility.Validate, of what the others do not already fix by their type.
ValidEnvelope(run) == run.dirty \in DirtyStates /\ run.started <= run.ended
\* Run.Validate.
ValidRun(run) ==
  /\ ValidEnvelope(run)
  /\ \A m \in ToSet(run.metrics) : ValidMeasurement(m)
  /\ \A i, j \in DOMAIN run.metrics : run.metrics[i].id = run.metrics[j].id => i = j
  /\ run.status = RequiredStatus(run.metrics) /\ run.failures = RequiredFailures(run.metrics)
=============================================================================

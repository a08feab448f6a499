--------------------------- MODULE MCObservation ----------------------------
(* Instances of WorktreeRegistry and ScanLoop, with the lemmas proved about  *)
(* them, one per behaviour: scenario is chosen once and the variables of the *)
(* other module are not used.                                                *)
EXTENDS Naturals, FiniteSets, Sequences

CONSTANTS None, a, b, p, q, root, s1, s2, unsafe, home1, home2

VARIABLES
  scenario,
  linkAt, owner, changes, faults, registry, scan, listed, complete, next, transaction,
  facts, queue, owed, stage, todo, rest, active, previous, unsaved, failed, latest,
  witnessed, findings, stale, reader, review, budget

\* Two links that come and go between two places, one scanning process, faults.
One == INSTANCE WorktreeRegistryProofs WITH
  Links <- {a, b}, Places <- {p, q}, Root <- root, Scanners <- {s1}, MaxChanges <- 3, MaxFaults <- 1
\* Two processes scan side by side.
Two == INSTANCE WorktreeRegistryProofs WITH
  Links <- {a, b}, Places <- {p}, Root <- root, Scanners <- {s1, s2}, MaxChanges <- 2, MaxFaults <- 0

\* Two projects, faults, a crash, requests; a user looks at one of them.  That a
\* clean-up is unsafe is both supposed and missed when optional reads fail.
Loop == INSTANCE ScanLoopProofs WITH
  Projects <- {p, q}, Repositories <- {home1, home2}, Order <- <<p, q>>,
  Holds <- [x \in {p, q} |-> IF x = p THEN <<home1>> ELSE <<home2>>],
  Serve <- s1, Others <- {}, Watched <- {q}, Conditions <- {unsafe}, Defaulting <- {}, Supposed <- {unsafe}, Hidden <- {unsafe},
  MaxChanges <- 1, MaxRequests <- 1, MaxAcknowledged <- 1, MaxFaults <- 1
\* Two processes scan one project while a user acknowledges.
Overlap == INSTANCE ScanLoopProofs WITH
  Projects <- {p}, Repositories <- {home1}, Order <- <<p>>, Holds <- [x \in {p} |-> <<home1>>],
  Serve <- s1, Others <- {s2}, Watched <- {}, Conditions <- {unsafe}, Defaulting <- {unsafe}, Supposed <- {unsafe}, Hidden <- {unsafe},
  MaxChanges <- 2, MaxRequests <- 0, MaxAcknowledged <- 1, MaxFaults <- 0

\* What the proofs about the modules assume holds of these instances.
ASSUME InstancesAreSound ==
  One!RegConstants /\ Two!RegConstants /\ Loop!ScanConstants /\ Overlap!ScanConstants

registryVars == <<linkAt, owner, changes, faults, registry, scan, listed, complete, next, transaction>>
loopVars == <<facts, queue, owed, stage, todo, rest, active, previous, unsaved, failed, latest,
  witnessed, findings, stale, reader, review, budget>>

NoRegistry ==
  /\ linkAt = None /\ owner = None /\ changes = None /\ faults = None /\ registry = None
  /\ scan = None /\ listed = None /\ complete = None /\ next = None /\ transaction = None
NoLoop ==
  /\ facts = None /\ queue = None /\ owed = None /\ stage = None /\ todo = None /\ rest = None
  /\ active = None /\ previous = None /\ unsaved = None /\ failed = None /\ latest = None
  /\ witnessed = None /\ findings = None /\ stale = None /\ reader = None /\ review = None
  /\ budget = None

Init ==
  \/ scenario = "one scan" /\ One!RegInit /\ NoLoop
  \/ scenario = "two scans" /\ Two!RegInit /\ NoLoop
  \/ scenario = "loop" /\ Loop!ScanInit /\ NoRegistry
  \/ scenario = "overlap" /\ Overlap!ScanInit /\ NoRegistry
OneScan == scenario = "one scan" /\ One!RegNext /\ UNCHANGED <<scenario, loopVars>>
TwoScans == scenario = "two scans" /\ Two!RegNext /\ UNCHANGED <<scenario, loopVars>>
OneLoop == scenario = "loop" /\ Loop!ScanNext /\ UNCHANGED <<scenario, registryVars>>
TwoLoops == scenario = "overlap" /\ Overlap!ScanNext /\ UNCHANGED <<scenario, registryVars>>
Next == OneScan \/ TwoScans \/ OneLoop \/ TwoLoops
vars == <<scenario, registryVars, loopVars>>
\* The fairness of the modules, each in its own scenario.
Fairness ==
  /\ \A s \in {s1, s2} :
       WF_vars(\/ scenario = "one scan" /\ s = s1 /\ One!ScanStep(s) /\ UNCHANGED <<scenario, loopVars>>
               \/ scenario = "two scans" /\ Two!ScanStep(s) /\ UNCHANGED <<scenario, loopVars>>
               \/ scenario = "loop" /\ s = s1 /\ Loop!Step(s) /\ UNCHANGED <<scenario, registryVars>>
               \/ scenario = "overlap" /\ Overlap!Step(s) /\ UNCHANGED <<scenario, registryVars>>)
  /\ WF_vars(/\ UNCHANGED <<scenario, registryVars>>
             /\ \/ scenario = "loop" /\ Loop!Take
                \/ scenario = "overlap" /\ Overlap!Take)
  /\ WF_vars(/\ UNCHANGED <<scenario, registryVars>>
             /\ \/ scenario = "loop" /\ Loop!AcknowledgeSave
                \/ scenario = "overlap" /\ Overlap!AcknowledgeSave)
Spec == Init /\ [][Next]_vars /\ Fairness

\* The properties of the modules, each in the scenarios of its module.
TypeOK ==
  CASE scenario = "one scan" -> One!RegTypeOK [] scenario = "two scans" -> Two!RegTypeOK
    [] scenario = "loop" -> Loop!ScanTypeOK [] scenario = "overlap" -> Overlap!ScanTypeOK
IdNamesOneCheckout ==
  /\ scenario = "one scan" => One!IdNamesOneCheckout
  /\ scenario = "two scans" => Two!IdNamesOneCheckout
StoredIsTheEnumeration ==
  [][/\ scenario = "one scan" => One!StoresTheEnumeration
     /\ scenario = "two scans" => Two!StoresTheEnumeration]_vars
ScansConverge ==
  <>[](/\ scenario = "one scan" => One!Sound
       /\ scenario = "two scans" => Two!Sound)
  => <>[](/\ scenario = "one scan" => One!Converged
          /\ scenario = "two scans" => Two!Converged)
ScanReportsAreTrue ==
  /\ scenario = "loop" => Loop!ScanReportsAreTrue
  /\ scenario = "overlap" => Overlap!ScanReportsAreTrue
RequestIsServed == scenario = "loop" /\ owed ~> scenario = "loop" /\ ~owed
FindingsSettle ==
  <>[](/\ scenario = "loop" => Loop!FindingsAgree
       /\ scenario = "overlap" => Overlap!FindingsAgree)
=============================================================================

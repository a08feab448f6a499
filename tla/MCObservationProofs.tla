------------------------ MODULE MCObservationProofs ------------------------
(***************************************************************************)
(* The properties of the run over MCObservation, from the lemmas proved of *)
(* WorktreeRegistry and ScanLoop for all constants: each instance keeps    *)
(* its invariant in its own scenario and stands still in the others.       *)
(***************************************************************************)
EXTENDS MCObservation, TLAPS

ObservationInv ==
  /\ scenario \in {"one scan", "two scans", "loop", "overlap"}
  /\ scenario = "one scan" => One!RegInv
  /\ scenario = "two scans" => Two!RegInv
  /\ scenario = "loop" => Loop!ScanInv
  /\ scenario = "overlap" => Overlap!ScanInv

LEMMA ObservationInitially == Init => ObservationInv
BY InstancesAreSound, One!RegInitially, Two!RegInitially, Loop!ScanInitially, Overlap!ScanInitially
   DEF Init, ObservationInv

LEMMA ObservationStep ==
  ASSUME ObservationInv, Next
  PROVE  ObservationInv'
<1>1. CASE OneScan
  BY <1>1, InstancesAreSound, One!RegStep DEF OneScan, ObservationInv
<1>2. CASE TwoScans
  BY <1>2, InstancesAreSound, Two!RegStep DEF TwoScans, ObservationInv
<1>3. CASE OneLoop
  BY <1>3, InstancesAreSound, Loop!ScanStep DEF OneLoop, ObservationInv
<1>4. CASE TwoLoops
  BY <1>4, InstancesAreSound, Overlap!ScanStep DEF TwoLoops, ObservationInv
<1> QED BY <1>1, <1>2, <1>3, <1>4 DEF Next

LEMMA ObservationStutter ==
  ASSUME ObservationInv, UNCHANGED vars
  PROVE  ObservationInv'
<1>1. UNCHANGED <<scenario, registryVars, loopVars>>
  BY DEF vars
<1>2. UNCHANGED <<One!regVars, Two!regVars>>
  BY <1>1 DEF registryVars, One!regVars, One!checkouts, One!progress,
              Two!regVars, Two!checkouts, Two!progress
<1>3. UNCHANGED <<Loop!scanVars, Overlap!scanVars>>
  BY <1>1 DEF loopVars, Loop!scanVars, Loop!local, Loop!tables, Loop!people,
              Overlap!scanVars, Overlap!local, Overlap!tables, Overlap!people
<1> QED BY <1>1, <1>2, <1>3, One!RegStutter, Two!RegStutter, Loop!ScanStutter, Overlap!ScanStutter
        DEF ObservationInv

\* In every state of the run, each scenario keeps the invariant of its module.
THEOREM ObservationIsSound == Spec => []ObservationInv
<1>1. ObservationInv /\ [Next]_vars => ObservationInv'
  BY ObservationStep, ObservationStutter
<1> QED BY <1>1, ObservationInitially, PTL DEF Spec

\* The tables, listings and runs of the two modules have their types.
THEOREM ObservationTypes == Spec => []TypeOK
<1>1. ObservationInv => TypeOK
  BY DEF ObservationInv, TypeOK, One!RegInv, Two!RegInv, Loop!ScanInv, Overlap!ScanInv
<1> QED BY <1>1, ObservationIsSound, PTL

\* An id is never given to another checkout (git.go:391, repository.go:278).
THEOREM ObservedIdsStay == Spec => []IdNamesOneCheckout
<1>1. ObservationInv => IdNamesOneCheckout
  BY DEF ObservationInv, IdNamesOneCheckout, One!RegInv, Two!RegInv
<1> QED BY <1>1, ObservationIsSound, PTL

\* A scan run reported as succeeded read all that it must of its whole project
\* (app.go:778); optional reads may have failed.
THEOREM ObservedSuccessIsTrue == Spec => []ScanReportsAreTrue
<1>1. ObservationInv => ScanReportsAreTrue
  BY DEF ObservationInv, ScanReportsAreTrue, Loop!ScanInv, Overlap!ScanInv
<1> QED BY <1>1, ObservationIsSound, PTL

\* A complete enumeration that is stored leaves one live row for each of its
\* worktrees and no other (ReplaceWorktrees, repository.go).
THEOREM ObservedEnumerationsAreWhole == Spec => StoredIsTheEnumeration
<1>1. ObservationInv /\ [Next]_vars =>
        [/\ scenario = "one scan" => One!StoresTheEnumeration
         /\ scenario = "two scans" => Two!StoresTheEnumeration]_vars
  BY InstancesAreSound, One!EveryCommitCounts, Two!EveryCommitCounts DEF ObservationInv
<1> QED BY <1>1, ObservationIsSound, PTL DEF Spec, StoredIsTheEnumeration
=============================================================================

------------------------- MODULE ActionBrokerProofs -------------------------
(***************************************************************************)
(* Proofs about ActionBroker for every value of its constants.             *)
(***************************************************************************)
EXTENDS ActionBroker, TLAPS

\* A handler that comes to Record has classified its child process.
OutcomeKnown ==
  \A r \in Requests : pc[r] \in {"record", "postverify", "postcontext", "posttrust"}
                        => outcome[r] \in Statuses
TypeInv == TypeOK /\ OutcomeKnown

LEMMA TypeInit == ASSUME Init PROVE TypeInv
<1>1. 0 \in Times BY BoundAssumption DEF Times
<1>. QED
  BY <1>1, RequestAssumption
  DEF Init, TypeInv, TypeOK, OutcomeKnown, Phases, AdmitPhases, ExecutePhases, Terminal

\* The read-only steps go from one phase to one of two others.
LEMMA CheckType ==
  ASSUME TypeInv, NEW r \in Requests, NEW from, NEW passes, NEW yes \in Phases, NEW no \in Phases,
         {yes, no} \cap {"record", "postverify", "postcontext", "posttrust"} = {},
         Check(r, from, passes, yes, no)
  PROVE  TypeInv'
BY DEF TypeInv, TypeOK, OutcomeKnown, Check, Goto, tree, human, table, memo, environment

LEMMA DropLockType ==
  ASSUME TypeOK, NEW r \in Requests, NEW a, DropLock(r, a)
  PROVE  locks' \in [Worktrees -> Rows \cup {None}] /\ stray' \subseteq Rows
<1>1. Place(r) \in Worktrees BY RequestAssumption, PlanAssumption DEF Place
<1>2. Owned(r) => locks[Place(r)] \in Rows BY <1>1 DEF Owned, TypeOK
<1>. QED BY <1>1, <1>2 DEF DropLock, Leave, TypeOK

LEMMA TypeStep == ASSUME TypeInv, [Next]_vars PROVE TypeInv'
<1>. USE DEF Phases, AdmitPhases, ExecutePhases, Terminal
<1>1. ASSUME NEW r \in Requests, Advance(r) PROVE TypeInv'
  <2>. PlanOf[r] \in Plans /\ Place(r) \in Worktrees /\ HolderOf[r] \in Holders /\ KeyOf[r] \in Keys
    BY RequestAssumption, PlanAssumption DEF Place
  <2>1. CASE AdmitApprovals(r) BY <2>1, CheckType DEF AdmitApprovals
  <2>2. CASE AdmitContext(r) BY <2>2, CheckType DEF AdmitContext
  <2>3. CASE AdmitTrust(r) BY <2>3, CheckType DEF AdmitTrust
  <2>4. CASE Acquire(r)
    <3>1. asked[r] + Lease \in Nat BY BoundAssumption DEF TypeInv, TypeOK, Times
    <3>. QED BY <2>4, <3>1
      DEF TypeInv, TypeOK, OutcomeKnown, Acquire, Goto, Rows, tree, human, environment
  <2>5. CASE Claim(r)
    BY <2>5 DEF TypeInv, TypeOK, OutcomeKnown, Claim, Goto, tree, human, memo, environment
  <2>6. CASE Announce(r)
    BY <2>6 DEF TypeInv, TypeOK, OutcomeKnown, Announce, Goto, Event, EventsOf, tree, human, memo, environment
  <2>7. CASE Unlock(r)
    BY <2>7, DropLockType DEF TypeInv, TypeOK, OutcomeKnown, Unlock, Goto, tree, human, memo, environment
  <2>8. CASE Undo(r)
    BY <2>8, DropLockType DEF TypeInv, TypeOK, OutcomeKnown, Undo, Goto, tree, human, memo, environment
  <2>9. CASE Unclaim(r)
    BY <2>9 DEF TypeInv, TypeOK, OutcomeKnown, Unclaim, Goto, tree, human, memo, environment
  <2>10. CASE ExecuteLoad(r)
    <3>1. locks' \in [Worktrees -> Rows \cup {None}] /\ stray' \subseteq Rows
      BY <2>10, DropLockType DEF ExecuteLoad, DropLock, TypeInv, TypeOK
    <3>2. \E to \in {"rescope", "returned"} : pc' = [pc EXCEPT ![r] = to]
      BY <2>10 DEF ExecuteLoad, Goto
    <3>. QED BY <2>10, <3>1, <3>2 DEF TypeInv, TypeOK, OutcomeKnown, ExecuteLoad, tree, human, memo
  <2>11. CASE ExecuteScope(r) BY <2>11, CheckType DEF ExecuteScope
  <2>12. CASE ExecuteApprovals(r) BY <2>12, CheckType DEF ExecuteApprovals
  <2>13. CASE Revalidate(r)
    BY <2>13 DEF TypeInv, TypeOK, OutcomeKnown, Revalidate, Goto, tree, human, table, memo, environment
  <2>14. CASE ExecuteContext(r) BY <2>14, CheckType DEF ExecuteContext
  <2>15. CASE ExecuteTrust(r) BY <2>15, CheckType DEF ExecuteTrust
  <2>16. CASE Start(r)
    BY <2>16 DEF TypeInv, TypeOK, OutcomeKnown, Start, Goto, Event, EventsOf, tree, human, memo, environment
  <2>17. CASE Launch(r)
    BY <2>17 DEF TypeInv, TypeOK, OutcomeKnown, Launch, Goto, Statuses, tree, human, table, environment
  <2>18. CASE Exit(r)
    BY <2>18 DEF TypeInv, TypeOK, OutcomeKnown, Exit, Goto, tree, human, table, environment
  <2>19. ASSUME NEW from \in {"postverify", "postcontext", "posttrust"}, NEW passes, NEW mayFail,
                NEW next \in Phases, PostCheck(r, from, passes, mayFail, next)
         PROVE  TypeInv'
    BY <2>19 DEF TypeInv, TypeOK, OutcomeKnown, PostCheck, Goto, Statuses, tree, human, table, environment
  <2>20. CASE PostRevalidate(r) BY <2>20, <2>19 DEF PostRevalidate
  <2>21. CASE PostContext(r) BY <2>21, <2>19 DEF PostContext
  <2>22. CASE PostTrust(r) BY <2>22, <2>19 DEF PostTrust
  <2>23. CASE Record(r)
    <3>1. (IF pc[r] = "reject" THEN "precheck_failed" ELSE outcome[r]) \in Statuses
      BY <2>23 DEF Record, TypeInv, OutcomeKnown, Statuses
    <3>. QED BY <2>23, <3>1
      DEF TypeInv, TypeOK, OutcomeKnown, Record, Goto, Event, EventsOf, tree, human, memo, environment
  <2>24. CASE Release(r)
    BY <2>24, DropLockType DEF TypeInv, TypeOK, OutcomeKnown, Release, Goto, tree, human, memo, environment
  <2>25. CASE Dispatch(r)
    BY <2>25 DEF TypeInv, TypeOK, OutcomeKnown, Dispatch, Goto, Event, EventsOf, tree, human, environment
  <2>26. CASE Collect(r)
    BY <2>26 DEF TypeInv, TypeOK, OutcomeKnown, Collect, Goto, Event, EventsOf, Statuses, tree, human, environment
  <2>. QED
    BY <1>1, <2>1, <2>2, <2>3, <2>4, <2>5, <2>6, <2>7, <2>8, <2>9, <2>10, <2>11, <2>12, <2>13,
       <2>14, <2>15, <2>16, <2>17, <2>18, <2>20, <2>21, <2>22, <2>23, <2>24, <2>25, <2>26
    DEF Advance
<1>2. ASSUME NEW r \in Requests, Caller(r) PROVE TypeInv'
  <2>. Place(r) \in Worktrees BY RequestAssumption, PlanAssumption DEF Place
  <2>1. CASE AdmitLoad(r)
    BY <2>1 DEF TypeInv, TypeOK, OutcomeKnown, AdmitLoad, Goto, tree, human, table, environment
  <2>2. CASE Renew(r)
    <3>1. clock + Lease \in Nat BY BoundAssumption DEF TypeInv, TypeOK, Times
    <3>2. locks[Place(r)] \in Rows BY <2>2 DEF Renew, Owned, TypeInv, TypeOK
    <3>3. [locks[Place(r)] EXCEPT !.expires = clock + Lease] \in Rows BY <3>1, <3>2 DEF Rows
    <3>4. locks' = [locks EXCEPT ![Place(r)] = [locks[Place(r)] EXCEPT !.expires = clock + Lease]]
      BY <2>2 DEF Renew
    <3>5. locks' \in [Worktrees -> Rows \cup {None}] BY <3>3, <3>4 DEF TypeInv, TypeOK
    <3>. QED BY <2>2, <3>1, <3>5 DEF TypeInv, TypeOK, OutcomeKnown, Renew, tree, human, environment
  <2>3. CASE HandBack(r)
    BY <2>3, DropLockType DEF TypeInv, TypeOK, OutcomeKnown, HandBack, Goto, tree, human, memo, environment
  <2>4. CASE Forget(r)
    BY <2>4 DEF TypeInv, TypeOK, OutcomeKnown, Forget, Goto, tree, human, table, memo, environment
  <2>5. CASE Cancel(r)
    BY <2>5, RequestAssumption DEF TypeInv, TypeOK, OutcomeKnown, Cancel, tree, human, table, memo
  <2>. QED BY <1>2, <2>1, <2>2, <2>3, <2>4, <2>5 DEF Caller
<1>3. ASSUME Person PROVE TypeInv'
  <2>1. ASSUME NEW s \in Servers, NEW p \in Plans, OpenPrompt(s, p) PROVE TypeInv'
    BY <2>1 DEF TypeInv, TypeOK, OutcomeKnown, OpenPrompt, tree, table, memo, environment
  <2>2. ASSUME NEW s \in Servers, Decide(s) PROVE TypeInv'
    <3>1. prompts[s] \in [plan : Plans, at : Times] BY <2>2 DEF Decide, TypeInv, TypeOK
    <3>2. \A yes \in BOOLEAN : [plan |-> prompts[s].plan, granted |-> yes, at |-> prompts[s].at] \in Decisions
      BY <3>1 DEF Decisions
    <3>. QED BY <2>2, <3>2 DEF TypeInv, TypeOK, OutcomeKnown, Decide, tree, table, memo, environment
  <2>3. ASSUME NEW s \in Servers, ClosePrompt(s) PROVE TypeInv'
    BY <2>3 DEF TypeInv, TypeOK, OutcomeKnown, ClosePrompt, tree, table, memo, environment
  <2>4. ASSUME NEW p \in Plans, Revoke(p) PROVE TypeInv'
    BY <2>4 DEF TypeInv, TypeOK, OutcomeKnown, Revoke, tree, table, memo, environment
  <2>. QED BY <1>3, <2>1, <2>2, <2>3, <2>4 DEF Person
<1>4. ASSUME World PROVE TypeInv'
  <2>1. ASSUME NEW w \in Worktrees, Scan(w) PROVE TypeInv'
    BY <2>1 DEF TypeInv, TypeOK, OutcomeKnown, Scan, human, table, memo, environment
  <2>2. ASSUME NEW w \in Worktrees, TrustRead(w) PROVE TypeInv'
    BY <2>2 DEF TypeInv, TypeOK, OutcomeKnown, TrustRead, human, table, memo, environment
  <2>3. ASSUME NEW w \in Worktrees, TrustWrite(w) PROVE TypeInv'
    BY <2>3 DEF TypeInv, TypeOK, OutcomeKnown, TrustWrite, human, table, memo, environment
  <2>4. ASSUME NEW w \in Worktrees, NEW c \in Contexts \cup {Gone}, Move(w, c) PROVE TypeInv'
    BY <2>4 DEF TypeInv, TypeOK, OutcomeKnown, Move, human, table, memo, environment
  <2>5. ASSUME NEW s \in Servers, Crash(s) PROVE TypeInv'
    BY <2>5 DEF TypeInv, TypeOK, OutcomeKnown, Crash, tree, table, memo, environment
  <2>6. CASE Tick
    BY <2>6, BoundAssumption DEF TypeInv, TypeOK, OutcomeKnown, Tick, Times, tree, human, table, memo
  <2>. QED BY <1>4, <2>1, <2>2, <2>3, <2>4, <2>5, <2>6 DEF World
<1>5. CASE UNCHANGED vars
  BY <1>5 DEF TypeInv, TypeOK, OutcomeKnown, vars, tree, human, table, memo, environment
<1>. QED BY <1>1, <1>2, <1>3, <1>4, <1>5 DEF Next

\* Every reachable state has the shape the tables and handlers are declared with.
THEOREM TypeCorrect == Spec => []TypeOK
<1>1. TypeInv => TypeOK BY DEF TypeInv
<1>. QED BY <1>1, TypeInit, TypeStep, PTL DEF Spec

-----------------------------------------------------------------------------
(* One idempotency key, one start. *)

\* From the insert of its key on, a request owns it; a launched one forever.
KeyPhases == {"announce", "undo", "unclaim"} \cup ExecutePhases
EarlyPhases == {"idle"} \cup AdmitPhases
OwnsKey(r) == pc[r] \in KeyPhases \/ r \in launched
KeyInv ==
  /\ \A r \in Requests : OwnsKey(r) => claims[KeyOf[r]] = PlanOf[r]
  /\ \A r, q \in Requests : OwnsKey(r) /\ OwnsKey(q) /\ KeyOf[r] = KeyOf[q] => r = q
  /\ \A r \in Requests : pc[r] \in EarlyPhases => r \notin launched

LEMMA KeyInit == ASSUME Init PROVE KeyInv
BY DEF Init, KeyInv, OwnsKey, KeyPhases, ExecutePhases

\* A step that neither writes keys nor starts anything, and does not bring its
\* request into KeyPhases or back to EarlyPhases from outside.
LEMMA KeyMove ==
  ASSUME TypeOK, KeyInv, NEW r \in Requests, UNCHANGED <<claims, launched>>,
         NEW to, pc' = [pc EXCEPT ![r] = to],
         to \in KeyPhases => pc[r] \in KeyPhases,
         to \in EarlyPhases => pc[r] \in EarlyPhases
  PROVE  KeyInv'
<1>1. \A q \in Requests : OwnsKey(q)' => OwnsKey(q) BY DEF OwnsKey, TypeOK
<1>. QED BY <1>1 DEF KeyInv, TypeOK

LEMMA KeyStep == ASSUME TypeOK, KeyInv, [Next]_vars PROVE KeyInv'
<1>. USE DEF KeyPhases, EarlyPhases, AdmitPhases, ExecutePhases
<1>1. ASSUME NEW r \in Requests, Advance(r) PROVE KeyInv'
  <2>. KeyOf[r] \in Keys /\ PlanOf[r] \in Plans BY RequestAssumption
  <2>1. CASE AdmitApprovals(r) BY <2>1, KeyMove DEF AdmitApprovals, Check, Goto, table, memo
  <2>2. CASE AdmitContext(r) BY <2>2, KeyMove DEF AdmitContext, Check, Goto, table, memo
  <2>3. CASE AdmitTrust(r) BY <2>3, KeyMove DEF AdmitTrust, Check, Goto, table, memo
  <2>4. CASE Acquire(r) BY <2>4, KeyMove DEF Acquire, Goto
  <2>5. CASE Claim(r)
    <3>1. CASE UNCHANGED claims /\ Goto(r, "unlock")
      BY <2>5, <3>1, KeyMove DEF Claim, Goto, memo
    <3>2. CASE claims[KeyOf[r]] = None /\ claims' = [claims EXCEPT ![KeyOf[r]] = PlanOf[r]]
      <4>1. \A q \in Requests : OwnsKey(q) => KeyOf[q] # KeyOf[r]
        BY <3>2, NoneAssumption, RequestAssumption DEF KeyInv
      <4>2. \A q \in Requests : OwnsKey(q)' => OwnsKey(q) \/ q = r
        BY <2>5 DEF Claim, Goto, OwnsKey, TypeOK, memo
      <4>3. \A q \in Requests : OwnsKey(q)' => claims'[KeyOf[q]] = PlanOf[q]
        BY <3>2, <4>1, <4>2, RequestAssumption DEF KeyInv, TypeOK
      <4>4. \A q, x \in Requests : OwnsKey(q)' /\ OwnsKey(x)' /\ KeyOf[q] = KeyOf[x] => q = x
        BY <4>1, <4>2 DEF KeyInv
      <4>5. \A q \in Requests : pc'[q] \in EarlyPhases => q \notin launched'
        BY <2>5 DEF Claim, Goto, KeyInv, TypeOK, memo
      <4>. QED BY <4>3, <4>4, <4>5 DEF KeyInv
    <3>. QED BY <2>5, <3>1, <3>2 DEF Claim
  <2>6. CASE Announce(r) BY <2>6, KeyMove DEF Announce, Goto, memo
  <2>7. CASE Unlock(r) BY <2>7, KeyMove DEF Unlock, Goto, memo
  <2>8. CASE Undo(r) BY <2>8, KeyMove DEF Undo, Goto, memo
  <2>9. CASE Unclaim(r)
    <3>1. CASE UNCHANGED claims BY <2>9, <3>1, KeyMove DEF Unclaim, Goto, memo
    <3>2. CASE claims' = [claims EXCEPT ![KeyOf[r]] = None]
      <4>1. OwnsKey(r) /\ ~OwnsKey(r)' BY <2>9 DEF Unclaim, Goto, OwnsKey, KeyInv, TypeOK, memo
      <4>2. \A q \in Requests : OwnsKey(q)' => OwnsKey(q) /\ q # r
        BY <2>9, <4>1 DEF Unclaim, Goto, OwnsKey, TypeOK, memo
      <4>3. \A q \in Requests : OwnsKey(q)' => claims'[KeyOf[q]] = PlanOf[q]
        BY <3>2, <4>1, <4>2, RequestAssumption DEF KeyInv, TypeOK
      <4>4. \A q \in Requests : pc'[q] \in EarlyPhases => q \notin launched'
        BY <2>9 DEF Unclaim, Goto, KeyInv, TypeOK, memo
      <4>. QED BY <4>2, <4>3, <4>4 DEF KeyInv
    <3>. QED BY <2>9, <3>1, <3>2 DEF Unclaim
  <2>10. CASE ExecuteLoad(r) BY <2>10, KeyMove DEF ExecuteLoad, Check, Goto, table, memo
  <2>11. CASE ExecuteScope(r) BY <2>11, KeyMove DEF ExecuteScope, Check, Goto, table, memo
  <2>12. CASE ExecuteApprovals(r) BY <2>12, KeyMove DEF ExecuteApprovals, Check, Goto, table, memo
  <2>13. CASE Revalidate(r) BY <2>13, KeyMove DEF Revalidate, Goto, table, memo
  <2>14. CASE ExecuteContext(r) BY <2>14, KeyMove DEF ExecuteContext, Check, Goto, table, memo
  <2>15. CASE ExecuteTrust(r) BY <2>15, KeyMove DEF ExecuteTrust, Check, Goto, table, memo
  <2>16. CASE Start(r) BY <2>16, KeyMove DEF Start, Goto, memo
  \* What starts a child or a job owns its key already.
  <2>17. ASSUME NEW from \in KeyPhases \ EarlyPhases, NEW to \in KeyPhases \ EarlyPhases,
                pc[r] = from, pc' = [pc EXCEPT ![r] = to],
                launched' \in {launched, launched \cup {r}}, UNCHANGED claims
         PROVE  KeyInv'
    <3>1. \A q \in Requests : OwnsKey(q)' => OwnsKey(q) BY <2>17 DEF OwnsKey, TypeOK
    <3>. QED BY <2>17, <3>1 DEF KeyInv, TypeOK
  <2>18. CASE Launch(r) BY <2>17, <2>18 DEF Launch, Goto, table
  <2>19. CASE Exit(r) BY <2>19, KeyMove DEF Exit, Goto, table
  <2>20. CASE PostRevalidate(r) BY <2>20, KeyMove DEF PostRevalidate, PostCheck, Goto, table
  <2>21. CASE PostContext(r) BY <2>21, KeyMove DEF PostContext, PostCheck, Goto, table
  <2>22. CASE PostTrust(r) BY <2>22, KeyMove DEF PostTrust, PostCheck, Goto, table
  <2>23. CASE Record(r) BY <2>23, KeyMove DEF Record, Goto, memo
  <2>24. CASE Release(r) BY <2>24, KeyMove DEF Release, Goto, memo
  <2>25. CASE Dispatch(r) BY <2>17, <2>25 DEF Dispatch, Goto
  <2>26. CASE Collect(r) BY <2>26, KeyMove DEF Collect, Goto
  <2>. QED
    BY <1>1, <2>1, <2>2, <2>3, <2>4, <2>5, <2>6, <2>7, <2>8, <2>9, <2>10, <2>11, <2>12, <2>13,
       <2>14, <2>15, <2>16, <2>18, <2>19, <2>20, <2>21, <2>22, <2>23, <2>24, <2>25, <2>26
    DEF Advance
<1>2. ASSUME NEW r \in Requests, Caller(r) PROVE KeyInv'
  <2>1. CASE AdmitLoad(r) BY <2>1, KeyMove DEF AdmitLoad, Goto, table
  <2>2. CASE Renew(r) BY <2>2 DEF Renew, KeyInv, OwnsKey
  <2>3. CASE HandBack(r) BY <2>3, KeyMove DEF HandBack, Goto, memo
  <2>4. CASE Forget(r) BY <2>4, KeyMove DEF Forget, Goto, table, memo
  <2>5. CASE Cancel(r) BY <2>5 DEF Cancel, KeyInv, OwnsKey, table, memo
  <2>. QED BY <1>2, <2>1, <2>2, <2>3, <2>4, <2>5 DEF Caller
<1>3. CASE UNCHANGED <<pc, claims, launched>> BY <1>3 DEF KeyInv, OwnsKey
<1>4. ASSUME Person PROVE UNCHANGED <<pc, claims, launched>>
  BY <1>4 DEF Person, OpenPrompt, Decide, ClosePrompt, Revoke, table, memo
<1>5. ASSUME World PROVE KeyInv'
  <2>1. ASSUME NEW s \in Servers, Crash(s) PROVE KeyInv'
    <3>1. UNCHANGED <<claims, launched>> BY <2>1 DEF Crash, table, memo
    <3>2. \A q \in Requests : pc'[q] \in {pc[q], "crashed"} BY <2>1 DEF Crash
    <3>3. \A q \in Requests : OwnsKey(q)' => OwnsKey(q) BY <3>1, <3>2 DEF OwnsKey
    <3>. QED BY <3>1, <3>2, <3>3 DEF KeyInv
  <2>. QED
    BY <1>3, <1>5, <2>1 DEF World, Scan, TrustRead, TrustWrite, Move, Tick, table, memo
<1>. QED BY <1>1, <1>2, <1>3, <1>4, <1>5 DEF Next, vars, table, memo

\* Whatever fails, is cancelled, loses its reply or is killed: one idempotency
\* key starts at most one child process or remote job.
THEOREM KeyStartsOnce == Spec => []OneStartPerKey
<1>1. TypeInv => TypeOK BY DEF TypeInv
<1>2. TypeOK /\ KeyInv => OneStartPerKey BY DEF TypeOK, KeyInv, OwnsKey, OneStartPerKey
<1>. QED BY <1>1, <1>2, TypeInit, TypeStep, KeyInit, KeyStep, PTL DEF Spec

-----------------------------------------------------------------------------
(* Evidence before effect. *)

StartedPhases == {"launch", "running", "postverify", "postcontext", "posttrust", "record"}
EvidenceInv ==
  /\ \A r \in Requests : pc[r] \in ExecutePhases => Admitted(r)
  /\ \A r \in Requests : pc[r] \in StartedPhases => StartLogged(r)
  /\ \A r \in launched : Admitted(r) /\ (PlanOf[r] \in Delegated \/ StartLogged(r))
  /\ \A r \in Requests : runs[r] # "none" =>
       /\ Admitted(r) /\ (runs[r] = "precheck_failed" \/ StartLogged(r))
       /\ Event(runs[r], r) \in trail

LEMMA EvidenceInit == ASSUME Init PROVE EvidenceInv
BY DEF Init, EvidenceInv, ExecutePhases, StartedPhases

\* The trail only grows; a step that stores no run and starts nothing needs the
\* events of the phase it enters.
LEMMA EvidenceMove ==
  ASSUME TypeOK, EvidenceInv, NEW r \in Requests, UNCHANGED <<runs, launched>>,
         trail \subseteq trail', NEW to, pc' = [pc EXCEPT ![r] = to],
         to \in ExecutePhases => pc[r] \in ExecutePhases \/ Admitted(r)',
         to \in StartedPhases => pc[r] \in StartedPhases \/ StartLogged(r)'
  PROVE  EvidenceInv'
<1>1. \A q \in Requests : (Admitted(q) => Admitted(q)') /\ (StartLogged(q) => StartLogged(q)')
  BY DEF Admitted, StartLogged
<1>2. \A q \in Requests : pc'[q] \in ExecutePhases => Admitted(q)' BY <1>1 DEF EvidenceInv, TypeOK
<1>3. \A q \in Requests : pc'[q] \in StartedPhases => StartLogged(q)' BY <1>1 DEF EvidenceInv, TypeOK
<1>4. \A q \in launched' : Admitted(q)' /\ (PlanOf[q] \in Delegated \/ StartLogged(q)')
  BY <1>1 DEF EvidenceInv, TypeOK
<1>5. \A q \in Requests : runs'[q] # "none" =>
        /\ Admitted(q)' /\ (runs'[q] = "precheck_failed" \/ StartLogged(q)')
        /\ Event(runs'[q], q) \in trail'
  BY <1>1 DEF EvidenceInv
<1>. QED BY <1>2, <1>3, <1>4, <1>5 DEF EvidenceInv, Event

LEMMA EvidenceStep == ASSUME TypeOK, EvidenceInv, [Next]_vars PROVE EvidenceInv'
<1>. USE DEF StartedPhases, ExecutePhases
<1>1. ASSUME NEW r \in Requests, Advance(r) PROVE EvidenceInv'
  <2>1. CASE AdmitApprovals(r) BY <2>1, EvidenceMove DEF AdmitApprovals, Check, Goto, table, memo
  <2>2. CASE AdmitContext(r) BY <2>2, EvidenceMove DEF AdmitContext, Check, Goto, table, memo
  <2>3. CASE AdmitTrust(r) BY <2>3, EvidenceMove DEF AdmitTrust, Check, Goto, table, memo
  <2>4. CASE Acquire(r) BY <2>4, EvidenceMove DEF Acquire, Goto
  <2>5. CASE Claim(r) BY <2>5, EvidenceMove DEF Claim, Goto, memo
  <2>6. CASE Announce(r) BY <2>6, EvidenceMove DEF Announce, Goto, memo, Admitted
  <2>7. CASE Unlock(r) BY <2>7, EvidenceMove DEF Unlock, Goto, memo
  <2>8. CASE Undo(r) BY <2>8, EvidenceMove DEF Undo, Goto, memo
  <2>9. CASE Unclaim(r) BY <2>9, EvidenceMove DEF Unclaim, Goto, memo
  <2>10. CASE ExecuteLoad(r) BY <2>10, EvidenceMove DEF ExecuteLoad, Check, Goto, table, memo
  <2>11. CASE ExecuteScope(r) BY <2>11, EvidenceMove DEF ExecuteScope, Check, Goto, table, memo
  <2>12. CASE ExecuteApprovals(r) BY <2>12, EvidenceMove DEF ExecuteApprovals, Check, Goto, table, memo
  <2>13. CASE Revalidate(r) BY <2>13, EvidenceMove DEF Revalidate, Goto, table, memo
  <2>14. CASE ExecuteContext(r) BY <2>14, EvidenceMove DEF ExecuteContext, Check, Goto, table, memo
  <2>15. CASE ExecuteTrust(r) BY <2>15, EvidenceMove DEF ExecuteTrust, Check, Goto, table, memo
  <2>16. CASE Start(r) BY <2>16, EvidenceMove DEF Start, Goto, memo, StartLogged
  <2>17. CASE Launch(r)
    <3>1. Admitted(r) /\ StartLogged(r) /\ UNCHANGED <<trail, runs>>
      BY <2>17 DEF Launch, EvidenceInv, table
    <3>2. launched' \in {launched, launched \cup {r}} BY <2>17 DEF Launch
    <3>3. \A q \in Requests : pc'[q] # pc[q] => q = r BY <2>17 DEF Launch, Goto, TypeOK
    <3>. QED BY <3>1, <3>2, <3>3 DEF EvidenceInv, Admitted, StartLogged, Event
  <2>18. CASE Exit(r) BY <2>18, EvidenceMove DEF Exit, Goto, table
  <2>19. CASE PostRevalidate(r) BY <2>19, EvidenceMove DEF PostRevalidate, PostCheck, Goto, table
  <2>20. CASE PostContext(r) BY <2>20, EvidenceMove DEF PostContext, PostCheck, Goto, table
  <2>21. CASE PostTrust(r) BY <2>21, EvidenceMove DEF PostTrust, PostCheck, Goto, table
  <2>22. CASE Record(r)
    <3>1. CASE UNCHANGED <<runs, trail>> BY <2>22, <3>1, EvidenceMove DEF Record, Goto, memo
    <3>2. ASSUME NEW status, status = (IF pc[r] = "reject" THEN "precheck_failed" ELSE outcome[r]),
                 runs' = [runs EXCEPT ![r] = status], trail' = trail \cup {Event(status, r)}
          PROVE  EvidenceInv'
      <4>1. Admitted(r) /\ (status = "precheck_failed" \/ StartLogged(r))
        BY <2>22, <3>2 DEF Record, EvidenceInv
      <4>2. \A q \in Requests : pc'[q] \in ExecutePhases => pc[q] \in ExecutePhases
        BY <2>22 DEF Record, Goto, TypeOK
      <4>3. \A q \in Requests : pc'[q] \in StartedPhases => pc[q] \in StartedPhases
        BY <2>22 DEF Record, Goto, TypeOK
      <4>4. \A q \in Requests : runs'[q] # "none" =>
              /\ Admitted(q)' /\ (runs'[q] = "precheck_failed" \/ StartLogged(q)')
              /\ Event(runs'[q], q) \in trail'
        BY <3>2, <4>1 DEF EvidenceInv, TypeOK, Admitted, StartLogged, Event
      <4>5. launched' = launched BY <2>22 DEF Record, memo
      <4>. QED
        BY <3>2, <4>2, <4>3, <4>4, <4>5 DEF EvidenceInv, Admitted, StartLogged, Event
    <3>. QED BY <2>22, <3>1, <3>2 DEF Record
  <2>23. CASE Release(r) BY <2>23, EvidenceMove DEF Release, Goto, memo
  <2>24. CASE Dispatch(r)
    <3>1. Admitted(r) /\ PlanOf[r] \in Delegated BY <2>24 DEF Dispatch, EvidenceInv
    <3>2. launched' \in {launched, launched \cup {r}} /\ trail \subseteq trail' /\ runs' = runs
      BY <2>24 DEF Dispatch
    <3>3. \A q \in Requests : pc'[q] # pc[q] => q = r /\ pc'[q] \in {"delegated", "release"}
      BY <2>24 DEF Dispatch, Goto, TypeOK
    <3>. QED BY <3>1, <3>2, <3>3 DEF EvidenceInv, Admitted, StartLogged, Event
  <2>25. CASE Collect(r) BY <2>25, EvidenceMove DEF Collect, Goto
  <2>. QED
    BY <1>1, <2>1, <2>2, <2>3, <2>4, <2>5, <2>6, <2>7, <2>8, <2>9, <2>10, <2>11, <2>12, <2>13,
       <2>14, <2>15, <2>16, <2>17, <2>18, <2>19, <2>20, <2>21, <2>22, <2>23, <2>24, <2>25
    DEF Advance
<1>2. CASE UNCHANGED <<pc, trail, runs, launched>>
  BY <1>2 DEF EvidenceInv, Admitted, StartLogged, Event
<1>3. ASSUME NEW r \in Requests, Caller(r) PROVE EvidenceInv'
  <2>1. CASE AdmitLoad(r) BY <2>1, EvidenceMove DEF AdmitLoad, Goto, table
  <2>2. CASE Renew(r) \/ Cancel(r) BY <1>2, <2>2 DEF Renew, Cancel, table, memo
  <2>3. CASE HandBack(r) BY <2>3, EvidenceMove DEF HandBack, Goto, memo
  <2>4. CASE Forget(r) BY <2>4, EvidenceMove DEF Forget, Goto, table, memo
  <2>. QED BY <1>3, <2>1, <2>2, <2>3, <2>4 DEF Caller
<1>4. ASSUME Person PROVE UNCHANGED <<pc, trail, runs, launched>>
  BY <1>4 DEF Person, OpenPrompt, Decide, ClosePrompt, Revoke, table, memo
<1>5. ASSUME World PROVE EvidenceInv'
  <2>1. ASSUME NEW s \in Servers, Crash(s) PROVE EvidenceInv'
    <3>1. UNCHANGED <<trail, runs, launched>> BY <2>1 DEF Crash, table, memo
    <3>2. \A q \in Requests : pc'[q] \in {pc[q], "crashed"} BY <2>1 DEF Crash
    <3>. QED BY <3>1, <3>2 DEF EvidenceInv, Admitted, StartLogged, Event
  <2>. QED
    BY <1>2, <1>5, <2>1 DEF World, Scan, TrustRead, TrustWrite, Move, Tick, table, memo
<1>. QED BY <1>1, <1>2, <1>3, <1>4, <1>5 DEF Next, vars, table, memo

\* No child process runs, and no run is stored, before its audit events.
THEOREM EvidenceComesFirst == Spec => []EvidenceFirst
<1>1. TypeInv => TypeOK BY DEF TypeInv
<1>2. EvidenceInv => EvidenceFirst BY DEF EvidenceInv, EvidenceFirst
<1>. QED BY <1>1, <1>2, TypeInit, TypeStep, EvidenceInit, EvidenceStep, PTL DEF Spec

-----------------------------------------------------------------------------
(* The lease. *)

\* Admit compares the stored row with a clock value it read earlier.
RowsRemembered ==
  \A r \in Requests : Holding(r) /\ lease[r] > clock => locks[Place(r)] = LeaseRow(r)
LeaseInv ==
  /\ \A r \in Requests : asked[r] <= clock
  /\ RowsRemembered

LEMMA LeaseInit == ASSUME Init PROVE LeaseInv
BY DEF Init, LeaseInv, RowsRemembered, Holding, HoldingPhases, ExecutePhases

\* A step of a handler that neither writes locks nor reads the clock.
LEMMA LeaseMove ==
  ASSUME TypeOK, LeaseInv, NEW r \in Requests, UNCHANGED <<locks, lease, asked, clock>>,
         NEW to, pc' = [pc EXCEPT ![r] = to], to \in HoldingPhases => Holding(r)
  PROVE  LeaseInv'
<1>1. \A q \in Requests : Holding(q)' => Holding(q) BY DEF Holding, TypeOK
<1>. QED BY <1>1 DEF LeaseInv, RowsRemembered, LeaseRow

\* A release deletes the row only of the request that wrote it, and that
\* request no longer holds.
LEMMA LeaseDrop ==
  ASSUME DistinctAuthority, TypeOK, LeaseInv, NEW r \in Requests, NEW a, DropLock(r, a),
         UNCHANGED <<lease, asked, clock>>,
         NEW to, pc' = [pc EXCEPT ![r] = to], to \notin HoldingPhases
  PROVE  LeaseInv'
<1>. \A q \in Requests : Place(q) \in Worktrees BY RequestAssumption, PlanAssumption DEF Place
<1>1. \A q \in Requests : Holding(q)' => Holding(q) /\ q # r BY DEF Holding, TypeOK
<1>2. ASSUME NEW q \in Requests, q # r, locks[Place(q)] = LeaseRow(q)
      PROVE  locks'[Place(q)] = LeaseRow(q)
  <2>1. CASE Place(q) # Place(r) BY <1>2, <2>1 DEF DropLock, Leave, TypeOK
  <2>2. CASE Place(q) = Place(r)
    <3>1. ~Owned(r) BY <1>2, <2>2 DEF Owned, LeaseRow, DistinctAuthority, Alike
    <3>. QED BY <1>2, <3>1 DEF DropLock, Leave, TypeOK
  <2>. QED BY <2>1, <2>2
<1>. QED BY <1>1, <1>2 DEF LeaseInv, RowsRemembered, LeaseRow

LEMMA LeaseStep ==
  ASSUME DistinctAuthority, TypeOK, LeaseInv, [Next]_vars PROVE LeaseInv'
<1>. USE DEF HoldingPhases, ExecutePhases
<1>1. ASSUME NEW r \in Requests, Advance(r) PROVE LeaseInv'
  <2>. Place(r) \in Worktrees BY RequestAssumption, PlanAssumption DEF Place
  <2>1. CASE AdmitApprovals(r) BY <2>1, LeaseMove DEF AdmitApprovals, Check, Goto, table, memo, environment
  <2>2. CASE AdmitContext(r) BY <2>2, LeaseMove DEF AdmitContext, Check, Goto, table, memo, environment
  <2>3. CASE AdmitTrust(r) BY <2>3, LeaseMove DEF AdmitTrust, Check, Goto, table, memo, environment
  <2>4. CASE Acquire(r)
    <3>1. CASE UNCHANGED <<locks, lease>> /\ Goto(r, "refused")
      BY <2>4, <3>1, LeaseMove DEF Acquire, Goto, environment
    <3>2. CASE Vacant(Place(r), asked[r])
      \* No one else holds the worktree: the row would still be running.
      <4>1. ASSUME NEW q \in Requests, Holding(q), lease[q] > clock PROVE Place(q) # Place(r)
        <5>1. SUFFICES ASSUME Place(q) = Place(r) PROVE FALSE OBVIOUS
        <5>2. locks[Place(r)] = LeaseRow(q) BY <4>1, <5>1 DEF LeaseInv, RowsRemembered, DistinctAuthority
        <5>3. LeaseRow(q) \in Rows
          BY RequestAssumption DEF LeaseRow, Rows, TypeOK
        <5>4. LeaseRow(q) # None => lease[q] <= asked[r] BY <3>2, <5>2 DEF Vacant, LeaseRow
        <5>5. lease[q] \in Nat /\ asked[r] \in Nat /\ clock \in Nat /\ asked[r] <= clock
          BY BoundAssumption DEF TypeOK, Times, LeaseInv
        <5>6. LeaseRow(q) = None BY <4>1, <5>4, <5>5
        <5>. QED BY <5>3, <5>6, NoneAssumption DEF Rows
      <4>2. clock' = clock /\ asked' = asked BY <2>4 DEF Acquire, environment
      <4>3. ASSUME NEW q \in Requests, q # r PROVE pc'[q] = pc[q] /\ lease'[q] = lease[q]
        BY <2>4, <4>3 DEF Acquire, Goto, TypeOK
      <4>4. \A w \in Worktrees : w # Place(r) => locks'[w] = locks[w]
        BY <2>4 DEF Acquire, TypeOK
      <4>5. \A q \in Requests : Place(q) \in Worktrees
        BY RequestAssumption, PlanAssumption DEF Place
      <4>6. ASSUME NEW q \in Requests, q # r, Holding(q)', (lease[q] > clock)'
            PROVE  (locks[Place(q)] = LeaseRow(q))'
        BY <4>1, <4>2, <4>3, <4>4, <4>5, <4>6
        DEF LeaseInv, RowsRemembered, DistinctAuthority, Holding, LeaseRow
      <4>7. ASSUME Holding(r)' PROVE (locks[Place(r)] = LeaseRow(r))'
        BY <2>4, <4>7 DEF Acquire, Goto, Holding, LeaseRow, TypeOK
      <4>. QED BY <4>2, <4>6, <4>7 DEF LeaseInv, RowsRemembered
    <3>. QED BY <2>4, <3>1, <3>2 DEF Acquire
  <2>5. CASE Claim(r) BY <2>5, LeaseMove DEF Claim, Goto, memo, environment, Holding
  <2>6. CASE Announce(r) BY <2>6, LeaseMove DEF Announce, Goto, memo, environment, Holding
  <2>7. CASE Unlock(r) BY <2>7, LeaseDrop DEF Unlock, Goto, memo, environment
  <2>8. CASE Undo(r) BY <2>8, LeaseDrop DEF Undo, Goto, memo, environment
  <2>9. CASE Unclaim(r) BY <2>9, LeaseMove DEF Unclaim, Goto, memo, environment
  <2>10. CASE ExecuteLoad(r)
    <3>1. UNCHANGED <<locks, lease, asked, clock>> BY <2>10 DEF ExecuteLoad, Leave, memo
    <3>2. \E to \in {"rescope", "returned"} : pc' = [pc EXCEPT ![r] = to]
      BY <2>10 DEF ExecuteLoad, Goto
    <3>3. Holding(r) BY <2>10 DEF ExecuteLoad, Holding
    <3>. QED BY <3>1, <3>2, <3>3, LeaseMove
  <2>11. CASE ExecuteScope(r) BY <2>11, LeaseMove DEF ExecuteScope, Check, Goto, table, memo, environment, Holding
  <2>12. CASE ExecuteApprovals(r) BY <2>12, LeaseMove DEF ExecuteApprovals, Check, Goto, table, memo, environment, Holding
  <2>13. CASE Revalidate(r) BY <2>13, LeaseMove DEF Revalidate, Goto, table, memo, environment, Holding
  <2>14. CASE ExecuteContext(r) BY <2>14, LeaseMove DEF ExecuteContext, Check, Goto, table, memo, environment, Holding
  <2>15. CASE ExecuteTrust(r) BY <2>15, LeaseMove DEF ExecuteTrust, Check, Goto, table, memo, environment, Holding
  <2>16. CASE Start(r) BY <2>16, LeaseMove DEF Start, Goto, memo, environment, Holding
  <2>17. CASE Launch(r) BY <2>17, LeaseMove DEF Launch, Goto, table, environment, Holding
  <2>18. CASE Exit(r) BY <2>18, LeaseMove DEF Exit, Goto, table, environment, Holding
  <2>19. CASE PostRevalidate(r) BY <2>19, LeaseMove DEF PostRevalidate, PostCheck, Goto, table, environment, Holding
  <2>20. CASE PostContext(r) BY <2>20, LeaseMove DEF PostContext, PostCheck, Goto, table, environment, Holding
  <2>21. CASE PostTrust(r) BY <2>21, LeaseMove DEF PostTrust, PostCheck, Goto, table, environment, Holding
  <2>22. CASE Record(r) BY <2>22, LeaseMove DEF Record, Goto, memo, environment, Holding
  <2>23. CASE Release(r) BY <2>23, LeaseDrop DEF Release, Goto, memo, environment
  <2>24. CASE Dispatch(r) BY <2>24, LeaseMove DEF Dispatch, Goto, environment, Holding
  <2>25. CASE Collect(r) BY <2>25, LeaseMove DEF Collect, Goto, environment, Holding
  <2>. QED
    BY <1>1, <2>1, <2>2, <2>3, <2>4, <2>5, <2>6, <2>7, <2>8, <2>9, <2>10, <2>11, <2>12, <2>13,
       <2>14, <2>15, <2>16, <2>17, <2>18, <2>19, <2>20, <2>21, <2>22, <2>23, <2>24, <2>25
    DEF Advance
<1>2. ASSUME NEW r \in Requests, Caller(r) PROVE LeaseInv'
  <2>. Place(r) \in Worktrees BY RequestAssumption, PlanAssumption DEF Place
  <2>1. CASE AdmitLoad(r)
    <3>1. \A q \in Requests : asked'[q] <= clock'
      BY <2>1, BoundAssumption DEF AdmitLoad, LeaseInv, TypeOK, Times, environment
    <3>2. \A q \in Requests : Holding(q)' => Holding(q)
      BY <2>1 DEF AdmitLoad, Goto, Holding, TypeOK
    <3>3. UNCHANGED <<locks, lease, clock>> BY <2>1 DEF AdmitLoad, table, environment
    <3>. QED BY <3>1, <3>2, <3>3 DEF LeaseInv, RowsRemembered, LeaseRow
  <2>2. CASE Renew(r)
    <3>1. \A q \in Requests : Place(q) \in Worktrees
      BY RequestAssumption, PlanAssumption DEF Place
    <3>2. clock' = clock /\ asked' = asked /\ pc' = pc BY <2>2 DEF Renew, environment
    <3>3. locks'[Place(r)] = LeaseRow(r)'
      <4>1. locks[Place(r)] \in Rows BY <2>2 DEF Renew, Owned, TypeOK
      <4>2. locks'[Place(r)] = [locks[Place(r)] EXCEPT !.expires = clock + Lease]
        BY <2>2 DEF Renew, TypeOK
      <4>3. locks'[Place(r)] = [plan |-> locks[Place(r)].plan, holder |-> locks[Place(r)].holder,
                                expires |-> clock + Lease]
        BY <4>1, <4>2 DEF Rows
      <4>. QED BY <2>2, <4>3 DEF Renew, Owned, LeaseRow, TypeOK
    <3>4. ASSUME NEW q \in Requests, q # r, Holding(q), lease[q] > clock
          PROVE  (locks[Place(q)] = LeaseRow(q))'
      <4>1. locks[Place(q)] = LeaseRow(q) BY <3>4 DEF LeaseInv, RowsRemembered, DistinctAuthority
      <4>2. Place(q) # Place(r) BY <2>2, <3>4, <4>1 DEF Renew, Owned, LeaseRow, DistinctAuthority, Alike
      <4>. QED BY <2>2, <3>1, <3>4, <4>1, <4>2 DEF Renew, LeaseRow, TypeOK
    <3>5. \A q \in Requests : q # r => lease'[q] = lease[q] BY <2>2 DEF Renew, TypeOK
    <3>. QED BY <3>2, <3>3, <3>4, <3>5 DEF LeaseInv, RowsRemembered, Holding
  <2>3. CASE HandBack(r) BY <2>3, LeaseDrop DEF HandBack, Goto, memo, environment
  <2>4. CASE Forget(r) BY <2>4, LeaseMove DEF Forget, Goto, table, memo, environment
  <2>5. CASE Cancel(r)
    BY <2>5 DEF Cancel, LeaseInv, RowsRemembered, LeaseRow, Holding, table, memo
  <2>. QED BY <1>2, <2>1, <2>2, <2>3, <2>4, <2>5 DEF Caller
<1>3. CASE UNCHANGED <<pc, locks, lease, asked, clock>>
  BY <1>3 DEF LeaseInv, RowsRemembered, LeaseRow, Holding
<1>4. ASSUME Person PROVE UNCHANGED <<pc, locks, lease, asked, clock>>
  BY <1>4 DEF Person, OpenPrompt, Decide, ClosePrompt, Revoke, table, memo, environment
<1>5. ASSUME World PROVE LeaseInv'
  <2>1. ASSUME NEW s \in Servers, Crash(s) PROVE LeaseInv'
    <3>1. UNCHANGED <<locks, lease, asked, clock>> BY <2>1 DEF Crash, table, memo, environment
    <3>2. \A q \in Requests : pc'[q] \in {pc[q], "crashed"} BY <2>1 DEF Crash
    <3>. QED BY <3>1, <3>2 DEF LeaseInv, RowsRemembered, LeaseRow, Holding
  <2>2. CASE Tick
    <3>1. \A q \in Requests : (asked[q] <= clock)' /\ ((lease[q] > clock)' => lease[q] > clock)
      BY <2>2, BoundAssumption DEF Tick, LeaseInv, TypeOK, Times, memo
    <3>2. UNCHANGED <<pc, locks, lease, asked>> BY <2>2 DEF Tick, table, memo
    <3>. QED BY <3>1, <3>2 DEF LeaseInv, RowsRemembered, LeaseRow, Holding
  <2>. QED
    BY <1>3, <1>5, <2>1, <2>2 DEF World, Scan, TrustRead, TrustWrite, Move, table, memo, environment
<1>. QED BY <1>1, <1>2, <1>3, <1>4, <1>5 DEF Next, vars, table, memo, environment

\* The memory copy of a lease can be relied on without reading the row again,
\* and no two requests hold one worktree, as long as requests for one worktree
\* differ in plan or holder.
THEOREM MemoryIsTheRow == DistinctAuthority => (Spec => []MemoryMatchesRow)
<1>. SUFFICES ASSUME DistinctAuthority PROVE Spec => []MemoryMatchesRow OBVIOUS
<1>1. TypeInv => TypeOK BY DEF TypeInv
<1>2. TypeOK /\ LeaseInv /\ [Next]_vars => LeaseInv' BY LeaseStep
<1>3. LeaseInv => MemoryMatchesRow BY DEF LeaseInv, RowsRemembered, MemoryMatchesRow
<1>. QED BY <1>1, <1>2, <1>3, TypeInit, TypeStep, LeaseInit, PTL DEF Spec

THEOREM OneHolderAtATime == DistinctAuthority => (Spec => []LeaseExclusive)
<1>. SUFFICES ASSUME DistinctAuthority PROVE Spec => []LeaseExclusive OBVIOUS
<1>1. Spec => []TypeOK BY TypeCorrect
<1>2. Spec => []MemoryMatchesRow BY MemoryIsTheRow
<1>3. TypeOK /\ MemoryMatchesRow => LeaseExclusive
  <2>1. SUFFICES ASSUME TypeOK, MemoryMatchesRow, NEW r \in Requests, NEW q \in Requests,
                        r # q, Place(r) = Place(q), Holding(r), Holding(q),
                        lease[r] > clock, lease[q] > clock
                 PROVE  FALSE
    BY BoundAssumption DEF LeaseExclusive, TypeOK, Times
  <2>2. LeaseRow(r) = LeaseRow(q) BY <2>1 DEF MemoryMatchesRow, DistinctAuthority, Sole
  <2>. QED BY <2>1, <2>2 DEF LeaseRow, DistinctAuthority, Alike
<1>. QED BY <1>1, <1>2, <1>3, PTL

-----------------------------------------------------------------------------
(* No row is left behind but by a storage call that failed.                    *)

\* Why the row of w may still be there.
Answered(w) ==
  \/ locks[w].expires <= clock
  \/ \E r \in Requests :
       /\ Place(r) = w /\ locks[w] = LeaseRow(r)
       /\ Holding(r) \/ pc[r] = "crashed" \/ (pc[r] = "returned" /\ r \in AdmitOnly)
  \/ locks[w] \in stray
OrphanInv ==
  /\ \A r \in Requests : pc[r] = "granted" => r \in AdmitOnly
  /\ \A w \in Worktrees : locks[w] # None => Answered(w)

LEMMA OrphanInit == ASSUME Init PROVE OrphanInv
BY DEF Init, OrphanInv

\* A handler that moves on keeps its lease, has seen it expire, or was handed
\* the admission.
LEMMA OrphanMove ==
  ASSUME TypeOK, OrphanInv, NEW r \in Requests, UNCHANGED <<locks, lease, clock, stray>>,
         pc[r] \notin Terminal, NEW to, pc' = [pc EXCEPT ![r] = to],
         to = "granted" => r \in AdmitOnly,
         Holding(r) => \/ to \in HoldingPhases \/ lease[r] <= clock
                       \/ to = "returned" /\ r \in AdmitOnly
  PROVE  OrphanInv'
<1>1. ASSUME NEW w \in Worktrees, locks[w] # None PROVE Answered(w)'
  <2>1. CASE locks[w].expires <= clock \/ locks[w] \in stray BY <2>1 DEF Answered
  <2>2. ASSUME NEW x \in Requests, Place(x) = w, locks[w] = LeaseRow(x),
               Holding(x) \/ pc[x] = "crashed" \/ (pc[x] = "returned" /\ x \in AdmitOnly)
        PROVE  Answered(w)'
    <3>1. CASE x = r BY <2>2, <3>1 DEF Answered, LeaseRow, Holding, Terminal, TypeOK
    <3>2. CASE x # r BY <2>2, <3>2 DEF Answered, LeaseRow, Holding, TypeOK
    <3>. QED BY <3>1, <3>2
  <2>. QED BY <1>1, <2>1, <2>2 DEF OrphanInv, Answered
<1>2. \A q \in Requests : pc'[q] = "granted" => q \in AdmitOnly BY DEF OrphanInv, TypeOK
<1>. QED BY <1>1, <1>2 DEF OrphanInv

\* A release that reaches the table leaves no row of its request, and one that
\* does not is remembered.
LEMMA OrphanDrop ==
  ASSUME TypeOK, OrphanInv, NEW r \in Requests, NEW a, DropLock(r, a),
         UNCHANGED <<lease, clock>>,
         NEW to, pc' = [pc EXCEPT ![r] = to], to # "granted"
  PROVE  OrphanInv'
<1>. \A q \in Requests : Place(q) \in Worktrees BY RequestAssumption, PlanAssumption DEF Place
<1>1. \/ locks' = [locks EXCEPT ![Place(r)] = IF Owned(r) THEN None ELSE @] /\ stray' = stray
      \/ locks' = locks /\ stray' = stray \cup {row \in {locks[Place(r)]} : Owned(r)}
  BY DEF DropLock, Leave
<1>2. ASSUME NEW w \in Worktrees, locks'[w] # None PROVE Answered(w)'
  <2>1. locks'[w] = locks[w] /\ Answered(w) /\ stray \subseteq stray' BY <1>1, <1>2 DEF OrphanInv, TypeOK
  <2>2. CASE locks[w].expires <= clock \/ locks[w] \in stray BY <2>1, <2>2 DEF Answered
  <2>3. ASSUME NEW x \in Requests, Place(x) = w, locks[w] = LeaseRow(x),
               Holding(x) \/ pc[x] = "crashed" \/ (pc[x] = "returned" /\ x \in AdmitOnly)
        PROVE  Answered(w)'
    <3>1. CASE x = r
      <4>1. Owned(r) BY <1>2, <2>1, <2>3, <3>1 DEF Owned, LeaseRow
      <4>2. locks[w] \in stray' BY <1>1, <1>2, <2>1, <2>3, <3>1, <4>1 DEF TypeOK
      <4>. QED BY <2>1, <4>2 DEF Answered
    <3>2. CASE x # r BY <2>1, <2>3, <3>2 DEF Answered, LeaseRow, Holding, TypeOK
    <3>. QED BY <3>1, <3>2
  <2>. QED BY <2>1, <2>2, <2>3 DEF Answered
<1>3. \A q \in Requests : pc'[q] = "granted" => q \in AdmitOnly BY DEF OrphanInv, TypeOK
<1>. QED BY <1>2, <1>3 DEF OrphanInv

\* The row that a request writes names that request, which holds it, or the
\* answer to its insert was lost.
LEMMA OrphanWrite ==
  ASSUME TypeOK, OrphanInv, NEW r \in Requests, NEW row,
         locks' = [locks EXCEPT ![Place(r)] = row],
         (row = LeaseRow(r)' /\ Holding(r)') \/ row \in stray',
         \A q \in Requests : q # r => lease'[q] = lease[q],
         clock' = clock, stray \subseteq stray', NEW to, pc' = [pc EXCEPT ![r] = to],
         to = "granted" => r \in AdmitOnly
  PROVE  OrphanInv'
<1>. \A q \in Requests : Place(q) \in Worktrees BY RequestAssumption, PlanAssumption DEF Place
<1>1. Answered(Place(r))' BY DEF Answered, TypeOK
<1>2. ASSUME NEW w \in Worktrees, w # Place(r), locks'[w] # None PROVE Answered(w)'
  <2>1. locks'[w] = locks[w] /\ Answered(w) BY <1>2 DEF OrphanInv, TypeOK
  <2>2. CASE locks[w].expires <= clock \/ locks[w] \in stray BY <2>1, <2>2 DEF Answered
  <2>3. ASSUME NEW x \in Requests, Place(x) = w, locks[w] = LeaseRow(x),
               Holding(x) \/ pc[x] = "crashed" \/ (pc[x] = "returned" /\ x \in AdmitOnly)
        PROVE  Answered(w)'
    BY <1>2, <2>1, <2>3 DEF Answered, LeaseRow, Holding, TypeOK
  <2>. QED BY <2>1, <2>2, <2>3 DEF Answered
<1>3. \A q \in Requests : pc'[q] = "granted" => q \in AdmitOnly BY DEF OrphanInv, TypeOK
<1>. QED BY <1>1, <1>2, <1>3 DEF OrphanInv

LEMMA OrphanStep == ASSUME TypeOK, OrphanInv, [Next]_vars PROVE OrphanInv'
<1>. USE DEF HoldingPhases, ExecutePhases, Terminal
<1>1. ASSUME NEW r \in Requests, Advance(r) PROVE OrphanInv'
  <2>1. CASE AdmitApprovals(r) BY <2>1, OrphanMove DEF AdmitApprovals, Check, Goto, table, memo, environment, Holding
  <2>2. CASE AdmitContext(r) BY <2>2, OrphanMove DEF AdmitContext, Check, Goto, table, memo, environment, Holding
  <2>3. CASE AdmitTrust(r) BY <2>3, OrphanMove DEF AdmitTrust, Check, Goto, table, memo, environment, Holding
  <2>4. CASE Acquire(r)
    <3>1. CASE UNCHANGED <<locks, lease, stray>>
      BY <2>4, <3>1, OrphanMove DEF Acquire, Goto, environment, Holding
    <3>2. CASE ~UNCHANGED <<locks, lease, stray>>
      <4>1. /\ pc' = [pc EXCEPT ![r] = "claim"]
            /\ lease' = [lease EXCEPT ![r] = asked[r] + Lease]
            /\ stray' = stray
         => OrphanInv'
        <5>1. SUFFICES ASSUME pc' = [pc EXCEPT ![r] = "claim"],
                              lease' = [lease EXCEPT ![r] = asked[r] + Lease], stray' = stray
                       PROVE  OrphanInv'
          OBVIOUS
        <5>2. locks' = [locks EXCEPT ![Place(r)] = LeaseRow(r)'] /\ clock' = clock
          BY <2>4, <3>2, <5>1 DEF Acquire, Goto, LeaseRow, environment, TypeOK
        <5>3. Holding(r)' BY <5>1 DEF Holding, TypeOK
        <5>. QED BY <5>1, <5>2, <5>3, OrphanWrite DEF TypeOK
      <4>2. /\ pc' = [pc EXCEPT ![r] = "refused"] /\ lease' = lease
            /\ \E row \in stray' : locks' = [locks EXCEPT ![Place(r)] = row]
            /\ stray \subseteq stray'
         => OrphanInv'
        BY <2>4, OrphanWrite DEF Acquire, environment
      <4>. QED BY <2>4, <3>2, <4>1, <4>2 DEF Acquire, Goto
    <3>. QED BY <3>1, <3>2
  <2>5. CASE Claim(r) BY <2>5, OrphanMove DEF Claim, Goto, memo, environment, Holding
  <2>6. CASE Announce(r) BY <2>6, OrphanMove DEF Announce, Goto, memo, environment, Holding
  <2>7. CASE Unlock(r) BY <2>7, OrphanDrop DEF Unlock, Goto, memo, environment
  <2>8. CASE Undo(r) BY <2>8, OrphanDrop DEF Undo, Goto, memo, environment
  <2>9. CASE Unclaim(r) BY <2>9, OrphanMove DEF Unclaim, Goto, memo, environment, Holding
  <2>10. CASE ExecuteLoad(r)
    <3>1. /\ pc[r] = "admitted" /\ UNCHANGED <<lease, clock>>
          /\ \E to \in {"rescope", "returned"} : pc' = [pc EXCEPT ![r] = to]
      BY <2>10 DEF ExecuteLoad, Goto, memo
    <3>2. CASE Leave(r) BY <3>1, <3>2, OrphanDrop DEF DropLock
    <3>3. CASE ~Leave(r)
      BY <2>10, <3>1, <3>3, OrphanMove DEF ExecuteLoad, Goto, Holding
    <3>. QED BY <3>2, <3>3
  <2>11. CASE ExecuteScope(r) BY <2>11, OrphanMove DEF ExecuteScope, Check, Goto, table, memo, environment, Holding
  <2>12. CASE ExecuteApprovals(r) BY <2>12, OrphanMove DEF ExecuteApprovals, Check, Goto, table, memo, environment, Holding
  <2>13. CASE Revalidate(r) BY <2>13, OrphanMove DEF Revalidate, Goto, table, memo, environment, Holding
  <2>14. CASE ExecuteContext(r) BY <2>14, OrphanMove DEF ExecuteContext, Check, Goto, table, memo, environment, Holding
  <2>15. CASE ExecuteTrust(r) BY <2>15, OrphanMove DEF ExecuteTrust, Check, Goto, table, memo, environment, Holding
  <2>16. CASE Start(r) BY <2>16, OrphanMove DEF Start, Goto, memo, environment, Holding
  <2>17. CASE Launch(r) BY <2>17, OrphanMove DEF Launch, Goto, table, environment, Holding
  <2>18. CASE Exit(r) BY <2>18, OrphanMove DEF Exit, Goto, table, environment, Holding
  <2>19. CASE PostRevalidate(r) BY <2>19, OrphanMove DEF PostRevalidate, PostCheck, Goto, table, environment, Holding
  <2>20. CASE PostContext(r) BY <2>20, OrphanMove DEF PostContext, PostCheck, Goto, table, environment, Holding
  <2>21. CASE PostTrust(r) BY <2>21, OrphanMove DEF PostTrust, PostCheck, Goto, table, environment, Holding
  <2>22. CASE Record(r) BY <2>22, OrphanMove DEF Record, Goto, memo, environment, Holding
  <2>23. CASE Release(r) BY <2>23, OrphanDrop DEF Release, Goto, memo, environment
  <2>24. CASE Dispatch(r) BY <2>24, OrphanMove DEF Dispatch, Goto, environment, Holding
  <2>25. CASE Collect(r) BY <2>25, OrphanMove DEF Collect, Goto, environment, Holding
  <2>. QED
    BY <1>1, <2>1, <2>2, <2>3, <2>4, <2>5, <2>6, <2>7, <2>8, <2>9, <2>10, <2>11, <2>12, <2>13,
       <2>14, <2>15, <2>16, <2>17, <2>18, <2>19, <2>20, <2>21, <2>22, <2>23, <2>24, <2>25
    DEF Advance
<1>2. ASSUME NEW r \in Requests, Caller(r) PROVE OrphanInv'
  <2>1. CASE AdmitLoad(r) BY <2>1, OrphanMove DEF AdmitLoad, Goto, table, environment, Holding
  <2>2. CASE Renew(r)
    <3>. Place(r) \in Worktrees BY RequestAssumption, PlanAssumption DEF Place
    <3>1. locks[Place(r)] \in Rows BY <2>2 DEF Renew, Owned, TypeOK
    <3>2. [locks[Place(r)] EXCEPT !.expires = clock + Lease]
            = [plan |-> PlanOf[r], holder |-> HolderOf[r], expires |-> clock + Lease]
      BY <2>2, <3>1 DEF Renew, Owned, Rows
    <3>3. /\ locks' = [locks EXCEPT ![Place(r)] = LeaseRow(r)']
          /\ lease' = [lease EXCEPT ![r] = clock + Lease]
          /\ pc' = [pc EXCEPT ![r] = "granted"] /\ UNCHANGED <<clock, stray>>
      BY <2>2, <3>2 DEF Renew, LeaseRow, environment, TypeOK
    <3>4. Holding(r)' /\ r \in AdmitOnly BY <2>2, <3>3 DEF Renew, Holding, TypeOK, OrphanInv
    <3>. QED BY <3>3, <3>4, OrphanWrite DEF TypeOK
  <2>3. CASE HandBack(r) BY <2>3, OrphanDrop DEF HandBack, Goto, memo, environment
  <2>4. CASE Forget(r) BY <2>4, OrphanMove DEF Forget, Goto, table, memo, environment, Holding, OrphanInv
  <2>5. CASE Cancel(r)
    BY <2>5 DEF Cancel, table, memo, OrphanInv, Answered, LeaseRow, Holding
  <2>. QED BY <1>2, <2>1, <2>2, <2>3, <2>4, <2>5 DEF Caller
<1>3. CASE UNCHANGED <<pc, locks, lease, clock, stray>>
  BY <1>3 DEF OrphanInv, Answered, LeaseRow, Holding
<1>4. ASSUME Person PROVE UNCHANGED <<pc, locks, lease, clock, stray>>
  BY <1>4 DEF Person, OpenPrompt, Decide, ClosePrompt, Revoke, table, memo, environment
<1>5. ASSUME World PROVE OrphanInv'
  <2>1. ASSUME NEW s \in Servers, Crash(s) PROVE OrphanInv'
    <3>1. UNCHANGED <<locks, lease, clock, stray>> BY <2>1 DEF Crash, table, memo, environment
    <3>2. \A q \in Requests :
            \/ pc'[q] = pc[q]
            \/ pc'[q] = "crashed" /\ pc[q] \notin Terminal
      BY <2>1 DEF Crash
    <3>3. \A w \in Worktrees : locks[w] # None => Answered(w)'
      BY <3>1, <3>2 DEF OrphanInv, Answered, LeaseRow, Holding
    <3>. QED BY <3>1, <3>2, <3>3 DEF OrphanInv
  <2>2. CASE Tick
    <3>1. UNCHANGED <<pc, locks, lease, stray>> BY <2>2 DEF Tick, table, memo
    <3>2. \A w \in Worktrees : locks[w] # None /\ locks[w].expires <= clock => locks[w].expires <= clock'
      BY <2>2, BoundAssumption DEF Tick, TypeOK, Rows, Times
    <3>. QED BY <3>1, <3>2 DEF OrphanInv, Answered, LeaseRow, Holding
  <2>. QED
    BY <1>3, <1>5, <2>1, <2>2 DEF World, Scan, TrustRead, TrustWrite, Move, table, memo, environment
<1>. QED BY <1>1, <1>2, <1>3, <1>4, <1>5 DEF Next, vars, table, memo, environment

\* Whatever fails and whoever is killed: a row that has not expired belongs to a
\* request that holds it, that was killed or that handed its admission to a
\* caller, or a storage call on that very row failed: no path through the
\* handlers forgets a release.
THEOREM NothingForgotten == Spec => []NoOrphanLock
<1>1. TypeInv => TypeOK BY DEF TypeInv
<1>2. TypeOK /\ OrphanInv /\ [Next]_vars => OrphanInv' BY OrphanStep
<1>3. OrphanInv => NoOrphanLock BY DEF OrphanInv, Answered, NoOrphanLock
<1>. QED BY <1>1, <1>2, <1>3, TypeInit, TypeStep, OrphanInit, PTL DEF Spec

-----------------------------------------------------------------------------
(* Authority that is gone, and drift, from some state on: what a request can   *)
(* still do is a set of phases that it never leaves.                           *)

\* A step that is not a step of r leaves the handler of r where it is, or kills it.
Stays(r) == pc'[r] \in {pc[r], "crashed"} /\ runs'[r] = runs[r] /\ outcome'[r] = outcome[r]

LEMMA OthersStay == ASSUME TypeOK, NEW r \in Requests, [Next]_vars PROVE Advance(r) \/ Caller(r) \/ Stays(r)
<1>1. ASSUME NEW q \in Requests, q # r, Advance(q) PROVE Stays(r)
  <2>1. \A from, passes, yes, no : Check(q, from, passes, yes, no) => Stays(r)
    BY <1>1 DEF Check, Goto, Stays, TypeOK, table, memo
  <2>2. \A from, passes, mayFail, to : PostCheck(q, from, passes, mayFail, to) => Stays(r)
    BY <1>1 DEF PostCheck, Goto, Stays, TypeOK, table
  <2>3. AdmitApprovals(q) \/ AdmitContext(q) \/ AdmitTrust(q) \/ ExecuteScope(q)
          \/ ExecuteApprovals(q) \/ ExecuteContext(q) \/ ExecuteTrust(q) => Stays(r)
    BY <2>1 DEF AdmitApprovals, AdmitContext, AdmitTrust, ExecuteScope,
         ExecuteApprovals, ExecuteContext, ExecuteTrust
  <2>4. PostRevalidate(q) \/ PostContext(q) \/ PostTrust(q) => Stays(r)
    BY <2>2 DEF PostRevalidate, PostContext, PostTrust
  <2>5. Acquire(q) \/ Claim(q) \/ Announce(q) \/ Unlock(q) \/ Undo(q) \/ Unclaim(q) => Stays(r)
    BY <1>1 DEF Acquire, Claim, Announce, Unlock, Undo, Unclaim, Goto, Stays, TypeOK, memo
  <2>6. Revalidate(q) \/ Start(q) \/ Launch(q) \/ Exit(q) => Stays(r)
    BY <1>1 DEF Revalidate, Start, Launch, Exit, Goto, Stays, TypeOK, table, memo
  <2>7. ExecuteLoad(q) \/ Record(q) \/ Release(q) \/ Dispatch(q) \/ Collect(q) => Stays(r)
    BY <1>1 DEF ExecuteLoad, Record, Release, Dispatch, Collect, Goto, Stays, TypeOK, table, memo
  <2>. QED BY <1>1, <2>3, <2>4, <2>5, <2>6, <2>7 DEF Advance
<1>2. ASSUME NEW q \in Requests, q # r, Caller(q) PROVE Stays(r)
  BY <1>2 DEF Caller, AdmitLoad, Renew, HandBack, Forget, Cancel, Goto, Stays, TypeOK, table, memo
<1>3. ASSUME Person PROVE Stays(r)
  BY <1>3 DEF Person, OpenPrompt, Decide, ClosePrompt, Revoke, Stays, table, memo
<1>4. ASSUME World PROVE Stays(r)
  BY <1>4 DEF World, Scan, TrustRead, TrustWrite, Move, Tick, Crash, Stays, table, memo
<1>. QED BY <1>1, <1>2, <1>3, <1>4 DEF Next, vars, table, memo, Stays

\* Scopes stay revoked.
LEMMA RevokedStays == ASSUME [Next]_vars PROVE revoked \subseteq revoked'
<1>1. ASSUME NEW r \in Requests, Advance(r) PROVE UNCHANGED revoked
  <2>1. \A from, passes, yes, no : Check(r, from, passes, yes, no) => UNCHANGED revoked
    BY DEF Check, human
  <2>2. \A from, passes, mayFail, to : PostCheck(r, from, passes, mayFail, to) => UNCHANGED revoked
    BY DEF PostCheck, human
  <2>. QED
    BY <1>1, <2>1, <2>2
    DEF Advance, AdmitApprovals, AdmitContext, AdmitTrust, ExecuteLoad, ExecuteScope, ExecuteApprovals,
        ExecuteContext, ExecuteTrust, PostRevalidate, PostContext, PostTrust, Acquire, Claim, Announce,
        Unlock, Undo, Unclaim, Revalidate, Start, Launch, Exit, Record, Release, Dispatch, Collect, human
<1>2. ASSUME NEW r \in Requests, Caller(r) PROVE UNCHANGED revoked
  BY <1>2 DEF Caller, AdmitLoad, Renew, HandBack, Forget, Cancel, human
<1>3. ASSUME Person PROVE revoked \subseteq revoked'
  BY <1>3 DEF Person, OpenPrompt, Decide, ClosePrompt, Revoke
<1>4. ASSUME World PROVE UNCHANGED revoked
  BY <1>4 DEF World, Scan, TrustRead, TrustWrite, Move, Tick, Crash, human
<1>. QED BY <1>1, <1>2, <1>3, <1>4 DEF Next, vars, human

\* Where a request is that has not passed the recheck and cannot any more.
Barren == BeforeRecheck \cup {"granted", "release"} \cup Terminal

\* The phases that the steps of a handler reach, as far as they concern a request
\* whose authority is gone.
LEMMA BarrenMove ==
  ASSUME TypeOK, NEW r \in Requests, PlanOf[r] \notin Delegated, Advance(r) \/ Caller(r),
         pc[r] \in Barren
  PROVE  \/ pc'[r] \in Barren
         \/ pc[r] = "rescope" /\ InScope(PlanOf[r], clock)
              /\ pc'[r] = IF PlanOf[r] \in Gated THEN "reapprove" ELSE "revalidate"
<1>. USE DEF Barren, BeforeRecheck, AdmitPhases, Terminal
<1>1. CASE Advance(r)
  <2>1. AdmitApprovals(r) \/ AdmitContext(r) \/ AdmitTrust(r) \/ ExecuteLoad(r) => pc'[r] \in Barren
    BY DEF AdmitApprovals, AdmitContext, AdmitTrust, ExecuteLoad, Check, Goto, TypeOK
  <2>2. Acquire(r) \/ Claim(r) \/ Announce(r) \/ Unlock(r) \/ Undo(r) \/ Unclaim(r) => pc'[r] \in Barren
    BY DEF Acquire, Claim, Announce, Unlock, Undo, Unclaim, Goto, TypeOK
  <2>3. CASE ExecuteScope(r) BY <2>3 DEF ExecuteScope, Check, Goto, TypeOK
  <2>4. CASE Release(r) BY <2>4 DEF Release, Goto, TypeOK
  <2>5. ~(ExecuteApprovals(r) \/ Revalidate(r) \/ ExecuteContext(r) \/ ExecuteTrust(r) \/ Start(r)
           \/ Launch(r) \/ Exit(r) \/ PostRevalidate(r) \/ PostContext(r) \/ PostTrust(r)
           \/ Record(r) \/ Dispatch(r) \/ Collect(r))
    BY DEF ExecuteApprovals, Revalidate, ExecuteContext, ExecuteTrust, Start, Launch, Exit,
         PostRevalidate, PostContext, PostTrust, Record, Dispatch, Collect, Check, PostCheck
  <2>. QED BY <1>1, <2>1, <2>2, <2>3, <2>4, <2>5 DEF Advance
<1>2. CASE Caller(r)
  BY <1>2 DEF Caller, AdmitLoad, Renew, HandBack, Forget, Cancel, Goto, TypeOK
<1>. QED BY <1>1, <1>2

\* A scope that is revoked before the recheck of Execute keeps the child from
\* starting, at whatever point between admission and recheck it is revoked, and
\* whatever approvals, trust and other requests do.
THEOREM RevokedNeverStarts == Spec => RevocationStopsLaunch
<1>1. ASSUME NEW r \in Requests, PlanOf[r] \notin Delegated
      PROVE  Spec => []( PlanOf[r] \in revoked /\ pc[r] \in BeforeRecheck => [](pc[r] # "running") )
  <2>. DEFINE Stuck == PlanOf[r] \in revoked /\ pc[r] \in Barren
  <2>1. TypeInv /\ Stuck /\ [Next]_vars => Stuck'
    <3>. SUFFICES ASSUME TypeInv, Stuck, [Next]_vars PROVE Stuck' OBVIOUS
    <3>1. PlanOf[r] \in revoked' BY RevokedStays
    <3>2. ~InScope(PlanOf[r], clock) BY DEF TypeInv, TypeOK, InScope
    <3>3. pc'[r] \in Barren
      BY <1>1, <3>2, OthersStay, BarrenMove DEF TypeInv, Stays, Barren, Terminal
    <3>. QED BY <3>1, <3>3
  <2>2. PlanOf[r] \in revoked /\ pc[r] \in BeforeRecheck => Stuck BY DEF Barren
  <2>3. Stuck => pc[r] # "running" BY DEF Barren, BeforeRecheck, AdmitPhases, Terminal
  <2>. HIDE DEF Stuck
  <2>. QED BY <2>1, <2>2, <2>3, TypeInit, TypeStep, PTL DEF Spec
<1>. QED BY <1>1 DEF RevocationStopsLaunch

\* A grant that has run out before the recheck, and that no newer one replaces,
\* keeps the child from starting: the approval that Admit saw is not enough.
THEOREM ExpiredNeverStarts == Spec => ExpiryStopsLaunch
<1>1. ASSUME NEW r \in Requests, PlanOf[r] \in Gated \ Delegated
      PROVE  Spec => []( pc[r] \in BeforeRecheck /\ [](~Approved(PlanOf[r], clock))
                           => [](pc[r] # "running") )
  <2>. DEFINE Stuck == pc[r] \in Barren \cup {"reapprove"}
              Alone == ~Approved(PlanOf[r], clock)
  <2>1. TypeInv /\ Stuck /\ Alone /\ [Next]_vars => Stuck'
    <3>. SUFFICES ASSUME TypeInv, Stuck, Alone, [Next]_vars PROVE Stuck' OBVIOUS
    <3>1. CASE Stays(r) BY <3>1 DEF Stays, Barren, Terminal
    <3>2. CASE (Advance(r) \/ Caller(r)) /\ pc[r] \in Barren
      BY <1>1, <3>2, BarrenMove DEF TypeInv
    <3>3. CASE Advance(r) /\ pc[r] = "reapprove"
      <4>1. ExecuteApprovals(r)
        BY <3>3 DEF Advance, AdmitApprovals, AdmitContext, AdmitTrust, ExecuteLoad, ExecuteScope,
             ExecuteContext, ExecuteTrust, PostRevalidate, PostContext, PostTrust, Acquire, Claim,
             Announce, Unlock, Undo, Unclaim, Revalidate, Start, Launch, Exit, Record, Release,
             Dispatch, Collect, Check, PostCheck
      <4>. QED BY <4>1 DEF ExecuteApprovals, Check, Goto, TypeInv, TypeOK, Barren
    <3>4. CASE Caller(r) /\ pc[r] = "reapprove"
      BY <3>4 DEF Caller, AdmitLoad, Renew, HandBack, Forget, Cancel, Goto, TypeInv, TypeOK
    <3>. QED BY <3>1, <3>2, <3>3, <3>4, OthersStay DEF TypeInv
  <2>2. pc[r] \in BeforeRecheck => Stuck BY DEF Barren
  <2>3. Stuck => pc[r] # "running" BY DEF Barren, BeforeRecheck, AdmitPhases, Terminal
  <2>4. Spec => []( pc[r] \in BeforeRecheck /\ []Alone => [](pc[r] # "running") )
    <3>. HIDE DEF Stuck, Alone
    <3>. QED BY <2>1, <2>2, <2>3, TypeInit, TypeStep, PTL DEF Spec
  <2>. QED BY <2>4
<1>. QED BY <1>1 DEF ExpiryStopsLaunch

\* A run is stored by the last call but one of its handler.
LateRuns == \A r \in Requests : runs[r] # "none" => pc[r] \in {"release"} \cup Terminal

\* What a step of a handler does to its own run.
LEMMA RunMove ==
  ASSUME TypeOK, NEW r \in Requests, Advance(r) \/ Caller(r)
  PROVE  \/ UNCHANGED runs /\ (pc[r] \in {"release"} \cup Terminal => pc'[r] \in {"release"} \cup Terminal)
         \/ pc'[r] = "release" /\ pc[r] \in {"record", "reject"}
              /\ runs'[r] = IF pc[r] = "reject" THEN "precheck_failed" ELSE outcome[r]
<1>. USE DEF Terminal
<1>1. CASE Record(r) BY <1>1 DEF Record, Goto, TypeOK
<1>2. CASE Release(r) BY <1>2 DEF Release, Goto, TypeOK
<1>3. CASE Caller(r)
  BY <1>3 DEF Caller, AdmitLoad, Renew, HandBack, Forget, Cancel, Goto, table, TypeOK
<1>4. CASE Advance(r) /\ ~Record(r) /\ ~Release(r)
  <2>1. AdmitApprovals(r) \/ AdmitContext(r) \/ AdmitTrust(r) \/ ExecuteLoad(r) \/ ExecuteScope(r)
          \/ ExecuteApprovals(r) \/ ExecuteContext(r) \/ ExecuteTrust(r)
        => UNCHANGED runs /\ pc[r] \notin {"release"} \cup Terminal
    BY DEF AdmitApprovals, AdmitContext, AdmitTrust, ExecuteLoad, ExecuteScope,
         ExecuteApprovals, ExecuteContext, ExecuteTrust, Check, table
  <2>2. PostRevalidate(r) \/ PostContext(r) \/ PostTrust(r)
        => UNCHANGED runs /\ pc[r] \notin {"release"} \cup Terminal
    BY DEF PostRevalidate, PostContext, PostTrust, PostCheck, table
  <2>3. Acquire(r) \/ Claim(r) \/ Announce(r) \/ Unlock(r) \/ Undo(r) \/ Unclaim(r)
        => UNCHANGED runs /\ pc[r] \notin {"release"} \cup Terminal
    BY DEF Acquire, Claim, Announce, Unlock, Undo, Unclaim
  <2>4. Revalidate(r) \/ Start(r) \/ Launch(r) \/ Exit(r) \/ Dispatch(r) \/ Collect(r)
        => UNCHANGED runs /\ pc[r] \notin {"release"} \cup Terminal
    BY DEF Revalidate, Start, Launch, Exit, Dispatch, Collect, table
  <2>. QED BY <1>4, <2>1, <2>2, <2>3, <2>4 DEF Advance
<1>. QED BY <1>1, <1>2, <1>3, <1>4

LEMMA LateStep == ASSUME TypeOK, LateRuns, [Next]_vars PROVE LateRuns'
<1>. SUFFICES ASSUME NEW r \in Requests, runs'[r] # "none" PROVE pc'[r] \in {"release"} \cup Terminal
  BY DEF LateRuns
<1>1. CASE Stays(r) BY <1>1 DEF Stays, LateRuns, Terminal
<1>2. CASE Advance(r) \/ Caller(r) BY <1>2, RunMove DEF LateRuns
<1>. QED BY <1>1, <1>2, OthersStay

\* From the start of the child on, a run whose checkout has left the context of its
\* plan and stays away: its handler cannot pass the comparison, nor store a success.
AwayPhases == {"running", "postverify", "postcontext", "posttrust", "record", "release"} \cup Terminal

LEMMA AwayMove ==
  ASSUME TypeOK, NEW r \in Requests, PlanOf[r] \notin Syncing, ~ContextCurrent(PlanOf[r]),
         Advance(r) \/ Caller(r), pc[r] \in AwayPhases,
         pc[r] \in {"posttrust", "record"} => outcome[r] # "succeeded"
  PROVE  pc'[r] \in AwayPhases /\ (pc'[r] \in {"posttrust", "record"} => outcome'[r] # "succeeded")
<1>. USE DEF AwayPhases, Terminal
<1>1. CASE Exit(r) BY <1>1 DEF Exit, Goto, TypeOK
<1>2. CASE PostRevalidate(r) BY <1>2 DEF PostRevalidate, PostCheck, Goto, TypeOK
<1>3. CASE PostContext(r) BY <1>3 DEF PostContext, PostCheck, Goto, TypeOK
<1>4. CASE PostTrust(r) BY <1>4 DEF PostTrust, PostCheck, Goto, TypeOK
<1>5. CASE Record(r) BY <1>5 DEF Record, Goto, TypeOK
<1>6. CASE Release(r) BY <1>6 DEF Release, Goto, TypeOK
<1>7. CASE Caller(r)
  BY <1>7 DEF Caller, AdmitLoad, Renew, HandBack, Forget, Cancel, memo, TypeOK
<1>8. ~(AdmitApprovals(r) \/ AdmitContext(r) \/ AdmitTrust(r) \/ ExecuteLoad(r) \/ ExecuteScope(r)
         \/ ExecuteApprovals(r) \/ ExecuteContext(r) \/ ExecuteTrust(r) \/ Acquire(r) \/ Claim(r)
         \/ Announce(r) \/ Unlock(r) \/ Undo(r) \/ Unclaim(r) \/ Revalidate(r) \/ Start(r)
         \/ Launch(r) \/ Dispatch(r) \/ Collect(r))
  BY DEF AdmitApprovals, AdmitContext, AdmitTrust, ExecuteLoad, ExecuteScope, ExecuteApprovals,
       ExecuteContext, ExecuteTrust, Acquire, Claim, Announce, Unlock, Undo, Unclaim, Revalidate,
       Start, Launch, Dispatch, Collect, Check
<1>. QED BY <1>1, <1>2, <1>3, <1>4, <1>5, <1>6, <1>7, <1>8 DEF Advance

\* A worktree whose recorded context leaves that of the plan while the child runs,
\* and does not come back, never yields a stored success.
THEOREM DriftIsNoSuccess == Spec => DriftNeverSucceeds
<1>1. ASSUME NEW r \in Requests, PlanOf[r] \notin Syncing
      PROVE  Spec => []( pc[r] = "running" /\ [](seen[Place(r)] # PlanContext[PlanOf[r]])
                           => [](runs[r] # "succeeded") )
  <2>. DEFINE Doomed == /\ pc[r] \in AwayPhases /\ runs[r] # "succeeded"
                        /\ pc[r] \in {"posttrust", "record"} => outcome[r] # "succeeded"
              Away == seen[Place(r)] # PlanContext[PlanOf[r]]
              Inv == TypeInv /\ LateRuns
  <2>1. Inv /\ Doomed /\ Away /\ [Next]_vars => Doomed'
    <3>. SUFFICES ASSUME TypeOK, LateRuns, Doomed, Away, [Next]_vars PROVE Doomed' BY DEF TypeInv
    <3>1. CASE Stays(r) BY <3>1 DEF Stays, AwayPhases, Terminal
    <3>2. CASE Advance(r) \/ Caller(r)
      <4>1. ~ContextCurrent(PlanOf[r]) BY DEF ContextCurrent, Place
      <4>2. /\ pc'[r] \in AwayPhases
            /\ pc'[r] \in {"posttrust", "record"} => outcome'[r] # "succeeded"
        BY <1>1, <3>2, <4>1, AwayMove
      <4>3. runs'[r] # "succeeded" BY <3>2, RunMove DEF AwayPhases, Terminal
      <4>. QED BY <4>2, <4>3
    <3>. QED BY <3>1, <3>2, OthersStay
  <2>2. Inv /\ pc[r] = "running" => Doomed BY DEF AwayPhases, LateRuns, Terminal
  <2>3. Doomed => runs[r] # "succeeded" OBVIOUS
  <2>4. Init => Inv BY TypeInit DEF Init, LateRuns
  <2>5. Inv /\ [Next]_vars => Inv' BY TypeStep, LateStep DEF TypeInv
  <2>6. Spec => []( pc[r] = "running" /\ []Away => [](runs[r] # "succeeded") )
    <3>. HIDE DEF Doomed, Away, Inv
    <3>. QED BY <2>1, <2>2, <2>3, <2>4, <2>5, PTL DEF Spec
  <2>. QED BY <2>6
<1>. QED BY <1>1 DEF DriftNeverSucceeds
=============================================================================

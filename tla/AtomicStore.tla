----------------------------- MODULE AtomicStore -----------------------------
(***************************************************************************)
(* What callers of internal/store may rely on: a call takes effect at most *)
(* once and entirely, and an answer of success means that it did.  Failed  *)
(* is the answer of a call that was refused before it began (the lock file *)
(* was busy, or Open found another schema): nothing happened, and it may   *)
(* be made again.  After every other failure, and after the death of its   *)
(* process, a caller does not know.                                        *)
(***************************************************************************)
EXTENDS Naturals

CONSTANTS Calls, Writers

VARIABLES written, answer

TypeOK ==
  /\ written \in [Calls -> 0..1]
  /\ answer \in [Calls -> {"none", "ok", "failed", "unknown"}]

Init ==
  /\ written = [c \in Calls |-> 0]
  /\ answer = [c \in Calls |-> "none"]

Effect(c) ==
  /\ c \in Writers /\ answer[c] = "none" /\ written[c] = 0
  /\ written' = [written EXCEPT ![c] = 1]
  /\ UNCHANGED answer

Return(c, a) ==
  /\ answer[c] = "none"
  /\ a = "ok" => (c \in Writers => written[c] = 1)
  /\ a = "failed" => written[c] = 0
  /\ answer' = [answer EXCEPT ![c] = a]
  /\ UNCHANGED written

\* The calls of a process that dies are lost together.
Lose(S) ==
  /\ \A c \in S : answer[c] = "none"
  /\ answer' = [c \in Calls |-> IF c \in S THEN "unknown" ELSE answer[c]]
  /\ UNCHANGED written

Next ==
  \/ \E c \in Calls : Effect(c) \/ \E a \in {"ok", "failed", "unknown"} : Return(c, a)
  \/ \E S \in SUBSET Calls : Lose(S)
vars == <<written, answer>>
Spec == Init /\ [][Next]_vars
=============================================================================

---------------------------- MODULE MCInvocations ----------------------------
(***************************************************************************)
(* Two instances of AgentInvocation, of which a behaviour takes steps of   *)
(* one.  In AgentInvocation itself one process at a time serves, and       *)
(* restarts under a first attempt, its retry and a retry of that.  In      *)
(* Beside, of which the state is in the variables b..., two processes work *)
(* side by side.  The history launched is of both.                         *)
(***************************************************************************)
EXTENDS AgentInvocation

CONSTANTS p1, p2, p3, a, r, s, t, e, i1, i2, i3

\* s repeats the retry r with other words; t retries the retry; e edits the session.
Target(c) == CASE c = a -> i1 [] c \in {r, s} -> i2 [] c = t -> i3 [] c = e -> None
Retried(i) == CASE i = i1 -> None [] i = i2 -> i1 [] i = i3 -> i2
Prompt(c) == IF c = s THEN "other" ELSE "same"

MCProcessOf == [c \in Calls |-> IF c = a THEN p1 ELSE p2]
MCTargetOf == [c \in Calls |-> Target(c)]
MCParentOf == [i \in Invocations |-> Retried(i)]
MCPromptOf == [c \in Calls |-> Prompt(c)]

VARIABLES
  brows, bsession, bartifacts, bfiles, blife, bknown, bdoomed, bcopy, bsubject,
  bpc, breport, btries, banswer

\* The two requests for one retry come from two processes.
BesideCalls == {a, r, s, e}
Beside == INSTANCE AgentInvocation WITH
  Processes <- {p1, p2}, Calls <- BesideCalls, Invocations <- {i1, i2},
  ProcessOf <- [c \in BesideCalls |-> IF c = r THEN p2 ELSE p1],
  TargetOf <- [c \in BesideCalls |-> Target(c)], ParentOf <- [i \in {i1, i2} |-> Retried(i)],
  PromptOf <- [c \in BesideCalls |-> Prompt(c)], Faulty <- {r}, Sweeping <- {}, Alone <- FALSE,
  rows <- brows, session <- bsession, artifacts <- bartifacts, files <- bfiles, life <- blife,
  known <- bknown, doomed <- bdoomed, copy <- bcopy, subject <- bsubject, pc <- bpc,
  report <- breport, tries <- btries, answer <- banswer

\* All of a state but launched.
here == <<disk, boot, copy, local>>
beside ==
  <<brows, bsession, bartifacts, bfiles, blife, bknown, bdoomed, bcopy, bsubject,
    bpc, breport, btries, banswer>>
Untouched == \A p \in Processes : life[p] = "new"
BesideUntouched == \A p \in {p1, p2} : blife[p] = "new"

MCInit == Init /\ Beside!Init
MCNext ==
  \/ Next /\ BesideUntouched /\ UNCHANGED beside
  \/ Beside!Next /\ Untouched /\ UNCHANGED here
Fairness == \A c \in Calls : WF_<<here, beside, launched>>(Advance(c) /\ UNCHANGED beside)
MCSpec == MCInit /\ [][MCNext]_<<here, beside, launched>> /\ Fairness
=============================================================================

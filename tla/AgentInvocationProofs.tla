------------------------ MODULE AgentInvocationProofs ------------------------
(* Proofs about AgentInvocation, for any number of processes, calls and       *)
(* invocations.                                                               *)
EXTENDS AgentInvocation, TLAPS

-----------------------------------------------------------------------------
(* Types, with what they rest on: a start in its recovery has a subject, and  *)
(* only calls that claim an invocation come to the steps that name one.       *)

SubjectKnown == \A p \in Processes : life[p] = "recover" => subject[p] \in Invocations
RunSteps == Inside \ {"begin", "edit"}
RunsOnly == \A c \in Calls :
  /\ pc[c] \in RunSteps => c \in Runs
  /\ pc[c] = "gate" => c \in Retries
Typed == TypeOK /\ SubjectKnown /\ RunsOnly

BootPhases == {"new", "up", "gone"} \cup Booting
CallPhases == {"idle", "gate", "returned", "dead"} \cup Inside
Reports == [state : Results \cup {"failed"}, evidence : {"none", "filed"}]
Answers == {"none", "done", "existing", "conflict", "refused", "error"}
BootOK ==
  /\ life \in [Processes -> BootPhases]
  /\ known \in [Processes -> SUBSET Invocations] /\ doomed \in [Processes -> SUBSET Files]
  /\ subject \in [Processes -> Invocations \cup {None}]
LocalOK ==
  /\ pc \in [Calls -> CallPhases] /\ report \in [Calls -> Reports]
  /\ tries \in [Calls -> 0..Attempts] /\ answer \in [Calls -> Answers]
DiskOK ==
  /\ rows \in [Invocations -> Rows] /\ session \in Briefs
  /\ artifacts \subseteq Invocations /\ files \subseteq Files

LEMMA TypeParts ==
  TypeOK <=> BootOK /\ LocalOK /\ DiskOK /\ copy \in [Processes \cup Calls -> Briefs]
             /\ launched \subseteq Runs
BY DEF TypeOK, BootOK, LocalOK, DiskOK, BootPhases, CallPhases, Reports, Answers

LEMMA TargetType == ASSUME NEW c \in Runs PROVE TargetOf[c] \in Invocations
BY CallShape DEF Runs, Edits

LEMMA ParentType == ASSUME NEW c \in Retries PROVE Parent(c) \in Invocations
BY CallShape, TargetType DEF Retries, Parent

LEMMA ReportsOK ==
  /\ NoReport \in Reports
  /\ \A x \in Reports : x.state \in Ended /\ x.evidence \in {"none", "filed"}
BY CallShape DEF NoReport, Reports, Ended

LEMMA TypedInit == Init => Typed
<1> SUFFICES ASSUME Init PROVE Typed
  OBVIOUS
<1>1. rows \in [Invocations -> Rows]
  BY CallShape DEF Init, Rows, NoRow
<1>2. Blank \in Briefs
  BY DEF Blank, Briefs
<1>3. LocalOK
  BY ReportsOK, CallShape DEF Init, LocalOK, CallPhases, Answers
<1>4. BootOK
  BY DEF Init, BootOK, BootPhases
<1>5. TypeOK
  BY <1>1, <1>2, <1>3, <1>4, TypeParts DEF Init, DiskOK
<1>6. SubjectKnown /\ RunsOnly
  BY DEF Init, SubjectKnown, RunsOnly, RunSteps, Inside
<1> QED BY <1>5, <1>6 DEF Typed

\* What a start does to its own variables.
LEMMA BootTypes ==
  ASSUME Typed, NEW p \in Processes, Start(p) \/ Boot(p) \/ Exit(p)
  PROVE  BootOK' /\ SubjectKnown'
<1> USE DEF BootOK, SubjectKnown, BootPhases, Booting
<1>0. BootOK /\ SubjectKnown /\ DiskOK
  BY TypeParts DEF Typed
<1>1. CASE Start(p)
  BY <1>0, <1>1 DEF Start
<1>2. CASE ListArtifacts(p)
  BY <1>0, <1>2 DEF ListArtifacts, DiskOK
<1>3. CASE ListInvocations(p)
  BY <1>0, <1>3 DEF ListInvocations
<1>4. CASE ReadDirectory(p)
  BY <1>0, <1>4 DEF ReadDirectory, DiskOK
<1>5. CASE Sweep(p)
  BY <1>0, <1>5 DEF Sweep
<1>6. CASE EndSweep(p)
  BY <1>0, <1>6 DEF EndSweep
<1>7. CASE ListActive(p)
  BY <1>0, <1>7 DEF ListActive
<1>8. CASE ReadSession(p)
  BY <1>0, <1>8 DEF ReadSession
<1>9. CASE Recover(p)
  <2>1. PICK next \in {"next", "gone"} :
          /\ life' = [life EXCEPT ![p] = next]
          /\ known' = [known EXCEPT ![p] = IF next = "gone" THEN {} ELSE @]
    BY <1>9 DEF Recover
  <2>2. subject' = [subject EXCEPT ![p] = None] /\ UNCHANGED doomed
    BY <1>9 DEF Recover
  <2> QED BY <1>0, <2>1, <2>2
<1>10. CASE Serve(p)
  BY <1>0, <1>10 DEF Serve
<1>11. CASE Exit(p)
  BY <1>0, <1>11 DEF Exit
<1> QED BY <1>1, <1>2, <1>3, <1>4, <1>5, <1>6, <1>7, <1>8, <1>9, <1>10, <1>11 DEF Boot

\* What a return does.
LEMMA ReturnTypes ==
  ASSUME LocalOK, copy \in [Processes \cup Calls -> Briefs], NEW c \in Calls,
         NEW reply \in Answers, Return(c, reply)
  PROVE  LocalOK' /\ copy' \in [Processes \cup Calls -> Briefs]
<1>1. pc' \in [Calls -> CallPhases] /\ answer' \in [Calls -> Answers]
  BY DEF Return, LocalOK, CallPhases
<1>2. report' \in [Calls -> Reports] /\ tries' \in [Calls -> 0..Attempts]
  BY ReportsOK, CallShape DEF Return, LocalOK
<1>3. copy' \in [Processes \cup Calls -> Briefs]
  BY DEF Return, Blank, Briefs
<1> QED BY <1>1, <1>2, <1>3 DEF LocalOK

LEMMA GotoTypes ==
  ASSUME LocalOK, NEW c \in Calls, NEW phase \in CallPhases, Goto(c, phase),
         UNCHANGED <<report, tries, answer>>
  PROVE  LocalOK'
BY DEF Goto, LocalOK

\* The locals of the calls, the copies they hold, and the providers they start.
LocalTyped == LocalOK /\ copy \in [Processes \cup Calls -> Briefs] /\ launched \subseteq Runs

LEMMA LocalTypes ==
  ASSUME Typed, NEW c \in Calls, Request(c) \/ Advance(c)
  PROVE  LocalTyped'
<1> USE DEF LocalTyped, CallPhases, Inside
<1>0. LocalOK /\ copy \in [Processes \cup Calls -> Briefs] /\ launched \subseteq Runs /\ DiskOK
      /\ RunsOnly
  BY TypeParts DEF Typed
<1>r. \A reply \in Answers : Return(c, reply) => LocalOK' /\ copy' \in [Processes \cup Calls -> Briefs]
  BY <1>0, ReturnTypes
<1>g. \A phase \in CallPhases : Goto(c, phase) /\ UNCHANGED <<report, tries, answer>> => LocalOK'
  BY <1>0, GotoTypes
<1>a. {"none", "done", "existing", "conflict", "refused", "error"} = Answers /\ Repeat(c) \in Answers
  BY DEF Answers, Repeat
<1>1. CASE Request(c)
  BY <1>0, <1>1, <1>g DEF Request
<1>2. CASE Gate(c)
  BY <1>0, <1>2, <1>g, <1>r, <1>a DEF Gate
<1>3. CASE Begin(c)
  <2>1. copy' \in [Processes \cup Calls -> Briefs]
    BY <1>0, <1>3 DEF Begin, DiskOK
  <2> QED BY <1>0, <1>3, <1>g, <2>1 DEF Begin
<1>4. CASE Lookup(c)
  BY <1>0, <1>4, <1>g, <1>r, <1>a DEF Lookup
<1>5. CASE Claim(c)
  BY <1>0, <1>5, <1>g, <1>r, <1>a DEF Claim
<1>6. CASE Claimed(c)
  BY <1>0, <1>6, <1>r, <1>a DEF Claimed
<1>7. CASE GiveUp(c)
  BY <1>0, <1>7, <1>r, <1>a DEF GiveUp
<1>8. CASE Launch(c)
  BY <1>0, <1>8, <1>g DEF Launch, RunsOnly, RunSteps
<1>9. CASE NotLaunched(c)
  BY <1>0, <1>9, <1>g DEF NotLaunched
<1>10. CASE Finish(c)
  <2>1. report' \in [Calls -> Reports]
    BY <1>0, <1>10 DEF Finish, LocalOK, Reports
  <2>2. pc' \in [Calls -> CallPhases]
    BY <1>0, <1>10 DEF Finish, Goto, LocalOK
  <2> QED BY <1>0, <1>10, <2>1, <2>2 DEF Finish, LocalOK
<1>11. CASE WriteFile(c)
  BY <1>0, <1>11, <1>g DEF WriteFile
<1>12. CASE RenameFile(c)
  <2>1. report' \in [Calls -> Reports]
    BY <1>0, <1>12 DEF RenameFile, LocalOK, Reports
  <2>2. pc' \in [Calls -> CallPhases]
    BY <1>0, <1>12 DEF RenameFile, Goto, LocalOK
  <2> QED BY <1>0, <1>12, <2>1, <2>2 DEF RenameFile, LocalOK
<1>13. CASE NoFile(c)
  <2>1. report' \in [Calls -> Reports]
    BY <1>0, <1>13, ReportsOK DEF NoFile, Unfiled, LocalOK
  <2>2. pc' \in [Calls -> CallPhases]
    BY <1>0, <1>13 DEF NoFile, Goto, LocalOK
  <2> QED BY <1>0, <1>13, <2>1, <2>2 DEF NoFile, LocalOK
<1>14. CASE Finalize(c)
  BY <1>0, <1>14, <1>g, <1>r, <1>a DEF Finalize
<1>15. CASE NotFinalized(c)
  BY <1>0, <1>15, <1>g DEF NotFinalized
<1>16. CASE Persist(c)
  BY <1>0, <1>16, <1>g, <1>r, <1>a DEF Persist
<1>17. CASE NotPersisted(c)
  <2>1. CASE tries[c] + 1 < Attempts
    <3>1. tries' = [tries EXCEPT ![c] = @ + 1] /\ UNCHANGED <<pc, copy, report, answer, launched>>
      BY <1>17, <2>1 DEF NotPersisted
    <3>2. tries' \in [Calls -> 0..Attempts]
      BY <1>0, <2>1, <3>1, CallShape DEF LocalOK
    <3> QED BY <1>0, <3>1, <3>2 DEF LocalOK
  <2>2. CASE ~(tries[c] + 1 < Attempts)
    BY <1>0, <1>17, <2>2, <1>r, <1>a DEF NotPersisted
  <2> QED BY <2>1, <2>2
<1>18. CASE Discard(c)
  BY <1>0, <1>18, <1>r, <1>a DEF Discard
<1>19. CASE SaveEdit(c)
  BY <1>0, <1>19, <1>r, <1>a DEF SaveEdit
<1> QED BY <1>1, <1>2, <1>3, <1>4, <1>5, <1>6, <1>7, <1>8, <1>9, <1>10, <1>11, <1>12, <1>13,
           <1>14, <1>15, <1>16, <1>17, <1>18, <1>19 DEF Advance

\* What the recovery and the calls write.
LEMMA UnfinishedTypes ==
  ASSUME DiskOK, NEW i \in Invocations, NEW s \in Ended
  PROVE  Unfinished(i, s) \in [Invocations -> Rows]
<1>1. rows[i] \in Rows /\ rows[i].revision + 1 \in Nat
  BY DEF DiskOK, Rows
<1>2. [rows[i] EXCEPT !.state = s, !.evidence = "none", !.revision = rows[i].revision + 1] \in Rows
  BY <1>1 DEF Rows
<1> QED BY <1>2 DEF Unfinished, DiskOK

LEMMA UnfinishedRow ==
  ASSUME DiskOK, NEW i \in Invocations, NEW s \in Ended
  PROVE  /\ Unfinished(i, s)[i].state = s /\ Unfinished(i, s)[i].evidence = "none"
         /\ Unfinished(i, s)[i].revision = rows[i].revision + 1
         /\ Unfinished(i, s)[i].prompt = rows[i].prompt
         /\ \A j \in Invocations \ {i} : Unfinished(i, s)[j] = rows[j]
<1>1. rows[i] \in Rows
  BY DEF DiskOK
<1>2. Unfinished(i, s)[i] = [rows[i] EXCEPT !.state = s, !.evidence = "none",
                                          !.revision = rows[i].revision + 1]
  BY DEF Unfinished, DiskOK
<1>3. \A j \in Invocations \ {i} : Unfinished(i, s)[j] = rows[j]
  BY DEF Unfinished, DiskOK
<1> QED BY <1>1, <1>2, <1>3 DEF Rows

LEMMA FailureTypes ==
  ASSUME DiskOK, NEW c \in Runs
  PROVE  Failure(c) \in [Invocations -> Rows]
BY TargetType, UnfinishedTypes DEF Failure, DiskOK, Ended

LEMMA BootDisk ==
  ASSUME Typed, NEW p \in Processes, Start(p) \/ Boot(p) \/ Exit(p)
  PROVE  DiskOK' /\ copy' \in [Processes \cup Calls -> Briefs]
<1> DEFINE Goal == DiskOK' /\ copy' \in [Processes \cup Calls -> Briefs]
<1>0. BootOK /\ SubjectKnown /\ DiskOK /\ copy \in [Processes \cup Calls -> Briefs]
  BY TypeParts DEF Typed
<1>b. Blank \in Briefs
  BY DEF Blank, Briefs
<1>1. CASE Sweep(p)
  BY <1>0, <1>1 DEF Sweep, DiskOK
<1>2. CASE ReadSession(p)
  <2>1. copy' \in [Processes \cup Calls -> Briefs]
    BY <1>0, <1>2 DEF ReadSession, DiskOK
  <2> QED BY <1>0, <1>2, <2>1 DEF ReadSession, DiskOK, disk
<1>3. CASE Recover(p)
  <2>1. subject[p] \in Invocations
    BY <1>0, <1>3 DEF Recover, SubjectKnown
  <2>2. rows' \in [Invocations -> Rows]
    BY <1>0, <1>3, <2>1, UnfinishedTypes DEF Recover, Interrupted, Ended
  <2>3. session' \in Briefs
    BY <1>0, <1>3, <2>1 DEF Recover, Interrupted, Briefs
  <2>4. copy' \in [Processes \cup Calls -> Briefs]
    BY <1>0, <1>3, <1>b DEF Recover
  <2> QED BY <1>0, <1>3, <2>2, <2>3, <2>4 DEF Recover, DiskOK
<1>4. CASE Exit(p)
  <2>1. copy' \in [Processes \cup Calls -> Briefs]
    BY <1>0, <1>4, <1>b DEF Exit
  <2> QED BY <1>0, <1>4, <2>1 DEF Exit, DiskOK, disk
<1>5. CASE Start(p) \/ ListArtifacts(p) \/ ListInvocations(p) \/ ReadDirectory(p)
           \/ EndSweep(p) \/ ListActive(p) \/ Serve(p)
  BY <1>0, <1>5 DEF Start, ListArtifacts, ListInvocations, ReadDirectory, EndSweep, ListActive,
                    Serve, DiskOK, disk
<1> QED BY <1>1, <1>2, <1>3, <1>4, <1>5 DEF Boot

LEMMA CallDisk ==
  ASSUME Typed, NEW c \in Calls, Request(c) \/ Advance(c)
  PROVE  DiskOK'
<1>0. LocalOK /\ DiskOK /\ copy \in [Processes \cup Calls -> Briefs]
  BY TypeParts DEF Typed
<1>r. pc[c] \in RunSteps => c \in Runs /\ TargetOf[c] \in Invocations
  BY TargetType DEF Typed, RunsOnly
<1>f. c \in Runs => Temporary(c) \in Files /\ Evidence(c) \in Files
  BY TargetType DEF Temporary, Evidence, Files
<1>1. CASE Claim(c)
  <2>1. c \in Runs /\ TargetOf[c] \in Invocations
    BY <1>1, <1>r DEF Claim, RunSteps, Inside
  <2>2. rows' \in [Invocations -> Rows]
    BY <1>0, <1>1, <2>1 DEF Claim, DiskOK, Rows, Prompts
  <2> QED BY <1>0, <1>1, <2>2 DEF Claim, DiskOK
<1>2. CASE WriteFile(c)
  BY <1>0, <1>2, <1>r, <1>f DEF WriteFile, DiskOK, RunSteps, Inside
<1>3. CASE RenameFile(c)
  BY <1>0, <1>3, <1>r, <1>f DEF RenameFile, DiskOK, RunSteps, Inside
<1>4. CASE NoFile(c)
  BY <1>0, <1>4 DEF NoFile, DiskOK
<1>5. CASE Finalize(c)
  <2>1. c \in Runs /\ TargetOf[c] \in Invocations
    BY <1>5, <1>r DEF Finalize, RunSteps, Inside
  <2>2. report[c].state \in Ended /\ report[c].evidence \in {"none", "filed"}
    BY <1>0, ReportsOK DEF LocalOK
  <2>3. rows' \in [Invocations -> Rows]
    BY <1>0, <1>5, <2>1, <2>2 DEF Finalize, DiskOK, Rows
  <2>4. session' \in Briefs
    BY <1>0, <1>5, <2>1 DEF Finalize, Closing, Reconciled, Briefs
  <2>5. artifacts' \subseteq Invocations
    BY <1>0, <1>5, <2>1 DEF Finalize, DiskOK
  <2> QED BY <1>0, <1>5, <2>3, <2>4, <2>5 DEF Finalize, DiskOK
<1>6. CASE Persist(c)
  BY <1>0, <1>6, <1>r, FailureTypes DEF Persist, DiskOK, RunSteps, Inside
<1>7. CASE NotPersisted(c)
  BY <1>0, <1>7, <1>r, FailureTypes DEF NotPersisted, DiskOK, RunSteps, Inside
<1>8. CASE Discard(c)
  BY <1>0, <1>8 DEF Discard, DiskOK
<1>9. CASE SaveEdit(c)
  BY <1>0, <1>9 DEF SaveEdit, DiskOK
<1>10. CASE Request(c) \/ Gate(c) \/ Begin(c) \/ Lookup(c) \/ Claimed(c) \/ GiveUp(c) \/ Launch(c)
            \/ NotLaunched(c) \/ Finish(c) \/ NotFinalized(c)
  BY <1>0, <1>10 DEF Request, Gate, Begin, Lookup, Claimed, GiveUp, Launch, NotLaunched, Finish,
                     NotFinalized, DiskOK, disk
<1> QED BY <1>1, <1>2, <1>3, <1>4, <1>5, <1>6, <1>7, <1>8, <1>9, <1>10 DEF Advance

\* Every step of a call moves that call alone, forward or to its end.
LEMMA CallMoves ==
  ASSUME LocalOK, RunsOnly, NEW c \in Calls, Request(c) \/ Advance(c)
  PROVE  RunsOnly' /\ (\A d \in Calls \ {c} : pc'[d] = pc[d])
<1> USE DEF RunsOnly, RunSteps, Inside, LocalOK, Runs, Retries, Edits
<1>1. CASE Request(c)
  BY <1>1 DEF Request, Goto
<1>2. CASE Gate(c)
  BY <1>2 DEF Gate, Goto, Return
<1>3. CASE Begin(c)
  BY <1>3 DEF Begin, Goto
<1>4. CASE Lookup(c) \/ Claim(c) \/ Claimed(c) \/ GiveUp(c)
  BY <1>4 DEF Lookup, Claim, Claimed, GiveUp, Goto, Return
<1>5. CASE Launch(c) \/ NotLaunched(c) \/ Finish(c) \/ WriteFile(c) \/ RenameFile(c) \/ NoFile(c)
  BY <1>5 DEF Launch, NotLaunched, Finish, WriteFile, RenameFile, NoFile, Goto, Return
<1>6. CASE Finalize(c) \/ NotFinalized(c) \/ Persist(c) \/ Discard(c) \/ SaveEdit(c)
  BY <1>6 DEF Finalize, NotFinalized, Persist, Discard, SaveEdit, Goto, Return
<1>7. CASE NotPersisted(c)
  BY <1>7 DEF NotPersisted, Goto, Return
<1> QED BY <1>1, <1>2, <1>3, <1>4, <1>5, <1>6, <1>7 DEF Advance

LEMMA TypedStep == Typed /\ [Next]_vars => Typed'
<1> SUFFICES ASSUME Typed, [Next]_vars PROVE Typed'
  OBVIOUS
<1>0. BootOK /\ LocalOK /\ DiskOK /\ copy \in [Processes \cup Calls -> Briefs] /\ launched \subseteq Runs
      /\ SubjectKnown /\ RunsOnly
  BY TypeParts DEF Typed
<1>1. ASSUME NEW p \in Processes, Start(p) \/ Boot(p) PROVE Typed'
  <2>1. UNCHANGED <<local, launched>>
    BY <1>1 DEF Boot, Start, ListArtifacts, ListInvocations, ReadDirectory, Sweep, EndSweep,
                ListActive, ReadSession, Recover, Serve
  <2>2. LocalOK' /\ RunsOnly'
    BY <1>0, <2>1 DEF LocalOK, RunsOnly, local
  <2> QED BY <1>0, <1>1, <2>1, <2>2, BootTypes, BootDisk, TypeParts
        DEF Typed, TypeOK, BootOK, LocalOK, DiskOK, BootPhases, CallPhases, Reports, Answers
<1>2. ASSUME NEW p \in Processes, Exit(p) PROVE Typed'
  <2>1. pc' \in [Calls -> CallPhases] /\ RunsOnly'
    BY <1>0, <1>2 DEF Exit, LocalOK, CallPhases, RunsOnly, RunSteps, Inside
  <2>2. report' \in [Calls -> Reports] /\ tries' \in [Calls -> 0..Attempts]
    BY <1>0, <1>2, ReportsOK, CallShape DEF Exit, LocalOK
  <2>3. LocalOK' /\ launched' \subseteq Runs
    BY <1>0, <1>2, <2>1, <2>2 DEF Exit, LocalOK
  <2> QED BY <1>0, <1>2, <2>1, <2>3, BootTypes, BootDisk, TypeParts
        DEF Typed, TypeOK, BootOK, LocalOK, DiskOK, BootPhases, CallPhases, Reports, Answers
<1>3. ASSUME NEW c \in Calls, Request(c) \/ Advance(c) PROVE Typed'
  <2>1. UNCHANGED boot
    BY <1>3 DEF Advance, Request, Gate, Begin, Lookup, Claim, Claimed, GiveUp, Launch, NotLaunched,
                Finish, WriteFile, RenameFile, NoFile, Finalize, NotFinalized, Persist,
                NotPersisted, Discard, SaveEdit
  <2>2. BootOK' /\ SubjectKnown'
    BY <1>0, <2>1 DEF boot, BootOK, SubjectKnown
  <2>3. LocalTyped' /\ DiskOK' /\ RunsOnly'
    BY <1>0, <1>3, LocalTypes, CallDisk, CallMoves
  <2> QED BY <2>2, <2>3, TypeParts DEF Typed, TypeOK, LocalTyped, BootOK, LocalOK, DiskOK,
             BootPhases, CallPhases, Reports, Answers
<1>4. CASE UNCHANGED vars
  BY <1>4, <1>0 DEF vars, disk, boot, local, Typed, TypeOK, SubjectKnown, RunsOnly
<1> QED BY <1>1, <1>2, <1>3, <1>4 DEF Next

\* Every row, file, read copy and local keeps its shape; a start that recovers
\* has a row to recover, and only runs come to the steps of a run.
THEOREM TypeCorrect == Spec => []TypeOK
<1>1. Typed => TypeOK
  BY DEF Typed
<1> QED BY <1>1, TypedInit, TypedStep, PTL DEF Spec

-----------------------------------------------------------------------------
(* One provider per id: a call that has claimed a row is the only one of its  *)
(* id to have done so, because no row ever goes away.                         *)

Owner(c) == c \in launched \/ pc[c] \in Owning \cup {"discard"}
OwnerInv ==
  /\ \A c \in Calls : Owner(c) => c \in Runs /\ Row(c).state # "absent"
  /\ \A c, d \in Calls : Owner(c) /\ Owner(d) /\ TargetOf[c] = TargetOf[d] => c = d

\* Rows stay, and only a claim makes a call an owner.
LEMMA OwnerKept ==
  ASSUME OwnerInv, \A i \in Invocations : rows[i].state # "absent" => rows'[i].state # "absent",
         \A c \in Calls : Owner(c)' => Owner(c)
  PROVE  OwnerInv'
BY TargetType DEF OwnerInv, Row

LEMMA OwnerStep == Typed /\ OwnerInv /\ [Next]_vars => OwnerInv'
<1> SUFFICES ASSUME Typed, OwnerInv, [Next]_vars PROVE OwnerInv'
  OBVIOUS
<1>0. LocalOK /\ DiskOK /\ RunsOnly /\ SubjectKnown
  BY TypeParts DEF Typed
<1> DEFINE Stay == \A i \in Invocations : rows[i].state # "absent" => rows'[i].state # "absent"
           Fewer == \A c \in Calls : Owner(c)' => Owner(c)
<1>1. ASSUME NEW p \in Processes, Start(p) \/ Boot(p) PROVE OwnerInv'
  <2>1. Fewer
    BY <1>1 DEF Boot, Start, ListArtifacts, ListInvocations, ReadDirectory, Sweep, EndSweep,
                ListActive, ReadSession, Recover, Serve, local, Owner
  <2>2. CASE Recover(p)
    <3>1. Stay
      BY <1>0, <2>2 DEF Recover, Interrupted, Unfinished, DiskOK
    <3> QED BY <2>1, <3>1, OwnerKept
  <2>3. CASE ~Recover(p)
    BY <1>1, <2>1, <2>3, OwnerKept
       DEF Boot, Start, ListArtifacts, ListInvocations, ReadDirectory, Sweep, EndSweep,
           ListActive, ReadSession, Serve, disk
  <2> QED BY <2>2, <2>3
<1>2. ASSUME NEW p \in Processes, Exit(p) PROVE OwnerInv'
  <2>1. Fewer
    BY <1>0, <1>2 DEF Exit, Owner, Owning, LocalOK
  <2> QED BY <1>2, <2>1, OwnerKept DEF Exit, disk
<1>3. ASSUME NEW c \in Calls, Claim(c) PROVE OwnerInv'
  <2>1. c \in Runs /\ TargetOf[c] \in Invocations
    BY <1>0, <1>3, TargetType DEF Claim, RunsOnly, RunSteps, Inside
  <2>2. Row(c)'.state # "absent" /\ Stay
    BY <1>0, <1>3, <2>1 DEF Claim, Row, DiskOK
  <2>3. \A d \in Calls : Owner(d) => TargetOf[d] # TargetOf[c]
    BY <1>3 DEF OwnerInv, Claim, Unclaimed, Row
  <2>4. \A d \in Calls \ {c} : Owner(d)' => Owner(d)
    BY <1>0, <1>3 DEF Claim, Goto, Return, Owner, LocalOK
  <2>5. \A d \in Calls : Owner(d) => d \in Runs /\ TargetOf[d] \in Invocations
    BY TargetType DEF OwnerInv
  <2> QED BY <2>1, <2>2, <2>3, <2>4, <2>5 DEF OwnerInv, Row
<1>4. ASSUME NEW c \in Calls, Request(c) \/ (Advance(c) /\ ~Claim(c)) PROVE OwnerInv'
  <2>1. CASE Request(c) \/ Gate(c) \/ Begin(c) \/ Lookup(c) \/ Claimed(c) \/ GiveUp(c)
    <3>1. Fewer
      BY <1>0, <2>1 DEF Request, Gate, Begin, Lookup, Claimed, GiveUp, Goto, Return, Owner, Owning, LocalOK
    <3> QED BY <2>1, <3>1, OwnerKept DEF Request, Gate, Begin, Lookup, Claimed, GiveUp, disk
  <2>2. CASE Launch(c) \/ NotLaunched(c) \/ Finish(c) \/ WriteFile(c) \/ RenameFile(c) \/ NoFile(c)
              \/ NotFinalized(c) \/ Discard(c) \/ SaveEdit(c)
    <3>1. Fewer
      BY <1>0, <2>2 DEF Launch, NotLaunched, Finish, WriteFile, RenameFile, NoFile, NotFinalized,
                        Discard, SaveEdit, Goto, Return, Owner, Owning, LocalOK
    <3> QED BY <2>2, <3>1, OwnerKept DEF Launch, NotLaunched, Finish, WriteFile, RenameFile, NoFile,
                        NotFinalized, Discard, SaveEdit, disk
  <2>3. CASE Finalize(c) \/ Persist(c) \/ NotPersisted(c)
    <3>1. Fewer
      BY <1>0, <2>3 DEF Finalize, Persist, NotPersisted, Goto, Return, Owner, Owning, LocalOK
    <3>2. report[c].state # "absent"
      BY <1>0, ReportsOK DEF LocalOK, Ended
    <3>3. TargetOf[c] \in Invocations
      BY <1>0, <2>3, TargetType DEF Finalize, Persist, NotPersisted, RunsOnly, RunSteps, Inside
    <3>4. CASE Finalize(c)
      BY <1>0, <3>1, <3>2, <3>3, <3>4, OwnerKept DEF Finalize, DiskOK
    <3>5. CASE Persist(c) \/ NotPersisted(c)
      <4>1. rows' = rows \/ rows' = Unfinished(TargetOf[c], "failed")
        BY <3>5 DEF Persist, NotPersisted, Failure
      <4>2. Stay
        BY <1>0, <3>3, <4>1, UnfinishedRow DEF Ended
      <4> QED BY <3>1, <4>2, OwnerKept
    <3> QED BY <2>3, <3>4, <3>5
  <2> QED BY <1>4, <2>1, <2>2, <2>3 DEF Advance
<1>5. CASE UNCHANGED vars
  BY <1>5, OwnerKept DEF vars, disk, local, Owner
<1> QED BY <1>1, <1>2, <1>3, <1>4, <1>5 DEF Next

LEMMA OwnerInit == Init => OwnerInv
BY DEF Init, OwnerInv, Owner, Owning

\* However many processes are asked however often, one provider is started per
\* id, also when processes run beside each other and storage fails.
THEOREM OneLaunch == Spec => []LaunchedOnce
<1>1. OwnerInv /\ Typed => LaunchedOnce
  BY TypeParts DEF OwnerInv, LaunchedOnce, Owner, Typed, Runs
<1> QED BY <1>1, TypedInit, TypedStep, OwnerInit, OwnerStep, PTL DEF Spec

-----------------------------------------------------------------------------
(* When a process starts only after the previous one has ended (Alone): what  *)
(* a restart finds, and what it may not undo.                                *)

\* While a start is under way no call is, and one process is alive at a time.
OneAlive ==
  /\ \A p, q \in Processes : Live(p) /\ Live(q) => p = q
  /\ \A c \in Calls : pc[c] \in Inside \cup {"gate"} => life[ProcessOf[c]] = "up"

\* Evidence comes with the end, and a success with evidence.
RowInv == \A i \in Invocations :
  /\ rows[i].state \in {"absent", "running"} => rows[i].evidence = "none"
  /\ rows[i].state = "succeeded" => rows[i].evidence = "filed"
  /\ rows[i].evidence = "filed" <=> i \in artifacts

Working == {"launch", "running", "write", "rename", "finalize"}
\* The row of a call is running up to its finalization; evidence is reported
\* only when it is filed, and taken back only when no row refers to it.
CallOK(c) ==
  /\ pc[c] \in Working => Active(TargetOf[c])
  /\ report[c].evidence = "filed" => pc[c] \in {"finalize", "persist", "discard"}
  /\ pc[c] = "finalize" /\ report[c].state = "succeeded" => report[c].evidence = "filed"
  /\ pc[c] = "discard" => Row(c).state \in Ended /\ Row(c).evidence = "none"
  /\ answer[c] # "none" => pc[c] = "returned"
CallInv == \A c \in Calls : CallOK(c)

\* What a row or a call about to store one refers to is in the directory.
FileInv ==
  /\ \A i \in artifacts : <<i, "evidence">> \in files
  /\ \A c \in Calls : pc[c] = "finalize" /\ report[c].evidence = "filed" => Evidence(c) \in files

\* The sweep knows every artifact, and dooms the evidence of none.
SweepInv == \A p \in Processes :
  /\ life[p] \in {"invocations", "directory"} => artifacts \subseteq known[p]
  /\ life[p] # "sweep" => doomed[p] = {}
  /\ \A i \in artifacts : <<i, "evidence">> \notin doomed[p]

\* The recovery works on rows that are running, and on all of them.
RecoveryInv == \A p \in Processes :
  /\ life[p] = "next" => known[p] = {i \in Invocations : Active(i)}
  /\ life[p] = "recover" => /\ subject[p] \notin known[p]
                            /\ known[p] \cup {subject[p]} = {i \in Invocations : Active(i)}

\* The invocation a retry replaces has ended.
ParentInv == \A c \in Retries : pc[c] \in Inside => rows[Parent(c)].state \in Ended

\* Whoever will write the brief back has every interrupted run in it that no
\* ended retry has settled.
Settled(i, brief) == \/ i \in brief.pending
                     \/ \E j \in Invocations : ParentOf[j] = i /\ rows[j].state \in Ended
Covers(brief) == \A i \in Invocations : rows[i].state = "interrupted" => Settled(i, brief)
BriefInv ==
  /\ Covers(session)
  /\ \A c \in Calls : pc[c] \in Inside \ {"begin"} => Covers(copy[c])
  /\ \A p \in Processes : life[p] = "recover" => Covers(copy[p])

Restart ==
  /\ Typed /\ OwnerInv /\ OneAlive /\ RowInv /\ CallInv /\ FileInv /\ SweepInv
  /\ RecoveryInv /\ ParentInv /\ BriefInv /\ RunningHasRunner

\* The parts of Typed that the steps below use.
LEMMA Shapes ==
  ASSUME Typed
  PROVE  /\ BootOK /\ LocalOK /\ DiskOK /\ SubjectKnown /\ RunsOnly
         /\ copy \in [Processes \cup Calls -> Briefs]
BY TypeParts DEF Typed

-----------------------------------------------------------------------------
(* One process at a time.                                                    *)

\* A start moves one process on from a phase of the start, and no call.
LEMMA BootShape ==
  ASSUME Typed, NEW p \in Processes, Boot(p)
  PROVE  /\ life[p] \in Booting /\ life'[p] \in Booting \cup {"up", "gone"}
         /\ \A q \in Processes \ {p} : life'[q] = life[q]
         /\ UNCHANGED <<artifacts, pc, report, tries, answer, launched>>
         /\ ~Recover(p) => UNCHANGED <<rows, session>>
<1> USE DEF BootOK, Booting, local, disk
<1>0. BootOK
  BY Shapes
<1>1. CASE ListArtifacts(p) \/ ListInvocations(p) \/ ReadDirectory(p) \/ EndSweep(p) \/ ListActive(p) \/ Serve(p)
  BY <1>0, <1>1 DEF ListArtifacts, ListInvocations, ReadDirectory, EndSweep, ListActive, Serve
<1>2. CASE Sweep(p)
  BY <1>0, <1>2 DEF Sweep
<1>3. CASE ReadSession(p)
  BY <1>0, <1>3 DEF ReadSession
<1>4. CASE Recover(p)
  <2>1. PICK next \in {"next", "gone"} : life' = [life EXCEPT ![p] = next]
    BY <1>4 DEF Recover
  <2> QED BY <1>0, <1>4, <2>1 DEF Recover
<1> QED BY <1>1, <1>2, <1>3, <1>4 DEF Boot

\* A step of c leaves the locals of the other calls and of the starts alone.
Apart(c) == /\ \A d \in Calls \ {c} : /\ pc'[d] = pc[d] /\ report'[d] = report[d]
                                     /\ answer'[d] = answer[d] /\ copy'[d] = copy[d]
            /\ \A p \in Processes : copy'[p] = copy[p]

LEMMA ReturnApart == ASSUME Typed, NEW c \in Calls, NEW reply \in Answers, Return(c, reply)
                     PROVE  Apart(c)
<1>1. LocalOK /\ copy \in [Processes \cup Calls -> Briefs] /\ Processes \cap Calls = {}
  BY Shapes, CallShape
<1>2. \A d \in Calls \ {c} : pc'[d] = pc[d] /\ report'[d] = report[d] /\ answer'[d] = answer[d]
  BY <1>1 DEF Return, LocalOK
<1>3. \A d \in (Processes \cup Calls) \ {c} : copy'[d] = copy[d]
  BY <1>1 DEF Return
<1> QED BY <1>1, <1>2, <1>3 DEF Apart

LEMMA GotoApart == ASSUME Typed, NEW c \in Calls, NEW phase \in CallPhases, Goto(c, phase),
                          UNCHANGED <<copy, report, answer>>
                   PROVE  Apart(c)
<1>1. LocalOK
  BY Shapes
<1> QED BY <1>1 DEF Goto, LocalOK, Apart

\* A call changes nothing of the starts, and acts while its process serves.
LEMMA CallFrame ==
  ASSUME Typed, OneAlive, NEW c \in Calls, Request(c) \/ Advance(c)
  PROVE  UNCHANGED boot /\ life[ProcessOf[c]] = "up" /\ Apart(c)
<1> USE DEF Inside, CallPhases
<1>0. LocalOK /\ copy \in [Processes \cup Calls -> Briefs] /\ Processes \cap Calls = {}
  BY Shapes, CallShape
<1>1. UNCHANGED boot
  BY DEF Advance, Request, Gate, Begin, Lookup, Claim, Claimed, GiveUp, Launch, NotLaunched,
         Finish, WriteFile, RenameFile, NoFile, Finalize, NotFinalized, Persist,
         NotPersisted, Discard, SaveEdit
<1>2. life[ProcessOf[c]] = "up"
  BY DEF Advance, Request, Gate, Begin, Lookup, Claim, Claimed, GiveUp, Launch, NotLaunched,
         Finish, WriteFile, RenameFile, NoFile, Finalize, NotFinalized, Persist,
         NotPersisted, Discard, SaveEdit, OneAlive
<1> SUFFICES Apart(c)
  BY <1>1, <1>2
<1>r. \A reply \in Answers : Return(c, reply) => Apart(c)
  BY ReturnApart
<1>g. \A phase \in CallPhases : Goto(c, phase) /\ UNCHANGED <<copy, report, tries, answer>> => Apart(c)
  BY GotoApart
<1>a. {"done", "existing", "conflict", "refused", "error"} \subseteq Answers /\ Repeat(c) \in Answers
  BY DEF Answers, Repeat
<1>3. CASE Request(c) \/ Gate(c) \/ Lookup(c) \/ Claimed(c) \/ GiveUp(c)
  BY <1>3, <1>r, <1>g, <1>a DEF Request, Gate, Lookup, Claimed, GiveUp
<1>4. CASE Begin(c) \/ Finish(c) \/ RenameFile(c) \/ NoFile(c)
  BY <1>0, <1>4 DEF Begin, Finish, RenameFile, NoFile, Goto, LocalOK, Apart
<1>5. CASE NotPersisted(c)
  <2>1. CASE tries[c] + 1 < Attempts
    BY <1>5, <2>1 DEF NotPersisted, Apart
  <2>2. CASE ~(tries[c] + 1 < Attempts)
    BY <1>5, <2>2, <1>r, <1>a DEF NotPersisted
  <2> QED BY <2>1, <2>2
<1>6. CASE Claim(c) \/ Launch(c) \/ NotLaunched(c) \/ WriteFile(c) \/ NotFinalized(c)
  BY <1>6, <1>r, <1>g, <1>a DEF Claim, Launch, NotLaunched, WriteFile, NotFinalized
<1>7. CASE Finalize(c) \/ Persist(c) \/ Discard(c) \/ SaveEdit(c)
  BY <1>7, <1>r, <1>g, <1>a DEF Finalize, Persist, Discard, SaveEdit
<1> QED BY <1>1, <1>2, <1>3, <1>4, <1>5, <1>6, <1>7 DEF Advance

\* Which calls an end of the process ends.
LEMMA ExitShape ==
  ASSUME Typed, OneAlive, NEW p \in Processes, Exit(p)
  PROVE  /\ life'[p] = "gone" /\ \A q \in Processes \ {p} : life'[q] = life[q] /\ ~Live(q)
         /\ \A c \in Calls : /\ pc'[c] \in {"idle", "returned", "dead"}
                             /\ pc'[c] = pc[c] \/ pc[c] \in Inside \cup {"gate"}
                             /\ report'[c] = NoReport \/ (report'[c] = report[c] /\ pc'[c] = pc[c])
         /\ known'[p] = {} /\ doomed'[p] = {}
         /\ \A q \in Processes \ {p} : known'[q] = known[q] /\ doomed'[q] = doomed[q]
         /\ UNCHANGED <<rows, session, artifacts, files, answer, launched>>
<1>0. BootOK /\ LocalOK /\ ProcessOf \in [Calls -> Processes]
  BY Shapes, CallShape
<1>1. \A q \in Processes \ {p} : life'[q] = life[q] /\ ~Live(q)
  BY <1>0 DEF Exit, OneAlive, BootOK
<1>2. \A c \in Calls : pc[c] \in Inside \cup {"gate"} => ProcessOf[c] = p
  BY <1>0, <1>1 DEF OneAlive, Live
<1>3. \A c \in Calls : /\ pc'[c] \in {"idle", "returned", "dead"}
                       /\ pc'[c] = pc[c] \/ pc[c] \in Inside \cup {"gate"}
  BY <1>0, <1>2 DEF Exit, LocalOK, CallPhases
<1>4. \A c \in Calls : report'[c] = NoReport \/ (report'[c] = report[c] /\ pc'[c] = pc[c])
  BY <1>0 DEF Exit
<1> QED BY <1>0, <1>1, <1>3, <1>4 DEF Exit, BootOK, disk

LEMMA AliveStep == ASSUME Alone, Typed, OneAlive, [Next]_vars PROVE OneAlive'
<1>0. BootOK /\ LocalOK /\ ProcessOf \in [Calls -> Processes]
  BY Shapes, CallShape
<1>1. ASSUME NEW p \in Processes, Start(p) PROVE OneAlive'
  <2>1. life'[p] \in Booting /\ \A q \in Processes \ {p} : life'[q] = life[q] /\ ~Live(q)
    BY <1>0, <1>1 DEF Start, BootOK, Booting
  <2>2. pc' = pc /\ life[p] = "new"
    BY <1>1 DEF Start, local
  <2> QED BY <1>0, <2>1, <2>2 DEF OneAlive, Live, Booting
<1>2. ASSUME NEW p \in Processes, Boot(p) PROVE OneAlive'
  <2>1. \A q \in Processes \ {p} : life'[q] = life[q] /\ ~Live(q)
    BY <1>2, BootShape DEF OneAlive, Live
  <2> QED BY <1>0, <1>2, <2>1, BootShape DEF OneAlive, Live, Booting
<1>3. ASSUME NEW p \in Processes, Exit(p) PROVE OneAlive'
  BY <1>0, <1>3, ExitShape DEF OneAlive, Live, Booting, Inside
<1>4. ASSUME NEW c \in Calls, Request(c) \/ Advance(c) PROVE OneAlive'
  BY <1>0, <1>4, CallFrame DEF OneAlive, Live, boot, Apart
<1>5. CASE UNCHANGED vars
  BY <1>5 DEF vars, boot, local, OneAlive, Live
<1> QED BY <1>1, <1>2, <1>3, <1>4, <1>5 DEF Next

-----------------------------------------------------------------------------
(* Which rows a step writes.                                                 *)

\* A call writes no row, claims one, ends one it has, or fails one it has.
Others(i) == \A j \in Invocations \ {i} : rows'[j] = rows[j]
Claims(c) ==
  /\ pc[c] = "claim" /\ c \in Runs /\ Row(c).state = "absent"
  /\ rows'[TargetOf[c]].state = "running" /\ rows'[TargetOf[c]].evidence = "none"
  /\ Others(TargetOf[c]) /\ UNCHANGED artifacts
  /\ pc'[c] = "launch" \/ answer'[c] = "error"
Ends(c) ==
  /\ pc[c] = "finalize" /\ c \in Runs /\ Active(TargetOf[c])
  /\ rows'[TargetOf[c]].state = report[c].state /\ rows'[TargetOf[c]].evidence = report[c].evidence
  /\ artifacts' = IF report[c].evidence = "filed" THEN artifacts \cup {TargetOf[c]} ELSE artifacts
  /\ Others(TargetOf[c])
Fails(c) ==
  /\ pc[c] = "persist" /\ c \in Runs /\ Active(TargetOf[c])
  /\ rows'[TargetOf[c]].state = "failed" /\ rows'[TargetOf[c]].evidence = "none"
  /\ Others(TargetOf[c]) /\ UNCHANGED artifacts

LEMMA FinalizeEnds ==
  ASSUME Typed, CallInv, NEW c \in Calls, Finalize(c)
  PROVE  Ends(c)
<1>1. DiskOK /\ c \in Runs /\ TargetOf[c] \in Invocations
  BY Shapes, TargetType DEF Finalize, RunsOnly, RunSteps, Inside
<1>2. Active(TargetOf[c])
  BY DEF Finalize, CallInv, CallOK, Working
<1>3. rows[TargetOf[c]] \in Rows
  BY <1>1 DEF DiskOK
<1>4. /\ rows'[TargetOf[c]].state = report[c].state /\ rows'[TargetOf[c]].evidence = report[c].evidence
      /\ Others(TargetOf[c])
  BY <1>1, <1>3 DEF Finalize, Others, DiskOK, Rows
<1> QED BY <1>1, <1>2, <1>4 DEF Finalize, Ends

LEMMA CallRows ==
  ASSUME Typed, CallInv, NEW c \in Calls, Request(c) \/ Advance(c)
  PROVE  UNCHANGED <<rows, artifacts>> \/ Claims(c) \/ Ends(c) \/ Fails(c)
<1>0. LocalOK /\ DiskOK
  BY Shapes
<1>r. pc[c] \in RunSteps => c \in Runs /\ TargetOf[c] \in Invocations
  BY TargetType, Shapes DEF RunsOnly
<1>1. CASE Claim(c)
  <2>1. c \in Runs /\ TargetOf[c] \in Invocations
    BY <1>1, <1>r DEF Claim, RunSteps, Inside
  <2>2. pc'[c] = "launch" \/ answer'[c] = "error"
    BY <1>0, <1>1 DEF Claim, Goto, Return, LocalOK
  <2> QED BY <1>0, <1>1, <2>1, <2>2 DEF Claim, Claims, Others, Row, Unclaimed, DiskOK
<1>2. CASE Finalize(c)
  BY <1>2, FinalizeEnds
<1>3. CASE Persist(c) \/ NotPersisted(c)
  <2>1. c \in Runs /\ TargetOf[c] \in Invocations /\ pc[c] = "persist" /\ UNCHANGED artifacts
    BY <1>3, <1>r DEF Persist, NotPersisted, RunSteps, Inside
  <2>2. rows' = rows \/ (Active(TargetOf[c]) /\ rows' = Unfinished(TargetOf[c], "failed"))
    BY <1>3 DEF Persist, NotPersisted, Failure
  <2>3. CASE rows' = Unfinished(TargetOf[c], "failed") /\ Active(TargetOf[c])
    BY <1>0, <2>1, <2>3, UnfinishedRow DEF Fails, Others, Ended
  <2> QED BY <2>1, <2>2, <2>3
<1>4. CASE ~Claim(c) /\ ~Finalize(c) /\ ~Persist(c) /\ ~NotPersisted(c)
  BY <1>4 DEF Advance, Request, Gate, Begin, Lookup, Claimed, GiveUp, Launch, NotLaunched,
              Finish, WriteFile, RenameFile, NoFile, NotFinalized, Discard, SaveEdit, disk
<1> QED BY <1>1, <1>2, <1>3, <1>4

\* The recovery ends one row that is running.
Interrupts(p) ==
  /\ life[p] = "recover" /\ subject[p] \in Invocations /\ Active(subject[p])
  /\ rows'[subject[p]].state = "interrupted" /\ rows'[subject[p]].evidence = "none"
  /\ Others(subject[p])

LEMMA RecoverRows ==
  ASSUME Typed, RecoveryInv, NEW p \in Processes, Recover(p)
  PROVE  Interrupts(p)
<1>1. DiskOK /\ life[p] = "recover" /\ subject[p] \in Invocations
  BY Shapes DEF Recover, SubjectKnown
<1>2. Active(subject[p])
  BY <1>1 DEF RecoveryInv
<1>3. rows' = Unfinished(subject[p], "interrupted")
  BY DEF Recover, Interrupted
<1> QED BY <1>1, <1>2, <1>3, UnfinishedRow DEF Interrupts, Others, Ended

\* A row stays, is claimed, or ends.
Moves(i) ==
  \/ rows'[i] = rows[i]
  \/ rows[i].state = "absent" /\ rows'[i].state = "running"
  \/ Active(i) /\ rows'[i].state \in Ended

LEMMA RowMoves ==
  ASSUME Typed, OneAlive, CallInv, RecoveryInv, [Next]_vars, NEW i \in Invocations
  PROVE  Moves(i)
<1>1. ASSUME NEW p \in Processes, Start(p) \/ Exit(p) PROVE Moves(i)
  BY <1>1 DEF Start, Exit, disk, Moves
<1>2. ASSUME NEW p \in Processes, Boot(p) PROVE Moves(i)
  <2>1. CASE Recover(p)
    BY <2>1, RecoverRows DEF Interrupts, Others, Moves, Ended
  <2> QED BY <1>2, <2>1, BootShape DEF Moves
<1>3. ASSUME NEW c \in Calls, Request(c) \/ Advance(c) PROVE Moves(i)
  <2>1. report[c].state \in Ended
    BY Shapes, ReportsOK DEF LocalOK
  <2> QED BY <1>3, <2>1, CallRows DEF Claims, Ends, Fails, Others, Row, Moves, Ended
<1>4. CASE UNCHANGED vars
  BY <1>4 DEF vars, disk, Moves
<1> QED BY <1>1, <1>2, <1>3, <1>4 DEF Next

LEMMA RowStep ==
  ASSUME Typed, OneAlive, RowInv, CallInv, RecoveryInv, [Next]_vars
  PROVE  RowInv'
<1>0. LocalOK /\ DiskOK
  BY Shapes
<1>1. ASSUME NEW p \in Processes, Start(p) \/ Exit(p) PROVE RowInv'
  BY <1>1 DEF Start, Exit, disk, RowInv
<1>2. ASSUME NEW p \in Processes, Boot(p) PROVE RowInv'
  <2>1. CASE Recover(p)
    BY <1>2, <2>1, RecoverRows, BootShape DEF Interrupts, Others, RowInv, Active
  <2>2. CASE ~Recover(p)
    BY <1>2, <2>2, BootShape DEF RowInv
  <2> QED BY <2>1, <2>2
<1>3. ASSUME NEW c \in Calls, Request(c) \/ Advance(c) PROVE RowInv'
  <2>1. report[c].state \in Ended /\ report[c].evidence \in {"none", "filed"}
    BY <1>0, ReportsOK DEF LocalOK
  <2>2. CASE Claims(c)
    BY <2>2 DEF Claims, Others, RowInv, Row
  <2>3. CASE Ends(c)
    BY <2>1, <2>3, TargetType DEF Ends, Others, RowInv, Active, CallInv, CallOK, Ended
  <2>4. CASE Fails(c)
    BY <2>4 DEF Fails, Others, RowInv, Active
  <2> QED BY <1>3, <2>2, <2>3, <2>4, CallRows DEF RowInv
<1>4. CASE UNCHANGED vars
  BY <1>4 DEF vars, disk, RowInv
<1> QED BY <1>1, <1>2, <1>3, <1>4 DEF Next
-----------------------------------------------------------------------------
(* What a call knows of its row and its file.                                *)

\* What holds of a call while it does not move: its row is changed by none but its owner.
LEMMA CallStays ==
  ASSUME Typed, OwnerInv, CallInv, NEW d \in Calls,
         \A i \in Invocations : Moves(i),
         pc'[d] = pc[d], report'[d] = report[d], answer'[d] = answer[d],
         pc[d] \in Working => rows'[TargetOf[d]] = rows[TargetOf[d]]
  PROVE  CallOK(d)'
<1>1. pc[d] = "discard" => TargetOf[d] \in Invocations
  BY TargetType, Shapes DEF RunsOnly, RunSteps, Inside
<1>2. pc[d] = "discard" => rows'[TargetOf[d]] = rows[TargetOf[d]]
  BY <1>1 DEF CallInv, CallOK, Moves, Row, Active, Ended
<1>3. CallOK(d)
  BY DEF CallInv
<1> QED BY <1>2, <1>3 DEF CallOK, Row, Active

LEMMA OwnRow ==
  ASSUME Typed, OwnerInv, NEW c \in Calls, Claims(c) \/ Ends(c) \/ Fails(c),
         NEW d \in Calls \ {c}, pc[d] \in Working
  PROVE  rows'[TargetOf[d]] = rows[TargetOf[d]]
<1>1. d \in Runs /\ TargetOf[d] \in Invocations /\ Row(d).state # "absent" /\ Owner(d)
  BY TargetType DEF OwnerInv, Owner, Owning, Working
<1>2. TargetOf[c] # TargetOf[d]
  <2>1. CASE Claims(c)
    BY <1>1, <2>1 DEF Claims, Row
  <2>2. CASE Ends(c) \/ Fails(c)
    BY <1>1, <2>2 DEF Ends, Fails, Owner, Owning, OwnerInv
  <2> QED BY <2>1, <2>2
<1> QED BY <1>1, <1>2 DEF Claims, Ends, Fails, Others

\* The step of a call keeps what holds of that call.
LEMMA CallOwnStep ==
  ASSUME Typed, OwnerInv, CallInv, NEW c \in Calls, Request(c) \/ Advance(c)
  PROVE  CallOK(c)'
<1> USE DEF LocalOK
<1>0. LocalOK /\ DiskOK /\ CallOK(c)
  BY Shapes DEF CallInv
<1>r. pc[c] \in RunSteps => c \in Runs /\ TargetOf[c] \in Invocations
  BY TargetType, Shapes DEF RunsOnly
<1>n. NoReport.evidence = "none"
  BY DEF NoReport
<1>x. \A reply : Return(c, reply) => CallOK(c)'
  BY <1>0, <1>n DEF Return, CallOK, Working
<1>1. CASE Request(c) \/ Lookup(c) \/ Claimed(c) \/ GiveUp(c) \/ Gate(c)
  BY <1>0, <1>1, <1>x DEF Request, Gate, Lookup, Claimed, GiveUp, Goto, CallOK, Working
<1>2. CASE Begin(c)
  BY <1>0, <1>2 DEF Begin, Goto, CallOK, Working
<1>3. CASE Claim(c)
  <2>1. rows'[TargetOf[c]].state = "running"
    BY <1>0, <1>r, <1>3 DEF Claim, RunSteps, Inside, DiskOK
  <2> QED BY <1>0, <1>3, <1>x, <2>1 DEF Claim, Goto, CallOK, Working, Active
<1>4. CASE Launch(c) \/ NotLaunched(c) \/ WriteFile(c) \/ NotFinalized(c)
  BY <1>0, <1>4 DEF Launch, NotLaunched, WriteFile, NotFinalized, Goto, CallOK, Working, Active, disk
<1>5. CASE Finish(c)
  BY <1>0, <1>5 DEF Finish, Goto, CallOK, Working, Active, disk, Reports
<1>6. CASE RenameFile(c) \/ NoFile(c)
  BY <1>0, <1>6 DEF RenameFile, NoFile, Unfiled, NoReport, Goto, CallOK, Working, Active, Reports
<1>7. CASE Finalize(c)
  BY <1>0, <1>7, <1>x DEF Finalize, Goto, CallOK, Working
<1>8. CASE Persist(c)
  <2>1. c \in Runs /\ TargetOf[c] \in Invocations
    BY <1>8, <1>r DEF Persist, RunSteps, Inside
  <2>2. rows[TargetOf[c]].state \in {"running"} \cup Ended
    BY <1>0, <1>8, <2>1 DEF Persist, OwnerInv, Owner, Owning, Row, DiskOK, Rows
  <2>3. rows'[TargetOf[c]].state \in Ended
    BY <1>0, <1>8, <2>1, <2>2, UnfinishedRow DEF Persist, Failure, Active, Ended
  <2> QED BY <1>0, <1>8, <1>x, <2>1, <2>3 DEF Persist, Superfluous, Goto, CallOK, Working, Row
<1>9. CASE NotPersisted(c)
  BY <1>0, <1>9, <1>x DEF NotPersisted, CallOK, Working
<1>10. CASE Discard(c) \/ SaveEdit(c)
  BY <1>10, <1>x DEF Discard, SaveEdit
<1> QED BY <1>1, <1>2, <1>3, <1>4, <1>5, <1>6, <1>7, <1>8, <1>9, <1>10 DEF Advance

LEMMA CallStep ==
  ASSUME Typed, OwnerInv, OneAlive, RowInv, CallInv, RecoveryInv, [Next]_vars
  PROVE  CallInv'
<1>0. \A i \in Invocations : Moves(i)
  BY RowMoves
<1>1. ASSUME NEW p \in Processes, Start(p) \/ Boot(p) PROVE CallInv'
  <2>1. UNCHANGED <<pc, report, answer>>
    BY <1>1, BootShape DEF Start, local
  <2>2. Recover(p) => \A d \in Calls : pc[d] \notin Working
    BY CallShape DEF OneAlive, Recover, Live, Booting, Working, Inside
  <2>3. ~Recover(p) => UNCHANGED rows
    BY <1>1, BootShape DEF Start, disk
  <2> QED BY <1>0, <2>1, <2>2, <2>3, CallStays DEF CallInv
<1>2. ASSUME NEW p \in Processes, Exit(p) PROVE CallInv'
  BY <1>2, ExitShape DEF CallInv, CallOK, NoReport, Working, Inside, Row, Active
<1>3. ASSUME NEW c \in Calls, Request(c) \/ Advance(c) PROVE CallInv'
  <2>1. ASSUME NEW d \in Calls \ {c} PROVE CallOK(d)'
    <3>1. pc'[d] = pc[d] /\ report'[d] = report[d] /\ answer'[d] = answer[d]
      BY <1>3, CallFrame DEF Apart
    <3>2. pc[d] \in Working => rows'[TargetOf[d]] = rows[TargetOf[d]]
      BY <1>3, CallRows, OwnRow
    <3> QED BY <1>0, <3>1, <3>2, CallStays
  <2> QED BY <1>3, <2>1, CallOwnStep DEF CallInv
<1>4. CASE UNCHANGED vars
  BY <1>4 DEF vars, disk, local, CallInv, CallOK, Row, Active
<1> QED BY <1>1, <1>2, <1>3, <1>4 DEF Next
-----------------------------------------------------------------------------
(* The directory and the sweep.                                              *)

\* While a call acts no start is under way.
LEMMA Quiet ==
  ASSUME Typed, OneAlive, NEW c \in Calls, life[ProcessOf[c]] = "up"
  PROVE  \A p \in Processes : life[p] \notin Booting
BY CallShape DEF OneAlive, Live, Booting

LEMMA FileStep ==
  ASSUME Typed, OwnerInv, OneAlive, RowInv, CallInv, FileInv, SweepInv, [Next]_vars
  PROVE  FileInv'
<1>0. LocalOK
  BY Shapes
<1>1. ASSUME NEW p \in Processes, Start(p) \/ Boot(p) PROVE FileInv'
  <2>1. UNCHANGED <<artifacts, pc, report>>
    BY <1>1, BootShape DEF Start, disk, local
  <2>2. CASE Sweep(p)
    <3>1. PICK f \in doomed[p] : files' = files \ {f}
      BY <2>2 DEF Sweep
    <3>2. \A c \in Calls : pc[c] # "finalize"
      BY <2>2, CallShape DEF OneAlive, Sweep, Live, Booting, Inside
    <3> QED BY <2>1, <3>1, <3>2 DEF FileInv, SweepInv
  <2>3. CASE ~Sweep(p)
    <3>1. UNCHANGED files
      BY <1>1, <2>3 DEF Boot, Start, ListArtifacts, ListInvocations, ReadDirectory, EndSweep,
                        ListActive, ReadSession, Recover, Serve, disk
    <3> QED BY <2>1, <3>1 DEF FileInv, Evidence
  <2> QED BY <2>2, <2>3
<1>2. ASSUME NEW p \in Processes, Exit(p) PROVE FileInv'
  BY <1>2, ExitShape DEF FileInv
<1>3. ASSUME NEW c \in Calls, Request(c) \/ Advance(c) PROVE FileInv'
  <2>0. \A d \in Calls \ {c} : pc'[d] = pc[d] /\ report'[d] = report[d]
    BY <1>3, CallFrame DEF Apart
  <2>1. CASE WriteFile(c) \/ NoFile(c) \/ RenameFile(c)
    <3>1. UNCHANGED artifacts /\ files \ {Temporary(c)} \subseteq files'
      BY <2>1 DEF WriteFile, NoFile, RenameFile
    <3>2. pc'[c] = "finalize" /\ report'[c].evidence = "filed" => Evidence(c) \in files'
      BY <1>0, <2>1 DEF WriteFile, NoFile, RenameFile, Goto, LocalOK, Unfiled, NoReport
    <3>3. \A d \in Calls : Evidence(d) # Temporary(c)
      BY DEF Evidence, Temporary
    <3>4. \A i \in Invocations : <<i, "evidence">> # Temporary(c)
      BY DEF Temporary
    <3>5. artifacts \subseteq Invocations
      BY Shapes DEF DiskOK
    <3> QED BY <2>0, <3>1, <3>2, <3>3, <3>4, <3>5 DEF FileInv, Evidence
  <2>2. CASE Discard(c)
    <3>1. UNCHANGED artifacts /\ files' = files \ {Evidence(c)} /\ pc'[c] # "finalize"
      BY <1>0, <2>2 DEF Discard, Return, LocalOK
    <3>2. c \in Runs /\ TargetOf[c] \in Invocations
      BY <2>2, Shapes, TargetType DEF Discard, RunsOnly, RunSteps, Inside
    <3>3. TargetOf[c] \notin artifacts
      BY <2>2, <3>2 DEF Discard, CallInv, CallOK, RowInv, Row
    <3>4. \A d \in Calls \ {c} : pc[d] = "finalize" => TargetOf[d] # TargetOf[c]
      BY <2>2 DEF Discard, OwnerInv, Owner, Owning
    <3> QED BY <2>0, <3>1, <3>3, <3>4 DEF FileInv, Evidence
  <2>3. CASE Finalize(c)
    <3>1. UNCHANGED files /\ pc'[c] # "finalize"
      BY <1>0, <2>3 DEF Finalize, Return, Goto, LocalOK
    <3>2. \A i \in artifacts' : i \in artifacts \/ (i = TargetOf[c] /\ report[c].evidence = "filed")
      BY <2>3 DEF Finalize
    <3> QED BY <2>0, <2>3, <3>1, <3>2 DEF FileInv, Evidence, Finalize
  <2>4. CASE ~WriteFile(c) /\ ~NoFile(c) /\ ~RenameFile(c) /\ ~Discard(c) /\ ~Finalize(c)
    <3>1. UNCHANGED <<artifacts, files>>
      BY <1>3, <2>4 DEF Advance, Request, Gate, Begin, Lookup, Claim, Claimed, GiveUp, Launch, NotLaunched,
                Finish, NotFinalized, Persist, NotPersisted, SaveEdit, disk
    <3>2. pc'[c] # "finalize"
      BY <1>0, <1>3, <2>4 DEF Advance, Request, Gate, Begin, Lookup, Claim, Claimed, GiveUp, Launch,
                NotLaunched, Finish, NotFinalized, Persist, NotPersisted, SaveEdit, Goto, Return, LocalOK
    <3> QED BY <2>0, <3>1, <3>2 DEF FileInv, Evidence
  <2> QED BY <2>1, <2>2, <2>3, <2>4
<1>4. CASE UNCHANGED vars
  BY <1>4 DEF vars, disk, local, FileInv, Evidence
<1> QED BY <1>1, <1>2, <1>3, <1>4 DEF Next

LEMMA SweepStep ==
  ASSUME Typed, OneAlive, CallInv, SweepInv, [Next]_vars
  PROVE  SweepInv'
<1>0. BootOK
  BY Shapes
<1>1. ASSUME NEW p \in Processes, Start(p) PROVE SweepInv'
  BY <1>0, <1>1 DEF Start, SweepInv, BootOK, disk
<1>2. ASSUME NEW p \in Processes, Boot(p) PROVE SweepInv'
  <2>1. UNCHANGED artifacts
    BY <1>2, BootShape
  <2>2. CASE ListArtifacts(p)
    BY <1>0, <2>1, <2>2 DEF ListArtifacts, SweepInv, BootOK
  <2>3. CASE ListInvocations(p)
    BY <1>0, <2>1, <2>3 DEF ListInvocations, SweepInv, BootOK
  <2>4. CASE ReadDirectory(p)
    BY <1>0, <2>1, <2>4 DEF ReadDirectory, SweepInv, BootOK, Referenced
  <2>5. CASE Sweep(p)
    BY <1>0, <2>1, <2>5 DEF Sweep, SweepInv, BootOK
  <2>6. CASE EndSweep(p) \/ ListActive(p) \/ Serve(p)
    BY <1>0, <2>1, <2>6 DEF EndSweep, ListActive, Serve, SweepInv, BootOK
  <2>7. CASE ReadSession(p)
    BY <1>0, <2>1, <2>7 DEF ReadSession, SweepInv, BootOK
  <2>8. CASE Recover(p)
    <3>1. PICK next \in {"next", "gone"} :
            /\ life' = [life EXCEPT ![p] = next]
            /\ known' = [known EXCEPT ![p] = IF next = "gone" THEN {} ELSE @]
      BY <2>8 DEF Recover
    <3>2. UNCHANGED doomed /\ life[p] = "recover"
      BY <2>8 DEF Recover
    <3> QED BY <1>0, <2>1, <3>1, <3>2 DEF SweepInv, BootOK
  <2> QED BY <1>2, <2>2, <2>3, <2>4, <2>5, <2>6, <2>7, <2>8 DEF Boot
<1>3. ASSUME NEW p \in Processes, Exit(p) PROVE SweepInv'
  BY <1>3, ExitShape DEF SweepInv
<1>4. ASSUME NEW c \in Calls, Request(c) \/ Advance(c) PROVE SweepInv'
  <2>1. UNCHANGED boot /\ \A p \in Processes : life[p] \notin Booting
    BY <1>4, CallFrame, Quiet
  <2> QED BY <2>1 DEF SweepInv, boot, Booting
<1>5. CASE UNCHANGED vars
  BY <1>5 DEF vars, disk, boot, SweepInv
<1> QED BY <1>1, <1>2, <1>3, <1>4, <1>5 DEF Next

-----------------------------------------------------------------------------
(* The recovery, and who works on a running row.                             *)

LEMMA RecoveryStep ==
  ASSUME Typed, OneAlive, RecoveryInv, [Next]_vars
  PROVE  RecoveryInv'
<1>0. BootOK
  BY Shapes
<1>1. ASSUME NEW p \in Processes, Start(p) PROVE RecoveryInv'
  BY <1>0, <1>1 DEF Start, RecoveryInv, BootOK, disk, Active
<1>2. ASSUME NEW p \in Processes, Boot(p) PROVE RecoveryInv'
  <2>1. \A q \in Processes \ {p} : life'[q] = life[q] /\ life[q] \notin Booting
    BY <1>2, BootShape DEF OneAlive, Live
  <2>2. CASE Recover(p)
    <3>1. PICK next \in {"next", "gone"} :
            /\ life' = [life EXCEPT ![p] = next]
            /\ known' = [known EXCEPT ![p] = IF next = "gone" THEN {} ELSE @]
      BY <2>2 DEF Recover
    <3>2. Interrupts(p)
      BY <2>2, RecoverRows
    <3>3. {i \in Invocations : Active(i)} \ {subject[p]} = {i \in Invocations : Active(i)'}
      BY <3>2 DEF Interrupts, Others, Active
    <3>4. known[p] = {i \in Invocations : Active(i)} \ {subject[p]}
      BY <1>0, <3>2 DEF Interrupts, RecoveryInv, BootOK
    <3>5. life'[p] = "next" => known'[p] = {i \in Invocations : Active(i)'}
      BY <1>0, <3>1, <3>3, <3>4 DEF BootOK
    <3> QED BY <1>0, <2>1, <3>1, <3>5 DEF RecoveryInv, BootOK, Booting, Active
  <2>3. CASE ListActive(p)
    BY <1>0, <2>1, <2>3 DEF ListActive, RecoveryInv, BootOK, Recoverable, Active, disk, Booting
  <2>4. CASE ReadSession(p)
    BY <1>0, <2>1, <2>4 DEF ReadSession, RecoveryInv, BootOK, Active, disk, Booting
  <2>5. CASE ~Recover(p) /\ ~ListActive(p) /\ ~ReadSession(p)
    <3>1. life'[p] \notin {"next", "recover"}
      BY <1>0, <1>2, <2>5 DEF Boot, ListArtifacts, ListInvocations, ReadDirectory, Sweep, EndSweep,
                              Serve, BootOK
    <3> QED BY <2>1, <3>1 DEF RecoveryInv, Booting
  <2> QED BY <2>2, <2>3, <2>4, <2>5
<1>3. ASSUME NEW p \in Processes, Exit(p) PROVE RecoveryInv'
  BY <1>3, ExitShape DEF RecoveryInv, Live, Booting
<1>4. ASSUME NEW c \in Calls, Request(c) \/ Advance(c) PROVE RecoveryInv'
  <2>1. UNCHANGED boot /\ \A p \in Processes : life[p] \notin Booting
    BY <1>4, CallFrame, Quiet
  <2> QED BY <2>1 DEF RecoveryInv, boot, Booting
<1>5. CASE UNCHANGED vars
  BY <1>5 DEF vars, disk, boot, RecoveryInv, Active
<1> QED BY <1>1, <1>2, <1>3, <1>4, <1>5 DEF Next
\* A call that owns a running row owns it still, or has failed to say how it ended.
LEMMA OwnerMoves ==
  ASSUME Typed, NEW c \in Calls, Request(c) \/ Advance(c), pc[c] \in Owning
  PROVE  pc'[c] \in Owning \/ answer'[c] = "error" \/ rows'[TargetOf[c]].state # "running"
<1> USE DEF LocalOK, Owning
<1>0. LocalOK /\ DiskOK /\ TargetOf[c] \in Invocations
  BY Shapes, TargetType DEF RunsOnly, RunSteps, Inside
<1>1. CASE Launch(c) \/ NotLaunched(c) \/ Finish(c) \/ WriteFile(c) \/ RenameFile(c) \/ NoFile(c)
           \/ NotFinalized(c)
  BY <1>0, <1>1 DEF Launch, NotLaunched, Finish, WriteFile, RenameFile, NoFile, NotFinalized, Goto
<1>2. CASE Finalize(c)
  <2>1. report[c].state # "running"
    BY <1>0, ReportsOK DEF Ended
  <2>2. rows'[TargetOf[c]].state = report[c].state
    BY <1>0, <1>2 DEF Finalize, DiskOK, Rows
  <2> QED BY <2>1, <2>2
<1>3. CASE Persist(c)
  <2>1. CASE Active(TargetOf[c])
    BY <1>0, <1>3, <2>1, UnfinishedRow DEF Persist, Failure, Ended
  <2>2. CASE ~Active(TargetOf[c])
    BY <1>3, <2>2 DEF Persist, Failure, Active
  <2> QED BY <2>1, <2>2
<1>4. CASE NotPersisted(c)
  BY <1>0, <1>4 DEF NotPersisted, Return
<1>5. CASE Request(c) \/ Gate(c) \/ Begin(c) \/ Lookup(c) \/ Claim(c) \/ Claimed(c) \/ GiveUp(c)
           \/ Discard(c) \/ SaveEdit(c)
  BY <1>5 DEF Request, Gate, Begin, Lookup, Claim, Claimed, GiveUp, Discard, SaveEdit
<1> QED BY <1>1, <1>2, <1>3, <1>4, <1>5 DEF Advance

LEMMA RunnerStep ==
  ASSUME Alone, Typed, OneAlive, CallInv, RecoveryInv, RunningHasRunner, [Next]_vars
  PROVE  RunningHasRunner'
<1>0. BootOK /\ LocalOK
  BY Shapes
<1> DEFINE Runner(c, i) == TargetOf[c] = i /\ (pc[c] \in Owning \/ answer[c] = "error")
<1>1. ASSUME NEW p \in Processes, Start(p) PROVE RunningHasRunner'
  <2>1. \A q \in Processes : life'[q] # "up"
    BY <1>0, <1>1 DEF Start, BootOK, Live
  <2> QED BY <2>1 DEF RunningHasRunner
<1>2. ASSUME NEW p \in Processes, Boot(p) PROVE RunningHasRunner'
  <2>1. \A q \in Processes \ {p} : life'[q] # "up"
    BY <1>2, BootShape DEF OneAlive, Live
  <2>2. CASE Serve(p)
    <3>1. \A i \in Invocations : ~Active(i)
      BY <2>2 DEF Serve, RecoveryInv
    <3>2. UNCHANGED rows
      BY <2>2 DEF Serve, disk
    <3> QED BY <3>1, <3>2 DEF RunningHasRunner, Active
  <2>3. CASE ~Serve(p)
    <3>1. life'[p] # "up"
      BY <1>0, <1>2, <2>3 DEF Boot, ListArtifacts, ListInvocations, ReadDirectory, Sweep, EndSweep,
                              ListActive, ReadSession, Recover, BootOK, Booting
    <3> QED BY <2>1, <3>1 DEF RunningHasRunner
  <2> QED BY <2>2, <2>3
<1>3. ASSUME NEW p \in Processes, Exit(p) PROVE RunningHasRunner'
  <2>1. \A q \in Processes : life'[q] # "up"
    BY <1>3, ExitShape DEF Live
  <2> QED BY <2>1 DEF RunningHasRunner
<1>4. ASSUME NEW c \in Calls, Request(c) \/ Advance(c) PROVE RunningHasRunner'
  <2>1. life' = life /\ (\A d \in Calls \ {c} : pc'[d] = pc[d] /\ answer'[d] = answer[d])
    BY <1>4, CallFrame DEF boot, Apart
  <2>2. ASSUME NEW i \in Invocations, Active(i)', \E p \in Processes : life[p] = "up"
        PROVE  \E d \in Runs : TargetOf[d] = i /\ (pc'[d] \in Owning \/ answer'[d] = "error")
    <3>1. CASE Active(i)
      <4>1. PICK d \in Runs : Runner(d, i)
        BY <2>2, <3>1 DEF RunningHasRunner
      <4>2. answer[c] # "error" /\ c \in Calls
        BY <1>4 DEF CallInv, CallOK, Advance, Request, Gate, Begin, Lookup, Claim, Claimed, GiveUp,
             Launch, NotLaunched, Finish, WriteFile, RenameFile, NoFile, Finalize, NotFinalized,
             Persist, NotPersisted, Discard, SaveEdit
      <4>3. CASE d = c
        BY <1>4, <2>2, <4>1, <4>2, <4>3, OwnerMoves DEF Active
      <4>4. CASE d # c
        BY <2>1, <4>1, <4>4 DEF Runs
      <4> QED BY <4>3, <4>4
    <3>2. CASE ~Active(i)
      <4>1. Claims(c) /\ TargetOf[c] = i
        <5>1. report[c].state # "running"
          BY <1>0, ReportsOK DEF LocalOK, Ended
        <5> QED BY <1>4, <2>2, <3>2, <5>1, CallRows DEF Claims, Ends, Fails, Others, Active
      <4> QED BY <4>1 DEF Claims, Owning
    <3> QED BY <3>1, <3>2
  <2> QED BY <2>1, <2>2 DEF RunningHasRunner, Active
<1>5. CASE UNCHANGED vars
  BY <1>5 DEF vars, disk, boot, local, RunningHasRunner, Active
<1> QED BY <1>1, <1>2, <1>3, <1>4, <1>5 DEF Next

-----------------------------------------------------------------------------
(* Retries and the Resume Brief.                                             *)

LEMMA ParentStep ==
  ASSUME Typed, OneAlive, CallInv, RecoveryInv, ParentInv, [Next]_vars
  PROVE  ParentInv'
<1>1. ASSUME NEW i \in Invocations, rows[i].state \in Ended PROVE rows'[i].state \in Ended
  BY <1>1, RowMoves DEF Moves, Active, Ended
<1>2. ASSUME NEW d \in Retries, pc'[d] \in Inside PROVE rows[Parent(d)].state \in Ended
  <2>1. CASE pc[d] \in Inside
    BY <2>1 DEF ParentInv
  <2>2. CASE pc[d] \notin Inside
    <3>1. CASE pc'[d] = pc[d]
      BY <1>2, <2>2, <3>1
    <3>2. CASE pc'[d] # pc[d]
      <4>1. Request(d) \/ Advance(d)
        <5>1. \A p \in Processes : ~Start(p) /\ ~Boot(p)
          BY <3>2, BootShape DEF Start, local
        <5>2. \A p \in Processes : ~Exit(p)
          BY <1>2, ExitShape DEF Retries, Runs, Inside
        <5>3. \A c \in Calls : (Request(c) \/ Advance(c)) => c = d
          BY <3>2, CallFrame DEF Apart, Retries, Runs
        <5> QED BY <3>2, <5>1, <5>2, <5>3 DEF Next, vars, local
      <4>2. d \in Calls /\ LocalOK
        BY Shapes DEF Retries, Runs
      <4>3. CASE Request(d)
        BY <1>2, <4>2, <4>3 DEF Request, Goto, LocalOK, Inside
      <4>4. CASE Gate(d)
        BY <1>2, <4>2, <4>4 DEF Gate, Retryable, Return, LocalOK, Inside, Ended
      <4>5. CASE GiveUp(d)
        BY <1>2, <4>2, <4>5 DEF GiveUp, Return, LocalOK, Inside
      <4>6. CASE Advance(d) /\ ~Gate(d) /\ ~GiveUp(d)
        BY <2>2, <4>6 DEF Advance, Begin, Lookup, Claim, Claimed, Launch, NotLaunched, Finish,
             WriteFile, RenameFile, NoFile, Finalize, NotFinalized, Persist, NotPersisted, Discard,
             SaveEdit, Inside
      <4> QED BY <4>1, <4>3, <4>4, <4>5, <4>6
    <3> QED BY <3>1, <3>2
  <2> QED BY <2>1, <2>2
<1> QED BY <1>1, <1>2, ParentType DEF ParentInv, Parent
\* Covers, of a brief in the next state.
CoversNext(brief) == \A i \in Invocations : rows'[i].state = "interrupted" =>
  \/ i \in brief.pending
  \/ \E j \in Invocations : ParentOf[j] = i /\ rows'[j].state \in Ended

LEMMA CoversKept ==
  ASSUME \A i \in Invocations : Moves(i), NEW brief, NEW new, Covers(brief),
         brief.pending \subseteq new.pending,
         \A i \in Invocations : rows'[i].state = "interrupted" =>
                                 rows[i].state = "interrupted" \/ i \in new.pending
  PROVE  CoversNext(new)
<1>1. \A i \in Invocations : rows[i].state \in Ended => rows'[i].state \in Ended
  BY DEF Moves, Active, Ended
<1> QED BY <1>1 DEF Covers, Settled, CoversNext

\* What a run writes back covers every interrupted run: it settles its parent,
\* and the parent of its parent, which its parent has replaced.
LEMMA ClosingCovers ==
  ASSUME Typed, \A i \in Invocations : Moves(i), ParentInv, BriefInv, NEW c \in Calls, Finalize(c),
         Ends(c), \A i \in Invocations : rows'[i].state = "interrupted" => rows[i].state = "interrupted"
  PROVE  CoversNext(Closing(c))
<1>0. TargetOf[c] \in Invocations /\ copy[c] \in Briefs
  BY TargetType, Shapes DEF Ends
<1>1. \A i \in Invocations : rows[i].state \in Ended => rows'[i].state \in Ended
  BY DEF Moves, Active, Ended
<1>2. Covers(copy[c])
  BY DEF Ends, BriefInv, Inside
<1>3. CASE c \notin Retries
  <2>1. Closing(c).pending = copy[c].pending
    BY <1>0, <1>3 DEF Closing, Briefs
  <2> QED BY <1>1, <1>2, <2>1 DEF Covers, Settled, CoversNext
<1>4. CASE c \in Retries
  <2>1. copy[c].pending \ {Parent(c), ParentOf[Parent(c)]} \subseteq Closing(c).pending
    BY <1>0, <1>4 DEF Closing, Reconciled, Briefs
  <2>2. rows'[TargetOf[c]].state \in Ended
    BY Shapes, ReportsOK DEF Ends, LocalOK
  <2>3. rows'[Parent(c)].state \in Ended /\ Parent(c) \in Invocations
    BY <1>1, <1>4, ParentType DEF ParentInv, Ends, Inside
  <2> QED BY <1>0, <1>1, <1>2, <2>1, <2>2, <2>3 DEF Covers, Settled, CoversNext, Parent
<1> QED BY <1>3, <1>4

LEMMA BriefStep ==
  ASSUME Typed, OneAlive, CallInv, RecoveryInv, ParentInv, BriefInv, [Next]_vars
  PROVE  BriefInv'
<1>0. BootOK /\ LocalOK /\ copy \in [Processes \cup Calls -> Briefs] /\ Processes \cap Calls = {}
  BY Shapes, CallShape
<1>m. \A i \in Invocations : Moves(i)
  BY RowMoves
<1>1. ASSUME NEW p \in Processes, Start(p) PROVE BriefInv'
  BY <1>0, <1>1 DEF Start, BriefInv, Covers, Settled, BootOK, disk, local
<1>2. ASSUME NEW p \in Processes, Boot(p) PROVE BriefInv'
  <2>1. \A q \in Processes \ {p} : life'[q] = life[q] /\ life[q] \notin Booting
    BY <1>2, BootShape DEF OneAlive, Live
  <2>2. \A c \in Calls : pc'[c] \notin Inside
    BY <1>2, BootShape, CallShape DEF OneAlive, Live, Booting
  <2>3. CASE Recover(p)
    <3>1. life'[p] # "recover"
      <4>1. PICK next \in {"next", "gone"} : life' = [life EXCEPT ![p] = next]
        BY <2>3 DEF Recover
      <4> QED BY <1>0, <4>1 DEF BootOK
    <3>2. Interrupts(p)
      BY <2>3, RecoverRows
    <3>3. Covers(copy[p])
      BY <2>3 DEF BriefInv, Recover
    <3>4. session'.pending = copy[p].pending \cup {subject[p]}
      BY <1>0, <2>3 DEF Recover, Interrupted, Briefs
    <3>5. CoversNext(session')
      BY <1>m, <3>2, <3>3, <3>4, CoversKept DEF Interrupts, Others
    <3> QED BY <2>1, <2>2, <3>1, <3>5 DEF BriefInv, Covers, Settled, CoversNext, Booting
  <2>4. CASE ReadSession(p)
    BY <1>0, <2>1, <2>2, <2>4 DEF ReadSession, BriefInv, Covers, Settled, disk, Booting
  <2>5. CASE ~Recover(p) /\ ~ReadSession(p)
    <3>1. life'[p] # "recover" /\ UNCHANGED <<rows, session>>
      BY <1>0, <1>2, <2>5 DEF Boot, ListArtifacts, ListInvocations, ReadDirectory, Sweep, EndSweep,
                              ListActive, Serve, BootOK, disk
    <3> QED BY <2>1, <2>2, <3>1 DEF BriefInv, Covers, Settled, Booting
  <2> QED BY <2>3, <2>4, <2>5
<1>3. ASSUME NEW p \in Processes, Exit(p) PROVE BriefInv'
  <2>1. /\ \A q \in Processes : life'[q] # "recover"
        /\ \A c \in Calls : pc'[c] \notin Inside /\ UNCHANGED <<rows, session>>
    BY <1>3, ExitShape DEF Live, Booting, Inside
  <2>2. UNCHANGED <<rows, session>>
    BY <1>3, ExitShape
  <2> QED BY <2>1, <2>2 DEF BriefInv, Covers, Settled
<1>4. ASSUME NEW c \in Calls, Request(c) \/ Advance(c) PROVE BriefInv'
  <2>1. /\ \A p \in Processes : life'[p] # "recover"
        /\ \A d \in Calls \ {c} : pc'[d] = pc[d] /\ copy'[d] = copy[d]
    BY <1>4, CallFrame, Quiet DEF Apart, boot, Booting
  <2>2. \A i \in Invocations : rows'[i].state = "interrupted" => rows[i].state = "interrupted"
    <3>1. report[c].state # "interrupted"
      BY <1>0, CallShape DEF LocalOK, Reports, Ended
    <3> QED BY <1>4, <3>1, CallRows DEF Claims, Ends, Fails, Others
  <2>3. \A brief : Covers(brief) => CoversNext(brief)
    BY <1>m, <2>2, CoversKept
  <2>4. CoversNext(session')
    <3>1. CASE Finalize(c)
      <4>1. Ends(c)
        BY <3>1, FinalizeEnds
      <4> QED BY <1>m, <2>2, <3>1, <4>1, ClosingCovers DEF Finalize
    <3>2. CASE SaveEdit(c)
      BY <2>3, <3>2 DEF SaveEdit, BriefInv, Inside
    <3>3. CASE ~Finalize(c) /\ ~SaveEdit(c)
      <4>1. UNCHANGED session
        BY <1>4, <3>3 DEF Advance, Request, Gate, Begin, Lookup, Claim, Claimed, GiveUp, Launch, NotLaunched,
             Finish, WriteFile, RenameFile, NoFile, NotFinalized, Persist, NotPersisted, Discard, disk
      <4> QED BY <2>3, <4>1 DEF BriefInv
    <3> QED BY <3>1, <3>2, <3>3
  <2>5. pc'[c] \in Inside \ {"begin"} => CoversNext(copy'[c])
    <3>1. CASE Begin(c)
      BY <1>0, <2>3, <3>1 DEF Begin, BriefInv
    <3>2. CASE ~Begin(c)
      <4>1. pc'[c] \in Inside \ {"begin"} => copy'[c] = copy[c] /\ pc[c] \in Inside \ {"begin"}
        BY <1>0, <1>4, <3>2 DEF Advance, Request, Gate, Lookup, Claim, Claimed, GiveUp, Launch,
             NotLaunched, Finish, WriteFile, RenameFile, NoFile, Finalize, NotFinalized, Persist,
             NotPersisted, Discard, SaveEdit, Return, Goto, LocalOK, Inside
      <4> QED BY <2>3, <4>1 DEF BriefInv
    <3> QED BY <3>1, <3>2
  <2> QED BY <2>1, <2>3, <2>4, <2>5 DEF BriefInv, Covers, Settled, CoversNext
<1>5. CASE UNCHANGED vars
  BY <1>5 DEF vars, disk, boot, local, BriefInv, Covers, Settled
<1> QED BY <1>1, <1>2, <1>3, <1>4, <1>5 DEF Next
-----------------------------------------------------------------------------
(* The theorems.                                                             *)

LEMMA RestartInit == Init => Restart
<1> SUFFICES ASSUME Init PROVE Restart
  OBVIOUS
<1>1. Typed /\ OwnerInv
  BY TypedInit, OwnerInit
<1>2. OneAlive /\ SweepInv /\ RecoveryInv /\ ParentInv /\ RunningHasRunner
  BY CallShape DEF Init, OneAlive, Live, Booting, Inside, SweepInv, RecoveryInv, ParentInv,
                   RunningHasRunner, NoRow, Active, Retries, Runs
<1>3. RowInv /\ CallInv /\ FileInv
  BY DEF Init, RowInv, CallInv, CallOK, FileInv, NoRow, NoReport, Working
<1>4. BriefInv
  BY DEF Init, BriefInv, Covers, Settled, NoRow, Inside
<1> QED BY <1>1, <1>2, <1>3, <1>4 DEF Restart

LEMMA RestartStep == ASSUME Alone PROVE Restart /\ [Next]_vars => Restart'
<1> SUFFICES ASSUME Restart, [Next]_vars PROVE Restart'
  OBVIOUS
<1>1. Typed' /\ OwnerInv'
  BY TypedStep, OwnerStep DEF Restart
<1>2. OneAlive'
  BY AliveStep DEF Restart
<1>3. RowInv' /\ CallInv' /\ FileInv' /\ SweepInv'
  BY RowStep, CallStep, FileStep, SweepStep DEF Restart
<1>4. RecoveryInv' /\ ParentInv' /\ BriefInv' /\ RunningHasRunner'
  BY RecoveryStep, ParentStep, BriefStep, RunnerStep DEF Restart
<1> QED BY <1>1, <1>2, <1>3, <1>4 DEF Restart

\* Restarts and failing storage at any point: a row refers to evidence exactly
\* when its artifact row exists, the file is in place, and no sweep takes it.
THEOREM EvidenceSurvives == ASSUME Alone PROVE Spec => []EvidenceKept
<1>1. Restart => EvidenceKept
  BY DEF Restart, RowInv, FileInv, EvidenceKept
<1> QED BY <1>1, RestartInit, RestartStep, PTL DEF Spec

\* Neither the compensation of a commit that has lost its reply nor the
\* recovery of a restart changes a row that has ended.
THEOREM EndsAreFinal == ASSUME Alone PROVE Spec => TerminalIsFinal
<1> DEFINE Final == \A i \in Invocations : rows[i].state \in Ended => rows'[i] = rows[i]
<1>1. Restart /\ [Next]_vars => [Final]_vars
  BY RowMoves DEF Restart, Moves, Active, Ended
<1>2. TerminalIsFinal <=> [][Final]_vars
  BY DEF TerminalIsFinal, EndedIsKept
<1> QED BY <1>1, <1>2, RestartInit, RestartStep, PTL DEF Spec

\* A retry starts its provider only when the run it replaces has stopped.
THEOREM RetriesWait == ASSUME Alone PROVE Spec => []RetryAfterEnd
<1>1. Restart => RetryAfterEnd
  <2> SUFFICES ASSUME Restart, NEW c \in Retries, NEW d \in Runs, TargetOf[d] = Parent(c),
                      pc[c] = "running", pc[d] = "running"
               PROVE  FALSE
    BY DEF RetryAfterEnd
  <2>1. rows[Parent(c)].state \in Ended
    BY DEF Restart, ParentInv, Inside
  <2>2. Active(TargetOf[d])
    BY DEF Restart, CallInv, CallOK, Working, Runs
  <2> QED BY <2>1, <2>2 DEF Active, Ended
<1> QED BY <1>1, RestartInit, RestartStep, PTL DEF Spec

\* An interrupted run stays in the Resume Brief, through stale copies written
\* back by edits and other runs, until a retry of it has ended.
THEOREM InterruptionsStay == ASSUME Alone PROVE Spec => []InterruptedIsPending
<1>1. Restart => InterruptedIsPending
  BY DEF Restart, BriefInv, Covers, Settled, InterruptedIsPending
<1> QED BY <1>1, RestartInit, RestartStep, PTL DEF Spec

\* Once a restart serves, no row says "running" for a run of an ended process.
THEOREM NoOrphanRuns == ASSUME Alone PROVE Spec => []RunningHasRunner
<1>1. Restart => RunningHasRunner
  BY DEF Restart
<1> QED BY <1>1, RestartInit, RestartStep, PTL DEF Spec
=============================================================================

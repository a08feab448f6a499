--------------------------- MODULE AgentInvocation ---------------------------
(* One run of an AI provider in an assurance session, from the claim of its   *)
(* row to its evidence file and the Resume Brief of the session, and the      *)
(* start of a process, which sweeps files nobody refers to and turns rows     *)
(* left running into interrupted ones.  One session; one step is one storage  *)
(* call, one file operation or one event of the provider.                     *)
EXTENDS Naturals, FiniteSets

CONSTANTS
  Processes,   \* one "serve", CLI command or restart each: started once
  Calls,       \* RunAgentInvocation, RetryAgentInvocation, or an edit of the session
  Invocations, \* ids of agent invocations
  ProcessOf,   \* the process of a call
  TargetOf,    \* the id a call claims; None for an edit of the session
  ParentOf,    \* the invocation an id retries; None for a first attempt
  PromptOf,    \* the prompt of a call, of which the row keeps a digest
  Results,     \* what a provider may report
  Faulty,      \* calls and processes whose storage calls may fail
  Sweeping,    \* processes whose build can sweep files (Go 1.24)
  Attempts,    \* agentInvocationPersistenceAttempts
  Alone,       \* whether a process starts only when no other one is alive
  None

Prompts == {PromptOf[c] : c \in Calls}
Edits == {c \in Calls : TargetOf[c] = None}
Runs == Calls \ Edits
Retries == {c \in Runs : ParentOf[TargetOf[c]] # None}
Ended == {"succeeded", "failed", "timed_out", "cancelled", "interrupted"}

ASSUME CallShape ==
  /\ ProcessOf \in [Calls -> Processes]
  /\ TargetOf \in [Calls -> Invocations \cup {None}]
  /\ ParentOf \in [Invocations -> Invocations \cup {None}]
  /\ None \notin Invocations \cup Prompts /\ Processes \cap Calls = {}
  /\ Results \subseteq Ended \ {"interrupted"} /\ "failed" \in Results
  /\ Alone \in BOOLEAN /\ Attempts \in Nat \ {0}
\* The id of a first attempt contains the time; that of a retry only its parent.
ASSUME Identity ==
  /\ \A c, d \in Runs \ Retries : TargetOf[c] = TargetOf[d] => c = d
  /\ \A i, j \in Invocations : ParentOf[i] = ParentOf[j] /\ ParentOf[i] # None => i = j

VARIABLES
  rows,       \* assurance_objects: the invocations
  session,    \* assurance_objects: the Resume Brief of the session
  artifacts,  \* invocations whose evidence has a row in artifacts
  files,      \* the artifact directory: the evidence of an invocation, or its temporary file
  life,       \* how far a process has come in New, or "new" or "gone"
  known,      \* assurancePathReferences of a start, then the rows it has listed
  doomed,     \* the directory entries a start will remove
  copy,       \* the session as a start or a call has read it
  subject,    \* the invocation a start is recovering
  pc,         \* the next step of a call
  report,     \* what a call will store: state and evidence
  tries,      \* failed attempts to persist a failure
  answer,     \* what a call has returned
  launched    \* history: calls that started their provider

disk == <<rows, session, artifacts, files>>
boot == <<life, known, doomed, subject>>
local == <<pc, report, tries, answer>>
vars == <<disk, boot, copy, local, launched>>

Booting == {"artifacts", "invocations", "directory", "sweep", "list", "next", "recover"}
Inside == {"begin", "lookup", "claim", "launch", "running", "write", "rename",
           "finalize", "persist", "discard", "edit"}
NoRow == [state |-> "absent", revision |-> 0, prompt |-> None, evidence |-> "none"]
Blank == [completed |-> {}, pending |-> {}]
NoReport == [state |-> "failed", evidence |-> "none"]
Rows == [state : {"absent", "running"} \cup Ended, revision : Nat,
         prompt : Prompts \cup {None}, evidence : {"none", "filed"}]
Briefs == [completed : SUBSET Invocations, pending : SUBSET Invocations]
Files == Invocations \X {"temporary", "evidence"}

Temporary(c) == <<TargetOf[c], "temporary">>
Evidence(c) == <<TargetOf[c], "evidence">>
Parent(c) == ParentOf[TargetOf[c]]
Row(c) == rows[TargetOf[c]]
Active(i) == rows[i].state = "running"
Live(p) == life[p] \in Booting \cup {"up"}

Init ==
  /\ rows = [i \in Invocations |-> NoRow]
  /\ session = Blank /\ artifacts = {} /\ files = {}
  /\ life = [p \in Processes |-> "new"]
  /\ known = [p \in Processes |-> {}] /\ doomed = [p \in Processes |-> {}]
  /\ subject = [p \in Processes |-> None]
  /\ copy = [x \in Processes \cup Calls |-> Blank]
  /\ pc = [c \in Calls |-> "idle"]
  /\ report = [c \in Calls |-> NoReport]
  /\ tries = [c \in Calls |-> 0]
  /\ answer = [c \in Calls |-> "none"]
  /\ launched = {}

---------------------------------------------------------------------------
(* New: the sweep of the artifact directory, then the recovery.              *)

Start(p) ==
  /\ life[p] = "new"
  /\ Alone => \A q \in Processes : ~Live(q)
  /\ life' = [life EXCEPT ![p] = IF p \in Sweeping THEN "artifacts" ELSE "list"]
  /\ UNCHANGED <<disk, known, doomed, subject, copy, local, launched>>

ListArtifacts(p) ==
  /\ life[p] = "artifacts"
  /\ known' = [known EXCEPT ![p] = artifacts]
  /\ life' = [life EXCEPT ![p] = "invocations"]
  /\ UNCHANGED <<disk, doomed, subject, copy, local, launched>>

\* invocationMayHavePreparedArtifact
MayHavePrepared(i) == Active(i) \/ rows[i].state = "interrupted"

ListInvocations(p) ==
  /\ life[p] = "invocations"
  /\ known' = [known EXCEPT ![p] = @ \cup {i \in Invocations : MayHavePrepared(i)}]
  /\ life' = [life EXCEPT ![p] = "directory"]
  /\ UNCHANGED <<disk, doomed, subject, copy, local, launched>>

Referenced(p, f) == f[2] = "evidence" /\ f[1] \in known[p]

ReadDirectory(p) ==
  /\ life[p] = "directory"
  /\ doomed' = [doomed EXCEPT ![p] = {f \in files : ~Referenced(p, f)}]
  /\ life' = [life EXCEPT ![p] = "sweep"]
  /\ UNCHANGED <<disk, known, subject, copy, local, launched>>

\* An entry that is gone by then is passed over.
Sweep(p) ==
  /\ life[p] = "sweep"
  /\ \E f \in doomed[p] :
       /\ files' = files \ {f}
       /\ doomed' = [doomed EXCEPT ![p] = @ \ {f}]
  /\ UNCHANGED <<rows, session, artifacts, life, known, subject, copy, local, launched>>

EndSweep(p) ==
  /\ life[p] = "sweep" /\ doomed[p] = {}
  /\ life' = [life EXCEPT ![p] = "list"]
  /\ UNCHANGED <<disk, known, doomed, subject, copy, local, launched>>

\* Mutant: only rows whose provider has not been started are recovered.
Recoverable_Queued(i) == rows[i].state = "queued"
\* recoverableInvocationState; no lease is compared.
Recoverable(i) == Active(i)

ListActive(p) ==
  /\ life[p] = "list"
  /\ known' = [known EXCEPT ![p] = {i \in Invocations : Recoverable(i)}]
  /\ life' = [life EXCEPT ![p] = "next"]
  /\ UNCHANGED <<disk, doomed, subject, copy, local, launched>>

ReadSession(p) ==
  /\ life[p] = "next"
  /\ \E i \in known[p] :
       /\ subject' = [subject EXCEPT ![p] = i]
       /\ known' = [known EXCEPT ![p] = @ \ {i}]
  /\ copy' = [copy EXCEPT ![p] = session]
  /\ life' = [life EXCEPT ![p] = "recover"]
  /\ UNCHANGED <<disk, doomed, local, launched>>

\* The table with one row ended without evidence, one revision on.
Unfinished(i, state) ==
  [rows EXCEPT ![i] = [rows[i] EXCEPT !.state = state, !.evidence = "none",
                                      !.revision = rows[i].revision + 1]]

\* Mutant: the state is one that no later start or retry knows.
Interrupted_Cancelling(p, i) ==
  /\ rows' = Unfinished(i, "cancelling")
  /\ session' = [copy[p] EXCEPT !.pending = @ \cup {i}]
\* Mutant: the transaction leaves out the session.
Interrupted_RowOnly(p, i) ==
  /\ rows' = Unfinished(i, "interrupted")
  /\ session' = copy[p]
\* RecoverInterruptedInvocationAndUpdateSession: one more than whatever revision
\* is there, and the row and the session as they were read.
Interrupted(p, i) ==
  /\ rows' = Unfinished(i, "interrupted")
  /\ session' = [copy[p] EXCEPT !.pending = @ \cup {i}]

\* A failed commit is compared with what is stored: when it took effect the start goes on.
Recover(p) ==
  /\ life[p] = "recover"
  /\ Interrupted(p, subject[p])
  /\ subject' = [subject EXCEPT ![p] = None]
  /\ copy' = [copy EXCEPT ![p] = Blank]
  /\ \E next \in {"next"} \cup (IF p \in Faulty THEN {"gone"} ELSE {}) :
       /\ life' = [life EXCEPT ![p] = next]
       /\ known' = [known EXCEPT ![p] = IF next = "gone" THEN {} ELSE @]
  /\ UNCHANGED <<artifacts, files, doomed, local, launched>>

Serve(p) ==
  /\ life[p] = "next" /\ known[p] = {}
  /\ life' = [life EXCEPT ![p] = "up"]
  /\ UNCHANGED <<disk, known, doomed, subject, copy, local, launched>>

\* The process ends: a failed start, the end of a command, a kill.  Its calls
\* end where they are, and their providers with them.
Exit(p) ==
  /\ Live(p)
  /\ life' = [life EXCEPT ![p] = "gone"]
  /\ known' = [known EXCEPT ![p] = {}] /\ doomed' = [doomed EXCEPT ![p] = {}]
  /\ subject' = [subject EXCEPT ![p] = None]
  /\ LET lost == {c \in Calls : ProcessOf[c] = p /\ pc[c] \in Inside \cup {"gate"}}
     IN  /\ pc' = [c \in Calls |-> IF c \in lost THEN "dead" ELSE pc[c]]
         /\ report' = [c \in Calls |-> IF c \in lost THEN NoReport ELSE report[c]]
         /\ tries' = [c \in Calls |-> IF c \in lost THEN 0 ELSE tries[c]]
         /\ copy' = [x \in Processes \cup Calls |->
                       IF x = p \/ x \in lost THEN Blank ELSE copy[x]]
  /\ UNCHANGED <<disk, answer, launched>>

---------------------------------------------------------------------------
(* RetryAgentInvocation and runAgentInvocation.                              *)

Goto(c, phase) == pc' = [pc EXCEPT ![c] = phase]
Return(c, reply) ==
  /\ pc' = [pc EXCEPT ![c] = "returned"]
  /\ answer' = [answer EXCEPT ![c] = reply]
  /\ copy' = [copy EXCEPT ![c] = Blank]
  /\ report' = [report EXCEPT ![c] = NoReport]
  /\ tries' = [tries EXCEPT ![c] = 0]

Request(c) ==
  /\ pc[c] = "idle" /\ life[ProcessOf[c]] = "up"
  /\ Goto(c, IF c \in Retries THEN "gate" ELSE "begin")
  /\ UNCHANGED <<disk, boot, copy, report, tries, answer, launched>>

\* Mutant: the lock is given back by no return.
GateFree_Leaked(c) == \A d \in Retries :
  ProcessOf[d] = ProcessOf[c] /\ Parent(d) = Parent(c) => pc[d] \in {"idle", "gate"}
\* acquireRetryInvocation excludes the retries of one invocation inside one process.
GateFree(c) == \A d \in Retries :
  ProcessOf[d] = ProcessOf[c] /\ Parent(d) = Parent(c) => pc[d] \notin Inside

\* Mutant: an invocation that is still running may be retried.
Retryable_Any(i) == rows[i].state # "absent"
\* retryableInvocationState
Retryable(i) == rows[i].state \in {"failed", "interrupted"}

Gate(c) ==
  /\ pc[c] = "gate" /\ GateFree(c)
  /\ IF Retryable(Parent(c))
       THEN Goto(c, "begin") /\ UNCHANGED <<copy, report, tries, answer>>
       ELSE Return(c, "refused")
  /\ UNCHANGED <<disk, boot, launched>>

Begin(c) ==
  /\ pc[c] = "begin"
  /\ copy' = [copy EXCEPT ![c] = session]
  /\ Goto(c, CASE c \in Edits -> "edit" [] c \in Retries -> "lookup" [] OTHER -> "claim")
  /\ UNCHANGED <<disk, boot, report, tries, answer, launched>>

\* sameInvocationRequest: the id fixes everything but the prompt.
Repeat(c) == IF Row(c).prompt = PromptOf[c] THEN "existing" ELSE "conflict"

Lookup(c) ==
  /\ pc[c] = "lookup"
  /\ IF Row(c).state = "absent"
       THEN Goto(c, "claim") /\ UNCHANGED <<copy, report, tries, answer>>
       ELSE Return(c, Repeat(c))
  /\ UNCHANGED <<disk, boot, launched>>

\* Mutant: the insert overwrites the row of another caller.
Unclaimed_Always(c) == TRUE
\* INSERT ... ON CONFLICT(id) DO NOTHING
Unclaimed(c) == Row(c).state = "absent"

\* StartAgentInvocation: the queued row and its transition to running.
Claim(c) ==
  /\ pc[c] = "claim" /\ Unclaimed(c)
  /\ rows' = [rows EXCEPT ![TargetOf[c]] =
       [state |-> "running", revision |-> 2, prompt |-> PromptOf[c], evidence |-> "none"]]
  /\ \/ Goto(c, "launch") /\ UNCHANGED <<copy, report, tries, answer>>
     \/ c \in Faulty /\ Return(c, "error")
  /\ UNCHANGED <<session, artifacts, files, boot, launched>>

Claimed(c) ==
  /\ pc[c] = "claim" /\ ~Unclaimed(c)
  /\ Return(c, Repeat(c))
  /\ UNCHANGED <<disk, boot, launched>>

\* A storage call of the handler fails before anything is claimed.
GiveUp(c) ==
  /\ c \in Faulty /\ pc[c] \in {"gate", "begin", "lookup", "claim", "edit"}
  /\ Return(c, "error")
  /\ UNCHANGED <<disk, boot, launched>>

Launch(c) ==
  /\ pc[c] = "launch"
  /\ launched' = launched \cup {c}
  /\ Goto(c, "running")
  /\ UNCHANGED <<disk, boot, copy, report, tries, answer>>

\* The worktree has changed, or the profile, the launcher or the prompt is not accepted.
NotLaunched(c) ==
  /\ pc[c] = "launch"
  /\ Goto(c, "write")
  /\ UNCHANGED <<disk, boot, copy, report, tries, answer, launched>>

Finish(c) ==
  /\ pc[c] = "running"
  /\ \E result \in Results : report' = [report EXCEPT ![c].state = result]
  /\ Goto(c, "write")
  /\ UNCHANGED <<disk, boot, copy, tries, answer, launched>>

\* prepareAssuranceArtifact
WriteFile(c) ==
  /\ pc[c] = "write"
  /\ files' = files \cup {Temporary(c)}
  /\ Goto(c, "rename")
  /\ UNCHANGED <<rows, session, artifacts, boot, copy, report, tries, answer, launched>>

RenameFile(c) ==
  /\ pc[c] = "rename" /\ Temporary(c) \in files
  /\ files' = (files \ {Temporary(c)}) \cup {Evidence(c)}
  /\ report' = [report EXCEPT ![c].evidence = "filed"]
  /\ Goto(c, "finalize")
  /\ UNCHANGED <<rows, session, artifacts, boot, copy, tries, answer, launched>>

\* "artifact.persistence_failed"
Unfiled(c) == NoReport

\* The quota, the disk, or a temporary file that has been swept.
NoFile(c) ==
  /\ pc[c] \in {"write", "rename"}
  /\ files' = files \ {Temporary(c)}
  /\ report' = [report EXCEPT ![c] = Unfiled(c)]
  /\ Goto(c, "finalize")
  /\ UNCHANGED <<rows, session, artifacts, boot, copy, tries, answer, launched>>

\* reconcileRetrySessionState, after the lines every run adds to the brief it has read.
Reconciled(c, brief) ==
  LET settled == {Parent(c), ParentOf[Parent(c)]}
      open == IF report[c].state = "succeeded" THEN {} ELSE {TargetOf[c]}
  IN  [brief EXCEPT !.pending = (@ \ settled) \cup open]
Closing(c) ==
  LET brief == [copy[c] EXCEPT !.completed = @ \cup {TargetOf[c]}]
  IN  IF c \in Retries THEN Reconciled(c, brief) ELSE brief

\* updateAssuranceRevisionWithExecutor: WHERE ... revision < ?
Current(c, revision) == Row(c).revision < revision

\* FinalizeAgentInvocationAndUpdateSession; the session is overwritten whatever
\* its revision is.
Finalize(c) ==
  /\ pc[c] = "finalize" /\ Current(c, 3)
  /\ rows' = [rows EXCEPT ![TargetOf[c]] = [@ EXCEPT !.state = report[c].state,
                             !.revision = 3, !.evidence = report[c].evidence]]
  /\ artifacts' = IF report[c].evidence = "filed" THEN artifacts \cup {TargetOf[c]} ELSE artifacts
  /\ session' = Closing(c)
  /\ \/ Return(c, IF report[c].evidence = "filed" THEN "done" ELSE "error")
     \/ c \in Faulty /\ Goto(c, "persist") /\ UNCHANGED <<copy, report, tries, answer>>
  /\ UNCHANGED <<files, boot, launched>>

NotFinalized(c) ==
  /\ pc[c] = "finalize" /\ (c \in Faulty \/ ~Current(c, 3))
  /\ Goto(c, "persist")
  /\ UNCHANGED <<disk, boot, copy, report, tries, answer, launched>>

\* Mutant: whatever the row is, it becomes failed.
Failure_Always(c) == Unfinished(TargetOf[c], "failed")
\* PersistAgentInvocationFinalizationFailure changes an active row only.
Failure(c) ==
  IF Active(TargetOf[c])
    THEN Unfinished(TargetOf[c], "failed")
    ELSE rows

\* Mutant: the file goes although the row refers to it.
Superfluous_Always(c, row) == report[c].evidence = "filed"
\* len(persisted.Spec.ArtifactIDs) == 0
Superfluous(c, row) == report[c].evidence = "filed" /\ row.evidence = "none"

Persist(c) ==
  /\ pc[c] = "persist"
  /\ rows' = Failure(c)
  /\ IF Superfluous(c, Failure(c)[TargetOf[c]])
       THEN Goto(c, "discard") /\ UNCHANGED <<copy, report, tries, answer>>
       ELSE Return(c, "error")
  /\ UNCHANGED <<session, artifacts, files, boot, launched>>

\* One of three attempts fails, before or after its commit.
NotPersisted(c) ==
  /\ pc[c] = "persist" /\ c \in Faulty
  /\ rows' \in {rows, Failure(c)}
  /\ IF tries[c] + 1 < Attempts
       THEN tries' = [tries EXCEPT ![c] = @ + 1] /\ UNCHANGED <<pc, copy, report, answer>>
       ELSE Return(c, "error")
  /\ UNCHANGED <<session, artifacts, files, boot, launched>>

Discard(c) ==
  /\ pc[c] = "discard"
  /\ files' = files \ {Evidence(c)}
  /\ Return(c, "error")
  /\ UNCHANGED <<rows, session, artifacts, boot, launched>>

\* AnswerAssuranceQuestion, CreateAssuranceQuestion, CreateAssuranceSpec: other
\* fields of the brief change, and the whole brief is written back.
SaveEdit(c) ==
  /\ pc[c] = "edit"
  /\ session' = copy[c]
  /\ Return(c, "done")
  /\ UNCHANGED <<rows, artifacts, files, boot, launched>>

---------------------------------------------------------------------------
Boot(p) ==
  \/ ListArtifacts(p) \/ ListInvocations(p) \/ ReadDirectory(p) \/ Sweep(p) \/ EndSweep(p)
  \/ ListActive(p) \/ ReadSession(p) \/ Recover(p) \/ Serve(p)
Advance(c) ==
  \/ Gate(c) \/ Begin(c) \/ Lookup(c) \/ Claim(c) \/ Claimed(c) \/ GiveUp(c)
  \/ Launch(c) \/ NotLaunched(c) \/ Finish(c) \/ WriteFile(c) \/ RenameFile(c) \/ NoFile(c)
  \/ Finalize(c) \/ NotFinalized(c) \/ Persist(c) \/ NotPersisted(c) \/ Discard(c) \/ SaveEdit(c)
Next ==
  \/ \E p \in Processes : Start(p) \/ Boot(p) \/ Exit(p)
  \/ \E c \in Calls : Request(c) \/ Advance(c)
Spec == Init /\ [][Next]_vars
FairSpec == Spec /\ \A c \in Calls : WF_vars(Advance(c))

---------------------------------------------------------------------------
(* What must hold.                                                           *)

\* Every variable has the shape its table, directory or local has.
TypeOK ==
  /\ rows \in [Invocations -> Rows] /\ session \in Briefs
  /\ artifacts \subseteq Invocations /\ files \subseteq Files
  /\ life \in [Processes -> {"new", "up", "gone"} \cup Booting]
  /\ known \in [Processes -> SUBSET Invocations] /\ doomed \in [Processes -> SUBSET Files]
  /\ subject \in [Processes -> Invocations \cup {None}]
  /\ copy \in [Processes \cup Calls -> Briefs]
  /\ pc \in [Calls -> {"idle", "gate", "returned", "dead"} \cup Inside]
  /\ report \in [Calls -> [state : Results \cup {"failed"}, evidence : {"none", "filed"}]]
  /\ tries \in [Calls -> 0..Attempts]
  /\ answer \in [Calls -> {"none", "done", "existing", "conflict", "refused", "error"}]
  /\ launched \subseteq Runs

\* However often a retry is asked for, in however many processes, one provider
\* is started for it (assurance.go:858-862, README.md:137).
LaunchedOnce ==
  \A c, d \in launched : TargetOf[c] = TargetOf[d] => c = d

\* A row refers to evidence exactly when the artifact row exists, the file is
\* then in place, and no success is stored without (assurance.go:1103-1114).
EvidenceKept == \A i \in Invocations :
  /\ rows[i].evidence = "filed" <=> i \in artifacts
  /\ i \in artifacts => <<i, "evidence">> \in files
  /\ rows[i].state = "succeeded" => i \in artifacts

\* What has ended stays as it ended: neither the compensation of a failed
\* commit nor a recovery writes over it (store/assurance.go:363, 805).
EndedIsKept == \A i \in Invocations : rows[i].state \in Ended => rows'[i] = rows[i]
TerminalIsFinal == [][EndedIsKept]_vars

\* An interrupted run is pending in the Resume Brief until a retry of it has
\* ended, whatever stale copies of the brief are written back (README.md:153).
InterruptedIsPending == \A i \in Invocations :
  rows[i].state = "interrupted" =>
    \/ i \in session.pending
    \/ \E j \in Invocations : ParentOf[j] = i /\ rows[j].state \in Ended

\* The provider of a retry never works beside the provider it replaces.
RetryAfterEnd == \A c \in Retries, d \in Runs :
  TargetOf[d] = Parent(c) => ~(pc[c] = "running" /\ pc[d] = "running")

Owning == {"launch", "running", "write", "rename", "finalize", "persist"}
\* Once a process serves, a row that says "running" has a handler at work on it,
\* or its handler could not store how it ended.
RunningHasRunner == \A i \in Invocations :
  Active(i) /\ (\E p \in Processes : life[p] = "up") =>
    \E c \in Runs : TargetOf[c] = i /\ (pc[c] \in Owning \/ answer[c] = "error")

\* A handler that has begun answers, or its process ends: a call comes once and
\* its end is final, so again and again no handler is at work.
EveryCallReturns == []<>(\A c \in Calls : pc[c] \in {"idle", "returned", "dead"})

\* A success and its line in the Resume Brief stay once they are stored: a stale
\* worker cannot overwrite a newer state (store/assurance.go:808).
ResultsStay == [][\A i \in Invocations :
  LET kept(state, brief) == state = "succeeded" /\ i \in brief.completed
  IN  kept(rows[i].state, session) => kept(rows'[i].state, session')]_vars
=============================================================================

# Dev Control Room: formal models

Dev Control Room is a local program for one developer.  A `serve` process (HTTP
adapter and user interface) and any number of short CLI processes share one
home directory: `state.db` (SQLite), `config.json` and an artifact directory.
The program observes Git repositories and worktrees, records findings, keeps
the life of AI-assurance sessions, and, after a human decision, runs reviewed
commands in a worktree.  This directory holds TLA+ models of it, the TLC
instances that check them, and proofs for TLAPS.

Line references are to the source tree; `PROJECT.json` maps each definition
that models code to its lines.

## Inventory

| Component | State | Operations | Hard behaviour |
|---|---|---|---|
| Action execution boundary (`internal/action`, `app/service.go`, `app/external.go`, `app/release.go`) | `action_plans`, `approvals`, `action_locks`, `action_idempotency`, `action_events`, `action_runs`; an admission in a handler's memory; the ceremony flag of a process | Plan, StartHumanApprovalCeremony, Admit, Execute, Renew, Release, Trust | several processes; a lease that expires while its holder works; errors, cancellation and crashes between the transactions of one handler; authority lost between check and use |
| Storage access (`store/storage_lock.go`, `locked_driver.go`) | `state.db.lock` (flock), one pooled connection per process, an open transaction or row set | Exec, Query, Begin/Commit/Rollback, Prepare | exclusion across processes, bounded waits, the difference between "not started" and "outcome unknown" |
| Migrations (`store/migrations.go`) | `schema_migrations`, the schema | Open, Migrate | two processes start at once, a crash between two versions, binaries of different versions |
| Worktree registry (`store/repository.go`) | `worktrees`, `worktree_execution_trusts` | ReplaceWorktrees, TrustWorktreeForExecution | identity across moves, incomplete enumeration, tombstones |
| Scan loop, findings (`app/app.go`, `internal/reconcile`) | scan runs, findings, a one-place channel | QueueScan, RunScan, reconcile | dropped requests, a scan that overlaps a request, stale marks |
| Discovery, proposals, check sets (`internal/discovery`, `internal/checkset`) | proposals, check sets, check runs | discover, accept, reject, apply, run | a proposal that is found again, reviewed twice or marked stale late; a check set that is replaced while it runs |
| Assurance sessions, agent invocations (`app/assurance.go`, `store/assurance.go`) | sessions, runs, questions, invocations with a two-hour lease | start, finalize, recover, answer, cancel | a crash while the provider runs; a late answer after recovery; a finalization that could not be stored |
| Quality runs and artifacts (`app/assurance.go`, `app/artifacts.go`) | runs, campaigns, artifact rows, files, archives | run, compensate, pin, archive, restore, delete | an answer before its evidence; an ambiguous commit; two runs of one campaign; a crash in an export |
| Quality objectives (`app/quality_objective.go`) | objectives with a revision | create, decide, revalidate, confirm | compare-and-swap by revision; a worktree that moves between run and adoption |
| Inspection plans, proposals, scores (`app/inspection.go`) | the same | generate, propose, decide, run, apply | reviewers of one revision; a plan that goes stale while it runs |
| Safeguards (`app/safeguard.go`) | fingerprints, rules with a revision | record, promote, evaluate, decide | the service and the CLI observe the same failures |
| Action planning, unattended approval scopes | plans, events, scopes with a revision | plan, create, approve, revoke, match | a plan without its event; a scope revoked before the check |
| Configuration (`app/config.go`) | `config.json`, a copy in memory under `configMu` | start, edit, append a result | a save that fails or is cut short, a crash, a migration that was interrupted |
| Project catalog, repository discovery | project and repository rows | add, update, import, remove, search | handlers that overlap; limits that must be reported |
| Cleanup, synchronisation, Jenkins groups, releases | plans, results; worktrees and builds outside | plan, approve, execute | the world changes after the review |
| Measurement, impact, quality setup | measurement runs, effects; derived answers | import, compare, dashboard, report, preview | tables read one after another; limits; percentiles and bins |
| Scheduler, process runner, masking, MCP, CLI and HTTP adapters | none, or derived | see `PROJECT.json` | mostly calls of the system, parsing and formatting |

How they interact.  The adapters call the handlers of `internal/app` from one
goroutine per request.  Every handler reads and writes `state.db` through the
connection wrapper, one call at a time, and what it read may change before it
writes: the file lock covers one statement, one transaction or one row set,
never a handler.  The broker is the only owner of process execution; it trusts
the registry's record of a worktree, which the scan loop refreshes, and the
scopes and approvals that humans decide.  Remote targets (Jenkins) are started
under the same admission by routes of their own.

What makes each correct: the broker must not start a command without live
authority, without evidence, twice for one request, or beside another one in
the same worktree, and must give the worktree back; storage must exclude
processes from each other, never hang, and tell a replayable failure from an
ambiguous one; migrations must be applied once and in order; the registry must
keep identities; the scan loop must not lose a request; sessions must end in
one outcome that the evidence supports; revisions must not be lost.

## Modules

| Modules | Component | Proofs |
|---|---|---|
| `ActionBroker`, `MCActionBroker`, `MCBrokerLease`, `MCBrokerExecution` | admission, execution, approval, scope, trust, the Jenkins routes | `ActionBrokerProofs` |
| `StorageAccess` over `AtomicStore`, `MCStorageAccess` | file lock, connection pool, transactions, row sets, Open, migrations | `StorageAccessProofs` |
| `AgentInvocation`, `MCInvocations`, `MCAgentInvocation` | claim, provider, evidence, finalization, retries, sweep, recovery | `AgentInvocationProofs` |
| `WorktreeRegistry`, `ScanLoop`, `MCObservation` | scans of worktrees, scan runs and findings | `WorktreeRegistryProofs`, `ScanLoopProofs`, `MCObservationProofs` |
| `InspectionFlow`, `Cleanup`, `RepositorySync`, `ExternalWork` | what is reviewed and then done | `RecordsProofs` |
| `ArtifactStore`, `ConfigStore`, `QualityRuns` | evidence, its retention and its archives; the configuration file and the start; runs of a campaign | `RecordsProofs` |
| `ActionPlanning`, `Safeguard`, `QualityObjective` | plans with their scopes, rules against repeated failures, objectives | `DecisionProofs` |
| `ProposalReview`, `MeasurementContract`, `Measurement` | commands that are reviewed and checked, measurements that are imported | `DecisionProofs` |
| `ProjectCatalog`, `RepositoryDiscovery`, `QualitySetup`, `Impact` | what is recorded, derived and answered | |
| `MCRecords`, `MCQualityObjective`, `MCProjectCatalog`, `MCExternalWork` | instances of the last five groups | |

Composition.  `ActionBroker` takes storage calls as atomic and possibly failing,
which is what `StorageAccess` establishes by implementing `AtomicStore`; it takes
a scope as "approved until revoked", which `ActionPlanning` details, and a scan as
one step, which `WorktreeRegistry` details.  `AgentInvocation` and the modules of
`MCRecords` take the same storage calls for granted, and `ExternalWork`, `Cleanup`
and `RepositorySync` take the admission of the broker as one step.
`QualityObjective` takes quality runs from outside, which `QualityRuns` details.

## ActionBroker

One action of the module is one storage call, or one call to Git, to the prompt
or to the child process, so requests interleave between those calls as the
goroutines and processes do.  A request `r` has a plan `PlanOf[r]`, a holder, an
idempotency key and a process; `pc[r]` is the next call of its handler.

| Variable | In the code |
|---|---|
| `locks` | table `action_locks`, keyed by the worktree of the plan (`scope`) |
| `claims` | table `action_idempotency` |
| `trail`, `runs`, `approvals` | tables `action_events`, `action_runs`, `approvals` |
| `asked` | the one `now` of Admit |
| `lease` | `admission.Lock.ExpiresAt`, in memory |
| `began`, `outcome` | `started` and `status` of Execute |
| `prompts` | the open ceremony of a process with the clock it read |
| `revoked` | scopes whose state is revoked |
| `disk`, `seen`, `trusted`, `consent` | the checkout; `worktrees`; `worktree_execution_trusts`; what TrustWorktreeForExecution has read and not yet written |
| `launched` | history: requests that started a child or a remote job |
| `stray` | history: rows of `action_locks` that a fault or a cancelled context left, or may have left, at the step where it struck: a lost reply of an acquisition, a release that failed, the first read of Execute, the undo with a cancelled context |

`AdmitLoad` to `Unclaim` are Admit; `ExecuteLoad` to `Release` are
ExecuteWithRevalidation with the revalidation that `ExecuteAction` passes to it;
`Renew`, `HandBack`, `Forget` are what a caller of the admit route can do;
`Dispatch` and `Collect` are ExecuteExternalWork and ExecuteRelease, which run
Jenkins targets under an admission and read neither lease nor approval again.

Abstractions.  Plans are persisted and immutable before a request begins, so a
plan stands for its digest, and the digest comparisons always agree.  A
worktree's context is one value (path, association, HEAD, branch together);
`Discoverable` compares only what `discoveryWorktree` compares, which is not
HEAD.  A request in `Faulty` may see any storage call fail, before or after its
commit.  A request in `Cancellable` may have its context cancelled at any point
inside its handler.  Read-only routes, masking and the content of outputs are
left out.  Storage errors inside the releases that use
`context.Background()` happen only to `Faulty` requests.  A renewal whose commit is
made and whose reply is lost is left out: it only lengthens the stored lease of a
holder that takes it for shorter.

### Runs

All instances have one worktree, because two plans of different worktrees share
nothing but idempotency keys.  Deadlock checking is off in all of them: when
every request has returned and the clock has reached its bound, nothing is left
to do.

| Run | Shows | Instance and why it is enough |
|---|---|---|
| `broker_lease` | `MemoryMatchesRow`, `LeaseExclusive`, `NoOrphanLock`, `OneStartPerKey`, `EvidenceFirst` | two situations.  Leases: three requests of three holders: an admit route that renews, hands back or forgets, a Jenkins plan, an executed plan; one process killed at any point; lease 1, clock to 2, so that a lease expires, is taken over, and the first holder's late release comes after it.  Keys: three requests with one key, a retry of the same plan and a request for another plan, so that the key is claimed, refused and given back by an undo, with failing storage, lost replies, cancellation, a crash |
| `broker_execution` | `TypeOK`, `RevocationStopsLaunch`, `ExpiryStopsLaunch`, `DriftNeverSucceeds`, `EveryRequestReturns`, `LockIsGivenBack` | three situations, explored apart and not as a product (`Apart` in `MCBrokerExecution`).  One request under two prompts, a scope and its deadline, with two decisions, so that a newer grant can replace an expired one; one request while the checkout changes, is scanned and trusted again; an executed and a Jenkins plan of two processes that contend for the worktree with one key |
| `broker_cancelled_run`, `broker_overlap` | statements of the documents that the code does not keep | see Findings |

The constraint `Apart` of the first explores its two situations and not the
product of these, and of three requests that are under way at once only the
beginning; the proofs need no such constraint.

`MemoryMatchesRow` and `LeaseExclusive` speak of a request as long as no other one
of the same plan and holder has begun (`Sole`).  Two of these are not told apart by
ReleaseActionLock, and of them neither property holds (see `MemoryIsTheRow` below).  `NoOrphanLock` says that a row whose request has ended
has expired, belongs to a process that died, or is in `stray`: what a fault does at
its own step is excepted, a release that a handler forgets is not, whatever fails
elsewhere.

Bounds.  `MaxTime` bounds the clock; with a lease of 1 and a bound of 2 every
order of "taken, expired, taken over, released late" fits.  `MaxDecisions`
bounds the number of stored approvals.  Both are the only caps.

Fairness.  `FairSpec` lets every handler take its next step while it can (weak
fairness of `Advance(r)` for each request): a handler is a goroutine that runs
until it returns.  `Exit` is part of `Advance` because the runner kills the
child at its timeout.  No fairness is assumed of people, of the clock, of scans
or of cancellation.  `EveryRequestReturns` leaves out requests of the admit
route, whose callers may do nothing.  A request comes once and its end is final, so
both liveness properties say "again and again, for all requests", which implies
"each request, eventually".  The constraint `Apart` cuts no step of a handler that
has begun, so nothing that fairness asks for is cut off.

### Findings

- `broker_cancelled_run`: the run of a cancelled execution is saved with the
  cancelled context, so it is never stored (broker.go:602).
- `broker_overlap`: a command may run as long as the lease, and nothing renews
  it; a second command starts in the same worktree (broker.go:394).

The behaviours of the module show three more, for which no run is kept.  Each
is the reason for an exception of a property or a remark above:

- a first read that fails in Execute returns before the deferred release is
  registered, and the lease stays (broker.go:502 against the comment at 507);
- a failed admission audit releases with the context that failed it, so lease
  and key stay (broker.go:409 against `TestAdmitAuditFailureReleasesLeaseAndIdempotency`);
- the evidence refreshed before launch does not include HEAD (app.go:713), so a
  checkout that has moved since the last scan runs under the old approval.

### Proofs

`ActionBrokerProofs` proves, for every number of requests, plans, worktrees and
processes, and for every bound:

- `TypeCorrect`: `Spec => []TypeOK`.  Inductive with `OutcomeKnown`: a handler
  that comes to `Record` has an outcome, otherwise the event it stores would
  have no type.
- `KeyStartsOnce`: `Spec => []OneStartPerKey`.  `OneStartPerKey` speaks only of
  requests that have started something; `KeyInv` adds what keeps two of them
  apart: from the insert of its key on, every request that may still start (or
  has started) finds its own plan under its key and shares the key with no
  other, and a request still inside Admit has started nothing, which is why the
  undo of Admit may delete the key.
- `EvidenceComesFirst`: `Spec => []EvidenceFirst`, with `EvidenceInv`: the phase
  of a handler tells which events are already in the trail.
- `MemoryIsTheRow` and `OneHolderAtATime`: `DistinctAuthority => (Spec =>
  []MemoryMatchesRow)` and the same for `LeaseExclusive`.  `LeaseInv` adds that
  the clock value of Admit is never in the future, so a row that is judged
  expired by it has expired.  `DistinctAuthority` (two requests for one worktree
  differ in plan or holder) is needed: ReleaseActionLock (repository.go:1440)
  does not compare the expiry, so a late release of an expired lease deletes the
  row of the next request of the same holder for the same plan, and all requests
  of the user interface have one holder (replace
  `Sole(r)` by `TRUE` to see it: `r3` and `r4` of `broker_lease` are alike).
- `NothingForgotten`: `Spec => []NoOrphanLock`, whatever storage and contexts do;
  the first two of the behaviours above are what `stray` excepts.

- `RevokedNeverStarts`, `ExpiredNeverStarts`: `Spec => RevocationStopsLaunch` and
  `Spec => ExpiryStopsLaunch`, which speak of "from then on".  A request is
  barren once it has lost its authority in a phase before the recheck of Execute;
  every step of every request, retry, crash or restart keeps a barren request
  barren, and no barren request starts a child.
  For expiry this holds as long as no newer approval is stored, as the property
  says.
- `DriftIsNoSuccess`: `Spec => DriftNeverSucceeds`.  When the scans have recorded,
  while the child of a request runs, that the worktree has left the context of the
  plan, and it stays away, the request stays in phases from which it records no
  success, whatever is trusted meanwhile.

The assumptions are those of the module: the shape of the constants, positive
lease and lifetime, and that the value standing for "no row" is not a row.

Only model-checked: liveness (`EveryRequestReturns`, `LockIsGivenBack`).

## StorageAccess

A call is one use of the connection pool of one process (a statement, a query
with its rows, a transaction) or one `Open`.  One step is one attempt: on the
pool, on the file lock, or in SQLite.  `Home[c]` is the process of a call, and
`Kind[c]` what it does.

| Variable | In the code |
|---|---|
| `flock` | who holds the `flock` on `state.db.lock` |
| `conn` | the one connection of a process's pool (`SetMaxOpenConns(1)`) |
| `database` | whether the process has an open `*sql.DB` |
| `done` | contexts that are cancelled or past their deadline |
| `polls`, `tries` | the rounds of `acquireStorageLockWithin`; the attempts of `retryStorageOperation` |
| `current`, `draft` | `current` of `migrateDatabase`; the open migration transaction |
| `history`, `tables` | `schema_migrations`; the migrations whose SQL is durable |
| `written` | how often the write of a call was committed |
| `ran` | history: calls for which a driver callback was started |
| `foreign` | whether another program holds SQLite's own write lock |

`TryLock` is one round of the wait for the file; `Busy` one busy answer with the
retry or the end of the retries; `Close` the deferred releases, all of them, and
the return.  `Prepare` to `Migrated` are `Open`.

Abstractions.  A migration stands for its name and checksum; `Released` holds
the pairs of checksums that `migrationHistoryMatches` accepts.  The reset of a
pooled connection takes and returns the lock as a statement does and ignores its
errors, so it is left out.  `foreign` also stands for a connection of the
program that is just being closed, which takes locks of SQLite without the file.
A statement whose context is done, or that fails, may have been committed all
the same, and a commit that fails or is busy may have reached the file, also
that of a migration.  A busy commit is possible at any time while `foreign`
writes, which is more than SQLite does after a successful BEGIN and write.  Two
things are taken from outside the repository.  A single statement that SQLite
answers with busy has been rolled back: the wrapper repeats it by itself
(`retryStorageResult`), and would repeat an effect otherwise.  And what the
driver keeps on a pooled connection after a commit that failed is not modelled:
`storageTx.Commit` gives the lock back and does not roll back.  No handler makes a storage call while it has rows or a
transaction open, so calls do not nest.

`AtomicStore` is what the handlers of `ActionBroker` take for granted: a call
takes effect at most once, "ok" means that it did, and "failed", which is the
answer `IsStorageLockBusy` (and a refusal by Open), that it did not; after any
other error, busy during execution included, a caller does not know, as
`docs/STORAGE_CONCURRENCY.md` says, and must not make the call again.
`AnswersAreTrue` says that `StorageAccess` implements it when `answer` is read
off a call that has returned.

### Runs

| Run | Shows | Instance and why it is enough |
|---|---|---|
| `storage_calls` | `TypeOK`, `OneInside`, `NothingLeaked`, `LockBusyNeverRan`, `TablesMatchHistory`, `OpenDatabaseIsMigrated`, `AnswersAreTrue`, `EveryCallReturns` | a build with two migrations that opens the database and runs a statement and a result set on its pool, a build with three that opens it and runs a transaction and may be killed at any point, also between or inside its migrations; the database is empty, has an older accepted checksum, or belongs to another program, which comes and goes; two attempts, so that a retry succeeds and a retry gives up |

Bounds.  `Polls` and `Attempts` are the timeout and the retry limit of the code,
in rounds.  `Attempts` is 2, the smallest number at which a retry goes on and
ends; `Polls` is 0, so a call that finds the file locked gives up at once or
finds it free at a later step; the waiting round in between only counts, is left
to the proofs, which hold for every `Polls`, and triples the run.  Deadlock checking is off: when every call has returned nothing is left.

Fairness.  Weak fairness of `Advance(c)` for each call: a goroutine runs on, and
a caller that has rows closes them (every `QueryContext` of `internal/store` has
its deferred `rows.Close`).  Nothing is assumed of the other program, of kills or
of deadlines.

### Proofs

`StorageAccessProofs` proves, for every number of processes, calls, migrations,
attempts and polls:

- `TypeCorrect`: with `OneLeft`, that a migration is recorded only when one was
  left, otherwise the row would have no name.
- `OneCallInside`, `NothingIsLeaked`: with `Holds`, that a call inside SQLite is
  the one the lock file belongs to.
- `LockBusyIsRepeatable`: with `RanInv`, that a call waiting for the lock has not
  reached the driver.
- `ImplementsAtomicStore`: with `KindInv` and `AnswerInv`, that before its end a
  call has written nothing and at its end as much as its answer says; a release
  of the lock is the step that gives the answer, every other step is invisible
  or the effect.
- `MigrationsAreAtomic`, `NobodyWorksOnAnOldSchema`: with `MigrationInv`, that
  what an Open has validated stays valid because nobody else migrates while it
  holds the lock file.

Only model-checked: `EveryCallReturns`.

## AgentInvocation

One invocation is one run of an AI provider in an assurance session.  A call is
RunAgentInvocation (a first attempt), RetryAgentInvocation, or an edit of the
session (a question, an answer, a spec); a process is one `serve`, one command,
or the same again after a restart.  One step is one storage call, one file
operation, or one event of the provider, so calls and starts interleave between
those as goroutines and processes do.

| Variable | In the code |
|---|---|
| `rows` | the invocations in `assurance_objects`: state, revision, digest of the prompt, whether `ArtifactIDs` is filled |
| `session` | the Resume Brief of the session: `Completed` and `Pending` |
| `artifacts` | the table of artifacts |
| `files` | `artifacts/assurance`: the evidence of an invocation, and the temporary file it is renamed from |
| `life`, `known`, `doomed`, `subject` | how far `newWithMasker` has come; the references of the sweep, then the invocations listed by the recovery; the entries to remove; the invocation being recovered |
| `copy` | the session as a call or a recovery has read it |
| `pc`, `report`, `tries`, `answer` | the next call of a handler, `invocation` with `preparedArtifact`, the attempts of the compensation, the reply |
| `launched` | history: calls whose provider was started |

`Start` to `Serve` are the sweep and the recovery in `newWithMasker`; `Exit` is
a failed start, the end of a command or a kill; `Gate` is RetryAgentInvocation
up to the call of `runAgentInvocation`, `Begin` to `Discard` are that function.
`Claim` is the transaction that inserts the row as queued and moves it to
running; `Finalize` stores the row, the artifact and the session in one
transaction, and may lose its reply; `Persist` is the compensation.

Abstractions.  There is one session, because invocations of different sessions
share nothing.  The id of a first attempt contains the time and is new; that of
a retry is a function of the session, the provider and the parent (`Identity`).
`queued` is never seen outside a transaction and `cancelling` is never written.
A call in `Faulty` may see any storage call fail, before or after its commit,
which covers a cancelled context.  The reads that precede the claim and only
look up the worktree are folded into `Begin` and `GiveUp`.  Leases are stored
and never compared by the code modelled here, so they are left out.  Left out
as well: proposals and their worktrees, quality runs, and the deletion of
artifacts by hand.

`Alone` is the restart scenario: a process starts only when no other one is
alive.  README.md:162 allows more, and there several promises fail (see
Findings), so most of the run `invocation` and of the theorems is about restarts;
`TypeCorrect` and `OneLaunch` need no such assumption.

### Runs

| Run | Shows | Instance and why it is enough |
|---|---|---|
| `invocation` | `TypeOK`, `EvidenceKept`, `InterruptedIsPending`, `RetryAfterEnd`, `RunningHasRunner`, `LaunchedOnce`, `TerminalIsFinal`, `EveryCallReturns` | two situations (`MCInvocations`), of which a behaviour is one.  Three starts of a process, each of which may end at any step; in the first, a first attempt; in the second, its retry asked for twice at the same time with different words and a retry of the retry; the third recovers what these left; the first retry and the second start see failing storage; the second start sweeps.  Or `Beside`, an instance with `Alone = FALSE` and variables of its own but for `launched`, so that `LaunchedOnce` is about both: two processes, a first attempt, its retry asked of both with different words, and an edit that saves a stale copy of the session; the second process may interrupt the runs of the first, so that a retry is accepted, looks and claims at every point of the other one |
| `invocation_lost_result` | a statement the code does not keep | two first attempts in one session and one process |

Bounds.  `Attempts` is 2 where the code has three: one that is followed by
another and one that is the last.  Each call is made once; repetition is another
call.  Deadlock checking is off: when every call has returned nothing is left.

Fairness.  Weak fairness of `Advance(c)` for each call: a goroutine runs on, and
a provider ends because its runner has a timeout.  Nothing is assumed of starts,
ends and requests.

### Findings

- `invocation_lost_result`: a run writes back the session it read before its
  provider started, and the store takes whatever revision is there plus one, so
  the run that ends last removes what the other one has entered
  (assurance.go:1139, store/assurance.go:658).

With `Alone = FALSE` three more behaviours appear, for which no run is kept:

- the sweep reads artifact rows, invocations and the directory one after the
  other (cleanup.go:54, 62, 224); evidence whose run is claimed after the second
  list, or finalized between the two, is removed as an orphan (`EvidenceKept`;
  cleanup.go:39-42 says that every referenced path is preserved);
- the recovery of a command interrupts the runs of a working `serve`, so a retry
  may run beside the provider it replaces (`RetryAfterEnd`);
- it writes over a result that was stored after its list was read
  (`TerminalIsFinal`): it compares neither lease nor revision.

### Proofs

`AgentInvocationProofs` proves, for every number of processes, calls and
invocations, whether or not processes run beside each other:

- `TypeCorrect`: `Spec => []TypeOK`, with `SubjectKnown`, that a recovery names
  a row, and `RunsOnly`, that edits never come to the steps of a run.
- `OneLaunch`: `Spec => []LaunchedOnce`.  `OwnerInv` says that a call past its
  claim finds its row in place and is the only one of its id; it holds because
  rows are never removed and an insert fails on an existing id.

Its second part assumes `Alone`, that a process starts only when no other one is
alive, and proves for every number of restarts and calls, with storage failing
anywhere:

- `EvidenceSurvives` (`EvidenceKept`), `EndsAreFinal` (`TerminalIsFinal`),
  `RetriesWait` (`RetryAfterEnd`), `InterruptionsStay` (`InterruptedIsPending`),
  `NoOrphanRuns` (`RunningHasRunner`).

None of them is inductive, and each leans on the others, so there is one
invariant, `Restart`.  `OneAlive` separates starts from calls: while a start is
under way no call is, which is what makes the unguarded writes of the recovery
and the lists of the sweep safe, and what `Alone = FALSE` takes away.  `CallInv`
says that the row of a call is running from its claim to its finalization (with
`OwnerInv`: nobody else may end it) and that evidence is reported only while it
is filed; `FileInv` and `SweepInv` carry that to the directory: the list of
references a sweep works with contains every artifact, so what it dooms contains
none.  `RecoveryInv` says that the recovery has exactly the running rows before
it, so that none is left when it serves.  `ParentInv` says that what a retry
replaces has ended.  `BriefInv` says that every copy of the brief that may still
be written back covers every interrupted run: by the time a row is interrupted
all older copies have died with their process, and a run that settles its parent
settles the parent of its parent too, which its parent has replaced.

`RowMoves` states what all this comes to for a row: it stays, is claimed, or
ends while it is running.

Only model-checked: `EveryCallReturns` (liveness).

## WorktreeRegistry and ScanLoop

`WorktreeRegistry` is one repository: Git's links (administrative directories of
linked worktrees), the directories they are in, and table `worktrees`.  A scan of
process `s` lists the links, asks Git about one worktree at a time and reconciles
the rows in one transaction (`ReplaceWorktrees`); between its steps links are
added, moved, removed and repaired and another process scans.

| Variable | In the code |
|---|---|
| `linkAt`, `owner` | `git worktree list`; the `.git` file of a directory |
| `scan`, `listed`, `complete`, `next` | the loop of the collector: what was advertised and proved, whether the enumeration is complete |
| `registry` | the rows by id: association, path, live or tombstoned |
| `transaction` | the open transaction of `ReplaceWorktrees` with its uncommitted rows |

`ScanLoop` is the scan of projects: `QueueScan` with its channel of one place,
`RunScan` and `scanProject` with every storage call a step, the reconciliation of
findings, the stale-scan finding that a reading user writes (`refreshStale`) and
acknowledgements.  Processes other than `serve` call RunScan themselves.

`MCObservation` holds two instances of each, one per behaviour.

### Run

| Run | Shows | Instance and why it is enough |
|---|---|---|
| `observation` | `TypeOK`, `IdNamesOneCheckout`, `StoredIsTheEnumeration`, `ScansConverge`, `ScanReportsAreTrue`, `RequestIsServed`, `FindingsSettle` | two links between two places with three changes and a failing call; two scanning processes and one place; two projects with requests, a fault or the end of the process, and an acknowledgement; two processes that scan one project while its condition changes.  A link that takes the place of another, a move seen half-way and a scan that overtakes another need no more |

Fairness.  Weak fairness of the next step of each scan, of the loop that takes
requests, and of the second half of an acknowledgement: goroutines run on.
`ScansConverge` and `FindingsSettle` assume besides that checkouts come to rest and
that scans complete; `RequestIsServed` is about `serve`.

`ScanReportsAreTrue` is about the reads whose failure the code counts: the root of
the repository, HEAD, status, the list of worktrees and the state of each.  The
branch, the remotes, the upstream and the distance from it are optional
(git.go:191-212): when such a read fails, `Collect` of the model, like that of the
code, supposes or misses conditions (`Supposed`: detached, no remote, unsafe
clean-up; `Hidden`: upstream drift, unsafe clean-up) and the run is reported as
succeeded.  docs/MILESTONE_1_VERIFICATION.md:29 says that "incomplete collection
produces a completed, failed ScanRun"; of optional reads that is not so, and no
run states it of them.  `FindingsSettle` holds all the same: the next scan
corrects what was supposed or missed.

Behaviours that the models show and the code accepts: a Collect that fails
resolves the findings that it did not see (findings.go:79), and a project whose
store fails ends the scan for the projects after it (app.go:778).

### Proofs

`WorktreeRegistryProofs` and `ScanLoopProofs` prove, for all links, places,
projects, repositories and processes that satisfy `RegConstants` and
`ScanConstants` (finite sets, natural bounds, ids and the absent value that
differ):

- `IdsStayWithTheirCheckout`, by `RegInv` (`RegistryIsSound`): a proved
  association alone decides the id of a listed worktree; the process in its save
  owns the open transaction; the uncommitted rows name one checkout each, as the
  stored ones do.  The table alone is not inductive, because rows are written from
  what Git said earlier.
- `EnumerationsAreStoredWhole`: `RegInv` counts, while a transaction is open, one
  live row for each worktree saved so far; at its commit these are all of them,
  and the tombstones take the others.
- `NoUnreadSuccess`, by `ScanInv` (`ScansAreCounted`): as long as no failure was
  counted, the repositories that were read and those still to scan make up the
  project, so at the end those that were read do.

`MCObservationProofs` carries them to the instances of the run
(`ObservationIsSound`: each scenario keeps the invariant of its module), which
gives `ObservationTypes`, `ObservedIdsStay`, `ObservedSuccessIsTrue` and
`ObservedEnumerationsAreWhole` for the properties of the run.
`ASSUME InstancesAreSound` states that the instances satisfy `RegConstants` and
`ScanConstants`; TLC evaluates it.

Only model-checked: `ScansConverge`, `RequestIsServed`, `FindingsSettle`
(liveness).

## Components that keep records

These modules share the meaning of their variables: `store` is what is stored,
`calls` where handlers are and what they have read, `world` what is outside,
`history` what was confirmed or done, `budget` the bounds.  One action is one
storage call, one file operation or one look at the world, so handlers of several
users or processes interleave between those.

| Module | Actions | What can go wrong |
|---|---|---|
| `InspectionFlow` | a plan is generated, reviewed, found stale, run and scored; proposals are made by a run or the provider, reviewed, applied | two reviewers of a revision; a run of a plan that changes; a proposal of an older run |
| `Cleanup` | scan, plan, approval, execution with its second scan and check, removal of worktree and branch; commits, edits, pushes, checkouts, locks; GitHub answers or not | the user works on what is being removed; a failure between worktree and branch |
| `RepositorySync` | plans, goroutines that share slots, check and pull, one scan | a worktree that becomes dirty or changes its branch after the plan |
| `ExternalWork` | plan, approval, execution of targets with builds that queue, run, end late, are cancelled; result | an edited group; a poll that gives up; a build of another execution |
| `ConfigStore` | start with migration, import and default profiles; edits; temporary file and rename; faults and deaths | a file cut short; an interrupted import; a failed save that stays in memory |
| `ProjectCatalog` | add, update, import, export, remove, with the transactions and the event | ids of folders with one name; handlers that overlap; a folder that is gone |
| `RepositoryDiscovery` | one directory at a time, with limits of depth and entries | a limit, an unreadable or vanished directory that is not reported |
| `Safeguard` | a failure is recorded, promoted, evaluated; decisions | service and CLI update one rule; promotion that overtakes another |
| `QualityObjective` | create, decide, revalidate, confirm; the revision update | reviewers of one revision; a worktree that moves between run and adoption |
| `QualityRuns` | choice, process, evidence, result, campaign, compensation | an ambiguous commit; evidence that is deleted although referred to; a crash between any two |
| `ArtifactStore` | insert, retention, export with staging, restore, delete, each a read, steps on files and a write of the row that was read; what overlaps is noted in `history` | a crash in an export; two users who pin, restore and delete one artifact; two exports to one place; a write of an older row |
| `ProposalReview` | discovery, review, check sets and their runs | a proposal found again or marked stale late; a check set replaced while it runs; dependencies in a circle |
| `QualitySetup` | a bounded walk and the checks it shows | files that disagree, are not read, or change during the walk |
| `ActionPlanning` | installation plans, plans under a scope, scopes; Plan and its event | a retry of a plan with a lost reply; a scope revoked between read and check; a component that could be meant otherwise |
| `MeasurementContract`, `Measurement` | the contract of a manifest; import, dashboard | a repeated import; masking that changes an identity; runs that cannot be compared |
| `Impact` | dashboard, trace, report, recording of effects | tables read one after another while rows change; bins and denominators |

Abstractions.  A text, digest or path is a model value or a small sequence of
names; what distinguishes two of them is kept, how they are computed is not.
Masking is kept where it changes an identity.  Handlers of one user are sequential.

### Runs

`MCRecords` has one scenario for each situation below; the first step chooses one,
and its invariants are the conjunctions of the properties of the modules, each in
its own scenarios.

| Property of `records` | Conjuncts |
|---|---|
| `RecordsTypeOK` | the type invariant of each module |
| `OnlyReviewedIsDone` | `RunsAreApproved`, `OnlyApprovedIsPosted`, `RemovalIsReviewed`, `OnlyCleanIsPulled`, `OnlyReviewedCommandsRun`, `OnlyReviewedCommandsAreChecked`, `InstallIsBound`, `MatchedIsWithinScope` |
| `NothingIsLost` | `NoProjectIsSkipped`, `ConfirmedEditsStay`, `ResultsAreTheLast`, `ProfilesAreInitializedOnce`, `NoWorkIsLost`, `UpdatesAreKept`, `RepeatsAreGuarded`, `RevalidationsAreKept`, `ListedRunsHaveEvidence`, `TakenBackIsClean`, `PinnedIsRecoverable`, `OnlyDeletedIsGone`, `PlannedIsAudited`, `ImportsAreKept` |
| `AnswersAreTrue` | `CompleteOrPartial`, `SuccessIsEveryTarget`, `FoldersDiffer`, `RemovalsRetainARepository`, `AdoptionIsProven`, `AnswersAreKept`, `ArchivesAreWhole`, `QuotaIsKept`, `RunsAreScheduled`, `StepsAreNeverStuck`, `CandidatesAreSteps`, `SetupIsCompleteOrPartial`, `SetupIsNotGuessed`, `ReuseIsSafe`, `RevokedNeverMatches`, `GateIsEvidence`, `SummariesFitSamples`, `ComparisonIsReproducible`, `VerifiedIsReverified`, `TrendAddsUp`, `MetricsAreSampled`, `TracesAgree`, `ReportListsWhatItCounts`, `ProposalsApply` |
| `DecisionsStand` | `ChecksChangeByProposal`, `PlanRevisionsAreTaken`, `ItemRevisionsAreTaken`, `ActivationIsEarned`, `ReviewsAreFinal`, `PlansAreImmutable`, `ScopesAdvance`, `ObjectiveChangesByReview`, `RunsAreImmutable`, `EffectsAreImmutable` |

The constants of each scenario are the smallest with which its case of the table
above happens: two users where two must meet, one where the world moves; one
change of the world, or two where it must come back; two faults where the second
hits the compensation of the first; limits of 1 or 2 where the code has 20, 64, 128 or
512, with one more item than the limit.  For the operators that are pure
(`CandidatesAreSteps`, `SummariesFitSamples`, `SetupIsNotGuessed`, `TrendAddsUp`,
`StepsAreNeverStuck`) the scenario enumerates inputs instead: all workflow files of
up to four lines, manifests with one probe of every kind, layouts that agree,
disagree or cannot be read, effects that differ from a complete one in one thing,
dependencies of three steps.  Deadlock checking is off: when every budget is spent
nothing is left.  No fairness is assumed; the properties are safety.

Three runs show statements that the code does not keep.  `project_emptied`:
RemoveRepository counts the repositories of a project in one transaction and
deletes in another (app.go:1168, 1174), so two removals that overlap, or a removal
and a save of the project, leave a project empty, although app.go:1169 and
domain/model.go:1216 refuse that.  In `records` two users work on the catalog too;
`RemovalsRetainARepository` and `FoldersDiffer` except the projects where a check
was overtaken by a save of the kind that matters (`overtaken`, noted when it
happens), and nothing else.  `jenkins_rebound`: the integration of a target is read
again at the post (external.go:407), after the digest was compared, so an edited
user name or credential reference is used under an approval that did not see it,
although docs/INTEGRATIONS.md:174 says that the digest binds them.
`OnlyApprovedIsPosted` is therefore about the group, its lease and its slots; in
`records` the integration is edited as well as the group.  `quality_follow_up`: two
coverage runs never have one configuration digest, because the command holds the
path of a profile that is named after the run, so a later run is refused as
`config_mismatch` (quality_objective.go:298).

Behaviours that the models show, for which no run is kept: a rejected inspection
plan, which inspection.go:288 calls immutable, is rewritten and sent back to a review
when a proposal that was made for it from a run of an older revision is approved and
applied, which is what `ChecksChangeByProposal` allows for a rejected as for any other
plan; asking for a plan answers with the stored one of the same HEAD and files, also
when that was found stale, although docs/USER_GUIDE.md:27 says that the server looks
again; LatestInspectionRun pairs a plan with the results of an older revision; ids that AddProjectTree makes
for folders of one name may collide with ids that exist; UpdateProject drops
repositories that were added after it has read the project; an external lease is
released before its result is saved (external.go:292); a quality run whose process
died stays `running`; an installation that is planned again after a scan is refused
as a conflict; a deletion that has read a row before another user pins it removes
the file of a pinned artifact (assurance.go:1663-1672); two exports that look at
one destination before either makes its staging directory share it
(assurance.go:1568-1578); the artifact quota is looked at before the insert and
not within it, so inserts that overlap exceed it.  `ArtifactStore` notes the last
three in `crossed` and `overlapped`, and its properties except just those cases.

### Proofs

`RecordsProofs` proves, for any values of the constants:

- `OnlyCleanWorktreesArePulled` (`Sync!OnlyCleanIsPulled`).  `SyncInv` says what a
  goroutine between check and pull has seen; the number of goroutines in slots is
  counted by `SlotsAreKept`, a lemma that `ExternalWork` uses too.
- `OnlyTheApprovedGroupIsPosted`, `SuccessMeansEveryBuild`
  (`Work!OnlyApprovedIsPosted`, `Work!SuccessIsEveryTarget`).  `WorkInv` says, per
  target, which build the step of its goroutine stands for: a target that ended
  well has a build that this execution posted and that stays `SUCCESS`.
- `CleanupLosesNoWork`, `OnlyReviewedIsRemoved` (`Clean!NoWorkIsLost`,
  `Clean!RemovalIsReviewed`).  `CleanupInv` says that every commit is on a branch
  or pushed, that from the second check on the observed row is the one of the
  plan, with a merged head, and that lease and approval are there from the
  admission on.
- `ScoresAreOfApprovedPlans`, `PlansChangeOneDecisionAtATime`
  (`Flow!RunsAreApproved`, `Flow!PlansChangeByDecision`).  `FlowInv` says that a
  copy of a plan or proposal that a handler holds is an earlier or the current
  revision of it, that an approved revision is among the approved ones with its
  checks, and that a run in progress works with such a copy; a compare-and-swap
  that succeeds therefore changes the revision that was looked at.
- `PinnedIsRecoverable`, `OnlyDeletedIsGone`, `ArchivesAreWhole`, `QuotaIsKept`,
  the properties of `ArtifactStore`.  `ArtifactInv` says what a handler may promise
  of its copy of a row: an archive that the copy names is whole or was touched, and
  a step that may write `pinned` has looked at the evidence.  This stays true under
  the steps of the others because an archive is never replaced and a file goes only
  by a deletion, which is noted if another handler works on it.  `QuotaInv` adds,
  as long as no handlers overlap, that a deleted row has no file and that no copy
  of it is written back as a live one; the quota itself is counted with the
  theorems about finite sets.
- `ConfirmedEditsStay`, `NoProjectIsSkipped`, `ResultsAreTheLast`,
  `ProfilesAreInitializedOnce`, the properties of `ConfigStore`.  `FilesInv` says
  what a start would find (`StandsFor(Found, ...)`): the confirmed items, results
  that are the last of their plans, projects that are all in the file or all in
  the database, and profiles that were set or, once, made.  It also says why
  whatever is being written may take the place of the file: a start has only taken
  out what is in the database by now, and an edit differs from the file in what
  its handler is about to confirm.  A failure or a death at any step therefore
  leaves a file that stands for the same.  `RecordedIsLast` is the lemma about the
  result logs: replacing, appending and dropping the oldest keep one result, the
  last, of every plan.
- `OnlyReviewedCommandsRunAlways`, `ListedRunsHaveEvidenceAlways`,
  `TakenBackIsCleanAlways`, `AnswersAreKeptAlways`, the properties of `QualityRuns`.
  `QualityInv` says for each step of a handler what is stored of its run
  (`Handler`): before the process ends the row is that of a run without evidence;
  while the evidence is written the files of the run are the artifacts that the
  copy names; a compensation works on a copy whose row is either the one before or
  the reported one, and `failed` is set whenever a file may be left.  The files and
  rows of one run belong to its handler alone, so that the steps of the others
  (`OwnOnly`) leave them; the campaign is shared, and what a handler has read of it
  is the stored one if the revision is (`HasRead`), so that no append loses one and
  none is made twice (`CampaignIs`).  That the one target of a property test is the
  only one is a fact about a sum over a list of files of any length: the recursive
  function `Total` is characterised by `SumsExist` and `SumsOfOne`, which are
  proved by induction on natural numbers, as the least counterexample of
  `LeastNumber` (from the well-foundedness of `<`, without an operator parameter).

Assumptions: `Slots \in Nat`; `FlowConstants`, that the value standing for "no
plan" is not a plan; `ArtifactConstants`, that `None` is no file, row, directory or
manifest; for the quota finitely many artifacts and `Quota \in Nat`;
`FilesConstants`, that `None` is no configuration and that a file found by the
first start is one of version 1 to 3 with result logs as the code writes them;
`QualityConstants`, that a worktree is described as the walk and the registry see it
and that `None` is no reason, answer or row.

`DecisionProofs` proves, for any values of the constants:

- `InstallationsAreAsAsked`, `ScopesBoundTheirPlans`, `AnsweredPlansAreAudited`,
  `RepeatedPlansAreReused`, `PlansAndScopesOnlyAdvance`, the properties of
  `ActionPlanning`.  `PlanInv` says what each handler knows of the rows, the
  history and the clock at its step.  Rows and history only grow (`PlanChange`), so
  what was checked before the insert still holds at the answer; a scope that was
  live when it was checked has an approved version with these bounds in the
  history, and the deadline of the plan is within the scope's.
- `SafeguardUpdatesAreKept`, `RepeatedFailuresAreGuarded`,
  `SafeguardRowsAreValid`, `SafeguardsAreEarned`, the properties of `Safeguard`.
  The invariant has three parts.  `RuleInv`: the update that a handler holds is the
  successor of the rule if the revision is still the one it has read.
  `EvidenceInv` counts: the references of a row and the handlers with a reference
  to add are as many as the failures counted, until the row is full; a handler that
  fails may leave one out, and none is counted twice, because every failure has
  evidence of its own.  `RepeatInv`: a repeated failure has a rule with the count
  of now, or some handler carries that count to it; this is why the order in which
  two processes count, merge and create does not matter.
- `AdoptionsAreProven`, `RevalidationsStay`, `ObjectivesAreTyped`,
  `ObjectivesChangeByReview`, the properties of `QualityObjective`.
  `ObjectiveInv` says that what a handler has read is a version of the objective,
  and the stored one if its revision is the stored one; what it will write is
  sound: its latest revalidation is true of the run it names, and an adoption has
  seen the commit and configuration of that run.  Runs are only added, so this
  stays true until the update, whose revision refuses every other version.
- `CheckedCommandsAreReviewed`, `CheckRunsAreScheduled`, `ReviewsAreTakenOnce`, the
  properties of `ProposalReview`.  `ReviewInv` says that every answered proposal has
  its one event and every other none, that a checkset which is stored or held by a
  handler was made of an applied proposal (`MadeOf`, `Kept`), and, of a run on its
  way, that each step is either left or has a result (`Split`) and that what has
  passed came after all that it depends on (`Results`).  Because a review is final,
  what a handler has read of a proposal is still true when it goes on, whatever is
  discovered, reviewed or replaced before.
- `ImportsStay`, `PassingRunsAreMeasured`, the properties of `Measurement`.  Rows
  are only added, each under an id of its own, so `MeasurementInv` needs only what
  is known of the rows and of each import on its way.  The work is in two lemmas
  about the contract: `RowStaysValid`, that masking with the identity restored
  leaves a valid manifest valid, and `FailuresAreFound`, that the loop over the
  required measurements leaves out no failure, for a list of any length; it is
  proved by induction on the index with `UpTo`, from the least counterexample.

Assumptions: `PlanConstants` (worktrees have finitely many components, bounds are
numbers, `None` is none of the values), `InstallIdsAreTheirOwn` (a plan under a
scope is not given the digest of an installation) for `RepeatedPlansAreReused`
alone, `GuardConstants` (finitely many processes, limits are positive, `None` is
not a rule), `ObjectiveConstants` (coverage is in natural numbers, at least one
revalidation is kept, `None` is no objective and no part of one),
`ReviewConstants` (the steps of a checkset are listed once each, and dependencies
are given for each), `MeasurementConstants` (a manifest has the fields that the
decoder fills, its measurements are a sequence of such records and count answers
in natural numbers).  The scenarios of the run `records` satisfy these
assumptions.

The theorems are about the specifications of the modules, and each conjunct of
`OnlyReviewedIsDone` and `NothingIsLost` is one of them.  The properties of `records`
as wholes stay with TLC: they combine about thirty instances in scenarios of their own,
of which the first step chooses one.

Only model-checked, and why:

- liveness (`EveryCallReturns` and the others with fairness), and whatever rests on
  `ENABLED`, which the provers do not treat;
- `StepsAreNeverStuck`: that a checkset which is accepted has no circle is an
  induction over the graph of its dependencies;
- `SummariesFitSamples`, `CandidatesAreSteps`, `ComparisonIsReproducible` and the
  properties of `Impact`, which are about sorting, folds and selections of the
  community modules: recursive functions over finite sets or sequences that would
  each need an induction of their own;
- `ProposalsApply` and the type correctness of `InspectionFlow`, for the function
  that applies a list of changes, in the same way;
- the properties of `ProjectCatalog`, `RepositoryDiscovery` and `QualitySetup`, which
  compare an answer with a walk over a small tree of files.

## Not modelled

`PROJECT.json` lists every component with its status.  Left out for good:
parsers of tool output, remote services other than Jenkins builds and merged pull
requests, the text of what is masked, the home page, and the native scheduler and
prompt of Windows.  Left out because the code is exposed to it only across
processes: two processes that edit one `config.json`, where the second overwrites
the first.  The order of times as RFC 3339 texts (repository.go:1427) is not
modelled either: the models compare numbers.

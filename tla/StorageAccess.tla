---------------------------- MODULE StorageAccess ----------------------------
(***************************************************************************)
(* The SQLite connection boundary of internal/store: the companion lock    *)
(* file (storage_lock.go), the connection wrapper that holds it around     *)
(* every statement, result set and transaction (locked_driver.go), and     *)
(* Open with its forward-only migrations (migrations.go).  Several         *)
(* processes, serve and CLI, share one database file; each has a pool of   *)
(* one connection.  A call is one use of that pool, or one Open.  A step   *)
(* is one attempt: on the pool, on the file lock, or in SQLite.  The reset *)
(* of a pooled connection takes and returns the lock the same way, its     *)
(* failure is ignored, and it is left out.                                 *)
(***************************************************************************)
EXTENDS Naturals, Sequences, FiniteSets

CONSTANTS
  Servers,      \* processes
  Calls,
  Home,         \* the process of a call
  Kind,         \* "exec", "rows" (a query), "tx" or "open"
  Migrations,   \* a migration stands for its name and checksum
  Builds,       \* the migrations compiled into each process, in order
  Released,     \* pairs <<stored, compiled>> of an accepted older checksum
  Histories,    \* the migration histories a run may start from
  Polls,        \* failed attempts on the lock file that fit in its timeout
  Patience,     \* failed attempts that fit before the context's deadline
  Attempts,     \* storageRetryAttempts
  Cancellable,  \* calls whose context may be done at any moment
  Crashing,     \* processes that may be killed
  Foreign,      \* what a program that ignores the lock file may be:
                \* {"absent"} or {"absent", "writing"}
  None

ASSUME CallAssumption ==
  /\ Home \in [Calls -> Servers]
  /\ Kind \in [Calls -> {"exec", "rows", "tx", "open"}]
  /\ Patience \in [Calls -> Nat]
  /\ Cancellable \subseteq Calls /\ Crashing \subseteq Servers
ASSUME BoundAssumption ==
  /\ Polls \in Nat /\ Attempts \in Nat \ {0}
  /\ Foreign \subseteq {"absent", "writing"} /\ None \notin Calls
ASSUME BuildAssumption ==
  /\ Builds \in [Servers -> Seq(Migrations)]
  /\ Released \subseteq Migrations \X Migrations
  /\ Histories \subseteq Seq(Migrations)

VARIABLES
  pc,        \* where each call is
  flock,     \* the call whose open file holds state.db.lock, or None
  conn,      \* per process, the call that has the pooled connection, or None
  database,  \* per process, "closed" or "open"
  done,      \* calls whose context is done
  polls,     \* failed attempts of a call on the lock file
  tries,     \* busy answers of SQLite to the current statement of a call
  result,    \* the answer a call is about to return
  current,   \* the schema version an Open has read
  draft,     \* tables changed by the open transaction of an Open
  tables,    \* the migrations whose SQL has been committed
  history,   \* table schema_migrations, in the order of its versions
  written,   \* how often the write of a call was committed
  ran,       \* history: calls for which a driver callback was started
  foreign    \* whether such a program holds SQLite's own write lock

waiting == <<polls, tries>>
schema == <<current, draft, tables, history>>
file == <<written, ran>>
vars == <<pc, flock, conn, database, done, waiting, result, schema, file, foreign>>

Phases == {"idle", "pool", "lock", "run", "rows", "body", "commit", "prepare",
           "validate", "migrate", "record", "close", "returned"}
Answers == {"none", "ok", "lock busy", "busy", "context", "error", "refused", "lost"}

\* The phases in which a call uses SQLite.
Inside(c) == pc[c] \in Phases \ {"idle", "pool", "lock", "close", "returned"}
Build(c) == Builds[Home[c]]
Goto(c, phase) == pc' = [pc EXCEPT ![c] = phase]
\* Every path ends here; the deferred releases run in Close.
Finish(c, answer) ==
  /\ Goto(c, "close")
  /\ result' = [result EXCEPT ![c] = answer]

Init ==
  /\ pc = [c \in Calls |-> "idle"]
  /\ flock = None /\ conn = [s \in Servers |-> None]
  /\ database = [s \in Servers |-> "closed"]
  /\ done = {} /\ foreign = "absent"
  /\ polls = [c \in Calls |-> 0] /\ tries = [c \in Calls |-> 0]
  /\ result = [c \in Calls |-> "none"]
  /\ current = [c \in Calls |-> 0] /\ draft = [c \in Calls |-> <<>>]
  /\ history \in Histories /\ tables = history
  /\ written = [c \in Calls |-> 0] /\ ran = {}

-----------------------------------------------------------------------------
(* The lock file *)

\* App.New opens the database before anything else uses it.
Request(c) ==
  /\ pc[c] = "idle"
  /\ IF Kind[c] = "open"
     THEN /\ database[Home[c]] = "closed"
          /\ \A d \in Calls \ {c} : Home[d] = Home[c] => pc[d] \in {"idle", "returned"}
          /\ Goto(c, "lock")
     ELSE database[Home[c]] = "open" /\ Goto(c, "pool")
  /\ UNCHANGED <<flock, conn, database, done, waiting, result, schema, file, foreign>>

\* database/sql: one connection, a waiter leaves when its context is done.
TakeConnection(c) ==
  /\ pc[c] = "pool"
  /\ \/ /\ c \notin done /\ conn[Home[c]] = None
        /\ conn' = [conn EXCEPT ![Home[c]] = c]
        /\ Goto(c, "lock")
        /\ UNCHANGED result
     \/ /\ c \in done
        /\ Finish(c, "context")
        /\ UNCHANGED conn
  /\ UNCHANGED <<flock, database, done, waiting, schema, file, foreign>>

\* The phase a call enters with the lock in its hand.
FirstPhase(c) == IF Kind[c] = "open" THEN "prepare" ELSE "run"
\* Mutant: a lock file that is held by another process is opened all the same.
Acquire_Shared(c) == Goto(c, FirstPhase(c)) /\ flock' = c
Acquire(c) == flock = None /\ flock' = c /\ Goto(c, FirstPhase(c))

\* The context controls the wait when its deadline comes first.
TimedOut(c) == IF Patience[c] <= Polls THEN polls[c] >= Patience[c] ELSE polls[c] >= Polls
WaitError(c) == IF Patience[c] <= Polls THEN "context" ELSE "lock busy"
\* One round of acquireStorageLockWithin: the context first, then flock, which
\* may fail for another reason than a holder.
TryLock(c) ==
  /\ pc[c] = "lock"
  /\ \/ /\ c \in done
        /\ Finish(c, "context")
        /\ UNCHANGED <<flock, polls>>
     \/ /\ c \notin done /\ Acquire(c)
        /\ UNCHANGED <<polls, result>>
     \/ /\ c \notin done /\ Finish(c, "error")
        /\ UNCHANGED <<flock, polls>>
     \/ /\ c \notin done /\ flock # None /\ TimedOut(c)
        /\ Finish(c, WaitError(c))
        /\ UNCHANGED <<flock, polls>>
     \/ /\ c \notin done /\ flock # None /\ ~TimedOut(c)
        /\ polls' = [polls EXCEPT ![c] = @ + 1]
        /\ UNCHANGED <<pc, flock, result>>
  /\ UNCHANGED <<conn, database, done, tries, schema, file, foreign>>

-----------------------------------------------------------------------------
(* One statement: retryStorageOperation *)

\* Mutant: the attempts are counted down.
Busy_CountsDown(c) ==
  /\ foreign = "writing" /\ tries[c] < Attempts - 1
  /\ tries' = [tries EXCEPT ![c] = @ - 1] /\ UNCHANGED <<pc, result>>
\* Mutant: no bound on the attempts; the number of one matters to nobody.
Busy_Forever(c) ==
  /\ foreign = "writing"
  /\ IF c \in done THEN Finish(c, "context") /\ UNCHANGED tries
     ELSE tries' = [tries EXCEPT ![c] = 1 - @] /\ UNCHANGED <<pc, result>>
\* Mutant: the busy answer of a statement is reported as the lock's.
Busy_Mislabelled(c) ==
  /\ foreign = "writing"
  /\ IF c \in done THEN Finish(c, "context") /\ UNCHANGED tries
     ELSE IF tries[c] < Attempts - 1
          THEN tries' = [tries EXCEPT ![c] = @ + 1] /\ UNCHANGED <<pc, result>>
          ELSE Finish(c, "lock busy") /\ UNCHANGED tries
\* SQLite answers busy: wait and try again, up to Attempts attempts, and give
\* up when the context is done.  The wrapper repeats a statement because SQLite
\* rolls back one that it answers with busy; what calls the store may not.
Busy(c) ==
  /\ foreign = "writing"
  /\ IF c \in done THEN Finish(c, "context") /\ UNCHANGED tries
     ELSE IF tries[c] < Attempts - 1
          THEN tries' = [tries EXCEPT ![c] = @ + 1] /\ UNCHANGED <<pc, result>>
          ELSE Finish(c, "busy") /\ UNCHANGED tries
\* Any other error, or a context that interrupts the statement.
Broken(c) ==
  /\ \/ Finish(c, "error")
     \/ c \in done /\ Finish(c, "context")
  /\ UNCHANGED tries
\* The statement succeeds and the next one starts with a fresh count.
Succeed(c, phase) ==
  /\ Goto(c, phase)
  /\ tries' = [tries EXCEPT ![c] = 0]
  /\ UNCHANGED result
\* A statement of c that changes nothing durable.
Statement(c, from, to) ==
  /\ pc[c] = from
  /\ ran' = ran \cup {c}
  /\ Busy(c) \/ Broken(c) \/ Succeed(c, to)
  /\ UNCHANGED <<flock, conn, database, done, polls, schema, written, foreign>>

\* Mutant: the answer busy of an executed statement is tried again.
Exec_Replays(c) ==
  /\ pc[c] = "run" /\ Kind[c] = "exec"
  /\ ran' = ran \cup {c}
  /\ \/ /\ foreign = "writing" /\ tries[c] < Attempts - 1
        /\ tries' = [tries EXCEPT ![c] = @ + 1]
        /\ written' = [written EXCEPT ![c] = @ + 1]
        /\ UNCHANGED <<pc, result>>
     \/ (Busy(c) \/ Broken(c)) /\ UNCHANGED written
     \/ /\ foreign = "absent" /\ Finish(c, "ok")
        /\ written' = [written EXCEPT ![c] = @ + 1]
        /\ UNCHANGED tries
  /\ UNCHANGED <<flock, conn, database, done, polls, schema, foreign>>
\* An Exec outside a transaction commits by itself, and what fails or interrupts
\* it may come after that commit as well as before.
Exec(c) ==
  /\ pc[c] = "run" /\ Kind[c] = "exec"
  /\ ran' = ran \cup {c}
  /\ \/ (Busy(c) \/ Broken(c)) /\ UNCHANGED written
     \/ /\ foreign = "absent"
        /\ Finish(c, "ok") \/ Finish(c, "error") \/ (c \in done /\ Finish(c, "context"))
        /\ written' = [written EXCEPT ![c] = @ + 1]
        /\ UNCHANGED tries
  /\ UNCHANGED <<flock, conn, database, done, polls, schema, foreign>>

\* A query keeps the lock with its rows.
Query(c) == Kind[c] = "rows" /\ Statement(c, "run", "rows")
\* EOF, an error, Close, or a context that is done.
Rows(c) ==
  /\ pc[c] = "rows"
  /\ \/ Finish(c, "ok") \/ Finish(c, "error")
     \/ c \in done /\ Finish(c, "context")
  /\ UNCHANGED <<flock, conn, database, done, waiting, schema, file, foreign>>

\* A transaction keeps the lock from BEGIN on.
Begin(c) == Kind[c] = "tx" /\ Statement(c, "run", "body")
Body(c) == Statement(c, "body", "commit")
\* Commit is never tried again, and database/sql refuses it when the context
\* is done.  One that fails, or is busy, may have reached the file or not; what
\* SQLite then keeps on the connection is its driver's, and left out.
Commit(c) ==
  /\ pc[c] = "commit"
  /\ \/ /\ c \in done /\ Finish(c, "context")
        /\ UNCHANGED written
     \/ /\ c \notin done
        /\ Finish(c, "ok")
        /\ written' = [written EXCEPT ![c] = @ + 1]
     \/ /\ Finish(c, "error") \/ (foreign = "writing" /\ Finish(c, "busy"))
        /\ \E n \in 0..1 : written' = [written EXCEPT ![c] = @ + n]
  /\ UNCHANGED <<flock, conn, database, done, waiting, schema, ran, foreign>>

\* Mutant: rows that end early keep the lock file.
Close_KeepsLock(c) ==
  /\ pc[c] = "close"
  /\ flock' = IF flock = c /\ result[c] # "error" THEN None ELSE flock
  /\ conn' = IF conn[Home[c]] = c THEN [conn EXCEPT ![Home[c]] = None] ELSE conn
  /\ database' = IF Kind[c] = "open" /\ result[c] = "ok"
                 THEN [database EXCEPT ![Home[c]] = "open"] ELSE database
  /\ draft' = [draft EXCEPT ![c] = <<>>]
  /\ Goto(c, "returned")
  /\ UNCHANGED <<done, waiting, result, current, tables, history, file, foreign>>
\* The rollback, the release of the lock file, the connection back to its pool.
Close(c) ==
  /\ pc[c] = "close"
  /\ flock' = IF flock = c THEN None ELSE flock
  /\ conn' = IF conn[Home[c]] = c THEN [conn EXCEPT ![Home[c]] = None] ELSE conn
  /\ database' = IF Kind[c] = "open" /\ result[c] = "ok"
                 THEN [database EXCEPT ![Home[c]] = "open"] ELSE database
  /\ draft' = [draft EXCEPT ![c] = <<>>]
  /\ Goto(c, "returned")
  /\ UNCHANGED <<done, waiting, result, current, tables, history, file, foreign>>

-----------------------------------------------------------------------------
(* Open: the lock file is held over all of it *)

\* The pragmas and the creation of schema_migrations.
Prepare(c) == Statement(c, "prepare", "validate")

Accepted(stored, compiled) == stored = compiled \/ <<stored, compiled>> \in Released
\* Mutant: the versions alone are compared.
Fits_Unchecked(s) == Len(history) <= Len(Builds[s])
\* validateMigrationHistory: nothing newer than this build, and every version
\* up to the current one by its name and checksum.
Fits(s) ==
  /\ Len(history) <= Len(Builds[s])
  /\ \A v \in DOMAIN history : Accepted(history[v], Builds[s][v])
Validate(c) ==
  /\ pc[c] = "validate"
  /\ ran' = ran \cup {c}
  /\ \/ (Busy(c) \/ Broken(c)) /\ UNCHANGED current
     \/ /\ Fits(Home[c])
        /\ Succeed(c, "migrate")
        /\ current' = [current EXCEPT ![c] = Len(history)]
     \/ /\ ~Fits(Home[c]) /\ Finish(c, "refused")
        /\ UNCHANGED <<tries, current>>
  /\ UNCHANGED <<flock, conn, database, done, polls, draft, tables, history, written, foreign>>

\* Mutant: the SQL of a migration runs outside its transaction.
Migrate_Autocommits(c) ==
  /\ pc[c] = "migrate" /\ current[c] < Len(Build(c))
  /\ \/ (Busy(c) \/ Broken(c)) /\ UNCHANGED <<draft, tables>>
     \/ /\ foreign = "absent" /\ Succeed(c, "record")
        /\ tables' = Append(tables, Build(c)[current[c] + 1])
        /\ UNCHANGED draft
  /\ UNCHANGED <<flock, conn, database, done, polls, current, history, file, foreign>>
\* BEGIN and the SQL of the next migration, in a transaction.
Migrate(c) ==
  /\ pc[c] = "migrate" /\ current[c] < Len(Build(c))
  /\ \/ (Busy(c) \/ Broken(c)) /\ UNCHANGED draft
     \/ /\ foreign = "absent" /\ Succeed(c, "record")
        /\ draft' = [draft EXCEPT ![c] = <<Build(c)[current[c] + 1]>>]
  /\ UNCHANGED <<flock, conn, database, done, polls, current, tables, history, file, foreign>>
\* The row of the migration (version is the primary key) and the commit, which
\* may fail and have reached the file.
RecordMigration(c) ==
  /\ pc[c] = "record"
  /\ \/ /\ Finish(c, "error") \/ (c \in done /\ Finish(c, "context")) \/ (foreign = "writing" /\ Finish(c, "busy"))
        /\ UNCHANGED <<tries, schema>>
     \/ /\ Len(history) = current[c]
        /\ history' = Append(history, Build(c)[current[c] + 1])
        /\ tables' = tables \o draft[c]
        /\ draft' = [draft EXCEPT ![c] = <<>>]
        /\ \/ /\ c \notin done /\ Succeed(c, "migrate")
              /\ current' = [current EXCEPT ![c] = @ + 1]
           \/ /\ Finish(c, "error") \/ (foreign = "writing" /\ Finish(c, "busy"))
              /\ UNCHANGED <<tries, current>>
  /\ UNCHANGED <<flock, conn, database, done, polls, file, foreign>>
\* No migration is left: the last version must be the one this build wants,
\* and the permissions of the file are set.
Migrated(c) ==
  /\ pc[c] = "migrate" /\ current[c] >= Len(Build(c))
  /\ \/ current[c] = Len(Build(c)) /\ Finish(c, "ok")
     \/ Finish(c, "error")
  /\ UNCHANGED <<flock, conn, database, done, waiting, schema, file, foreign>>

-----------------------------------------------------------------------------
(* Environment *)

\* The calls a process has under way.
Pending(s) == {c \in Calls : Home[c] = s /\ pc[c] \notin {"idle", "returned"}}
\* persistence.Close at the end of a process that has nothing under way.
Quit(s) ==
  /\ database[s] = "open"
  /\ Pending(s) = {}
  /\ database' = [database EXCEPT ![s] = "closed"]
  /\ UNCHANGED <<pc, flock, conn, done, waiting, result, schema, file, foreign>>
\* The operating system closes the lock file; SQLite rolls back.
Crash(s) ==
  /\ s \in Crashing
  /\ Pending(s) # {} \/ database[s] = "open"
  /\ pc' = [c \in Calls |-> IF c \in Pending(s) THEN "returned" ELSE pc[c]]
  /\ result' = [c \in Calls |-> IF c \in Pending(s) THEN "lost" ELSE result[c]]
  /\ draft' = [c \in Calls |-> IF c \in Pending(s) THEN <<>> ELSE draft[c]]
  /\ flock' = IF flock \in Pending(s) THEN None ELSE flock
  /\ conn' = [conn EXCEPT ![s] = None]
  /\ database' = [database EXCEPT ![s] = "closed"]
  /\ UNCHANGED <<done, waiting, current, tables, history, file, foreign>>
\* A deadline passes or the caller cancels.
Expire(c) ==
  /\ c \in Cancellable \ done /\ pc[c] \notin {"idle", "returned"}
  /\ done' = done \cup {c}
  /\ UNCHANGED <<pc, flock, conn, database, waiting, result, schema, file, foreign>>
\* A program without the lock file, or a connection that is being closed,
\* takes or drops a lock of SQLite itself.
Interfere ==
  /\ foreign' \in Foreign /\ foreign' # foreign
  /\ UNCHANGED <<pc, flock, conn, database, done, waiting, result, schema, file>>

Advance(c) ==
  \/ TakeConnection(c) \/ TryLock(c) \/ Exec(c) \/ Query(c) \/ Rows(c)
  \/ Begin(c) \/ Body(c) \/ Commit(c) \/ Close(c)
  \/ Prepare(c) \/ Validate(c) \/ Migrate(c) \/ RecordMigration(c) \/ Migrated(c)
Next ==
  \/ \E c \in Calls : Request(c) \/ Advance(c) \/ Expire(c)
  \/ \E s \in Servers : Quit(s) \/ Crash(s)
  \/ Interfere
Spec == Init /\ [][Next]_vars
\* Every call is a goroutine that runs on, and every caller closes its rows.
FairSpec == Spec /\ \A c \in Calls : WF_vars(Advance(c))

-----------------------------------------------------------------------------
(* Properties *)

ControlOK ==
  /\ pc \in [Calls -> Phases]
  /\ flock \in Calls \cup {None}
  /\ conn \in [Servers -> Calls \cup {None}]
  /\ database \in [Servers -> {"closed", "open"}]
  /\ done \subseteq Calls /\ ran \subseteq Calls /\ foreign \in {"absent", "writing"}
  /\ polls \in [Calls -> Nat] /\ tries \in [Calls -> Nat]
  /\ result \in [Calls -> Answers]
  /\ written \in [Calls -> Nat]
SchemaOK ==
  /\ current \in [Calls -> Nat]
  /\ draft \in [Calls -> Seq(Migrations)]
  /\ tables \in Seq(Migrations) /\ history \in Seq(Migrations)
TypeOK == ControlOK /\ SchemaOK

\* docs/STORAGE_CONCURRENCY.md: Open with its migrations, a statement, a
\* transaction and a result set each exclude every other call of every process.
OneInside == \A c, d \in Calls : Inside(c) /\ Inside(d) => c = d

\* No error path, no early end of a result set and no killed process leaves
\* the lock file locked or the only connection of a pool taken.
NothingLeaked ==
  /\ flock # None => Inside(flock) \/ pc[flock] = "close"
  /\ \A s \in Servers : conn[s] # None =>
       Home[conn[s]] = s /\ (Inside(conn[s]) \/ pc[conn[s]] \in {"lock", "close"})

\* IsStorageLockBusy: such a call may be repeated, because none of it was run.
LockBusyNeverRan == \A c \in Calls : result[c] = "lock busy" => c \notin ran

\* A migration and the row that records it become durable together, whatever
\* fails or dies in between, and an earlier one is never missing.
TablesMatchHistory == tables = history

\* A process works only on a database that holds every migration it was
\* compiled with, also after other processes have migrated it further.
OpenDatabaseIsMigrated == \A s \in Servers : database[s] = "open" =>
  \A v \in DOMAIN Builds[s] : v \in DOMAIN history /\ Accepted(history[v], Builds[s][v])

\* The wait for the lock, the retries of SQLite and therefore the use of the
\* pool are bounded: every call comes back.
EveryCallReturns == \A c \in Calls : (pc[c] # "idle") ~> (pc[c] = "returned")

\* StorageAccess keeps the promise of AtomicStore: no retry repeats an effect,
\* success means that there was one, and the one failure after which a caller
\* may repeat its call, IsStorageLockBusy, means that there was none.  Every
\* other failure of a write is ambiguous (docs/STORAGE_CONCURRENCY.md).
Writers == {c \in Calls : Kind[c] \in {"exec", "tx"}}
Answer(c) ==
  IF pc[c] # "returned" THEN "none"
  ELSE IF result[c] = "ok" THEN "ok"
  ELSE IF result[c] \in {"lock busy", "refused"} THEN "failed" ELSE "unknown"
Abstract == INSTANCE AtomicStore WITH answer <- [c \in Calls |-> Answer(c)]
AnswersAreTrue == Abstract!Spec
=============================================================================

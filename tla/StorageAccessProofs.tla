------------------------ MODULE StorageAccessProofs ------------------------
(* Proofs about StorageAccess, for any number of processes and calls.       *)
EXTENDS StorageAccess, TLAPS

-----------------------------------------------------------------------------
(* What a step does to the phase, the answer and the retries of its call.   *)

LEMMA FinishTypes ==
  ASSUME NEW c \in Calls, NEW a \in Answers, Finish(c, a), ControlOK
  PROVE  pc' \in [Calls -> Phases] /\ result' \in [Calls -> Answers]
BY DEF Finish, Goto, ControlOK, Phases

LEMMA BusyTypes ==
  ASSUME NEW c \in Calls, Busy(c), ControlOK
  PROVE  pc' \in [Calls -> Phases] /\ result' \in [Calls -> Answers] /\ tries' \in [Calls -> Nat]
<1>1. "busy" \in Answers /\ "context" \in Answers
  BY DEF Answers
<1>2. CASE Finish(c, "busy") /\ UNCHANGED tries
  BY <1>1, <1>2, FinishTypes DEF ControlOK
<1>3. CASE Finish(c, "context") /\ UNCHANGED tries
  BY <1>1, <1>3, FinishTypes DEF ControlOK
<1>4. CASE tries' = [tries EXCEPT ![c] = @ + 1] /\ UNCHANGED <<pc, result>>
  BY <1>4 DEF ControlOK
<1> QED BY <1>2, <1>3, <1>4 DEF Busy

LEMMA BrokenTypes ==
  ASSUME NEW c \in Calls, Broken(c), ControlOK
  PROVE  pc' \in [Calls -> Phases] /\ result' \in [Calls -> Answers] /\ tries' \in [Calls -> Nat]
<1>1. "error" \in Answers /\ "context" \in Answers
  BY DEF Answers
<1>2. PICK a \in Answers : Finish(c, a)
  BY <1>1 DEF Broken
<1> QED BY <1>2, FinishTypes DEF Broken, ControlOK

LEMMA SucceedTypes ==
  ASSUME NEW c \in Calls, NEW p \in Phases, Succeed(c, p), ControlOK
  PROVE  pc' \in [Calls -> Phases] /\ result' \in [Calls -> Answers] /\ tries' \in [Calls -> Nat]
BY DEF Succeed, Goto, ControlOK

-----------------------------------------------------------------------------
(* Types.  A migration is recorded only when there was one left to apply.   *)

OneLeft == \A c \in Calls : pc[c] = "record" => current[c] < Len(Build(c))
Typed == TypeOK /\ OneLeft

LEMMA BuildType == ASSUME NEW c \in Calls PROVE Build(c) \in Seq(Migrations)
BY CallAssumption, BuildAssumption DEF Build

LEMMA TypedInit == Init => Typed
<1> SUFFICES ASSUME Init PROVE Typed
  OBVIOUS
<1>1. ControlOK
  BY DEF Init, ControlOK, Phases, Answers
<1>2. SchemaOK
  BY BuildAssumption DEF Init, SchemaOK
<1>3. OneLeft
  BY DEF Init, OneLeft
<1> QED BY <1>1, <1>2, <1>3 DEF Typed, TypeOK

LEMMA ControlStep == TypeOK /\ [Next]_vars => ControlOK'
<1> SUFFICES ASSUME ControlOK, [Next]_vars PROVE ControlOK'
  BY DEF TypeOK
<1>1. ASSUME NEW c \in Calls, Request(c) PROVE ControlOK'
  BY <1>1 DEF Request, Goto, ControlOK, Phases, waiting, file
<1>2. ASSUME NEW c \in Calls, TakeConnection(c) PROVE ControlOK'
  <2>1. pc' \in [Calls -> Phases]
    BY <1>2 DEF TakeConnection, Goto, Finish, ControlOK, Phases
  <2>2. result' \in [Calls -> Answers]
    BY <1>2 DEF TakeConnection, Finish, ControlOK, Answers
  <2>3. conn' \in [Servers -> Calls \cup {None}]
    BY <1>2 DEF TakeConnection, ControlOK
  <2> QED BY <1>2, <2>1, <2>2, <2>3 DEF TakeConnection, ControlOK, waiting, file
<1>3. ASSUME NEW c \in Calls, TryLock(c) PROVE ControlOK'
  <2>1. polls' \in [Calls -> Nat]
    BY <1>3 DEF TryLock, ControlOK
  <2>2. flock' \in Calls \cup {None}
    BY <1>3 DEF TryLock, ControlOK, Acquire
  <2>3. pc' \in [Calls -> Phases]
    BY <1>3, CallAssumption DEF TryLock, ControlOK, Acquire, FirstPhase, Goto, Finish, Phases
  <2>4. result' \in [Calls -> Answers]
    BY <1>3 DEF TryLock, ControlOK, Acquire, FirstPhase, Goto, Finish, Answers, WaitError
  <2> QED BY <1>3, <2>1, <2>2, <2>3, <2>4 DEF TryLock, ControlOK, file
<1>4. ASSUME NEW c \in Calls, NEW a \in Phases, NEW b \in Phases, Statement(c, a, b) PROVE ControlOK'
  <2>1. pc' \in [Calls -> Phases] /\ result' \in [Calls -> Answers] /\ tries' \in [Calls -> Nat]
    BY <1>4, BusyTypes, BrokenTypes, SucceedTypes DEF Statement
  <2> QED BY <1>4, <2>1 DEF Statement, ControlOK
<1>5. ASSUME NEW c \in Calls, Exec(c) PROVE ControlOK'
  <2>1. pc' \in [Calls -> Phases] /\ result' \in [Calls -> Answers] /\ tries' \in [Calls -> Nat]
    <3>1. CASE Busy(c) \/ Broken(c)
      BY <3>1, BusyTypes, BrokenTypes
    <3>2. CASE UNCHANGED tries /\ (Finish(c, "ok") \/ Finish(c, "error") \/ Finish(c, "context"))
      BY <3>2, FinishTypes DEF Answers, ControlOK
    <3> QED BY <1>5, <3>1, <3>2 DEF Exec
  <2>2. written' \in [Calls -> Nat]
    BY <1>5 DEF Exec, ControlOK
  <2> QED BY <1>5, <2>1, <2>2 DEF Exec, ControlOK
<1>6. ASSUME NEW c \in Calls, Rows(c) PROVE ControlOK'
  <2>1. PICK a \in Answers : Finish(c, a)
    BY <1>6 DEF Rows, Answers
  <2> QED BY <1>6, <2>1, FinishTypes DEF Rows, ControlOK, waiting, file
<1>7. ASSUME NEW c \in Calls, Commit(c) PROVE ControlOK'
  <2>1. PICK a \in Answers : Finish(c, a)
    BY <1>7 DEF Commit, Answers
  <2>2. written' \in [Calls -> Nat]
    BY <1>7 DEF Commit, ControlOK
  <2> QED BY <1>7, <2>1, <2>2, FinishTypes DEF Commit, ControlOK, waiting
<1>8. ASSUME NEW c \in Calls, Close(c) PROVE ControlOK'
  <2>1. pc' \in [Calls -> Phases]
    BY <1>8 DEF Close, Goto, ControlOK, Phases
  <2>2. conn' \in [Servers -> Calls \cup {None}]
    BY <1>8 DEF Close, ControlOK
  <2>3. database' \in [Servers -> {"closed", "open"}]
    BY <1>8 DEF Close, ControlOK
  <2> QED BY <1>8, <2>1, <2>2, <2>3 DEF Close, ControlOK, waiting, file
<1>9. ASSUME NEW c \in Calls, Validate(c) PROVE ControlOK'
  <2>1. pc' \in [Calls -> Phases] /\ result' \in [Calls -> Answers] /\ tries' \in [Calls -> Nat]
    <3>1. CASE Busy(c) \/ Broken(c)
      BY <3>1, BusyTypes, BrokenTypes
    <3>2. CASE Finish(c, "refused") /\ UNCHANGED tries
      BY <3>2, FinishTypes DEF Answers, ControlOK
    <3>3. CASE Succeed(c, "migrate")
      BY <3>3, SucceedTypes DEF Phases
    <3> QED BY <1>9, <3>1, <3>2, <3>3 DEF Validate
  <2> QED BY <1>9, <2>1 DEF Validate, ControlOK
<1>10. ASSUME NEW c \in Calls, Migrate(c) PROVE ControlOK'
  <2>1. pc' \in [Calls -> Phases] /\ result' \in [Calls -> Answers] /\ tries' \in [Calls -> Nat]
    <3>1. CASE Busy(c) \/ Broken(c)
      BY <3>1, BusyTypes, BrokenTypes
    <3>2. CASE Succeed(c, "record")
      BY <3>2, SucceedTypes DEF Phases
    <3> QED BY <1>10, <3>1, <3>2 DEF Migrate
  <2> QED BY <1>10, <2>1 DEF Migrate, ControlOK, file
<1>11. ASSUME NEW c \in Calls, RecordMigration(c) PROVE ControlOK'
  <2>1. pc' \in [Calls -> Phases] /\ result' \in [Calls -> Answers] /\ tries' \in [Calls -> Nat]
    <3>1. CASE UNCHANGED tries /\ \E a \in Answers : Finish(c, a)
      BY <3>1, FinishTypes DEF ControlOK
    <3>2. CASE Succeed(c, "migrate")
      BY <3>2, SucceedTypes DEF Phases
    <3> QED BY <1>11, <3>1, <3>2 DEF RecordMigration, Answers
  <2> QED BY <1>11, <2>1 DEF RecordMigration, ControlOK, file
<1>12. ASSUME NEW c \in Calls, Migrated(c) PROVE ControlOK'
  <2>1. PICK a \in Answers : Finish(c, a)
    BY <1>12 DEF Migrated, Answers
  <2> QED BY <1>12, <2>1, FinishTypes DEF Migrated, ControlOK, waiting, file
<1>13. ASSUME NEW s \in Servers, Quit(s) PROVE ControlOK'
  BY <1>13 DEF Quit, ControlOK, waiting, file
<1>14. ASSUME NEW s \in Servers, Crash(s) PROVE ControlOK'
  <2>1. pc' \in [Calls -> Phases] /\ result' \in [Calls -> Answers]
    BY <1>14 DEF Crash, ControlOK, Phases, Answers
  <2>2. flock' \in Calls \cup {None}
    BY <1>14 DEF Crash, ControlOK
  <2>3. conn' \in [Servers -> Calls \cup {None}] /\ database' \in [Servers -> {"closed", "open"}]
    BY <1>14 DEF Crash, ControlOK
  <2> QED BY <1>14, <2>1, <2>2, <2>3 DEF Crash, ControlOK, waiting, file
<1>15. ASSUME NEW c \in Calls, Expire(c) PROVE ControlOK'
  BY <1>15 DEF Expire, ControlOK, waiting, file
<1>16. CASE Interfere
  BY <1>16, BoundAssumption DEF Interfere, ControlOK, waiting, file
<1>17. CASE UNCHANGED vars
  BY <1>17 DEF vars, ControlOK, waiting, file
<1> QED
  BY <1>1, <1>2, <1>3, <1>4, <1>5, <1>6, <1>7, <1>8, <1>9, <1>10, <1>11, <1>12,
     <1>13, <1>14, <1>15, <1>16, <1>17
  DEF Next, Advance, Query, Begin, Body, Prepare, Phases

\* Which phases each action leads to, and that nobody else moves.
Moves(c, phases) == \E p \in phases : pc' = [pc EXCEPT ![c] = p]

LEMMA BusyMoves ==
  ASSUME NEW c \in Calls, Busy(c) \/ Broken(c), ControlOK
  PROVE  \/ UNCHANGED <<pc, result>>
         \/ \E a \in {"busy", "context", "error"} : Finish(c, a)
BY DEF Busy, Broken, ControlOK

LEMMA StatementMoves ==
  ASSUME NEW c \in Calls, NEW a \in Phases, NEW b \in Phases, Statement(c, a, b), ControlOK
  PROVE  Moves(c, {a, b, "close"})
<1>1. CASE UNCHANGED pc
  <2>1. pc' = [pc EXCEPT ![c] = a]
    BY <1>1 DEF Statement, ControlOK
  <2> QED BY <2>1 DEF Moves
<1>2. CASE pc' = [pc EXCEPT ![c] = "close"]
  BY <1>2 DEF Moves
<1>3. CASE pc' = [pc EXCEPT ![c] = b]
  BY <1>3 DEF Moves
<1> QED BY <1>1, <1>2, <1>3, BusyMoves DEF Statement, Succeed, Finish, Goto

LEMMA SchemaStep == Typed /\ [Next]_vars => SchemaOK'
<1> SUFFICES ASSUME Typed, [Next]_vars PROVE SchemaOK'
  OBVIOUS
<1> USE DEF Typed, TypeOK
<1>1. CASE UNCHANGED schema
  BY <1>1 DEF SchemaOK, schema
<1>2. ASSUME NEW c \in Calls, Validate(c) PROVE SchemaOK'
  <2>1. Len(history) \in Nat
    BY DEF SchemaOK
  <2>2. current' \in [Calls -> Nat]
    BY <1>2, <2>1 DEF Validate, SchemaOK
  <2> QED BY <1>2, <2>2 DEF Validate, SchemaOK
<1>3. ASSUME NEW c \in Calls, Migrate(c) PROVE SchemaOK'
  <2>1. <<Build(c)[current[c] + 1]>> \in Seq(Migrations)
    BY <1>3, BuildType DEF Migrate, SchemaOK
  <2> QED BY <1>3, <2>1 DEF Migrate, SchemaOK
<1>4. ASSUME NEW c \in Calls, RecordMigration(c) PROVE SchemaOK'
  <2>1. Build(c)[current[c] + 1] \in Migrations
    BY <1>4, BuildType DEF RecordMigration, OneLeft, SchemaOK
  <2>2. CASE UNCHANGED schema
    BY <2>2, <1>1
  <2>3. CASE /\ history' = Append(history, Build(c)[current[c] + 1])
             /\ tables' = tables \o draft[c]
             /\ draft' = [draft EXCEPT ![c] = <<>>]
             /\ current' = current \/ current' = [current EXCEPT ![c] = @ + 1]
    <3>1. history' \in Seq(Migrations) /\ tables' \in Seq(Migrations)
      BY <2>1, <2>3 DEF SchemaOK
    <3>2. current' \in [Calls -> Nat]
      <4>1. CASE current' = current
        BY <4>1 DEF SchemaOK
      <4>2. CASE current' = [current EXCEPT ![c] = @ + 1]
        BY <4>2 DEF SchemaOK
      <4> QED BY <2>3, <4>1, <4>2
    <3>3. draft' \in [Calls -> Seq(Migrations)]
      BY <2>3 DEF SchemaOK
    <3> QED BY <3>1, <3>2, <3>3 DEF SchemaOK
  <2> QED BY <1>4, <2>2, <2>3 DEF RecordMigration
<1>5. ASSUME NEW c \in Calls, Close(c) PROVE SchemaOK'
  BY <1>5 DEF Close, SchemaOK
<1>6. ASSUME NEW s \in Servers, Crash(s) PROVE SchemaOK'
  BY <1>6 DEF Crash, SchemaOK
<1> QED
  BY <1>1, <1>2, <1>3, <1>4, <1>5, <1>6
  DEF Next, Advance, vars, Request, TakeConnection, TryLock, Exec, Query, Rows, Begin, Body,
      Commit, Prepare, Statement, Migrated, Quit, Expire, Interfere

LEMMA OneLeftStep == Typed /\ [Next]_vars => OneLeft'
<1> SUFFICES ASSUME Typed, [Next]_vars PROVE OneLeft'
  OBVIOUS
<1> USE DEF Typed, TypeOK
<1>1. ASSUME NEW c \in Calls, NEW p \in Phases \ {"record"},
             pc' = [pc EXCEPT ![c] = p],
             \A d \in Calls \ {c} : current'[d] = current[d]
      PROVE  OneLeft'
  BY <1>1 DEF OneLeft, Build, ControlOK
<1>2. CASE UNCHANGED <<pc, current>>
  BY <1>2 DEF OneLeft, Build
<1>3. ASSUME NEW c \in Calls, NEW a \in Phases, NEW b \in Phases \ {"record"},
             a # "record", Statement(c, a, b)
      PROVE  OneLeft'
  <2>1. Moves(c, {a, b, "close"})
    BY <1>3, StatementMoves
  <2>2. PICK p \in {a, b, "close"} : pc' = [pc EXCEPT ![c] = p]
    BY <2>1 DEF Moves
  <2>3. p \in Phases \ {"record"}
    BY <1>3 DEF Phases
  <2> QED BY <1>3, <2>2, <2>3, <1>1 DEF Statement, schema
<1>4. ASSUME NEW c \in Calls, Request(c) \/ TakeConnection(c) \/ Rows(c) \/ Commit(c) \/ Migrated(c)
      PROVE  OneLeft'
  BY <1>4, <1>1 DEF Request, TakeConnection, Rows, Commit, Migrated, Goto, Finish, Phases, schema
<1>5. ASSUME NEW c \in Calls, TryLock(c) PROVE OneLeft'
  BY <1>5, <1>1, <1>2 DEF TryLock, Acquire, FirstPhase, Goto, Finish, Phases, schema
<1>6. ASSUME NEW c \in Calls, Exec(c) PROVE OneLeft'
  BY <1>6, <1>1, <1>2, BusyMoves DEF Exec, Goto, Finish, Phases, schema
<1>7. ASSUME NEW c \in Calls, Close(c) PROVE OneLeft'
  BY <1>7, <1>1 DEF Close, Goto, Phases
<1>8. ASSUME NEW c \in Calls, Validate(c) PROVE OneLeft'
  <2>1. \A d \in Calls \ {c} : current'[d] = current[d]
    BY <1>8 DEF Validate, SchemaOK
  <2>2. CASE UNCHANGED pc
    <3>1. pc' = [pc EXCEPT ![c] = "validate"]
      BY <1>8, <2>2 DEF Validate, ControlOK
    <3> QED BY <3>1, <2>1, <1>1 DEF Phases
  <2>3. CASE Goto(c, "migrate") \/ Goto(c, "close")
    BY <2>1, <2>3, <1>1 DEF Goto, Phases
  <2> QED BY <1>8, <2>2, <2>3, BusyMoves DEF Validate, Finish, Succeed
<1>9. ASSUME NEW c \in Calls, Migrate(c) PROVE OneLeft'
  <2>1. CASE Busy(c) \/ Broken(c)
    BY <1>9, <2>1, <1>1, <1>2, BusyMoves DEF Migrate, Goto, Finish, Phases
  <2>2. CASE Succeed(c, "record")
    BY <1>9, <2>2 DEF Migrate, Goto, Succeed, OneLeft, ControlOK, Build
  <2> QED BY <1>9, <2>1, <2>2 DEF Migrate
<1>10. ASSUME NEW c \in Calls, RecordMigration(c) PROVE OneLeft'
  BY <1>10, <1>1 DEF RecordMigration, Goto, Finish, Succeed, Phases, SchemaOK, schema
<1>11. ASSUME NEW s \in Servers, Crash(s) PROVE OneLeft'
  BY <1>11 DEF Crash, OneLeft, Build, ControlOK
<1> QED
  BY <1>2, <1>3, <1>4, <1>5, <1>6, <1>7, <1>8, <1>9, <1>10, <1>11
  DEF Next, Advance, vars, schema, Query, Begin, Body, Prepare, Quit, Expire, Interfere, Phases

\* Every variable keeps its type, for any number of processes, calls and
\* migrations.
THEOREM TypeCorrect == Spec => []TypeOK
<1>1. Typed /\ [Next]_vars => Typed'
  BY ControlStep, SchemaStep, OneLeftStep DEF Typed, TypeOK
<1>2. Typed => TypeOK
  BY DEF Typed
<1> QED BY TypedInit, <1>1, <1>2, PTL DEF Spec

-----------------------------------------------------------------------------
(* The lock file.  Who is inside holds it, so nobody else is; the connection *)
(* of a pool belongs to a call that is on its way.                           *)

Within == {"run", "rows", "body", "commit", "prepare", "validate", "migrate", "record"}
Holds == \A c \in Calls : Inside(c) => flock = c
LockInv == Holds /\ NothingLeaked

LEMMA InsideMeansWithin == ASSUME ControlOK, NEW c \in Calls PROVE Inside(c) <=> pc[c] \in Within
BY DEF Inside, Within, ControlOK, Phases

\* A call that goes on inside SQLite, or to its end, keeps what it holds.
LEMMA InsideStep ==
  ASSUME ControlOK, ControlOK', LockInv, NEW c \in Calls, pc[c] \in Within,
         NEW p \in Within \cup {"close"}, pc' = [pc EXCEPT ![c] = p], UNCHANGED <<flock, conn>>
  PROVE  LockInv'
<1>1. pc'[c] = p /\ \A d \in Calls \ {c} : pc'[d] = pc[d]
  BY DEF ControlOK
<1>2. \A d \in Calls : Inside(d)' => Inside(d)
  BY <1>1 DEF Inside, Within, Phases
<1>3. \A d \in Calls : Inside(d) => Inside(d)' \/ pc'[d] = "close"
  BY <1>1 DEF Inside, Within, Phases
<1>4. Holds'
  BY <1>2 DEF Holds, LockInv
<1>5. flock' # None => Inside(flock)' \/ pc'[flock'] = "close"
  BY <1>1, <1>3 DEF LockInv, NothingLeaked, ControlOK, Within
<1>6. \A s \in Servers : conn'[s] # None =>
        Home[conn'[s]] = s /\ (Inside(conn[s])' \/ pc'[conn[s]] \in {"lock", "close"})
  BY <1>1, <1>3 DEF LockInv, NothingLeaked, ControlOK, Within
<1> QED BY <1>4, <1>5, <1>6 DEF LockInv, NothingLeaked, Inside

LEMMA LockInit == Init => LockInv
BY DEF Init, LockInv, Holds, NothingLeaked, Inside

LEMMA LockStep == TypeOK /\ TypeOK' /\ LockInv /\ [Next]_vars => LockInv'
<1> SUFFICES ASSUME ControlOK, ControlOK', LockInv, [Next]_vars PROVE LockInv'
  BY DEF TypeOK
<1>1. CASE UNCHANGED <<pc, flock, conn>>
  BY <1>1 DEF LockInv, Holds, NothingLeaked, Inside
<1>2. ASSUME NEW c \in Calls, Request(c) PROVE LockInv'
  BY <1>2 DEF Request, Goto, LockInv, Holds, NothingLeaked, Inside, ControlOK
<1>3. ASSUME NEW c \in Calls, TakeConnection(c) PROVE LockInv'
  BY <1>3, CallAssumption DEF TakeConnection, Goto, Finish, LockInv, Holds, NothingLeaked, Inside, ControlOK
<1>4. ASSUME NEW c \in Calls, TryLock(c) PROVE LockInv'
  <2>1. CASE Acquire(c) /\ UNCHANGED conn
    BY <1>4, <2>1, BoundAssumption
    DEF TryLock, Acquire, FirstPhase, Goto, LockInv, Holds, NothingLeaked, Inside, ControlOK, Phases
  <2>2. CASE Goto(c, "close") /\ UNCHANGED <<flock, conn>>
    BY <1>4, <2>2 DEF TryLock, Goto, LockInv, Holds, NothingLeaked, Inside, ControlOK
  <2> QED BY <1>4, <1>1, <2>1, <2>2 DEF TryLock, Finish
<1>5. ASSUME NEW c \in Calls, NEW a \in Within, NEW b \in Within, Statement(c, a, b) PROVE LockInv'
  <2>1. Within \subseteq Phases
    BY DEF Within, Phases
  <2>2. PICK p \in {a, b, "close"} : pc' = [pc EXCEPT ![c] = p]
    BY <1>5, <2>1, StatementMoves DEF Moves
  <2> QED BY <1>5, <2>2, InsideStep DEF Statement
<1>6. ASSUME NEW c \in Calls, Exec(c) PROVE LockInv'
  <2>1. Goto(c, "close") \/ UNCHANGED pc
    BY <1>6, BusyMoves DEF Exec, Finish
  <2> QED BY <1>6, <2>1, <1>1, InsideStep DEF Exec, Goto, Within
<1>7. ASSUME NEW c \in Calls, Rows(c) \/ Commit(c) \/ Migrated(c) PROVE LockInv'
  BY <1>7, InsideStep DEF Rows, Commit, Migrated, Finish, Goto, Within
<1>8. ASSUME NEW c \in Calls, Validate(c) \/ Migrate(c) \/ RecordMigration(c) PROVE LockInv'
  <2>1. Goto(c, "close") \/ Goto(c, "migrate") \/ Goto(c, "record") \/ UNCHANGED pc
    BY <1>8, BusyMoves DEF Validate, Migrate, RecordMigration, Finish, Succeed
  <2>2. pc[c] \in Within /\ UNCHANGED <<flock, conn>>
    BY <1>8 DEF Validate, Migrate, RecordMigration, Within
  <2> QED BY <2>1, <2>2, <1>1, InsideStep DEF Goto, Within
<1>9. ASSUME NEW c \in Calls, Close(c) PROVE LockInv'
  <2>1. Holds'
    BY <1>9 DEF Close, Goto, LockInv, Holds, Inside, ControlOK
  <2>2. flock' # None => Inside(flock)' \/ pc'[flock'] = "close"
    BY <1>9 DEF Close, Goto, LockInv, NothingLeaked, Inside, ControlOK
  <2>3. \A s \in Servers : conn'[s] # None =>
          conn'[s] = conn[s] /\ Home[conn[s]] = s /\ conn[s] # c
    BY <1>9 DEF Close, LockInv, NothingLeaked, ControlOK
  <2>4. \A s \in Servers : conn'[s] # None =>
          Home[conn'[s]] = s /\ (Inside(conn[s])' \/ pc'[conn'[s]] \in {"lock", "close"})
    BY <1>9, <2>3 DEF Close, Goto, LockInv, NothingLeaked, Inside, ControlOK
  <2> QED BY <2>1, <2>2, <2>3, <2>4 DEF LockInv, NothingLeaked, Inside
<1>10. ASSUME NEW s \in Servers, Crash(s) PROVE LockInv'
  <2>1. \A c \in Calls : c \in Pending(s) => pc'[c] = "returned"
    BY <1>10 DEF Crash, Pending
  <2>2. \A c \in Calls : c \notin Pending(s) => pc'[c] = pc[c]
    BY <1>10 DEF Crash
  <2>3. Holds'
    BY <1>10, <2>1, <2>2 DEF Crash, LockInv, Holds, Inside
  <2>4. flock' # None => Inside(flock)' \/ pc'[flock'] = "close"
    BY <1>10, <2>1, <2>2 DEF Crash, LockInv, NothingLeaked, Inside, ControlOK
  <2>5. \A t \in Servers : conn'[t] # None => t # s /\ conn'[t] = conn[t]
    BY <1>10 DEF Crash, ControlOK
  <2>6. \A t \in Servers : conn'[t] # None => conn[t] \notin Pending(s) /\ conn[t] \in Calls
    BY <2>5 DEF Pending, LockInv, NothingLeaked, ControlOK
  <2> QED BY <2>2, <2>3, <2>4, <2>5, <2>6 DEF LockInv, NothingLeaked, Inside
<1> QED
  BY <1>1, <1>2, <1>3, <1>4, <1>5, <1>6, <1>7, <1>8, <1>9, <1>10
  DEF Next, Advance, vars, Query, Begin, Body, Prepare, Quit, Expire, Interfere, Within

\* docs/STORAGE_CONCURRENCY.md: whatever fails, is cancelled or is killed, a
\* statement, a transaction, a result set and an Open exclude each other.
THEOREM OneCallInside == Spec => []OneInside
<1>1. LockInv => OneInside
  BY DEF LockInv, Holds, OneInside
<1> QED BY TypeCorrect, LockInit, LockStep, <1>1, PTL DEF Spec

\* The lock file and the pooled connections always belong to a call that is
\* still on its way and will give them back.
THEOREM NothingIsLeaked == Spec => []NothingLeaked
<1>1. LockInv => NothingLeaked
  BY DEF LockInv
<1> QED BY TypeCorrect, LockInit, LockStep, <1>1, PTL DEF Spec

-----------------------------------------------------------------------------
(* Answers.  A call has written nothing and has no answer before its end;    *)
(* a call that may be repeated has not reached the driver.                   *)

Started == {"run", "rows", "body", "commit", "prepare", "validate", "migrate", "record",
            "close", "returned"}
Failures == {"lock busy", "busy", "context", "error", "refused"}
\* The failures that say what happened: nothing.
Definite == {"lock busy", "refused"}
KindInv == \A c \in Calls :
  /\ pc[c] \in {"prepare", "validate", "migrate", "record"} => Kind[c] = "open"
  /\ pc[c] = "rows" => Kind[c] = "rows"
  /\ pc[c] \in {"body", "commit"} => Kind[c] = "tx"
RanInv == \A c \in Calls :
  /\ c \in ran => pc[c] \in Started
  /\ result[c] = "lock busy" => c \notin ran /\ pc[c] \in {"close", "returned"}
AnswerInv == \A c \in Calls :
  /\ pc[c] \notin {"close", "returned"} => result[c] = "none" /\ written[c] = 0
  /\ pc[c] = "close" => result[c] \notin {"none", "lost"}
  /\ pc[c] = "returned" => result[c] # "none"
  /\ result[c] \in Definite => written[c] = 0
  /\ result[c] = "ok" /\ c \in Writers => written[c] = 1
  /\ written[c] \in 0..1

\* Any statement of c: c stays, or goes on, or ends with a failure.
LEMMA StatementOutcome ==
  ASSUME NEW c \in Calls, NEW a \in Phases, NEW b \in Phases, Statement(c, a, b), ControlOK
  PROVE  \/ UNCHANGED <<pc, result>>
         \/ pc' = [pc EXCEPT ![c] = b] /\ UNCHANGED result
         \/ \E r \in {"busy", "context", "error"} : Finish(c, r)
BY BusyMoves DEF Statement, Succeed, Goto

LEMMA KindStep == TypeOK /\ KindInv /\ [Next]_vars => KindInv'
<1> SUFFICES ASSUME ControlOK, KindInv, [Next]_vars PROVE KindInv'
  BY DEF TypeOK
<1>1. CASE UNCHANGED pc
  BY <1>1 DEF KindInv
<1>2. ASSUME NEW c \in Calls, NEW p \in Phases, pc' = [pc EXCEPT ![c] = p],
             \/ p \notin Within
             \/ p = "run"
             \/ Kind[c] = "open" /\ p \in {"prepare", "validate", "migrate", "record"}
             \/ Kind[c] = "rows" /\ p = "rows"
             \/ Kind[c] = "tx" /\ p \in {"body", "commit"}
      PROVE  KindInv'
  BY <1>2 DEF KindInv, ControlOK, Within
<1>3. ASSUME NEW c \in Calls, Goto(c, "close") PROVE KindInv'
  BY <1>3, <1>2 DEF Goto, Phases, Within
<1>4. ASSUME NEW c \in Calls, Request(c) \/ TakeConnection(c) \/ Close(c) PROVE KindInv'
  BY <1>4, <1>2 DEF Request, TakeConnection, Close, Goto, Finish, Phases, Within
<1>5. ASSUME NEW c \in Calls, TryLock(c) PROVE KindInv'
  BY <1>5, <1>1, <1>2, <1>3 DEF TryLock, Acquire, FirstPhase, Goto, Finish, Phases
<1>6. ASSUME NEW c \in Calls, Exec(c) \/ Rows(c) \/ Commit(c) \/ Migrated(c) PROVE KindInv'
  BY <1>6, <1>1, <1>3, BusyMoves DEF Exec, Rows, Commit, Migrated, Finish
<1>7. ASSUME NEW c \in Calls, Query(c) \/ Begin(c) \/ Body(c) \/ Prepare(c) PROVE KindInv'
  BY <1>7, <1>1, <1>2, <1>3, StatementOutcome
  DEF Query, Begin, Body, Prepare, Statement, KindInv, Finish, Phases
<1>8. ASSUME NEW c \in Calls, Validate(c) \/ Migrate(c) \/ RecordMigration(c) PROVE KindInv'
  BY <1>8, <1>1, <1>2, <1>3, BusyMoves
  DEF Validate, Migrate, RecordMigration, KindInv, Finish, Succeed, Goto, Phases
<1>9. ASSUME NEW s \in Servers, Crash(s) PROVE KindInv'
  BY <1>9 DEF Crash, KindInv
<1> QED
  BY <1>1, <1>4, <1>5, <1>6, <1>7, <1>8, <1>9
  DEF Next, Advance, vars, Quit, Expire, Interfere

LEMMA RanStep == TypeOK /\ RanInv /\ [Next]_vars => RanInv'
<1> SUFFICES ASSUME ControlOK, RanInv, [Next]_vars PROVE RanInv'
  BY DEF TypeOK
<1>1. ASSUME NEW c \in Calls, NEW p \in Phases, pc' = [pc EXCEPT ![c] = p],
             c \in ran => p \in Started,
             pc[c] \notin {"close", "returned"}, UNCHANGED <<result, ran>>
      PROVE  RanInv'
  BY <1>1 DEF RanInv, ControlOK
<1>2. ASSUME NEW c \in Calls, NEW r \in Answers \ {"lock busy"}, Finish(c, r),
             pc[c] \notin {"close", "returned"}, ran' \subseteq ran \cup {c}, ran \subseteq ran'
      PROVE  RanInv'
  BY <1>2 DEF RanInv, ControlOK, Finish, Goto, Started
<1>3. ASSUME NEW c \in Calls, NEW p \in Started \ {"returned"}, pc' = [pc EXCEPT ![c] = p],
             pc[c] \notin {"close", "returned"}, ran' = ran \cup {c}, UNCHANGED result
      PROVE  RanInv'
  BY <1>3 DEF RanInv, ControlOK, Started
<1>4. CASE UNCHANGED <<pc, result, ran>>
  BY <1>4 DEF RanInv
<1>5. ASSUME NEW c \in Calls, Request(c) \/ TakeConnection(c) PROVE RanInv'
  BY <1>5, <1>1, <1>2 DEF Request, TakeConnection, RanInv, Goto, Finish, Phases, Started, Answers, file
<1>6. ASSUME NEW c \in Calls, TryLock(c) PROVE RanInv'
  <2>1. c \notin ran /\ pc[c] = "lock" /\ UNCHANGED ran
    BY <1>6 DEF TryLock, RanInv, Started, file
  <2>2. CASE Acquire(c) /\ UNCHANGED result
    BY <2>1, <2>2, <1>1 DEF Acquire, FirstPhase, Goto, Phases
  <2>3. CASE Finish(c, "lock busy")
    BY <2>1, <2>3 DEF RanInv, ControlOK, Finish, Goto
  <2>4. CASE Finish(c, "context") \/ Finish(c, "error")
    BY <2>1, <2>4, <1>2 DEF Answers
  <2> QED BY <1>6, <2>1, <2>2, <2>3, <2>4, <1>4 DEF TryLock, WaitError
<1>7. ASSUME NEW c \in Calls, NEW a \in Within, NEW b \in Within, Statement(c, a, b) PROVE RanInv'
  <2>1. Within \subseteq Phases /\ Within \subseteq Started \ {"close", "returned"}
    BY DEF Within, Phases, Started
  <2>2. ran' = ran \cup {c} /\ pc[c] = a
    BY <1>7 DEF Statement
  <2>3. CASE UNCHANGED <<pc, result>>
    <3>1. pc' = [pc EXCEPT ![c] = a]
      BY <2>2, <2>3 DEF ControlOK
    <3> QED BY <3>1, <2>1, <2>2, <2>3, <1>3
  <2>4. CASE pc' = [pc EXCEPT ![c] = b] /\ UNCHANGED result
    BY <2>1, <2>2, <2>4, <1>3
  <2>5. CASE \E r \in {"busy", "context", "error"} : Finish(c, r)
    BY <2>1, <2>2, <2>5, <1>2 DEF Answers
  <2> QED BY <1>7, <2>1, <2>3, <2>4, <2>5, StatementOutcome
<1>8. ASSUME NEW c \in Calls, Exec(c) PROVE RanInv'
  <2>1. ran' = ran \cup {c} /\ pc[c] = "run"
    BY <1>8 DEF Exec
  <2>2. CASE UNCHANGED <<pc, result>>
    <3>1. pc' = [pc EXCEPT ![c] = "run"]
      BY <2>1, <2>2 DEF ControlOK
    <3> QED BY <3>1, <2>1, <2>2, <1>3 DEF Started
  <2>3. CASE \E r \in {"busy", "context", "error", "ok"} : Finish(c, r)
    BY <2>1, <2>3, <1>2 DEF Answers
  <2> QED BY <1>8, <2>2, <2>3, BusyMoves DEF Exec
<1>9. ASSUME NEW c \in Calls, Rows(c) \/ Commit(c) \/ Migrated(c) PROVE RanInv'
  <2>1. PICK r \in {"busy", "context", "error", "ok"} : Finish(c, r)
    BY <1>9 DEF Rows, Commit, Migrated
  <2> QED BY <1>9, <2>1, <1>2 DEF Rows, Commit, Migrated, Answers, file
<1>10. ASSUME NEW c \in Calls, Validate(c) PROVE RanInv'
  <2>1. ran' = ran \cup {c} /\ pc[c] = "validate"
    BY <1>10 DEF Validate
  <2>2. CASE UNCHANGED <<pc, result>>
    <3>1. pc' = [pc EXCEPT ![c] = "validate"]
      BY <2>1, <2>2 DEF ControlOK
    <3> QED BY <3>1, <2>1, <2>2, <1>3 DEF Started
  <2>3. CASE Succeed(c, "migrate")
    BY <2>1, <2>3, <1>3 DEF Succeed, Goto, Started
  <2>4. CASE \E r \in {"busy", "context", "error", "refused"} : Finish(c, r)
    BY <2>1, <2>4, <1>2 DEF Answers
  <2> QED BY <1>10, <2>2, <2>3, <2>4, BusyMoves DEF Validate
<1>11. ASSUME NEW c \in Calls, Migrate(c) \/ RecordMigration(c) PROVE RanInv'
  <2>1. UNCHANGED ran /\ pc[c] \in {"migrate", "record"}
    BY <1>11 DEF Migrate, RecordMigration, file
  <2>2. CASE UNCHANGED <<pc, result>>
    BY <2>1, <2>2, <1>4
  <2>3. CASE Succeed(c, "migrate") \/ Succeed(c, "record")
    BY <2>1, <2>3, <1>1 DEF Succeed, Goto, Started, Phases
  <2>4. CASE \E r \in {"busy", "context", "error"} : Finish(c, r)
    BY <2>1, <2>4, <1>2 DEF Answers
  <2> QED BY <1>11, <2>2, <2>3, <2>4, BusyMoves DEF Migrate, RecordMigration
<1>12. ASSUME NEW c \in Calls, Close(c) PROVE RanInv'
  BY <1>12 DEF Close, Goto, RanInv, ControlOK, Started, file
<1>13. ASSUME NEW s \in Servers, Crash(s) PROVE RanInv'
  BY <1>13 DEF Crash, Pending, RanInv, Started, file
<1> QED
  BY <1>4, <1>5, <1>6, <1>7, <1>8, <1>9, <1>10, <1>11, <1>12, <1>13
  DEF Next, Advance, vars, file, Query, Begin, Body, Prepare, Quit, Expire, Interfere, Within

\* storage_lock.go: a call that is reported as "lock busy" was not run at all,
\* so a caller may repeat it.
THEOREM LockBusyIsRepeatable == Spec => []LockBusyNeverRan
<1>1. Init => RanInv
  BY DEF Init, RanInv
<1>2. RanInv => LockBusyNeverRan
  BY DEF RanInv, LockBusyNeverRan
<1> QED BY TypeCorrect, <1>1, RanStep, <1>2, PTL DEF Spec

-----------------------------------------------------------------------------
(* Refinement of AtomicStore                                                *)

LEMMA AnswerStep == TypeOK /\ KindInv /\ AnswerInv /\ [Next]_vars => AnswerInv'
<1> SUFFICES ASSUME ControlOK, KindInv, AnswerInv, [Next]_vars PROVE AnswerInv'
  BY DEF TypeOK
<1> DEFINE Ended == {"close", "returned"}
<1>1. CASE UNCHANGED <<pc, result, written>>
  BY <1>1 DEF AnswerInv
<1>2. ASSUME NEW c \in Calls, NEW p \in Phases \ Ended, pc[c] \notin Ended,
             pc' = [pc EXCEPT ![c] = p], UNCHANGED <<result, written>>
      PROVE  AnswerInv'
  BY <1>2 DEF AnswerInv, ControlOK
<1>3. ASSUME NEW c \in Calls, NEW r \in Failures, pc[c] \notin Ended, Finish(c, r), UNCHANGED written
      PROVE  AnswerInv'
  BY <1>3 DEF AnswerInv, ControlOK, Finish, Goto, Failures, Definite
<1>4. ASSUME NEW c \in Calls, c \notin Writers, pc[c] \notin Ended, Finish(c, "ok"), UNCHANGED written
      PROVE  AnswerInv'
  BY <1>4 DEF AnswerInv, ControlOK, Finish, Goto, Failures, Definite
<1>5. ASSUME NEW c \in Calls, NEW r \in {"ok", "context", "error", "busy"}, pc[c] \notin Ended, Finish(c, r),
             written' = [written EXCEPT ![c] = @ + 1]
      PROVE  AnswerInv'
  <2>1. written[c] = 0
    BY <1>5 DEF AnswerInv
  <2>2. written'[c] = 1 /\ pc'[c] = "close" /\ result'[c] = r
    BY <1>5, <2>1 DEF ControlOK, Finish, Goto
  <2>3. \A d \in Calls \ {c} : written'[d] = written[d] /\ pc'[d] = pc[d] /\ result'[d] = result[d]
    BY <1>5 DEF ControlOK, Finish, Goto
  <2>4. \A d \in Calls \ {c} :
          /\ pc'[d] \notin {"close", "returned"} => result'[d] = "none" /\ written'[d] = 0
          /\ pc'[d] = "close" => result'[d] \notin {"none", "lost"}
          /\ pc'[d] = "returned" => result'[d] # "none"
          /\ result'[d] \in Definite => written'[d] = 0
          /\ result'[d] = "ok" /\ d \in Writers => written'[d] = 1
          /\ written'[d] \in 0..1
    BY <2>3 DEF AnswerInv
  <2>5. result'[c] \notin Definite
    BY <2>2 DEF Definite
  <2>6. Writers' = Writers
    BY DEF Writers
  <2>7. result'[c] \notin {"none", "lost"}
    BY <2>2
  <2> QED BY <2>2, <2>4, <2>5, <2>6, <2>7 DEF AnswerInv
<1>6. ASSUME NEW c \in Calls, Request(c) \/ TakeConnection(c) PROVE AnswerInv'
  BY <1>6, <1>2, <1>3 DEF Request, TakeConnection, Goto, Finish, Phases, Failures, file
<1>7. ASSUME NEW c \in Calls, TryLock(c) PROVE AnswerInv'
  <2>1. UNCHANGED written /\ pc[c] = "lock"
    BY <1>7 DEF TryLock, file
  <2>2. CASE Acquire(c) /\ UNCHANGED result
    BY <2>1, <2>2, <1>2 DEF Acquire, FirstPhase, Goto, Phases
  <2>3. CASE \E r \in Failures : Finish(c, r)
    BY <2>1, <2>3, <1>3
  <2>4. CASE UNCHANGED <<pc, result>>
    BY <2>1, <2>4, <1>1
  <2> QED BY <1>7, <2>2, <2>3, <2>4 DEF TryLock, WaitError, Failures
<1>8. ASSUME NEW c \in Calls, NEW a \in Within, NEW b \in Within, Statement(c, a, b) PROVE AnswerInv'
  <2>1. Within \subseteq Phases \ Ended
    BY DEF Within, Phases
  <2>2. UNCHANGED written /\ pc[c] = a
    BY <1>8 DEF Statement
  <2> QED BY <1>8, <2>1, <2>2, <1>1, <1>2, <1>3, StatementOutcome DEF Failures
<1>9. ASSUME NEW c \in Calls, Exec(c) PROVE AnswerInv'
  <2>1. pc[c] = "run"
    BY <1>9 DEF Exec
  <2>2. CASE (Busy(c) \/ Broken(c)) /\ UNCHANGED written
    BY <2>1, <2>2, <1>1, <1>3, BusyMoves DEF Failures
  <2>3. CASE written' = [written EXCEPT ![c] = @ + 1] /\ \E r \in {"ok", "context", "error"} : Finish(c, r)
    BY <2>1, <2>3, <1>5
  <2> QED BY <1>9, <2>2, <2>3 DEF Exec
<1>10. ASSUME NEW c \in Calls, Rows(c) \/ Migrated(c) PROVE AnswerInv'
  <2>1. c \notin Writers /\ pc[c] \notin Ended /\ UNCHANGED written
    BY <1>10 DEF Rows, Migrated, KindInv, Writers, file
  <2> QED BY <1>10, <2>1, <1>3, <1>4 DEF Rows, Migrated, Failures
<1>11. ASSUME NEW c \in Calls, Commit(c) PROVE AnswerInv'
  <2>1. pc[c] \notin Ended
    BY <1>11 DEF Commit
  <2>2. /\ written \in [Calls -> Nat]
        /\ \E r \in {"ok", "context", "error", "busy"} : Finish(c, r)
        /\ ~Finish(c, "ok") \/ written' = [written EXCEPT ![c] = @ + 1]
        /\ UNCHANGED written \/ written' = [written EXCEPT ![c] = @ + 1]
    BY <1>11 DEF Commit, Finish, ControlOK
  <2>3. CASE written' = [written EXCEPT ![c] = @ + 1]
    BY <2>1, <2>2, <2>3, <1>5
  <2>4. CASE UNCHANGED written /\ ~Finish(c, "ok")
    BY <2>1, <2>2, <2>4, <1>3 DEF Failures
  <2> QED BY <2>2, <2>3, <2>4
<1>12. ASSUME NEW c \in Calls, Validate(c) \/ Migrate(c) \/ RecordMigration(c) PROVE AnswerInv'
  <2>1. pc[c] \notin Ended /\ UNCHANGED written
    BY <1>12 DEF Validate, Migrate, RecordMigration, file
  <2>2. CASE UNCHANGED <<pc, result>>
    BY <2>1, <2>2, <1>1
  <2>3. CASE Succeed(c, "migrate") \/ Succeed(c, "record")
    BY <2>1, <2>3, <1>2 DEF Succeed, Goto, Phases
  <2>4. CASE \E r \in {"busy", "context", "error", "refused"} : Finish(c, r)
    BY <2>1, <2>4, <1>3 DEF Failures
  <2> QED BY <1>12, <2>2, <2>3, <2>4, BusyMoves DEF Validate, Migrate, RecordMigration
<1>13. ASSUME NEW c \in Calls, Close(c) PROVE AnswerInv'
  BY <1>13 DEF Close, Goto, AnswerInv, ControlOK, file
<1>14. ASSUME NEW s \in Servers, Crash(s) PROVE AnswerInv'
  BY <1>14 DEF Crash, Pending, AnswerInv, ControlOK, Failures, Definite, file
<1> QED
  BY <1>1, <1>6, <1>7, <1>8, <1>9, <1>10, <1>11, <1>12, <1>13, <1>14
  DEF Next, Advance, vars, file, Query, Begin, Body, Prepare, Quit, Expire, Interfere, Within

\* An answer is given in Close or when the process dies; nothing else gives one.
LEMMA AnswersStay ==
  ASSUME NEW c \in Calls, pc'[c] # "returned", pc[c] # "returned"
  PROVE  Answer(c)' = Answer(c)
BY DEF Answer

LEMMA AbstractStep ==
  TypeOK /\ TypeOK' /\ KindInv /\ AnswerInv /\ AnswerInv' /\ [Next]_vars => [Abstract!Next]_(Abstract!vars)
<1> SUFFICES ASSUME ControlOK, ControlOK', KindInv, AnswerInv, AnswerInv', [Next]_vars
             PROVE  [Abstract!Next]_(Abstract!vars)
  BY DEF TypeOK
<1> DEFINE answer == [c \in Calls |-> Answer(c)]
<1>1. ASSUME UNCHANGED <<written, result>>, \A d \in Calls : (pc'[d] = "returned") <=> (pc[d] = "returned")
      PROVE  UNCHANGED Abstract!vars
  <2>1. \A d \in Calls : Answer(d)' = Answer(d)
    BY <1>1 DEF Answer
  <2>2. answer' = answer
    BY <2>1
  <2> QED BY <1>1, <2>2 DEF Abstract!vars
<1>2. ASSUME NEW c \in Calls, pc[c] # "returned", pc'[c] # "returned",
             \A d \in Calls \ {c} : pc'[d] = pc[d] /\ result'[d] = result[d]
      PROVE  answer' = answer
  <2>1. \A d \in Calls : Answer(d)' = Answer(d)
    BY <1>2 DEF Answer
  <2> QED BY <2>1
<1>3. ASSUME NEW c \in Calls, pc[c] # "returned", pc'[c] # "returned", UNCHANGED written,
             \A d \in Calls \ {c} : pc'[d] = pc[d] /\ result'[d] = result[d]
      PROVE  UNCHANGED Abstract!vars
  BY <1>2, <1>3 DEF Abstract!vars
<1>4. ASSUME NEW c \in Calls, c \in Writers, NEW r \in Answers, pc[c] \notin {"close", "returned"}, Finish(c, r),
             written' = [written EXCEPT ![c] = @ + 1]
      PROVE  Abstract!Effect(c)
  <2>1. answer' = answer
    BY <1>2, <1>4 DEF Finish, Goto, ControlOK
  <2>2. written[c] = 0 /\ answer[c] = "none"
    BY <1>4 DEF AnswerInv, Answer
  <2> QED BY <1>4, <2>1, <2>2 DEF Abstract!Effect
<1>5. ASSUME NEW c \in Calls, Exec(c) \/ Commit(c) PROVE [Abstract!Next]_(Abstract!vars)
  <2>1. c \in Writers /\ pc[c] \notin {"close", "returned"}
    BY <1>5 DEF Exec, Commit, KindInv, Writers
  <2>2. CASE written' = [written EXCEPT ![c] = @ + 1] /\ \E r \in {"ok", "context", "error", "busy"} : Finish(c, r)
    BY <2>1, <2>2, <1>4 DEF Abstract!Next, Answers
  <2>3. CASE UNCHANGED <<pc, result, written>>
    BY <2>3, <1>1
  <2>4. CASE UNCHANGED written /\ \E r \in Answers : Finish(c, r)
    BY <2>1, <2>4, <1>3 DEF Finish, Goto, ControlOK
  <2>5. CASE Exec(c)
    BY <2>2, <2>3, <2>4, <2>5, BusyMoves DEF Exec, Answers
  <2>6. CASE Commit(c)
    <3>1. UNCHANGED written \/ written' = [written EXCEPT ![c] = @ + 1]
      BY <2>6 DEF Commit, ControlOK
    <3>2. \E r \in {"ok", "context", "error", "busy"} : Finish(c, r)
      BY <2>6 DEF Commit
    <3> QED BY <3>1, <3>2, <2>2, <2>4 DEF Answers
  <2> QED BY <1>5, <2>5, <2>6
<1>6. ASSUME NEW c \in Calls, Close(c) PROVE Abstract!Next
  <2>1. pc'[c] = "returned" /\ pc[c] = "close" /\ UNCHANGED <<result, written>>
    BY <1>6 DEF Close, Goto, ControlOK, file
  <2>2. \A d \in Calls \ {c} : Answer(d)' = Answer(d)
    BY <1>6 DEF Close, Goto, Answer, ControlOK
  <2>3. answer[c] = "none" /\ Answer(c)' \in {"ok", "failed", "unknown"}
    BY <2>1 DEF Answer, AnswerInv
  <2>4. Answer(c)' = "ok" => result[c] = "ok"
    BY <2>1 DEF Answer
  <2>5. Answer(c)' = "failed" => result[c] \in Definite
    BY <2>1 DEF Answer, AnswerInv, ControlOK, Answers, Definite
  <2>6. answer' = [answer EXCEPT ![c] = Answer(c)']
    BY <2>2
  <2>7. Answer(c)' = "ok" => (c \in Writers => written[c] = 1)
    BY <2>4 DEF AnswerInv
  <2>8. Answer(c)' = "failed" => written[c] = 0
    BY <2>5 DEF AnswerInv
  <2>9. Abstract!Return(c, Answer(c)')
    BY <2>1, <2>3, <2>6, <2>7, <2>8 DEF Abstract!Return
  <2> QED BY <2>3, <2>9 DEF Abstract!Next
<1>7. ASSUME NEW s \in Servers, Crash(s) PROVE Abstract!Next
  <2>1. \A d \in Pending(s) : pc[d] # "returned" /\ pc'[d] = "returned" /\ result'[d] = "lost"
    BY <1>7 DEF Crash, Pending
  <2>2. \A d \in Calls \ Pending(s) : pc'[d] = pc[d] /\ result'[d] = result[d]
    BY <1>7 DEF Crash
  <2>3. \A d \in Calls : Answer(d)' = IF d \in Pending(s) THEN "unknown" ELSE Answer(d)
    BY <2>1, <2>2 DEF Answer
  <2>4. \A d \in Pending(s) : answer[d] = "none"
    BY <2>1 DEF Answer, Pending
  <2>5. answer' = [d \in Calls |-> IF d \in Pending(s) THEN "unknown" ELSE answer[d]]
    BY <2>3
  <2>6. UNCHANGED written
    BY <1>7 DEF Crash, file
  <2>7. Abstract!Lose(Pending(s))
    BY <2>4, <2>5, <2>6 DEF Abstract!Lose
  <2>8. Pending(s) \in SUBSET Calls
    BY DEF Pending
  <2> QED BY <2>7, <2>8 DEF Abstract!Next
<1>8. ASSUME NEW c \in Calls, NEW a \in Within, NEW b \in Within, Statement(c, a, b)
      PROVE  UNCHANGED Abstract!vars
  <2>1. Within \subseteq Phases
    BY DEF Within, Phases
  <2>2. pc[c] = a /\ a # "returned" /\ b # "returned" /\ UNCHANGED written
    BY <1>8 DEF Statement, Within
  <2>3. pc'[c] # "returned" /\ \A d \in Calls \ {c} : pc'[d] = pc[d] /\ result'[d] = result[d]
    <3>1. CASE UNCHANGED <<pc, result>>
      BY <2>2, <3>1
    <3>2. CASE pc' = [pc EXCEPT ![c] = b] /\ UNCHANGED result
      BY <2>2, <3>2 DEF ControlOK
    <3>3. CASE \E r \in {"busy", "context", "error"} : Finish(c, r)
      BY <3>3 DEF Finish, Goto, ControlOK
    <3> QED BY <1>8, <2>1, <3>1, <3>2, <3>3, StatementOutcome
  <2> QED BY <2>2, <2>3, <1>3
<1>9. ASSUME NEW c \in Calls, Validate(c) \/ Migrate(c) \/ RecordMigration(c) PROVE UNCHANGED Abstract!vars
  <2>1. pc[c] # "returned" /\ UNCHANGED written
    BY <1>9 DEF Validate, Migrate, RecordMigration, file
  <2>2. \/ UNCHANGED <<pc, result>>
        \/ (Goto(c, "migrate") \/ Goto(c, "record")) /\ UNCHANGED result
        \/ \E r \in Answers : Finish(c, r)
    BY <1>9, BusyMoves DEF Validate, Migrate, RecordMigration, Succeed, Answers
  <2> QED BY <2>1, <2>2, <1>3 DEF Finish, Goto, ControlOK
<1>10. ASSUME NEW c \in Calls,
              Request(c) \/ TakeConnection(c) \/ TryLock(c) \/ Rows(c) \/ Migrated(c)
       PROVE  UNCHANGED Abstract!vars
  <2>1. pc[c] # "returned" /\ UNCHANGED written
    BY <1>10 DEF Request, TakeConnection, TryLock, Rows, Migrated, file
  <2>2. \/ UNCHANGED <<pc, result>>
        \/ (\E p \in Phases \ {"returned"} : Goto(c, p)) /\ UNCHANGED result
        \/ \E r \in Answers : Finish(c, r)
    BY <1>10 DEF Request, TakeConnection, TryLock, Rows, Migrated, Acquire, FirstPhase, WaitError, Phases, Answers
  <2> QED BY <2>1, <2>2, <1>3 DEF Finish, Goto, ControlOK
<1> QED
  BY <1>1, <1>5, <1>6, <1>7, <1>8, <1>9, <1>10
  DEF Next, Advance, vars, file, Query, Begin, Body, Prepare, Quit, Expire, Interfere, Within

\* The retries, the lock file and the deaths of processes do not show: callers
\* see the store of AtomicStore.
THEOREM ImplementsAtomicStore == Spec => AnswersAreTrue
<1>1. Init => KindInv
  BY DEF Init, KindInv
<1>2. Init => AnswerInv
  BY DEF Init, AnswerInv, Failures, Definite
<1>3. Init => Abstract!Init
  BY DEF Init, Abstract!Init, Answer
<1> QED
  BY TypeCorrect, <1>1, <1>2, <1>3, KindStep, AnswerStep, AbstractStep, PTL
  DEF Spec, AnswersAreTrue, Abstract!Spec

-----------------------------------------------------------------------------
(* Migrations.  The version an Open has read stays true, because it holds the *)
(* lock file while it migrates.                                               *)

Has(s) == \A v \in DOMAIN Builds[s] : v \in DOMAIN history /\ Accepted(history[v], Builds[s][v])
MigrationInv ==
  /\ tables = history
  /\ \A c \in Calls :
       /\ pc[c] \in {"migrate", "record"} => current[c] = Len(history) /\ Fits(Home[c])
       /\ pc[c] = "record" => draft[c] = <<Build(c)[current[c] + 1]>>
       /\ pc[c] = "close" /\ Kind[c] = "open" /\ result[c] = "ok" => Has(Home[c])
  /\ OpenDatabaseIsMigrated

LEMMA HasStays ==
  ASSUME NEW s \in Servers, NEW m, history \in Seq(Migrations), m \in Migrations,
         history' = Append(history, m), Has(s)
  PROVE  Has(s)'
BY DEF Has

LEMMA MigrationStep ==
  Typed /\ LockInv /\ KindInv /\ MigrationInv /\ [Next]_vars => MigrationInv'
<1> SUFFICES ASSUME ControlOK, SchemaOK, OneLeft, LockInv, KindInv, MigrationInv, [Next]_vars
             PROVE  MigrationInv'
  BY DEF Typed, TypeOK
<1>1. CASE UNCHANGED <<pc, result, database, schema>>
  BY <1>1 DEF MigrationInv, OpenDatabaseIsMigrated, Has, Fits, Build, schema
<1>2. ASSUME NEW c \in Calls, NEW p \in Phases \ {"migrate", "record"},
             pc' = [pc EXCEPT ![c] = p],
             \A d \in Calls \ {c} : result'[d] = result[d],
             p = "close" => Kind[c] # "open" \/ result'[c] # "ok",
             UNCHANGED <<database, schema>>
      PROVE  MigrationInv'
  BY <1>2 DEF MigrationInv, OpenDatabaseIsMigrated, Has, Fits, Build, schema, ControlOK
<1>3. ASSUME NEW c \in Calls, NEW r \in Answers \ {"ok"}, Finish(c, r), UNCHANGED <<database, schema>>
      PROVE  MigrationInv'
  BY <1>3, <1>2 DEF Finish, Goto, Phases, ControlOK
<1>4. ASSUME NEW c \in Calls, Request(c) \/ TakeConnection(c) PROVE MigrationInv'
  BY <1>4, <1>2, <1>3 DEF Request, TakeConnection, Goto, Phases, Answers
<1>5. ASSUME NEW c \in Calls, TryLock(c) PROVE MigrationInv'
  <2>1. UNCHANGED <<database, schema>>
    BY <1>5 DEF TryLock
  <2>2. CASE Acquire(c) /\ UNCHANGED result
    BY <2>1, <2>2, <1>2 DEF Acquire, FirstPhase, Goto, Phases
  <2>3. CASE \E r \in Failures : Finish(c, r)
    BY <2>1, <2>3, <1>3 DEF Failures, Answers
  <2> QED BY <1>5, <2>1, <2>2, <2>3, <1>1 DEF TryLock, WaitError, Failures
<1>6. ASSUME NEW c \in Calls, NEW a \in Within, NEW b \in Within \ {"migrate", "record"},
             Statement(c, a, b)
      PROVE  MigrationInv'
  <2>1. Within \subseteq Phases /\ UNCHANGED <<database, schema>>
    BY <1>6 DEF Within, Phases, Statement
  <2>2. CASE UNCHANGED <<pc, result>>
    BY <2>1, <2>2, <1>1
  <2>3. CASE pc' = [pc EXCEPT ![c] = b] /\ UNCHANGED result
    BY <2>1, <2>3, <1>2 DEF Within
  <2>4. CASE \E r \in {"busy", "context", "error"} : Finish(c, r)
    BY <2>1, <2>4, <1>3 DEF Answers
  <2> QED BY <1>6, <2>1, <2>2, <2>3, <2>4, StatementOutcome
<1>7. ASSUME NEW c \in Calls, Exec(c) PROVE MigrationInv'
  <2>1. Kind[c] # "open" /\ UNCHANGED <<database, schema>>
    BY <1>7 DEF Exec
  <2>2. CASE Finish(c, "ok") \/ Finish(c, "error") \/ Finish(c, "context")
    BY <2>1, <2>2, <1>2 DEF Finish, Goto, Phases, ControlOK
  <2>3. CASE Busy(c) \/ Broken(c)
    BY <2>1, <2>3, <1>1, <1>3, BusyMoves DEF Answers
  <2> QED BY <1>7, <2>2, <2>3 DEF Exec
<1>8. ASSUME NEW c \in Calls, Rows(c) \/ Commit(c) PROVE MigrationInv'
  <2>1. Kind[c] # "open" /\ UNCHANGED <<database, schema>>
    BY <1>8 DEF Rows, Commit, KindInv
  <2>2. CASE Finish(c, "ok")
    BY <2>1, <2>2, <1>2 DEF Finish, Goto, Phases, ControlOK
  <2> QED BY <1>8, <2>1, <2>2, <1>3 DEF Rows, Commit, Answers
<1>9. ASSUME NEW c \in Calls, Validate(c) PROVE MigrationInv'
  <2>1. UNCHANGED <<database, draft, tables, history>> /\ pc[c] = "validate"
    BY <1>9 DEF Validate
  <2>2. CASE (Busy(c) \/ Broken(c)) /\ UNCHANGED current
    BY <2>1, <2>2, <1>1, <1>3, BusyMoves DEF schema, Answers
  <2>3. CASE Finish(c, "refused") /\ UNCHANGED current
    BY <2>1, <2>3, <1>3 DEF schema, Answers
  <2>4. CASE Fits(Home[c]) /\ Succeed(c, "migrate") /\ current' = [current EXCEPT ![c] = Len(history)]
    BY <2>1, <2>4
    DEF MigrationInv, OpenDatabaseIsMigrated, Has, Fits, Build, Succeed, Goto, ControlOK, SchemaOK
  <2> QED BY <1>9, <2>2, <2>3, <2>4 DEF Validate
<1>10. ASSUME NEW c \in Calls, Migrate(c) PROVE MigrationInv'
  <2>1. UNCHANGED <<database, current, tables, history>> /\ pc[c] = "migrate"
    BY <1>10 DEF Migrate
  <2>2. CASE (Busy(c) \/ Broken(c)) /\ UNCHANGED draft
    BY <2>1, <2>2, <1>1, <1>3, BusyMoves DEF schema, Answers
  <2>3. CASE Succeed(c, "record") /\ draft' = [draft EXCEPT ![c] = <<Build(c)[current[c] + 1]>>]
    BY <2>1, <2>3
    DEF MigrationInv, OpenDatabaseIsMigrated, Has, Fits, Build, Succeed, Goto, ControlOK, SchemaOK
  <2> QED BY <1>10, <2>2, <2>3 DEF Migrate
<1>11. ASSUME NEW c \in Calls, RecordMigration(c) PROVE MigrationInv'
  <2> DEFINE m == Build(c)[current[c] + 1]
  <2>1. UNCHANGED database /\ pc[c] = "record" /\ Inside(c)
    BY <1>11 DEF RecordMigration, Inside, Phases
  <2>2. CASE UNCHANGED schema /\ \E r \in {"error", "context", "busy"} : Finish(c, r)
    BY <2>1, <2>2, <1>3 DEF Answers
  <2>3. CASE /\ history' = Append(history, m)
             /\ tables' = tables \o draft[c]
             /\ draft' = [draft EXCEPT ![c] = <<>>]
             /\ \/ Succeed(c, "migrate") /\ current' = [current EXCEPT ![c] = @ + 1]
                \/ \E r \in {"error", "busy"} : Finish(c, r) /\ current' = current
    <3>1. Home[c] \in Servers /\ Build(c) = Builds[Home[c]] /\ Build(c) \in Seq(Migrations)
      BY CallAssumption, BuildType DEF Build
    <3>2. current[c] = Len(history) /\ Len(history) < Len(Build(c)) /\ Fits(Home[c])
      BY <2>1 DEF MigrationInv, OneLeft
    <3>3. m \in Migrations
      BY <3>1, <3>2 DEF SchemaOK
    <3>4. draft[c] = <<m>>
      BY <2>1 DEF MigrationInv
    <3>5. tables' = history'
      BY <2>3, <3>3, <3>4 DEF MigrationInv, SchemaOK
    <3>6. pc'[c] = "migrate" => current'[c] = Len(history')
      BY <2>3, <3>2, <3>3 DEF SchemaOK, Finish, Goto, ControlOK
    <3>7. Fits(Home[c])'
      <4>1. Len(history') = Len(history) + 1 /\ history'[Len(history) + 1] = m
        BY <2>3, <3>3 DEF SchemaOK
      <4>2. \A v \in 1..Len(history) : history'[v] = history[v]
        BY <2>3, <3>3 DEF SchemaOK
      <4>3. ASSUME NEW v \in 1..Len(history') PROVE Accepted(history'[v], Builds[Home[c]][v])
        <5>1. CASE v = Len(history) + 1
          BY <5>1, <4>1, <3>1, <3>2 DEF Accepted
        <5>2. CASE v \in 1..Len(history)
          <6>1. v \in DOMAIN history
            BY <5>2 DEF SchemaOK
          <6> QED BY <6>1, <5>2, <4>2, <3>2 DEF Fits
        <5> QED BY <5>1, <5>2, <4>1 DEF SchemaOK
      <4>4. DOMAIN history' = 1..Len(history')
        BY <2>3, <3>3 DEF SchemaOK
      <4> QED BY <4>1, <4>3, <4>4, <3>1, <3>2 DEF Fits, SchemaOK
    <3>8. \A d \in Calls \ {c} : pc'[d] = pc[d] /\ result'[d] = result[d] /\ pc[d] \notin {"migrate", "record"}
      <4>1. \A d \in Calls \ {c} : ~Inside(d)
        BY <2>1 DEF LockInv, Holds
      <4> QED BY <2>3, <4>1 DEF Succeed, Finish, Goto, Inside, Phases, ControlOK
    <3>9. pc'[c] = "migrate" \/ (pc'[c] = "close" /\ result'[c] # "ok")
      BY <2>3 DEF Succeed, Finish, Goto, ControlOK
    <3>10. \A s \in Servers : Has(s) => Has(s)'
      BY <2>3, <3>3, HasStays DEF SchemaOK
    <3>11. OpenDatabaseIsMigrated'
      BY <2>1, <3>10 DEF MigrationInv, OpenDatabaseIsMigrated, Has
    <3>12. \A d \in Calls \ {c} : pc'[d] = "close" /\ Kind[d] = "open" /\ result'[d] = "ok" => Has(Home[d])'
      BY <3>8, <3>10, CallAssumption DEF MigrationInv
    <3> QED BY <3>5, <3>6, <3>7, <3>8, <3>9, <3>11, <3>12 DEF MigrationInv
  <2> QED BY <1>11, <2>2, <2>3 DEF RecordMigration
<1>12. ASSUME NEW c \in Calls, Migrated(c) PROVE MigrationInv'
  <2>1. UNCHANGED <<database, schema>> /\ pc[c] = "migrate"
    BY <1>12 DEF Migrated
  <2>2. CASE Finish(c, "error")
    BY <2>1, <2>2, <1>3 DEF Answers
  <2>3. CASE current[c] = Len(Build(c)) /\ Finish(c, "ok")
    <3>1. Has(Home[c])
      BY <2>1, <2>3, CallAssumption, BuildAssumption DEF MigrationInv, Fits, Has, Build, SchemaOK
    <3> QED BY <2>1, <2>3, <3>1
      DEF MigrationInv, OpenDatabaseIsMigrated, Has, Fits, Build, Finish, Goto, schema, ControlOK
  <2> QED BY <1>12, <2>2, <2>3 DEF Migrated
<1>13. ASSUME NEW c \in Calls, Close(c) PROVE MigrationInv'
  <2>1. \A d \in Calls \ {c} : pc'[d] = pc[d] /\ draft'[d] = draft[d]
    BY <1>13 DEF Close, Goto, ControlOK, SchemaOK
  <2>2. pc'[c] = "returned" /\ UNCHANGED <<result, current, tables, history>>
    BY <1>13 DEF Close, Goto, ControlOK
  <2>3. \A s \in Servers : database'[s] = "open" =>
          database[s] = "open" \/ (s = Home[c] /\ Kind[c] = "open" /\ result[c] = "ok")
    BY <1>13, CallAssumption DEF Close, ControlOK
  <2>4. OpenDatabaseIsMigrated'
    BY <1>13, <2>2, <2>3 DEF Close, MigrationInv, OpenDatabaseIsMigrated, Has
  <2> QED BY <2>1, <2>2, <2>4 DEF MigrationInv, Has, Fits, Build
<1>14. ASSUME NEW s \in Servers, Quit(s) \/ Crash(s) PROVE MigrationInv'
  <2>1. UNCHANGED <<current, tables, history>>
    BY <1>14 DEF Quit, Crash, schema
  <2>2. \A t \in Servers : database'[t] = "open" => database[t] = "open"
    BY <1>14 DEF Quit, Crash, ControlOK
  <2>3. \A d \in Calls : pc'[d] # "returned" => pc'[d] = pc[d] /\ result'[d] = result[d] /\ draft'[d] = draft[d]
    BY <1>14 DEF Quit, Crash, schema
  <2>4. OpenDatabaseIsMigrated'
    BY <2>1, <2>2 DEF MigrationInv, OpenDatabaseIsMigrated
  <2> QED BY <2>1, <2>3, <2>4 DEF MigrationInv, Has, Fits, Build
<1> QED
  BY <1>1, <1>4, <1>5, <1>6, <1>7, <1>8, <1>9, <1>10, <1>11, <1>12, <1>13, <1>14
  DEF Next, Advance, vars, schema, Query, Begin, Body, Prepare, Expire, Interfere, Within

LEMMA MigrationsHold == Spec => []MigrationInv
<1>1. Init => KindInv
  BY DEF Init, KindInv
<1>2. Init => MigrationInv
  BY DEF Init, MigrationInv, OpenDatabaseIsMigrated
<1>3. Typed /\ [Next]_vars => Typed'
  BY ControlStep, SchemaStep, OneLeftStep DEF Typed, TypeOK
<1>4. Typed => TypeOK
  BY DEF Typed
<1> QED BY TypedInit, <1>1, <1>2, <1>3, <1>4, LockInit, LockStep, KindStep, MigrationStep, PTL DEF Spec

\* migrations.go: the SQL of a migration and the row that records it are never
\* seen apart.
THEOREM MigrationsAreAtomic == Spec => []TablesMatchHistory
<1>1. MigrationInv => TablesMatchHistory
  BY DEF MigrationInv, TablesMatchHistory
<1> QED BY MigrationsHold, <1>1, PTL

\* A process never works on a database that lacks one of its migrations.
THEOREM NobodyWorksOnAnOldSchema == Spec => []OpenDatabaseIsMigrated
<1>1. MigrationInv => OpenDatabaseIsMigrated
  BY DEF MigrationInv
<1> QED BY MigrationsHold, <1>1, PTL
=============================================================================

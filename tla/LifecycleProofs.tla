-------------------------- MODULE LifecycleProofs --------------------------
(***************************************************************************)
(* Theorems about Lifecycle for any number of processes, migrations and    *)
(* requests.                                                               *)
(***************************************************************************)
EXTENDS Lifecycle, TLAPS

\* The open transaction belongs to the process that is between its statements.
Owned == \A p \in Processes : tx.owner = p <=> pc[p] \in {"record", "commit"}

\* It holds the version after those on record, and nobody records or breaks it meanwhile.
Ordered == \A p \in Processes :
             /\ pc[p] \in {"record", "commit"} =>
                  Executable(tx.version) /\ 1..(tx.version - 1) \subseteq db.recorded
             /\ pc[p] = "commit" => tx.version \notin db.recorded

\* What a process takes for applied is on record; a restored file meets no process.
Known == \A p \in Processes : /\ applied[p] \subseteq db.recorded
                              /\ pc[p] = "down" => applied[p] = {}

\* The order of the deferred calls.
StopsInOrder == \A p \in Processes :
                  /\ pc[p] = "stopManager" => handlers[p] = 0
                  /\ pc[p] = "closeStore" => handlers[p] = 0 /\ cleanup[p] = "done"

Inv == /\ TypeOK
       /\ Owned /\ Ordered /\ Known
       /\ SchemaConsistent /\ ServesMigrated
       /\ StopsInOrder


LEMMA InvInit == Init => Inv
BY VersionAssumption, HandlersAssumption, ProcessAssumption
DEF Init, Inv, TypeOK, Owned, Ordered, Known, SchemaConsistent, Consistent, ServesMigrated,
    StopsInOrder, EmptyDatabase, Database, NoTx, Versions

\* The end of a process, whatever ends it.
LEMMA ExitInv == ASSUME Inv, NEW p \in Processes, Exit(p) PROVE Inv'
<1> USE VersionAssumption, HandlersAssumption, ProcessAssumption
    DEF Inv, Exit, Goto, NoTx
<1>1. TypeOK'
  BY DEF TypeOK, Versions
<1>2. Owned'
  BY DEF TypeOK, Owned
<1>3. Ordered'
  BY DEF TypeOK, Owned, Ordered, Executable
<1>4. Known' /\ ServesMigrated' /\ StopsInOrder'
  BY DEF TypeOK, Known, ServesMigrated, StopsInOrder
<1>5. SchemaConsistent'
  BY DEF SchemaConsistent
<1>6. QED
  BY <1>1, <1>2, <1>3, <1>4, <1>5

\* Steps that touch neither the file nor the transaction.
LEMMA QuietInv ==
  ASSUME Inv, NEW p \in Processes,
         \/ \E n \in Versions : Start(p, n)
         \/ LoadPool(p) \/ Listen(p)
         \/ AcceptRequest(p) \/ RequestEnds(p) \/ Signal(p)
         \/ CleanupEnds(p) \/ ShutdownReturns(p) \/ StopManager(p)
  PROVE  Inv'
<1> USE VersionAssumption, HandlersAssumption, ProcessAssumption
    DEF Inv, Goto, Start, LoadPool, Listen, AcceptRequest, RequestEnds, Signal, CleanupEnds,
        ShutdownReturns, StopManager
<1>1. TypeOK'
  BY DEF TypeOK, Versions
<1>2. Owned' /\ Known'
  BY DEF TypeOK, Owned, Known
<1>3. Ordered'
  BY DEF TypeOK, Ordered, Executable
<1>4. ServesMigrated'
  BY DEF TypeOK, ServesMigrated
<1>5. StopsInOrder'
  BY DEF TypeOK, StopsInOrder
<1>6. SchemaConsistent'
  BY DEF SchemaConsistent
<1>7. QED
  BY <1>1, <1>2, <1>3, <1>4, <1>5, <1>6

\* The read of the recorded versions, and a version's two statements.
LEMMA StatementInv ==
  ASSUME Inv, NEW p \in Processes,
         \/ ReadApplied(p)
         \/ \E v \in Pending(p) : ExecMigration(p, v)
         \/ RecordMigration(p) \/ Migrated(p)
  PROVE  Inv'
<1> USE VersionAssumption, ProcessAssumption DEF Inv, Goto
<1>1. SchemaConsistent' /\ StopsInOrder'
  BY DEF TypeOK, SchemaConsistent, StopsInOrder, ReadApplied, ExecMigration, RecordMigration, Migrated
<1>2. CASE ReadApplied(p)
  BY <1>1, <1>2 DEF ReadApplied, TypeOK, Database, Owned, Ordered, Executable, Known, ServesMigrated
<1>3. CASE RecordMigration(p)
  BY <1>1, <1>3 DEF RecordMigration, TypeOK, Owned, Ordered, Executable, Known, ServesMigrated
<1>4. CASE Migrated(p)
  <2>1. TypeOK' /\ Owned' /\ Ordered' /\ Known'
    BY <1>4 DEF Migrated, TypeOK, Owned, Ordered, Executable, Known
  <2>2. 1..release[p] \subseteq db.recorded
    BY <1>4 DEF Migrated, Pending, Known
  <2>3. ServesMigrated'
    BY <1>4, <2>2 DEF Migrated, TypeOK, ServesMigrated
  <2>4. QED
    BY <1>1, <2>1, <2>3
<1>5. ASSUME NEW v \in Pending(p), ExecMigration(p, v) PROVE Inv'
  <2>1. v \in Versions
    BY DEF Pending, TypeOK, Versions
  <2>2. 1..(v - 1) \subseteq db.recorded
    <3>1. ASSUME NEW u \in 1..(v - 1) PROVE u \in applied[p]
      BY <1>5, <2>1, <3>1 DEF ExecMigration, ComesNext, Pending, TypeOK, Versions
    <3>2. QED
      BY <3>1 DEF Known
  <2>3. TypeOK' /\ Owned' /\ Known' /\ ServesMigrated'
    BY <1>5, <2>1 DEF ExecMigration, TypeOK, Owned, Known, ServesMigrated, NoTx
  <2>4. Ordered'
    BY <1>5, <2>2 DEF ExecMigration, TypeOK, Owned, Ordered, Executable, NoTx
  <2>5. QED
    BY <1>1, <2>3, <2>4
<1>6. QED
  BY <1>2, <1>3, <1>4, <1>5

\* A version takes effect and goes on record in one step.
LEMMA CommitInv == ASSUME Inv, NEW p \in Processes, Commit(p) PROVE Inv'
<1> USE VersionAssumption, ProcessAssumption DEF Inv
<1> DEFINE v == tx.version
<1>1. /\ v \in Versions /\ v \notin db.recorded
      /\ db.times[v] = 0
      /\ Executable(v) /\ 1..(v - 1) \subseteq db.recorded
  BY DEF Commit, TypeOK, Owned, Ordered, SchemaConsistent, Consistent, NoTx, Versions
<1>2. /\ db' \in Database
      /\ db'.times = [db.times EXCEPT ![v] = 1]
      /\ db'.recorded = db.recorded \cup {v}
      /\ db'.duplicates = db.duplicates
  <2>1. PICK f \in [Versions -> 0..2] : f = db.times
    BY DEF TypeOK, Database
  <2>2. [f EXCEPT ![v] = f[v] + 1] = [f EXCEPT ![v] = 1] /\ [f EXCEPT ![v] = 1] \in [Versions -> 0..2]
    BY <1>1, <2>1
  <2>3. QED
    BY <1>1, <2>1, <2>2 DEF Commit, TypeOK, Database
<1>3. TypeOK'
  BY <1>1, <1>2 DEF Commit, Goto, TypeOK
<1>4. Owned'
  BY DEF Commit, Goto, TypeOK, Owned, NoTx
<1>5. Ordered'
  BY <1>4 DEF Commit, Goto, TypeOK, Owned, Ordered, NoTx
<1>6. Known' /\ ServesMigrated' /\ StopsInOrder'
  BY <1>2 DEF Commit, Goto, TypeOK, Known, ServesMigrated, StopsInOrder
<1>7. Consistent(db')
  <2>1. \A u \in Versions : db'.times[u] = IF u \in db'.recorded THEN 1 ELSE 0
    BY <1>1, <1>2 DEF TypeOK, Database, SchemaConsistent, Consistent
  <2>2. \A u \in db'.recorded : 1..u \subseteq db'.recorded
    <3>1. 1..v \subseteq db'.recorded
      BY <1>1, <1>2 DEF Versions
    <3>2. QED
      BY <1>2, <3>1 DEF SchemaConsistent, Consistent
  <2>3. UniqueVersion \in db'.recorded => db'.duplicates = "no"
    BY <1>1, <1>2 DEF SchemaConsistent, Consistent, Executable
  <2>4. QED
    BY <2>1, <2>2, <2>3 DEF Consistent
<1>8. SchemaConsistent'
  BY <1>7 DEF SchemaConsistent, Commit, Consistent
<1>9. QED
  BY <1>3, <1>4, <1>5, <1>6, <1>8

\* Steps of the requests, of the replicator and of the orchestrator on the file.
LEMMA FileInv ==
  ASSUME Inv,
         \/ \E p \in Processes, some \in {"yes", "no"} : ChangeDuplicates(p, some)
         \/ Replicate \/ ReplaceContainer
  PROVE  Inv'
<1> USE VersionAssumption, ProcessAssumption DEF Inv
<1>1. ASSUME NEW p \in Processes, NEW some \in {"yes", "no"}, ChangeDuplicates(p, some)
      PROVE  Inv'
  <2>1. /\ db' \in Database
        /\ db'.times = db.times /\ db'.recorded = db.recorded
        /\ db'.duplicates = some
    BY <1>1 DEF ChangeDuplicates, TypeOK, Database
  <2>2. TypeOK' /\ Owned' /\ Known' /\ ServesMigrated' /\ StopsInOrder'
    BY <1>1, <2>1 DEF ChangeDuplicates, TypeOK, Owned, Known, ServesMigrated, StopsInOrder
  <2>3. Ordered'
    BY <1>1, <2>1 DEF ChangeDuplicates, Owned, Ordered, NoTx
  <2>4. SchemaConsistent'
    BY <1>1, <2>1 DEF ChangeDuplicates, SchemaConsistent, Consistent
  <2>5. QED
    BY <2>2, <2>3, <2>4
<1>2. CASE Replicate
  BY <1>2 DEF Replicate, TypeOK, Owned, Ordered, Executable, Known, SchemaConsistent, Consistent, ServesMigrated, StopsInOrder
<1>3. CASE ReplaceContainer
  BY <1>3 DEF ReplaceContainer, TypeOK, Owned, Ordered, Known, SchemaConsistent, Consistent, ServesMigrated, StopsInOrder
<1>4. QED
  BY <1>1, <1>2, <1>3

LEMMA InvNext == Inv /\ [Next]_vars => Inv'
<1> SUFFICES ASSUME Inv, [Next]_vars PROVE Inv'
  OBVIOUS
<1>1. ASSUME NEW p \in Processes, Migrate(p) PROVE Inv'
  BY <1>1, ExitInv, StatementInv, CommitInv DEF Migrate, MigrationFails
<1>2. ASSUME NEW p \in Processes, Begin(p) PROVE Inv'
  BY <1>2, ExitInv, QuietInv DEF Begin, StartFails
<1>3. ASSUME NEW p \in Processes, End(p) PROVE Inv'
  BY <1>3, ExitInv, QuietInv DEF End, ShutdownTimesOut, CloseStore
<1>4. ASSUME NEW p \in Processes, \/ \E n \in Versions : Start(p, n)
                                  \/ AcceptRequest(p) \/ RequestEnds(p) \/ Signal(p)
      PROVE  Inv'
  BY <1>4, QuietInv
<1>5. ASSUME NEW p \in Processes, Crash(p) PROVE Inv'
  BY <1>5, ExitInv DEF Crash
<1>6. CASE UNCHANGED vars
  BY <1>6 DEF vars, Inv, TypeOK, Owned, Ordered, Executable, Known, Pending, SchemaConsistent,
              Consistent, ServesMigrated, StopsInOrder
<1>7. QED
  BY <1>1, <1>2, <1>3, <1>4, <1>5, <1>6, FileInv DEF Next

LEMMA Invariance == Spec => []Inv
BY InvInit, InvNext, PTL DEF Spec

\* Every variable keeps its type; a version's statements never take effect twice.
THEOREM TypeCorrect == Spec => []TypeOK
BY Invariance, PTL DEF Inv

\* However processes of different releases start together on one file, die between
\* two statements of migrate() or are given the replica's file, schema_migrations
\* says what has taken effect.
THEOREM SchemaIsConsistent == Spec => []SchemaConsistent
BY Invariance, PTL DEF Inv

\* No process gets past store.New with a version of its release missing.
THEOREM MigratedBeforeServing == Spec => []ServesMigrated
BY Invariance, PTL DEF Inv

\* db.Close comes after the last handler and the cleanup goroutine.
THEOREM StoreClosedLast == Spec => []CloseAfterUsers
<1>1. Inv => CloseAfterUsers
  BY DEF Inv, StopsInOrder, CloseAfterUsers
<1>2. QED
  BY <1>1, Invariance, PTL
=============================================================================

----------------------------- MODULE Lifecycle ------------------------------
(***************************************************************************)
(* cmd/claude-gate/main.go and store.go: how processes of the server start,*)
(* migrate the database file they share, serve, and stop.                  *)
(*                                                                         *)
(* A process that starts brings the migrations of its release up to date,  *)
(* one transaction each; SQLite lets one connection write at a time and    *)
(* rolls a transaction back when its process dies.  Processes overlap when *)
(* a new one is started before the old one has ended.  log.Fatalf ends the *)
(* process where it stands.  With replication, a replaced container starts *)
(* from the last state that reached the replica (entrypoint.sh).           *)
(***************************************************************************)
EXTENDS Integers

CONSTANTS Processes,
          MaxVersion,     \* migrations are numbered 1..MaxVersion; release n has the first n
          UniqueVersion,  \* the one that makes access tokens unique
          MaxHandlers     \* bound: requests a process serves at a time

ASSUME VersionAssumption == MaxVersion \in Nat \ {0} /\ UniqueVersion \in 1..MaxVersion
ASSUME HandlersAssumption == MaxHandlers \in Nat

Versions == 1..MaxVersion

\* times: how often a version's statements took effect; recorded: the rows of
\* schema_migrations; duplicates: whether two real tokens share an access token.
Database == [times : [Versions -> 0..2], recorded : SUBSET Versions, duplicates : {"yes", "no"}]

EmptyDatabase == [times |-> [v \in Versions |-> 0], recorded |-> {}, duplicates |-> "no"]

NoTx == [owner |-> "none", version |-> 0]

VARIABLES
  db,        \* the committed state of the database file
  tx,        \* the open migration transaction, if any
  replica,   \* what the replicator has copied
  pc,        \* where main() is
  release,   \* the number of migrations the process knows
  applied,   \* migrate(): the versions it takes for applied
  handlers,  \* requests being served
  cleanup    \* StickyManager's cleanup goroutine

vars == <<db, tx, replica, pc, release, applied, handlers, cleanup>>

ASSUME ProcessAssumption == "none" \notin Processes

Init == /\ db = EmptyDatabase
        /\ tx = NoTx
        /\ replica = EmptyDatabase
        /\ pc = [p \in Processes |-> "down"]
        /\ release = [p \in Processes |-> 1]
        /\ applied = [p \in Processes |-> {}]
        /\ handlers = [p \in Processes |-> 0]
        /\ cleanup = [p \in Processes |-> "off"]

Goto(p, label) == pc' = [pc EXCEPT ![p] = label]

\* The process ends; an open transaction of its is rolled back.
Exit(p) == /\ Goto(p, "down")
           /\ tx' = IF tx.owner = p THEN NoTx ELSE tx
           /\ release' = [release EXCEPT ![p] = 1]
           /\ applied' = [applied EXCEPT ![p] = {}]
           /\ handlers' = [handlers EXCEPT ![p] = 0]
           /\ cleanup' = [cleanup EXCEPT ![p] = "off"]
           /\ UNCHANGED <<db, replica>>

----------------------------------------------------------------------------
(* Start: store.New with its migrations. *)

\* The configuration has been read; otherwise the process ends here.
Start(p, n) == /\ pc[p] = "down"
               /\ Goto(p, "readApplied")
               /\ release' = [release EXCEPT ![p] = n]
               /\ UNCHANGED <<db, tx, replica, applied, handlers, cleanup>>

\* Creating the table schema_migrations when it is missing, and reading it.
ReadApplied(p) == /\ pc[p] = "readApplied"
                  /\ applied' = [applied EXCEPT ![p] = db.recorded]
                  /\ Goto(p, "migrate")
                  /\ UNCHANGED <<db, tx, replica, release, handlers, cleanup>>

\* Mutant: the loop does not stop at the last version.
PendingOneMore(p) == 1..(release[p] + 1) \ applied[p]

\* The versions the loop has still to apply, and the one it comes to next.
Pending(p) == 1..release[p] \ applied[p]

ComesNext(p, v) == v \in Pending(p) /\ \A u \in Pending(p) : v <= u

\* The statements of a version can be executed.
Executable(v) == v = UniqueVersion => db.duplicates = "no"

\* Mutant: a version whose statements fail is taken for applied.
ExecMigrationAnyway(p, v) ==
  /\ pc[p] = "migrate"
  /\ ComesNext(p, v)
  /\ tx = NoTx
  /\ IF Executable(v)
     THEN /\ tx' = [owner |-> p, version |-> v]
          /\ Goto(p, "record")
          /\ UNCHANGED applied
     ELSE /\ applied' = [applied EXCEPT ![p] = @ \cup {v}]
          /\ UNCHANGED <<tx, pc>>
  /\ UNCHANGED <<db, replica, release, handlers, cleanup>>

ExecMigration(p, v) ==
  /\ pc[p] = "migrate"
  /\ ComesNext(p, v)
  /\ tx = NoTx
  /\ Executable(v)
  /\ tx' = [owner |-> p, version |-> v]
  /\ Goto(p, "record")
  /\ UNCHANGED <<db, replica, release, applied, handlers, cleanup>>

\* Mutant: a version that is recorded already is not an error.
RecordMigrationOrIgnore(p) ==
  /\ pc[p] = "record"
  /\ Goto(p, "commit")
  /\ UNCHANGED <<db, tx, replica, release, applied, handlers, cleanup>>

\* version is the primary key of schema_migrations.
RecordMigration(p) ==
  /\ pc[p] = "record"
  /\ tx.version \notin db.recorded
  /\ Goto(p, "commit")
  /\ UNCHANGED <<db, tx, replica, release, applied, handlers, cleanup>>

Commit(p) ==
  /\ pc[p] = "commit"
  /\ db' = [times      |-> [db.times EXCEPT ![tx.version] = @ + 1],
             recorded   |-> db.recorded \cup {tx.version},
             duplicates |-> db.duplicates]
  /\ applied' = [applied EXCEPT ![p] = @ \cup {tx.version}]
  /\ tx' = NoTx
  /\ Goto(p, "migrate")
  /\ UNCHANGED <<replica, release, handlers, cleanup>>

\* A statement fails: the table, a version's statements or its record, for what is
\* in the database or because another process writes for longer than the timeout.
MigrationFails(p) == /\ \/ pc[p] \in {"readApplied", "migrate"} /\ tx # NoTx
                        \/ pc[p] = "migrate" /\ \E v \in Pending(p) : ComesNext(p, v) /\ ~Executable(v)
                        \/ pc[p] = "record" /\ tx.version \in db.recorded
                     /\ Exit(p)

Migrated(p) == /\ pc[p] = "migrate"
               /\ Pending(p) = {}
               /\ Goto(p, "load")
               /\ UNCHANGED <<db, tx, replica, release, applied, handlers, cleanup>>

----------------------------------------------------------------------------
(* The rest of main(). *)

\* tokenMgr.Start: the pool is loaded, the cleanup goroutine runs.
LoadPool(p) == /\ pc[p] = "load"
               /\ Goto(p, "listen")
               /\ cleanup' = [cleanup EXCEPT ![p] = "running"]
               /\ UNCHANGED <<db, tx, replica, release, applied, handlers>>

\* The query fails, for instance because the signal came before it; the handlers
\* cannot be set up; the address is in use.
StartFails(p) == pc[p] \in {"load", "listen"} /\ Exit(p)

Listen(p) == /\ pc[p] = "listen"
             /\ Goto(p, "serving")
             /\ UNCHANGED <<db, tx, replica, release, applied, handlers, cleanup>>

AcceptRequest(p) == /\ pc[p] = "serving"
                    /\ handlers[p] < MaxHandlers
                    /\ handlers' = [handlers EXCEPT ![p] = @ + 1]
                    /\ UNCHANGED <<db, tx, replica, pc, release, applied, cleanup>>

RequestEnds(p) == /\ handlers[p] > 0
                  /\ handlers' = [handlers EXCEPT ![p] = @ - 1]
                  /\ UNCHANGED <<db, tx, replica, pc, release, applied, cleanup>>

\* An administrator registers an access token again, or deletes the second one.
ChangeDuplicates(p, some) == /\ handlers[p] > 0
                             /\ tx = NoTx
                             /\ some = "yes" => UniqueVersion \notin db.recorded
                             /\ db' = [db EXCEPT !.duplicates = some]
                             /\ UNCHANGED <<tx, replica, pc, release, applied, handlers, cleanup>>

\* The signal: ctx is done, the server takes no more requests.
Signal(p) == /\ pc[p] \in {"listen", "serving"}
             /\ Goto(p, "shutdown")
             /\ UNCHANGED <<db, tx, replica, release, applied, handlers, cleanup>>

CleanupEnds(p) == /\ pc[p] \in {"shutdown", "stopManager"}
                  /\ cleanup[p] = "running"
                  /\ cleanup' = [cleanup EXCEPT ![p] = "done"]
                  /\ UNCHANGED <<db, tx, replica, pc, release, applied, handlers>>

\* srv.Shutdown has seen every request end.
ShutdownReturns(p) == /\ pc[p] = "shutdown"
                      /\ handlers[p] = 0
                      /\ Goto(p, "stopManager")
                      /\ UNCHANGED <<db, tx, replica, release, applied, handlers, cleanup>>

\* Mutant: Shutdown without a deadline.
ShutdownPatiently(p) == FALSE /\ Exit(p)

\* Requests last longer than serverShutdownTimeout: log.Fatalf, no deferred call is made.
ShutdownTimesOut(p) == /\ pc[p] = "shutdown"
                       /\ handlers[p] > 0
                       /\ Exit(p)

\* Mutant: Stop does not wait.
StopManagerAtOnce(p) == /\ pc[p] = "stopManager"
                        /\ Goto(p, "closeStore")
                        /\ UNCHANGED <<db, tx, replica, release, applied, handlers, cleanup>>

\* The deferred calls, last first: cancelUsageWriter, tokenMgr.Stop, which waits for
\* the cleanup goroutine, and db.Close.
StopManager(p) == /\ pc[p] = "stopManager"
                  /\ cleanup[p] = "done"
                  /\ Goto(p, "closeStore")
                  /\ UNCHANGED <<db, tx, replica, release, applied, handlers, cleanup>>

CloseStore(p) == pc[p] = "closeStore" /\ Exit(p)

Crash(p) == pc[p] # "down" /\ Exit(p)

----------------------------------------------------------------------------
(* The replicator. *)

Replicate == /\ replica # db
             /\ replica' = db
             /\ UNCHANGED <<db, tx, pc, release, applied, handlers, cleanup>>

\* A new container has no file of its own: it is restored, or made empty.
ReplaceContainer == /\ \A p \in Processes : pc[p] = "down"
                    /\ db' = replica
                    /\ UNCHANGED <<tx, replica, pc, release, applied, handlers, cleanup>>

----------------------------------------------------------------------------
Migrate(p) == \/ ReadApplied(p)
              \/ \E v \in Pending(p) : ExecMigration(p, v)
              \/ RecordMigration(p) \/ Commit(p)
              \/ MigrationFails(p) \/ Migrated(p)

Begin(p) == LoadPool(p) \/ StartFails(p) \/ Listen(p)

End(p) == \/ CleanupEnds(p) \/ ShutdownReturns(p) \/ ShutdownTimesOut(p)
          \/ StopManager(p) \/ CloseStore(p)

Next == \/ \E p \in Processes :
             \/ \E n \in Versions : Start(p, n)
             \/ Migrate(p) \/ Begin(p) \/ End(p)
             \/ AcceptRequest(p) \/ RequestEnds(p) \/ Signal(p) \/ Crash(p)
             \/ \E some \in {"yes", "no"} : ChangeDuplicates(p, some)
        \/ Replicate
        \/ ReplaceContainer

Spec == Init /\ [][Next]_vars

\* main() goes on; requests may last for ever, and nobody has to start or stop anything.
Fairness == \A p \in Processes : WF_vars(Migrate(p)) /\ WF_vars(Begin(p)) /\ WF_vars(End(p))

FairSpec == Spec /\ Fairness

----------------------------------------------------------------------------
(* Properties. *)

\* Every variable has its type.
TypeOK ==
  /\ db \in Database
  /\ tx \in [owner : Processes, version : Versions] \cup {NoTx}
  /\ replica \in Database
  /\ pc \in [Processes -> {"down", "readApplied", "migrate", "record", "commit", "load", "listen",
                           "serving", "shutdown", "stopManager", "closeStore"}]
  /\ release \in [Processes -> Versions]
  /\ applied \in [Processes -> SUBSET Versions]
  /\ handlers \in [Processes -> 0..MaxHandlers]
  /\ cleanup \in [Processes -> {"off", "running", "done"}]

\* A version is recorded exactly when its statements have taken effect, once; none
\* comes before a lower one; and once access tokens are unique they are.
Consistent(d) == /\ \A v \in Versions : d.times[v] = IF v \in d.recorded THEN 1 ELSE 0
                 /\ \A v \in d.recorded : 1..v \subseteq d.recorded
                 /\ UniqueVersion \in d.recorded => d.duplicates = "no"

\* Whatever processes of whatever releases start at the same time, die between two
\* statements or are restored from the replica, the database is one that a start
\* can take further (store.go:113-200).
SchemaConsistent == Consistent(db) /\ Consistent(replica)

\* A process gets past store.New only with every version of its release in effect,
\* and keeps them under its feet while others migrate (store.go:46-52, 169-200,
\* main.go:36-40).
ServesMigrated ==
  \A p \in Processes :
    pc[p] \in {"load", "listen", "serving", "shutdown", "stopManager", "closeStore"}
      => 1..release[p] \subseteq db.recorded

\* The store is closed only when no handler and no cleanup can use it any more
\* (main.go:40, 51, 96-103, sticky.go:44-52).
CloseAfterUsers ==
  \A p \in Processes : pc[p] = "closeStore" => handlers[p] = 0 /\ cleanup[p] = "done"

\* A start ends in service or in an error, with other processes in the way; and a
\* process that got the signal ends, although a request may last for ever
\* (main.go:93-103, store.go:30).
PhasesEnd == \A p \in Processes : pc[p] # "serving" ~> pc[p] \in {"serving", "down"}
=============================================================================

-------------------------------- MODULE Boot --------------------------------
(* How a process of the service comes up and goes down: cmd/rssam/main.go in  *)
(* the order of its calls, the migrations under their advisory lock, the      *)
(* first administrator, the CSRF secret and the worker lock.  Two processes   *)
(* may start, stop and crash at any point against one database, and a         *)
(* connection that holds an advisory lock may be lost while its process runs. *)
EXTENDS Integers, FiniteSets, FiniteSetsExt

CONSTANTS
  Procs,       \* processes started against the database
  Files,       \* the number of migrations of the newest binary
  Empty,       \* migrations whose file holds no statement
  Starts,      \* the ways a process is started: [ver, mode, pass, env]
  MaxStarts,   \* bound: starts per behaviour
  MaxLost,     \* bound: lost lock connections per behaviour
  MaxErr,      \* bound: database errors and signals during a start
  Free         \* no process

ASSUME BootAssumption ==
  /\ Files \in Nat /\ MaxStarts \in Nat /\ MaxLost \in Nat /\ MaxErr \in Nat
  /\ Empty \subseteq 1..Files
  /\ Free \notin Procs
  /\ Starts # {} /\ Starts \subseteq [ver : 0..Files, mode : {"serve", "migrate", "both", "plan"}, pass : {"none", "real", "placeholder", "dev"}, env : BOOLEAN]

VARIABLES
  pc,       \* process -> where main() is
  how,      \* process -> the way it was started
  known,    \* process -> loadApplied's snapshot
  tx,       \* process -> the migration executed in an open transaction, 0 for none
  ran,      \* migration -> how often its statements were committed
  recorded, \* the rows of schema_migrations
  migLock,  \* who holds migrationLockKey
  workLock, \* who holds workerLockKey
  wk,       \* process -> its worker goroutine
  admin,    \* how the first account that can sign in got its password
  csrfRow,  \* app_settings.csrf_secret, 0 for no row
  csrf,     \* process -> the secret it signs forms with
  lost,     \* processes that lost the connection of the worker lock they held
  migLost,  \* the connection of the migration lock was lost once
  starts, errs

bootVars == <<pc, how, known, tx, ran, recorded, migLock, workLock, wk, admin, csrfRow, csrf, lost, migLost, starts, errs>>

Pcs == {"off", "lock", "list", "apply", "commit", "unlock", "check", "plan", "admin", "csrf", "newcsrf", "load", "up",
        "stopping", "exit", "conflict"}
Wks == {"none", "starting", "running"}

BootTypeOK ==
  /\ pc \in [Procs -> Pcs]
  /\ how \in [Procs -> Starts]
  /\ known \in [Procs -> SUBSET (1..Files)]
  /\ tx \in [Procs -> 0..Files]
  /\ ran \in [1..Files -> Nat]
  /\ recorded \subseteq 1..Files
  /\ migLock \in Procs \cup {Free} /\ workLock \in Procs \cup {Free}
  /\ wk \in [Procs -> Wks]
  /\ admin \in {"none", "real", "dev"}
  /\ csrfRow \in Nat /\ csrf \in [Procs -> Nat]
  /\ lost \subseteq Procs /\ migLost \in BOOLEAN
  /\ starts \in 0..MaxStarts /\ errs \in 0..MaxErr

NotStarted == CHOOSE s \in Starts : TRUE
\* A database that any earlier binary may have left.
BootInit ==
  /\ pc = [p \in Procs |-> "off"]
  /\ how = [p \in Procs |-> NotStarted]
  /\ known = [p \in Procs |-> {}]
  /\ tx = [p \in Procs |-> 0]
  /\ \E k \in 0..Files : recorded = 1..k /\ ran = [n \in 1..Files |-> IF n <= k /\ n \notin Empty THEN 1 ELSE 0]
  /\ migLock = Free /\ workLock = Free
  /\ wk = [p \in Procs |-> "none"]
  /\ admin = "none" /\ csrfRow = 0
  /\ csrf = [p \in Procs |-> 0]
  /\ lost = {} /\ migLost = FALSE /\ starts = 0 /\ errs = 0

Go(p, from, to) == pc[p] = from /\ pc' = [pc EXCEPT ![p] = to]
dbVars == <<ran, recorded, admin, csrfRow>>
lockVars == <<migLock, workLock, lost, migLost>>
counters == <<starts, errs>>
\* The files the process's binary embeds, in the order they are applied.
listSQLFiles(p) == 1..how[p].ver
Unapplied(p) == listSQLFiles(p) \ known[p]

(* ------------------------------ migrations ------------------------------- *)

\* main() up to the migrations: the flags decide which branch is taken.
StartProcess(p, s) ==
  /\ pc[p] = "off" /\ starts < MaxStarts
  /\ starts' = starts + 1
  /\ how' = [how EXCEPT ![p] = s]
  /\ pc' = [pc EXCEPT ![p] = CASE s.mode = "plan" -> "plan" [] s.mode = "serve" -> "check" [] OTHER -> "lock"]
  /\ UNCHANGED <<known, tx, lockVars, wk, dbVars, csrf, errs>>

\* pg_advisory_lock on a connection of its own: waits for whoever holds it.
MigrationLock(p) ==
  /\ migLock = Free
  /\ Go(p, "lock", "list")
  /\ migLock' = p
  /\ UNCHANGED <<how, known, tx, workLock, lost, migLost, wk, dbVars, csrf, counters>>

\* ensureMigrationsTable and loadApplied: the snapshot the whole run works from.
loadApplied(p) ==
  /\ pc[p] = "list"
  /\ known' = [known EXCEPT ![p] = recorded]
  /\ pc' = [pc EXCEPT ![p] = IF listSQLFiles(p) \subseteq recorded THEN "unlock" ELSE "apply"]
  /\ UNCHANGED <<how, tx, lockVars, wk, dbVars, csrf, counters>>

\* An empty file is recorded without a transaction, ON CONFLICT DO NOTHING.
markApplied(p) ==
  LET n == Min(Unapplied(p)) IN
  /\ pc[p] = "apply" /\ n \in Empty
  /\ recorded' = recorded \cup {n}
  /\ known' = [known EXCEPT ![p] = @ \cup {n}]
  /\ pc' = [pc EXCEPT ![p] = IF Unapplied(p) = {n} THEN "unlock" ELSE "apply"]
  /\ UNCHANGED <<how, tx, ran, lockVars, wk, admin, csrfRow, csrf, counters>>

\* A migration whose statements are not in the transaction that records it.
MutExecOne(p) ==
  LET n == Min(Unapplied(p)) IN
  /\ Go(p, "apply", "commit") /\ n \notin Empty
  /\ tx' = [tx EXCEPT ![p] = n]
  /\ ran' = [ran EXCEPT ![n] = @ + 1]
  /\ UNCHANGED <<how, known, lockVars, wk, recorded, admin, csrfRow, csrf, counters>>
\* applyOne: the statements run in a transaction that nobody sees before its commit.
ExecOne(p) ==
  LET n == Min(Unapplied(p)) IN
  /\ Go(p, "apply", "commit") /\ n \notin Empty
  /\ tx' = [tx EXCEPT ![p] = n]
  /\ UNCHANGED <<how, known, lockVars, wk, dbVars, csrf, counters>>

\* The row of schema_migrations is part of the transaction: its primary key
\* rolls the whole migration back when another process recorded it first.
CommitOne(p) ==
  LET n == tx[p] IN
  /\ pc[p] = "commit"
  /\ tx' = [tx EXCEPT ![p] = 0]
  /\ IF n \in recorded
     THEN pc' = [pc EXCEPT ![p] = "conflict"] /\ migLock' = (IF migLock = p THEN Free ELSE migLock)
          /\ UNCHANGED <<ran, recorded, known>>
     ELSE /\ ran' = [ran EXCEPT ![n] = @ + 1]
          /\ recorded' = recorded \cup {n}
          /\ known' = [known EXCEPT ![p] = @ \cup {n}]
          /\ pc' = [pc EXCEPT ![p] = IF Unapplied(p) = {n} THEN "unlock" ELSE "apply"]
          /\ UNCHANGED migLock
  /\ UNCHANGED <<how, workLock, lost, migLost, wk, admin, csrfRow, csrf, counters>>

\* pg_advisory_unlock; a process started with -migrate ends here.
ApplyReturns(p) ==
  /\ Go(p, "unlock", IF how[p].mode = "migrate" THEN "exit" ELSE "admin")
  /\ migLock' = IF migLock = p THEN Free ELSE migLock
  /\ UNCHANGED <<how, known, tx, workLock, lost, migLost, wk, dbVars, csrf, counters>>

\* Without RUN_MIGRATIONS a binary newer than the schema refuses to start.
CheckPending(p) ==
  /\ Go(p, "check", IF listSQLFiles(p) \subseteq recorded THEN "admin" ELSE "exit")
  /\ UNCHANGED <<how, known, tx, lockVars, wk, dbVars, csrf, counters>>

\* -migrate-plan reads and prints.
MigratePlan(p) ==
  /\ Go(p, "plan", "exit")
  /\ UNCHANGED <<how, known, tx, lockVars, wk, dbVars, csrf, counters>>

\* A database error, or a signal that cancels the context, ends the start; the
\* open transaction is rolled back and the lock's connection given back.
StartFails(p) ==
  /\ pc[p] \in Pcs \ {"off", "up", "stopping", "exit", "conflict"}
  /\ errs < MaxErr
  /\ errs' = errs + 1
  /\ pc' = [pc EXCEPT ![p] = "exit"]
  /\ tx' = [tx EXCEPT ![p] = 0]
  /\ migLock' = IF migLock = p THEN Free ELSE migLock
  /\ UNCHANGED <<how, known, workLock, lost, migLost, wk, dbVars, csrf, starts>>

(* ------------------------- account, secret, workers ---------------------- *)

\* The placeholder of .env.example may not become the credential of a new
\* install, except for development ("dev": ALLOW_DEV_TOKEN); EnsureBootstrapAdmin writes the first account (Accounts models its
\* statements one by one).
FirstAdmin(p) ==
  LET pass == how[p].pass
      refused == pass = "placeholder" /\ admin = "none" IN
  /\ Go(p, "admin", IF refused THEN "exit" ELSE "csrf")
  /\ admin' = IF admin = "none" /\ ~refused THEN pass ELSE admin
  /\ UNCHANGED <<how, known, tx, ran, recorded, lockVars, wk, csrfRow, csrf, counters>>

\* ResolveCSRFSecret takes CSRF_SECRET when it is set and reads the row otherwise ...
ReadSecret(p) ==
  /\ Go(p, "csrf", IF csrfRow = 0 /\ ~how[p].env THEN "newcsrf" ELSE "load")
  /\ csrf' = [csrf EXCEPT ![p] = IF how[p].env THEN 0 ELSE csrfRow]
  /\ UNCHANGED <<how, known, tx, lockVars, wk, dbVars, counters>>
\* ... and, when there was none, upserts a secret of its own.
WriteSecret(p) ==
  /\ Go(p, "newcsrf", "load")
  /\ csrfRow' = csrfRow + 1
  /\ csrf' = [csrf EXCEPT ![p] = csrfRow + 1]
  /\ UNCHANGED <<how, known, tx, lockVars, wk, ran, recorded, admin, counters>>

\* After the bridge settings are loaded main starts w.Run in a goroutine and
\* serves.
Serve(p) ==
  /\ Go(p, "load", "up")
  /\ wk' = [wk EXCEPT ![p] = "starting"]
  /\ UNCHANGED <<how, known, tx, lockVars, dbVars, csrf, counters>>

\* Runner.Run asks for the lock once: a process that does not get it, or whose
\* query fails, serves HTTP without workers for the rest of its life.
TryWorkerLock(p) ==
  /\ wk[p] = "starting"
  /\ IF workLock = Free
     THEN workLock' = p /\ wk' = [wk EXCEPT ![p] = "running"]
     ELSE wk' = [wk EXCEPT ![p] = "none"] /\ UNCHANGED workLock
  /\ UNCHANGED <<pc, how, known, tx, migLock, lost, migLost, dbVars, csrf, counters>>

(* -------------------------------- the end -------------------------------- *)

\* SIGTERM: the server shuts down; Run returns and its deferred release gives
\* the lock back while its loops may still be finishing a job.
Shutdown(p) ==
  /\ Go(p, "up", "stopping")
  /\ workLock' = IF workLock = p THEN Free ELSE workLock
  /\ UNCHANGED <<how, known, tx, migLock, lost, migLost, wk, dbVars, csrf, counters>>

\* The process is gone, killed or after its last step: its connections close,
\* which rolls back its transaction and frees its locks.
ProcessGone(p) ==
  /\ pc[p] # "off"
  /\ pc' = [pc EXCEPT ![p] = "off"]
  /\ tx' = [tx EXCEPT ![p] = 0]
  /\ wk' = [wk EXCEPT ![p] = "none"]
  /\ migLock' = IF migLock = p THEN Free ELSE migLock
  /\ workLock' = IF workLock = p THEN Free ELSE workLock
  /\ csrf' = [csrf EXCEPT ![p] = 0]
  /\ lost' = lost \ {p}
  /\ how' = [how EXCEPT ![p] = NotStarted]
  /\ known' = [known EXCEPT ![p] = {}]
  /\ UNCHANGED <<migLost, dbVars, counters>>

\* PostgreSQL drops the session that holds a lock: the process is not told.
LockLost(p) ==
  /\ p \in {migLock, workLock} /\ ~migLost /\ Cardinality(lost) < MaxLost
  /\ lost' = IF workLock = p THEN lost \cup {p} ELSE lost
  /\ migLost' = (migLock = p)
  /\ migLock' = IF migLock = p THEN Free ELSE migLock
  /\ workLock' = IF workLock = p THEN Free ELSE workLock
  /\ UNCHANGED <<pc, how, known, tx, wk, dbVars, csrf, counters>>

\* The steps of main() other than loading the bridge settings, which Service
\* composes with Serve.
BootSteps(p) ==
  \/ MigrationLock(p) \/ loadApplied(p) \/ markApplied(p) \/ ExecOne(p) \/ CommitOne(p) \/ ApplyReturns(p)
  \/ CheckPending(p) \/ MigratePlan(p) \/ FirstAdmin(p) \/ ReadSecret(p) \/ WriteSecret(p)

(* ------------------------------- properties ------------------------------ *)

\* Whatever crashes, failed statements and lost locks happened, every recorded
\* migration took effect exactly once, no other did, and they were applied in
\* the order of their names.
MigratedOnce ==
  /\ \A n \in 1..Files : ran[n] = (IF n \in recorded \ Empty THEN 1 ELSE 0)
  /\ recorded = 1..Cardinality(recorded)

\* A process that serves has its binary's whole schema.
ServingSchema == \A p \in Procs : pc[p] \in {"load", "up", "stopping"} => listSQLFiles(p) \subseteq recorded

\* Two processes that migrate at the same time never make one of the starts
\* fail, unless the session that held the migration lock was lost.
NoMigrationConflict == \A p \in Procs : pc[p] = "conflict" => migLost

\* At most one process runs the workers: a second one only when the connection
\* that held the lock was lost, or while the first is finishing after SIGTERM.
OneWorker ==
  \A p, q \in Procs : p # q /\ wk[p] = "running" /\ wk[q] = "running" => p \in lost \/ q \in lost \/ "stopping" \in {pc[p], pc[q]}

\* Starts end: again and again every process serves or is gone.
StartEnds == []<>(\A p \in Procs : pc[p] \in {"off", "up"})

\* Starting processes leave each other's database and workers alone: every
\* migration once and in order, no process on a schema it does not know, no
\* failed start because of another, one process with workers.
StartsSafe == BootTypeOK /\ MigratedOnce /\ ServingSchema /\ NoMigrationConflict /\ OneWorker
=============================================================================

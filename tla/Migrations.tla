----------------------------- MODULE Migrations -----------------------------
(***************************************************************************)
(* scripts/migrate.js: runs of the migration script, of one release or of  *)
(* several, started side by side. A run takes a session-level advisory     *)
(* lock, reads the ledger, and applies each pending file in a transaction  *)
(* that also inserts the file's ledger row. When its connection is lost,   *)
(* PostgreSQL rolls back and releases the lock.                            *)
(***************************************************************************)
EXTENDS Integers, FiniteSets

CONSTANTS
  Runner,   \* runs of the script
  Release,  \* how many files the release of a run ships; later releases add files
  NoRunner

ASSUME RunnerAssumption == Release \in [Runner -> Nat] /\ NoRunner \notin Runner

VARIABLES
  lock,     \* holder of pg_advisory_lock(73657)
  ledger,   \* committed rows of schema_migrations: file numbers
  schema,   \* files whose statements are committed
  run,      \* the runs
  collided  \* history: a run met a ledger row it had not expected

mgVars == <<lock, ledger, schema, run, collided>>

File == UNION {1..Release[r] : r \in Runner}
RunState == [at : {"off", "lock", "read", "apply", "record", "unlock"}, pending : SUBSET File]
Off == [at |-> "off", pending |-> {}]

MigrationsTypeOK ==
  /\ lock \in Runner \cup {NoRunner}
  /\ ledger \subseteq File /\ schema \subseteq File
  /\ run \in [Runner -> RunState]
  /\ collided \in BOOLEAN

FirstOf(files) == CHOOSE f \in files : \A g \in files : f <= g
At(r, at) == run' = [run EXCEPT ![r].at = at]
----------------------------------------------------------------------------
MigrationsInit ==
  /\ lock = NoRunner /\ ledger = {} /\ schema = {} /\ collided = FALSE
  /\ run = [r \in Runner |-> Off]

StartRun(r) ==
  /\ run[r].at = "off"
  /\ At(r, "lock")
  /\ UNCHANGED <<lock, ledger, schema, collided>>

MayLock(r) == run[r].at = "lock" /\ lock = NoRunner

TakeLock(r) ==
  /\ MayLock(r)
  /\ lock' = r
  /\ At(r, "read")
  /\ UNCHANGED <<ledger, schema, collided>>

ReadLedger(r) ==
  /\ run[r].at = "read"
  /\ LET pending == (1..Release[r]) \ ledger IN
     run' = [run EXCEPT ![r] = [at |-> IF pending = {} THEN "unlock" ELSE "apply",
                                pending |-> pending]]
  /\ UNCHANGED <<lock, ledger, schema, collided>>

\* BEGIN and the statements of the next file
ApplyFile(r) ==
  /\ run[r].at = "apply"
  /\ At(r, "record")
  /\ UNCHANGED <<lock, ledger, schema, collided>>

\* the INSERT, refused if the row is there (primary key), and COMMIT
RecordFile(r) ==
  LET f == FirstOf(run[r].pending)
      left == run[r].pending \ {f}
  IN
  /\ run[r].at = "record"
  /\ \/ /\ f \notin ledger
        /\ ledger' = ledger \cup {f} /\ schema' = schema \cup {f}
        /\ run' = [run EXCEPT ![r] = [at |-> IF left = {} THEN "unlock" ELSE "apply",
                                      pending |-> left]]
        /\ UNCHANGED collided
     \/ /\ f \in ledger
        /\ collided' = TRUE
        /\ At(r, "unlock")
        /\ UNCHANGED <<ledger, schema>>
  /\ UNCHANGED lock

\* mutant of AfterError: the next file is tried
AfterErrorNext(r) ==
  LET left == run[r].pending \ {FirstOf(run[r].pending)} IN
  run' = [run EXCEPT ![r] = [at |-> IF left = {} THEN "unlock" ELSE "apply", pending |-> left]]

AfterError(r) == At(r, "unlock")

\* a statement fails: ROLLBACK, and the error ends the run
FileFails(r) ==
  /\ run[r].at = "record"
  /\ AfterError(r)
  /\ UNCHANGED <<lock, ledger, schema, collided>>

\* finally: pg_advisory_unlock
Unlock(r) ==
  /\ run[r].at = "unlock"
  /\ lock' = IF lock = r THEN NoRunner ELSE lock
  /\ run' = [run EXCEPT ![r] = Off]
  /\ UNCHANGED <<ledger, schema, collided>>

\* the process or its connection is lost
LoseRun(r) ==
  /\ run[r].at # "off"
  /\ lock' = IF lock = r THEN NoRunner ELSE lock
  /\ run' = [run EXCEPT ![r] = Off]
  /\ UNCHANGED <<ledger, schema, collided>>

MigrationsNext ==
  \E r \in Runner : \/ StartRun(r) \/ TakeLock(r) \/ ReadLedger(r) \/ ApplyFile(r)
                    \/ RecordFile(r) \/ FileFails(r) \/ Unlock(r) \/ LoseRun(r)

MigrationsSpec == MigrationsInit /\ [][MigrationsNext]_mgVars

----------------------------------------------------------------------------
(***************************************************************************)
(* The files are applied in their order and without a gap, whatever fails, *)
(* crashes or runs at the same time, and whichever releases the runs are   *)
(* of: a committed file has all earlier ones below it, and its ledger row  *)
(* (migrate.js:119-144).                                                   *)
(***************************************************************************)
AppliedInOrder ==
  /\ ledger = schema
  /\ \A f \in schema : 1..f \subseteq schema

(***************************************************************************)
(* No run fails because of another one: what it read from the ledger under *)
(* the lock is still true when it inserts its rows (MIGRATE_LOCK_ID,       *)
(* migrate.js:52-53).                                                      *)
(***************************************************************************)
NoCollision == ~collided
=============================================================================

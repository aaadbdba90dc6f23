------------------------------ MODULE Installer ------------------------------
(* The privileged installer (scripts/codestra-kyqra-remediation-admin.in):     *)
(* install with its backup and cutover, the EXIT trap with the automatic       *)
(* rollback, and the rollback an operator asks for.  A step is a command that  *)
(* changes something, or a group of them that changes one thing; any of them   *)
(* may fail, having done a part of its work.                                   *)
EXTENDS Naturals

CONSTANTS
  Services,   \* APP_SERVICES
  api,
  None,
  MaxFaults,  \* per invocation of "install" and of "rollback"
  MaxOps,     \* bound: invocations
  MaxWrites   \* bound: writes of the services

ASSUME InstallerAssumption ==
  /\ api \in Services
  /\ None \notin Nat /\ \A services \in SUBSET Services : services # None
  /\ MaxFaults \in [{"install", "rollback"} -> Nat]
  /\ {MaxOps, MaxWrites} \subseteq Nat

VARIABLES
  op, pc, ops, faults,
  auto,      \* on_install_exit is running: no trap, and no errexit in what it calls
  running,   \* the services that run
  image,     \* the image of each service's container: "prev", "new"
  files,     \* Compose file, sources, Nginx and firewall: "prev", "new", "mixed"
  redisUp,
  queue,     \* what the Redis volume holds: the number of writes, None if wiped
  db,        \* what PostgreSQL holds, and under which schema
  backup,    \* the directory create_backup is filling
  pointer,   \* the backup CURRENT_BACKUP names
  before, kept  \* history: the services that ran, and the writes of their image

script == <<op, ops, before>>
stores == <<queue, db>>
apps == <<running, image>>
vars == <<script, pc, faults, auto, apps, files, redisUp, stores, backup, pointer, kept>>

NoDb == [data |-> None, schema |-> "none"]
EmptyDb == [data |-> None, schema |-> "empty"]
NoBackup == [services |-> None, queue |-> None, db |-> NoDb]

-----------------------------------------------------------------------------
(* bash.                                                                       *)

BackupSteps == {"capture", "stopApps", "stopRedis", "tar", "dump", "seal", "startRedis", "commit"}
Ended == {"done", "failed", "killed"}

After ==
  [capture |-> "stopApps", stopApps |-> "stopRedis", stopRedis |-> "tar", tar |-> "dump",
   dump |-> "seal", seal |-> "startRedis", startRedis |-> "commit", commit |-> "files",
   files |-> "migrate", migrate |-> "up", up |-> "verify", verify |-> "done",
   check |-> "haltApps", haltApps |-> "haltRedis", haltRedis |-> "restoreFiles",
   restoreFiles |-> "dropdb", dropdb |-> "createdb", createdb |-> "pgRestore",
   pgRestore |-> "redisRestore", redisRestore |-> "resumeRedis", resumeRedis |-> "recreate",
   recreate |-> "health", health |-> "done",
   preRedis |-> "preStart", preStart |-> "done"]

(* exit: with the trap set, the handler takes over. *)
Exits ==
  IF op = "install" /\ ~auto
  THEN auto' = TRUE /\ pc' = IF pc \in BackupSteps THEN "preRedis" ELSE "check"
  ELSE pc' = "failed" /\ UNCHANGED auto

(* The handler ends with the exit code it began with. *)
Goes ==
  /\ pc' = IF auto /\ After[pc] = "done" THEN "failed" ELSE After[pc]
  /\ UNCHANGED auto

(* A command fails: errexit ends the script, but the handler calls what it      *)
(* calls in `... || true`, where bash goes on with the next command.           *)
CommandFails == IF auto THEN Goes ELSE Exits

Succeeds == Goes /\ UNCHANGED faults
Fault == faults < MaxFaults[op] /\ faults' = faults + 1
Fails == Fault /\ CommandFails
Dies == Fault /\ Exits

-----------------------------------------------------------------------------
(* create_backup, and the commands do_rollback shares with it.                 *)

OneImage == \A s \in Services : image[s] = image[api]

(* capture_running_services, previous_image, redis_volume_name.                *)
Capture ==
  /\ pc = "capture"
  /\ IF api \in running /\ OneImage
     THEN \/ Succeeds /\ backup' = [NoBackup EXCEPT !.services = running]
          \/ Fails /\ backup' = NoBackup
     ELSE Exits /\ backup' = NoBackup /\ UNCHANGED faults
  /\ UNCHANGED <<script, apps, files, redisUp, stores, pointer, kept>>

(* A bug: the workers are not stopped. *)
StopApi ==
  /\ pc \in {"stopApps", "haltApps"}
  /\ Succeeds /\ running' = running \ {api}
  /\ UNCHANGED <<script, image, files, redisUp, stores, backup, pointer, kept>>

(* compose stop of the services; it may have stopped some when it fails.       *)
StopApps ==
  /\ pc \in {"stopApps", "haltApps"}
  /\ \/ Succeeds /\ running' = {}
     \/ Fails /\ running' \in SUBSET running
  /\ UNCHANGED <<script, image, files, redisUp, stores, backup, pointer, kept>>

StopRedis ==
  /\ pc \in {"stopRedis", "haltRedis"}
  /\ \/ Succeeds /\ redisUp' = FALSE
     \/ Fails /\ redisUp' \in {redisUp, FALSE}
  /\ UNCHANGED <<script, apps, files, stores, backup, pointer, kept>>

(* backup_redis_volume, pg_dump, and the files with their checksums.           *)
Snapshot ==
  /\ \/ pc = "tar" /\ Succeeds /\ backup' = [backup EXCEPT !.queue = queue]
     \/ pc = "dump" /\ Succeeds /\ backup' = [backup EXCEPT !.db = db]
     \/ pc = "seal" /\ Succeeds /\ UNCHANGED backup
     \/ pc \in {"tar", "dump", "seal"} /\ Fails /\ UNCHANGED backup
  /\ UNCHANGED <<script, apps, files, redisUp, stores, pointer, kept>>

(* docker start and wait_for_redis, which exits when there is no answer.       *)
StartRedis ==
  /\ pc \in {"startRedis", "preRedis", "resumeRedis"}
  /\ \/ Succeeds /\ redisUp' = TRUE
     \/ ~redisUp /\ Dies /\ UNCHANGED redisUp
  /\ UNCHANGED <<script, apps, files, stores, backup, pointer, kept>>

(* The pointer is moved into place; from here on a failure is rolled back.     *)
Commit ==
  /\ pc = "commit"
  /\ \/ Succeeds /\ pointer' = backup
     \/ Fails /\ UNCHANGED pointer
  /\ UNCHANGED <<script, apps, files, redisUp, stores, backup, kept>>

(* restore_prebackup_runtime, after Redis.                                     *)
StartCaptured ==
  /\ pc = "preStart"
  /\ LET captured == IF backup.services = None THEN {} ELSE backup.services
     IN  \/ Succeeds /\ running' = running \cup captured
         \/ Fails /\ \E some \in SUBSET captured : running' = running \cup some
  /\ UNCHANGED <<script, image, files, redisUp, stores, backup, pointer, kept>>

-----------------------------------------------------------------------------
(* install, after the backup.                                                  *)

InstallFiles ==
  /\ pc = "files"
  /\ \/ Succeeds /\ files' = "new"
     \/ Fails /\ files' \in {files, "mixed", "new"}
  /\ UNCHANGED <<script, apps, redisUp, stores, backup, pointer, kept>>

(* The one-shot migrator; it may have applied some of the migrations.          *)
Migrate ==
  /\ pc = "migrate"
  /\ \/ Succeeds /\ db' = [db EXCEPT !.schema = "new"]
     \/ Fails /\ db' \in {db, [db EXCEPT !.schema = "new"]}
  /\ UNCHANGED <<script, apps, files, redisUp, queue, backup, pointer, kept>>

(* compose up --force-recreate; it may have recreated some.                    *)
Recreate(services, version) ==
  \/ /\ Succeeds
     /\ running' = running \cup services
     /\ image' = [s \in Services |-> IF s \in services THEN version ELSE image[s]]
  \/ /\ Fails
     /\ \E some \in SUBSET services :
          /\ running' \in {running \cup some, running \ some}
          /\ image' = [s \in Services |-> IF s \in some THEN version ELSE image[s]]

Up ==
  /\ pc = "up"
  /\ Recreate(Services, "new")
  /\ UNCHANGED <<script, files, redisUp, stores, backup, pointer, kept>>

(* readyz, the firewall, runtime_verify.                                       *)
Verify ==
  /\ pc = "verify"
  /\ Succeeds \/ Fails
  /\ UNCHANGED <<script, apps, files, redisUp, stores, backup, pointer, kept>>

-----------------------------------------------------------------------------
(* do_rollback.                                                                *)

CheckBackup ==
  /\ pc = "check"
  /\ IF pointer # NoBackup THEN Succeeds \/ Dies ELSE Exits /\ UNCHANGED faults
  /\ UNCHANGED <<script, apps, files, redisUp, stores, backup, pointer, kept>>

RestoreFiles ==
  /\ pc = "restoreFiles"
  /\ \/ Succeeds /\ files' = "prev"
     \/ Fails /\ files' \in {files, "mixed", "prev"}
  /\ UNCHANGED <<script, apps, redisUp, stores, backup, pointer, kept>>

DropDb ==
  /\ pc = "dropdb"
  /\ \/ Succeeds /\ db' = NoDb
     \/ Fails /\ db' = db
  /\ UNCHANGED <<script, apps, files, redisUp, queue, backup, pointer, kept>>

(* createdb fails by itself if the database is there, pg_restore if it is not  *)
(* empty; the restore is a single transaction.                                 *)
CreateDb ==
  /\ pc = "createdb"
  /\ \/ db = NoDb /\ Succeeds /\ db' = EmptyDb
     \/ db = NoDb /\ Fails /\ db' = db
     \/ db # NoDb /\ CommandFails /\ UNCHANGED <<faults, db>>
  /\ UNCHANGED <<script, apps, files, redisUp, queue, backup, pointer, kept>>

PgRestore ==
  /\ pc = "pgRestore"
  /\ \/ db = EmptyDb /\ Succeeds /\ db' = pointer.db
     \/ db = EmptyDb /\ Fails /\ db' = db
     \/ db # EmptyDb /\ CommandFails /\ UNCHANGED <<faults, db>>
  /\ UNCHANGED <<script, apps, files, redisUp, queue, backup, pointer, kept>>

(* restore_redis_volume wipes the volume and unpacks; a Redis that runs keeps  *)
(* what it has in memory.                                                      *)
RedisRestore ==
  /\ pc = "redisRestore"
  /\ \/ Succeeds /\ queue' = IF redisUp THEN queue ELSE pointer.queue
     \/ Fails /\ queue' \in IF redisUp THEN {queue} ELSE {queue, None}
  /\ UNCHANGED <<script, apps, files, redisUp, db, backup, pointer, kept>>

(* A bug: every service is started. *)
StartAll ==
  /\ pc = "recreate"
  /\ Recreate(Services, "prev")
  /\ UNCHANGED <<script, files, redisUp, stores, backup, pointer, kept>>

StartRecorded ==
  /\ pc = "recreate"
  /\ Recreate(pointer.services, "prev")
  /\ UNCHANGED <<script, files, redisUp, stores, backup, pointer, kept>>

(* curl /health, then `record PASS`. *)
Health ==
  /\ pc = "health"
  /\ \/ api \in running /\ db.data # None /\ (Succeeds \/ Fails)
     \/ (api \notin running \/ db.data = None) /\ CommandFails /\ UNCHANGED faults
  /\ UNCHANGED <<script, apps, files, redisUp, stores, backup, pointer, kept>>

-----------------------------------------------------------------------------

(* Power or the process is gone: no trap runs. *)
Kill ==
  /\ pc \notin Ended
  /\ Fault
  /\ pc' = "killed"
  /\ UNCHANGED <<script, auto, apps, files, redisUp, stores, backup, pointer, kept>>

(* A running service that reaches both stores writes to them.                  *)
Write(s) ==
  /\ s \in running
  /\ redisUp
  /\ db.data # None /\ queue # None
  /\ db.data < MaxWrites /\ queue < MaxWrites
  /\ db' = [db EXCEPT !.data = @ + 1]
  /\ queue' = queue + 1
  /\ kept' = IF image[s] = "prev" THEN kept + 1 ELSE kept
  /\ UNCHANGED <<script, pc, faults, auto, apps, files, redisUp, backup, pointer>>

(* preflight_runtime only lets the release before be replaced.                 *)
Start(o) ==
  /\ pc \in Ended
  /\ ops < MaxOps
  /\ ops' = ops + 1
  /\ op' = o
  /\ \/ /\ o = "install"
        /\ api \in running /\ image[api] = "prev" /\ redisUp /\ db.data # None
        /\ pc' = "capture"
     \/ o = "rollback" /\ pc' = "check"
  /\ faults' = 0
  /\ auto' = FALSE
  /\ before' = running
  /\ kept' = IF db.data = None THEN 0 ELSE db.data
  /\ backup' = NoBackup
  /\ UNCHANGED <<apps, files, redisUp, stores, pointer>>

Init ==
  /\ op = "rollback" /\ pc = "done" /\ ops = 0 /\ faults = 0 /\ auto = FALSE
  /\ running \in {S \in SUBSET Services : api \in S}
  /\ image = [s \in Services |-> "prev"]
  /\ files = "prev"
  /\ redisUp = TRUE
  /\ queue = 0
  /\ db = [data |-> 0, schema |-> "prev"]
  /\ backup = NoBackup /\ pointer = NoBackup
  /\ before = running /\ kept = 0

BackupStep == Capture \/ StopApps \/ StopRedis \/ Snapshot \/ StartRedis \/ Commit \/ StartCaptured
InstallStep == InstallFiles \/ Migrate \/ Up \/ Verify
RollbackStep ==
  \/ CheckBackup \/ RestoreFiles \/ DropDb \/ CreateDb \/ PgRestore \/ RedisRestore
  \/ StartRecorded \/ Health

Next ==
  \/ BackupStep \/ InstallStep \/ RollbackStep \/ Kill
  \/ \E s \in Services : Write(s)
  \/ \E o \in {"install", "rollback"} : Start(o)

Spec == Init /\ [][Next]_vars

-----------------------------------------------------------------------------

(* Code, schema, database and queue are of one point in time whenever a        *)
(* service runs: nobody writes between the two snapshots, while one store is   *)
(* restored and the other is not, or over an empty database.                   *)
OnePointInTime ==
  \A s \in running : db.data # None /\ db.data = queue /\ db.schema = image[s]

(* An install that fails leaves what it found: the services that ran, with     *)
(* their image and files, and all they had written.                            *)
FailedInstallIsUndone ==
  op = "install" /\ pc = "failed" =>
    /\ running = before
    /\ \A s \in running : image[s] = "prev"
    /\ files = "prev"
    /\ redisUp
    /\ db = [data |-> kept, schema |-> "prev"] /\ queue = kept

=============================================================================

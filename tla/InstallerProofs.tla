--------------------------- MODULE InstallerProofs ---------------------------
(* Proofs about Installer: as long as at most one command of an install fails, *)
(* services only run over stores of one point in time, and a failed install    *)
(* leaves what it found.  Rollbacks asked for may fail as often as they like.  *)
EXTENDS Installer, TLAPS

(* What on_install_exit calls does not stop at a failing command, so nothing   *)
(* must be left to fail by then.                                               *)
OneInstallFault == MaxFaults["install"] <= 1

-----------------------------------------------------------------------------
(* The invariant.                                                              *)

(* Where the script is. *)
RollbackSteps ==
  {"check", "haltApps", "haltRedis", "restoreFiles", "dropdb", "createdb", "pgRestore",
   "redisRestore", "resumeRedis", "recreate", "health"}
CutoverSteps == {"files", "migrate", "up", "verify"}
RestartSteps == {"preRedis", "preStart"}
Steps == BackupSteps \cup RestartSteps \cup CutoverSteps \cup RollbackSteps \cup Ended

(* From the stop of the services until they are started again. *)
Outage ==
  {"stopRedis", "tar", "dump", "seal", "startRedis", "commit", "files", "migrate", "up",
   "haltRedis", "restoreFiles", "dropdb", "createdb", "pgRestore", "redisRestore",
   "resumeRedis", "recreate"}

DbType == [data : Nat \cup {None}, schema : {"none", "empty", "prev", "new"}]

TypeOK ==
  /\ op \in {"install", "rollback"} /\ pc \in Steps
  /\ faults \in Nat /\ auto \in BOOLEAN
  /\ running \subseteq Services /\ image \in [Services -> {"prev", "new"}]
  /\ redisUp \in BOOLEAN
  /\ queue \in Nat \cup {None} /\ db \in DbType
  /\ backup \in [services : (SUBSET Services) \cup {None}, queue : Nat \cup {None}, db : DbType]

(* The stores hold n writes, under the schema of an image. *)
Holding(n, version) == n \in Nat /\ db = [data |-> n, schema |-> version] /\ queue = n

(* A backup that is complete. *)
Complete(b) ==
  /\ b.services \subseteq Services
  /\ b.queue \in Nat
  /\ b.db = [data |-> b.queue, schema |-> "prev"]

AllPrev(services) == \A s \in services : image[s] = "prev"

(* Who runs the script, and with how many faults left. *)
ScriptInv ==
  /\ auto => op = "install"
  /\ pc \in BackupSteps \cup CutoverSteps => op = "install" /\ ~auto
  /\ pc \in RestartSteps => auto
  /\ pc \in RollbackSteps => IF auto THEN faults > 0 ELSE op = "rollback"

(* What a rollback has restored at each step. *)
RollbackInv ==
  /\ pointer = NoBackup \/ Complete(pointer)
  /\ pc \in RollbackSteps \ {"check"} => Complete(pointer)
  /\ pc \in {"restoreFiles", "dropdb", "createdb", "pgRestore", "redisRestore", "resumeRedis"} => ~redisUp
  /\ pc \in {"dropdb", "createdb", "pgRestore", "redisRestore", "resumeRedis", "recreate"} => files = "prev"
  /\ pc = "createdb" => db = NoDb
  /\ pc = "pgRestore" => db = EmptyDb
  /\ pc \in {"redisRestore", "resumeRedis", "recreate"} => db = pointer.db
  /\ pc \in {"resumeRedis", "recreate"} => queue = pointer.queue
  /\ pc \in {"recreate", "health"} => redisUp

(* Services run over stores of one point in time; an API of the release before *)
(* has the files of it.                                                        *)
ServiceInv ==
  /\ pc \in Outage => running = {}
  /\ OnePointInTime
  /\ api \in running /\ image[api] = "prev" => files = "prev"

(* An install up to the pointer's move has lost nothing. *)
BackupInv ==
  LET captured == IF backup.services = None THEN {} ELSE backup.services
  IN  /\ pc \in BackupSteps \cup RestartSteps =>
           /\ Holding(kept, "prev") /\ files = "prev"
           /\ running \subseteq before /\ before \subseteq Services
           /\ captured \subseteq before /\ AllPrev(running \cup captured)
      /\ pc = "capture" => running = before /\ redisUp /\ image[api] = "prev"
      /\ pc \in BackupSteps \ {"capture"} => AllPrev(Services) /\ backup.services = before
      /\ pc = "stopApps" => redisUp
      /\ pc \in {"dump", "seal", "startRedis", "commit"} => backup.queue = queue
      /\ pc \in {"seal", "startRedis", "commit"} => backup.db = db
      /\ pc = "commit" => redisUp
      /\ pc \in RestartSteps => running \cup captured = before
      /\ pc \in RestartSteps /\ faults = 0 => redisUp /\ captured = {}
      /\ pc = "preStart" => redisUp

(* From then on its backup is what it can go back to. *)
CutoverInv ==
  /\ pc \in CutoverSteps \/ (auto /\ pc \in RollbackSteps \ {"health"}) =>
       Complete(pointer) /\ pointer.services = before /\ pointer.queue = kept
  /\ pc \in {"files", "migrate"} => Holding(kept, "prev")
  /\ pc = "up" => Holding(kept, "new")
  /\ pc = "verify" \/ (auto /\ pc \in {"check", "haltApps"}) => \A s \in running : image[s] = "new"

(* A failed install is undone; before the handler's last command already. *)
UndoneInv ==
  op = "install" /\ (pc = "failed" \/ (auto /\ pc = "health")) =>
    /\ running = before /\ AllPrev(running)
    /\ files = "prev" /\ redisUp /\ Holding(kept, "prev")

InstallerIInv == TypeOK /\ ScriptInv /\ RollbackInv /\ ServiceInv /\ BackupInv /\ CutoverInv /\ UndoneInv


-----------------------------------------------------------------------------
(* Where a command leads.                                                      *)

(* A step leads to a step. *)
LEMMA ControlTypes ==
  ASSUME TypeOK, pc \notin Ended, Goes \/ Exits
  PROVE  pc' \in Steps /\ auto' \in BOOLEAN
<1>1. After[pc] \in Steps
  BY DEF TypeOK, After, Steps, BackupSteps, RestartSteps, CutoverSteps, RollbackSteps, Ended
<1>2. {"preRedis", "check", "failed"} \subseteq Steps
  BY DEF Steps, RestartSteps, RollbackSteps, Ended
<1> QED
  BY <1>1, <1>2 DEF TypeOK, Goes, Exits

LEMMA CommandTypes ==
  ASSUME TypeOK, pc \notin Ended, Succeeds \/ Fails \/ Dies
  PROVE  pc' \in Steps /\ auto' \in BOOLEAN /\ faults' \in Nat
BY ControlTypes DEF TypeOK, Succeeds, Fails, Dies, Fault, CommandFails

(* create_backup: a failure restarts what it has stopped. *)
LEMMA BackupControl ==
  ASSUME TypeOK, ScriptInv, pc \in BackupSteps
  PROVE  /\ Succeeds => pc' = After[pc] /\ ~auto' /\ faults' = faults
         /\ Fails \/ Dies => pc' = "preRedis" /\ auto' /\ faults' > 0
         /\ Exits => pc' = "preRedis" /\ auto'
BY DEF TypeOK, ScriptInv, Succeeds, Fails, Dies, Fault, CommandFails, Goes, Exits

(* restore_prebackup_runtime: the handler ends with a failed install. *)
LEMMA RestartControl ==
  ASSUME TypeOK, ScriptInv, OneInstallFault, pc \in RestartSteps
  PROVE  /\ Succeeds \/ Fails => pc' = (IF pc = "preRedis" THEN "preStart" ELSE "failed") /\ auto'
         /\ Succeeds => faults' = faults
         /\ Fails \/ Dies => faults = 0
BY InstallerAssumption
DEF InstallerAssumption, OneInstallFault, TypeOK, ScriptInv, RestartSteps, BackupSteps, CutoverSteps, RollbackSteps,
    Succeeds, Fails, Dies, Fault, CommandFails, Goes, Exits, After

(* install: a failure after the backup is rolled back. *)
LEMMA CutoverControl ==
  ASSUME TypeOK, ScriptInv, pc \in CutoverSteps
  PROVE  /\ Succeeds => pc' = After[pc] /\ ~auto' /\ faults' = faults
         /\ Fails => pc' = "check" /\ auto' /\ faults' > 0
BY DEF TypeOK, ScriptInv, CutoverSteps, BackupSteps, Succeeds, Fails, Fault, CommandFails, Goes,
      Exits

(* do_rollback: one asked for stops at the first failure, an automatic one has *)
(* no failure left.                                                            *)
LEMMA RollbackControl ==
  ASSUME TypeOK, ScriptInv, OneInstallFault, pc \in RollbackSteps
  PROVE  /\ Succeeds => /\ auto' = auto /\ faults' = faults
                        /\ pc' = IF pc = "health" THEN IF auto THEN "failed" ELSE "done" ELSE After[pc]
         /\ Fails \/ Dies => ~auto /\ ~auto' /\ op = "rollback" /\ pc' = "failed"
         /\ ~auto /\ CommandFails => ~auto' /\ op = "rollback" /\ pc' = "failed"
<1>1. Succeeds => /\ auto' = auto /\ faults' = faults
                  /\ pc' = IF pc = "health" THEN IF auto THEN "failed" ELSE "done" ELSE After[pc]
  BY DEF RollbackSteps, Succeeds, Goes, After
<1>2. Fails \/ Dies => ~auto
  BY InstallerAssumption DEF InstallerAssumption, OneInstallFault, TypeOK, ScriptInv, Fails,
      Dies, Fault
<1>3. ~auto /\ (CommandFails \/ Exits) => ~auto' /\ op = "rollback" /\ pc' = "failed"
  BY DEF ScriptInv, CommandFails, Exits
<1> QED
  BY <1>1, <1>2, <1>3 DEF Fails, Dies

-----------------------------------------------------------------------------
(* Types.                                                                      *)

LEMMA TypeNext ==
  ASSUME TypeOK, RollbackInv, BackupInv, [Next]_vars
  PROVE  TypeOK'
<1> USE DEF TypeOK, script, apps, stores
<1>1. ASSUME pc \notin Ended, Capture \/ CheckBackup PROVE TypeOK'
  BY <1>1, CommandTypes, ControlTypes DEF Capture, CheckBackup, NoBackup, NoDb, DbType
<1>2. CASE StopApps
  BY <1>2, CommandTypes DEF StopApps, Ended
<1>3. CASE StopRedis
  BY <1>3, CommandTypes DEF StopRedis, Ended
<1>4. CASE Snapshot
  BY <1>4, CommandTypes DEF Snapshot, Ended
<1>5. CASE StartRedis
  BY <1>5, CommandTypes DEF StartRedis, Ended
<1>6. CASE Commit
  BY <1>6, CommandTypes DEF Commit, Ended
<1>7. CASE StartCaptured
  BY <1>7, CommandTypes DEF StartCaptured, Ended, BackupInv, RestartSteps
<1>8. CASE InstallFiles \/ Verify
  BY <1>8, CommandTypes DEF InstallFiles, Verify, Ended
<1>9. CASE Migrate
  BY <1>9, CommandTypes DEF Migrate, DbType, Ended
<1>10. CASE Up
  BY <1>10, CommandTypes DEF Up, Recreate, Ended
<1>11. CASE RestoreFiles
  BY <1>11, CommandTypes DEF RestoreFiles, Ended
<1>12. CASE DropDb
  BY <1>12, CommandTypes DEF DropDb, NoDb, DbType, Ended
<1>13. CASE CreateDb
  BY <1>13, CommandTypes, ControlTypes DEF CreateDb, CommandFails, EmptyDb, DbType, Ended
<1>14. CASE PgRestore
  BY <1>14, CommandTypes, ControlTypes
  DEF PgRestore, CommandFails, Ended, DbType, RollbackInv, RollbackSteps, Complete
<1>15. CASE RedisRestore
  BY <1>15, CommandTypes DEF RedisRestore, Ended, RollbackInv, RollbackSteps, Complete
<1>16. CASE StartRecorded
  BY <1>16, CommandTypes DEF StartRecorded, Recreate, Ended, RollbackInv, RollbackSteps,
      Complete
<1>17. CASE Health
  BY <1>17, CommandTypes, ControlTypes DEF Health, CommandFails, Ended
<1>18. CASE Kill
  BY <1>18 DEF Kill, Fault, Steps, Ended
<1>19. ASSUME NEW s \in Services, Write(s) PROVE TypeOK'
  BY <1>19, InstallerAssumption DEF Write, InstallerAssumption, DbType
<1>20. ASSUME NEW o \in {"install", "rollback"}, Start(o) PROVE TypeOK'
  BY <1>20 DEF Start, NoBackup, NoDb, DbType, Steps, BackupSteps, RollbackSteps
<1>21. CASE UNCHANGED vars
  BY <1>21 DEF vars
<1>22. (Capture \/ CheckBackup) => pc \notin Ended
  BY DEF Capture, CheckBackup, Ended
<1> QED
  BY <1>1, <1>2, <1>3, <1>4, <1>5, <1>6, <1>7, <1>8, <1>9, <1>10, <1>11, <1>12, <1>13, <1>14,
     <1>15, <1>16, <1>17, <1>18, <1>19, <1>20, <1>21, <1>22
  DEF Next, BackupStep, InstallStep, RollbackStep

-----------------------------------------------------------------------------
(* Each command keeps the invariant: first what it comes to, and where the     *)
(* script goes on.  The sets of steps are expanded from here on.               *)

USE DEF BackupSteps, RestartSteps, CutoverSteps, RollbackSteps, Ended, Outage

LEMMA CaptureKeeps ==
  ASSUME InstallerIInv, TypeOK', OneInstallFault, Capture
  PROVE  InstallerIInv'
<1> USE DEF InstallerIInv, Capture, script, apps, stores
<1>1. \/ /\ pc' = "stopApps" /\ ~auto'
         /\ api \in running /\ OneImage /\ backup' = [NoBackup EXCEPT !.services = running]
      \/ /\ pc' = "preRedis" /\ auto' /\ backup' = NoBackup
  BY BackupControl DEF After
<1>2. ScriptInv'
  BY <1>1 DEF ScriptInv
<1>3. RollbackInv'
  BY <1>1 DEF RollbackInv
<1>4. ServiceInv'
  BY <1>1 DEF ServiceInv, OnePointInTime
<1>5. BackupInv'
  BY <1>1 DEF BackupInv, OneImage, Holding, AllPrev, NoBackup
<1>6. CutoverInv'
  BY <1>1 DEF CutoverInv, TypeOK
<1>7. UndoneInv'
  BY DEF UndoneInv, BackupInv, CutoverInv, ServiceInv, Holding, Complete, AllPrev, TypeOK
<1> QED
  BY <1>2, <1>3, <1>4, <1>5, <1>6, <1>7

LEMMA StopAppsKeeps ==
  ASSUME InstallerIInv, TypeOK', OneInstallFault, StopApps
  PROVE  InstallerIInv'
<1> USE DEF InstallerIInv, StopApps, script, apps, stores
<1>1. \/ pc = "stopApps" /\ pc' = "stopRedis" /\ ~auto' /\ running' = {}
      \/ pc = "stopApps" /\ pc' = "preRedis" /\ auto' /\ faults' > 0 /\ running' \subseteq running
      \/ pc = "haltApps" /\ pc' = "haltRedis" /\ auto' = auto /\ faults' = faults /\ running' = {}
      \/ /\ pc = "haltApps" /\ pc' = "failed" /\ ~auto /\ ~auto' /\ op = "rollback"
         /\ running' \subseteq running
  BY BackupControl, RollbackControl DEF After
<1>2. ScriptInv'
  BY <1>1 DEF ScriptInv
<1>3. RollbackInv'
  BY <1>1 DEF RollbackInv
<1>4. ServiceInv'
  BY <1>1 DEF ServiceInv, OnePointInTime
<1>5. BackupInv'
  BY <1>1, InstallerAssumption DEF BackupInv, Holding, AllPrev
<1>6. CutoverInv'
  BY <1>1 DEF CutoverInv
<1>7. UndoneInv'
  BY <1>1 DEF UndoneInv
<1> QED
  BY <1>2, <1>3, <1>4, <1>5, <1>6, <1>7

LEMMA StopRedisKeeps ==
  ASSUME InstallerIInv, TypeOK', OneInstallFault, StopRedis
  PROVE  InstallerIInv'
<1> USE DEF InstallerIInv, StopRedis, script, apps, stores
<1>1. \/ pc = "stopRedis" /\ pc' = "tar" /\ ~auto'
      \/ pc = "stopRedis" /\ pc' = "preRedis" /\ auto' /\ faults' > 0
      \/ pc = "haltRedis" /\ pc' = "restoreFiles" /\ auto' = auto /\ faults' = faults /\ ~redisUp'
      \/ pc = "haltRedis" /\ pc' = "failed" /\ ~auto /\ ~auto' /\ op = "rollback"
  <2>1. CASE pc = "stopRedis"
    BY <2>1, BackupControl DEF After
  <2>2. CASE pc = "haltRedis" /\ Succeeds /\ redisUp' = FALSE
    BY <2>2, RollbackControl DEF After
  <2>3. CASE pc = "haltRedis" /\ Fails
    BY <2>3, RollbackControl
  <2> QED
    BY <2>1, <2>2, <2>3
<1>2. ScriptInv'
  BY <1>1 DEF ScriptInv
<1>3. RollbackInv'
  BY <1>1 DEF RollbackInv
<1>4. ServiceInv'
  BY DEF ServiceInv, OnePointInTime
<1>5. BackupInv'
  BY <1>1, InstallerAssumption DEF BackupInv, Holding, AllPrev
<1>6. CutoverInv'
  BY <1>1 DEF CutoverInv
<1>7. UndoneInv'
  BY <1>1 DEF UndoneInv
<1> QED
  BY <1>2, <1>3, <1>4, <1>5, <1>6, <1>7

LEMMA SnapshotKeeps ==
  ASSUME InstallerIInv, TypeOK', OneInstallFault, Snapshot
  PROVE  InstallerIInv'
<1> USE DEF InstallerIInv, Snapshot, script, apps, stores
<1>1. \/ pc = "tar" /\ pc' = "dump" /\ ~auto' /\ backup' = [backup EXCEPT !.queue = queue]
      \/ pc = "dump" /\ pc' = "seal" /\ ~auto' /\ backup' = [backup EXCEPT !.db = db]
      \/ pc = "seal" /\ pc' = "startRedis" /\ ~auto' /\ backup' = backup
      \/ /\ pc \in {"tar", "dump", "seal"} /\ pc' = "preRedis" /\ auto' /\ faults' > 0
         /\ backup' = backup
  BY BackupControl, InstallerAssumption DEF After, TypeOK, InstallerAssumption
<1>2. ScriptInv'
  BY <1>1 DEF ScriptInv
<1>3. RollbackInv'
  BY <1>1 DEF RollbackInv, BackupInv, Holding
<1>4. ServiceInv'
  BY <1>1 DEF ServiceInv, OnePointInTime, RollbackInv, Complete, BackupInv, CutoverInv
<1>5. BackupInv'
  BY <1>1, InstallerAssumption
  DEF BackupInv, InstallerAssumption, ScriptInv, OneImage, OnePointInTime, Holding, AllPrev,
      TypeOK
<1>6. CutoverInv'
  BY <1>1 DEF CutoverInv
<1>7. UndoneInv'
  BY <1>1 DEF UndoneInv, AllPrev
<1> QED
  BY <1>2, <1>3, <1>4, <1>5, <1>6, <1>7

LEMMA StartRedisKeeps ==
  ASSUME InstallerIInv, TypeOK', OneInstallFault, StartRedis
  PROVE  InstallerIInv'
<1> USE DEF InstallerIInv, StartRedis, script, apps, stores
<1>1. \/ pc = "startRedis" /\ pc' = "commit" /\ ~auto' /\ redisUp'
      \/ pc = "startRedis" /\ pc' = "preRedis" /\ auto' /\ faults' > 0
      \/ pc = "preRedis" /\ pc' = "preStart" /\ auto' /\ faults' = faults /\ redisUp'
      \/ pc = "resumeRedis" /\ pc' = "recreate" /\ auto' = auto /\ faults' = faults /\ redisUp'
      \/ pc = "resumeRedis" /\ pc' = "failed" /\ ~auto /\ ~auto' /\ op = "rollback"
  BY BackupControl, RollbackControl, RestartControl DEF After, BackupInv
<1>2. ScriptInv'
  BY <1>1 DEF ScriptInv
<1>3. RollbackInv'
  BY <1>1 DEF RollbackInv
<1>4. ServiceInv'
  BY <1>1 DEF ServiceInv, OnePointInTime
<1>5. BackupInv'
  BY <1>1, InstallerAssumption DEF BackupInv, Holding, AllPrev
<1>6. CutoverInv'
  BY <1>1 DEF CutoverInv
<1>7. UndoneInv'
  BY <1>1 DEF UndoneInv
<1> QED
  BY <1>2, <1>3, <1>4, <1>5, <1>6, <1>7

LEMMA CommitKeeps ==
  ASSUME InstallerIInv, TypeOK', OneInstallFault, Commit
  PROVE  InstallerIInv'
<1> USE DEF InstallerIInv, Commit, script, apps, stores
<1>1. \/ pc' = "files" /\ ~auto' /\ pointer' = backup
      \/ pc' = "preRedis" /\ auto' /\ faults' > 0 /\ pointer' = pointer
  BY BackupControl DEF After
<1>2. ScriptInv'
  BY <1>1 DEF ScriptInv
<1>3. RollbackInv'
  BY <1>1 DEF RollbackInv, BackupInv, Holding, Complete
<1>4. ServiceInv'
  BY DEF ServiceInv, OnePointInTime
<1>5. BackupInv'
  BY <1>1, InstallerAssumption DEF BackupInv, Holding, AllPrev
<1>6. CutoverInv'
  BY <1>1 DEF CutoverInv, BackupInv, Holding, Complete
<1>7. UndoneInv'
  BY <1>1 DEF UndoneInv
<1> QED
  BY <1>2, <1>3, <1>4, <1>5, <1>6, <1>7

LEMMA StartCapturedKeeps ==
  ASSUME InstallerIInv, TypeOK', OneInstallFault, StartCaptured
  PROVE  InstallerIInv'
<1> USE DEF InstallerIInv, StartCaptured, script, apps, stores
<1>1. /\ pc' = "failed" /\ auto'
      /\ running' = running \cup IF backup.services = None THEN {} ELSE backup.services
  <2> DEFINE captured == IF backup.services = None THEN {} ELSE backup.services
  <2>1. CASE Succeeds /\ running' = running \cup captured
    BY <2>1, RestartControl
  <2>2. CASE Fails
    <3>1. captured = {}
      BY <2>2, RestartControl DEF BackupInv
    <3> QED
      BY <3>1, RestartControl
  <2> QED
    BY <2>1, <2>2
<1>2. ScriptInv'
  BY <1>1 DEF ScriptInv
<1>3. RollbackInv'
  BY <1>1 DEF RollbackInv
<1>4. ServiceInv'
  BY <1>1, InstallerAssumption DEF ServiceInv, OnePointInTime, BackupInv, Holding, AllPrev
<1>5. BackupInv'
  BY <1>1 DEF BackupInv
<1>6. CutoverInv'
  BY <1>1 DEF CutoverInv
<1>7. UndoneInv'
  BY <1>1 DEF UndoneInv, BackupInv, Holding, AllPrev
<1> QED
  BY <1>2, <1>3, <1>4, <1>5, <1>6, <1>7

LEMMA InstallFilesKeeps ==
  ASSUME InstallerIInv, TypeOK', OneInstallFault, InstallFiles
  PROVE  InstallerIInv'
<1> USE DEF InstallerIInv, InstallFiles, script, apps, stores
<1>1. \/ pc' = "migrate" /\ ~auto' /\ files' = "new"
      \/ pc' = "check" /\ auto' /\ faults' > 0
  BY CutoverControl DEF After
<1>2. ScriptInv'
  BY <1>1 DEF ScriptInv
<1>3. RollbackInv'
  BY <1>1 DEF RollbackInv
<1>4. ServiceInv'
  BY DEF ServiceInv, OnePointInTime
<1>5. BackupInv'
  BY <1>1 DEF BackupInv
<1>6. CutoverInv'
  BY <1>1 DEF CutoverInv, ServiceInv, Holding
<1>7. UndoneInv'
  BY <1>1 DEF UndoneInv
<1> QED
  BY <1>2, <1>3, <1>4, <1>5, <1>6, <1>7

LEMMA MigrateKeeps ==
  ASSUME InstallerIInv, TypeOK', OneInstallFault, Migrate
  PROVE  InstallerIInv'
<1> USE DEF InstallerIInv, Migrate, script, apps, stores
<1>1. \/ pc' = "up" /\ ~auto' /\ db' = [db EXCEPT !.schema = "new"]
      \/ pc' = "check" /\ auto' /\ faults' > 0
  BY CutoverControl DEF After
<1>2. ScriptInv'
  BY <1>1 DEF ScriptInv
<1>3. RollbackInv'
  BY <1>1 DEF RollbackInv
<1>4. ServiceInv'
  BY DEF ServiceInv, OnePointInTime
<1>5. BackupInv'
  BY <1>1 DEF BackupInv
<1>6. CutoverInv'
  BY <1>1 DEF CutoverInv, ServiceInv, Holding
<1>7. UndoneInv'
  BY <1>1 DEF UndoneInv
<1> QED
  BY <1>2, <1>3, <1>4, <1>5, <1>6, <1>7

LEMMA UpKeeps ==
  ASSUME InstallerIInv, TypeOK', OneInstallFault, Up
  PROVE  InstallerIInv'
<1> USE DEF InstallerIInv, Up, script, apps, stores
<1>0. \A s \in running' : s \in Services /\ image'[s] = "new"
  BY DEF Recreate, ServiceInv
<1>1. \/ pc' = "verify" /\ ~auto'
      \/ pc' = "check" /\ auto' /\ faults' > 0
  BY CutoverControl DEF After, Recreate
<1>2. ScriptInv'
  BY <1>1 DEF ScriptInv
<1>3. RollbackInv'
  BY <1>1 DEF RollbackInv
<1>4. ServiceInv'
  BY <1>0, <1>1, InstallerAssumption DEF ServiceInv, OnePointInTime, CutoverInv, Holding
<1>5. BackupInv'
  BY <1>1 DEF BackupInv
<1>6. CutoverInv'
  BY <1>0, <1>1 DEF CutoverInv
<1>7. UndoneInv'
  BY <1>1 DEF UndoneInv
<1> QED
  BY <1>2, <1>3, <1>4, <1>5, <1>6, <1>7

LEMMA VerifyKeeps ==
  ASSUME InstallerIInv, TypeOK', OneInstallFault, Verify
  PROVE  InstallerIInv'
<1> USE DEF InstallerIInv, Verify, script, apps, stores
<1>1. \/ pc' = "done" /\ ~auto'
      \/ pc' = "check" /\ auto' /\ faults' > 0
  BY CutoverControl DEF After
<1>2. ScriptInv'
  BY <1>1 DEF ScriptInv
<1>3. RollbackInv'
  BY <1>1 DEF RollbackInv
<1>4. ServiceInv'
  BY <1>1 DEF ServiceInv, OnePointInTime
<1>5. BackupInv'
  BY <1>1 DEF BackupInv
<1>6. CutoverInv'
  BY <1>1 DEF CutoverInv
<1>7. UndoneInv'
  BY <1>1 DEF UndoneInv
<1> QED
  BY <1>2, <1>3, <1>4, <1>5, <1>6, <1>7

LEMMA CheckBackupKeeps ==
  ASSUME InstallerIInv, TypeOK', OneInstallFault, CheckBackup
  PROVE  InstallerIInv'
<1> USE DEF InstallerIInv, CheckBackup, script, apps, stores
<1>1. \/ pc' = "haltApps" /\ auto' = auto /\ faults' = faults /\ pointer # NoBackup
      \/ pc' = "failed" /\ ~auto /\ ~auto' /\ op = "rollback"
  <2>1. CASE pointer # NoBackup
    BY <2>1, RollbackControl DEF After
  <2>2. CASE pointer = NoBackup
    <3>1. ~auto
      BY <2>2, InstallerAssumption DEF CutoverInv, Complete, NoBackup
    <3> QED
      BY <2>2, <3>1 DEF ScriptInv, Exits
  <2> QED
    BY <2>1, <2>2
<1>2. ScriptInv'
  BY <1>1 DEF ScriptInv
<1>3. RollbackInv'
  BY <1>1 DEF RollbackInv
<1>4. ServiceInv'
  BY <1>1 DEF ServiceInv, OnePointInTime
<1>5. BackupInv'
  BY <1>1 DEF BackupInv
<1>6. CutoverInv'
  BY <1>1 DEF CutoverInv
<1>7. UndoneInv'
  BY <1>1 DEF UndoneInv
<1> QED
  BY <1>2, <1>3, <1>4, <1>5, <1>6, <1>7

LEMMA RestoreFilesKeeps ==
  ASSUME InstallerIInv, TypeOK', OneInstallFault, RestoreFiles
  PROVE  InstallerIInv'
<1> USE DEF InstallerIInv, RestoreFiles, script, apps, stores
<1>1. \/ pc' = "dropdb" /\ auto' = auto /\ faults' = faults /\ files' = "prev"
      \/ pc' = "failed" /\ ~auto /\ ~auto' /\ op = "rollback"
  BY RollbackControl DEF After
<1>2. ScriptInv'
  BY <1>1 DEF ScriptInv
<1>3. RollbackInv'
  BY <1>1 DEF RollbackInv
<1>4. ServiceInv'
  BY DEF ServiceInv, OnePointInTime
<1>5. BackupInv'
  BY <1>1 DEF BackupInv
<1>6. CutoverInv'
  BY <1>1 DEF CutoverInv
<1>7. UndoneInv'
  BY <1>1 DEF UndoneInv
<1> QED
  BY <1>2, <1>3, <1>4, <1>5, <1>6, <1>7

LEMMA DropDbKeeps ==
  ASSUME InstallerIInv, TypeOK', OneInstallFault, DropDb
  PROVE  InstallerIInv'
<1> USE DEF InstallerIInv, DropDb, script, apps, stores
<1>1. \/ pc' = "createdb" /\ auto' = auto /\ faults' = faults /\ db' = NoDb
      \/ pc' = "failed" /\ ~auto /\ ~auto' /\ op = "rollback"
  BY RollbackControl DEF After
<1>2. ScriptInv'
  BY <1>1 DEF ScriptInv
<1>3. RollbackInv'
  BY <1>1 DEF RollbackInv
<1>4. ServiceInv'
  BY DEF ServiceInv, OnePointInTime
<1>5. BackupInv'
  BY <1>1 DEF BackupInv
<1>6. CutoverInv'
  BY <1>1 DEF CutoverInv
<1>7. UndoneInv'
  BY <1>1 DEF UndoneInv
<1> QED
  BY <1>2, <1>3, <1>4, <1>5, <1>6, <1>7

LEMMA CreateDbKeeps ==
  ASSUME InstallerIInv, TypeOK', OneInstallFault, CreateDb
  PROVE  InstallerIInv'
<1> USE DEF InstallerIInv, CreateDb, script, apps, stores
<1>1. \/ pc' = "pgRestore" /\ auto' = auto /\ faults' = faults /\ db' = EmptyDb
      \/ pc' = "failed" /\ ~auto /\ ~auto' /\ op = "rollback"
  BY RollbackControl DEF After, RollbackInv
<1>2. ScriptInv'
  BY <1>1 DEF ScriptInv
<1>3. RollbackInv'
  BY <1>1 DEF RollbackInv
<1>4. ServiceInv'
  BY DEF ServiceInv, OnePointInTime
<1>5. BackupInv'
  BY <1>1 DEF BackupInv
<1>6. CutoverInv'
  BY <1>1 DEF CutoverInv
<1>7. UndoneInv'
  BY <1>1 DEF UndoneInv
<1> QED
  BY <1>2, <1>3, <1>4, <1>5, <1>6, <1>7

LEMMA PgRestoreKeeps ==
  ASSUME InstallerIInv, TypeOK', OneInstallFault, PgRestore
  PROVE  InstallerIInv'
<1> USE DEF InstallerIInv, PgRestore, script, apps, stores
<1>1. \/ pc' = "redisRestore" /\ auto' = auto /\ faults' = faults /\ db' = pointer.db
      \/ pc' = "failed" /\ ~auto /\ ~auto' /\ op = "rollback"
  BY RollbackControl DEF After, RollbackInv
<1>2. ScriptInv'
  BY <1>1 DEF ScriptInv
<1>3. RollbackInv'
  BY <1>1 DEF RollbackInv
<1>4. ServiceInv'
  BY DEF ServiceInv, OnePointInTime
<1>5. BackupInv'
  BY <1>1 DEF BackupInv
<1>6. CutoverInv'
  BY <1>1 DEF CutoverInv
<1>7. UndoneInv'
  BY <1>1 DEF UndoneInv
<1> QED
  BY <1>2, <1>3, <1>4, <1>5, <1>6, <1>7

LEMMA RedisRestoreKeeps ==
  ASSUME InstallerIInv, TypeOK', OneInstallFault, RedisRestore
  PROVE  InstallerIInv'
<1> USE DEF InstallerIInv, RedisRestore, script, apps, stores
<1>1. \/ pc' = "resumeRedis" /\ auto' = auto /\ faults' = faults /\ queue' = pointer.queue
      \/ pc' = "failed" /\ ~auto /\ ~auto' /\ op = "rollback"
  BY RollbackControl DEF After, RollbackInv
<1>2. ScriptInv'
  BY <1>1 DEF ScriptInv
<1>3. RollbackInv'
  BY <1>1 DEF RollbackInv
<1>4. ServiceInv'
  BY DEF ServiceInv, OnePointInTime
<1>5. BackupInv'
  BY <1>1 DEF BackupInv
<1>6. CutoverInv'
  BY <1>1 DEF CutoverInv
<1>7. UndoneInv'
  BY <1>1 DEF UndoneInv
<1> QED
  BY <1>2, <1>3, <1>4, <1>5, <1>6, <1>7

LEMMA StartRecordedKeeps ==
  ASSUME InstallerIInv, TypeOK', OneInstallFault, StartRecorded
  PROVE  InstallerIInv'
<1> USE DEF InstallerIInv, StartRecorded, script, apps, stores
<1>0. \A s \in running' : s \in Services /\ image'[s] = "prev"
  BY DEF Recreate, ServiceInv, RollbackInv, Complete
<1>1. \/ /\ pc' = "health" /\ auto' = auto /\ faults' = faults
         /\ running' = pointer.services
      \/ pc' = "failed" /\ ~auto /\ ~auto' /\ op = "rollback"
  BY RollbackControl DEF After, Recreate, ServiceInv
<1>2. ScriptInv'
  BY <1>1 DEF ScriptInv
<1>3. RollbackInv'
  BY <1>1 DEF RollbackInv
<1>4. ServiceInv'
  BY <1>0, <1>1, InstallerAssumption DEF ServiceInv, OnePointInTime, RollbackInv, Complete
<1>5. BackupInv'
  BY <1>1 DEF BackupInv
<1>6. CutoverInv'
  BY <1>1 DEF CutoverInv
<1>7. UndoneInv'
  BY <1>0, <1>1 DEF UndoneInv, RollbackInv, CutoverInv, Holding, Complete, AllPrev
<1> QED
  BY <1>2, <1>3, <1>4, <1>5, <1>6, <1>7

LEMMA HealthKeeps ==
  ASSUME InstallerIInv, TypeOK', OneInstallFault, Health
  PROVE  InstallerIInv'
<1> USE DEF InstallerIInv, Health, script, apps, stores
<1>1. \/ pc' = (IF auto THEN "failed" ELSE "done") /\ auto' = auto /\ faults' = faults
      \/ pc' = "failed" /\ ~auto /\ ~auto' /\ op = "rollback"
  BY RollbackControl DEF CommandFails, Goes, After
<1>2. ScriptInv'
  BY <1>1 DEF ScriptInv
<1>3. RollbackInv'
  BY <1>1 DEF RollbackInv
<1>4. ServiceInv'
  BY <1>1 DEF ServiceInv, OnePointInTime
<1>5. BackupInv'
  BY <1>1 DEF BackupInv
<1>6. CutoverInv'
  BY <1>1 DEF CutoverInv
<1>7. UndoneInv'
  BY DEF UndoneInv, ScriptInv, Holding, AllPrev
<1> QED
  BY <1>2, <1>3, <1>4, <1>5, <1>6, <1>7

LEMMA KillKeeps ==
  ASSUME InstallerIInv, TypeOK', Kill
  PROVE  InstallerIInv'
<1> USE DEF InstallerIInv, Kill, script, apps, stores
<1>1. ScriptInv'
  BY DEF ScriptInv
<1>2. RollbackInv'
  BY DEF RollbackInv
<1>3. ServiceInv'
  BY DEF ServiceInv, OnePointInTime
<1>4. BackupInv' /\ CutoverInv' /\ UndoneInv'
  BY DEF BackupInv, CutoverInv, UndoneInv
<1> QED
  BY <1>1, <1>2, <1>3, <1>4

(* Who writes does so to both stores. *)
LEMMA WriteKeeps ==
  ASSUME InstallerIInv, TypeOK', NEW s \in Services, Write(s)
  PROVE  InstallerIInv'
<1> USE DEF InstallerIInv, Write, script, apps, stores
<1>1. ScriptInv'
  BY DEF ScriptInv
<1>2. RollbackInv'
  BY DEF RollbackInv, ServiceInv
<1>3. ServiceInv'
  BY InstallerAssumption DEF ServiceInv, OnePointInTime, TypeOK
<1>4. BackupInv'
  BY DEF BackupInv, ServiceInv, Holding, AllPrev
<1>5. CutoverInv'
  BY DEF CutoverInv, ServiceInv
<1>6. UndoneInv'
  BY DEF UndoneInv, Holding, AllPrev
<1> QED
  BY <1>1, <1>2, <1>3, <1>4, <1>5, <1>6

(* An invocation begins. *)
LEMMA StartKeeps ==
  ASSUME InstallerIInv, TypeOK', NEW o \in {"install", "rollback"}, Start(o)
  PROVE  InstallerIInv'
<1> USE DEF InstallerIInv, Start, script, apps, stores
<1>1. ScriptInv'
  BY DEF ScriptInv
<1>2. RollbackInv'
  BY DEF RollbackInv
<1>3. ServiceInv'
  BY DEF ServiceInv, OnePointInTime
<1>4. BackupInv'
  BY DEF BackupInv, ServiceInv, OnePointInTime, Holding, AllPrev, NoBackup, TypeOK, DbType
<1>5. CutoverInv' /\ UndoneInv'
  BY DEF CutoverInv, UndoneInv
<1> QED
  BY <1>1, <1>2, <1>3, <1>4, <1>5

LEMMA StutterKeeps ==
  ASSUME InstallerIInv, UNCHANGED vars
  PROVE  InstallerIInv'
  BY DEF vars, script, apps, stores, InstallerIInv, TypeOK, ScriptInv, RollbackInv, ServiceInv,
      OnePointInTime, BackupInv, CutoverInv, UndoneInv, Holding, AllPrev

-----------------------------------------------------------------------------
(* What follows.                                                               *)

LEMMA InstallerInit == Init => InstallerIInv
<1> SUFFICES ASSUME Init PROVE InstallerIInv
  OBVIOUS
<1>1. TypeOK
  BY InstallerAssumption DEF Init, TypeOK, DbType, NoBackup, NoDb, Steps
<1>2. ServiceInv
  BY InstallerAssumption DEF Init, ServiceInv, OnePointInTime, InstallerAssumption
<1>3. ScriptInv /\ RollbackInv /\ BackupInv /\ CutoverInv /\ UndoneInv
  BY DEF Init, ScriptInv, RollbackInv, BackupInv, CutoverInv, UndoneInv
<1> QED
  BY <1>1, <1>2, <1>3 DEF InstallerIInv

LEMMA InstallerNext ==
  ASSUME OneInstallFault, InstallerIInv, [Next]_vars
  PROVE  InstallerIInv'
<1>1. TypeOK'
  BY TypeNext DEF InstallerIInv
<1>2. CASE BackupStep
  BY <1>1, <1>2, CaptureKeeps, StopAppsKeeps, StopRedisKeeps, SnapshotKeeps, StartRedisKeeps,
     CommitKeeps, StartCapturedKeeps
  DEF BackupStep
<1>3. CASE InstallStep
  BY <1>1, <1>3, InstallFilesKeeps, MigrateKeeps, UpKeeps, VerifyKeeps DEF InstallStep
<1>4. CASE RollbackStep
  BY <1>1, <1>4, CheckBackupKeeps, RestoreFilesKeeps, DropDbKeeps, CreateDbKeeps, PgRestoreKeeps,
     RedisRestoreKeeps, StartRecordedKeeps, HealthKeeps
  DEF RollbackStep
<1> QED
  BY <1>1, <1>2, <1>3, <1>4, KillKeeps, WriteKeeps, StartKeeps, StutterKeeps DEF Next

LEMMA InstallerInvariant == ASSUME OneInstallFault PROVE Spec => []InstallerIInv
BY InstallerInit, InstallerNext, PTL DEF Spec

(* Services only run over a database and a queue of one point in time, under   *)
(* the schema of their image: stop, the two snapshots and the two restores are *)
(* in an order that no failure of one command, and no kill, upsets.            *)
THEOREM OnePointKept == ASSUME OneInstallFault PROVE Spec => []OnePointInTime
<1>1. InstallerIInv => OnePointInTime
  BY DEF InstallerIInv, ServiceInv
<1> QED
  BY <1>1, InstallerInvariant, PTL

(* An install that fails has the services it found running again, with their   *)
(* image, their files and everything they had written.                         *)
THEOREM FailedInstallsUndone == ASSUME OneInstallFault PROVE Spec => []FailedInstallIsUndone
<1>1. InstallerIInv => FailedInstallIsUndone
  BY DEF InstallerIInv, UndoneInv, FailedInstallIsUndone, Holding, AllPrev
<1> QED
  BY <1>1, InstallerInvariant, PTL

=============================================================================

-------------------------- MODULE CrawlJobsCalmProofs --------------------------
(* What CrawlJobs promises beyond JobLifecycle: what a create leaves on record *)
(* when it fails a job, under any faults; and, as long as workers keep their   *)
(* locks and pages their deadlines, that a job's progress counts its rows, is  *)
(* what callbacks tell, and that nothing late is persisted; and, as long as    *)
(* the faults are few as well, that an open job is never left alone.           *)
EXTENDS CrawlJobsProofs

-----------------------------------------------------------------------------
(* Rows that are there stay.                                                   *)

(* No step removes a job. *)
LEMMA JobsStay ==
  ASSUME TypeOK, Announcers, [Next]_vars
  PROVE  \A j \in Jobs : status[j] # "absent" => status'[j] # "absent"
<1> USE DEF TypeOK, RowTypes
<1>1. CASE Lifecycle!Next
  BY <1>1
  DEF Lifecycle!Next, Lifecycle!Move, Lifecycle!Submit, Lifecycle!Claim, Lifecycle!Fail,
      Lifecycle!Cancel, Lifecycle!Requeue, Lifecycle!Persist, Lifecycle!Complete, Lifecycle!Announce
<1>2. CASE UNCHANGED Lifecycle!vars
  BY <1>2 DEF Lifecycle!vars
<1> QED
  BY <1>1, <1>2, LifecycleStep DEF Promised

(* A handler at work has a job that exists; one that resets, removes or adds   *)
(* again is not a create's.                                                    *)
RecordInv ==
  /\ \A c \in Commands :
       /\ cmd[c].pc \notin {"new", "done"} => status[Target(c)] # "absent"
       /\ cmd[c].pc \in {"effect", "remove", "purge", "retryAdd", "reconcileAdd"} => cmd[c].kind # "create"
  /\ CreateFailsOnRecord

(* A handler's record after a step, by its fields. *)
LEMMA SteppedFields ==
  ASSUME CommandTypes, NEW c \in Commands, NEW pc, Step(c, pc)
  PROVE  /\ cmd'[c].pc = pc /\ cmd'[c].kind = cmd[c].kind /\ cmd'[c].job = cmd[c].job
         /\ cmd'[c].seen = cmd[c].seen /\ cmd'[c].stored = cmd[c].stored
         /\ \A d \in Commands \ {c} : cmd'[d] = cmd[d]
BY DEF CommandTypes, CommandType, Step

(* Steps of workers and queues touch no outcome and no handler. *)
LEMMA WorkersOnly ==
  ASSUME [Next]_vars
  PROVE  \/ UNCHANGED <<outcome, cmd>>
         \/ \E c \in Commands : Send(c) \/ Handle(c) \/ ApiFault(c)
<1>1. ASSUME NEW s \in Slots, Work(s) PROVE UNCHANGED <<outcome, cmd>>
  BY <1>1
  DEF Work, ReadState, Claim, RunEnds, CountResults, MarkCompleted, VerifyCompleted, ListCallbacks,
      Announce, Succeed, Catch, MoveToFailed, CheckPage, PersistPage, rows
<1>2. ASSUME NEW s \in Slots, WorkerFault(s) PROVE UNCHANGED <<outcome, cmd>>
  BY <1>2
  DEF WorkerFault, SetupFails, WorkerDbError, ClaimReplyLost, WorkerRedisError, WorkerCrash, LoseLock,
      PageError, PageTimeout, rows
<1>3. CASE \/ \E s \in Slots, j \in Jobs : Take(s, j)
           \/ \E j \in Jobs : RecoverStalled(j) \/ Promote(j)
           \/ \E o \in orphans : OrphanPersists(o)
           \/ UNCHANGED vars
  BY <1>3 DEF Take, RecoverStalled, Promote, OrphanPersists, vars, rows
<1> QED
  BY <1>1, <1>2, <1>3 DEF Next

(* One handler's step keeps it, if no other handler's record is changed. *)
LEMMA RecordStep ==
  ASSUME TypeOK, RecordInv, NEW c \in Commands,
         \A j \in Jobs : status[j] # "absent" => status'[j] # "absent",
         \A d \in Commands \ {c} : cmd'[d] = cmd[d],
         cmd'[c].pc \notin {"new", "done"} => status'[cmd'[c].job] # "absent",
         cmd'[c].pc \in {"effect", "remove", "purge", "retryAdd", "reconcileAdd"} => cmd'[c].kind # "create",
         cmd'[c].pc = "fail" /\ cmd'[c].kind = "create" => outcome'[cmd'[c].job] = "FAILED",
         \A d \in Commands \ {c} : cmd[d].pc = "fail" /\ outcome[Target(d)] = "FAILED"
                                       => outcome'[Target(d)] = "FAILED"
  PROVE  RecordInv'
BY DEF RecordInv, CreateFailsOnRecord, TypeOK, CommandTypes, Target

(* What a command does on its way. *)
LEMMA RecordHandle ==
  ASSUME TypeOK, Announcers, RecordInv, [Next]_vars, NEW c \in Commands, Handle(c) \/ ApiFault(c)
  PROVE  RecordInv'
<1> USE DEF TypeOK
<1>1. \A j \in Jobs : status[j] # "absent" => status'[j] # "absent"
  BY JobsStay
<1>2. \A d \in Commands : cmd[d].pc \notin {"new", "done"} => Target(d) \in Jobs
  BY TargetType
<1>3. ASSUME Finish(c), UNCHANGED outcome PROVE RecordInv'
  BY <1>1, <1>3, Finished, RecordStep
<1>4. ASSUME NEW pc \in CommandPcs, Step(c, pc), UNCHANGED outcome, cmd[c].pc \notin {"new", "done"},
             pc \in {"remove", "purge", "retryAdd", "reconcileAdd", "fail"} => cmd[c].kind # "create",
             pc # "effect"
      PROVE  RecordInv'
  <2>1. status'[cmd'[c].job] # "absent"
    BY <1>1, <1>2, <1>4, SteppedFields DEF RecordInv, Target
  <2> QED
    BY <1>1, <1>4, <2>1, SteppedFields, RecordStep
<1>5. CASE RecordQueued(c) \/ RecordFailed(c)
  <2>1. Target(c) \in Jobs /\ cmd[c].pc \in {"record", "recordFailed"}
    BY <1>2, <1>5 DEF RecordQueued, RecordFailed
  <2>2. \/ Finish(c) /\ UNCHANGED outcome
        \/ Finish(c) /\ outcome[Target(c)] # "FAILED" /\ outcome' = [outcome EXCEPT ![Target(c)] = "QUEUED"]
        \/ Step(c, "fail") /\ outcome' = [outcome EXCEPT ![Target(c)] = "FAILED"]
    BY <1>5 DEF RecordQueued, RecordFailed, Recordable
  <2>3. CASE /\ Finish(c)
             /\ outcome[Target(c)] # "FAILED"
             /\ outcome' = [outcome EXCEPT ![Target(c)] = "QUEUED"]
    <3>1. \A d \in Commands : outcome[Target(d)] = "FAILED" => outcome'[Target(d)] = "FAILED"
      BY <2>1, <2>3 DEF RowTypes
    <3> QED
      BY <1>1, <2>3, <3>1, Finished, RecordStep
  <2>4. CASE Step(c, "fail") /\ outcome' = [outcome EXCEPT ![Target(c)] = "FAILED"]
    <3>1. \A d \in Commands : outcome[Target(d)] = "FAILED" => outcome'[Target(d)] = "FAILED"
      BY <2>1, <2>4 DEF RowTypes
    <3>2. cmd'[c].pc = "fail" /\ cmd'[c].job = Target(c) /\ outcome'[Target(c)] = "FAILED"
      BY <2>1, <2>4, SteppedFields DEF RowTypes, Target
    <3>3. status'[cmd'[c].job] # "absent"
      BY <1>1, <2>1, <3>2 DEF RecordInv
    <3> QED
      BY <1>1, <2>4, <3>1, <3>2, <3>3, SteppedFields, RecordStep
  <2> QED
    BY <1>3, <2>2, <2>3, <2>4
<1>6. CASE ReconcileCallbacks(c)
  <2>1. /\ cmd'[c].pc = "announce" /\ cmd'[c].job = Target(c) /\ UNCHANGED outcome
        /\ \A d \in Commands \ {c} : cmd'[d] = cmd[d]
        /\ cmd[c].pc = "effect"
    BY <1>6 DEF ReconcileCallbacks, CommandTypes, CommandType, Target, rows, Effect
  <2> QED
    BY <1>1, <1>2, <2>1, RecordStep DEF RecordInv
<1>7. CASE ReconcileAnnounces(c)
  <2>1. CASE Finish(c) /\ UNCHANGED outcome
    BY <1>3, <2>1
  <2>2. CASE cmd' = [cmd EXCEPT ![c].next = @ + 1]
    <3>1. /\ cmd'[c].pc = "announce" /\ cmd'[c].job = Target(c) /\ UNCHANGED outcome /\ cmd[c].pc = "announce"
          /\ \A d \in Commands \ {c} : cmd'[d] = cmd[d]
      BY <1>7, <2>2 DEF ReconcileAnnounces, CommandTypes, CommandType, Target, rows
    <3> QED
      BY <1>1, <1>2, <3>1, RecordStep DEF RecordInv
  <2> QED
    BY <1>7, <2>1, <2>2 DEF ReconcileAnnounces, rows
<1>8. CASE Cancel(c) \/ CancelRemoves(c) \/ ResetJob(c) \/ Refuse(c) \/ RemoveForRetry(c)
  BY <1>3, <1>4, <1>8
  DEF Cancel, CancelRemoves, ResetJob, Refuse, RemoveForRetry, RecordInv, Effect, Resets, rows, CommandPcs
<1>9. CASE InspectEntry(c) \/ PurgeEntry(c) \/ AddEntry(c) \/ FailJob(c)
  BY <1>3, <1>4, <1>9
  DEF InspectEntry, PurgeEntry, AddEntry, FailJob, RecordInv, Effect, Adding, rows, CommandPcs
<1>10. CASE ApiFault(c)
  BY <1>3, <1>4, <1>10
  DEF ApiFault, RemoveFails, AddFails, ApiCrash, RecordInv, Adding, rows, CommandPcs
<1> QED
  BY <1>5, <1>6, <1>7, <1>8, <1>9, <1>10 DEF Handle

(* Every step keeps it. *)
LEMMA RecordNext == IInv /\ RecordInv /\ [Next]_vars => RecordInv'
<1> SUFFICES ASSUME IInv, RecordInv, [Next]_vars PROVE RecordInv'
  OBVIOUS
<1> USE DEF IInv, TypeOK
<1>1. \A j \in Jobs : status[j] # "absent" => status'[j] # "absent"
  BY JobsStay
<1>2. CASE UNCHANGED <<outcome, cmd>>
  BY <1>1, <1>2 DEF RecordInv, CreateFailsOnRecord, CommandTypes, Target
<1>3. ASSUME NEW c \in Commands, NEW j \in Jobs, CreateJob(c, j) PROVE RecordInv'
  <2>1. /\ cmd'[c].pc = "createAdd" /\ cmd'[c].job = j
        /\ \A d \in Commands \ {c} : cmd'[d] = cmd[d]
    BY <1>3 DEF CreateJob, CommandTypes, CommandType
  <2>2. status[j] = "absent" /\ status'[j] = "queued" /\ outcome' = [outcome EXCEPT ![j] = "PENDING"]
    BY <1>3 DEF CreateJob, RowTypes
  <2>3. \A d \in Commands \ {c} : cmd[d].pc = "fail" => Target(d) # j
    BY <2>2 DEF RecordInv
  <2>4. \A d \in Commands \ {c} : cmd[d].pc = "fail" => outcome'[Target(d)] = outcome[Target(d)]
    BY <2>2, <2>3 DEF RowTypes
  <2> QED
    BY <1>1, <2>1, <2>2, <2>4, RecordStep
<1>4. ASSUME NEW c \in Commands, NEW j \in Jobs, NEW kind \in Kinds, ReadJob(c, j, kind) PROVE RecordInv'
  <2>1. /\ cmd'[c].pc = "effect" /\ cmd'[c].job = j /\ cmd'[c].kind = kind /\ kind # "create"
        /\ \A d \in Commands \ {c} : cmd'[d] = cmd[d]
    BY <1>4 DEF ReadJob, CommandTypes, CommandType
  <2>2. status[j] # "absent" /\ UNCHANGED outcome
    BY <1>4 DEF ReadJob, rows
  <2> QED
    BY <1>1, <2>1, <2>2, RecordStep
<1> QED
  BY <1>2, <1>3, <1>4, RecordHandle, WorkersOnly DEF Send

(* So it holds in every reachable state. *)
LEMMA RecordHolds == Spec => []RecordInv
<1>1. Init => RecordInv
  BY DEF Init, RecordInv, CreateFailsOnRecord, IdleCommand
<1> QED
  BY <1>1, RecordNext, IInvHolds, PTL DEF Spec

(* createJob's handler fails a job only when its request is on record as       *)
(* FAILED, whatever concurrent requests record and whatever fails in between.  *)
THEOREM CreateFailsRecorded == Spec => []CreateFailsOnRecord
<1>1. RecordInv => CreateFailsOnRecord
  BY DEF RecordInv
<1> QED
  BY <1>1, RecordHolds, PTL

-----------------------------------------------------------------------------
(* Calm: no slot loses its lock while it runs on, and no page handler outlives *)
(* its request.  Calls may fail and processes may die.                         *)

Calm == Budget["stall"] = 0 /\ Budget["timeout"] = 0

(* An attempt at work holds its entry, so a job has one attempt at most.  Up   *)
(* to its completion the job is not completed; a run that may persist is of    *)
(* the job's present life; the count is the number of rows; whoever announces  *)
(* tells what is stored.                                                       *)
SlotInv(t) ==
  attempt[t].pc # "idle" =>
    /\ entry[Job(t)].owner = t /\ entry[Job(t)].state = "active"
    /\ attempt[t].pc \in {"claim", "crawl", "count", "complete"} => status[Job(t)] # "completed"
    /\ attempt[t].pc = "crawl" /\ status[Job(t)] = "running" => attempt[t].life = life[Job(t)]
    /\ attempt[t].pc = "complete" => attempt[t].records = Len(results[Job(t)])
    /\ attempt[t].pc \in {"verify", "list", "announce"} /\ status[Job(t)] = "completed" =>
         ProgressOf(t) = stored[Job(t)]

JobInv(j) ==
  /\ status[j] = "completed" => stored[j].records = Len(results[j])
  /\ \A id \in Summaries : told[j][id] # None => status[j] = "completed" /\ told[j][id] = stored[j]

Tells(c) == (cmd[c].pc = "effect" /\ cmd[c].seen = "completed") \/ cmd[c].pc = "announce"
CommandInv(c) == Tells(c) => cmd[c].stored = stored[Target(c)]

CalmInv ==
  /\ budget["stall"] = 0 /\ budget["timeout"] = 0 /\ orphans = {}
  /\ \A t \in Slots : SlotInv(t)
  /\ \A j \in Jobs : JobInv(j)
  /\ \A c \in Commands : CommandInv(c)

(* Faults only get fewer. *)
LEMMA BudgetFalls ==
  ASSUME TypeOK, NEW fault \in FaultKinds, Spend(fault)
  PROVE  \A f \in FaultKinds : budget[f] = 0 => budget'[f] = 0 /\ fault # f
BY DEF TypeOK, Spend

(* What a slot does touches its own job only, and keeps its lock while it is   *)
(* at work.                                                                    *)
SameRows(j) ==
  /\ status'[j] = status[j] /\ results'[j] = results[j]
  /\ stored'[j] = stored[j] /\ told'[j] = told[j]
SameLock(j) ==
  /\ entry'[j].owner = entry[j].owner /\ entry'[j].state = entry[j].state
  /\ entry'[j].made = entry[j].made /\ entry'[j].stalls = entry[j].stalls

Acts(s) ==
  /\ attempt[s].pc # "idle" /\ Job(s) \in Jobs
  /\ \A t \in Slots \ {s} : attempt'[t] = attempt[t]
  /\ \A j \in Jobs \ {Job(s)} : entry'[j] = entry[j] /\ SameRows(j)
  /\ UNCHANGED <<life, cmd, orphans>>
  /\ attempt'[s].pc # "idle" => attempt'[s].job = Job(s) /\ SameLock(Job(s))

(* Going on keeps the attempt's fields. *)
LEMMA GoFields ==
  ASSUME WorkerTypes, NEW s \in Slots, NEW pc, Go(s, pc)
  PROVE  /\ attempt'[s].pc = pc /\ attempt'[s].job = attempt[s].job
         /\ attempt'[s].life = attempt[s].life /\ attempt'[s].records = attempt[s].records
         /\ attempt'[s].failed = attempt[s].failed /\ attempt'[s].made = attempt[s].made
         /\ attempt'[s].discarded = attempt[s].discarded /\ attempt'[s].hard = attempt[s].hard
         /\ \A t \in Slots \ {s} : attempt'[t] = attempt[t]
BY DEF WorkerTypes, AttemptType, Go

(* So does giving up. *)
LEMMA AbandonFields ==
  ASSUME WorkerTypes, NEW s \in Slots, NEW pc, Abandon(s, pc)
  PROVE  /\ attempt'[s].pc = pc /\ attempt'[s].job = attempt[s].job
         /\ attempt'[s].made = attempt[s].made /\ attempt'[s].discarded /\ attempt'[s].hard
         /\ \A t \in Slots \ {s} : attempt'[t] = attempt[t]
BY DEF WorkerTypes, AttemptType, Abandon

(* An attempt that is over. *)
LEMMA LeaveFields ==
  ASSUME WorkerTypes, NEW s \in Slots, Leave(s)
  PROVE  /\ attempt'[s].pc = "idle"
         /\ \A t \in Slots \ {s} : attempt'[t] = attempt[t]
BY DEF WorkerTypes, Leave, NoAttempt

(* updateProgress writes a counter. *)
LEMMA UpdateLocks ==
  ASSUME QueueTypes, NEW s \in Slots, Job(s) \in Jobs, NEW n, UpdateProgress(s, n)
  PROVE  SameLock(Job(s)) /\ \A j \in Jobs \ {Job(s)} : entry'[j] = entry[j]
BY DEF QueueTypes, EntryType, UpdateProgress, SameLock

(* A run of processCrawlJob acts on its job only. *)
LEMMA WorkActs ==
  ASSUME TypeOK, NEW s \in Slots, Work(s)
  PROVE  Acts(s)
<1> USE DEF TypeOK
<1>0. attempt[s].pc # "idle" /\ Job(s) \in Jobs
  <2>1. attempt[s].pc # "idle"
    BY DEF Work, ReadState, Claim, RunEnds, CountResults, MarkCompleted, VerifyCompleted, ListCallbacks,
           Announce, Succeed, Catch, MoveToFailed, CheckPage, PersistPage
  <2> QED
    BY <2>1, JobType
<1>1. CASE ReadState(s)
  BY <1>0, <1>1 DEF ReadState, Acts, SameRows, SameLock, rows, callbacks, WorkerTypes, AttemptType, Job
<1>2. CASE Claim(s)
  <2>1. /\ \A t \in Slots \ {s} : attempt'[t] = attempt[t]
        /\ attempt'[s].job = Job(s)
    BY <1>2, AbandonFields DEF Claim, WorkerTypes, AttemptType, Job
  <2>2. \A j \in Jobs \ {Job(s)} : status'[j] = status[j]
    BY <1>2 DEF Claim, RowTypes
  <2> QED
    BY <1>0, <1>2, <2>1, <2>2 DEF Claim, Acts, SameRows, SameLock, callbacks
<1>3. CASE RunEnds(s)
  BY <1>0, <1>3, GoFields DEF RunEnds, Acts, SameRows, SameLock, rows, callbacks, Job
<1>4. CASE CountResults(s)
  <2>1. /\ \A t \in Slots \ {s} : attempt'[t] = attempt[t]
        /\ attempt'[s].job = Job(s)
    BY <1>4 DEF CountResults, WorkerTypes, AttemptType, Job
  <2> QED
    BY <1>0, <1>4, <2>1, UpdateLocks DEF CountResults, Acts, SameRows, rows, callbacks
<1>5. CASE MarkCompleted(s)
  <2>1. \A j \in Jobs \ {Job(s)} : status'[j] = status[j] /\ stored'[j] = stored[j]
    BY <1>5 DEF MarkCompleted, SetJobStatus, RowTypes
  <2> QED
    BY <1>0, <1>5, <2>1, GoFields DEF MarkCompleted, Acts, SameRows, SameLock, callbacks, Job
<1>6. CASE VerifyCompleted(s)
  BY <1>0, <1>6, GoFields, AbandonFields DEF VerifyCompleted, Acts, SameRows, SameLock, rows, callbacks, Job
<1>7. CASE ListCallbacks(s)
  BY <1>0, <1>7 DEF ListCallbacks, Acts, SameRows, SameLock, rows, callbacks, WorkerTypes, AttemptType, Job
<1>8. CASE Announce(s)
  <2>1. \A j \in Jobs \ {Job(s)} : told'[j] = told[j]
    BY <1>8 DEF Announce, EnqueueCallback, callbacks, QueueTypes
  <2>2. /\ \A t \in Slots \ {s} : attempt'[t] = attempt[t]
        /\ attempt'[s].job = Job(s)
    BY <1>8 DEF Announce, WorkerTypes, AttemptType, Job
  <2> QED
    BY <1>0, <1>8, <2>1, <2>2 DEF Announce, Acts, SameRows, SameLock, rows
<1>9. CASE Succeed(s) \/ MoveToFailed(s)
  <2>1. \A j \in Jobs \ {Job(s)} : entry'[j] = entry[j]
    BY <1>9 DEF Succeed, MoveToFailed, QueueTypes
  <2> QED
    BY <1>0, <1>9, <2>1, LeaveFields DEF Succeed, MoveToFailed, Acts, SameRows, rows, callbacks
<1>10. CASE Catch(s)
  <2>1. \A j \in Jobs \ {Job(s)} : status'[j] = status[j]
    BY <1>10 DEF Catch, SetJobStatus, RowTypes
  <2> QED
    BY <1>0, <1>10, <2>1, GoFields DEF Catch, Acts, SameRows, SameLock, callbacks, Job
<1>11. ASSUME NEW p \in Pages, CheckPage(s, p) PROVE Acts(s)
  <2>1. /\ \A t \in Slots \ {s} : attempt'[t] = attempt[t]
        /\ attempt'[s].job = Job(s)
    BY <1>11 DEF CheckPage, WorkerTypes, AttemptType, Job
  <2>2. SameLock(Job(s)) /\ \A j \in Jobs \ {Job(s)} : entry'[j] = entry[j]
    BY <1>0, <1>11, UpdateLocks DEF CheckPage, FailPage, SameLock
  <2> QED
    BY <1>0, <1>11, <2>1, <2>2 DEF CheckPage, Acts, SameRows, rows, callbacks
<1>12. ASSUME NEW p \in Pages, PersistPage(s, p) PROVE Acts(s)
  <2>1. \A j \in Jobs \ {Job(s)} : results'[j] = results[j]
    BY <1>12 DEF PersistPage, InsertResult, RowTypes
  <2> QED
    BY <1>0, <1>12, <2>1, GoFields, UpdateLocks DEF PersistPage, Acts, SameRows, callbacks, Job
<1> QED
  BY <1>1, <1>2, <1>3, <1>4, <1>5, <1>6, <1>7, <1>8, <1>9, <1>10, <1>11, <1>12 DEF Work

(* So does what befalls it, as long as it is calm. *)
LEMMA FaultActs ==
  ASSUME TypeOK, budget["stall"] = 0, budget["timeout"] = 0, NEW s \in Slots, WorkerFault(s)
  PROVE  Acts(s)
<1> USE DEF TypeOK
<1>0. attempt[s].pc # "idle" /\ Job(s) \in Jobs
  <2>1. attempt[s].pc # "idle"
    BY DEF WorkerFault, SetupFails, WorkerDbError, ClaimReplyLost, WorkerRedisError, WorkerCrash, LoseLock,
           PageError, PageTimeout
  <2> QED
    BY <2>1, JobType
<1>1. CASE SetupFails(s) \/ WorkerDbError(s) \/ WorkerRedisError(s)
  BY <1>0, <1>1, GoFields
  DEF SetupFails, WorkerDbError, WorkerRedisError, Acts, SameRows, SameLock, rows, callbacks, Job
<1>2. CASE ClaimReplyLost(s)
  <2>1. \A j \in Jobs \ {Job(s)} : status'[j] = status[j]
    BY <1>2 DEF ClaimReplyLost, RowTypes
  <2> QED
    BY <1>0, <1>2, <2>1, GoFields DEF ClaimReplyLost, Acts, SameRows, SameLock, callbacks, Job
<1>3. CASE WorkerCrash(s)
  <2>1. \A j \in Jobs \ {Job(s)} : entry'[j] = entry[j]
    BY <1>3 DEF WorkerCrash, QueueTypes
  <2> QED
    BY <1>0, <1>3, <2>1, LeaveFields DEF WorkerCrash, Acts, SameRows, rows, callbacks
<1>4. ASSUME NEW p \in Pages, PageError(s, p) PROVE Acts(s)
  <2>1. /\ \A t \in Slots \ {s} : attempt'[t] = attempt[t]
        /\ attempt'[s].job = Job(s)
    BY <1>4 DEF PageError, WorkerTypes, AttemptType, Job
  <2> QED
    BY <1>0, <1>4, <2>1, UpdateLocks DEF PageError, FailPage, Acts, SameRows, rows, callbacks
<1>5. ~LoseLock(s) /\ \A p \in Pages : ~PageTimeout(s, p)
  BY DEF LoseLock, PageTimeout, Spend
<1> QED
  BY <1>1, <1>2, <1>3, <1>4, <1>5 DEF WorkerFault

(* A slot is not touched by what another one does: their jobs differ. *)
LEMMA OtherSlot ==
  ASSUME TypeOK, NEW s \in Slots, NEW t \in Slots, s # t, SlotInv(s), SlotInv(t), Acts(s)
  PROVE  SlotInv(t)'
<1> SUFFICES ASSUME attempt'[t].pc # "idle" PROVE SlotInv(t)'
  BY DEF SlotInv
<1>1. attempt'[t] = attempt[t] /\ attempt[t].pc # "idle"
  BY DEF Acts
<1>2. Job(t) \in Jobs /\ Job(t) # Job(s)
  BY <1>1, JobType DEF SlotInv, Acts, TypeOK
<1>3. /\ entry'[Job(t)] = entry[Job(t)] /\ SameRows(Job(t)) /\ life' = life
  BY <1>2 DEF Acts
<1>4. attempt'[t].job = Job(t)
  BY <1>1 DEF Job
<1> QED
  BY <1>1, <1>3, <1>4 DEF SlotInv, SameRows, Job, ProgressOf

(* What is left to show of an acting slot: its own fields, and its job's rows. *)
OwnSlot(s) ==
  LET a == attempt'[s]
      j == Job(s)
  IN a.pc # "idle" =>
       /\ a.pc \in {"claim", "crawl", "count", "complete"} => status'[j] # "completed"
       /\ a.pc = "crawl" /\ status'[j] = "running" => a.life = life[j]
       /\ a.pc = "complete" => a.records = Len(results'[j])
       /\ a.pc \in {"verify", "list", "announce"} /\ status'[j] = "completed" =>
            [records |-> a.records, failed |-> a.failed] = stored'[j]

LEMMA OwnSlotSuffices ==
  ASSUME NEW s \in Slots, SlotInv(s), Acts(s), OwnSlot(s)
  PROVE  SlotInv(s)'
<1> SUFFICES ASSUME attempt'[s].pc # "idle" PROVE SlotInv(s)'
  BY DEF SlotInv
<1>1. attempt'[s].job = Job(s) /\ SameLock(Job(s)) /\ life' = life /\ attempt[s].pc # "idle"
  BY DEF Acts
<1> QED
  BY <1>1 DEF SlotInv, SameLock, Job, ProgressOf, OwnSlot

(* A slot's job whose rows stay as they are. *)
LEMMA RowsStay ==
  ASSUME NEW j \in Jobs, JobInv(j), SameRows(j)
  PROVE  JobInv(j)'
BY DEF JobInv, SameRows

(* A job that is not completed before and after has told nothing. *)
LEMMA NotCompleted ==
  ASSUME NEW j \in Jobs, JobInv(j), status[j] # "completed", status'[j] # "completed", told'[j] = told[j]
  PROVE  JobInv(j)'
BY DEF JobInv

(* What a run of processCrawlJob does to its own fields and rows. *)
LEMMA WorkOwn ==
  ASSUME TypeOK, Announcers, NEW s \in Slots, NEW j \in Jobs, j = Job(s), SlotInv(s), JobInv(j), Work(s)
  PROVE  OwnSlot(s) /\ JobInv(j)'
<1> USE DEF TypeOK
<1>1. CASE ReadState(s)
  <2>1. \/ /\ status[j] = "completed" /\ attempt'[s].pc = "list"
           /\ attempt'[s].records = stored[j].records /\ attempt'[s].failed = stored[j].failed
        \/ status[j] # "completed" /\ attempt'[s].pc = "claim"
    BY <1>1 DEF ReadState, WorkerTypes, AttemptType
  <2>2. status[j] = "completed" =>
          stored[j] = [records |-> stored[j].records, failed |-> stored[j].failed]
    BY DEF RowTypes, Progress
  <2>3. SameRows(j)
    BY <1>1 DEF ReadState, SameRows, rows, callbacks
  <2> QED
    BY <2>1, <2>2, <2>3, RowsStay DEF OwnSlot, SameRows
<1>2. CASE Claim(s)
  <2>1. status[j] # "completed"
    BY <1>2 DEF Claim, SlotInv
  <2>2. CASE Runnable(j)
    <3>1. /\ status'[j] = "running" /\ told'[j] = told[j]
          /\ attempt'[s].pc = "crawl" /\ attempt'[s].life = life[j]
      BY <1>2, <2>2 DEF Claim, RowTypes, callbacks, WorkerTypes, AttemptType
    <3> QED
      BY <2>1, <3>1, NotCompleted DEF OwnSlot
  <2>3. CASE ~Runnable(j)
    <3>1. attempt'[s].pc = "thrown" /\ SameRows(j)
      BY <1>2, <2>3, AbandonFields DEF Claim, SameRows, callbacks
    <3> QED
      BY <3>1, RowsStay DEF OwnSlot
  <2> QED
    BY <2>2, <2>3
<1>3. CASE RunEnds(s)
  <2>1. attempt'[s].pc = "count" /\ SameRows(j) /\ status[j] # "completed"
    BY <1>3, GoFields DEF RunEnds, SameRows, rows, callbacks, SlotInv
  <2> QED
    BY <2>1, RowsStay DEF OwnSlot, SameRows
<1>4. CASE CountResults(s)
  <2>1. SameRows(j) /\ status[j] # "completed"
    BY <1>4 DEF CountResults, SameRows, rows, callbacks, SlotInv
  <2>2. attempt'[s].pc \in {"catch", "complete"} /\ attempt'[s].records = Len(results[j])
    BY <1>4 DEF CountResults, AfterUpdate, WorkerTypes, AttemptType
  <2> QED
    BY <2>1, <2>2, RowsStay DEF OwnSlot, SameRows
<1>5. CASE MarkCompleted(s)
  <2>1. /\ attempt'[s].pc = "verify" /\ attempt'[s].records = attempt[s].records
        /\ attempt'[s].failed = attempt[s].failed
    BY <1>5, GoFields DEF MarkCompleted
  <2>2. status[j] # "completed" /\ attempt[s].records = Len(results[j])
    BY <1>5 DEF MarkCompleted, SlotInv
  <2>3. results'[j] = results[j] /\ told'[j] = told[j]
    BY <1>5 DEF MarkCompleted, callbacks
  <2>4. CASE status[j] = "running"
    <3>1. status'[j] = "completed" /\ stored'[j] = ProgressOf(s)
      BY <1>5, <2>4 DEF MarkCompleted, SetJobStatus, SourcesOf, RowTypes
    <3>2. JobInv(j)'
      BY <2>2, <2>3, <3>1 DEF JobInv, ProgressOf
    <3> QED
      BY <2>1, <3>1, <3>2 DEF OwnSlot, ProgressOf
  <2>5. CASE status[j] # "running"
    <3>1. status'[j] = status[j]
      BY <1>5, <2>5 DEF MarkCompleted, SetJobStatus, SourcesOf
    <3> QED
      BY <2>1, <2>2, <2>3, <3>1, NotCompleted DEF OwnSlot
  <2> QED
    BY <2>4, <2>5
<1>6. CASE VerifyCompleted(s)
  <2>1. SameRows(j)
    BY <1>6 DEF VerifyCompleted, SameRows, rows, callbacks
  <2>2. \/ attempt'[s].pc = "catch"
        \/ /\ attempt'[s].pc = "list" /\ attempt'[s].records = attempt[s].records
           /\ attempt'[s].failed = attempt[s].failed
    BY <1>6, GoFields, AbandonFields DEF VerifyCompleted
  <2>3. attempt[s].pc = "verify"
    BY <1>6 DEF VerifyCompleted
  <2> QED
    BY <2>1, <2>2, <2>3, RowsStay DEF OwnSlot, SameRows, SlotInv, ProgressOf
<1>7. CASE ListCallbacks(s)
  <2>1. SameRows(j)
    BY <1>7 DEF ListCallbacks, SameRows, rows, callbacks
  <2>2. /\ attempt'[s].pc = "announce" /\ attempt'[s].records = attempt[s].records
        /\ attempt'[s].failed = attempt[s].failed /\ attempt[s].pc = "list"
    BY <1>7 DEF ListCallbacks, WorkerTypes, AttemptType
  <2> QED
    BY <2>1, <2>2, RowsStay DEF OwnSlot, SameRows, SlotInv, ProgressOf
<1>8. CASE Announce(s)
  <2>1. status[j] = "completed" /\ ProgressOf(s) = stored[j]
    BY <1>8 DEF Announce, Announcers, SlotInv
  <2>2. /\ attempt'[s].pc = "announce" /\ attempt'[s].records = attempt[s].records
        /\ attempt'[s].failed = attempt[s].failed
    BY <1>8 DEF Announce, WorkerTypes, AttemptType
  <2>3. status' = status /\ results' = results /\ stored' = stored
    BY <1>8 DEF Announce, rows
  <2>4. \A id \in Summaries : told'[j][id] \in {told[j][id], ProgressOf(s)}
    BY <1>8 DEF Announce, EnqueueCallback, callbacks, QueueTypes
  <2> QED
    BY <2>1, <2>2, <2>3, <2>4 DEF OwnSlot, JobInv, ProgressOf
<1>9. CASE Succeed(s) \/ MoveToFailed(s)
  <2>1. SameRows(j) /\ attempt'[s].pc = "idle"
    BY <1>9, LeaveFields DEF Succeed, MoveToFailed, SameRows, rows, callbacks
  <2> QED
    BY <2>1, RowsStay DEF OwnSlot
<1>10. CASE Catch(s)
  <2>1. attempt'[s].pc = "thrown"
    BY <1>10, GoFields DEF Catch
  <2>2. /\ results' = results /\ stored' = stored /\ told' = told
        /\ \/ status' = status
           \/ status[j] # "completed" /\ status' = [status EXCEPT ![j] = "failed"]
    BY <1>10 DEF Catch, SetJobStatus, SourcesOf, callbacks
  <2>3. CASE status' = status
    BY <2>1, <2>2, <2>3, RowsStay DEF OwnSlot, SameRows
  <2>4. CASE status[j] # "completed" /\ status' = [status EXCEPT ![j] = "failed"]
    <3>1. status'[j] = "failed"
      BY <2>4 DEF RowTypes
    <3> QED
      BY <2>1, <2>2, <2>4, <3>1, NotCompleted DEF OwnSlot
  <2> QED
    BY <2>2, <2>3, <2>4
<1>11. ASSUME NEW p \in Pages, CheckPage(s, p) PROVE OwnSlot(s) /\ JobInv(j)'
  <2>1. SameRows(j) /\ attempt[s].pc = "crawl" /\ life' = life
    BY <1>11 DEF CheckPage, SameRows, rows, callbacks
  <2>2. attempt'[s].pc \in {"crawl", "catch"} /\ attempt'[s].life = attempt[s].life
    BY <1>11 DEF CheckPage, AfterUpdate, WorkerTypes, AttemptType
  <2> QED
    BY <2>1, <2>2, RowsStay DEF OwnSlot, SameRows, SlotInv
<1>12. ASSUME NEW p \in Pages, PersistPage(s, p) PROVE OwnSlot(s) /\ JobInv(j)'
  <2>1. status' = status /\ told' = told /\ attempt[s].pc = "crawl"
    BY <1>12 DEF PersistPage, callbacks
  <2>2. attempt'[s].pc \in {"crawl", "catch"} /\ attempt'[s].life = attempt[s].life
    BY <1>12, GoFields DEF PersistPage, AfterUpdate
  <2> QED
    BY <2>1, <2>2, NotCompleted DEF OwnSlot, SlotInv
<1> QED
  BY <1>1, <1>2, <1>3, <1>4, <1>5, <1>6, <1>7, <1>8, <1>9, <1>10, <1>11, <1>12 DEF Work

(* And what befalls it. *)
LEMMA FaultOwn ==
  ASSUME TypeOK, budget["stall"] = 0, budget["timeout"] = 0, NEW s \in Slots, NEW j \in Jobs, j = Job(s),
         SlotInv(s), JobInv(j), WorkerFault(s)
  PROVE  OwnSlot(s) /\ JobInv(j)'
<1> USE DEF TypeOK
<1>1. CASE SetupFails(s) \/ WorkerDbError(s) \/ WorkerRedisError(s)
  <2>1. SameRows(j) /\ attempt'[s].pc \in {"catch", "thrown"}
    BY <1>1, GoFields DEF SetupFails, WorkerDbError, WorkerRedisError, SameRows, rows, callbacks
  <2> QED
    BY <2>1, RowsStay DEF OwnSlot
<1>2. CASE ClaimReplyLost(s)
  <2>1. status[j] # "completed" /\ status'[j] = "running" /\ told' = told
    BY <1>2 DEF ClaimReplyLost, SlotInv, RowTypes, callbacks
  <2>2. attempt'[s].pc = "thrown"
    BY <1>2, GoFields DEF ClaimReplyLost
  <2> QED
    BY <2>1, <2>2, NotCompleted DEF OwnSlot
<1>3. CASE WorkerCrash(s)
  <2>1. SameRows(j) /\ attempt'[s].pc = "idle"
    BY <1>3, LeaveFields DEF WorkerCrash, SameRows, rows, callbacks
  <2> QED
    BY <2>1, RowsStay DEF OwnSlot
<1>4. ASSUME NEW p \in Pages, PageError(s, p) PROVE OwnSlot(s) /\ JobInv(j)'
  <2>1. SameRows(j) /\ attempt[s].pc = "crawl"
    BY <1>4 DEF PageError, SameRows, rows, callbacks
  <2>2. attempt'[s].pc \in {"crawl", "catch"} /\ attempt'[s].life = attempt[s].life
    BY <1>4 DEF PageError, AfterUpdate, WorkerTypes, AttemptType
  <2> QED
    BY <2>1, <2>2, RowsStay DEF OwnSlot, SameRows, SlotInv
<1>5. ~LoseLock(s) /\ \A p \in Pages : ~PageTimeout(s, p)
  BY DEF LoseLock, PageTimeout, Spend
<1> QED
  BY <1>1, <1>2, <1>3, <1>4, <1>5 DEF WorkerFault

-----------------------------------------------------------------------------
(* What is not a slot's doing.                                                 *)

(* No attempt moves, no row is inserted, no entry a slot holds is touched; a   *)
(* job neither comes to run nor is completed, and one that runs on is in the   *)
(* life it was in.                                                             *)
Aside ==
  /\ UNCHANGED <<attempt, results, stored, orphans>>
  /\ \A t \in Slots : attempt[t].pc # "idle" => SameLock(Job(t))
  /\ \A j \in Jobs :
       /\ status'[j] = "completed" <=> status[j] = "completed"
       /\ status'[j] = "running" => status[j] = "running" /\ life'[j] = life[j]

(* The slots keep what they had. *)
LEMMA AsideSlots ==
  ASSUME TypeOK, Aside, NEW t \in Slots, SlotInv(t)
  PROVE  SlotInv(t)'
<1> SUFFICES ASSUME attempt[t].pc # "idle" PROVE SlotInv(t)'
  BY DEF SlotInv, Aside
<1>1. Job(t) \in Jobs /\ attempt'[t] = attempt[t] /\ SameLock(Job(t))
  BY JobType DEF TypeOK, Aside
<1>2. attempt'[t].job = Job(t)
  BY <1>1 DEF Job
<1> QED
  BY <1>1, <1>2 DEF Aside, SlotInv, SameLock, Job, ProgressOf

(* The jobs, too, unless they are told of. *)
LEMMA AsideJobs ==
  ASSUME Aside, NEW j \in Jobs, JobInv(j), told'[j] = told[j]
  PROVE  JobInv(j)'
BY DEF Aside, JobInv

(* A handler's commands to queues and rows. *)
LEMMA CommandAside ==
  ASSUME TypeOK, CalmInv, NEW c \in Commands, Send(c) \/ Handle(c) \/ ApiFault(c)
  PROVE  Aside
<1> USE DEF TypeOK
<1>0. ASSUME NEW t \in Slots, attempt[t].pc # "idle"
      PROVE  Job(t) \in Jobs /\ entry[Job(t)].state = "active"
  BY <1>0, JobType DEF CalmInv, SlotInv
<1>1. ASSUME NEW j, entry[j].state # "active", Delete(j) \/ Add(j), NEW t \in Slots, attempt[t].pc # "idle"
      PROVE  SameLock(Job(t))
  <2>1. Job(t) # j /\ Job(t) \in Jobs
    BY <1>0, <1>1
  <2> QED
    BY <1>1, <2>1 DEF Delete, Add, QueueTypes, SameLock
<1>2. ASSUME NEW j, Add(j), NEW t \in Slots, attempt[t].pc # "idle"
      PROVE  SameLock(Job(t))
  BY <1>0, <1>1, <1>2 DEF Add, SameLock
<1>3. entry' = entry => \A t \in Slots : SameLock(Job(t))
  BY DEF SameLock
<1>4. CASE RemoveForRetry(c) \/ PurgeEntry(c) \/ RemoveFails(c) \/ CancelRemoves(c)
  BY <1>1, <1>3, <1>4
  DEF RemoveForRetry, PurgeEntry, RemoveFails, CancelRemoves, Locked, Aside, rows
<1>5. CASE AddEntry(c) \/ AddFails(c)
  BY <1>2, <1>3, <1>5 DEF AddEntry, AddFails, Aside, rows
<1>6. CASE InspectEntry(c) \/ Refuse(c) \/ RecordQueued(c) \/ RecordFailed(c) \/ ReconcileCallbacks(c)
           \/ ReconcileAnnounces(c) \/ ApiCrash(c)
  BY <1>3, <1>6
  DEF InspectEntry, Refuse, RecordQueued, RecordFailed, ReconcileCallbacks, ReconcileAnnounces, ApiCrash,
      Aside, rows
<1>7. CASE Cancel(c)
  BY <1>3, <1>7, TargetType DEF Cancel, Effect, Aside, RowTypes
<1>8. CASE ResetJob(c)
  <2>1. Target(c) \in Jobs
    BY <1>8, TargetType DEF ResetJob, Resets
  <2>2. CASE Resettable(Target(c))
    BY <1>3, <1>8, <2>1, <2>2 DEF ResetJob, Resettable, Aside, RowTypes
  <2>3. CASE ~Resettable(Target(c))
    BY <1>3, <1>8, <2>3 DEF ResetJob, Aside
  <2> QED
    BY <2>2, <2>3
<1>9. CASE FailJob(c)
  BY <1>3, <1>9, TargetType DEF FailJob, SetJobStatus, SourcesOf, Aside, RowTypes
<1>10. ASSUME NEW j \in Jobs, CreateJob(c, j) PROVE Aside
  BY <1>3, <1>10 DEF CreateJob, Aside, RowTypes
<1>11. ASSUME NEW j \in Jobs, NEW kind \in Kinds, ReadJob(c, j, kind) PROVE Aside
  BY <1>3, <1>11 DEF ReadJob, Aside, rows
<1> QED
  BY <1>4, <1>5, <1>6, <1>7, <1>8, <1>9, <1>10, <1>11 DEF Send, Handle, ApiFault

(* Only a reconcile tells anybody anything, and tells what it read. *)
LEMMA CommandTells ==
  ASSUME TypeOK, Announcers, CalmInv, NEW c \in Commands, Send(c) \/ Handle(c) \/ ApiFault(c), NEW j \in Jobs
  PROVE  JobInv(j)'
<1>1. Aside /\ JobInv(j)
  BY CommandAside DEF CalmInv
<1>2. CASE told' = told
  BY <1>1, <1>2, AsideJobs
<1>3. CASE ReconcileAnnounces(c)
  <2>1. Target(c) \in Jobs /\ status[Target(c)] = "completed" /\ cmd[c].stored = stored[Target(c)]
    BY <1>3, TargetType DEF ReconcileAnnounces, Announcers, CalmInv, CommandInv, Tells, TypeOK
  <2>2. \A id \in Summaries :
          told'[j][id] = told[j][id] \/ (j = Target(c) /\ told'[j][id] = cmd[c].stored)
    BY <1>3, <2>1 DEF ReconcileAnnounces, EnqueueCallback, callbacks, TypeOK, QueueTypes
  <2>3. status' = status /\ results' = results /\ stored' = stored
    BY <1>3 DEF ReconcileAnnounces, rows
  <2> QED
    BY <1>1, <2>1, <2>2, <2>3 DEF JobInv
<1>4. Send(c) => told' = told
  BY DEF Send, CreateJob, ReadJob, callbacks
<1>5. ApiFault(c) => told' = told
  BY DEF ApiFault, RemoveFails, AddFails, ApiCrash, callbacks
<1>6. Handle(c) => told' = told \/ ReconcileAnnounces(c)
  BY DEF Handle, Cancel, CancelRemoves, ResetJob, Refuse, RemoveForRetry, InspectEntry, PurgeEntry,
         AddEntry, RecordQueued, RecordFailed, FailJob, ReconcileCallbacks, callbacks
<1> QED
  BY <1>2, <1>3, <1>4, <1>5, <1>6

(* A handler that tells either was about to tell the same, or has just read it. *)
LEMMA TellsMoves ==
  ASSUME TypeOK, NEW c \in Commands, Send(c) \/ Handle(c) \/ ApiFault(c), NEW d \in Commands, Tells(d)'
  PROVE  \/ Tells(d) /\ cmd'[d].stored = cmd[d].stored /\ cmd'[d].job = cmd[d].job
         \/ \E j \in Jobs : /\ cmd'[d].job = j /\ status[j] = "completed" /\ UNCHANGED stored
                            /\ cmd'[d].stored = IF stored[j] = None THEN NoProgress ELSE stored[j]
<1> USE DEF TypeOK, Tells
<1>1. ASSUME NEW j \in Jobs, CreateJob(c, j) PROVE c # d /\ cmd'[d] = cmd[d]
  BY <1>1 DEF CreateJob, CommandTypes, CommandType
<1>2. ASSUME NEW j \in Jobs, NEW kind \in Kinds, ReadJob(c, j, kind)
      PROVE  \/ cmd'[d] = cmd[d]
             \/ /\ cmd'[d].job = j /\ status[j] = "completed" /\ UNCHANGED stored
                /\ cmd'[d].stored = IF stored[j] = None THEN NoProgress ELSE stored[j]
  BY <1>2 DEF ReadJob, CommandTypes, CommandType, rows
<1>3. CASE ReconcileCallbacks(c)
  BY <1>3 DEF ReconcileCallbacks, Effect, CommandTypes, CommandType
<1>4. CASE ReconcileAnnounces(c)
  <2>1. CASE Finish(c)
    BY <2>1, Finished
  <2>2. CASE cmd' = [cmd EXCEPT ![c].next = @ + 1]
    <3>1. /\ cmd[c].pc = "announce"
          /\ cmd'[c].stored = cmd[c].stored /\ cmd'[c].job = cmd[c].job
          /\ \A e \in Commands \ {c} : cmd'[e] = cmd[e]
      BY <1>4, <2>2 DEF ReconcileAnnounces, CommandTypes, CommandType
    <3> QED
      BY <3>1
  <2> QED
    BY <1>4, <2>1, <2>2 DEF ReconcileAnnounces
<1>5. CASE Cancel(c) \/ CancelRemoves(c) \/ ResetJob(c) \/ Refuse(c) \/ RemoveForRetry(c)
  BY <1>5, Stepped, Finished DEF Cancel, CancelRemoves, ResetJob, Refuse, RemoveForRetry
<1>6. CASE InspectEntry(c) \/ PurgeEntry(c) \/ AddEntry(c) \/ RecordQueued(c) \/ RecordFailed(c) \/ FailJob(c)
  BY <1>6, Stepped, Finished DEF InspectEntry, PurgeEntry, AddEntry, RecordQueued, RecordFailed, FailJob
<1>7. CASE ApiFault(c)
  BY <1>7, Stepped, Finished DEF ApiFault, RemoveFails, AddFails, ApiCrash
<1>8. cmd'[d] = cmd[d] => Tells(d) /\ cmd'[d].stored = cmd[d].stored /\ cmd'[d].job = cmd[d].job
  OBVIOUS
<1> QED
  BY <1>1, <1>2, <1>3, <1>4, <1>5, <1>6, <1>7, <1>8 DEF Send, Handle

(* What a handler is to tell is what is stored: a completed job's progress is  *)
(* not written again.                                                          *)
LEMMA TellsStored ==
  ASSUME IInv, CalmInv, [Next]_vars, NEW d \in Commands
  PROVE  CommandInv(d)'
<1> USE DEF IInv, TypeOK
<1> SUFFICES ASSUME Tells(d)' PROVE cmd'[d].stored = stored'[cmd'[d].job]
  BY DEF CommandInv, Target
<1>1. \A j \in Jobs : status[j] = "completed" => stored'[j] = stored[j]
  BY LifecycleStep, LifecycleFreezes DEF Frozen
<1>2. CASE Tells(d) /\ cmd'[d].stored = cmd[d].stored /\ cmd'[d].job = cmd[d].job
  <2>1. Target(d) \in Jobs /\ status[Target(d)] = "completed" /\ cmd[d].stored = stored[Target(d)]
    BY <1>2, TargetType DEF Tells, Announcers, CalmInv, CommandInv
  <2> QED
    BY <1>1, <1>2, <2>1 DEF Target
<1>3. ASSUME NEW j \in Jobs, cmd'[d].job = j, status[j] = "completed", UNCHANGED stored,
             cmd'[d].stored = IF stored[j] = None THEN NoProgress ELSE stored[j]
      PROVE  cmd'[d].stored = stored'[cmd'[d].job]
  <2>1. stored[j] # None
    BY <1>3, DataAssumption DEF RowTypes, DataAssumption
  <2> QED
    BY <1>3, <2>1
<1>4. CASE UNCHANGED <<outcome, cmd>>
  BY <1>2, <1>4 DEF Tells
<1> QED
  BY <1>2, <1>3, <1>4, TellsMoves, WorkersOnly

(* What BullMQ and an idle slot do to an entry nobody holds. *)
LEMMA QueueAside ==
  ASSUME TypeOK, CalmInv, NEW k \in Jobs, RecoverStalled(k) \/ Promote(k)
  PROVE  Aside
<1>1. ASSUME NEW t \in Slots, attempt[t].pc # "idle" PROVE SameLock(Job(t))
  <2>1. Job(t) \in Jobs /\ entry[Job(t)].owner = t /\ entry[Job(t)].state = "active" /\ t # None
    BY <1>1, JobType, CrawlAssumption DEF TypeOK, CalmInv, SlotInv, CrawlAssumption
  <2>2. Job(t) # k
    BY <2>1 DEF RecoverStalled, Promote
  <2> QED
    BY <2>1, <2>2 DEF RecoverStalled, Promote, TypeOK, QueueTypes, SameLock
<1> QED
  BY <1>1 DEF RecoverStalled, Promote, Aside, rows

(* A slot takes an entry nobody else holds. *)
LEMMA TakeSlots ==
  ASSUME TypeOK, CalmInv, NEW s \in Slots, NEW k \in Jobs, Take(s, k), NEW t \in Slots
  PROVE  SlotInv(t)'
<1>1. CASE t = s
  <2>1. attempt'[s].pc = "read" /\ attempt'[s].job = k
    BY DEF Take, TypeOK, WorkerTypes, NoAttempt
  <2>2. entry'[k].owner = s /\ entry'[k].state = "active"
    BY DEF Take, TypeOK, QueueTypes, EntryType
  <2> QED
    BY <1>1, <2>1, <2>2 DEF SlotInv, Job
<1>2. CASE t # s /\ attempt[t].pc # "idle"
  <2>1. /\ attempt'[t] = attempt[t] /\ attempt'[t].job = Job(t) /\ Job(t) \in Jobs
        /\ entry[Job(t)].state = "active" /\ SlotInv(t)
    BY <1>2, JobType DEF Take, TypeOK, WorkerTypes, CalmInv, SlotInv, Job
  <2>2. entry'[Job(t)] = entry[Job(t)] /\ UNCHANGED <<status, results, stored, life>>
    BY <2>1 DEF Take, TypeOK, QueueTypes, rows
  <2> QED
    BY <2>1, <2>2 DEF SlotInv, Job, ProgressOf
<1>3. CASE t # s /\ attempt[t].pc = "idle"
  BY <1>3 DEF Take, TypeOK, WorkerTypes, SlotInv
<1> QED
  BY <1>1, <1>2, <1>3

(* Every step keeps the invariant. *)
LEMMA CalmNext == IInv /\ CalmInv /\ [Next]_vars => CalmInv'
<1> SUFFICES ASSUME IInv, CalmInv, [Next]_vars PROVE CalmInv'
  OBVIOUS
<1>0. TypeOK /\ Announcers /\ \A d \in Commands : CommandInv(d)'
  BY TellsStored DEF IInv
<1>1. ASSUME NEW s \in Slots, Work(s) \/ WorkerFault(s) PROVE CalmInv'
  <2>1. Acts(s)
    BY <1>0, <1>1, WorkActs, FaultActs DEF CalmInv
  <2>2. Job(s) \in Jobs /\ SlotInv(s)
    BY <2>1 DEF Acts, CalmInv
  <2>3. OwnSlot(s) /\ \A j \in Jobs : j = Job(s) => JobInv(j)'
    BY <1>0, <1>1, <2>2, WorkOwn, FaultOwn DEF CalmInv
  <2>4. ASSUME NEW t \in Slots PROVE SlotInv(t)'
    BY <1>0, <2>1, <2>2, <2>3, OwnSlotSuffices, OtherSlot DEF CalmInv
  <2>5. ASSUME NEW j \in Jobs PROVE JobInv(j)'
    BY <2>1, <2>3, RowsStay DEF Acts, CalmInv
  <2>6. budget'["stall"] = 0 /\ budget'["timeout"] = 0
    <3>1. Work(s) => budget' = budget
      BY DEF Work, ReadState, Claim, RunEnds, CountResults, MarkCompleted, VerifyCompleted, ListCallbacks,
             Announce, Succeed, Catch, MoveToFailed, CheckPage, PersistPage
    <3>2. WorkerFault(s) => budget' = budget \/ \E fault \in FaultKinds : Spend(fault)
      BY DEF WorkerFault, SetupFails, WorkerDbError, ClaimReplyLost, WorkerRedisError, WorkerCrash, LoseLock,
             PageError, PageTimeout, FaultKinds
    <3> QED
      BY <1>0, <1>1, <3>1, <3>2, BudgetFalls DEF CalmInv, FaultKinds
  <2> QED
    BY <1>0, <2>1, <2>4, <2>5, <2>6 DEF CalmInv, Acts
<1>2. ASSUME NEW c \in Commands, Send(c) \/ Handle(c) \/ ApiFault(c) PROVE CalmInv'
  <2>1. Aside /\ \A j \in Jobs : JobInv(j)'
    BY <1>0, <1>2, CommandAside, CommandTells
  <2>2. \A t \in Slots : SlotInv(t)'
    BY <1>0, <2>1, AsideSlots DEF CalmInv
  <2>3. budget'["stall"] = 0 /\ budget'["timeout"] = 0
    <3>1. Send(c) => budget' = budget
      BY DEF Send, CreateJob, ReadJob
    <3>2. ApiFault(c) => \E fault \in FaultKinds : Spend(fault)
      BY DEF ApiFault, RemoveFails, AddFails, ApiCrash, FaultKinds
    <3>3. Handle(c) => budget' = budget
      BY DEF Handle, Cancel, CancelRemoves, ResetJob, Refuse, RemoveForRetry, InspectEntry, PurgeEntry,
             AddEntry, RecordQueued, RecordFailed, FailJob, ReconcileCallbacks, ReconcileAnnounces
    <3> QED
      BY <1>0, <1>2, <3>1, <3>2, <3>3, BudgetFalls DEF CalmInv, FaultKinds
  <2> QED
    BY <1>0, <2>1, <2>2, <2>3 DEF CalmInv, Aside
<1>3. ASSUME NEW s \in Slots, NEW k \in Jobs, Take(s, k) PROVE CalmInv'
  <2>1. \A t \in Slots : SlotInv(t)'
    BY <1>0, <1>3, TakeSlots
  <2>2. /\ UNCHANGED <<orphans, budget>>
        /\ \A j \in Jobs : SameRows(j)
    BY <1>3 DEF Take, rows, callbacks, SameRows
  <2> QED
    BY <1>0, <2>1, <2>2, RowsStay DEF CalmInv
<1>4. ASSUME NEW k \in Jobs, RecoverStalled(k) \/ Promote(k) PROVE CalmInv'
  <2>1. Aside
    BY <1>0, <1>4, QueueAside
  <2>2. UNCHANGED budget /\ told' = told
    BY <1>4 DEF RecoverStalled, Promote, callbacks
  <2> QED
    BY <1>0, <2>1, <2>2, AsideSlots, AsideJobs DEF CalmInv, Aside
<1>5. CASE \E o \in orphans : OrphanPersists(o)
  BY <1>5 DEF CalmInv
<1>6. CASE UNCHANGED vars
  <2>1. /\ UNCHANGED <<orphans, budget, attempt, entry, life>>
        /\ \A j \in Jobs : SameRows(j)
    BY <1>6 DEF vars, rows, callbacks, SameRows
  <2>2. \A t \in Slots : SlotInv(t)'
    BY <1>6 DEF CalmInv, SlotInv, Job, ProgressOf, vars, rows
  <2> QED
    BY <1>0, <2>1, <2>2, RowsStay DEF CalmInv
<1> QED
  BY <1>1, <1>2, <1>3, <1>4, <1>5, <1>6 DEF Next

(* So it holds in every reachable state. *)
LEMMA CalmHolds == ASSUME Calm PROVE Spec => []CalmInv
<1>1. Init => CalmInv
  BY DEF Calm, Init, CalmInv, SlotInv, JobInv, CommandInv, Tells, NoAttempt, IdleCommand
<1> QED
  BY <1>1, CalmNext, IInvHolds, PTL DEF Spec

(* The progress a completed job shows counts its rows: nothing is inserted     *)
(* between countJobResults and set_job_status('completed').                    *)
THEOREM StoredCounts == ASSUME Calm PROVE Spec => []StoredCountsRows
<1>1. CalmInv => StoredCountsRows
  BY DEF CalmInv, JobInv, StoredCountsRows
<1> QED
  BY <1>1, CalmHolds, PTL

(* Whoever announces a job tells the progress its row stores: the attempt that *)
(* completed it, the one after a crash, a reconcile.                           *)
THEOREM ToldIsStored == ASSUME Calm PROVE Spec => []ToldWhatIsStored
<1>1. CalmInv => ToldWhatIsStored
  BY DEF CalmInv, JobInv, ToldWhatIsStored
<1> QED
  BY <1>1, CalmHolds, PTL

(* Only processPage's insert makes a checked page a done one. *)
LEMMA PagesPersist ==
  ASSUME TypeOK, [Next]_vars, NEW s \in Slots, NEW p \in Pages, page[s][p] = "checked", page'[s][p] = "done"
  PROVE  PersistPage(s, p)
<1> USE DEF TypeOK, WorkerTypes
<1>1. ASSUME NEW t \in Slots, Work(t) PROVE PersistPage(s, p)
  <2>1. ASSUME NEW q \in Pages, CheckPage(t, q) PROVE page'[s][p] # "done"
    BY <2>1 DEF CheckPage, FailPage
  <2>2. ASSUME NEW q \in Pages, PersistPage(t, q) PROVE PersistPage(s, p)
    <3>1. t = s /\ q = p
      BY <2>2 DEF PersistPage
    <3> QED
      BY <2>2, <3>1
  <2>3. CASE Succeed(t) \/ MoveToFailed(t)
    BY <2>3 DEF Succeed, MoveToFailed, Leave
  <2>4. CASE UNCHANGED page
    BY <2>4
  <2> QED
    BY <1>1, <2>1, <2>2, <2>3, <2>4
    DEF Work, ReadState, Claim, RunEnds, CountResults, MarkCompleted, VerifyCompleted, ListCallbacks,
        Announce, Catch
<1>2. ASSUME NEW t \in Slots, WorkerFault(t) PROVE page'[s][p] # "done"
  BY <1>2
  DEF WorkerFault, SetupFails, WorkerDbError, ClaimReplyLost, WorkerRedisError, WorkerCrash, LoseLock,
      PageError, PageTimeout, FailPage, Leave
<1>3. ASSUME NEW c \in Commands, Send(c) \/ ApiFault(c) PROVE UNCHANGED page
  BY <1>3 DEF Send, CreateJob, ReadJob, ApiFault, RemoveFails, AddFails, ApiCrash
<1>4. ASSUME NEW c \in Commands, Handle(c) PROVE UNCHANGED page
  BY <1>4
  DEF Handle, Cancel, CancelRemoves, ResetJob, Refuse, RemoveForRetry, InspectEntry, PurgeEntry,
      AddEntry, RecordQueued, RecordFailed, FailJob, ReconcileCallbacks, ReconcileAnnounces
<1>5. CASE \/ \E t \in Slots, j \in Jobs : Take(t, j)
           \/ \E j \in Jobs : RecoverStalled(j) \/ Promote(j)
           \/ \E o \in orphans : OrphanPersists(o)
           \/ UNCHANGED vars
  BY <1>5 DEF Take, RecoverStalled, Promote, OrphanPersists, vars
<1> QED
  BY <1>1, <1>2, <1>3, <1>4, <1>5 DEF Next

(* What was in flight when a job was cancelled persists nothing, neither then  *)
(* nor into the run a retry starts: insertResult looks at the status, and the  *)
(* entry is not given to another run while this one is at work.                *)
THEOREM NothingLate == ASSUME Calm PROVE Spec => NoLateResult
<1> DEFINE Timely ==
      /\ \A s \in Slots, p \in Pages :
           page[s][p] = "checked" /\ page'[s][p] = "done"
             => results' = results \/ attempt[s].life = life[Job(s)]
      /\ \A o \in orphans \ orphans' : results' = results \/ o.life = life[o.job]
<1>1. IInv /\ CalmInv /\ [Next]_vars => Timely
  <2> SUFFICES ASSUME IInv, CalmInv, [Next]_vars, NEW s \in Slots, NEW p \in Pages,
                      page[s][p] = "checked", page'[s][p] = "done", results' # results
               PROVE  attempt[s].life = life[Job(s)]
    BY DEF CalmInv
  <2>1. PersistPage(s, p)
    BY PagesPersist DEF IInv
  <2> QED
    BY <2>1 DEF PersistPage, InsertResult, CalmInv, SlotInv
<1> QED
  BY <1>1, CalmHolds, IInvHolds, PTL DEF Spec, NoLateResult

-----------------------------------------------------------------------------
(* An open job is driven.                                                      *)

(* The faults crawl_driven allows, and nobody cancels.                         *)
FewFaults ==
  /\ Calm
  /\ "cancel" \notin Kinds
  /\ Budget["apiCrash"] = 0 /\ Budget["redis"] <= 1 /\ Budget["workerCrash"] <= 1
  /\ Budget["fetch"] + Budget["db"] < MaxAttempts

FewLeft ==
  /\ budget["apiCrash"] = 0 /\ budget["redis"] <= 1 /\ budget["workerCrash"] <= 1
  /\ budget["fetch"] + budget["db"] < MaxAttempts

(* A handler that has more to do to a job's row or entry.                      *)
Busy(c, j) == cmd[c].pc \notin {"new", "effect", "announce", "done"} /\ cmd[c].job = j
Does(c, j, pc) == cmd[c].pc = pc /\ cmd[c].job = j

(* A handler is about to fail the job, or to give it a new entry or fail it.   *)
Ends(j) == \E c \in Commands : Does(c, j, "remove") \/ Does(c, j, "fail")

AtWork(t, j) == attempt[t].pc # "idle" /\ attempt[t].job = j
Lost(j) == entry[j].state = "active" /\ entry[j].owner = None

(* A live entry is not used up: the second stall would end it, and so would    *)
(* the last attempt, but for as many there are not faults enough.              *)
EntryLasts(j) ==
  entry[j].state \in LiveStates =>
    /\ Lost(j) => entry[j].stalls + budget["workerCrash"] = 0
    /\ entry[j].stalls + budget["workerCrash"] <= 1
    /\ status[j] # "completed" => entry[j].made + budget["fetch"] + budget["db"] < MaxAttempts

(* Neither is its attempt, unless the job has been failed under it.            *)
Began(t) == attempt[t].discarded \/ attempt[t].pc \in {"crawl", "count", "complete", "verify", "catch"}
AttemptLasts(t, j) ==
  AtWork(t, j) =>
    /\ attempt[t].made = entry[j].made
    /\ attempt[t].pc \in {"read", "claim"} => ~attempt[t].discarded
    /\ attempt[t].hard => attempt[t].discarded
    /\ attempt[t].discarded \/ attempt[t].pc = "verify" => status[j] # "running"
    /\ Began(t) /\ status[j] = "queued" => Ends(j)
    /\ attempt[t].pc \in {"catch", "thrown"} /\ ~attempt[t].discarded /\ status[j] # "completed" =>
         attempt[t].made + 1 + budget["fetch"] + budget["db"] < MaxAttempts

(* A job in its first life, which nobody has tried to end.                     *)
Enqueued(j) == outcome[j] = "QUEUED" \/ \E c \in Commands : Does(c, j, "record")
NeverFailed(j) ==
  /\ status[j] # "failed"
  /\ \A t \in Slots : AtWork(t, j) => ~attempt[t].discarded
  /\ \A c \in Commands : Busy(c, j) => cmd[c].pc \notin {"remove", "retryAdd", "fail"}
  /\ status[j] \notin {"absent", "completed"} =>
       /\ entry[j].state \notin {"failed", "completed"}
       /\ \A c \in Commands : ~Does(c, j, "purge")
       /\ Enqueued(j) => entry[j].state # "none"

AddFailed(j) == \E c \in Commands : Does(c, j, "recordFailed")

Driven(j) ==
  \/ entry[j].state \in LiveStates
  \/ entry[j].state = "none" /\ \E c \in Commands : Busy(c, j) /\ Adding(c)
  \/ AddFailed(j) /\ Recordable(j, "FAILED")
  \/ Ends(j)

RowLasts(j) ==
  /\ status[j] # "cancelled"
  /\ status[j] = "absent" => entry[j].state = "none"
  /\ status[j] # "absent" => outcome[j] \in {"PENDING", "QUEUED", "FAILED"}

FirstLife(j) ==
  /\ budget["redis"] > 0 => ~AddFailed(j) /\ NeverFailed(j)
  /\ AddFailed(j) => NeverFailed(j)
  /\ \A c, d \in Commands : Does(c, j, "recordFailed") /\ Does(d, j, "recordFailed") => c = d

DrivenJob(j) ==
  /\ RowLasts(j)
  /\ EntryLasts(j)
  /\ \A t \in Slots : AttemptLasts(t, j)
  /\ FirstLife(j)
  /\ Open(j) => Driven(j)

NoCancel(c) == cmd[c].pc # "cancelRemove" /\ (cmd[c].pc = "effect" => cmd[c].kind \in Kinds)

DrivenInv ==
  /\ FewLeft
  /\ \A c \in Commands : NoCancel(c)
  /\ \A j \in Jobs : DrivenJob(j)

-----------------------------------------------------------------------------

(* Faults only get fewer, and may reach zero.                                  *)
Falls(f) == budget[f] \in Nat /\ budget'[f] \in Nat /\ budget'[f] <= budget[f]
BudgetsFall ==
  /\ MaxAttempts \in Nat
  /\ Falls("fetch") /\ Falls("db") /\ Falls("redis") /\ Falls("workerCrash")

(* A step spends a fault or none: the budgets only fall.                       *)
LEMMA SpendFalls ==
  ASSUME TypeOK, budget' = budget \/ \E f \in FaultKinds : Spend(f)
  PROVE  BudgetsFall
BY CrawlAssumption DEF CrawlAssumption, TypeOK, Spend, Falls, BudgetsFall, FaultKinds

Untouched(j) ==
  /\ status'[j] = status[j] /\ outcome'[j] = outcome[j] /\ entry'[j] = entry[j]
  /\ \A t \in Slots : AtWork(t, j) \/ AtWork(t, j)' => attempt'[t] = attempt[t]
  /\ \A c \in Commands : Busy(c, j) \/ Busy(c, j)' => cmd'[c] = cmd[c]

(* The handlers that have something to do to a job, when none of them moves.   *)
LEMMA SameHandlers ==
  ASSUME NEW j \in Jobs, \A c \in Commands : Busy(c, j) \/ Busy(c, j)' => cmd'[c] = cmd[c]
  PROVE  /\ Ends(j)' <=> Ends(j)
         /\ AddFailed(j)' <=> AddFailed(j)
         /\ \A c \in Commands : Busy(c, j)' <=> Busy(c, j)
         /\ \A c \in Commands : Busy(c, j) => cmd'[c] = cmd[c]
         /\ \A c \in Commands : Does(c, j, "recordFailed")' <=> Does(c, j, "recordFailed")
         /\ \A c \in Commands : Does(c, j, "purge")' <=> Does(c, j, "purge")
         /\ \A c \in Commands : Does(c, j, "record")' <=> Does(c, j, "record")
         /\ \A c \in Commands : (Busy(c, j) /\ Adding(c))' <=> (Busy(c, j) /\ Adding(c))
<1>1. \A c \in Commands : Busy(c, j)' <=> Busy(c, j)
  BY DEF Busy
<1>2. \A c \in Commands, pc \in {"remove", "fail", "recordFailed", "purge", "record"} :
        Does(c, j, pc)' <=> Does(c, j, pc)
  BY DEF Busy, Does
<1> QED
  BY <1>1, <1>2 DEF Ends, AddFailed, Adding, Busy

(* A step that leaves alone what a job's part of the invariant is about, and   *)
(* spends faults at most, keeps it.                                            *)
LEMMA UntouchedJob ==
  ASSUME BudgetsFall, NEW j \in Jobs, Untouched(j), DrivenJob(j), entry[j] \in EntryType
  PROVE  DrivenJob(j)'
<1> USE DEF Untouched, BudgetsFall, Falls
<1>1. /\ Ends(j)' <=> Ends(j)
      /\ AddFailed(j)' <=> AddFailed(j)
      /\ \A c \in Commands : Busy(c, j)' <=> Busy(c, j)
      /\ \A c \in Commands : Busy(c, j) => cmd'[c] = cmd[c]
      /\ \A c \in Commands : Does(c, j, "recordFailed")' <=> Does(c, j, "recordFailed")
      /\ \A c \in Commands : Does(c, j, "purge")' <=> Does(c, j, "purge")
      /\ \A c \in Commands : Does(c, j, "record")' <=> Does(c, j, "record")
      /\ \A c \in Commands : (Busy(c, j) /\ Adding(c))' <=> (Busy(c, j) /\ Adding(c))
  BY SameHandlers
<1>2. RowLasts(j)'
  BY DEF RowLasts, DrivenJob
<1>3. EntryLasts(j)'
  BY DEF EntryLasts, Lost, DrivenJob, EntryType
<1>4. ASSUME NEW t \in Slots, AtWork(t, j)' PROVE AttemptLasts(t, j)'
  <2>1. attempt'[t] = attempt[t] /\ AtWork(t, j) /\ AttemptLasts(t, j)
    BY <1>4 DEF AtWork, DrivenJob
  <2>2. attempt[t].made = entry[j].made /\ entry[j].made \in Nat
    BY <2>1 DEF AttemptLasts, EntryType
  <2> QED
    BY <1>1, <2>1, <2>2 DEF AttemptLasts, Began
<1>5. NeverFailed(j) => NeverFailed(j)'
  <2> SUFFICES ASSUME NeverFailed(j) PROVE NeverFailed(j)'
    OBVIOUS
  <2>1. \A t \in Slots : AtWork(t, j)' => ~attempt'[t].discarded
    BY DEF AtWork, NeverFailed
  <2> QED
    BY <1>1, <2>1 DEF NeverFailed, Enqueued
<1>6. FirstLife(j)'
  BY <1>1, <1>5 DEF FirstLife, DrivenJob
<1>7. Open(j)' => Driven(j)'
  BY <1>1 DEF Open, Driven, DrivenJob, Recordable
<1> QED
  BY <1>2, <1>3, <1>4, <1>6, <1>7 DEF DrivenJob, AttemptLasts

-----------------------------------------------------------------------------
(* What an attempt does to the job it is at work on.                           *)

(* What is left to show of an attempt's step, beyond what Acts says.           *)
OwnLasts(s, j) ==
  /\ attempt'[s].pc # "idle" => AttemptLasts(s, j)'
  /\ status'[j] \in {status[j], "running", "completed", "failed"}
  /\ status[j] = "completed" => status'[j] = "completed"
  /\ NeverFailed(j) => status'[j] # "failed" /\ ~attempt'[s].discarded

Alone(s, j) == AtWork(s, j) /\ \A t \in Slots \ {s} : ~AtWork(t, j)

(* While an attempt goes on, its entry is held and its job is driven by it.    *)
LEMMA SlotStays ==
  ASSUME BudgetsFall, NEW s \in Slots, NEW j \in Jobs, DrivenJob(j), entry[j] \in EntryType,
         entry[j].state = "active", status[j] # "absent", j = Job(s),
         Acts(s), Alone(s, j), UNCHANGED outcome, attempt'[s].pc # "idle", OwnLasts(s, j)
  PROVE  DrivenJob(j)'
<1> USE DEF BudgetsFall, Falls
<1>1. /\ SameLock(j) /\ UNCHANGED cmd /\ attempt'[s].job = j
      /\ \A t \in Slots \ {s} : attempt'[t] = attempt[t]
  BY DEF Acts
<1>2. /\ Ends(j)' <=> Ends(j)
      /\ AddFailed(j)' <=> AddFailed(j)
      /\ \A c \in Commands : Busy(c, j)' <=> Busy(c, j)
      /\ \A c \in Commands : Does(c, j, "recordFailed")' <=> Does(c, j, "recordFailed")
      /\ \A c \in Commands : Does(c, j, "purge")' <=> Does(c, j, "purge")
      /\ \A c \in Commands : Does(c, j, "record")' <=> Does(c, j, "record")
  BY <1>1 DEF Ends, AddFailed, Busy, Does
<1>3. RowLasts(j)'
  BY DEF RowLasts, DrivenJob, OwnLasts
<1>4. EntryLasts(j)'
  BY <1>1 DEF EntryLasts, Lost, DrivenJob, SameLock, EntryType, OwnLasts
<1>5. \A t \in Slots : AttemptLasts(t, j)'
  BY <1>1 DEF AttemptLasts, AtWork, Alone, OwnLasts
<1>6. NeverFailed(j) => NeverFailed(j)'
  <2> SUFFICES ASSUME NeverFailed(j) PROVE NeverFailed(j)'
    OBVIOUS
  <2>1. \A t \in Slots : AtWork(t, j)' => ~attempt'[t].discarded
    BY <1>1 DEF AtWork, NeverFailed, OwnLasts
  <2>2. entry'[j].state = "active" /\ status'[j] # "failed"
    BY <1>1 DEF SameLock, OwnLasts
  <2> QED
    BY <1>1, <1>2, <2>1, <2>2 DEF NeverFailed, Enqueued, OwnLasts
<1>7. FirstLife(j)'
  BY <1>2, <1>6 DEF FirstLife, DrivenJob
<1>8. Driven(j)'
  BY <1>1 DEF Driven, LiveStates, SameLock
<1> QED
  BY <1>3, <1>4, <1>5, <1>7, <1>8 DEF DrivenJob

(* What is left to show when it is over: a job whose entry is over is over,    *)
(* too, or about to be.                                                        *)
EntryLeft(j) ==
  /\ entry'[j].state \in LiveStates => EntryLasts(j)'
  /\ entry'[j].state \in LiveStates \cup {"failed", "completed"}
  /\ entry'[j].state \in {"failed", "completed"} /\ status[j] # "completed" =>
       ~NeverFailed(j) /\ (Open(j) => Ends(j))

(* When it is over, its job keeps its part of the invariant if the entry is    *)
(* left as it should be.                                                       *)
LEMMA SlotLeaves ==
  ASSUME BudgetsFall, NEW s \in Slots, NEW j \in Jobs, DrivenJob(j), entry[j] \in EntryType,
         entry[j].state = "active", status[j] # "absent", j = Job(s),
         Acts(s), Alone(s, j), UNCHANGED <<status, outcome>>, attempt'[s].pc = "idle", EntryLeft(j)
  PROVE  DrivenJob(j)'
<1> USE DEF BudgetsFall, Falls
<1>1. UNCHANGED cmd /\ \A t \in Slots \ {s} : attempt'[t] = attempt[t]
  BY DEF Acts
<1>2. /\ Ends(j)' <=> Ends(j)
      /\ AddFailed(j)' <=> AddFailed(j)
      /\ \A c \in Commands : Busy(c, j)' <=> Busy(c, j)
      /\ \A c \in Commands : Does(c, j, "recordFailed")' <=> Does(c, j, "recordFailed")
      /\ \A c \in Commands : Does(c, j, "purge")' <=> Does(c, j, "purge")
      /\ \A c \in Commands : Does(c, j, "record")' <=> Does(c, j, "record")
  BY <1>1 DEF Ends, AddFailed, Busy, Does
<1>3. RowLasts(j)' /\ EntryLasts(j)'
  BY DEF RowLasts, DrivenJob, EntryLeft, EntryLasts
<1>4. \A t \in Slots : ~AtWork(t, j)'
  BY <1>1 DEF AtWork, Alone
<1>5. NeverFailed(j) => NeverFailed(j)'
  BY <1>1, <1>2, <1>4 DEF NeverFailed, Enqueued, EntryLeft, LiveStates
<1>6. FirstLife(j)'
  BY <1>2, <1>5 DEF FirstLife, DrivenJob
<1>7. Open(j)' => Driven(j)'
  BY <1>2 DEF Driven, Open, EntryLeft, LiveStates
<1> QED
  BY <1>3, <1>4, <1>6, <1>7 DEF DrivenJob, AttemptLasts

(* A job nobody has tried to end runs as long as its crawl does.               *)
LEMMA CrawlRuns ==
  ASSUME NEW s \in Slots, NEW j \in Jobs, DrivenJob(j), AtWork(s, j), NeverFailed(j), Began(s),
         status[j] \in Statuses, status[j] \notin {"absent", "completed"}
  PROVE  status[j] = "running"
<1>1. ~Ends(j)
  BY DEF Ends, Does, Busy, NeverFailed
<1> QED
  BY <1>1 DEF DrivenJob, RowLasts, AttemptLasts, NeverFailed, Statuses

(* The steps that leave the status alone, by the fields they set.              *)
LEMMA OwnMoves ==
  ASSUME BudgetsFall, NEW s \in Slots, NEW j \in Jobs, j = Job(s), DrivenJob(j), AtWork(s, j),
         entry[j] \in EntryType, entry[j].state = "active",
         Acts(s), UNCHANGED status, attempt'[s].pc # "idle",
         attempt'[s].made = attempt[s].made,
         attempt'[s].discarded = attempt[s].discarded, attempt'[s].hard = attempt[s].hard,
         attempt'[s].pc \in {"read", "claim"} => attempt[s].pc \in {"read", "claim"},
         attempt'[s].pc = "verify" => status[j] # "running",
         attempt'[s].pc \in {"crawl", "count", "complete", "verify", "catch"} =>
           status[j] # "queued" \/ Began(s),
         attempt'[s].pc \in {"catch", "thrown"} =>
           \/ status[j] = "completed" \/ attempt[s].discarded \/ attempt[s].pc \in {"catch", "thrown"}
           \/ budget'["fetch"] + budget'["db"] < budget["fetch"] + budget["db"]
  PROVE  OwnLasts(s, j)
<1> USE DEF BudgetsFall, Falls
<1>1. AttemptLasts(s, j) /\ EntryLasts(j) /\ entry[j].made \in Nat
  BY DEF DrivenJob, EntryType
<1>2. SameLock(j) /\ UNCHANGED cmd /\ attempt'[s].job = j
  BY DEF Acts
<1>3. Ends(j)' <=> Ends(j)
  BY <1>2 DEF Ends, Does
<1>4. ASSUME attempt'[s].pc \in {"catch", "thrown"}, ~attempt'[s].discarded, status[j] # "completed"
      PROVE  attempt'[s].made + 1 + budget'["fetch"] + budget'["db"] < MaxAttempts
  BY <1>1, <1>4 DEF AttemptLasts, EntryLasts, AtWork, LiveStates
<1>5. AttemptLasts(s, j)'
  BY <1>1, <1>2, <1>3, <1>4 DEF AttemptLasts, AtWork, Began, SameLock
<1> QED
  BY <1>5 DEF OwnLasts, NeverFailed

(* A job an attempt is at work on, as the invariant has it.                    *)
Held(s, j) ==
  /\ AtWork(s, j) /\ j = Job(s) /\ DrivenJob(j) /\ SlotInv(s)
  /\ entry[j] \in EntryType /\ entry[j].state = "active" /\ entry[j].owner = s
  /\ status[j] \in Statuses \ {"absent", "cancelled"}
Lasts(s, j) ==
  IF attempt'[s].pc # "idle" THEN OwnLasts(s, j) ELSE UNCHANGED status /\ EntryLeft(j)

(* What a worker does to the job it works on: every step of an attempt leaves  *)
(* its entry live, or its job over or about to be.                             *)
LEMMA WorkLasts ==
  ASSUME TypeOK, Announcers, BudgetsFall, NEW s \in Slots, NEW j \in Jobs, Held(s, j), Work(s)
  PROVE  Lasts(s, j)
<1> USE DEF TypeOK
<1>0. Acts(s) /\ budget' = budget
  BY WorkActs
  DEF Work, ReadState, Claim, RunEnds, CountResults, MarkCompleted, VerifyCompleted, ListCallbacks,
      Announce, Succeed, Catch, MoveToFailed, CheckPage, PersistPage
<1>1. CASE ReadState(s)
  <2>1. /\ attempt'[s].made = attempt[s].made /\ attempt'[s].pc \in {"list", "claim"}
        /\ attempt'[s].discarded = attempt[s].discarded /\ attempt'[s].hard = attempt[s].hard
        /\ attempt[s].pc = "read" /\ status' = status
    BY <1>1 DEF ReadState, rows, WorkerTypes, AttemptType
  <2> QED
    BY <1>0, <2>1, OwnMoves DEF Held, Lasts
<1>2. CASE Claim(s)
  <2>1. CASE Runnable(j)
    <3>1. /\ status'[j] = "running" /\ status[j] \in {"queued", "running"} /\ attempt[s].pc = "claim"
          /\ attempt'[s].pc = "crawl" /\ attempt'[s].made = attempt[s].made
          /\ attempt'[s].discarded = attempt[s].discarded /\ attempt'[s].hard = attempt[s].hard
      BY <1>2, <2>1 DEF Claim, Runnable, RowTypes, Held, WorkerTypes, AttemptType
    <3>2. SameLock(j) /\ AttemptLasts(s, j)
      BY <1>0, <3>1 DEF Acts, Held, DrivenJob
    <3> QED
      BY <3>1, <3>2 DEF Lasts, OwnLasts, AttemptLasts, SameLock, NeverFailed, Held, AtWork
  <2>2. CASE ~Runnable(j)
    <3>1. /\ status' = status /\ status[j] \notin {"queued", "running"} /\ attempt[s].pc = "claim"
          /\ attempt'[s].pc = "thrown" /\ attempt'[s].made = attempt[s].made
          /\ attempt'[s].discarded /\ attempt'[s].hard
      BY <1>2, <2>2, AbandonFields DEF Claim, Runnable, Held
    <3>2. SameLock(j) /\ AttemptLasts(s, j) /\ ~NeverFailed(j)
      BY <1>0, <3>1 DEF Acts, Held, DrivenJob, NeverFailed, SlotInv, Statuses
    <3> QED
      BY <3>1, <3>2 DEF Lasts, OwnLasts, AttemptLasts, SameLock, Held, AtWork
  <2> QED
    BY <2>1, <2>2
<1>3. CASE RunEnds(s) \/ CountResults(s)
  <2>1. /\ attempt'[s].made = attempt[s].made /\ attempt'[s].pc \in {"count", "complete"}
        /\ attempt'[s].discarded = attempt[s].discarded /\ attempt'[s].hard = attempt[s].hard
        /\ attempt[s].pc \in {"crawl", "count"} /\ status' = status
    BY <1>3, GoFields DEF RunEnds, CountResults, AfterUpdate, Held, rows, WorkerTypes, AttemptType
  <2> QED
    BY <1>0, <2>1, OwnMoves DEF Held, Lasts, Began
<1>4. CASE MarkCompleted(s)
  <2>1. /\ attempt'[s].pc = "verify" /\ attempt'[s].made = attempt[s].made
        /\ attempt'[s].discarded = attempt[s].discarded /\ attempt'[s].hard = attempt[s].hard
        /\ attempt[s].pc = "complete"
    BY <1>4, GoFields DEF MarkCompleted
  <2>2. \/ status[j] = "running" /\ status'[j] = "completed"
        \/ status[j] # "running" /\ status'[j] = status[j]
    BY <1>4 DEF MarkCompleted, SetJobStatus, SourcesOf, RowTypes, Held
  <2>3. SameLock(j) /\ AttemptLasts(s, j) /\ (Ends(j)' <=> Ends(j))
    BY <1>0, <2>1 DEF Acts, Held, DrivenJob, Ends, Does
  <2> QED
    BY <2>1, <2>2, <2>3 DEF Lasts, OwnLasts, AttemptLasts, SameLock,
        NeverFailed, Held, AtWork, Began
<1>5. CASE VerifyCompleted(s)
  <2>1. CASE status[j] = "completed"
    BY <1>0, <1>5, <2>1, OwnMoves, GoFields DEF VerifyCompleted, rows, Held, Lasts
  <2>2. CASE status[j] # "completed"
    <3>1. /\ status' = status /\ attempt[s].pc = "verify"
          /\ attempt'[s].pc = "catch" /\ attempt'[s].made = attempt[s].made
          /\ attempt'[s].discarded /\ attempt'[s].hard
      BY <1>5, <2>2, AbandonFields DEF VerifyCompleted, rows, Held
    <3>2. SameLock(j) /\ AttemptLasts(s, j) /\ status[j] # "running" /\ (Ends(j)' <=> Ends(j))
      BY <1>0, <3>1 DEF Acts, Held, DrivenJob, Ends, Does, AttemptLasts
    <3>3. ~NeverFailed(j)
      BY <2>2, <3>1, <3>2, CrawlRuns DEF Held, Began
    <3> QED
      BY <3>1, <3>2, <3>3 DEF Lasts, OwnLasts, AttemptLasts, SameLock, Held, AtWork, Began
  <2> QED
    BY <2>1, <2>2
<1>6. CASE ListCallbacks(s) \/ Announce(s)
  <2>1. /\ attempt'[s].made = attempt[s].made /\ attempt'[s].pc = "announce"
        /\ attempt'[s].discarded = attempt[s].discarded /\ attempt'[s].hard = attempt[s].hard
        /\ status' = status
    BY <1>6 DEF ListCallbacks, Announce, rows, WorkerTypes, AttemptType
  <2> QED
    BY <1>0, <2>1, OwnMoves DEF Held, Lasts
<1>7. CASE Succeed(s)
  <2>1. attempt'[s].pc = "idle" /\ status' = status /\ status[j] = "completed"
    BY <1>7, LeaveFields DEF Succeed, rows, Announcers, Held
  <2>2. entry'[j].state = "completed"
    BY <1>7 DEF Succeed, Holds, Held, QueueTypes
  <2> QED
    BY <2>1, <2>2 DEF Lasts, EntryLeft, LiveStates
<1>8. CASE Catch(s)
  <2>1. /\ attempt'[s].pc = "thrown" /\ attempt'[s].made = attempt[s].made
        /\ attempt'[s].discarded = attempt[s].discarded /\ attempt'[s].hard = attempt[s].hard
        /\ attempt[s].pc = "catch"
    BY <1>8, GoFields DEF Catch
  <2>2. \/ status'[j] = status[j]
        \/ status[j] \in {"queued", "running"} /\ status'[j] = "failed" /\ (FinalAttempt(s) \/ attempt[s].hard)
    BY <1>8 DEF Catch, SetJobStatus, SourcesOf, RowTypes, Held
  <2>3. SameLock(j) /\ AttemptLasts(s, j) /\ (Ends(j)' <=> Ends(j))
    BY <1>0, <2>1 DEF Acts, Held, DrivenJob, Ends, Does
  <2>4. FinalAttempt(s) /\ status[j] # "completed" => attempt[s].discarded
    BY <2>1, <2>3 DEF AttemptLasts, Held, FinalAttempt, BudgetsFall, Falls, WorkerTypes, AttemptType
  <2> QED
    BY <1>0, <2>1, <2>2, <2>3, <2>4 DEF Lasts, OwnLasts, AttemptLasts, SameLock,
        NeverFailed, Held, AtWork, Began
<1>9. CASE MoveToFailed(s)
  <2>1. attempt'[s].pc = "idle" /\ status' = status /\ attempt[s].pc = "thrown"
    BY <1>9, LeaveFields DEF MoveToFailed, rows
  <2>2. /\ entry'[j].state = IF Retries(s) THEN "delayed" ELSE "failed"
        /\ entry'[j].made = entry[j].made + 1 /\ entry'[j].stalls = entry[j].stalls
    BY <1>9 DEF MoveToFailed, Holds, Held, QueueTypes, EntryType
  <2>3. AttemptLasts(s, j) /\ EntryLasts(j)
    BY DEF Held, DrivenJob
  <2>4. CASE Retries(s)
    BY <1>0, <2>1, <2>2, <2>3, <2>4
    DEF Lasts, EntryLeft, EntryLasts, Lost, AttemptLasts, Held, Retries, LiveStates,
        BudgetsFall, Falls, EntryType
  <2>5. CASE ~Retries(s)
    <3>1. status[j] = "completed" \/ attempt[s].discarded
      BY <2>1, <2>3, <2>5
      DEF Retries, AttemptLasts, Held, FinalAttempt, BudgetsFall, Falls, WorkerTypes, AttemptType
    <3>2. attempt[s].discarded => ~NeverFailed(j) /\ (Open(j) => Ends(j))
      BY <2>3 DEF NeverFailed, Open, AttemptLasts, Held, Began
    <3> QED
      BY <2>1, <2>2, <2>5, <3>1, <3>2 DEF Lasts, EntryLeft, LiveStates
  <2> QED
    BY <2>4, <2>5
<1>10. ASSUME NEW p \in Pages, CheckPage(s, p) PROVE Lasts(s, j)
  <2>1. CASE status[j] = "running"
    BY <1>0, <1>10, <2>1, OwnMoves DEF CheckPage, rows, Held, Lasts, Began
  <2>2. CASE status[j] # "running"
    <3>1. /\ status' = status /\ attempt[s].pc = "crawl"
          /\ attempt'[s].pc = "crawl" /\ attempt'[s].made = attempt[s].made
          /\ attempt'[s].discarded /\ attempt'[s].hard = attempt[s].hard
      BY <1>10, <2>2 DEF CheckPage, rows, Held, AfterUpdate, WorkerTypes, AttemptType
    <3>2. SameLock(j) /\ AttemptLasts(s, j) /\ (Ends(j)' <=> Ends(j)) /\ status[j] # "completed"
      BY <1>0, <3>1 DEF Acts, Held, DrivenJob, Ends, Does, SlotInv
    <3>3. ~NeverFailed(j)
      BY <2>2, <3>1, <3>2, CrawlRuns DEF Held, Began
    <3> QED
      BY <2>2, <3>1, <3>2, <3>3 DEF Lasts, OwnLasts, AttemptLasts, SameLock, Held, AtWork, Began
  <2> QED
    BY <2>1, <2>2
<1>11. ASSUME NEW p \in Pages, PersistPage(s, p) PROVE Lasts(s, j)
  BY <1>0, <1>11, OwnMoves, GoFields DEF PersistPage, AfterUpdate, Held, Lasts, Began
<1> QED
  BY <1>1, <1>2, <1>3, <1>4, <1>5, <1>6, <1>7, <1>8, <1>9, <1>10, <1>11 DEF Work

(* And what befalls it: a fault leaves another attempt, for the entry has more *)
(* of them than there are faults.                                              *)
LEMMA FaultLasts ==
  ASSUME TypeOK, Announcers, BudgetsFall, FewLeft, budget["stall"] = 0, budget["timeout"] = 0,
         NEW s \in Slots, NEW j \in Jobs, Held(s, j), WorkerFault(s)
  PROVE  Lasts(s, j)
<1> USE DEF TypeOK
<1>0. Acts(s)
  BY FaultActs
<1>1. ASSUME Spend("fetch") \/ Spend("db")
      PROVE  budget'["fetch"] + budget'["db"] < budget["fetch"] + budget["db"]
  BY <1>1 DEF Spend, FaultKinds
<1>2. CASE SetupFails(s) \/ WorkerDbError(s)
  <2>1. /\ attempt'[s].pc \in {"catch", "thrown"} /\ attempt'[s].made = attempt[s].made
        /\ attempt'[s].discarded = attempt[s].discarded /\ attempt'[s].hard = attempt[s].hard
        /\ attempt'[s].pc = "catch" => attempt[s].pc = "list" \/ Began(s)
        /\ status' = status /\ (Spend("fetch") \/ Spend("db"))
    BY <1>2, GoFields DEF SetupFails, WorkerDbError, rows, Began
  <2>2. attempt[s].pc = "list" => status[j] = "completed"
    BY DEF Announcers, Held
  <2> QED
    BY <1>0, <1>1, <2>1, <2>2, OwnMoves DEF Held, Lasts
<1>3. CASE WorkerRedisError(s)
  <2>1. /\ attempt'[s].pc = "catch" /\ attempt'[s].made = attempt[s].made
        /\ attempt'[s].discarded = attempt[s].discarded /\ attempt'[s].hard = attempt[s].hard
        /\ status' = status /\ status[j] = "completed"
    BY <1>3, GoFields DEF WorkerRedisError, rows, Announcers, Held
  <2> QED
    BY <1>0, <2>1, OwnMoves DEF Held, Lasts
<1>4. CASE ClaimReplyLost(s)
  <2>1. /\ attempt'[s].pc = "thrown" /\ attempt'[s].made = attempt[s].made
        /\ attempt'[s].discarded = attempt[s].discarded /\ attempt'[s].hard = attempt[s].hard
        /\ attempt[s].pc = "claim" /\ status'[j] = "running" /\ status[j] \in {"queued", "running"}
    BY <1>4, GoFields DEF ClaimReplyLost, RowTypes, Runnable, Held
  <2>2. SameLock(j) /\ AttemptLasts(s, j) /\ EntryLasts(j)
    BY <1>0, <2>1 DEF Acts, Held, DrivenJob
  <2>3. attempt[s].made + 1 + budget'["fetch"] + budget'["db"] < MaxAttempts
    BY <1>1, <1>4, <2>1, <2>2
    DEF ClaimReplyLost, AttemptLasts, EntryLasts, Held, LiveStates, BudgetsFall, Falls, EntryType
  <2> QED
    BY <2>1, <2>2, <2>3 DEF Lasts, OwnLasts, AttemptLasts, SameLock,
        NeverFailed, Held, AtWork, Began
<1>5. CASE WorkerCrash(s)
  <2>1. attempt'[s].pc = "idle" /\ status' = status
    BY <1>5, LeaveFields DEF WorkerCrash, rows
  <2>2. /\ entry'[j].state = "active" /\ entry'[j].owner = None
        /\ entry'[j].made = entry[j].made /\ entry'[j].stalls = entry[j].stalls
    BY <1>5 DEF WorkerCrash, Holds, Held, QueueTypes, EntryType
  <2>3. budget'["workerCrash"] = 0 /\ budget["workerCrash"] = 1
    BY <1>5 DEF WorkerCrash, Spend, FewLeft, FaultKinds
  <2>4. EntryLasts(j)
    BY DEF Held, DrivenJob
  <2> QED
    BY <2>1, <2>2, <2>3, <2>4
    DEF Lasts, EntryLeft, EntryLasts, Lost, Held, LiveStates, BudgetsFall, Falls, EntryType
<1>6. ASSUME NEW p \in Pages, PageError(s, p) PROVE Lasts(s, j)
  <2>1. /\ attempt'[s].pc = "crawl" /\ attempt'[s].made = attempt[s].made
        /\ attempt'[s].discarded = attempt[s].discarded /\ attempt'[s].hard = attempt[s].hard
        /\ attempt[s].pc = "crawl" /\ status' = status
    BY <1>6 DEF PageError, AfterUpdate, Held, rows, WorkerTypes, AttemptType
  <2> QED
    BY <1>0, <2>1, OwnMoves DEF Held, Lasts, Began
<1>7. ~LoseLock(s) /\ \A p \in Pages : ~PageTimeout(s, p)
  BY DEF LoseLock, PageTimeout, Spend
<1> QED
  BY <1>2, <1>3, <1>4, <1>5, <1>6, <1>7 DEF WorkerFault

-----------------------------------------------------------------------------
(* What is not an attempt's doing.                                             *)

(* An entry nobody holds is taken, found stalled or promoted, and stays live.  *)
LEMMA QueueLasts ==
  ASSUME TypeOK, BudgetsFall, NEW j \in Jobs, DrivenJob(j), \A t \in Slots : SlotInv(t),
         \/ RecoverStalled(j) \/ Promote(j)
         \/ \E s \in Slots : Take(s, j)
  PROVE  DrivenJob(j)'
<1> USE DEF TypeOK
<1>1. entry[j] \in EntryType /\ EntryLasts(j) /\ entry[j].state \in LiveStates
  BY DEF QueueTypes, DrivenJob, RecoverStalled, Promote, Take, LiveStates
<1>2. UNCHANGED <<status, outcome, cmd, budget>>
  BY DEF RecoverStalled, Promote, Take, rows
<1>3. \A t \in Slots : ~AtWork(t, j)
  BY CrawlAssumption DEF SlotInv, AtWork, Job, RecoverStalled, Promote, Take, CrawlAssumption
<1>4. /\ entry'[j].state \in LiveStates
      /\ entry'[j].made = entry[j].made
      /\ \/ entry'[j].stalls = entry[j].stalls /\ ~Lost(j)'
         \/ Lost(j) /\ entry'[j].stalls = 1 /\ entry'[j].state = "waiting"
  <2>1. CASE RecoverStalled(j)
    <3>1. Lost(j) /\ entry[j].stalls = 0
      BY <1>1, <2>1 DEF RecoverStalled, Lost, EntryLasts, BudgetsFall, Falls, EntryType
    <3> QED
      BY <2>1, <3>1 DEF RecoverStalled, QueueTypes, EntryType, LiveStates
  <2>2. CASE Promote(j)
    BY <2>2 DEF Promote, QueueTypes, EntryType, LiveStates, Lost
  <2>3. ASSUME NEW s \in Slots, Take(s, j)
        PROVE  /\ entry'[j].state = "active" /\ entry'[j].owner # None
               /\ entry'[j].made = entry[j].made /\ entry'[j].stalls = entry[j].stalls
    <3>1. s # None
      BY CrawlAssumption DEF CrawlAssumption
    <3>2. entry' = [entry EXCEPT ![j].state = "active", ![j].owner = s]
      BY <2>3 DEF Take
    <3>3. entry'[j] = [entry[j] EXCEPT !.state = "active", !.owner = s]
      BY <3>2 DEF QueueTypes
    <3> QED
      BY <1>1, <3>1, <3>3 DEF EntryType
  <2>4. CASE \E s \in Slots : Take(s, j)
    BY <2>3, <2>4 DEF Lost, LiveStates
  <2> QED
    BY <2>1, <2>2, <2>4
<1>5. EntryLasts(j)'
  BY <1>1, <1>2, <1>4 DEF EntryLasts, Lost, BudgetsFall, Falls, EntryType
<1>6. ASSUME NEW t \in Slots, AtWork(t, j)'
      PROVE  /\ attempt'[t].pc = "read" /\ attempt'[t].made = entry[j].made
             /\ ~attempt'[t].discarded /\ ~attempt'[t].hard
  <2>1. CASE UNCHANGED attempt
    BY <1>3, <1>6, <2>1 DEF AtWork
  <2>2. ASSUME NEW s \in Slots, Take(s, j), t # s PROVE FALSE
    BY <1>3, <1>6, <2>2 DEF Take, AtWork, WorkerTypes
  <2>3. CASE Take(t, j)
    BY <2>3 DEF Take, WorkerTypes, NoAttempt
  <2> QED
    BY <2>1, <2>2, <2>3 DEF RecoverStalled, Promote
<1>7. /\ Ends(j)' <=> Ends(j)
      /\ AddFailed(j)' <=> AddFailed(j)
      /\ \A c \in Commands : Busy(c, j)' <=> Busy(c, j)
      /\ \A c \in Commands : Does(c, j, "recordFailed")' <=> Does(c, j, "recordFailed")
      /\ \A c \in Commands : Does(c, j, "purge")' <=> Does(c, j, "purge")
      /\ \A c \in Commands : Does(c, j, "record")' <=> Does(c, j, "record")
  BY <1>2 DEF Ends, AddFailed, Busy, Does
<1>8. NeverFailed(j) => NeverFailed(j)'
  BY <1>2, <1>4, <1>6, <1>7 DEF NeverFailed, Enqueued, LiveStates
<1>9. FirstLife(j)'
  BY <1>2, <1>7, <1>8 DEF FirstLife, DrivenJob
<1>10. RowLasts(j)'
  BY <1>1, <1>2 DEF RowLasts, DrivenJob, LiveStates
<1>11. \A t \in Slots : AttemptLasts(t, j)'
  BY <1>4, <1>6 DEF AttemptLasts, Began
<1> QED
  BY <1>4, <1>5, <1>9, <1>10, <1>11 DEF DrivenJob, Driven

(* A handler's step: one record of cmd, the rows and the entry of one job.     *)
Handles(c, j) ==
  /\ UNCHANGED attempt
  /\ \A d \in Commands \ {c} : cmd'[d] = cmd[d]
  /\ \A k \in Jobs \ {j} : status'[k] = status[k] /\ outcome'[k] = outcome[k] /\ entry'[k] = entry[k]
  /\ cmd[c].pc = "new" \/ cmd[c].job = j
  /\ cmd'[c].pc = "done" \/ cmd'[c].job = j
  /\ \/ entry'[j] = entry[j]
     \/ entry[j].state # "active" /\ entry'[j] \in {NoEntry, FreshEntry}

(* A handler's step on one job leaves every other job alone.                   *)
LEMMA HandlesOthers ==
  ASSUME NEW c \in Commands, NEW j \in Jobs, Handles(c, j), NEW k \in Jobs, k # j
  PROVE  Untouched(k)
BY DEF Handles, Untouched, Busy, AtWork

(* What is left to show of a handler's step on its own job.                    *)
LEMMA HandlerKeeps ==
  ASSUME BudgetsFall, FewLeft, NEW c \in Commands, NEW j \in Jobs,
         DrivenJob(j), entry[j] \in EntryType, Handles(c, j),
         \A t \in Slots : AtWork(t, j) => entry[j].state = "active",
         status'[j] = "completed" <=> status[j] = "completed",
         status'[j] = "running" => status[j] = "running",
         RowLasts(j)', FirstLife(j)', Open(j)' => Driven(j)',
         status'[j] = "queued" /\ entry[j].state = "active" =>
           Ends(j)' \/ (status[j] = "queued" /\ (Ends(j) => Ends(j)'))
  PROVE  DrivenJob(j)'
<1> USE DEF BudgetsFall, Falls
<1>1. EntryLasts(j)'
  <2>1. CASE entry'[j] = entry[j]
    BY <2>1 DEF EntryLasts, Lost, DrivenJob, EntryType
  <2>2. CASE entry'[j] = NoEntry
    BY <2>2 DEF EntryLasts, LiveStates, NoEntry
  <2>3. CASE entry'[j] = FreshEntry
    <3>1. entry'[j].state = "waiting" /\ entry'[j].made = 0 /\ entry'[j].stalls = 0
      BY <2>3 DEF FreshEntry, NoEntry
    <3> QED
      BY <3>1 DEF EntryLasts, Lost, FewLeft
  <2> QED
    BY <2>1, <2>2, <2>3 DEF Handles
<1>2. ASSUME NEW t \in Slots, AtWork(t, j)' PROVE AttemptLasts(t, j)'
  <2>1. /\ AtWork(t, j) /\ attempt'[t] = attempt[t] /\ entry[j].state = "active" /\ AttemptLasts(t, j)
        /\ entry'[j] = entry[j]
    BY <1>2 DEF AtWork, Handles, DrivenJob
  <2>2. Began(t) /\ status'[j] = "queued" => Ends(j)'
    BY <2>1 DEF AttemptLasts
  <2> QED
    BY <2>1, <2>2 DEF AttemptLasts, Began, EntryType
<1> QED
  BY <1>1, <1>2 DEF DrivenJob, AttemptLasts

(* What every handler's step on a job has in common.                           *)
Handled(c, j) ==
  /\ TypeOK /\ RecordInv /\ BudgetsFall /\ FewLeft /\ Aside
  /\ DrivenJob(j) /\ NoCancel(c) /\ \A t \in Slots : AtWork(t, j) => entry[j].state = "active"

(* What every handler's step finds: the types, and what it leaves of the       *)
(* status.                                                                     *)
LEMMA HandledFacts ==
  ASSUME NEW c \in Commands, NEW j \in Jobs, Handled(c, j)
  PROVE  /\ entry[j] \in EntryType /\ status \in [Jobs -> Statuses] /\ DOMAIN outcome = Jobs
         /\ entry \in [Jobs -> EntryType] /\ CommandTypes /\ UNCHANGED attempt
         /\ RowLasts(j) /\ FirstLife(j)
         /\ status'[j] = "completed" <=> status[j] = "completed"
         /\ status'[j] = "running" => status[j] = "running"
         /\ cmd[c].pc \notin {"new", "done"} => Target(c) \in Jobs
BY TargetType DEF Handled, TypeOK, RowTypes, QueueTypes, EntryType, Aside, DrivenJob

(* The row's part of the invariant, as long as the row stays as it is.         *)
LEMMA SameRow ==
  ASSUME NEW j \in Jobs, RowLasts(j), status'[j] = status[j], outcome'[j] = outcome[j],
         status[j] = "absent" => entry'[j].state = "none"
  PROVE  RowLasts(j)'
BY DEF RowLasts

(* createJob: a new row has the handler that will add its entry.               *)
LEMMA CreateLasts ==
  ASSUME NEW c \in Commands, NEW j \in Jobs, Handled(c, j), CreateJob(c, j)
  PROVE  Handles(c, j) /\ DrivenJob(j)'
<1>1. /\ cmd'[c].pc = "createAdd" /\ cmd'[c].job = j /\ \A d \in Commands \ {c} : cmd'[d] = cmd[d]
      /\ cmd[c].pc = "new"
  BY DEF CreateJob, CommandTypes, CommandType, Handled, TypeOK
<1>2. /\ status[j] = "absent" /\ status'[j] = "queued" /\ outcome'[j] = "PENDING" /\ entry' = entry
      /\ \A k \in Jobs \ {j} : status'[k] = status[k] /\ outcome'[k] = outcome[k]
  BY HandledFacts DEF CreateJob, Handled, TypeOK, RowTypes
<1>3. Handles(c, j)
  BY <1>1, <1>2, HandledFacts DEF Handles
<1>4. entry[j].state = "none" /\ \A t \in Slots : ~AtWork(t, j)'
  BY <1>2, <1>3 DEF Handled, DrivenJob, RowLasts, Handles, AtWork
<1>5. \A d \in Commands : Busy(d, j)' => d = c
  BY <1>1, <1>2 DEF Busy, Handled, RecordInv, Target
<1>6. ~AddFailed(j)' /\ \A d \in Commands : Does(d, j, "recordFailed")' => FALSE
  BY <1>1, <1>5 DEF AddFailed, Does, Busy
<1>7. NeverFailed(j)'
  <2>1. \A d \in Commands : ~Does(d, j, "purge")' /\ ~Does(d, j, "record")'
    BY <1>1, <1>5 DEF Does, Busy
  <2> QED
    BY <1>1, <1>2, <1>4, <1>5, <2>1 DEF NeverFailed, Enqueued
<1>8. FirstLife(j)'
  BY <1>6, <1>7 DEF FirstLife
<1>9. Driven(j)' /\ RowLasts(j)'
  BY <1>1, <1>2, <1>4 DEF Driven, Busy, Adding, RowLasts
<1> QED
  BY <1>2, <1>3, <1>4, <1>8, <1>9, HandledFacts, HandlerKeeps DEF Handled

(* resetFailedOrCancelled: an open row again, with a handler that will remove  *)
(* the entry.                                                                  *)
LEMMA ResetLasts ==
  ASSUME NEW c \in Commands, NEW j \in Jobs, Handled(c, j), ResetJob(c), j = Target(c), Resettable(j)
  PROVE  Handles(c, j) /\ DrivenJob(j)'
<1>1. /\ cmd'[c].pc = "remove" /\ cmd'[c].job = j /\ \A d \in Commands \ {c} : cmd'[d] = cmd[d]
      /\ cmd[c].pc = "effect"
  BY SteppedFields DEF ResetJob, Resets, Handled, TypeOK, Target
<1>2. /\ status[j] = "failed" /\ status'[j] = "queued" /\ UNCHANGED <<entry, outcome>>
      /\ \A k \in Jobs \ {j} : status'[k] = status[k]
  BY HandledFacts DEF ResetJob, Resettable, RowLasts
<1>3. Handles(c, j)
  BY <1>1, <1>2, HandledFacts DEF Handles, Target
<1>4. FirstLife(j)'
  <2>1. ~NeverFailed(j)
    BY <1>2 DEF NeverFailed
  <2>2. budget["redis"] = 0 /\ \A d \in Commands : ~Does(d, j, "recordFailed")
    BY <2>1, HandledFacts DEF FirstLife, AddFailed, Handled, BudgetsFall, Falls
  <2>3. \A d \in Commands : ~Does(d, j, "recordFailed")'
    BY <1>1, <2>2 DEF Does
  <2> QED
    BY <2>2, <2>3 DEF FirstLife, AddFailed, Handled, BudgetsFall, Falls
<1>5. Ends(j)' /\ RowLasts(j)'
  BY <1>1, <1>2, HandledFacts DEF Ends, Does, RowLasts
<1> QED
  BY <1>2, <1>3, <1>4, <1>5, HandledFacts, HandlerKeeps DEF Handled, Driven

(* One handler's record goes from one await of a job to the next, or is done.  *)
Moves(c, j, from, to) ==
  /\ cmd[c].pc = from /\ cmd[c].job = j
  /\ cmd'[c].pc = to /\ (to # "done" => cmd'[c].job = j)
  /\ \A d \in Commands \ {c} : cmd'[d] = cmd[d]

(* A step of a handler is a move of its record.                                *)
LEMMA StepMoves ==
  ASSUME TypeOK, NEW c \in Commands, NEW j, j = Target(c), NEW to, Step(c, to) \/ (to = "done" /\ Finish(c))
  PROVE  Moves(c, j, cmd[c].pc, to)
<1>1. CASE Step(c, to)
  BY <1>1, SteppedFields DEF Moves, Target, TypeOK
<1>2. CASE to = "done" /\ Finish(c)
  BY <1>2, Finished DEF Moves, Target
<1> QED
  BY <1>1, <1>2

(* Which handlers are where afterwards.                                        *)
LEMMA MovesDo ==
  ASSUME NEW c \in Commands, NEW j \in Jobs, NEW from, NEW to, Moves(c, j, from, to)
  PROVE  /\ \A d \in Commands, pc \in {"remove", "fail", "recordFailed", "record", "purge"} :
              Does(d, j, pc)' <=> (d = c /\ pc = to) \/ (d # c /\ Does(d, j, pc))
         /\ \A d \in Commands :
              Busy(d, j)' <=> \/ d = c /\ to \notin {"new", "effect", "announce", "done"}
                              \/ d # c /\ Busy(d, j)
         /\ \A d \in Commands \ {c} : Adding(d)' <=> Adding(d)
         /\ Adding(c)' <=> to \in {"createAdd", "retryAdd", "reconcileAdd"}
         /\ Ends(j)' <=> \/ to \in {"remove", "fail"}
                          \/ \E d \in Commands \ {c} : Does(d, j, "remove") \/ Does(d, j, "fail")
         /\ AddFailed(j)' <=> to = "recordFailed" \/ \E d \in Commands \ {c} : Does(d, j, "recordFailed")
BY DEF Moves, Does, Busy, Adding, Ends, AddFailed

(* The removal of a retry: either the handler adds a new entry next, or it     *)
(* fails the job.                                                              *)
LEMMA RemoveLasts ==
  ASSUME NEW c \in Commands, NEW j \in Jobs, Handled(c, j), j = Target(c), cmd[c].pc = "remove",
         RemoveForRetry(c) \/ RemoveFails(c)
  PROVE  Handles(c, j) /\ DrivenJob(j)'
<1>1. \E to \in {"fail", "retryAdd"} :
        Moves(c, j, "remove", to) /\ (to = "retryAdd" => Delete(j) /\ ~Locked(j))
  BY StepMoves DEF RemoveForRetry, RemoveFails, Handled, Locked
<1>2. PICK to \in {"fail", "retryAdd"} :
        Moves(c, j, "remove", to) /\ (to = "retryAdd" => Delete(j) /\ ~Locked(j))
  BY <1>1
<1>3. UNCHANGED <<status, outcome>> /\ (entry' = entry \/ (~Locked(j) /\ Delete(j)))
  BY DEF RemoveForRetry, RemoveFails, rows
<1>4. Handles(c, j)
  BY <1>2, <1>3, HandledFacts DEF Handles, Moves, Delete, Locked
<1>5. ~NeverFailed(j)
  BY DEF NeverFailed, Busy, Target
<1>6. FirstLife(j)'
  <2>1. budget["redis"] = 0 /\ \A d \in Commands : ~Does(d, j, "recordFailed")
    BY <1>5, HandledFacts DEF FirstLife, AddFailed, Handled, BudgetsFall, Falls
  <2> QED
    BY <1>2, <2>1, MovesDo DEF FirstLife, AddFailed, Handled, BudgetsFall, Falls
<1>7. RowLasts(j)'
  BY <1>3, HandledFacts, SameRow DEF RowLasts, Delete, NoEntry
<1>8. Ends(j)' \/ (entry'[j].state = "none" /\ entry[j].state # "active" /\ Busy(c, j)' /\ Adding(c)')
  BY <1>2, HandledFacts, MovesDo DEF Delete, NoEntry, Locked
<1> QED
  BY <1>3, <1>4, <1>6, <1>7, <1>8, HandledFacts, HandlerKeeps DEF Handled, Driven

(* reconcile of queued looks at the entry: it records the live one, adds one,  *)
(* or purges a finished one.                                                   *)
LEMMA InspectLasts ==
  ASSUME NEW c \in Commands, NEW j \in Jobs, Handled(c, j), j = Target(c), InspectEntry(c)
  PROVE  Handles(c, j) /\ DrivenJob(j)'
<1>1. PICK to \in {"record", "reconcileAdd", "purge"} :
        /\ Moves(c, j, "effect", to)
        /\ to = "record" => entry[j].state \in LiveStates
        /\ to = "reconcileAdd" => entry[j].state = "none"
        /\ to = "purge" => entry[j].state \notin LiveStates \cup {"none"}
  BY StepMoves DEF InspectEntry, Effect, Handled
<1>2. UNCHANGED <<status, outcome, entry>>
  BY DEF InspectEntry, rows
<1>3. Handles(c, j)
  BY <1>1, <1>2, HandledFacts DEF Handles, Moves
<1>4. (Ends(j)' <=> Ends(j)) /\ (AddFailed(j)' <=> AddFailed(j))
  BY <1>1, MovesDo DEF Ends, AddFailed, Does, Moves
<1>5. ASSUME NeverFailed(j) PROVE NeverFailed(j)'
  <2>1. \A t \in Slots : AtWork(t, j)' => ~attempt'[t].discarded
    BY <1>3, <1>5 DEF NeverFailed, Handles, AtWork
  <2>2. \A d \in Commands : Busy(d, j)' => cmd'[d].pc \notin {"remove", "retryAdd", "fail"}
    BY <1>1, <1>5, MovesDo DEF NeverFailed, Moves
  <2>3. entry[j].state \in LiveStates \cup {"none", "failed", "completed"}
    BY HandledFacts DEF EntryType, EntryStates, LiveStates
  <2>4. ASSUME status[j] \notin {"absent", "completed"}
        PROVE  /\ \A d \in Commands : ~Does(d, j, "purge")'
               /\ Enqueued(j)' => entry[j].state # "none"
               /\ entry[j].state \notin {"failed", "completed"}
    BY <1>1, <1>2, <1>5, <2>3, <2>4, MovesDo DEF NeverFailed, Enqueued, LiveStates
  <2>5. status' = status /\ entry' = entry /\ status[j] # "failed"
    BY <1>2, <1>5 DEF NeverFailed
  <2> QED
    BY <2>1, <2>2, <2>4, <2>5 DEF NeverFailed
<1>6. FirstLife(j)'
  BY <1>1, <1>4, <1>5, MovesDo, HandledFacts DEF FirstLife, Handled, BudgetsFall, Falls
<1>7. Driven(j) => Driven(j)'
  BY <1>1, <1>2, <1>4, MovesDo DEF Driven, Recordable, Busy, Moves
<1>8. RowLasts(j)'
  BY <1>2, HandledFacts, SameRow DEF RowLasts
<1> QED
  BY <1>2, <1>3, <1>4, <1>6, <1>7, <1>8, HandledFacts, HandlerKeeps DEF Handled, DrivenJob, Open

(* reconcile purges a finished entry and adds a new one next.                  *)
LEMMA PurgeLasts ==
  ASSUME NEW c \in Commands, NEW j \in Jobs, Handled(c, j), j = Target(c), PurgeEntry(c)
  PROVE  Handles(c, j) /\ DrivenJob(j)'
<1>1. PICK to \in {"reconcileAdd", "done"} :
        /\ Moves(c, j, "purge", to)
        /\ to = "done" => Locked(j) /\ entry' = entry
        /\ to = "reconcileAdd" => ~Locked(j) /\ Delete(j)
  BY StepMoves DEF PurgeEntry, Handled
<1>2. UNCHANGED <<status, outcome>>
  BY DEF PurgeEntry, rows
<1>3. Handles(c, j)
  BY <1>1, <1>2, HandledFacts DEF Handles, Moves, Delete, Locked
<1>4. (Ends(j)' <=> Ends(j)) /\ (AddFailed(j)' <=> AddFailed(j))
  BY <1>1, MovesDo DEF Ends, AddFailed, Does, Moves
<1>5. ASSUME NeverFailed(j) PROVE NeverFailed(j)'
  <2>1. \A t \in Slots : AtWork(t, j)' => ~attempt'[t].discarded
    BY <1>3, <1>5 DEF NeverFailed, Handles, AtWork
  <2>2. \A d \in Commands : Busy(d, j)' => cmd'[d].pc \notin {"remove", "retryAdd", "fail"}
    BY <1>1, <1>5, MovesDo DEF NeverFailed, Moves
  <2>3. status[j] = "completed"
    <3>1. status[j] # "absent"
      BY <1>1 DEF Handled, RecordInv, Moves, Target
    <3> QED
      BY <1>1, <1>5, <3>1 DEF NeverFailed, Moves, Does
  <2> QED
    BY <1>2, <2>1, <2>2, <2>3 DEF NeverFailed
<1>6. FirstLife(j)'
  BY <1>1, <1>4, <1>5, MovesDo, HandledFacts DEF FirstLife, Handled, BudgetsFall, Falls
<1>7. Driven(j)'
  BY <1>1, MovesDo, HandledFacts DEF Driven, Locked, Delete, NoEntry, LiveStates
<1>8. RowLasts(j)'
  BY <1>1, <1>2, HandledFacts, SameRow DEF RowLasts, Delete, NoEntry
<1> QED
  BY <1>2, <1>3, <1>4, <1>6, <1>7, <1>8, HandledFacts, HandlerKeeps DEF Handled

(* The purge fails: only a completed job has a finished entry while the one    *)
(* fault of Redis is left.                                                     *)
LEMMA PurgeFailsLasts ==
  ASSUME NEW c \in Commands, NEW j \in Jobs, Handled(c, j), j = Target(c),
         cmd[c].pc = "purge", RemoveFails(c)
  PROVE  Handles(c, j) /\ DrivenJob(j)'
<1>1. Moves(c, j, "purge", "done")
  BY StepMoves DEF RemoveFails, Handled
<1>2. /\ UNCHANGED <<status, outcome>> /\ (entry' = entry \/ (~Locked(j) /\ Delete(j)))
      /\ budget["redis"] > 0 /\ budget'["redis"] = 0
  BY DEF RemoveFails, rows, Spend, Handled, FewLeft, TypeOK, FaultKinds
<1>3. Handles(c, j)
  BY <1>1, <1>2, HandledFacts DEF Handles, Moves, Delete, Locked
<1>4. ~AddFailed(j) /\ NeverFailed(j) /\ status[j] = "completed"
  <2>1. status[j] # "absent"
    BY <1>1 DEF Handled, RecordInv, Moves, Target
  <2> QED
    BY <1>1, <1>2, <2>1, HandledFacts DEF FirstLife, NeverFailed, Moves, Does
<1>5. FirstLife(j)'
  BY <1>1, <1>2, <1>4, MovesDo DEF FirstLife, AddFailed
<1>6. RowLasts(j)'
  BY <1>2, HandledFacts, SameRow DEF RowLasts, Delete, NoEntry
<1> QED
  BY <1>2, <1>3, <1>4, <1>5, <1>6, HandledFacts, HandlerKeeps DEF Handled, Open

(* An add leaves the job with a live entry, its own or the one that was there. *)
LEMMA AddLasts ==
  ASSUME NEW c \in Commands, NEW j \in Jobs, Handled(c, j), j = Target(c), AddEntry(c)
  PROVE  Handles(c, j) /\ DrivenJob(j)'
<1>1. PICK from \in {"createAdd", "retryAdd", "reconcileAdd"}, to \in {"record", "done"} :
        Moves(c, j, from, to) /\ (from = "retryAdd" <=> to = "done")
  BY StepMoves DEF AddEntry, Adding, Handled
<1>2. UNCHANGED <<status, outcome>> /\ Add(j)
  BY DEF AddEntry, rows
<1>3. /\ \A k \in Jobs \ {j} : entry'[k] = entry[k]
      /\ \/ entry[j].state = "none" /\ entry'[j] = FreshEntry /\ entry'[j].state = "waiting"
         \/ entry[j].state # "none" /\ entry'[j] = entry[j]
  BY <1>2, HandledFacts DEF Add, FreshEntry, NoEntry
<1>4. Handles(c, j)
  BY <1>1, <1>2, <1>3, HandledFacts DEF Handles, Moves
<1>5. (Ends(j)' <=> Ends(j)) /\ (AddFailed(j)' <=> AddFailed(j))
  BY <1>1, MovesDo DEF Ends, AddFailed, Does, Moves
<1>6. ASSUME NeverFailed(j) PROVE NeverFailed(j)'
  <2>1. \A t \in Slots : AtWork(t, j)' => ~attempt'[t].discarded
    BY <1>4, <1>6 DEF NeverFailed, Handles, AtWork
  <2>2. \A d \in Commands : Busy(d, j)' => cmd'[d].pc \notin {"remove", "retryAdd", "fail"}
    BY <1>1, <1>6, MovesDo DEF NeverFailed, Moves
  <2>3. \A d \in Commands : Does(d, j, "purge")' <=> Does(d, j, "purge")
    BY <1>1, MovesDo DEF Does, Moves
  <2> QED
    BY <1>2, <1>3, <1>6, <2>1, <2>2, <2>3 DEF NeverFailed
<1>7. FirstLife(j)'
  BY <1>1, <1>5, <1>6, MovesDo, HandledFacts DEF FirstLife, Handled, BudgetsFall, Falls
<1>8. Driven(j) => Driven(j)'
  BY <1>2, <1>3, <1>5 DEF Driven, Recordable, LiveStates
<1>9. RowLasts(j)'
  <2>1. status[j] # "absent"
    BY <1>1 DEF Handled, RecordInv, Moves, Target
  <2> QED
    BY <1>2, <2>1, HandledFacts, SameRow
<1> QED
  BY <1>2, <1>4, <1>5, <1>7, <1>8, <1>9, HandledFacts, HandlerKeeps DEF Handled, DrivenJob, Open

(* An add fails: the create will record FAILED, the reconcile and the retry    *)
(* will fail the job.                                                          *)
LEMMA AddFailsLasts ==
  ASSUME NEW c \in Commands, NEW j \in Jobs, Handled(c, j), j = Target(c), AddFails(c)
  PROVE  Handles(c, j) /\ DrivenJob(j)'
<1>1. PICK from \in {"createAdd", "retryAdd", "reconcileAdd"}, to \in {"recordFailed", "fail"} :
        Moves(c, j, from, to) /\ (from = "createAdd" <=> to = "recordFailed")
  BY StepMoves DEF AddFails, Adding, Handled
<1>2. /\ UNCHANGED <<status, outcome>> /\ (entry' = entry \/ Add(j))
      /\ budget["redis"] > 0 /\ budget'["redis"] = 0
  BY DEF AddFails, rows, Spend, Handled, FewLeft, TypeOK, FaultKinds
<1>3. /\ \A k \in Jobs \ {j} : entry'[k] = entry[k]
      /\ \/ entry[j].state = "none" /\ entry'[j] = FreshEntry /\ entry'[j].state = "waiting"
         \/ entry'[j] = entry[j]
  BY <1>2, HandledFacts DEF Add, FreshEntry, NoEntry
<1>4. Handles(c, j)
  BY <1>1, <1>2, <1>3, HandledFacts DEF Handles, Moves
<1>5. ~AddFailed(j) /\ NeverFailed(j)
  BY <1>2, HandledFacts DEF FirstLife
<1>6. status[j] # "absent"
  BY <1>1 DEF Handled, RecordInv, Moves, Target
<1>7. RowLasts(j)'
  BY <1>2, <1>6, HandledFacts, SameRow
<1>8. CASE to = "fail"
  <2>1. FirstLife(j)'
    BY <1>1, <1>2, <1>5, <1>8, MovesDo DEF FirstLife, AddFailed
  <2>2. Ends(j)'
    BY <1>1, <1>8, MovesDo
  <2> QED
    BY <1>2, <1>4, <1>7, <2>1, <2>2, HandledFacts, HandlerKeeps DEF Handled, Driven
<1>9. CASE to = "recordFailed"
  <2>1. NeverFailed(j)'
    <3>1. \A t \in Slots : AtWork(t, j)' => ~attempt'[t].discarded
      BY <1>4, <1>5 DEF NeverFailed, Handles, AtWork
    <3>2. \A d \in Commands : Busy(d, j)' => cmd'[d].pc \notin {"remove", "retryAdd", "fail"}
      BY <1>1, <1>5, <1>9, MovesDo DEF NeverFailed, Moves
    <3>3. /\ \A d \in Commands : Does(d, j, "purge")' <=> Does(d, j, "purge")
          /\ \A d \in Commands : Does(d, j, "record")' <=> Does(d, j, "record")
      BY <1>1, <1>9, MovesDo DEF Does, Moves
    <3> QED
      BY <1>2, <1>3, <1>5, <3>1, <3>2, <3>3 DEF NeverFailed, Enqueued
  <2>2. FirstLife(j)'
    <3>1. \A d \in Commands : Does(d, j, "recordFailed")' => d = c
      BY <1>1, <1>5, MovesDo DEF AddFailed
    <3> QED
      BY <1>2, <2>1, <3>1 DEF FirstLife
  <2>3. (Ends(j)' <=> Ends(j)) /\ AddFailed(j)'
    BY <1>1, <1>9, MovesDo DEF Ends, Does, Moves
  <2>4. ASSUME Open(j) PROVE Driven(j)'
    <3>1. entry[j].state \in LiveStates \cup {"none"}
      BY <1>5, <2>4, HandledFacts DEF NeverFailed, Open, EntryType, EntryStates, LiveStates
    <3>2. CASE entry[j].state = "none"
      <4>1. outcome[j] # "QUEUED"
        BY <1>5, <2>4, <3>2 DEF NeverFailed, Open, Enqueued
      <4> QED
        BY <1>2, <1>6, <2>3, <4>1, HandledFacts DEF Driven, Recordable, RowLasts
    <3> QED
      BY <1>3, <3>1, <3>2 DEF Driven, LiveStates
  <2> QED
    BY <1>2, <1>4, <1>7, <2>2, <2>3, <2>4, HandledFacts, HandlerKeeps DEF Handled, Open
<1> QED
  BY <1>8, <1>9

(* QUEUED goes on record, and the entry still drives the job.                  *)
LEMMA RecordLasts ==
  ASSUME NEW c \in Commands, NEW j \in Jobs, Handled(c, j), j = Target(c), RecordQueued(c)
  PROVE  Handles(c, j) /\ DrivenJob(j)'
<1>1. Moves(c, j, "record", "done")
  BY StepMoves DEF RecordQueued, Handled
<1>2. /\ UNCHANGED <<status, entry>> /\ outcome'[j] \in {outcome[j], "QUEUED"}
      /\ \A k \in Jobs \ {j} : outcome'[k] = outcome[k]
  BY <1>1, HandledFacts DEF RecordQueued, rows, Moves
<1>3. Handles(c, j)
  BY <1>1, <1>2, HandledFacts DEF Handles, Moves
<1>4. (Ends(j)' <=> Ends(j)) /\ (AddFailed(j)' <=> AddFailed(j)) /\ Enqueued(j)
  BY <1>1, MovesDo DEF Ends, AddFailed, Does, Moves, Enqueued
<1>5. ASSUME NeverFailed(j) PROVE NeverFailed(j)'
  <2>1. \A t \in Slots : AtWork(t, j)' => ~attempt'[t].discarded
    BY <1>3, <1>5 DEF NeverFailed, Handles, AtWork
  <2>2. \A d \in Commands : Busy(d, j)' => cmd'[d].pc \notin {"remove", "retryAdd", "fail"}
    BY <1>1, <1>5, MovesDo DEF NeverFailed, Moves
  <2>3. \A d \in Commands : Does(d, j, "purge")' <=> Does(d, j, "purge")
    BY <1>1, MovesDo DEF Does, Moves
  <2> QED
    BY <1>2, <1>4, <1>5, <2>1, <2>2, <2>3 DEF NeverFailed
<1>6. FirstLife(j)'
  BY <1>1, <1>4, <1>5, MovesDo, HandledFacts DEF FirstLife, Handled, BudgetsFall, Falls
<1>7. ASSUME Open(j), Driven(j) PROVE Driven(j)'
  <2>1. AddFailed(j) => entry[j].state \in LiveStates
    BY <1>4, <1>7, HandledFacts DEF FirstLife, NeverFailed, Open, EntryType, EntryStates, LiveStates
  <2>2. \A d \in Commands : Busy(d, j) /\ Adding(d) => (Busy(d, j) /\ Adding(d))'
    BY <1>1, MovesDo DEF Moves, Adding
  <2> QED
    BY <1>2, <1>4, <1>7, <2>1, <2>2 DEF Driven
<1>8. RowLasts(j)'
  BY <1>2, HandledFacts DEF RowLasts
<1> QED
  BY <1>2, <1>3, <1>4, <1>6, <1>7, <1>8, HandledFacts, HandlerKeeps DEF Handled, DrivenJob, Open

(* FAILED goes on record and fails the job, or the record refuses it as the    *)
(* job runs.                                                                   *)
LEMMA RecordFailedLasts ==
  ASSUME NEW c \in Commands, NEW j \in Jobs, Handled(c, j), j = Target(c), RecordFailed(c)
  PROVE  Handles(c, j) /\ DrivenJob(j)'
<1>1. PICK to \in {"fail", "done"} :
        Moves(c, j, "recordFailed", to) /\ (to = "done" => UNCHANGED outcome /\ ~Recordable(j, "FAILED"))
  BY StepMoves DEF RecordFailed, Handled
<1>2. /\ UNCHANGED <<status, entry>> /\ outcome'[j] \in {outcome[j], "FAILED"}
      /\ \A k \in Jobs \ {j} : outcome'[k] = outcome[k]
  BY <1>1, HandledFacts DEF RecordFailed, rows, Moves
<1>3. Handles(c, j)
  BY <1>1, <1>2, HandledFacts DEF Handles, Moves
<1>4. AddFailed(j) /\ NeverFailed(j) /\ budget["redis"] = 0
  BY <1>1, HandledFacts DEF AddFailed, Does, Moves, FirstLife, Handled, BudgetsFall, Falls
<1>5. ~AddFailed(j)'
  BY <1>1, MovesDo, HandledFacts DEF FirstLife, Does, Moves
<1>6. FirstLife(j)'
  BY <1>4, <1>5 DEF FirstLife, AddFailed, Handled, BudgetsFall, Falls
<1>7. (Ends(j) => Ends(j)') /\ (to = "fail" => Ends(j)')
  BY <1>1, MovesDo DEF Ends, Does, Moves
<1>8. RowLasts(j)'
  BY <1>2, HandledFacts DEF RowLasts
<1>9. ASSUME Open(j), to = "done" PROVE Driven(j)'
  <2>1. outcome[j] = "QUEUED"
    BY <1>1, <1>9, HandledFacts DEF RowLasts, Recordable, Open
  <2>2. entry[j].state \in LiveStates
    BY <1>4, <1>9, <2>1, HandledFacts DEF NeverFailed, Enqueued, Open, EntryType, EntryStates, LiveStates
  <2> QED
    BY <1>2, <2>2 DEF Driven
<1> QED
  BY <1>1, <1>2, <1>3, <1>6, <1>7, <1>8, <1>9, HandledFacts, HandlerKeeps DEF Handled, Open, Driven

(* The handler of a retry fails the job: it is open no more.                   *)
LEMMA FailLasts ==
  ASSUME NEW c \in Commands, NEW j \in Jobs, Handled(c, j), j = Target(c), FailJob(c)
  PROVE  Handles(c, j) /\ DrivenJob(j)'
<1>1. Moves(c, j, "fail", "done")
  BY StepMoves DEF FailJob, Handled
<1>2. /\ UNCHANGED <<outcome, entry>> /\ \A k \in Jobs \ {j} : status'[k] = status[k]
      /\ \/ status[j] \in {"queued", "running"} /\ status'[j] = "failed"
         \/ status[j] \notin {"queued", "running"} /\ status'[j] = status[j]
  BY <1>1, HandledFacts DEF FailJob, SetJobStatus, SourcesOf, Moves
<1>3. Handles(c, j)
  BY <1>1, <1>2, HandledFacts DEF Handles, Moves
<1>4. FirstLife(j)'
  <2>1. ~NeverFailed(j)
    BY <1>1 DEF NeverFailed, Busy, Moves
  <2>2. budget["redis"] = 0 /\ \A d \in Commands : ~Does(d, j, "recordFailed")
    BY <2>1, HandledFacts DEF FirstLife, AddFailed, Handled, BudgetsFall, Falls
  <2> QED
    BY <1>1, <2>2, MovesDo DEF FirstLife, AddFailed, Handled, BudgetsFall, Falls
<1>5. RowLasts(j)'
  BY <1>2, HandledFacts DEF RowLasts
<1> QED
  BY <1>2, <1>3, <1>4, <1>5, HandledFacts, HandlerKeeps DEF Handled, Open

-----------------------------------------------------------------------------
(* All together.                                                               *)

(* A step spends one fault or none.                                            *)
LEMMA StepSpends ==
  ASSUME [Next]_vars
  PROVE  budget' = budget \/ \E f \in FaultKinds : Spend(f)
<1>1. ASSUME NEW s \in Slots, Work(s) PROVE budget' = budget
  BY <1>1
  DEF Work, ReadState, Claim, RunEnds, CountResults, MarkCompleted, VerifyCompleted, ListCallbacks,
      Announce, Succeed, Catch, MoveToFailed, CheckPage, PersistPage
<1>2. ASSUME NEW s \in Slots, WorkerFault(s) PROVE budget' = budget \/ \E f \in FaultKinds : Spend(f)
  BY <1>2
  DEF WorkerFault, SetupFails, WorkerDbError, ClaimReplyLost, WorkerRedisError, WorkerCrash, LoseLock,
      PageError, PageTimeout, FaultKinds
<1>3. ASSUME NEW c \in Commands, Send(c) \/ Handle(c) PROVE budget' = budget
  BY <1>3
  DEF Send, CreateJob, ReadJob, Handle, Cancel, CancelRemoves, ResetJob, Refuse, RemoveForRetry, InspectEntry,
      PurgeEntry, AddEntry, RecordQueued, RecordFailed, FailJob, ReconcileCallbacks, ReconcileAnnounces
<1>4. ASSUME NEW c \in Commands, ApiFault(c) PROVE \E f \in FaultKinds : Spend(f)
  BY <1>4 DEF ApiFault, RemoveFails, AddFails, ApiCrash, FaultKinds
<1>5. CASE \/ \E s \in Slots, j \in Jobs : Take(s, j)
           \/ \E j \in Jobs : RecoverStalled(j) \/ Promote(j)
           \/ \E o \in orphans : OrphanPersists(o)
           \/ UNCHANGED vars
  BY <1>5 DEF Take, RecoverStalled, Promote, OrphanPersists, vars
<1> QED
  BY <1>1, <1>2, <1>3, <1>4, <1>5 DEF Next

(* The faults left stay few.                                                   *)
LEMMA FewStay ==
  ASSUME TypeOK, [Next]_vars, FewLeft
  PROVE  BudgetsFall /\ FewLeft'
<1>1. BudgetsFall
  BY StepSpends, SpendFalls
<1>2. budget'["apiCrash"] = 0
  BY StepSpends, BudgetFalls DEF FewLeft, FaultKinds
<1> QED
  BY <1>1, <1>2 DEF FewLeft, BudgetsFall, Falls

(* No handler cancels.                                                         *)
LEMMA NeverCancels ==
  ASSUME TypeOK, "cancel" \notin Kinds, \A c \in Commands : NoCancel(c), [Next]_vars, NEW d \in Commands
  PROVE  NoCancel(d)'
<1> USE DEF TypeOK, NoCancel
<1>1. ASSUME NEW c \in Commands, NEW j \in Jobs, CreateJob(c, j) PROVE NoCancel(d)'
  BY <1>1 DEF CreateJob, CommandTypes, CommandType
<1>2. ASSUME NEW c \in Commands, NEW j \in Jobs, NEW kind \in Kinds, ReadJob(c, j, kind) PROVE NoCancel(d)'
  BY <1>2 DEF ReadJob, CommandTypes, CommandType
<1>3. ASSUME NEW c \in Commands, Handle(c) PROVE NoCancel(d)'
  <2>1. CASE ReconcileCallbacks(c) \/ ReconcileAnnounces(c)
    BY <1>3, <2>1, Finished DEF ReconcileCallbacks, ReconcileAnnounces, CommandTypes, CommandType
  <2>2. CASE ResetJob(c) \/ Refuse(c) \/ RemoveForRetry(c) \/ InspectEntry(c) \/ PurgeEntry(c)
    BY <2>2, Stepped, Finished DEF ResetJob, Refuse, RemoveForRetry, InspectEntry, PurgeEntry
  <2>3. CASE AddEntry(c) \/ RecordQueued(c) \/ RecordFailed(c) \/ FailJob(c)
    BY <2>3, Stepped, Finished DEF AddEntry, RecordQueued, RecordFailed, FailJob
  <2>4. ~Cancel(c) /\ ~CancelRemoves(c)
    BY DEF Cancel, CancelRemoves, Effect
  <2> QED
    BY <1>3, <2>1, <2>2, <2>3, <2>4 DEF Handle
<1>4. ASSUME NEW c \in Commands, ApiFault(c) PROVE NoCancel(d)'
  BY <1>4, Stepped, Finished DEF ApiFault, RemoveFails, AddFails, ApiCrash
<1>5. CASE UNCHANGED <<outcome, cmd>>
  BY <1>5
<1> QED
  BY <1>1, <1>2, <1>3, <1>4, <1>5, WorkersOnly DEF Send

(* A handler that is deciding or announcing has nothing to do to a job: its    *)
(* step leaves every job alone.                                                *)
LEMMA NeutralSteps ==
  ASSUME TypeOK, NEW c \in Commands, NEW k \in Jobs,
         UNCHANGED <<status, outcome, entry, attempt>>,
         \A d \in Commands \ {c} : cmd'[d] = cmd[d],
         cmd[c].pc \in {"new", "effect", "announce"}, cmd'[c].pc \in {"effect", "announce", "done"}
  PROVE  Untouched(k)
BY DEF Untouched, Busy, AtWork

(* So does reading the job.                                                    *)
LEMMA ReadLasts ==
  ASSUME TypeOK, NEW c \in Commands, NEW k \in Jobs, NEW j \in Jobs, NEW kind \in Kinds, ReadJob(c, j, kind)
  PROVE  Untouched(k)
<1>1. /\ UNCHANGED <<status, outcome, entry, attempt>>
      /\ \A d \in Commands \ {c} : cmd'[d] = cmd[d]
      /\ cmd[c].pc = "new" /\ cmd'[c].pc = "effect"
  BY DEF ReadJob, TypeOK, CommandTypes, CommandType, rows
<1> QED
  BY <1>1, NeutralSteps

(* So does an answer without effect.                                           *)
LEMMA RefuseLasts ==
  ASSUME TypeOK, NEW c \in Commands, NEW k \in Jobs,
         Refuse(c) \/ (ResetJob(c) /\ ~Resettable(Target(c)))
  PROVE  Untouched(k)
<1>1. /\ UNCHANGED <<status, outcome, entry, attempt>>
      /\ cmd[c].pc = "effect"
      /\ Finish(c)
  BY DEF Refuse, ResetJob, Resets, rows
<1>2. cmd'[c].pc = "done" /\ \A d \in Commands \ {c} : cmd'[d] = cmd[d]
  BY <1>1, Finished
<1> QED
  BY <1>1, <1>2, NeutralSteps

(* So does the announcing of a reconcile.                                      *)
LEMMA ReconcileLasts ==
  ASSUME TypeOK, NEW c \in Commands, NEW k \in Jobs,
         ReconcileCallbacks(c) \/ ReconcileAnnounces(c)
  PROVE  Untouched(k)
<1>1. CASE ReconcileCallbacks(c)
  <2>1. /\ UNCHANGED <<status, outcome, entry, attempt>>
        /\ \A d \in Commands \ {c} : cmd'[d] = cmd[d]
        /\ cmd[c].pc = "effect" /\ cmd'[c].pc = "announce"
    BY <1>1 DEF ReconcileCallbacks, Effect, TypeOK, CommandTypes, CommandType, rows
  <2> QED
    BY <2>1, NeutralSteps
<1>2. CASE ReconcileAnnounces(c)
  <2>1. UNCHANGED <<status, outcome, entry, attempt>> /\ cmd[c].pc = "announce"
    BY <1>2 DEF ReconcileAnnounces, rows
  <2>2. /\ \A d \in Commands \ {c} : cmd'[d] = cmd[d]
        /\ cmd'[c].pc \in {"announce", "done"}
    BY <1>2, <2>1, Finished DEF ReconcileAnnounces, TypeOK, CommandTypes, CommandType
  <2> QED
    BY <2>1, <2>2, NeutralSteps
<1> QED
  BY <1>1, <1>2

(* One step of the model, seen from one job.                                   *)
LEMMA DrivenStep ==
  ASSUME IInv, CalmInv, RecordInv, DrivenInv, "cancel" \notin Kinds, [Next]_vars, NEW j \in Jobs
  PROVE  DrivenJob(j)'
<1> USE DEF IInv
<1>0. /\ TypeOK /\ Announcers /\ BudgetsFall /\ FewLeft /\ DrivenJob(j) /\ entry[j] \in EntryType
      /\ status[j] \in Statuses /\ \A t \in Slots : SlotInv(t)
  BY FewStay DEF DrivenInv, CalmInv, TypeOK, QueueTypes, RowTypes
<1>1. ASSUME Untouched(j) PROVE DrivenJob(j)'
  BY <1>0, <1>1, UntouchedJob
<1>2. \A s, t \in Slots : attempt[s].pc # "idle" /\ attempt[t].pc # "idle" /\ Job(s) = Job(t) => s = t
  BY <1>0 DEF SlotInv
<1>3. ASSUME NEW s \in Slots, Work(s) \/ WorkerFault(s) PROVE DrivenJob(j)'
  <2>1. Acts(s) /\ UNCHANGED <<outcome, cmd>>
    <3>1. Acts(s)
      BY <1>0, <1>3, WorkActs, FaultActs DEF CalmInv
    <3>2. outcome' = outcome
      BY <1>3
      DEF Work, ReadState, Claim, RunEnds, CountResults, MarkCompleted, VerifyCompleted, ListCallbacks,
          Announce, Succeed, Catch, MoveToFailed, CheckPage, PersistPage, WorkerFault, SetupFails,
          WorkerDbError, ClaimReplyLost, WorkerRedisError, WorkerCrash, LoseLock, PageError, PageTimeout, rows
    <3> QED
      BY <3>1, <3>2 DEF Acts
  <2>2. CASE j # Job(s)
    BY <1>1, <2>1, <2>2 DEF Acts, Untouched, AtWork, SameRows, Job
  <2>3. CASE j = Job(s)
    <3>1. /\ entry[j].state = "active" /\ entry[j].owner = s /\ attempt[s].pc # "idle"
          /\ AtWork(s, j) /\ RowLasts(j)
      BY <1>0, <2>1, <2>3 DEF Acts, SlotInv, AtWork, Job, DrivenJob
    <3>2. Held(s, j) /\ Alone(s, j)
      BY <1>0, <1>2, <2>3, <3>1 DEF Held, Alone, AtWork, Job, RowLasts
    <3>3. Lasts(s, j)
      BY <1>0, <1>3, <3>2, WorkLasts, FaultLasts DEF CalmInv
    <3> QED
      BY <1>0, <2>1, <2>3, <3>1, <3>2, <3>3, SlotStays, SlotLeaves DEF Lasts, Held
  <2> QED
    BY <2>2, <2>3
<1>4. ASSUME NEW k \in Jobs, \/ RecoverStalled(k) \/ Promote(k)
                             \/ \E s \in Slots : Take(s, k)
      PROVE  DrivenJob(j)'
  <2>1. CASE k = j
    BY <1>0, <1>4, <2>1, QueueLasts
  <2>2. CASE k # j
    <3>1. /\ UNCHANGED <<status, outcome, cmd>>
          /\ entry'[j] = entry[j]
      BY <1>4, <2>2 DEF RecoverStalled, Promote, Take, rows, TypeOK, QueueTypes
    <3>2. ASSUME NEW t \in Slots, AtWork(t, j) \/ AtWork(t, j)' PROVE attempt'[t] = attempt[t]
      <4>1. CASE UNCHANGED attempt
        BY <4>1
      <4>2. ASSUME NEW s \in Slots, Take(s, k) PROVE attempt'[t] = attempt[t]
        BY <1>0, <2>2, <3>2, <4>2 DEF Take, AtWork, TypeOK, WorkerTypes, NoAttempt
      <4> QED
        BY <1>4, <4>1, <4>2 DEF RecoverStalled, Promote
    <3> QED
      BY <1>1, <3>1, <3>2 DEF Untouched
  <2> QED
    BY <2>1, <2>2
<1>5. ASSUME NEW c \in Commands, Send(c) \/ Handle(c) \/ ApiFault(c) PROVE DrivenJob(j)'
  <2>1. NoCancel(c) /\ Aside
    BY <1>0, <1>5, CommandAside DEF DrivenInv
  <2>2. \A k \in Jobs : Handled(c, k)
    BY <1>0, <2>1 DEF Handled, SlotInv, AtWork, Job, DrivenInv
  <2>3. ASSUME NEW k \in Jobs, Handles(c, k) /\ DrivenJob(k)' PROVE DrivenJob(j)'
    BY <1>1, <2>3, HandlesOthers
  <2>4. cmd[c].pc \notin {"new", "done"} => Target(c) \in Jobs
    BY <1>0, TargetType DEF TypeOK
  <2>5. CASE Send(c)
    BY <1>0, <1>1, <2>2, <2>3, <2>5, CreateLasts, ReadLasts DEF Send
  <2>6. CASE Handle(c)
    <3>1. ~Cancel(c) /\ ~CancelRemoves(c)
      BY <2>1 DEF Cancel, CancelRemoves, Effect, NoCancel
    <3>2. CASE ResetJob(c)
      <4>1. Target(c) \in Jobs
        BY <2>4, <3>2 DEF ResetJob, Resets
      <4> QED
        BY <1>0, <1>1, <2>2, <2>3, <3>2, <4>1, ResetLasts, RefuseLasts
    <3>3. CASE Refuse(c) \/ ReconcileCallbacks(c) \/ ReconcileAnnounces(c)
      BY <1>0, <1>1, <3>3, RefuseLasts, ReconcileLasts
    <3>4. CASE RemoveForRetry(c) \/ InspectEntry(c) \/ PurgeEntry(c)
      <4>1. Target(c) \in Jobs /\ (RemoveForRetry(c) => cmd[c].pc = "remove")
        BY <2>4, <3>4 DEF RemoveForRetry, InspectEntry, PurgeEntry, Effect
      <4> QED
        BY <2>2, <2>3, <3>4, <4>1, RemoveLasts, InspectLasts, PurgeLasts
    <3>5. CASE AddEntry(c) \/ RecordQueued(c) \/ RecordFailed(c) \/ FailJob(c)
      <4>1. Target(c) \in Jobs
        BY <2>4, <3>5 DEF AddEntry, Adding, RecordQueued, RecordFailed, FailJob
      <4> QED
        BY <2>2, <2>3, <3>5, <4>1, AddLasts, RecordLasts, RecordFailedLasts, FailLasts
    <3> QED
      BY <2>6, <3>1, <3>2, <3>3, <3>4, <3>5 DEF Handle
  <2>7. CASE ApiFault(c)
    <3>1. ~ApiCrash(c)
      BY <1>0 DEF ApiCrash, Spend, FewLeft
    <3>2. CASE AddFails(c)
      BY <2>2, <2>3, <2>4, <3>2, AddFailsLasts DEF AddFails, Adding
    <3>3. CASE RemoveFails(c)
      <4>1. cmd[c].pc \in {"remove", "purge"} /\ Target(c) \in Jobs
        BY <2>1, <2>4, <3>3 DEF RemoveFails, NoCancel
      <4> QED
        BY <2>2, <2>3, <3>3, <4>1, RemoveLasts, PurgeFailsLasts
    <3> QED
      BY <2>7, <3>1, <3>2, <3>3 DEF ApiFault
  <2> QED
    BY <1>5, <2>5, <2>6, <2>7
<1>6. CASE (\E o \in orphans : OrphanPersists(o)) \/ UNCHANGED vars
  <2>1. UNCHANGED vars
    BY <1>6 DEF CalmInv
  <2> QED
    BY <1>1, <2>1 DEF Untouched, vars, rows
<1> QED
  BY <1>3, <1>4, <1>5, <1>6 DEF Next

(* As long as no process of the API dies, no job is cancelled and the faults   *)
(* are few, an open job is never left alone, however many retries and          *)
(* reconciles are under way at once.                                           *)
THEOREM OpenJobDriven == ASSUME FewFaults PROVE Spec => []OpenJobIsDriven
<1>1. Init => DrivenInv
  <2> SUFFICES ASSUME Init PROVE DrivenInv
    OBVIOUS
  <2>1. FewLeft
    BY DEF FewFaults, Calm, Init, FewLeft
  <2>2. \A c \in Commands : cmd[c].pc = "new" /\ NoCancel(c)
    BY DEF Init, NoCancel, IdleCommand
  <2>3. ASSUME NEW j \in Jobs PROVE DrivenJob(j)
    <3>1. status[j] = "absent" /\ entry[j].state = "none" /\ outcome[j] = None
      BY DEF Init, NoEntry
    <3>2. \A c \in Commands : ~Busy(c, j) /\ \A pc \in CommandPcs \ {"new"} : ~Does(c, j, pc)
      BY <2>2 DEF Busy, Does
    <3>3. \A t \in Slots : ~AtWork(t, j)
      BY DEF Init, AtWork, NoAttempt
    <3>4. ~AddFailed(j) /\ NeverFailed(j)
      BY <3>1, <3>2, <3>3, DataAssumption DEF AddFailed, NeverFailed, Enqueued, CommandPcs
    <3> QED
      BY <3>1, <3>2, <3>3, <3>4
      DEF DrivenJob, RowLasts, EntryLasts, AttemptLasts, FirstLife, AddFailed, Open, LiveStates, Busy, Does
  <2> QED
    BY <2>1, <2>2, <2>3 DEF DrivenInv
<1>2. IInv /\ CalmInv /\ RecordInv /\ DrivenInv /\ [Next]_vars => DrivenInv'
  BY DrivenStep, FewStay, NeverCancels DEF DrivenInv, FewFaults, IInv
<1>3. DrivenInv => OpenJobIsDriven
  BY DEF DrivenInv, DrivenJob, Driven, OpenJobIsDriven, Open, Ends, AddFailed, Does, Busy, Adding
<1>4. Calm
  BY DEF FewFaults
<1> QED
  BY <1>1, <1>2, <1>3, <1>4, CalmHolds, IInvHolds, RecordHolds, PTL DEF Spec
=============================================================================

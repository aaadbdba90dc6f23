--------------------------- MODULE CrawlJobsProofs ---------------------------
(* CrawlJobs is type correct and implements JobLifecycle, and so announces and *)
(* completes as JobLifecycle promises, for every set of jobs, pages, slots and *)
(* requests and every budget of faults.                                        *)
EXTENDS CrawlJobs, TLAPS

-----------------------------------------------------------------------------
(* The values the actions write have the right types.                          *)

(* A plan is a sequence of callback ids, whatever is configured.               *)
LEMMA PlanType ==
  ASSUME NEW j, NEW seq \in Seq(Pages)
  PROVE  CompletionPlan(j, seq) \in Seq(CallbackIds)
<1>1. seq \in Seq(CallbackIds)
  BY DEF CallbackIds
<1>2. /\ <<"progress">> \in Seq(CallbackIds)
      /\ <<"complete">> \in Seq(CallbackIds)
      /\ <<>> \in Seq(CallbackIds)
  BY DEF CallbackIds, Summaries
<1> QED
  BY <1>1, <1>2 DEF CompletionPlan

(* The records an entry, an attempt and a handler start from are typed.        *)
LEMMA ConstantTypes ==
  /\ NoEntry \in EntryType
  /\ FreshEntry \in EntryType
  /\ NoAttempt \in AttemptType
  /\ IdleCommand \in CommandType
  /\ DoneCommand \in CommandType
<1>1. NoEntry \in EntryType
  BY DEF NoEntry, EntryType, EntryStates
<1>2. FreshEntry \in EntryType
  BY DEF FreshEntry, NoEntry, EntryType, EntryStates
<1>3. NoAttempt \in AttemptType
  BY DEF NoAttempt, AttemptType, AttemptPcs
<1>4. IdleCommand \in CommandType
  BY DEF IdleCommand, CommandType, CommandPcs, NoProgress, Progress, Statuses
<1>5. DoneCommand \in CommandType
  BY <1>4 DEF DoneCommand, CommandType, CommandPcs
<1> QED
  BY <1>1, <1>2, <1>3, <1>4, <1>5

PageStates == {"todo", "checked", "done", "failed"}
AttemptFits(r) == r \in AttemptType /\ (r.pc # "idle" => r.job \in Jobs)
CommandFits(r) == r \in CommandType /\ (r.pc \notin {"new", "done"} => r.job \in Jobs)

(* Replacing one slot's attempt by a fitting one keeps the workers typed.      *)
LEMMA AttemptStep ==
  ASSUME WorkerTypes, NEW s \in Slots, NEW r, AttemptFits(r),
         attempt' = [attempt EXCEPT ![s] = r],
         page' \in [Slots -> [Pages -> PageStates]], orphans' \subseteq OrphanType
  PROVE  WorkerTypes'
BY DEF WorkerTypes, AttemptFits, PageStates

(* Moving an attempt at work to another working pc keeps the workers typed.    *)
LEMMA GoType ==
  ASSUME WorkerTypes, NEW s \in Slots, NEW pc \in AttemptPcs, attempt[s].pc # "idle", Go(s, pc),
         page' \in [Slots -> [Pages -> PageStates]], orphans' \subseteq OrphanType
  PROVE  WorkerTypes'
<1> DEFINE r == [attempt[s] EXCEPT !.pc = pc]
<1>1. attempt' = [attempt EXCEPT ![s] = r]
  BY DEF Go, WorkerTypes
<1>2. AttemptFits(attempt[s]) /\ attempt[s].job \in Jobs
  BY DEF WorkerTypes, AttemptFits
<1>3. AttemptFits(r)
  BY <1>2 DEF AttemptFits, AttemptType
<1> QED
  BY <1>1, <1>3, AttemptStep

(* So does giving up. *)
LEMMA AbandonType ==
  ASSUME WorkerTypes, NEW s \in Slots, NEW pc \in AttemptPcs, attempt[s].pc # "idle", Abandon(s, pc),
         UNCHANGED <<page, orphans>>
  PROVE  WorkerTypes'
<1> DEFINE r == [attempt[s] EXCEPT !.pc = pc, !.discarded = TRUE, !.hard = TRUE]
<1>1. attempt' = [attempt EXCEPT ![s] = r]
  BY DEF Abandon, WorkerTypes
<1>2. AttemptFits(attempt[s]) /\ attempt[s].job \in Jobs
  BY DEF WorkerTypes, AttemptFits
<1>3. AttemptFits(r)
  BY <1>2 DEF AttemptFits, AttemptType
<1> QED
  BY <1>1, <1>3, AttemptStep DEF WorkerTypes, PageStates

(* So does the end of an attempt. *)
LEMMA LeaveType ==
  ASSUME WorkerTypes, NEW s \in Slots, Leave(s), UNCHANGED orphans
  PROVE  WorkerTypes'
<1>1. AttemptFits(NoAttempt)
  BY ConstantTypes DEF AttemptFits, NoAttempt
<1>2. attempt' = [attempt EXCEPT ![s] = NoAttempt]
  BY DEF Leave
<1>3. page' \in [Slots -> [Pages -> PageStates]]
  BY DEF Leave, WorkerTypes, PageStates
<1> QED
  BY <1>1, <1>2, <1>3, AttemptStep DEF WorkerTypes

(* Replacing one handler's record by a fitting one keeps the handlers typed.   *)
LEMMA CommandStep ==
  ASSUME CommandTypes, NEW c \in Commands, NEW r, CommandFits(r),
         cmd' = [cmd EXCEPT ![c] = r]
  PROVE  CommandTypes'
BY DEF CommandTypes, CommandFits

(* Moving a handler at work to another pc keeps the handlers typed.            *)
LEMMA StepType ==
  ASSUME CommandTypes, NEW c \in Commands, NEW pc \in CommandPcs, cmd[c].pc \notin {"new", "done"},
         Step(c, pc)
  PROVE  CommandTypes'
<1> DEFINE r == [cmd[c] EXCEPT !.pc = pc]
<1>1. cmd' = [cmd EXCEPT ![c] = r]
  BY DEF Step, CommandTypes
<1>2. CommandFits(cmd[c]) /\ cmd[c].job \in Jobs
  BY DEF CommandTypes, CommandFits
<1>3. CommandFits(r)
  BY <1>2 DEF CommandFits, CommandType
<1> QED
  BY <1>1, <1>3, CommandStep

(* So does the end of a handler. *)
LEMMA FinishType ==
  ASSUME CommandTypes, NEW c \in Commands, Finish(c)
  PROVE  CommandTypes'
<1>1. CommandFits(DoneCommand)
  BY ConstantTypes DEF CommandFits, DoneCommand, IdleCommand
<1> QED
  BY <1>1, CommandStep DEF Finish

(* A handler at work has a job, and so has an attempt.                         *)
LEMMA TargetType ==
  ASSUME CommandTypes, NEW c \in Commands, cmd[c].pc \notin {"new", "done"}
  PROVE  Target(c) \in Jobs
BY DEF CommandTypes, Target

(* The job of an attempt at work is a job.                                     *)
LEMMA JobType ==
  ASSUME WorkerTypes, NEW s \in Slots, attempt[s].pc # "idle"
  PROVE  Job(s) \in Jobs
BY DEF WorkerTypes, Job

(* What is typed stays typed under set_job_status, as long as a job is only    *)
(* completed together with its progress.                                       *)
LEMMA SetFailedType ==
  ASSUME RowTypes, NEW j \in Jobs, SetJobStatus(j, "failed"),
         UNCHANGED <<results, stored, outcome, life>>
  PROVE  RowTypes'
BY DEF RowTypes, SetJobStatus, SourcesOf, Statuses

(* insertResult keeps the rows typed.                                          *)
LEMMA InsertType ==
  ASSUME RowTypes, NEW j \in Jobs, NEW p \in Pages, InsertResult(j, p),
         UNCHANGED <<status, stored, outcome, life>>
  PROVE  RowTypes'
BY DEF RowTypes, InsertResult

(* Writing an attempt's counter to an entry keeps the queues typed.            *)
LEMMA UpdateType ==
  ASSUME QueueTypes, NEW s \in Slots, Job(s) \in Jobs, NEW n \in Nat, UpdateProgress(s, n),
         UNCHANGED callbacks
  PROVE  QueueTypes'
BY DEF QueueTypes, UpdateProgress, callbacks, EntryType

(* Removing an entry keeps the queues typed ...                                *)
LEMMA DeleteType ==
  ASSUME QueueTypes, NEW j \in Jobs, Delete(j), UNCHANGED callbacks
  PROVE  QueueTypes'
BY ConstantTypes DEF QueueTypes, Delete, callbacks

(* ... adding one does ...                                                     *)
LEMMA AddType ==
  ASSUME QueueTypes, NEW j \in Jobs, Add(j), UNCHANGED callbacks
  PROVE  QueueTypes'
BY ConstantTypes DEF QueueTypes, Add, callbacks

(* ... and enqueueing a callback does.                                         *)
LEMMA EnqueueType ==
  ASSUME QueueTypes, NEW j \in Jobs, NEW id \in CallbackIds, NEW progress \in Progress,
         EnqueueCallback(j, id, progress), UNCHANGED entry
  PROVE  QueueTypes'
<1>1. CASE id \in sent[j]
  BY <1>1 DEF QueueTypes, EnqueueCallback, callbacks
<1>2. CASE id \notin sent[j]
  <2>1. sent' \in [Jobs -> SUBSET CallbackIds]
    BY <1>2 DEF QueueTypes, EnqueueCallback
  <2>2. CASE id \in Summaries
    <3> DEFINE t == [told[j] EXCEPT ![id] = progress]
    <3>1. t \in [Summaries -> Progress \cup {None}]
      BY <2>2 DEF QueueTypes
    <3>2. told' = [told EXCEPT ![j] = t]
      BY <1>2, <2>2 DEF QueueTypes, EnqueueCallback
    <3> QED
      BY <2>1, <3>1, <3>2 DEF QueueTypes
  <2>3. CASE id \notin Summaries
    BY <1>2, <2>1, <2>3 DEF QueueTypes, EnqueueCallback
  <2> QED
    BY <2>2, <2>3
<1> QED
  BY <1>1, <1>2

(* A fault leaves the budget a budget.                                         *)
LEMMA SpendType ==
  ASSUME budget \in [FaultKinds -> Nat], NEW f \in FaultKinds, Spend(f)
  PROVE  budget' \in [FaultKinds -> Nat]
BY DEF Spend

-----------------------------------------------------------------------------
(* The initial state is typed.                                                 *)
LEMMA InitType == Init => TypeOK
<1> SUFFICES ASSUME Init PROVE TypeOK
  OBVIOUS
<1>1. RowTypes
  BY DEF Init, RowTypes, Statuses
<1>2. QueueTypes
  BY ConstantTypes DEF Init, QueueTypes
<1>3. WorkerTypes
  BY ConstantTypes DEF Init, WorkerTypes, NoAttempt
<1>4. CommandTypes
  BY ConstantTypes DEF Init, CommandTypes, IdleCommand
<1> QED
  BY <1>1, <1>2, <1>3, <1>4, CrawlAssumption DEF Init, TypeOK

(* Every action keeps the types, starting with the worker's taking of an       *)
(* entry.                                                                      *)
LEMMA TypeTake ==
  ASSUME TypeOK, NEW s \in Slots, NEW j \in Jobs, Take(s, j)
  PROVE  TypeOK'
<1> USE DEF TypeOK
<1>1. /\ RowTypes'
      /\ CommandTypes'
      /\ budget' \in [FaultKinds -> Nat]
  BY DEF Take, RowTypes, CommandTypes, rows, callbacks
<1>2. QueueTypes'
  <2> DEFINE r == [entry[j] EXCEPT !.state = "active", !.owner = s]
  <2>1. r \in EntryType
    BY DEF QueueTypes, EntryType, EntryStates
  <2>2. entry' = [entry EXCEPT ![j] = r]
    BY DEF Take, QueueTypes
  <2> QED
    BY <2>1, <2>2 DEF Take, QueueTypes, callbacks
<1>3. WorkerTypes'
  <2> DEFINE r == [NoAttempt EXCEPT !.pc = "read", !.job = j, !.made = entry[j].made,
                                !.failed = entry[j].failed]
  <2>1. entry[j] \in EntryType
    BY DEF QueueTypes
  <2>2. AttemptFits(r)
    BY <2>1, ConstantTypes DEF AttemptFits, AttemptType, AttemptPcs, EntryType
  <2> QED
    BY <2>2, AttemptStep DEF Take, WorkerTypes, PageStates
<1> QED
  BY <1>1, <1>2, <1>3

(* getInternalJobState: the stored progress of a completed job can be told.    *)
LEMMA TypeReadState ==
  ASSUME TypeOK, NEW s \in Slots, ReadState(s)
  PROVE  TypeOK'
<1> USE DEF TypeOK
<1>a. attempt[s].pc # "idle"
  BY DEF ReadState
<1>b. Job(s) \in Jobs
  BY <1>a, JobType
<1>c. AttemptFits(attempt[s])
  BY DEF WorkerTypes, AttemptFits
<1>1. /\ RowTypes'
      /\ QueueTypes'
      /\ CommandTypes'
      /\ budget' \in [FaultKinds -> Nat]
  BY DEF ReadState, RowTypes, QueueTypes, CommandTypes, rows, callbacks
<1>2. WorkerTypes'
  <2>1. CASE status[Job(s)] = "completed"
    <3> DEFINE r == [attempt[s] EXCEPT !.pc = "list", !.records = stored[Job(s)].records,
                                       !.failed = stored[Job(s)].failed]
    <3>1. attempt' = [attempt EXCEPT ![s] = r]
      BY <2>1 DEF ReadState, WorkerTypes
    <3>2. stored[Job(s)] \in Progress
      BY <2>1, <1>b DEF RowTypes
    <3>3. AttemptFits(r)
      BY <1>a, <1>c, <3>2 DEF AttemptFits, AttemptType, AttemptPcs, Progress
    <3> QED
      BY <3>1, <3>3, AttemptStep DEF ReadState, WorkerTypes, PageStates
  <2>2. CASE status[Job(s)] # "completed"
    BY <2>2, <1>a, GoType DEF ReadState, Go, WorkerTypes, PageStates, AttemptPcs
  <2> QED
    BY <2>1, <2>2
<1> QED
  BY <1>1, <1>2

(* markJobRunning claims with the present life.                                *)
LEMMA TypeClaim ==
  ASSUME TypeOK, NEW s \in Slots, Claim(s)
  PROVE  TypeOK'
<1> USE DEF TypeOK
<1>a. attempt[s].pc # "idle"
  BY DEF Claim
<1>b. Job(s) \in Jobs
  BY <1>a, JobType
<1>c. AttemptFits(attempt[s])
  BY DEF WorkerTypes, AttemptFits
<1>1. /\ QueueTypes'
      /\ CommandTypes'
      /\ budget' \in [FaultKinds -> Nat]
  BY DEF Claim, QueueTypes, CommandTypes, callbacks
<1>2. RowTypes'
  BY <1>b DEF Claim, RowTypes, Statuses
<1>3. WorkerTypes'
  <2>1. CASE Runnable(Job(s))
    <3> DEFINE r == [attempt[s] EXCEPT !.pc = "crawl", !.life = life[Job(s)]]
    <3>1. attempt' = [attempt EXCEPT ![s] = r]
      BY <2>1 DEF Claim, WorkerTypes
    <3>2. life[Job(s)] \in Nat
      BY <1>b DEF RowTypes
    <3>3. AttemptFits(r)
      BY <1>a, <1>c, <3>2 DEF AttemptFits, AttemptType, AttemptPcs
    <3> QED
      BY <3>1, <3>3, AttemptStep DEF Claim, WorkerTypes, PageStates
  <2>2. CASE ~Runnable(Job(s))
    BY <2>2, <1>a, AbandonType DEF Claim, AttemptPcs
  <2> QED
    BY <2>1, <2>2
<1> QED
  BY <1>1, <1>2, <1>3

(* A page checked or given up keeps the types.                                 *)
LEMMA TypeCheckPage ==
  ASSUME TypeOK, NEW s \in Slots, NEW p \in Pages, CheckPage(s, p)
  PROVE  TypeOK'
<1> USE DEF TypeOK
<1>a. attempt[s].pc # "idle"
  BY DEF CheckPage
<1>b. Job(s) \in Jobs
  BY <1>a, JobType
<1>c. AttemptFits(attempt[s])
  BY DEF WorkerTypes, AttemptFits
<1>d. attempt[s].failed + 1 \in Nat
  BY <1>c DEF AttemptFits, AttemptType
<1>1. /\ RowTypes'
      /\ CommandTypes'
      /\ budget' \in [FaultKinds -> Nat]
  BY DEF CheckPage, RowTypes, CommandTypes, rows, callbacks
<1>2. QueueTypes'
  BY <1>b, <1>d, UpdateType DEF CheckPage, FailPage, QueueTypes, callbacks
<1>3. WorkerTypes'
  <2>1. CASE status[Job(s)] = "running"
    BY <2>1 DEF CheckPage, WorkerTypes
  <2>2. CASE status[Job(s)] # "running"
    <3> DEFINE r == [attempt[s] EXCEPT !.pc = AfterUpdate(s, "crawl"), !.discarded = TRUE,
                                       !.failed = attempt[s].failed + 1]
    <3>1. attempt' = [attempt EXCEPT ![s] = r]
      BY <2>2 DEF CheckPage, WorkerTypes
    <3>2. AttemptFits(r)
      BY <1>a, <1>c, <1>d DEF AttemptFits, AttemptType, AttemptPcs, AfterUpdate
    <3>3. page' \in [Slots -> [Pages -> PageStates]]
      <4>1. page' = [page EXCEPT ![s][p] = "failed"]
        BY <2>2 DEF CheckPage, FailPage
      <4> QED
        BY <4>1 DEF WorkerTypes, PageStates
    <3> QED
      BY <3>1, <3>2, <3>3, AttemptStep DEF CheckPage, WorkerTypes
  <2> QED
    BY <2>1, <2>2
<1> QED
  BY <1>1, <1>2, <1>3

(* A page persisted keeps them.                                                *)
LEMMA TypePersistPage ==
  ASSUME TypeOK, NEW s \in Slots, NEW p \in Pages, PersistPage(s, p)
  PROVE  TypeOK'
<1> USE DEF TypeOK
<1>a. attempt[s].pc # "idle"
  BY DEF PersistPage
<1>b. Job(s) \in Jobs
  BY <1>a, JobType
<1>c. AttemptFits(attempt[s])
  BY DEF WorkerTypes, AttemptFits
<1>d. attempt[s].failed \in Nat
  BY <1>c DEF AttemptFits, AttemptType
<1>1. /\ CommandTypes'
      /\ budget' \in [FaultKinds -> Nat]
  BY DEF PersistPage, CommandTypes, callbacks
<1>2. RowTypes'
  BY <1>b, InsertType DEF PersistPage
<1>3. QueueTypes'
  BY <1>b, <1>d, UpdateType DEF PersistPage
<1>4. WorkerTypes'
  BY <1>a, GoType DEF PersistPage, WorkerTypes, PageStates, AttemptPcs, AfterUpdate
<1> QED
  BY <1>1, <1>2, <1>3, <1>4

(* A page failing for good keeps them.                                         *)
LEMMA TypePageError ==
  ASSUME TypeOK, NEW s \in Slots, NEW p \in Pages, PageError(s, p)
  PROVE  TypeOK'
<1> USE DEF TypeOK
<1>a. attempt[s].pc # "idle"
  BY DEF PageError
<1>b. Job(s) \in Jobs
  BY <1>a, JobType
<1>c. AttemptFits(attempt[s])
  BY DEF WorkerTypes, AttemptFits
<1>d. attempt[s].failed + 1 \in Nat
  BY <1>c DEF AttemptFits, AttemptType
<1>1. /\ RowTypes'
      /\ CommandTypes'
  BY DEF PageError, RowTypes, CommandTypes, rows, callbacks
<1>2. QueueTypes'
  BY <1>b, <1>d, UpdateType DEF PageError, FailPage
<1>3. WorkerTypes'
  <2> DEFINE r == [attempt[s] EXCEPT !.pc = AfterUpdate(s, "crawl"), !.failed = attempt[s].failed + 1]
  <2>1. attempt' = [attempt EXCEPT ![s] = r]
    BY DEF PageError, WorkerTypes
  <2>2. AttemptFits(r)
    BY <1>a, <1>c, <1>d DEF AttemptFits, AttemptType, AttemptPcs, AfterUpdate
  <2> QED
    BY <2>1, <2>2, AttemptStep DEF PageError, FailPage, WorkerTypes, PageStates
<1>4. budget' \in [FaultKinds -> Nat]
  BY SpendType DEF PageError, FaultKinds
<1> QED
  BY <1>1, <1>2, <1>3, <1>4

(* A page handler left behind is an orphan of the attempt's job.               *)
LEMMA TypePageTimeout ==
  ASSUME TypeOK, NEW s \in Slots, NEW p \in Pages, PageTimeout(s, p)
  PROVE  TypeOK'
<1> USE DEF TypeOK
<1>a. attempt[s].pc # "idle"
  BY DEF PageTimeout
<1>b. Job(s) \in Jobs
  BY <1>a, JobType
<1>c. AttemptFits(attempt[s])
  BY DEF WorkerTypes, AttemptFits
<1>1. /\ RowTypes'
      /\ QueueTypes'
      /\ CommandTypes'
  BY DEF PageTimeout, RowTypes, QueueTypes, CommandTypes, rows, callbacks
<1>2. WorkerTypes'
  <2>1. attempt[s].life \in Nat
    BY <1>c DEF AttemptFits, AttemptType
  <2>2. orphans' \subseteq OrphanType
    BY <1>b, <2>1 DEF PageTimeout, WorkerTypes, OrphanType
  <2> QED
    BY <2>2 DEF PageTimeout, WorkerTypes
<1>3. budget' \in [FaultKinds -> Nat]
  BY SpendType DEF PageTimeout, FaultKinds
<1> QED
  BY <1>1, <1>2, <1>3

(* An orphan's late insert keeps them.                                         *)
LEMMA TypeOrphanPersists ==
  ASSUME TypeOK, NEW o \in orphans, OrphanPersists(o)
  PROVE  TypeOK'
<1> USE DEF TypeOK
<1>a. o.job \in Jobs /\ o.page \in Pages
  BY DEF WorkerTypes, OrphanType
<1>1. /\ QueueTypes'
      /\ WorkerTypes'
      /\ CommandTypes'
      /\ budget' \in [FaultKinds -> Nat]
  BY DEF OrphanPersists, QueueTypes, WorkerTypes, CommandTypes, callbacks
<1>2. RowTypes'
  BY <1>a, InsertType DEF OrphanPersists
<1> QED
  BY <1>1, <1>2

(* A crawl that fails before its first page keeps them.                        *)
LEMMA TypeSetupFails ==
  ASSUME TypeOK, NEW s \in Slots, SetupFails(s)
  PROVE  TypeOK'
<1> USE DEF TypeOK
<1>a. attempt[s].pc # "idle"
  BY DEF SetupFails
<1>b. Job(s) \in Jobs
  BY <1>a, JobType
<1>c. AttemptFits(attempt[s])
  BY DEF WorkerTypes, AttemptFits
<1>1. /\ RowTypes'
      /\ QueueTypes'
      /\ CommandTypes'
  BY DEF SetupFails, RowTypes, QueueTypes, CommandTypes, rows, callbacks
<1>2. WorkerTypes'
  BY <1>a, GoType DEF SetupFails, WorkerTypes, PageStates, AttemptPcs
<1>3. budget' \in [FaultKinds -> Nat]
  BY SpendType DEF SetupFails, FaultKinds
<1> QED
  BY <1>1, <1>2, <1>3

(* The end of run() keeps them.                                                *)
LEMMA TypeRunEnds ==
  ASSUME TypeOK, NEW s \in Slots, RunEnds(s)
  PROVE  TypeOK'
<1> USE DEF TypeOK
<1>a. attempt[s].pc # "idle"
  BY DEF RunEnds
<1>b. Job(s) \in Jobs
  BY <1>a, JobType
<1>c. AttemptFits(attempt[s])
  BY DEF WorkerTypes, AttemptFits
<1>1. /\ RowTypes'
      /\ QueueTypes'
      /\ CommandTypes'
      /\ budget' \in [FaultKinds -> Nat]
  BY DEF RunEnds, RowTypes, QueueTypes, CommandTypes, rows, callbacks
<1>2. WorkerTypes'
  BY <1>a, GoType DEF RunEnds, WorkerTypes, PageStates, AttemptPcs
<1> QED
  BY <1>1, <1>2

(* countJobResults yields a natural number.                                    *)
LEMMA TypeCountResults ==
  ASSUME TypeOK, NEW s \in Slots, CountResults(s)
  PROVE  TypeOK'
<1> USE DEF TypeOK
<1>a. attempt[s].pc # "idle"
  BY DEF CountResults
<1>b. Job(s) \in Jobs
  BY <1>a, JobType
<1>c. AttemptFits(attempt[s])
  BY DEF WorkerTypes, AttemptFits
<1>d. attempt[s].failed \in Nat /\ Len(results[Job(s)]) \in Nat
  BY <1>b, <1>c DEF AttemptFits, AttemptType, RowTypes
<1>1. /\ RowTypes'
      /\ CommandTypes'
      /\ budget' \in [FaultKinds -> Nat]
  BY DEF CountResults, RowTypes, CommandTypes, rows, callbacks
<1>2. QueueTypes'
  BY <1>b, <1>d, UpdateType DEF CountResults
<1>3. WorkerTypes'
  <2> DEFINE r == [attempt[s] EXCEPT !.records = Len(results[Job(s)]), !.pc = AfterUpdate(s, "complete")]
  <2>1. attempt' = [attempt EXCEPT ![s] = r]
    BY DEF CountResults, WorkerTypes
  <2>2. AttemptFits(r)
    BY <1>a, <1>c, <1>d DEF AttemptFits, AttemptType, AttemptPcs, AfterUpdate
  <2> QED
    BY <2>1, <2>2, AttemptStep DEF CountResults, WorkerTypes, PageStates
<1> QED
  BY <1>1, <1>2, <1>3

(* A job is completed together with its progress.                              *)
LEMMA TypeMarkCompleted ==
  ASSUME TypeOK, NEW s \in Slots, MarkCompleted(s)
  PROVE  TypeOK'
<1> USE DEF TypeOK
<1>a. attempt[s].pc # "idle"
  BY DEF MarkCompleted
<1>b. Job(s) \in Jobs
  BY <1>a, JobType
<1>c. AttemptFits(attempt[s])
  BY DEF WorkerTypes, AttemptFits
<1>d. ProgressOf(s) \in Progress
  BY <1>c DEF AttemptFits, AttemptType, ProgressOf, Progress
<1>1. /\ QueueTypes'
      /\ CommandTypes'
      /\ budget' \in [FaultKinds -> Nat]
  BY DEF MarkCompleted, QueueTypes, CommandTypes, callbacks
<1>2. RowTypes'
  BY <1>b, <1>d DEF MarkCompleted, RowTypes, SetJobStatus, SourcesOf, Statuses
<1>3. WorkerTypes'
  BY <1>a, GoType DEF MarkCompleted, WorkerTypes, PageStates, AttemptPcs
<1> QED
  BY <1>1, <1>2, <1>3

(* The second statement of markJobCompleted keeps the types.                   *)
LEMMA TypeVerifyCompleted ==
  ASSUME TypeOK, NEW s \in Slots, VerifyCompleted(s)
  PROVE  TypeOK'
<1> USE DEF TypeOK
<1>a. attempt[s].pc # "idle"
  BY DEF VerifyCompleted
<1>b. Job(s) \in Jobs
  BY <1>a, JobType
<1>c. AttemptFits(attempt[s])
  BY DEF WorkerTypes, AttemptFits
<1>1. /\ RowTypes'
      /\ QueueTypes'
      /\ CommandTypes'
      /\ budget' \in [FaultKinds -> Nat]
  BY DEF VerifyCompleted, RowTypes, QueueTypes, CommandTypes, rows, callbacks
<1>2. WorkerTypes'
  <2>1. CASE status[Job(s)] = "completed"
    BY <2>1, <1>a, GoType DEF VerifyCompleted, WorkerTypes, PageStates, AttemptPcs
  <2>2. CASE status[Job(s)] # "completed"
    BY <2>2, <1>a, AbandonType DEF VerifyCompleted, AttemptPcs
  <2> QED
    BY <2>1, <2>2
<1> QED
  BY <1>1, <1>2

(* A plan is a sequence of callback ids.                                       *)
LEMMA TypeListCallbacks ==
  ASSUME TypeOK, NEW s \in Slots, ListCallbacks(s)
  PROVE  TypeOK'
<1> USE DEF TypeOK
<1>a. attempt[s].pc # "idle"
  BY DEF ListCallbacks
<1>b. Job(s) \in Jobs
  BY <1>a, JobType
<1>c. AttemptFits(attempt[s])
  BY DEF WorkerTypes, AttemptFits
<1>1. /\ RowTypes'
      /\ QueueTypes'
      /\ CommandTypes'
      /\ budget' \in [FaultKinds -> Nat]
  BY DEF ListCallbacks, RowTypes, QueueTypes, CommandTypes, rows, callbacks
<1>2. WorkerTypes'
  <2> DEFINE r == [attempt[s] EXCEPT !.pc = "announce",
                                     !.plan = CompletionPlan(Job(s), results[Job(s)]),
                                     !.next = 1]
  <2>1. attempt' = [attempt EXCEPT ![s] = r]
    BY DEF ListCallbacks, WorkerTypes
  <2>2. CompletionPlan(Job(s), results[Job(s)]) \in Seq(CallbackIds)
    BY <1>b, PlanType DEF RowTypes
  <2>3. 1 \in Nat \ {0} /\ "announce" \in AttemptPcs
    BY DEF AttemptPcs
  <2>4. AttemptFits(r)
    BY <1>a, <1>c, <2>2, <2>3 DEF AttemptFits, AttemptType
  <2> QED
    BY <2>1, <2>4, AttemptStep DEF ListCallbacks, WorkerTypes, PageStates
<1> QED
  BY <1>1, <1>2

(* A callback enqueued with the attempt's progress keeps the types.            *)
LEMMA TypeAnnounce ==
  ASSUME TypeOK, NEW s \in Slots, Announce(s)
  PROVE  TypeOK'
<1> USE DEF TypeOK
<1>a. attempt[s].pc # "idle"
  BY DEF Announce
<1>b. Job(s) \in Jobs
  BY <1>a, JobType
<1>c. AttemptFits(attempt[s])
  BY DEF WorkerTypes, AttemptFits
<1>d. /\ attempt[s].plan[attempt[s].next] \in CallbackIds
      /\ attempt[s].next + 1 \in Nat \ {0}
      /\ ProgressOf(s) \in Progress
  BY <1>c DEF AttemptFits, AttemptType, Announce, ProgressOf, Progress
<1>1. /\ RowTypes'
      /\ CommandTypes'
      /\ budget' \in [FaultKinds -> Nat]
  BY DEF Announce, RowTypes, CommandTypes, rows
<1>2. QueueTypes'
  BY <1>b, <1>d, EnqueueType DEF Announce
<1>3. WorkerTypes'
  <2> DEFINE r == [attempt[s] EXCEPT !.next = attempt[s].next + 1]
  <2>1. attempt' = [attempt EXCEPT ![s] = r]
    BY DEF Announce, WorkerTypes
  <2>2. AttemptFits(r)
    BY <1>a, <1>c, <1>d DEF AttemptFits, AttemptType
  <2> QED
    BY <2>1, <2>2, AttemptStep DEF Announce, WorkerTypes, PageStates
<1> QED
  BY <1>1, <1>2, <1>3

(* An attempt that returns leaves its slot empty.                              *)
LEMMA TypeSucceed ==
  ASSUME TypeOK, NEW s \in Slots, Succeed(s)
  PROVE  TypeOK'
<1> USE DEF TypeOK
<1>a. attempt[s].pc # "idle"
  BY DEF Succeed
<1>b. Job(s) \in Jobs
  BY <1>a, JobType
<1>c. AttemptFits(attempt[s])
  BY DEF WorkerTypes, AttemptFits
<1>1. /\ RowTypes'
      /\ CommandTypes'
      /\ budget' \in [FaultKinds -> Nat]
  BY DEF Succeed, RowTypes, CommandTypes, rows, callbacks
<1>2. QueueTypes'
  <2>1. CASE Holds(s)
    <3> DEFINE r == [entry[Job(s)] EXCEPT !.state = "completed", !.owner = None]
    <3>1. r \in EntryType
      BY <1>b DEF QueueTypes, EntryType, EntryStates
    <3>2. entry' = [entry EXCEPT ![Job(s)] = r]
      BY <2>1 DEF Succeed, QueueTypes
    <3> QED
      BY <1>b, <3>1, <3>2 DEF Succeed, QueueTypes, callbacks
  <2>2. CASE ~Holds(s)
    BY <2>2 DEF Succeed, QueueTypes, callbacks
  <2> QED
    BY <2>1, <2>2
<1>3. WorkerTypes'
  BY LeaveType DEF Succeed
<1> QED
  BY <1>1, <1>2, <1>3

(* The catch clause keeps the types.                                           *)
LEMMA TypeCatch ==
  ASSUME TypeOK, NEW s \in Slots, Catch(s)
  PROVE  TypeOK'
<1> USE DEF TypeOK
<1>a. attempt[s].pc # "idle"
  BY DEF Catch
<1>b. Job(s) \in Jobs
  BY <1>a, JobType
<1>c. AttemptFits(attempt[s])
  BY DEF WorkerTypes, AttemptFits
<1>1. /\ QueueTypes'
      /\ CommandTypes'
      /\ budget' \in [FaultKinds -> Nat]
  BY DEF Catch, QueueTypes, CommandTypes, callbacks
<1>2. RowTypes'
  BY <1>b, SetFailedType DEF Catch, RowTypes
<1>3. WorkerTypes'
  BY <1>a, GoType DEF Catch, WorkerTypes, PageStates, AttemptPcs
<1> QED
  BY <1>1, <1>2, <1>3

(* moveToFailed counts the attempt.                                            *)
LEMMA TypeMoveToFailed ==
  ASSUME TypeOK, NEW s \in Slots, MoveToFailed(s)
  PROVE  TypeOK'
<1> USE DEF TypeOK
<1>a. attempt[s].pc # "idle"
  BY DEF MoveToFailed
<1>b. Job(s) \in Jobs
  BY <1>a, JobType
<1>c. AttemptFits(attempt[s])
  BY DEF WorkerTypes, AttemptFits
<1>1. /\ RowTypes'
      /\ CommandTypes'
      /\ budget' \in [FaultKinds -> Nat]
  BY DEF MoveToFailed, RowTypes, CommandTypes, rows, callbacks
<1>2. QueueTypes'
  BY <1>b DEF MoveToFailed, QueueTypes, callbacks, EntryType, EntryStates
<1>3. WorkerTypes'
  BY LeaveType DEF MoveToFailed
<1> QED
  BY <1>1, <1>2, <1>3

(* A failing statement keeps the types.                                        *)
LEMMA TypeWorkerDbError ==
  ASSUME TypeOK, NEW s \in Slots, WorkerDbError(s)
  PROVE  TypeOK'
<1> USE DEF TypeOK
<1>a. attempt[s].pc # "idle"
  BY DEF WorkerDbError
<1>b. Job(s) \in Jobs
  BY <1>a, JobType
<1>c. AttemptFits(attempt[s])
  BY DEF WorkerTypes, AttemptFits
<1>1. /\ RowTypes'
      /\ QueueTypes'
      /\ CommandTypes'
  BY DEF WorkerDbError, RowTypes, QueueTypes, CommandTypes, rows, callbacks
<1>2. WorkerTypes'
  BY <1>a, GoType DEF WorkerDbError, WorkerTypes, PageStates, AttemptPcs
<1>3. budget' \in [FaultKinds -> Nat]
  BY SpendType DEF WorkerDbError, FaultKinds
<1> QED
  BY <1>1, <1>2, <1>3

(* So does a claim whose reply is lost,                                        *)
LEMMA TypeClaimReplyLost ==
  ASSUME TypeOK, NEW s \in Slots, ClaimReplyLost(s)
  PROVE  TypeOK'
<1> USE DEF TypeOK
<1>a. attempt[s].pc # "idle"
  BY DEF ClaimReplyLost
<1>b. Job(s) \in Jobs
  BY <1>a, JobType
<1>c. AttemptFits(attempt[s])
  BY DEF WorkerTypes, AttemptFits
<1>1. /\ QueueTypes'
      /\ CommandTypes'
  BY DEF ClaimReplyLost, QueueTypes, CommandTypes, callbacks
<1>2. RowTypes'
  BY <1>b DEF ClaimReplyLost, RowTypes, Statuses
<1>3. WorkerTypes'
  BY <1>a, GoType DEF ClaimReplyLost, WorkerTypes, PageStates, AttemptPcs
<1>4. budget' \in [FaultKinds -> Nat]
  BY SpendType DEF ClaimReplyLost, FaultKinds
<1> QED
  BY <1>1, <1>2, <1>3, <1>4

(* a failing enqueue of a callback,                                            *)
LEMMA TypeWorkerRedisError ==
  ASSUME TypeOK, NEW s \in Slots, WorkerRedisError(s)
  PROVE  TypeOK'
<1> USE DEF TypeOK
<1>a. attempt[s].pc # "idle"
  BY DEF WorkerRedisError
<1>b. Job(s) \in Jobs
  BY <1>a, JobType
<1>c. AttemptFits(attempt[s])
  BY DEF WorkerTypes, AttemptFits
<1>1. /\ RowTypes'
      /\ QueueTypes'
      /\ CommandTypes'
  BY DEF WorkerRedisError, RowTypes, QueueTypes, CommandTypes, rows, callbacks
<1>2. WorkerTypes'
  BY <1>a, GoType DEF WorkerRedisError, WorkerTypes, PageStates, AttemptPcs
<1>3. budget' \in [FaultKinds -> Nat]
  BY SpendType DEF WorkerRedisError, FaultKinds
<1> QED
  BY <1>1, <1>2, <1>3

(* the death of a worker,                                                      *)
LEMMA TypeWorkerCrash ==
  ASSUME TypeOK, NEW s \in Slots, WorkerCrash(s)
  PROVE  TypeOK'
<1> USE DEF TypeOK
<1>a. attempt[s].pc # "idle"
  BY DEF WorkerCrash
<1>b. Job(s) \in Jobs
  BY <1>a, JobType
<1>c. AttemptFits(attempt[s])
  BY DEF WorkerTypes, AttemptFits
<1>1. /\ RowTypes'
      /\ CommandTypes'
  BY DEF WorkerCrash, RowTypes, CommandTypes, rows, callbacks
<1>2. QueueTypes'
  BY <1>b DEF WorkerCrash, QueueTypes, callbacks, EntryType
<1>3. WorkerTypes'
  BY LeaveType DEF WorkerCrash
<1>4. budget' \in [FaultKinds -> Nat]
  BY SpendType DEF WorkerCrash, FaultKinds
<1> QED
  BY <1>1, <1>2, <1>3, <1>4

(* the loss of a lock,                                                         *)
LEMMA TypeLoseLock ==
  ASSUME TypeOK, NEW s \in Slots, LoseLock(s)
  PROVE  TypeOK'
<1> USE DEF TypeOK
<1>a. attempt[s].pc # "idle"
  BY DEF LoseLock
<1>b. Job(s) \in Jobs
  BY <1>a, JobType
<1>c. AttemptFits(attempt[s])
  BY DEF WorkerTypes, AttemptFits
<1>1. /\ RowTypes'
      /\ WorkerTypes'
      /\ CommandTypes'
  BY DEF LoseLock, RowTypes, WorkerTypes, CommandTypes, rows, callbacks
<1>2. QueueTypes'
  BY <1>b DEF LoseLock, QueueTypes, callbacks, EntryType
<1>3. budget' \in [FaultKinds -> Nat]
  BY SpendType DEF LoseLock, FaultKinds
<1> QED
  BY <1>1, <1>2, <1>3

(* the stalled check                                                           *)
LEMMA TypeRecoverStalled ==
  ASSUME TypeOK, NEW j \in Jobs, RecoverStalled(j)
  PROVE  TypeOK'
<1> USE DEF TypeOK
<1>1. /\ RowTypes'
      /\ WorkerTypes'
      /\ CommandTypes'
      /\ budget' \in [FaultKinds -> Nat]
  BY DEF RecoverStalled, RowTypes, WorkerTypes, CommandTypes, rows, callbacks
<1>2. QueueTypes'
  BY DEF RecoverStalled, QueueTypes, callbacks, EntryType, EntryStates
<1> QED
  BY <1>1, <1>2

(* and the end of a backoff.                                                   *)
LEMMA TypePromote ==
  ASSUME TypeOK, NEW j \in Jobs, Promote(j)
  PROVE  TypeOK'
<1> USE DEF TypeOK
<1>1. /\ RowTypes'
      /\ WorkerTypes'
      /\ CommandTypes'
      /\ budget' \in [FaultKinds -> Nat]
  BY DEF Promote, RowTypes, WorkerTypes, CommandTypes, rows, callbacks
<1>2. QueueTypes'
  BY DEF Promote, QueueTypes, callbacks, EntryType, EntryStates
<1> QED
  BY <1>1, <1>2

(* createJob's rows and command are typed.                                     *)
LEMMA TypeCreateJob ==
  ASSUME TypeOK, NEW c \in Commands, NEW j \in Jobs, CreateJob(c, j)
  PROVE  TypeOK'
<1> USE DEF TypeOK
<1>1. /\ QueueTypes'
      /\ WorkerTypes'
      /\ budget' \in [FaultKinds -> Nat]
  BY DEF CreateJob, QueueTypes, WorkerTypes, callbacks
<1>2. RowTypes'
  BY DEF CreateJob, RowTypes, Statuses
<1>3. CommandTypes'
  <2> DEFINE r == [cmd[c] EXCEPT !.pc = "createAdd", !.kind = "create", !.job = j]
  <2>1. cmd' = [cmd EXCEPT ![c] = r]
    BY DEF CreateJob, CommandTypes
  <2>2. cmd[c] \in CommandType /\ "create" \in Kinds
    BY DEF CommandTypes, CreateJob
  <2>3. CommandFits(r)
    BY <2>2 DEF CommandFits, CommandType, CommandPcs
  <2> QED
    BY <2>1, <2>3, CommandStep
<1> QED
  BY <1>1, <1>2, <1>3

(* The status and progress a handler reads are a row's.                        *)
LEMMA TypeReadJob ==
  ASSUME TypeOK, NEW c \in Commands, NEW j \in Jobs, NEW kind \in Kinds, ReadJob(c, j, kind)
  PROVE  TypeOK'
<1> USE DEF TypeOK
<1>1. /\ RowTypes'
      /\ QueueTypes'
      /\ WorkerTypes'
      /\ budget' \in [FaultKinds -> Nat]
  BY DEF ReadJob, RowTypes, QueueTypes, WorkerTypes, rows, callbacks
<1>2. CommandTypes'
  <2> DEFINE p == IF stored[j] = None THEN NoProgress ELSE stored[j]
             r == [cmd[c] EXCEPT !.pc = "effect", !.kind = kind, !.job = j, !.seen = status[j],
                                 !.stored = p]
  <2>1. cmd' = [cmd EXCEPT ![c] = r]
    BY DEF ReadJob, CommandTypes
  <2>2. cmd[c] \in CommandType
    BY DEF CommandTypes
  <2>3. p \in Progress /\ status[j] \in Statuses
    BY DEF RowTypes, NoProgress, Progress
  <2>4. CommandFits(r)
    BY <2>2, <2>3 DEF CommandFits, CommandType, CommandPcs
  <2> QED
    BY <2>1, <2>4, CommandStep
<1> QED
  BY <1>1, <1>2

(* cancelJob keeps the types,                                                  *)
LEMMA TypeCancel ==
  ASSUME TypeOK, NEW c \in Commands, Cancel(c)
  PROVE  TypeOK'
<1> USE DEF TypeOK
<1>a. cmd[c].pc \notin {"new", "done"}
  BY DEF Cancel, Effect
<1>b. Target(c) \in Jobs
  BY <1>a, TargetType
<1>1. /\ QueueTypes'
      /\ WorkerTypes'
      /\ budget' \in [FaultKinds -> Nat]
  BY DEF Cancel, QueueTypes, WorkerTypes, callbacks
<1>2. RowTypes'
  BY <1>b DEF Cancel, RowTypes, Statuses
<1>3. CommandTypes'
  BY <1>a, StepType, FinishType DEF Cancel, CommandPcs
<1> QED
  BY <1>1, <1>2, <1>3

(* its removal of the entry does,                                              *)
LEMMA TypeCancelRemoves ==
  ASSUME TypeOK, NEW c \in Commands, CancelRemoves(c)
  PROVE  TypeOK'
<1> USE DEF TypeOK
<1>a. cmd[c].pc \notin {"new", "done"}
  BY DEF CancelRemoves
<1>b. Target(c) \in Jobs
  BY <1>a, TargetType
<1>1. /\ RowTypes'
      /\ WorkerTypes'
      /\ budget' \in [FaultKinds -> Nat]
  BY DEF CancelRemoves, RowTypes, WorkerTypes, rows, callbacks
<1>2. QueueTypes'
  BY <1>b, DeleteType DEF CancelRemoves, QueueTypes, callbacks
<1>3. CommandTypes'
  BY FinishType DEF CancelRemoves
<1> QED
  BY <1>1, <1>2, <1>3

(* resetJobQueued does, beginning a new life,                                  *)
LEMMA TypeResetJob ==
  ASSUME TypeOK, NEW c \in Commands, ResetJob(c)
  PROVE  TypeOK'
<1> USE DEF TypeOK
<1>a. cmd[c].pc \notin {"new", "done"}
  BY DEF ResetJob, Resets
<1>b. Target(c) \in Jobs
  BY <1>a, TargetType
<1>1. /\ QueueTypes'
      /\ WorkerTypes'
      /\ budget' \in [FaultKinds -> Nat]
  BY DEF ResetJob, QueueTypes, WorkerTypes, callbacks
<1>2. RowTypes'
  <2>1. CASE Resettable(Target(c))
    <3>1. /\ status' = [status EXCEPT ![Target(c)] = "queued"]
          /\ life' = [life EXCEPT ![Target(c)] = @ + 1]
          /\ UNCHANGED <<results, stored, outcome>>
      BY <2>1 DEF ResetJob
    <3> QED
      BY <1>b, <3>1 DEF RowTypes, Statuses
  <2>2. CASE ~Resettable(Target(c))
    BY <2>2 DEF ResetJob, RowTypes
  <2> QED
    BY <2>1, <2>2
<1>3. CommandTypes'
  BY <1>a, StepType, FinishType DEF ResetJob, CommandPcs
<1> QED
  BY <1>1, <1>2, <1>3

(* an answer without effect does,                                              *)
LEMMA TypeRefuse ==
  ASSUME TypeOK, NEW c \in Commands, Refuse(c)
  PROVE  TypeOK'
<1> USE DEF TypeOK
<1>1. /\ RowTypes'
      /\ QueueTypes'
      /\ WorkerTypes'
      /\ budget' \in [FaultKinds -> Nat]
  BY DEF Refuse, RowTypes, QueueTypes, WorkerTypes, rows, callbacks
<1>2. CommandTypes'
  BY FinishType DEF Refuse
<1> QED
  BY <1>1, <1>2

(* and the removal before a retry's add.                                       *)
LEMMA TypeRemoveForRetry ==
  ASSUME TypeOK, NEW c \in Commands, RemoveForRetry(c)
  PROVE  TypeOK'
<1> USE DEF TypeOK
<1>a. cmd[c].pc \notin {"new", "done"}
  BY DEF RemoveForRetry
<1>b. Target(c) \in Jobs
  BY <1>a, TargetType
<1>1. /\ RowTypes'
      /\ WorkerTypes'
      /\ budget' \in [FaultKinds -> Nat]
  BY DEF RemoveForRetry, RowTypes, WorkerTypes, rows, callbacks
<1>2. QueueTypes'
  BY <1>b, DeleteType DEF RemoveForRetry, QueueTypes, callbacks
<1>3. CommandTypes'
  BY <1>a, StepType, FinishType DEF RemoveForRetry, CommandPcs
<1> QED
  BY <1>1, <1>2, <1>3

(* A reconcile's look at the entry keeps the types,                            *)
LEMMA TypeInspectEntry ==
  ASSUME TypeOK, NEW c \in Commands, InspectEntry(c)
  PROVE  TypeOK'
<1> USE DEF TypeOK
<1>a. cmd[c].pc \notin {"new", "done"}
  BY DEF InspectEntry, Effect
<1>b. Target(c) \in Jobs
  BY <1>a, TargetType
<1>1. /\ RowTypes'
      /\ QueueTypes'
      /\ WorkerTypes'
      /\ budget' \in [FaultKinds -> Nat]
  BY DEF InspectEntry, RowTypes, QueueTypes, WorkerTypes, rows, callbacks
<1>2. CommandTypes'
  <2>1. \E pc \in CommandPcs : Step(c, pc)
    BY DEF InspectEntry, CommandPcs
  <2> QED
    BY <1>a, <2>1, StepType
<1> QED
  BY <1>1, <1>2

(* its removal of a finished entry does,                                       *)
LEMMA TypePurgeEntry ==
  ASSUME TypeOK, NEW c \in Commands, PurgeEntry(c)
  PROVE  TypeOK'
<1> USE DEF TypeOK
<1>a. cmd[c].pc \notin {"new", "done"}
  BY DEF PurgeEntry
<1>b. Target(c) \in Jobs
  BY <1>a, TargetType
<1>1. /\ RowTypes'
      /\ WorkerTypes'
      /\ budget' \in [FaultKinds -> Nat]
  BY DEF PurgeEntry, RowTypes, WorkerTypes, rows, callbacks
<1>2. QueueTypes'
  BY <1>b, DeleteType DEF PurgeEntry, QueueTypes, callbacks
<1>3. CommandTypes'
  BY <1>a, StepType, FinishType DEF PurgeEntry, CommandPcs
<1> QED
  BY <1>1, <1>2, <1>3

(* queue.add does,                                                             *)
LEMMA TypeAddEntry ==
  ASSUME TypeOK, NEW c \in Commands, AddEntry(c)
  PROVE  TypeOK'
<1> USE DEF TypeOK
<1>a. cmd[c].pc \notin {"new", "done"}
  BY DEF AddEntry, Adding
<1>b. Target(c) \in Jobs
  BY <1>a, TargetType
<1>1. /\ RowTypes'
      /\ WorkerTypes'
      /\ budget' \in [FaultKinds -> Nat]
  BY DEF AddEntry, RowTypes, WorkerTypes, rows, callbacks
<1>2. QueueTypes'
  BY <1>b, AddType DEF AddEntry
<1>3. CommandTypes'
  BY <1>a, StepType, FinishType DEF AddEntry, CommandPcs
<1> QED
  BY <1>1, <1>2, <1>3

(* a failing removal does,                                                     *)
LEMMA TypeRemoveFails ==
  ASSUME TypeOK, NEW c \in Commands, RemoveFails(c)
  PROVE  TypeOK'
<1> USE DEF TypeOK
<1>a. cmd[c].pc \notin {"new", "done"}
  BY DEF RemoveFails
<1>b. Target(c) \in Jobs
  BY <1>a, TargetType
<1>1. /\ RowTypes'
      /\ WorkerTypes'
  BY DEF RemoveFails, RowTypes, WorkerTypes, rows, callbacks
<1>2. QueueTypes'
  BY <1>b, DeleteType DEF RemoveFails, QueueTypes, callbacks
<1>3. CommandTypes'
  BY <1>a, StepType, FinishType DEF RemoveFails, CommandPcs
<1>4. budget' \in [FaultKinds -> Nat]
  BY SpendType DEF RemoveFails, FaultKinds
<1> QED
  BY <1>1, <1>2, <1>3, <1>4

(* also when it fails,                                                         *)
LEMMA TypeAddFails ==
  ASSUME TypeOK, NEW c \in Commands, AddFails(c)
  PROVE  TypeOK'
<1> USE DEF TypeOK
<1>a. cmd[c].pc \notin {"new", "done"}
  BY DEF AddFails, Adding
<1>b. Target(c) \in Jobs
  BY <1>a, TargetType
<1>1. /\ RowTypes'
      /\ WorkerTypes'
  BY DEF AddFails, RowTypes, WorkerTypes, rows, callbacks
<1>2. QueueTypes'
  BY <1>b, AddType DEF AddFails, QueueTypes, callbacks
<1>3. CommandTypes'
  BY <1>a, StepType, FinishType DEF AddFails, CommandPcs
<1>4. budget' \in [FaultKinds -> Nat]
  BY SpendType DEF AddFails, FaultKinds
<1> QED
  BY <1>1, <1>2, <1>3, <1>4

(* recordJobEnqueueOutcome does for QUEUED                                     *)
LEMMA TypeRecordQueued ==
  ASSUME TypeOK, NEW c \in Commands, RecordQueued(c)
  PROVE  TypeOK'
<1> USE DEF TypeOK
<1>a. cmd[c].pc \notin {"new", "done"}
  BY DEF RecordQueued
<1>b. Target(c) \in Jobs
  BY <1>a, TargetType
<1>1. /\ QueueTypes'
      /\ WorkerTypes'
      /\ budget' \in [FaultKinds -> Nat]
  BY DEF RecordQueued, QueueTypes, WorkerTypes, callbacks
<1>2. RowTypes'
  BY <1>b DEF RecordQueued, RowTypes
<1>3. CommandTypes'
  BY FinishType DEF RecordQueued
<1> QED
  BY <1>1, <1>2, <1>3

(* and FAILED, and                                                             *)
LEMMA TypeRecordFailed ==
  ASSUME TypeOK, NEW c \in Commands, RecordFailed(c)
  PROVE  TypeOK'
<1> USE DEF TypeOK
<1>a. cmd[c].pc \notin {"new", "done"}
  BY DEF RecordFailed
<1>b. Target(c) \in Jobs
  BY <1>a, TargetType
<1>1. /\ QueueTypes'
      /\ WorkerTypes'
      /\ budget' \in [FaultKinds -> Nat]
  BY DEF RecordFailed, QueueTypes, WorkerTypes, callbacks
<1>2. RowTypes'
  BY <1>b DEF RecordFailed, RowTypes
<1>3. CommandTypes'
  BY <1>a, StepType, FinishType DEF RecordFailed, CommandPcs
<1> QED
  BY <1>1, <1>2, <1>3

(* markJobFailed after a failed enqueue.                                       *)
LEMMA TypeFailJob ==
  ASSUME TypeOK, NEW c \in Commands, FailJob(c)
  PROVE  TypeOK'
<1> USE DEF TypeOK
<1>a. cmd[c].pc \notin {"new", "done"}
  BY DEF FailJob
<1>b. Target(c) \in Jobs
  BY <1>a, TargetType
<1>1. /\ QueueTypes'
      /\ WorkerTypes'
      /\ budget' \in [FaultKinds -> Nat]
  BY DEF FailJob, QueueTypes, WorkerTypes, callbacks
<1>2. RowTypes'
  BY <1>b, SetFailedType DEF FailJob
<1>3. CommandTypes'
  BY FinishType DEF FailJob
<1> QED
  BY <1>1, <1>2, <1>3

(* A reconcile of a completed job tells the progress it read.                  *)
LEMMA TypeReconcileCallbacks ==
  ASSUME TypeOK, NEW c \in Commands, ReconcileCallbacks(c)
  PROVE  TypeOK'
<1> USE DEF TypeOK
<1>a. cmd[c].pc \notin {"new", "done"}
  BY DEF ReconcileCallbacks, Effect
<1>b. Target(c) \in Jobs
  BY <1>a, TargetType
<1>1. /\ RowTypes'
      /\ QueueTypes'
      /\ WorkerTypes'
      /\ budget' \in [FaultKinds -> Nat]
  BY DEF ReconcileCallbacks, RowTypes, QueueTypes, WorkerTypes, rows, callbacks
<1>2. CommandTypes'
  <2> DEFINE r == [cmd[c] EXCEPT !.pc = "announce",
                                 !.plan = CompletionPlan(Target(c), results[Target(c)]),
                                 !.next = 1]
  <2>1. cmd' = [cmd EXCEPT ![c] = r]
    BY DEF ReconcileCallbacks, CommandTypes
  <2>2. cmd[c] \in CommandType /\ cmd[c].job \in Jobs
    BY <1>b DEF CommandTypes, Target
  <2>3. CompletionPlan(Target(c), results[Target(c)]) \in Seq(CallbackIds)
    BY <1>b, PlanType DEF RowTypes
  <2>4. 1 \in Nat \ {0} /\ "announce" \in CommandPcs
    BY DEF CommandPcs
  <2>5. CommandFits(r)
    BY <2>2, <2>3, <2>4 DEF CommandFits, CommandType
  <2> QED
    BY <2>1, <2>5, CommandStep
<1> QED
  BY <1>1, <1>2

(* Each callback it enqueues keeps the types.                                  *)
LEMMA TypeReconcileAnnounces ==
  ASSUME TypeOK, NEW c \in Commands, ReconcileAnnounces(c)
  PROVE  TypeOK'
<1> USE DEF TypeOK
<1>a. cmd[c].pc \notin {"new", "done"}
  BY DEF ReconcileAnnounces
<1>b. Target(c) \in Jobs
  BY <1>a, TargetType
<1>c. cmd[c] \in CommandType /\ cmd[c].job \in Jobs
  BY <1>b DEF CommandTypes, Target
<1>1. /\ RowTypes'
      /\ WorkerTypes'
      /\ budget' \in [FaultKinds -> Nat]
  BY DEF ReconcileAnnounces, RowTypes, WorkerTypes, rows, callbacks
<1>2. QueueTypes'
  <2>1. CASE cmd[c].next \in DOMAIN cmd[c].plan
    <3>1. cmd[c].plan[cmd[c].next] \in CallbackIds /\ cmd[c].stored \in Progress
      BY <1>c, <2>1 DEF CommandType
    <3> QED
      BY <1>b, <2>1, <3>1, EnqueueType DEF ReconcileAnnounces
  <2>2. CASE cmd[c].next \notin DOMAIN cmd[c].plan
    BY <2>2 DEF ReconcileAnnounces, QueueTypes, callbacks
  <2> QED
    BY <2>1, <2>2
<1>3. CommandTypes'
  <2>1. CASE cmd[c].next \in DOMAIN cmd[c].plan
    <3> DEFINE r == [cmd[c] EXCEPT !.next = cmd[c].next + 1]
    <3>1. cmd' = [cmd EXCEPT ![c] = r]
      BY <2>1 DEF ReconcileAnnounces, CommandTypes
    <3>2. CommandFits(r)
      BY <1>a, <1>c DEF CommandFits, CommandType
    <3> QED
      BY <3>1, <3>2, CommandStep
  <2>2. CASE cmd[c].next \notin DOMAIN cmd[c].plan
    BY <2>2, FinishType DEF ReconcileAnnounces
  <2> QED
    BY <2>1, <2>2
<1> QED
  BY <1>1, <1>2, <1>3

(* An API handler's death keeps them.                                          *)
LEMMA TypeApiCrash ==
  ASSUME TypeOK, NEW c \in Commands, ApiCrash(c)
  PROVE  TypeOK'
<1> USE DEF TypeOK
<1>1. /\ RowTypes'
      /\ QueueTypes'
      /\ WorkerTypes'
  BY DEF ApiCrash, RowTypes, QueueTypes, WorkerTypes, rows, callbacks
<1>2. CommandTypes'
  BY FinishType DEF ApiCrash
<1>3. budget' \in [FaultKinds -> Nat]
  BY SpendType DEF ApiCrash, FaultKinds
<1> QED
  BY <1>1, <1>2, <1>3

(* The next-state relation keeps the types. *)
LEMMA TypeStep == TypeOK /\ [Next]_vars => TypeOK'
<1> SUFFICES ASSUME TypeOK, [Next]_vars PROVE TypeOK'
  OBVIOUS
<1>1. CASE \E s \in Slots : Work(s)
  BY <1>1, TypeReadState, TypeClaim, TypeRunEnds, TypeCountResults, TypeMarkCompleted,
     TypeVerifyCompleted, TypeListCallbacks, TypeAnnounce, TypeSucceed, TypeCatch,
     TypeMoveToFailed, TypeCheckPage, TypePersistPage
  DEF Work
<1>2. CASE \E s \in Slots : WorkerFault(s)
  BY <1>2, TypeSetupFails, TypeWorkerDbError, TypeClaimReplyLost, TypeWorkerRedisError,
     TypeWorkerCrash, TypeLoseLock, TypePageError, TypePageTimeout
  DEF WorkerFault
<1>3. CASE \E s \in Slots, j \in Jobs : Take(s, j)
  BY <1>3, TypeTake
<1>4. CASE \E j \in Jobs : RecoverStalled(j) \/ Promote(j)
  BY <1>4, TypeRecoverStalled, TypePromote
<1>5. CASE \E o \in orphans : OrphanPersists(o)
  BY <1>5, TypeOrphanPersists
<1>6. CASE \E c \in Commands : Send(c)
  BY <1>6, TypeCreateJob, TypeReadJob DEF Send
<1>7. CASE \E c \in Commands : Handle(c)
  BY <1>7, TypeCancel, TypeCancelRemoves, TypeResetJob, TypeRefuse, TypeRemoveForRetry,
     TypeInspectEntry, TypePurgeEntry, TypeAddEntry, TypeRecordQueued, TypeRecordFailed,
     TypeFailJob, TypeReconcileCallbacks, TypeReconcileAnnounces
  DEF Handle
<1>8. CASE \E c \in Commands : ApiFault(c)
  BY <1>8, TypeRemoveFails, TypeAddFails, TypeApiCrash DEF ApiFault
<1>9. CASE UNCHANGED vars
  BY <1>9 DEF vars, rows, callbacks, TypeOK, RowTypes, QueueTypes, WorkerTypes, CommandTypes
<1> QED
  BY <1>1, <1>2, <1>3, <1>4, <1>5, <1>6, <1>7, <1>8, <1>9 DEF Next

(* Type correctness: whatever fails and however calls interleave, every        *)
(* variable keeps its type, and a completed job has a progress to tell.        *)
THEOREM TypeCorrect == Spec => []TypeOK
BY InitType, TypeStep, PTL DEF Spec

-----------------------------------------------------------------------------
(* The detailed system implements JobLifecycle.  The steps that announce need  *)
(* to know that the job is completed and how much of its plan is out: that is  *)
(* the strengthening, Announcers.                                              *)

(* The plan in hand is the job's, and what comes before `next` is in the queue. *)
Covered(j, plan, next) ==
  /\ plan = CompletionPlan(j, results[j])
  /\ \A k \in 1..(next - 1) : plan[k] \in sent[j]

(* Whoever lists or announces callbacks does it for a completed job.           *)
Announcers ==
  /\ \A s \in Slots :
       /\ attempt[s].pc \in {"list", "announce"} => status[Job(s)] = "completed"
       /\ attempt[s].pc = "announce" => Covered(Job(s), attempt[s].plan, attempt[s].next)
  /\ \A c \in Commands :
       /\ cmd[c].pc = "effect" /\ cmd[c].seen = "completed" => status[Target(c)] = "completed"
       /\ cmd[c].pc = "announce" =>
            status[Target(c)] = "completed" /\ Covered(Target(c), cmd[c].plan, cmd[c].next)

(* JobLifecycle plans the same callbacks.                                      *)
LEMMA SamePlan ==
  \A j, seq : Lifecycle!CompletionPlan(j, seq) = CompletionPlan(j, seq)
BY DEF Lifecycle!CompletionPlan, CompletionPlan

Promised == [Lifecycle!Next]_(Lifecycle!vars)

(* markJobRunning claims a queued job and leaves a running one running.        *)
LEMMA ClaimPromised ==
  ASSUME RowTypes, NEW j \in Jobs, Runnable(j), status' = [status EXCEPT ![j] = "running"],
         UNCHANGED <<results, stored, sent>>
  PROVE  Promised
<1>1. CASE status[j] = "queued"
  BY <1>1 DEF Promised, Lifecycle!Next, Lifecycle!Claim, Lifecycle!Move
<1>2. CASE status[j] = "running"
  BY <1>2 DEF Promised, RowTypes, Lifecycle!vars
<1> QED
  BY <1>1, <1>2 DEF Runnable

(* Marking a job failed is a Fail of JobLifecycle, or changes nothing.         *)
LEMMA FailPromised ==
  ASSUME NEW j \in Jobs, SetJobStatus(j, "failed"), UNCHANGED <<results, stored, sent>>
  PROVE  Promised
BY DEF Promised, SetJobStatus, SourcesOf, Lifecycle!Next, Lifecycle!Fail, Lifecycle!Move, Lifecycle!vars

(* insertResult is a Persist of JobLifecycle, or changes nothing.              *)
LEMMA InsertPromised ==
  ASSUME NEW j \in Jobs, NEW p \in Pages, InsertResult(j, p), UNCHANGED <<status, stored, sent>>
  PROVE  Promised
<1>1. CASE status[j] = "running" /\ p \notin ToSet(results[j])
  <2>1. results' = [results EXCEPT ![j] = Append(@, p)]
    BY <1>1 DEF InsertResult
  <2>2. Lifecycle!Persist(j, p)
    BY <1>1, <2>1 DEF Lifecycle!Persist, Lifecycle!ToSet, ToSet
  <2> QED
    BY <2>2 DEF Promised, Lifecycle!Next
<1>2. CASE ~(status[j] = "running" /\ p \notin ToSet(results[j]))
  <2>1. results' = results
    BY <1>2 DEF InsertResult
  <2> QED
    BY <2>1 DEF Promised, Lifecycle!vars
<1> QED
  BY <1>1, <1>2

(* Enqueueing the next callback of a covered plan announces in order.          *)
LEMMA EnqueuePromised ==
  ASSUME QueueTypes, NEW j \in Jobs, NEW plan, NEW i \in DOMAIN plan, NEW progress,
         status[j] = "completed", Covered(j, plan, i), EnqueueCallback(j, plan[i], progress),
         UNCHANGED <<status, results, stored>>
  PROVE  Promised
<1>1. CASE plan[i] \in sent[j]
  BY <1>1 DEF Promised, EnqueueCallback, callbacks, Lifecycle!vars
<1>2. CASE plan[i] \notin sent[j]
  <2>1. Lifecycle!Announce(j, i)
    <3>1. plan = CompletionPlan(j, results[j])
      BY DEF Covered
    <3>2. \A k \in 1..(i - 1) : plan[k] \in sent[j]
      BY DEF Covered
    <3>3. sent' = [sent EXCEPT ![j] = @ \cup {plan[i]}]
      BY <1>2 DEF EnqueueCallback
    <3> QED
      BY <3>1, <3>2, <3>3, SamePlan DEF Lifecycle!Announce
  <2>2. i \in DOMAIN CompletionPlan(j, results[j])
    BY DEF Covered
  <2>3. Lifecycle!Next
    BY <2>1, <2>2, SamePlan DEF Lifecycle!Next
  <2> QED
    BY <2>3 DEF Promised
<1> QED
  BY <1>1, <1>2

(* Every step is one of JobLifecycle or leaves its variables alone.            *)
LEMMA LifecycleStep ==
  ASSUME TypeOK, Announcers, [Next]_vars
  PROVE  Promised
<1> USE DEF TypeOK
<1>1. ASSUME NEW s \in Slots, Work(s) PROVE Promised
  <2>1. CASE Claim(s)
    <3>1. Job(s) \in Jobs
      BY <2>1, JobType DEF Claim
    <3>2. CASE Runnable(Job(s))
      BY <2>1, <3>1, <3>2, ClaimPromised DEF Claim, callbacks
    <3>3. CASE ~Runnable(Job(s))
      BY <2>1, <3>3 DEF Claim, callbacks, Promised, Lifecycle!vars
    <3> QED
      BY <3>2, <3>3
  <2>2. ASSUME NEW p \in Pages, PersistPage(s, p) PROVE Promised
    BY <2>2, JobType, InsertPromised DEF PersistPage, callbacks
  <2>3. CASE MarkCompleted(s)
    <3>1. Job(s) \in Jobs
      BY <2>3, JobType DEF MarkCompleted
    <3>2. CASE status[Job(s)] = "running"
      <4>1. ProgressOf(s) \in Progress
        BY DEF WorkerTypes, AttemptType, ProgressOf, Progress
      <4>2. /\ status' = [status EXCEPT ![Job(s)] = "completed"]
            /\ stored' = [stored EXCEPT ![Job(s)] = ProgressOf(s)]
            /\ UNCHANGED <<results, sent>>
        BY <2>3, <3>2 DEF MarkCompleted, SetJobStatus, SourcesOf, callbacks
      <4>3. stored'[Job(s)] = ProgressOf(s)
        BY <3>1, <4>2 DEF RowTypes
      <4>4. Lifecycle!Move(Job(s), {"running"}, "completed")
        BY <3>2, <4>2 DEF Lifecycle!Move
      <4>5. Lifecycle!Complete(Job(s))
        BY <4>1, <4>2, <4>3, <4>4 DEF Lifecycle!Complete, Lifecycle!Progress, Progress
      <4> QED
        BY <3>1, <4>5 DEF Promised, Lifecycle!Next
    <3>3. CASE status[Job(s)] # "running"
      BY <2>3, <3>3 DEF MarkCompleted, SetJobStatus, SourcesOf, callbacks, Promised, Lifecycle!vars
    <3> QED
      BY <3>2, <3>3
  <2>4. CASE Announce(s)
    <3>1. Job(s) \in Jobs
      BY <2>4, JobType DEF Announce
    <3>2. status[Job(s)] = "completed" /\ Covered(Job(s), attempt[s].plan, attempt[s].next)
      BY <2>4 DEF Announce, Announcers
    <3> QED
      BY <2>4, <3>1, <3>2, EnqueuePromised DEF Announce, rows
  <2>5. CASE Catch(s)
    <3>1. Job(s) \in Jobs
      BY <2>5, JobType DEF Catch
    <3>2. CASE FinalAttempt(s) \/ attempt[s].hard
      BY <2>5, <3>1, <3>2, FailPromised DEF Catch, callbacks
    <3>3. CASE ~(FinalAttempt(s) \/ attempt[s].hard)
      BY <2>5, <3>3 DEF Catch, callbacks, Promised, Lifecycle!vars
    <3> QED
      BY <3>2, <3>3
  <2>6. CASE UNCHANGED <<rows, callbacks>>
    BY <2>6 DEF rows, callbacks, Promised, Lifecycle!vars
  <2> QED
    BY <1>1, <2>1, <2>2, <2>3, <2>4, <2>5, <2>6
    DEF Work, ReadState, RunEnds, CountResults, VerifyCompleted, ListCallbacks, Succeed,
        MoveToFailed, CheckPage, callbacks
<1>2. ASSUME NEW s \in Slots, WorkerFault(s) PROVE Promised
  <2>1. CASE ClaimReplyLost(s)
    BY <2>1, JobType, ClaimPromised DEF ClaimReplyLost, callbacks
  <2>2. CASE UNCHANGED <<rows, callbacks>>
    BY <2>2 DEF rows, callbacks, Promised, Lifecycle!vars
  <2> QED
    BY <1>2, <2>1, <2>2
    DEF WorkerFault, SetupFails, WorkerDbError, WorkerRedisError, WorkerCrash, LoseLock,
        PageError, PageTimeout, callbacks
<1>3. CASE \E s \in Slots, j \in Jobs : Take(s, j)
  BY <1>3 DEF Take, rows, callbacks, Promised, Lifecycle!vars
<1>4. CASE \E j \in Jobs : RecoverStalled(j) \/ Promote(j)
  BY <1>4 DEF RecoverStalled, Promote, rows, callbacks, Promised, Lifecycle!vars
<1>5. CASE \E o \in orphans : OrphanPersists(o)
  BY <1>5, InsertPromised DEF OrphanPersists, WorkerTypes, OrphanType, callbacks
<1>6. ASSUME NEW c \in Commands, Send(c) PROVE Promised
  <2>1. ASSUME NEW j \in Jobs, CreateJob(c, j) PROVE Promised
    BY <2>1 DEF CreateJob, callbacks, Promised, Lifecycle!Next, Lifecycle!Submit, Lifecycle!Move
  <2> QED
    BY <1>6, <2>1 DEF Send, ReadJob, rows, callbacks, Promised, Lifecycle!vars
<1>7. ASSUME NEW c \in Commands, Handle(c) PROVE Promised
  <2>1. CASE Cancel(c)
    <3>1. Target(c) \in Jobs
      BY <2>1, TargetType DEF Cancel, Effect
    <3> QED
      BY <2>1, <3>1
      DEF Cancel, callbacks, Promised, Lifecycle!Next, Lifecycle!Cancel, Lifecycle!Move, Lifecycle!vars
  <2>2. CASE ResetJob(c)
    <3>1. Target(c) \in Jobs
      BY <2>2, TargetType DEF ResetJob, Resets
    <3>2. CASE Resettable(Target(c))
      BY <2>2, <3>1, <3>2
      DEF ResetJob, Resettable, callbacks, Promised, Lifecycle!Next, Lifecycle!Requeue, Lifecycle!Move
    <3>3. CASE ~Resettable(Target(c))
      BY <2>2, <3>3 DEF ResetJob, callbacks, Promised, Lifecycle!vars
    <3> QED
      BY <3>2, <3>3
  <2>3. CASE FailJob(c)
    BY <2>3, TargetType, FailPromised DEF FailJob, callbacks
  <2>4. CASE ReconcileAnnounces(c)
    <3>1. Target(c) \in Jobs
      BY <2>4, TargetType DEF ReconcileAnnounces
    <3>2. CASE cmd[c].next \in DOMAIN cmd[c].plan
      <4>1. status[Target(c)] = "completed" /\ Covered(Target(c), cmd[c].plan, cmd[c].next)
        BY <2>4 DEF ReconcileAnnounces, Announcers
      <4> QED
        BY <2>4, <3>1, <3>2, <4>1, EnqueuePromised DEF ReconcileAnnounces, rows
    <3>3. CASE cmd[c].next \notin DOMAIN cmd[c].plan
      BY <2>4, <3>3 DEF ReconcileAnnounces, rows, callbacks, Promised, Lifecycle!vars
    <3> QED
      BY <3>2, <3>3
  <2>5. CASE UNCHANGED <<status, results, stored, callbacks>>
    BY <2>5 DEF callbacks, Promised, Lifecycle!vars
  <2> QED
    BY <1>7, <2>1, <2>2, <2>3, <2>4, <2>5
    DEF Handle, CancelRemoves, Refuse, RemoveForRetry, InspectEntry, PurgeEntry, AddEntry,
        RecordQueued, RecordFailed, ReconcileCallbacks, rows, callbacks
<1>8. CASE \E c \in Commands : ApiFault(c)
  BY <1>8 DEF ApiFault, RemoveFails, AddFails, ApiCrash, rows, callbacks, Promised, Lifecycle!vars
<1>9. CASE UNCHANGED vars
  BY <1>9 DEF vars, rows, callbacks, Promised, Lifecycle!vars
<1> QED
  BY <1>1, <1>2, <1>3, <1>4, <1>5, <1>6, <1>7, <1>8, <1>9 DEF Next

(* What a step of JobLifecycle may not do: undo a completion, change what was  *)
(* completed, or take a callback back.                                         *)
Frozen(j) ==
  /\ status[j] = "completed" =>
       status'[j] = "completed" /\ results'[j] = results[j] /\ stored'[j] = stored[j]
  /\ sent[j] \subseteq sent'[j]

(* No step JobLifecycle promises thaws a job.                                  *)
LEMMA LifecycleFreezes ==
  ASSUME RowTypes, QueueTypes, Promised
  PROVE  \A j \in Jobs : Frozen(j)
<1> USE DEF RowTypes, QueueTypes, Frozen
<1>1. CASE Lifecycle!Next
  BY <1>1
  DEF Lifecycle!Next, Lifecycle!Move, Lifecycle!Submit, Lifecycle!Claim, Lifecycle!Fail,
      Lifecycle!Cancel, Lifecycle!Requeue, Lifecycle!Persist, Lifecycle!Complete, Lifecycle!Announce
<1>2. CASE UNCHANGED Lifecycle!vars
  BY <1>2 DEF Lifecycle!vars
<1> QED
  BY <1>1, <1>2 DEF Promised


-----------------------------------------------------------------------------
(* Announcers is kept.  A slot or a handler that lists or announces either did *)
(* not move, or just began with what the rows say, or announced one callback.  *)

SlotBegins(s) ==
  /\ status[attempt'[s].job] = "completed"
  /\ attempt'[s].pc = "announce" =>
       /\ attempt'[s].plan = CompletionPlan(attempt'[s].job, results[attempt'[s].job])
       /\ attempt'[s].next = 1

(* A slot that lists or announces did so before, has just begun with what the  *)
(* rows say, or has announced one callback.                                    *)
LEMMA SlotMoves ==
  ASSUME TypeOK, Announcers, [Next]_vars, NEW t \in Slots, attempt'[t].pc \in {"list", "announce"}
  PROVE  attempt'[t] = attempt[t] \/ SlotBegins(t) \/ Announce(t)
<1> USE DEF TypeOK, WorkerTypes
<1>1. CASE UNCHANGED attempt
  BY <1>1
<1>2. ASSUME NEW s \in Slots, Work(s), t # s PROVE attempt'[t] = attempt[t]
  BY <1>2
  DEF Work, ReadState, Claim, RunEnds, CountResults, MarkCompleted, VerifyCompleted, ListCallbacks,
      Announce, Succeed, Catch, MoveToFailed, CheckPage, PersistPage, Go, Abandon, Leave
<1>3. CASE Work(t)
  <2>1. CASE ReadState(t)
    BY <2>1, JobType DEF ReadState, SlotBegins, Job, AttemptType
  <2>2. CASE VerifyCompleted(t)
    <3>1. status[Job(t)] = "completed" /\ Go(t, "list")
      BY <2>2 DEF VerifyCompleted, Abandon, AttemptType
    <3> QED
      BY <3>1 DEF SlotBegins, Job, Go
  <2>3. CASE ListCallbacks(t)
    BY <2>3, JobType DEF ListCallbacks, SlotBegins, Announcers, Job, AttemptType
  <2>4. CASE Announce(t)
    BY <2>4
  <2>5. CASE Claim(t) \/ RunEnds(t) \/ CountResults(t) \/ MarkCompleted(t)
    BY <2>5 DEF Claim, RunEnds, CountResults, MarkCompleted, Go, Abandon, AfterUpdate, AttemptType
  <2>6. CASE Succeed(t) \/ Catch(t) \/ MoveToFailed(t)
    BY <2>6 DEF Succeed, Catch, MoveToFailed, Go, Leave, NoAttempt, AttemptType
  <2>7. CASE \E p \in Pages : CheckPage(t, p) \/ PersistPage(t, p)
    BY <2>7 DEF CheckPage, PersistPage, Go, AfterUpdate, AttemptType
  <2> QED
    BY <1>3, <2>1, <2>2, <2>3, <2>4, <2>5, <2>6, <2>7 DEF Work
<1>4. ASSUME NEW s \in Slots, WorkerFault(s) PROVE attempt'[t] = attempt[t]
  BY <1>4
  DEF WorkerFault, SetupFails, WorkerDbError, ClaimReplyLost, WorkerRedisError, WorkerCrash, LoseLock,
      PageError, PageTimeout, Go, Leave, AfterUpdate, NoAttempt, AttemptType
<1>5. ASSUME NEW s \in Slots, NEW j \in Jobs, Take(s, j) PROVE attempt'[t] = attempt[t]
  BY <1>5 DEF Take, NoAttempt, AttemptType
<1>6. CASE \/ \E j \in Jobs : RecoverStalled(j) \/ Promote(j)
           \/ \E o \in orphans : OrphanPersists(o)
           \/ \E c \in Commands : Send(c) \/ Handle(c) \/ ApiFault(c)
           \/ UNCHANGED vars
  <2>1. ASSUME NEW c \in Commands, Send(c) \/ ApiFault(c) PROVE UNCHANGED attempt
    BY <2>1 DEF Send, CreateJob, ReadJob, ApiFault, RemoveFails, AddFails, ApiCrash
  <2>2. ASSUME NEW c \in Commands, Handle(c) PROVE UNCHANGED attempt
    BY <2>2
    DEF Handle, Cancel, CancelRemoves, ResetJob, Refuse, RemoveForRetry, InspectEntry, PurgeEntry,
        AddEntry, RecordQueued, RecordFailed, FailJob, ReconcileCallbacks, ReconcileAnnounces
  <2> QED
    BY <1>6, <2>1, <2>2 DEF RecoverStalled, Promote, OrphanPersists, vars
<1> QED
  BY <1>2, <1>3, <1>4, <1>5, <1>6 DEF Next

CommandBegins(c) ==
  /\ \/ cmd'[c].pc = "effect" /\ cmd'[c].seen = status[cmd'[c].job]
     \/ cmd'[c].pc = "announce" /\ status[cmd'[c].job] = "completed"
  /\ cmd'[c].pc = "announce" =>
       /\ cmd'[c].plan = CompletionPlan(cmd'[c].job, results[cmd'[c].job])
       /\ cmd'[c].next = 1

(* A step changes one handler's pc, the end of a handler one handler.          *)
LEMMA Stepped ==
  ASSUME TypeOK, NEW c \in Commands, NEW pc, Step(c, pc)
  PROVE  cmd'[c].pc = pc /\ \A d \in Commands \ {c} : cmd'[d] = cmd[d]
BY DEF TypeOK, CommandTypes, CommandType, Step

(* Finishing a command leaves the others alone.                                *)
LEMMA Finished ==
  ASSUME TypeOK, NEW c \in Commands, Finish(c)
  PROVE  cmd'[c].pc = "done" /\ \A d \in Commands \ {c} : cmd'[d] = cmd[d]
BY DEF TypeOK, CommandTypes, CommandType, Finish, DoneCommand, IdleCommand

(* The same of a handler that is about to decide or announces.                 *)
LEMMA CommandMoves ==
  ASSUME TypeOK, Announcers, [Next]_vars, NEW d \in Commands, cmd'[d].pc \in {"effect", "announce"}
  PROVE  cmd'[d] = cmd[d] \/ CommandBegins(d)
           \/ (ReconcileAnnounces(d) /\ cmd[d].next \in DOMAIN cmd[d].plan)
<1> USE DEF TypeOK, CommandTypes
<1>1. ASSUME NEW c \in Commands, Send(c)
      PROVE  cmd'[d] = cmd[d] \/ CommandBegins(d)
  <2>1. ASSUME NEW j \in Jobs, CreateJob(c, j) PROVE cmd'[d] = cmd[d]
    BY <2>1 DEF CreateJob, CommandType
  <2>2. ASSUME NEW j \in Jobs, NEW kind \in Kinds, ReadJob(c, j, kind)
        PROVE  cmd'[d] = cmd[d] \/ CommandBegins(d)
    BY <2>2 DEF ReadJob, CommandBegins, CommandType
  <2> QED
    BY <1>1, <2>1, <2>2 DEF Send
<1>2. ASSUME NEW c \in Commands, Handle(c), c # d PROVE cmd'[d] = cmd[d]
  BY <1>2
  DEF Handle, Cancel, CancelRemoves, ResetJob, Refuse, RemoveForRetry, InspectEntry, PurgeEntry,
      AddEntry, RecordQueued, RecordFailed, FailJob, ReconcileCallbacks, ReconcileAnnounces, Step, Finish
<1>3. CASE Handle(d)
  <2>1. CASE ReconcileCallbacks(d)
    BY <2>1 DEF ReconcileCallbacks, CommandBegins, Effect, Announcers, Target, CommandType
  <2>2. CASE ReconcileAnnounces(d)
    BY <2>2 DEF ReconcileAnnounces, Finish, DoneCommand, IdleCommand
  <2>3. CASE Cancel(d) \/ CancelRemoves(d) \/ ResetJob(d) \/ Refuse(d) \/ RemoveForRetry(d)
    BY <2>3, Stepped, Finished DEF Cancel, CancelRemoves, ResetJob, Refuse, RemoveForRetry
  <2>4. CASE InspectEntry(d) \/ PurgeEntry(d) \/ AddEntry(d) \/ RecordQueued(d) \/ RecordFailed(d)
             \/ FailJob(d)
    BY <2>4, Stepped, Finished
    DEF InspectEntry, PurgeEntry, AddEntry, RecordQueued, RecordFailed, FailJob
  <2> QED
    BY <1>3, <2>1, <2>2, <2>3, <2>4 DEF Handle
<1>4. ASSUME NEW c \in Commands, ApiFault(c) PROVE cmd'[d] = cmd[d]
  BY <1>4, Stepped, Finished DEF ApiFault, RemoveFails, AddFails, ApiCrash
<1>5. CASE UNCHANGED cmd
  BY <1>5
<1>6. ASSUME NEW s \in Slots, Work(s) PROVE UNCHANGED cmd
  BY <1>6
  DEF Work, ReadState, Claim, RunEnds, CountResults, MarkCompleted, VerifyCompleted, ListCallbacks,
      Announce, Succeed, Catch, MoveToFailed, CheckPage, PersistPage
<1>7. ASSUME NEW s \in Slots, WorkerFault(s) PROVE UNCHANGED cmd
  BY <1>7
  DEF WorkerFault, SetupFails, WorkerDbError, ClaimReplyLost, WorkerRedisError, WorkerCrash, LoseLock,
      PageError, PageTimeout
<1>8. CASE \/ \E s \in Slots, j \in Jobs : Take(s, j)
           \/ \E j \in Jobs : RecoverStalled(j) \/ Promote(j)
           \/ \E o \in orphans : OrphanPersists(o)
           \/ UNCHANGED vars
  BY <1>8, <1>5 DEF Take, RecoverStalled, Promote, OrphanPersists, vars
<1> QED
  BY <1>1, <1>2, <1>3, <1>4, <1>5, <1>6, <1>7, <1>8 DEF Next

(* Covered in the next state, of values of this or the next state.             *)
CoveredNext(j, plan, next) ==
  /\ plan = CompletionPlan(j, results'[j])
  /\ \A k \in 1..(next - 1) : plan[k] \in sent'[j]

(* Completed stays completed and what is covered stays covered.                *)
LEMMA CoveredStays ==
  ASSUME NEW j \in Jobs, NEW plan, NEW next, Frozen(j), status[j] = "completed"
  PROVE  /\ status'[j] = "completed"
         /\ Covered(j, plan, next) => CoveredNext(j, plan, next)
BY DEF Frozen, Covered, CoveredNext

(* Announcing the next callback of a covered plan covers one more.             *)
LEMMA CoveredGrows ==
  ASSUME QueueTypes, NEW j \in Jobs, NEW plan, NEW i \in Nat \ {0}, NEW progress,
         Covered(j, plan, i), EnqueueCallback(j, plan[i], progress), UNCHANGED results
  PROVE  CoveredNext(j, plan, i + 1)
<1>1. plan[i] \in sent'[j] /\ sent[j] \subseteq sent'[j]
  BY DEF EnqueueCallback, callbacks, QueueTypes
<1>2. ASSUME NEW k \in 1..((i + 1) - 1) PROVE plan[k] \in sent'[j]
  <2>1. CASE k = i
    BY <1>1, <2>1
  <2>2. CASE k # i
    BY <1>1, <2>2 DEF Covered
  <2> QED
    BY <2>1, <2>2
<1> QED
  BY <1>2 DEF Covered, CoveredNext

(* At first nobody announces.                                                  *)
LEMMA AnnouncersInit ==
  ASSUME Init
  PROVE  Announcers
BY DEF Init, Announcers, NoAttempt, IdleCommand

(* No step lets anybody announce for a job that is not completed, or skip a    *)
(* callback of its plan.                                                       *)
LEMMA AnnouncersStep ==
  ASSUME TypeOK, TypeOK', Announcers, [Next]_vars
  PROVE  Announcers'
<1>f. \A j \in Jobs : Frozen(j)
  BY LifecycleStep, LifecycleFreezes DEF TypeOK
<1>1. ASSUME NEW t \in Slots, attempt'[t].pc \in {"list", "announce"}
      PROVE  /\ status'[attempt'[t].job] = "completed"
             /\ attempt'[t].pc = "announce" =>
                  CoveredNext(attempt'[t].job, attempt'[t].plan, attempt'[t].next)
  <2>j. attempt'[t].job \in Jobs
    BY <1>1 DEF TypeOK, WorkerTypes
  <2>1. CASE attempt'[t] = attempt[t]
    BY <1>1, <1>f, <2>j, <2>1, CoveredStays DEF Announcers, Job
  <2>2. CASE SlotBegins(t)
    <3>1. attempt'[t].pc = "announce" => Covered(attempt'[t].job, attempt'[t].plan, attempt'[t].next)
      BY <2>2 DEF SlotBegins, Covered
    <3> QED
      BY <1>f, <2>j, <2>2, <3>1, CoveredStays DEF SlotBegins
  <2>3. CASE Announce(t)
    <3>1. /\ attempt'[t].job = Job(t)
          /\ attempt'[t].plan = attempt[t].plan
          /\ attempt'[t].next = attempt[t].next + 1
      BY <2>3 DEF Announce, TypeOK, WorkerTypes, AttemptType, Job
    <3>2. status[Job(t)] = "completed" /\ Covered(Job(t), attempt[t].plan, attempt[t].next)
      BY <2>3 DEF Announce, Announcers
    <3>3. EnqueueCallback(Job(t), attempt[t].plan[attempt[t].next], ProgressOf(t)) /\ UNCHANGED <<status, results>>
      BY <2>3 DEF Announce, rows
    <3>4. attempt[t].next \in Nat \ {0}
      BY DEF TypeOK, WorkerTypes, AttemptType
    <3> QED
      BY <2>j, <3>1, <3>2, <3>3, <3>4, CoveredGrows DEF TypeOK
  <2> QED
    BY <1>1, <2>1, <2>2, <2>3, SlotMoves
<1>2. ASSUME NEW c \in Commands, cmd'[c].pc = "effect", cmd'[c].seen = "completed"
      PROVE  status'[cmd'[c].job] = "completed"
  <2>j. cmd'[c].job \in Jobs
    BY <1>2 DEF TypeOK, CommandTypes
  <2>1. CASE cmd'[c] = cmd[c]
    BY <1>2, <1>f, <2>j, <2>1, CoveredStays DEF Announcers, Target
  <2>2. CASE CommandBegins(c)
    BY <1>2, <1>f, <2>j, <2>2, CoveredStays DEF CommandBegins
  <2>3. CASE ReconcileAnnounces(c) /\ cmd[c].next \in DOMAIN cmd[c].plan
    BY <1>2, <2>3 DEF ReconcileAnnounces, TypeOK, CommandTypes, CommandType
  <2> QED
    BY <1>2, <2>1, <2>2, <2>3, CommandMoves
<1>3. ASSUME NEW c \in Commands, cmd'[c].pc = "announce"
      PROVE  /\ status'[cmd'[c].job] = "completed"
             /\ CoveredNext(cmd'[c].job, cmd'[c].plan, cmd'[c].next)
  <2>j. cmd'[c].job \in Jobs
    BY <1>3 DEF TypeOK, CommandTypes
  <2>1. CASE cmd'[c] = cmd[c]
    BY <1>3, <1>f, <2>j, <2>1, CoveredStays DEF Announcers, Target
  <2>2. CASE CommandBegins(c)
    <3>1. status[cmd'[c].job] = "completed"
      BY <1>3, <2>2 DEF CommandBegins
    <3>2. Covered(cmd'[c].job, cmd'[c].plan, cmd'[c].next)
      BY <1>3, <2>2 DEF CommandBegins, Covered
    <3> QED
      BY <1>f, <2>j, <3>1, <3>2, CoveredStays
  <2>3. CASE ReconcileAnnounces(c) /\ cmd[c].next \in DOMAIN cmd[c].plan
    <3>1. /\ cmd'[c].job = Target(c)
          /\ cmd'[c].plan = cmd[c].plan
          /\ cmd'[c].next = cmd[c].next + 1
      BY <2>3 DEF ReconcileAnnounces, TypeOK, CommandTypes, CommandType, Target
    <3>2. status[Target(c)] = "completed" /\ Covered(Target(c), cmd[c].plan, cmd[c].next)
      BY <2>3 DEF ReconcileAnnounces, Announcers
    <3>3. EnqueueCallback(Target(c), cmd[c].plan[cmd[c].next], cmd[c].stored) /\ UNCHANGED <<status, results>>
      BY <2>3 DEF ReconcileAnnounces, rows
    <3>4. cmd[c].next \in Nat \ {0}
      BY DEF TypeOK, CommandTypes, CommandType
    <3> QED
      BY <2>j, <3>1, <3>2, <3>3, <3>4, CoveredGrows DEF TypeOK
  <2> QED
    BY <1>3, <2>1, <2>2, <2>3, CommandMoves
<1> QED
  BY <1>1, <1>2, <1>3 DEF Announcers, Covered, CoveredNext, Job, Target

(* The inductive invariant behind everything below.                            *)
IInv == TypeOK /\ Announcers

(* The inductive invariant holds in every reachable state.                     *)
THEOREM IInvHolds == Spec => []IInv
<1>1. Init => IInv
  BY InitType, AnnouncersInit DEF IInv
<1>2. IInv /\ [Next]_vars => IInv'
  BY TypeStep, AnnouncersStep DEF IInv
<1> QED
  BY <1>1, <1>2, PTL DEF Spec

(* Whatever fails, every step of the workers and handlers is one JobLifecycle  *)
(* promises, or changes nothing it speaks of.                                  *)
THEOREM Implements == Spec => ImplementsLifecycle
<1>1. Init => Lifecycle!Init
  BY DEF Init, Lifecycle!Init
<1>2. IInv /\ [Next]_vars => Promised
  BY LifecycleStep DEF IInv
<1> QED
  BY <1>1, <1>2, IInvHolds, PTL DEF Spec, ImplementsLifecycle, Lifecycle!Spec, Promised

(* No late failure, cancel, reset, claim or page touches a completed job.      *)
THEOREM CompletionFinal == Spec => CompletedIsFinal
<1> DEFINE Final == \A j \in Jobs : status[j] = "completed" =>
                      status'[j] = "completed" /\ results'[j] = results[j] /\ stored'[j] = stored[j]
<1>1. IInv /\ [Next]_vars => Final
  BY LifecycleStep, LifecycleFreezes DEF IInv, TypeOK, Frozen
<1> QED
  BY <1>1, IInvHolds, PTL DEF Spec, CompletedIsFinal

-----------------------------------------------------------------------------
(* The order of the callbacks.  A plan names no callback twice, because no     *)
(* page is persisted twice and no page is named like a summary; so the set of  *)
(* what was sent tells how far the plan has come.                              *)

Distinct(seq) == \A a, b \in DOMAIN seq : seq[a] = seq[b] => a = b

RowsDistinct == \A j \in Jobs : Distinct(results[j])

Ordered == RowsDistinct /\ AnnouncedOnlyIfCompleted /\ AnnouncedInOrder

(* When no page is in a list twice, no callback is in its plan twice.          *)
LEMMA PlanDistinct ==
  ASSUME NEW j, NEW seq \in Seq(Pages), Distinct(seq)
  PROVE  Distinct(CompletionPlan(j, seq))
<1>1. "progress" \notin Pages /\ "complete" \notin Pages /\ "progress" # "complete"
  BY DataAssumption DEF Summaries
<1> DEFINE some == seq \o <<"progress">>
<1>2. Distinct(some) /\ Len(some) = Len(seq) + 1 /\ \A a \in DOMAIN some : some[a] # "complete"
  BY <1>1 DEF Distinct
<1>3. Distinct(some \o <<"complete">>)
  BY <1>2 DEF Distinct
<1>4. Distinct(some \o <<>>)
  BY <1>2 DEF Distinct
<1>5. Distinct(<<>> \o <<"complete">>) /\ Distinct(<<>> \o <<>>)
  BY DEF Distinct
<1>6. CompletionPlan(j, seq) \in
        {some \o <<"complete">>, some \o <<>>, <<>> \o <<"complete">>, <<>> \o <<>>}
  BY Zenon DEF CompletionPlan
<1> QED
  BY <1>3, <1>4, <1>5, <1>6

(* A step JobLifecycle promises keeps rows distinct and callbacks in plan      *)
(* order.                                                                      *)
LEMMA OrderedStep ==
  ASSUME RowTypes, QueueTypes, Ordered, Promised
  PROVE  Ordered'
<1>f. \A j \in Jobs : Frozen(j)
  BY LifecycleFreezes
<1>1. CASE UNCHANGED <<results, sent>>
  BY <1>1, <1>f DEF Ordered, RowsDistinct, AnnouncedOnlyIfCompleted, AnnouncedInOrder, Frozen
<1>2. ASSUME NEW j \in Jobs, NEW p \in Pages, Lifecycle!Persist(j, p)
      PROVE  Ordered'
  <2>1. /\ sent' = sent /\ status' = status
        /\ status[j] = "running"
        /\ results' = [results EXCEPT ![j] = Append(@, p)]
        /\ \A a \in DOMAIN results[j] : results[j][a] # p
    BY <1>2 DEF Lifecycle!Persist, Lifecycle!ToSet
  <2>2. sent[j] = {}
    BY <2>1 DEF Ordered, AnnouncedOnlyIfCompleted
  <2>3. RowsDistinct'
    BY <2>1 DEF RowTypes, Ordered, RowsDistinct, Distinct
  <2>4. AnnouncedInOrder'
    BY <2>1, <2>2 DEF RowTypes, Ordered, AnnouncedInOrder
  <2> QED
    BY <2>1, <2>3, <2>4 DEF Ordered, AnnouncedOnlyIfCompleted
<1>3. ASSUME NEW j \in Jobs, NEW i \in DOMAIN CompletionPlan(j, results[j]), Lifecycle!Announce(j, i)
      PROVE  Ordered'
  <2> DEFINE plan == CompletionPlan(j, results[j])
  <2>1. /\ status[j] = "completed" /\ status' = status /\ results' = results
        /\ \A k \in 1..(i - 1) : plan[k] \in sent[j]
        /\ sent' = [sent EXCEPT ![j] = @ \cup {plan[i]}]
    BY <1>3, SamePlan DEF Lifecycle!Announce
  <2>2. plan \in Seq(CallbackIds) /\ Distinct(plan)
    BY PlanType, PlanDistinct DEF RowTypes, Ordered, RowsDistinct
  <2> HIDE DEF plan
  <2>3. sent'[j] = sent[j] \cup {plan[i]} /\ \A h \in Jobs \ {j} : sent'[h] = sent[h]
    BY <2>1 DEF QueueTypes
  <2>4. sent[j] \subseteq ToSet(plan)
    BY DEF Ordered, AnnouncedInOrder, plan
  <2>5. \A m \in DOMAIN plan : plan[m] \in sent[j] => \A k \in 1..m : plan[k] \in sent[j]
    BY DEF Ordered, AnnouncedInOrder, plan
  <2>6. i \in DOMAIN plan
    BY DEF plan
  <2>7. sent'[j] \subseteq ToSet(plan)
    BY <2>3, <2>4, <2>6 DEF ToSet
  <2>8. ASSUME NEW m \in DOMAIN plan, plan[m] \in sent'[j], NEW k \in 1..m
        PROVE  plan[k] \in sent'[j]
    <3>1. CASE plan[m] \in sent[j]
      BY <2>3, <2>5, <3>1
    <3>2. CASE plan[m] = plan[i]
      <4>1. m = i
        BY <2>2, <2>6, <3>2 DEF Distinct
      <4> QED
        BY <2>1, <2>2, <2>3, <2>6, <4>1
    <3> QED
      BY <2>3, <2>8, <3>1, <3>2
  <2>9. AnnouncedInOrder'
    <3>1. ASSUME NEW h \in Jobs \ {j}
          PROVE  /\ sent'[h] \subseteq ToSet(CompletionPlan(h, results'[h]))
                 /\ \A m \in DOMAIN CompletionPlan(h, results'[h]) :
                      CompletionPlan(h, results'[h])[m] \in sent'[h] =>
                        \A k \in 1..m : CompletionPlan(h, results'[h])[k] \in sent'[h]
      BY <2>1, <2>3 DEF Ordered, AnnouncedInOrder
    <3>2. plan = CompletionPlan(j, results'[j])
      BY <2>1 DEF plan
    <3> QED
      BY <2>7, <2>8, <3>1, <3>2 DEF AnnouncedInOrder
  <2> QED
    BY <2>1, <2>3, <2>9 DEF Ordered, RowsDistinct, AnnouncedOnlyIfCompleted
<1> QED
  BY <1>1, <1>2, <1>3, SamePlan
  DEF Promised, Lifecycle!Next, Lifecycle!vars, Lifecycle!Submit, Lifecycle!Claim, Lifecycle!Fail,
      Lifecycle!Cancel, Lifecycle!Requeue, Lifecycle!Complete

(* So rows are distinct and callbacks are in plan order in every reachable     *)
(* state.                                                                      *)
LEMMA OrderedHolds == Spec => []Ordered
<1>1. Init => Ordered
  BY DEF Init, Ordered, RowsDistinct, Distinct, AnnouncedOnlyIfCompleted, AnnouncedInOrder
<1>2. Ordered /\ IInv /\ [Next]_vars => Ordered'
  BY LifecycleStep, OrderedStep DEF IInv, TypeOK
<1> QED
  BY <1>1, <1>2, IInvHolds, PTL DEF Spec

(* Nothing is ever announced for a job that is not completed.                  *)
THEOREM AnnouncedCompleted == Spec => []AnnouncedOnlyIfCompleted
BY OrderedHolds, PTL DEF Ordered

(* Callbacks enter the queue in the order of the plan, whoever announces.      *)
THEOREM AnnouncedOrdered == Spec => []AnnouncedInOrder
BY OrderedHolds, PTL DEF Ordered

=============================================================================

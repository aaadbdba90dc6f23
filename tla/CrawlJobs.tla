------------------------------ MODULE CrawlJobs ------------------------------
(* Crawl jobs from submission to the callbacks queue: the `jobs` and `results` *)
(* rows (repository.ts and the SQL of migration 0003), the BullMQ crawl queue,  *)
(* the workers (workers/crawl.ts) and the API handlers that create, cancel,     *)
(* retry and reconcile (api/app.ts, api/canonical.ts).  Every await on          *)
(* PostgreSQL or Redis is a step; what no other process can tell apart is       *)
(* merged, as the comment of the action says.                                   *)
EXTENDS JobData

CONSTANTS
  Slots,        \* worker concurrency slots, over all crawl worker processes
  Commands,     \* API requests, each with an idempotency key of its own
  Kinds,        \* the commands callers send
  MaxAttempts,  \* defaultJobOptions.attempts
  Budget        \* how often each kind of fault may strike

FaultKinds == {"fetch", "timeout", "db", "redis", "workerCrash", "apiCrash", "stall"}

ASSUME CrawlAssumption ==
  /\ None \notin Slots
  /\ Kinds \subseteq {"create", "cancel", "retry", "reconcile"}
  /\ MaxAttempts \in Nat \ {0}
  /\ Budget \in [FaultKinds -> Nat]

VARIABLES
  \* PostgreSQL
  status, results, stored,
  outcome,   \* job_requests.enqueue_outcome
  \* Redis
  entry,     \* the job's entry in its crawl queue
  sent,      \* the job's entries in the callbacks queue
  told,      \* the progress those entries carry
  \* processes
  attempt,   \* per slot, the run of processCrawlJob it is in
  page,      \* per slot, its requests
  orphans,   \* page handlers that outlived their request's timeout
  cmd,       \* per API request, the handler's state
  \* history and bounds
  life,      \* how often the job was reset to queued
  budget     \* the faults still to come

rows == <<status, results, stored, outcome, life>>
callbacks == <<sent, told>>
vars == <<rows, entry, callbacks, attempt, page, orphans, cmd, budget>>

Lifecycle == INSTANCE JobLifecycle

-----------------------------------------------------------------------------
(* Queue entries: BullMQ as the code uses it.  An entry is locked while it is  *)
(* active; `owner` is the slot that renews the lock.                           *)

EntryStates == {"none", "waiting", "active", "delayed", "failed", "completed"}
LiveStates == {"waiting", "active", "delayed"}

NoEntry == [state |-> "none", made |-> 0, stalls |-> 0, owner |-> None, failed |-> 0]
FreshEntry == [NoEntry EXCEPT !.state = "waiting"]

(* add with a fixed jobId: an entry that exists, finished ones too, is kept.   *)
Add(j) == entry' = IF entry[j].state = "none" THEN [entry EXCEPT ![j] = FreshEntry] ELSE entry

(* removeCrawlJob: job.remove() refuses a locked entry; none is not an error.  *)
NeverLocked(j) == FALSE
Locked(j) == entry[j].state = "active"
Delete(j) == entry' = [entry EXCEPT ![j] = NoEntry]

-----------------------------------------------------------------------------
(* Rows.  set_job_status changes nothing when the row is not in a status the   *)
(* target may be entered from.                                                 *)

SourcesOf(target) ==
  CASE target = "completed" -> {"running"}
    [] target = "failed" -> {"queued", "running"}

SetJobStatus(j, target) ==
  status' = IF status[j] \in SourcesOf(target) THEN [status EXCEPT ![j] = target] ELSE status

(* insertResult: locks the row, inserts only while it runs, skips a known page. *)
InsertAlways(j, p) ==
  results' = IF p \notin ToSet(results[j]) THEN [results EXCEPT ![j] = Append(@, p)] ELSE results
InsertResult(j, p) ==
  results' = IF status[j] = "running" /\ p \notin ToSet(results[j])
             THEN [results EXCEPT ![j] = Append(@, p)] ELSE results

(* enqueueOrReviveCallback for the i-th callback of a plan: ids are fixed, so  *)
(* whoever comes second adds nothing.  (Delivery and revival: CallbackQueue.)  *)
EnqueueCallback(j, id, progress) ==
  IF id \in sent[j] THEN UNCHANGED callbacks
  ELSE /\ sent' = [sent EXCEPT ![j] = @ \cup {id}]
       /\ told' = IF id \in Summaries THEN [told EXCEPT ![j][id] = progress] ELSE told

Spend(fault) ==
  /\ budget[fault] > 0
  /\ budget' = [budget EXCEPT ![fault] = @ - 1]

-----------------------------------------------------------------------------
(* Workers.  An attempt is one call of processCrawlJob; its pc names the await *)
(* it is about to make:                                                        *)
(*   read    getInternalJobState          claim    markJobRunning              *)
(*   crawl   the crawler's run()          count    countJobResults             *)
(*   complete, verify  the two statements of markJobCompleted                  *)
(*   list    queueCompletionCallbacks     announce its loop                    *)
(*   catch   the catch clause             thrown   BullMQ's moveToFailed       *)

NoAttempt ==
  [pc |-> "idle", job |-> None, made |-> 0, life |-> 0, records |-> 0, failed |-> 0,
   discarded |-> FALSE, hard |-> FALSE, plan |-> <<>>, next |-> 1]

Job(s) == attempt[s].job
Holds(s) == entry[Job(s)].owner = s
Go(s, pc) == attempt' = [attempt EXCEPT ![s].pc = pc]
Leave(s) ==
  /\ attempt' = [attempt EXCEPT ![s] = NoAttempt]
  /\ page' = [page EXCEPT ![s] = [p \in Pages |-> "todo"]]

(* job.discard() and `throw new NonRetryableError`. *)
Abandon(s, pc) == attempt' = [attempt EXCEPT ![s].pc = pc, ![s].discarded = TRUE, ![s].hard = TRUE]

(* job.updateProgress writes the attempt's counters to the entry under the     *)
(* job's id, and throws when no entry has that id.                             *)
UpdateProgress(s, failed) ==
  entry' = IF entry[Job(s)].state = "none" THEN entry
           ELSE [entry EXCEPT ![Job(s)].failed = failed]
AfterUpdate(s, pc) == IF entry[Job(s)].state = "none" THEN "catch" ELSE pc

(* A worker takes a waiting entry and reads its attemptsMade and progress.     *)
Take(s, j) ==
  /\ attempt[s].pc = "idle"
  /\ entry[j].state = "waiting"
  /\ entry' = [entry EXCEPT ![j].state = "active", ![j].owner = s]
  /\ attempt' = [attempt EXCEPT ![s] =
       [NoAttempt EXCEPT !.pc = "read", !.job = j, !.made = entry[j].made, !.failed = entry[j].failed]]
  /\ UNCHANGED <<rows, callbacks, page, orphans, cmd, budget>>

ReadStateForgetful(s) ==
  /\ attempt[s].pc = "read"
  /\ Go(s, IF status[Job(s)] = "completed" THEN "list" ELSE "claim")
  /\ UNCHANGED <<rows, entry, callbacks, page, orphans, cmd, budget>>

ReadStateBlind(s) ==
  /\ attempt[s].pc = "read"
  /\ Go(s, "claim")
  /\ UNCHANGED <<rows, entry, callbacks, page, orphans, cmd, budget>>

(* A job that is completed already only has its callbacks queued, with the     *)
(* progress its row stores.                                                    *)
ReadState(s) ==
  /\ attempt[s].pc = "read"
  /\ attempt' = IF status[Job(s)] = "completed"
       THEN [attempt EXCEPT ![s].pc = "list",
                            ![s].records = stored[Job(s)].records,
                            ![s].failed = stored[Job(s)].failed]
       ELSE [attempt EXCEPT ![s].pc = "claim"]
  /\ UNCHANGED <<rows, entry, callbacks, page, orphans, cmd, budget>>

RunnableAny(j) == TRUE
Runnable(j) == status[j] \in {"queued", "running"}

(* markJobRunning and the check of its result, outside the try.                *)
Claim(s) ==
  /\ attempt[s].pc = "claim"
  /\ IF Runnable(Job(s))
     THEN /\ status' = [status EXCEPT ![Job(s)] = "running"]
          /\ attempt' = [attempt EXCEPT ![s].pc = "crawl", ![s].life = life[Job(s)]]
     ELSE status' = status /\ Abandon(s, "thrown")
  /\ UNCHANGED <<results, stored, outcome, life, entry, callbacks, page, orphans, cmd, budget>>

(* A request that fails for good: failedRequestHandler.                        *)
FailPage(s, p) ==
  /\ page' = [page EXCEPT ![s][p] = "failed"]
  /\ UpdateProgress(s, attempt[s].failed + 1)

(* The status checks of preNavigationHooks and of processPage: the second one  *)
(* decides alone whenever the first one passed, so one check, made at either   *)
(* moment, has the same outcomes.                                              *)
CheckPage(s, p) ==
  /\ attempt[s].pc = "crawl"
  /\ page[s][p] = "todo"
  /\ IF status[Job(s)] = "running"
     THEN page' = [page EXCEPT ![s][p] = "checked"] /\ UNCHANGED <<attempt, entry>>
     ELSE /\ FailPage(s, p)
          /\ attempt' = [attempt EXCEPT ![s].pc = AfterUpdate(s, "crawl"),
                                        ![s].discarded = TRUE, ![s].failed = @ + 1]
  /\ UNCHANGED <<rows, callbacks, orphans, cmd, budget>>

(* The rest of processPage: insertResult and updateProgress.                   *)
PersistPage(s, p) ==
  /\ attempt[s].pc = "crawl"
  /\ page[s][p] = "checked"
  /\ InsertResult(Job(s), p)
  /\ page' = [page EXCEPT ![s][p] = "done"]
  /\ UpdateProgress(s, attempt[s].failed)
  /\ Go(s, AfterUpdate(s, "crawl"))
  /\ UNCHANGED <<status, stored, outcome, life, callbacks, orphans, cmd, budget>>

(* The fetch, the target guard or a statement of the handler fails until       *)
(* maxRequestRetries is used up.                                               *)
PageError(s, p) ==
  /\ attempt[s].pc = "crawl"
  /\ page[s][p] \in {"todo", "checked"}
  /\ Spend("fetch")
  /\ FailPage(s, p)
  /\ attempt' = [attempt EXCEPT ![s].pc = AfterUpdate(s, "crawl"), ![s].failed = @ + 1]
  /\ UNCHANGED <<rows, callbacks, orphans, cmd>>

(* requestHandlerTimeoutSecs: the crawler retries the request; the handler it  *)
(* gave up on is not stopped and may still insert.                             *)
PageTimeout(s, p) ==
  /\ attempt[s].pc = "crawl"
  /\ page[s][p] = "checked"
  /\ Spend("timeout")
  /\ page' = [page EXCEPT ![s][p] = "todo"]
  /\ orphans' = orphans \cup {[job |-> Job(s), page |-> p, life |-> attempt[s].life]}
  /\ UNCHANGED <<rows, entry, callbacks, attempt, cmd>>

OrphanPersists(o) ==
  /\ o \in orphans
  /\ InsertResult(o.job, o.page)
  /\ orphans' = orphans \ {o}
  /\ UNCHANGED <<status, stored, outcome, life, entry, callbacks, attempt, page, cmd, budget>>

(* Guarding the start URLs or opening the frontier throws before any request.  *)
SetupFails(s) ==
  /\ attempt[s].pc = "crawl"
  /\ \A p \in Pages : page[s][p] = "todo"
  /\ Spend("fetch")
  /\ Go(s, "catch")
  /\ UNCHANGED <<rows, entry, callbacks, page, orphans, cmd>>

(* run() resolves once every request is handled or has failed for good.        *)
RunEnds(s) ==
  /\ attempt[s].pc = "crawl"
  /\ \A p \in Pages : page[s][p] \in {"done", "failed"}
  /\ Go(s, "count")
  /\ UNCHANGED <<rows, entry, callbacks, page, orphans, cmd, budget>>

KeepOldCount(s) ==
  /\ attempt[s].pc = "count"
  /\ Go(s, AfterUpdate(s, "complete"))
  /\ UpdateProgress(s, attempt[s].failed)
  /\ UNCHANGED <<rows, callbacks, page, orphans, cmd, budget>>

CountResults(s) ==
  /\ attempt[s].pc = "count"
  /\ attempt' = [attempt EXCEPT ![s].records = Len(results[Job(s)]),
                                ![s].pc = AfterUpdate(s, "complete")]
  /\ UpdateProgress(s, attempt[s].failed)
  /\ UNCHANGED <<rows, callbacks, page, orphans, cmd, budget>>

ProgressOf(s) == [records |-> attempt[s].records, failed |-> attempt[s].failed]

MarkCompletedBare(s) ==
  /\ attempt[s].pc = "complete"
  /\ SetJobStatus(Job(s), "completed")
  /\ Go(s, "verify")
  /\ UNCHANGED <<results, stored, outcome, life, entry, callbacks, page, orphans, cmd, budget>>

(* markJobCompleted, first statement: set_job_status with the progress.        *)
MarkCompleted(s) ==
  /\ attempt[s].pc = "complete"
  /\ SetJobStatus(Job(s), "completed")
  /\ stored' = IF status[Job(s)] = "running"
               THEN [stored EXCEPT ![Job(s)] = ProgressOf(s)] ELSE stored
  /\ Go(s, "verify")
  /\ UNCHANGED <<results, outcome, life, entry, callbacks, page, orphans, cmd, budget>>

VerifyNothing(s) ==
  /\ attempt[s].pc = "verify"
  /\ Go(s, "list")
  /\ UNCHANGED <<rows, entry, callbacks, page, orphans, cmd, budget>>

(* ... second statement: whoever completed the job, it is completed.           *)
VerifyCompleted(s) ==
  /\ attempt[s].pc = "verify"
  /\ IF status[Job(s)] = "completed" THEN Go(s, "list") ELSE Abandon(s, "catch")
  /\ UNCHANGED <<rows, entry, callbacks, page, orphans, cmd, budget>>

ListProgressFirst(s) ==
  /\ attempt[s].pc = "list"
  /\ attempt' = [attempt EXCEPT ![s].pc = "announce",
                                ![s].plan = ProgressFirst(Job(s), results[Job(s)]),
                                ![s].next = 1]
  /\ UNCHANGED <<rows, entry, callbacks, page, orphans, cmd, budget>>

(* queueCompletionCallbacks reads the rows once and then enqueues the plan.    *)
ListCallbacks(s) ==
  /\ attempt[s].pc = "list"
  /\ attempt' = [attempt EXCEPT ![s].pc = "announce",
                                ![s].plan = CompletionPlan(Job(s), results[Job(s)]),
                                ![s].next = 1]
  /\ UNCHANGED <<rows, entry, callbacks, page, orphans, cmd, budget>>

Announce(s) ==
  /\ attempt[s].pc = "announce"
  /\ attempt[s].next \in DOMAIN attempt[s].plan
  /\ EnqueueCallback(Job(s), attempt[s].plan[attempt[s].next], ProgressOf(s))
  /\ attempt' = [attempt EXCEPT ![s].next = @ + 1]
  /\ UNCHANGED <<rows, entry, page, orphans, cmd, budget>>

(* processCrawlJob returns and BullMQ moves the entry, if the slot still holds *)
(* its lock.                                                                   *)
Succeed(s) ==
  /\ attempt[s].pc = "announce"
  /\ attempt[s].next \notin DOMAIN attempt[s].plan
  /\ entry' = IF Holds(s)
              THEN [entry EXCEPT ![Job(s)].state = "completed", ![Job(s)].owner = None]
              ELSE entry
  /\ Leave(s)
  /\ UNCHANGED <<rows, callbacks, orphans, cmd, budget>>

FinalAttempt(s) == attempt[s].made + 1 >= MaxAttempts

(* The catch clause: the job is failed when nothing will run it again.  (An    *)
(* error of the completed branch has no catch clause; its row is completed, so *)
(* this step changes nothing there.)                                           *)
CatchNeverFails(s) ==
  /\ attempt[s].pc = "catch"
  /\ Go(s, "thrown")
  /\ UNCHANGED <<rows, entry, callbacks, page, orphans, cmd, budget>>
Catch(s) ==
  /\ attempt[s].pc = "catch"
  /\ IF FinalAttempt(s) \/ attempt[s].hard
     THEN SetJobStatus(Job(s), "failed")
     ELSE status' = status
  /\ Go(s, "thrown")
  /\ UNCHANGED <<results, stored, outcome, life, entry, callbacks, page, orphans, cmd, budget>>

Retries(s) == ~FinalAttempt(s) /\ ~attempt[s].discarded

(* BullMQ's moveToFailed: a retry with backoff, or the end of the entry.       *)
MoveToFailed(s) ==
  /\ attempt[s].pc = "thrown"
  /\ entry' = IF Holds(s)
              THEN [entry EXCEPT ![Job(s)].state = IF Retries(s) THEN "delayed" ELSE "failed",
                                 ![Job(s)].made = @ + 1,
                                 ![Job(s)].owner = None]
              ELSE entry
  /\ Leave(s)
  /\ UNCHANGED <<rows, callbacks, orphans, cmd, budget>>

(* A statement of the worker fails.  Only what is inside the try is caught.    *)
WorkerDbError(s) ==
  /\ attempt[s].pc \in {"read", "claim", "count", "complete", "verify", "list", "catch"}
  /\ Spend("db")
  /\ Go(s, IF attempt[s].pc \in {"read", "claim", "catch"} THEN "thrown" ELSE "catch")
  /\ UNCHANGED <<rows, entry, callbacks, page, orphans, cmd>>

(* markJobRunning commits and its reply is lost: the row runs, nobody runs it. *)
ClaimReplyLost(s) ==
  /\ attempt[s].pc = "claim"
  /\ Runnable(Job(s))
  /\ Spend("db")
  /\ status' = [status EXCEPT ![Job(s)] = "running"]
  /\ Go(s, "thrown")
  /\ UNCHANGED <<results, stored, outcome, life, entry, callbacks, page, orphans, cmd>>

WorkerRedisError(s) ==
  /\ attempt[s].pc = "announce"
  /\ Spend("redis")
  /\ Go(s, "catch")
  /\ UNCHANGED <<rows, entry, callbacks, page, orphans, cmd>>

(* The process dies: its attempt is gone, its lock expires.                    *)
WorkerCrash(s) ==
  /\ attempt[s].pc # "idle"
  /\ Spend("workerCrash")
  /\ entry' = IF Holds(s) THEN [entry EXCEPT ![Job(s)].owner = None] ELSE entry
  /\ Leave(s)
  /\ UNCHANGED <<rows, callbacks, orphans, cmd>>

(* The slot stops renewing its lock, as a blocked event loop does; it runs on. *)
LoseLock(s) ==
  /\ attempt[s].pc # "idle"
  /\ Holds(s)
  /\ Spend("stall")
  /\ entry' = [entry EXCEPT ![Job(s)].owner = None]
  /\ UNCHANGED <<rows, callbacks, attempt, page, orphans, cmd>>

(* BullMQ's stalled check (maxStalledCount 1): an active entry whose lock has  *)
(* expired waits again, once; the second time it fails.                        *)
RecoverStalled(j) ==
  /\ entry[j].state = "active"
  /\ entry[j].owner = None
  /\ entry' = IF entry[j].stalls = 0
              THEN [entry EXCEPT ![j].state = "waiting", ![j].stalls = 1]
              ELSE [entry EXCEPT ![j].state = "failed"]
  /\ UNCHANGED <<rows, callbacks, attempt, page, orphans, cmd, budget>>

(* The backoff of a delayed entry elapses. *)
Promote(j) ==
  /\ entry[j].state = "delayed"
  /\ entry' = [entry EXCEPT ![j].state = "waiting"]
  /\ UNCHANGED <<rows, callbacks, attempt, page, orphans, cmd, budget>>

-----------------------------------------------------------------------------
(* API handlers.  A command's pc names the await its handler is about to make: *)
(*   effect        the effect of executeDurableCommand, after the stale read   *)
(*   cancelRemove  removeCrawlJob of a cancel                                  *)
(*   remove        removeCrawlJob after a reset                                *)
(*   purge         removeCrawlJob of a finished entry (reconcile of queued)    *)
(*   createAdd, retryAdd, reconcileAdd   queue.add                             *)
(*   record, recordFailed   recordJobEnqueueOutcome                            *)
(*   fail          markJobFailed after a failed enqueue                        *)
(*   announce      queueCompletionCallbacks                                    *)

IdleCommand ==
  [pc |-> "new", kind |-> None, job |-> None, seen |-> "absent", stored |-> NoProgress,
   plan |-> <<>>, next |-> 1]
DoneCommand == [IdleCommand EXCEPT !.pc = "done"]

Target(c) == cmd[c].job
Step(c, pc) == cmd' = [cmd EXCEPT ![c].pc = pc]
Finish(c) == cmd' = [cmd EXCEPT ![c] = DoneCommand]
Effect(c, kind) == cmd[c].pc = "effect" /\ cmd[c].kind = kind
Resets(c) == cmd[c].pc = "effect" /\ cmd[c].kind \in {"retry", "reconcile"}

(* POST /jobs after its checks (SubmitJob has those): createJob's transaction. *)
CreateJob(c, j) ==
  /\ cmd[c].pc = "new"
  /\ "create" \in Kinds
  /\ status[j] = "absent"
  /\ status' = [status EXCEPT ![j] = "queued"]
  /\ outcome' = [outcome EXCEPT ![j] = "PENDING"]
  /\ cmd' = [cmd EXCEPT ![c].pc = "createAdd", ![c].kind = "create", ![c].job = j]
  /\ UNCHANGED <<results, stored, life, entry, callbacks, attempt, page, orphans, budget>>

(* The other commands: getJobStatus, whose answer the effect goes by.          *)
ReadJob(c, j, kind) ==
  /\ cmd[c].pc = "new"
  /\ kind # "create"
  /\ status[j] # "absent"
  /\ cmd' = [cmd EXCEPT ![c].pc = "effect", ![c].kind = kind, ![c].job = j,
                        ![c].seen = status[j],
                        ![c].stored = IF stored[j] = None THEN NoProgress ELSE stored[j]]
  /\ UNCHANGED <<rows, entry, callbacks, attempt, page, orphans, budget>>

(* cancelJob: one transaction, and nothing to remove when it changed no row.   *)
Cancel(c) ==
  /\ Effect(c, "cancel")
  /\ IF status[Target(c)] \in {"queued", "running"}
     THEN status' = [status EXCEPT ![Target(c)] = "cancelled"] /\ Step(c, "cancelRemove")
     ELSE status' = status /\ Finish(c)
  /\ UNCHANGED <<results, stored, outcome, life, entry, callbacks, attempt, page, orphans, budget>>

(* Its removeCrawlJob: the answer is the same when the removal is refused.     *)
CancelRemoves(c) ==
  /\ cmd[c].pc = "cancelRemove"
  /\ IF Locked(Target(c)) THEN entry' = entry ELSE Delete(Target(c))
  /\ Finish(c)
  /\ UNCHANGED <<rows, callbacks, attempt, page, orphans, budget>>

(* retry and reconcile of a job read as failed or cancelled: resetJobQueued.   *)
Resettable(j) == status[j] \in {"failed", "cancelled"}
ResetJob(c) ==
  /\ Resets(c)
  /\ cmd[c].seen \in {"failed", "cancelled"}
  /\ IF Resettable(Target(c))
     THEN /\ status' = [status EXCEPT ![Target(c)] = "queued"]
          /\ life' = [life EXCEPT ![Target(c)] = @ + 1]
          /\ Step(c, "remove")
     ELSE UNCHANGED <<status, life>> /\ Finish(c)
  /\ UNCHANGED <<results, stored, outcome, entry, callbacks, attempt, page, orphans, budget>>

(* retry of any other status, reconcile of running: an answer and no effect.   *)
Refuse(c) ==
  /\ Resets(c)
  /\ cmd[c].seen \in IF cmd[c].kind = "retry" THEN {"queued", "running", "completed"}
                                             ELSE {"running"}
  /\ Finish(c)
  /\ UNCHANGED <<rows, entry, callbacks, attempt, page, orphans, budget>>

(* removeCrawlJob after a reset: refused while a worker holds the entry.       *)
RemoveForRetry(c) ==
  /\ cmd[c].pc = "remove"
  /\ IF Locked(Target(c)) THEN entry' = entry /\ Step(c, "fail")
                          ELSE Delete(Target(c)) /\ Step(c, "retryAdd")
  /\ UNCHANGED <<rows, callbacks, attempt, page, orphans, budget>>

(* A bug: the row says queued, so the job is taken to have its entry.          *)
InspectRow(c) ==
  /\ Effect(c, "reconcile")
  /\ cmd[c].seen = "queued"
  /\ Step(c, "record")
  /\ UNCHANGED <<rows, entry, callbacks, attempt, page, orphans, budget>>

(* reconcile of a job read as queued: findCrawlJob and getState.               *)
InspectEntry(c) ==
  /\ Effect(c, "reconcile")
  /\ cmd[c].seen = "queued"
  /\ Step(c, CASE entry[Target(c)].state \in LiveStates -> "record"
              [] entry[Target(c)].state = "none" -> "reconcileAdd"
              [] OTHER -> "purge")
  /\ UNCHANGED <<rows, entry, callbacks, attempt, page, orphans, budget>>

(* removeCrawlJob of the finished entry, outside the try: a refusal ends it.   *)
PurgeEntry(c) ==
  /\ cmd[c].pc = "purge"
  /\ IF Locked(Target(c)) THEN entry' = entry /\ Finish(c)
                          ELSE Delete(Target(c)) /\ Step(c, "reconcileAdd")
  /\ UNCHANGED <<rows, callbacks, attempt, page, orphans, budget>>

(* removeCrawlJob reports a failure, whether or not the entry is gone: a reset *)
(* fails the job, a purge ends the handler, a cancel does not mind.            *)
RemoveFails(c) ==
  /\ cmd[c].pc \in {"cancelRemove", "remove", "purge"}
  /\ Spend("redis")
  /\ entry' = entry \/ (~Locked(Target(c)) /\ Delete(Target(c)))
  /\ IF cmd[c].pc = "remove" THEN Step(c, "fail") ELSE Finish(c)
  /\ UNCHANGED <<rows, callbacks, attempt, page, orphans>>

Adding(c) == cmd[c].pc \in {"createAdd", "retryAdd", "reconcileAdd"}

(* queue.add; create and reconcile-of-queued record the outcome, a reset does  *)
(* not.                                                                        *)
AddEntry(c) ==
  /\ Adding(c)
  /\ Add(Target(c))
  /\ IF cmd[c].pc = "retryAdd" THEN Finish(c) ELSE Step(c, "record")
  /\ UNCHANGED <<rows, callbacks, attempt, page, orphans, budget>>

AddFailsUnnoticed(c) ==
  /\ Adding(c)
  /\ Spend("redis")
  /\ entry' = entry
  /\ Step(c, "record")
  /\ UNCHANGED <<rows, callbacks, attempt, page, orphans>>

(* queue.add reports a failure, whether or not the entry made it to Redis.     *)
AddFails(c) ==
  /\ Adding(c)
  /\ Spend("redis")
  /\ entry' = entry \/ Add(Target(c))
  /\ Step(c, IF cmd[c].pc = "createAdd" THEN "recordFailed" ELSE "fail")
  /\ UNCHANGED <<rows, callbacks, attempt, page, orphans>>

RecordableAny(j, value) == TRUE
Recordable(j, value) == outcome[j] \in {"PENDING", value}

RecordQueued(c) ==
  /\ cmd[c].pc = "record"
  /\ outcome' = IF Recordable(Target(c), "QUEUED")
                THEN [outcome EXCEPT ![Target(c)] = "QUEUED"] ELSE outcome
  /\ Finish(c)
  /\ UNCHANGED <<status, results, stored, life, entry, callbacks, attempt, page, orphans, budget>>

(* create after a failed add; an outcome recorded meanwhile makes it throw     *)
(* before it fails the job.                                                    *)
RecordFailed(c) ==
  /\ cmd[c].pc = "recordFailed"
  /\ IF Recordable(Target(c), "FAILED")
     THEN outcome' = [outcome EXCEPT ![Target(c)] = "FAILED"] /\ Step(c, "fail")
     ELSE outcome' = outcome /\ Finish(c)
  /\ UNCHANGED <<status, results, stored, life, entry, callbacks, attempt, page, orphans, budget>>

FailJob(c) ==
  /\ cmd[c].pc = "fail"
  /\ SetJobStatus(Target(c), "failed")
  /\ Finish(c)
  /\ UNCHANGED <<results, stored, outcome, life, entry, callbacks, attempt, page, orphans, budget>>

(* reconcile of a job read as completed: the callbacks again, with the         *)
(* progress it read.                                                           *)
ReconcileCallbacks(c) ==
  /\ Effect(c, "reconcile")
  /\ cmd[c].seen = "completed"
  /\ cmd' = [cmd EXCEPT ![c].pc = "announce",
                        ![c].plan = CompletionPlan(Target(c), results[Target(c)]),
                        ![c].next = 1]
  /\ UNCHANGED <<rows, entry, callbacks, attempt, page, orphans, budget>>

ReconcileAnnounces(c) ==
  /\ cmd[c].pc = "announce"
  /\ IF cmd[c].next \in DOMAIN cmd[c].plan
     THEN /\ EnqueueCallback(Target(c), cmd[c].plan[cmd[c].next], cmd[c].stored)
          /\ cmd' = [cmd EXCEPT ![c].next = @ + 1]
     ELSE UNCHANGED callbacks /\ Finish(c)
  /\ UNCHANGED <<rows, entry, attempt, page, orphans, budget>>

(* The API process dies, or a statement of the handler that nothing catches    *)
(* fails: the handler goes no further.                                         *)
ApiCrash(c) ==
  /\ cmd[c].pc \notin {"new", "done"}
  /\ Spend("apiCrash")
  /\ Finish(c)
  /\ UNCHANGED <<rows, entry, callbacks, attempt, page, orphans>>

-----------------------------------------------------------------------------

Init ==
  /\ status = [j \in Jobs |-> "absent"]
  /\ results = [j \in Jobs |-> <<>>]
  /\ stored = [j \in Jobs |-> None]
  /\ outcome = [j \in Jobs |-> None]
  /\ life = [j \in Jobs |-> 0]
  /\ entry = [j \in Jobs |-> NoEntry]
  /\ sent = [j \in Jobs |-> {}]
  /\ told = [j \in Jobs |-> [id \in Summaries |-> None]]
  /\ attempt = [s \in Slots |-> NoAttempt]
  /\ page = [s \in Slots |-> [p \in Pages |-> "todo"]]
  /\ orphans = {}
  /\ cmd = [c \in Commands |-> IdleCommand]
  /\ budget = Budget

(* What a slot does by itself once it has taken an entry. *)
Work(s) ==
  \/ ReadState(s) \/ Claim(s) \/ RunEnds(s) \/ CountResults(s)
  \/ MarkCompleted(s) \/ VerifyCompleted(s) \/ ListCallbacks(s) \/ Announce(s)
  \/ Succeed(s) \/ Catch(s) \/ MoveToFailed(s)
  \/ \E p \in Pages : CheckPage(s, p) \/ PersistPage(s, p)

WorkerFault(s) ==
  \/ SetupFails(s) \/ WorkerDbError(s) \/ ClaimReplyLost(s) \/ WorkerRedisError(s)
  \/ WorkerCrash(s) \/ LoseLock(s)
  \/ \E p \in Pages : PageError(s, p) \/ PageTimeout(s, p)

Send(c) == \E j \in Jobs : CreateJob(c, j) \/ \E kind \in Kinds : ReadJob(c, j, kind)

(* What a handler does once it has begun. *)
Handle(c) ==
  \/ Cancel(c) \/ CancelRemoves(c) \/ ResetJob(c) \/ Refuse(c) \/ RemoveForRetry(c)
  \/ InspectEntry(c) \/ PurgeEntry(c) \/ AddEntry(c) \/ RecordQueued(c)
  \/ RecordFailed(c) \/ FailJob(c) \/ ReconcileCallbacks(c) \/ ReconcileAnnounces(c)

ApiFault(c) == RemoveFails(c) \/ AddFails(c) \/ ApiCrash(c)

Next ==
  \/ \E s \in Slots : Work(s) \/ WorkerFault(s) \/ \E j \in Jobs : Take(s, j)
  \/ \E j \in Jobs : RecoverStalled(j) \/ Promote(j)
  \/ \E o \in orphans : OrphanPersists(o)
  \/ \E c \in Commands : Send(c) \/ Handle(c) \/ ApiFault(c)

Spec == Init /\ [][Next]_vars

(* A running event loop goes on with every attempt and handler it has begun;   *)
(* an idle slot takes waiting entries; BullMQ's own timers fire.  Nothing      *)
(* makes a caller send a command, and no fault has to happen.                  *)
Fairness ==
  /\ \A s \in Slots : WF_vars(Work(s)) /\ \A j \in Jobs : WF_vars(Take(s, j))
  /\ \A j \in Jobs : WF_vars(RecoverStalled(j)) /\ WF_vars(Promote(j))
  /\ \A c \in Commands : WF_vars(Handle(c))

FairSpec == Spec /\ Fairness

-----------------------------------------------------------------------------
(* Types.                                                                      *)

AttemptPcs == {"idle", "read", "claim", "crawl", "count", "complete", "verify", "list",
               "announce", "catch", "thrown"}
CommandPcs == {"new", "effect", "cancelRemove", "remove", "purge", "createAdd", "retryAdd",
               "reconcileAdd", "record", "recordFailed", "fail", "announce", "done"}

EntryType == [state : EntryStates, made : Nat, stalls : {0, 1}, owner : Slots \cup {None},
              failed : Nat]
AttemptType == [pc : AttemptPcs, job : Jobs \cup {None}, made : Nat, life : Nat,
                records : Nat, failed : Nat, discarded : BOOLEAN, hard : BOOLEAN,
                plan : Seq(CallbackIds), next : Nat \ {0}]
CommandType == [pc : CommandPcs, kind : Kinds \cup {None}, job : Jobs \cup {None},
                seen : Statuses, stored : Progress, plan : Seq(CallbackIds), next : Nat \ {0}]
OrphanType == [job : Jobs, page : Pages, life : Nat]

(* What is completed has a stored progress.                                    *)
RowTypes ==
  /\ status \in [Jobs -> Statuses]
  /\ results \in [Jobs -> Seq(Pages)]
  /\ stored \in [Jobs -> Progress \cup {None}]
  /\ outcome \in [Jobs -> {"PENDING", "QUEUED", "FAILED", None}]
  /\ life \in [Jobs -> Nat]
  /\ \A j \in Jobs : status[j] = "completed" => stored[j] \in Progress

QueueTypes ==
  /\ entry \in [Jobs -> EntryType]
  /\ sent \in [Jobs -> SUBSET CallbackIds]
  /\ told \in [Jobs -> [Summaries -> Progress \cup {None}]]

(* An attempt at work has a job. *)
WorkerTypes ==
  /\ attempt \in [Slots -> AttemptType]
  /\ page \in [Slots -> [Pages -> {"todo", "checked", "done", "failed"}]]
  /\ orphans \subseteq OrphanType
  /\ \A s \in Slots : attempt[s].pc # "idle" => attempt[s].job \in Jobs

(* So does a handler at work. *)
CommandTypes ==
  /\ cmd \in [Commands -> CommandType]
  /\ \A c \in Commands : cmd[c].pc \notin {"new", "done"} => cmd[c].job \in Jobs

(* Every variable has its type, in particular the progress of every completed  *)
(* job can be told (set_job_status writes status and progress in one update).  *)
TypeOK ==
  /\ RowTypes
  /\ QueueTypes
  /\ WorkerTypes
  /\ CommandTypes
  /\ budget \in [FaultKinds -> Nat]

-----------------------------------------------------------------------------
(* Safety.                                                                     *)

(* Nothing is announced for a job that is not completed: cancelling, failing   *)
(* or crashing at any point leaves no callback behind (queueCompletionCallbacks *)
(* after markJobCompleted, and from reconcile of a job read as completed).     *)
AnnouncedOnlyIfCompleted == \A j \in Jobs : sent[j] # {} => status[j] = "completed"

(* Only callbacks of the plan enter the queue, and each after all those before *)
(* it: the progress never overtakes a result, however many announcers a crash, *)
(* a stall and a reconcile set to work on the same job.                        *)
AnnouncedInOrder ==
  \A j \in Jobs :
    LET plan == CompletionPlan(j, results[j])
    IN  /\ sent[j] \subseteq ToSet(plan)
        /\ \A i \in DOMAIN plan : plan[i] \in sent[j] => \A k \in 1..i : plan[k] \in sent[j]

(* Completion is final: no late failure, cancel, reset, claim or page of       *)
(* anybody touches the status, the rows or the progress of a completed job.    *)
CompletedIsFinal ==
  [][\A j \in Jobs : status[j] = "completed" =>
       status'[j] = "completed" /\ results'[j] = results[j] /\ stored'[j] = stored[j]]_vars

(* Whatever fails, the workers and handlers keep the promises of JobLifecycle. *)
ImplementsLifecycle == Lifecycle!Spec

(* The progress a completed job shows counts the rows it has: nothing inserts  *)
(* between countJobResults and set_job_status('completed').                    *)
StoredCountsRows ==
  \A j \in Jobs : status[j] = "completed" => stored[j].records = Len(results[j])

(* The progress told to middleware and caller is the one the row stores,       *)
(* whoever announced it: the attempt that completed, the one after a crash, or *)
(* a reconcile.                                                                *)
ToldWhatIsStored ==
  \A j \in Jobs, id \in Summaries : told[j][id] # None => told[j][id] = stored[j]

(* Whoever persists a page, an attempt or a handler that outlived its request, *)
(* belongs to the present life of the job: what was in flight when the job was *)
(* cancelled persists nothing, also not into the run a retry starts.           *)
NoLateResult ==
  [][/\ \A s \in Slots, p \in Pages :
         page[s][p] = "checked" /\ page'[s][p] = "done"
           => results' = results \/ attempt[s].life = life[Job(s)]
     /\ \A o \in orphans \ orphans' : results' = results \/ o.life = life[o.job]]_vars

(* An open job is never left alone: its entry will run, or a handler is about  *)
(* to add one or to fail the job.                                              *)
OpenJobIsDriven ==
  \A j \in Jobs : status[j] \in {"queued", "running"} =>
    \/ entry[j].state \in LiveStates
    \/ \E c \in Commands :
         /\ cmd[c].job = j
         /\ cmd[c].pc \in {"createAdd", "retryAdd", "reconcileAdd", "remove", "recordFailed", "fail"}

(* A create whose enqueue failed fails the job only when the request is on     *)
(* record as FAILED: never after a concurrent reconcile recorded QUEUED.       *)
CreateFailsOnRecord ==
  \A c \in Commands : cmd[c].pc = "fail" /\ cmd[c].kind = "create" => outcome[cmd[c].job] = "FAILED"

-----------------------------------------------------------------------------
(* Liveness.                                                                   *)

Open(j) == status[j] \in {"queued", "running"}

(* An API process has died: what its handler had begun stays as it is.         *)
ApiDied == budget["apiCrash"] < Budget["apiCrash"]

(* Every open job comes to an end, unless a handler of the API died on the way. *)
Settles == \A j \in Jobs : Open(j) ~> ~Open(j) \/ ApiDied

(* A completed job gets all its callbacks into the queue, unless the attempts  *)
(* of its entry are used up first, by page errors and lost calls.              *)
Announced ==
  \A j \in Jobs :
    status[j] = "completed" ~>
      sent[j] = ToSet(CompletionPlan(j, results[j])) \/ entry[j].state = "failed" \/ ApiDied

(* The faults that may cut or kill what a reconcile starts.                    *)
CutsLeft(b) == b["db"] + b["redis"] + b["workerCrash"] + b["apiCrash"] + b["stall"]

(* A reconcile of a job it reads as queued, while no attempt is at work on it, *)
(* brings the job to an end, whatever an API crash left of the entry and       *)
(* whatever pages fail, unless it is cut, too.  (An attempt that has found the *)
(* job not runnable before the job was reset shows as active and is about to   *)
(* give up: a reconcile that meets it reports QUEUED and has to be repeated.)  *)
ReconcileRecovers ==
  \A j \in Jobs, n \in 0..CutsLeft(Budget) :
    (/\ \E c \in Commands : Effect(c, "reconcile") /\ Target(c) = j /\ cmd[c].seen = "queued"
     /\ \A s \in Slots : Job(s) # j
     /\ CutsLeft(budget) = n)
      ~> ~Open(j) \/ CutsLeft(budget) < n

=============================================================================

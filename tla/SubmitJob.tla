------------------------------ MODULE SubmitJob ------------------------------
(* POST /api/v1/jobs (api/app.ts): idempotency by the unique index over        *)
(* job_requests, the rate limit in Redis, the insert, the enqueue and its      *)
(* recorded outcome, and what a repetition is told.  What happens to the job   *)
(* afterwards is CrawlJobs's business and only sketched here.                  *)
EXTENDS Naturals, FiniteSets

CONSTANTS
  Requests,    \* HTTP requests; a job is named by the request that creates it
  Keys,        \* tenant, caller and idempotency key
  Payloads,    \* request_hash
  None,
  Limit,       \* KYQRA_JOBS_PER_MINUTE, of one tenant
  MaxMinute,   \* how many minutes the clock may advance
  MaxFaults    \* how many requests may die or find Redis failing

ASSUME SubmitAssumption ==
  /\ None \notin Requests \cup Keys \cup Payloads \cup Nat
  /\ Limit \in Nat \ {0}
  /\ MaxMinute \in Nat
  /\ MaxFaults \in Nat

VARIABLES
  job,      \* the rows of jobs and job_requests
  entry,    \* has the job had an entry in its crawl queue
  request,  \* per request, the handler's state
  answer,   \* what the client has been told
  minute,   \* the clock
  count,    \* kyqra:rate:<tenant>:<minute>
  faults

vars == <<job, entry, request, answer, minute, count, faults>>

NoJob == [key |-> None, hash |-> None, status |-> "absent", outcome |-> None, minute |-> None]
NewRequest == [pc |-> "new", key |-> None, hash |-> None, minute |-> None]
NoAnswer == [kind |-> "none", job |-> None]

Go(r, pc) == request' = [request EXCEPT ![r].pc = pc]
Tell(r, reply) == answer' = [answer EXCEPT ![r] = reply]
Refusal(kind) == [kind |-> kind, job |-> None]

(* The job findIdempotentJob finds under a key. *)
Holders(k) == {j \in Requests : job[j].key = k}

(* A bug: a pending submission is taken for an accepted one.                   *)
ReplyOptimistic(j) ==
  [kind |-> IF job[j].outcome = "FAILED" THEN "failed" ELSE "duplicate", job |-> j]

ReplyWithStatus(j) == [kind |-> job[j].status, job |-> j]

(* sendIdempotentJob. *)
IdempotentReply(j) ==
  [kind |->
     CASE job[j].outcome = "FAILED" \/ (job[j].outcome = "PENDING" /\ job[j].status = "failed") -> "failed"
       [] job[j].outcome = "PENDING" /\ job[j].status = "queued" -> "pending"
       [] OTHER -> "duplicate",
   job |-> j]

(* What a request is told of the job its key already names.                    *)
PriorReply(r, j, hash) == IF job[j].hash # hash THEN Refusal("conflict") ELSE IdempotentReply(j)

-----------------------------------------------------------------------------

(* An invalid body or callback, or missing headers.                            *)
Refuse(r) ==
  /\ request[r].pc = "new"
  /\ Go(r, "done")
  /\ Tell(r, Refusal("invalid"))
  /\ UNCHANGED <<job, entry, minute, count, faults>>

(* findIdempotentJob. *)
Find(r, k, hash) ==
  /\ request[r].pc = "new"
  /\ IF Holders(k) = {}
     THEN /\ request' = [request EXCEPT ![r] = [pc |-> "rate", key |-> k, hash |-> hash, minute |-> None]]
          /\ answer' = answer
     ELSE /\ request' = [request EXCEPT ![r] = [pc |-> "done", key |-> k, hash |-> hash, minute |-> None]]
          /\ \E j \in Holders(k) : Tell(r, PriorReply(r, j, hash))
  /\ UNCHANGED <<job, entry, minute, count, faults>>

(* validateCrawlTarget refuses a start URL. *)
DenyTarget(r) ==
  /\ request[r].pc = "rate"
  /\ Go(r, "done")
  /\ Tell(r, Refusal("denied"))
  /\ UNCHANGED <<job, entry, minute, count, faults>>

(* A bug: the limit is one too high.                                           *)
ExceedsByOne(value) == value > Limit + 1
Exceeds(value) == value > Limit

(* enforceRate: INCR of the minute's counter; the first one also sets its      *)
(* expiry, which outlives the minute and so is never seen to pass.             *)
EnforceRate(r) ==
  /\ request[r].pc = "rate"
  /\ count' = [count EXCEPT ![minute] = @ + 1]
  /\ IF Exceeds(count[minute] + 1)
     THEN Go(r, "done") /\ Tell(r, Refusal("limited"))
     ELSE /\ request' = [request EXCEPT ![r].pc = "create", ![r].minute = minute]
          /\ answer' = answer
  /\ UNCHANGED <<job, entry, minute, faults>>

(* INCR or EXPIRE fails, the counter perhaps counted: answered like a denial.  *)
RateFails(r) ==
  /\ request[r].pc = "rate"
  /\ faults < MaxFaults
  /\ faults' = faults + 1
  /\ count' = count \/ count' = [count EXCEPT ![minute] = @ + 1]
  /\ Go(r, "done")
  /\ Tell(r, Refusal("denied"))
  /\ UNCHANGED <<job, entry, minute>>

NewJob(r) ==
  [key |-> request[r].key, hash |-> request[r].hash, status |-> "queued", outcome |-> "PENDING",
   minute |-> request[r].minute]

(* A bug: nothing in the database keeps the key unique.                        *)
CreateUnchecked(r) ==
  /\ request[r].pc = "create"
  /\ job' = [job EXCEPT ![r] = NewJob(r)]
  /\ Go(r, "add")
  /\ UNCHANGED <<entry, answer, minute, count, faults>>

(* createJob's transaction, or the unique violation of job_requests.           *)
Create(r) ==
  /\ request[r].pc = "create"
  /\ IF Holders(request[r].key) = {}
     THEN job' = [job EXCEPT ![r] = NewJob(r)] /\ Go(r, "add")
     ELSE job' = job /\ Go(r, "refind")
  /\ UNCHANGED <<entry, answer, minute, count, faults>>

RefindUnchecked(r) ==
  /\ request[r].pc = "refind"
  /\ Go(r, "done")
  /\ \E j \in Holders(request[r].key) : Tell(r, IdempotentReply(j))
  /\ UNCHANGED <<job, entry, minute, count, faults>>

(* findIdempotentJob again, after the violation. *)
Refind(r) ==
  /\ request[r].pc = "refind"
  /\ Go(r, "done")
  /\ \E j \in Holders(request[r].key) : Tell(r, PriorReply(r, j, request[r].hash))
  /\ UNCHANGED <<job, entry, minute, count, faults>>

Add(r) ==
  /\ request[r].pc = "add"
  /\ entry' = [entry EXCEPT ![r] = TRUE]
  /\ Go(r, "record")
  /\ UNCHANGED <<job, answer, minute, count, faults>>

(* queue.add reports a failure, whether or not the entry made it to Redis.     *)
AddFails(r) ==
  /\ request[r].pc = "add"
  /\ faults < MaxFaults
  /\ faults' = faults + 1
  /\ entry' = entry \/ entry' = [entry EXCEPT ![r] = TRUE]
  /\ Go(r, "recordFailed")
  /\ UNCHANGED <<job, answer, minute, count>>

(* recordJobEnqueueOutcome throws when the other outcome is on record.         *)
Recordable(j, value) == job[j].outcome \in {"PENDING", value}

RecordQueued(r) ==
  /\ request[r].pc = "record"
  /\ IF Recordable(r, "QUEUED")
     THEN /\ job' = [job EXCEPT ![r].outcome = "QUEUED"]
          /\ Go(r, "done")
          /\ Tell(r, [kind |-> "accepted", job |-> r])
     ELSE Go(r, "gone") /\ UNCHANGED <<job, answer>>
  /\ UNCHANGED <<entry, minute, count, faults>>

RecordFailed(r) ==
  /\ request[r].pc = "recordFailed"
  /\ IF Recordable(r, "FAILED")
     THEN job' = [job EXCEPT ![r].outcome = "FAILED"] /\ Go(r, "fail")
     ELSE job' = job /\ Go(r, "gone")
  /\ UNCHANGED <<entry, answer, minute, count, faults>>

(* markJobFailed: a job that is still queued or running fails.                 *)
Failed(j) == IF job[j].status \in {"queued", "running"} THEN [job EXCEPT ![j].status = "failed"] ELSE job

(* The answer 503. *)
Fail(r) ==
  /\ request[r].pc = "fail"
  /\ job' = Failed(r)
  /\ Go(r, "done")
  /\ Tell(r, [kind |-> "failed", job |-> r])
  /\ UNCHANGED <<entry, minute, count, faults>>

(* The process dies or something uncaught is thrown. *)
Crash(r) ==
  /\ request[r].pc \notin {"new", "done", "gone"}
  /\ faults < MaxFaults
  /\ faults' = faults + 1
  /\ Go(r, "gone")
  /\ UNCHANGED <<job, entry, answer, minute, count>>

-----------------------------------------------------------------------------
(* The rest of the system, as far as a submission can see it, a statement at a *)
(* time.  (CrawlSubmission: CrawlJobs does nothing else to a job.)             *)

(* markJobRunning and markJobCompleted, by a worker that has taken the entry.  *)
Proceed(j, from, to) ==
  /\ job[j].status = from
  /\ entry[j]
  /\ job' = [job EXCEPT ![j].status = to]
  /\ UNCHANGED <<entry, request, answer, minute, count, faults>>

(* markJobFailed, by a worker, or by a retry or reconcile that cannot enqueue. *)
GiveUp(j) ==
  /\ job[j].status \in {"queued", "running"}
  /\ job' = Failed(j)
  /\ UNCHANGED <<entry, request, answer, minute, count, faults>>

(* cancelJob; its removal of the entry does not matter here.                   *)
Cancel(j) ==
  /\ job[j].status \in {"queued", "running"}
  /\ job' = [job EXCEPT ![j].status = "cancelled"]
  /\ UNCHANGED <<entry, request, answer, minute, count, faults>>

(* resetJobQueued, by a retry or a reconcile.                                  *)
Reset(j) ==
  /\ job[j].status \in {"failed", "cancelled"}
  /\ job' = [job EXCEPT ![j].status = "queued"]
  /\ UNCHANGED <<entry, request, answer, minute, count, faults>>

(* Their queue.add, whatever they are told of it.                              *)
Enqueue(j) ==
  /\ job[j].status # "absent"
  /\ entry' = [entry EXCEPT ![j] = TRUE]
  /\ UNCHANGED <<job, request, answer, minute, count, faults>>

(* recordJobEnqueueOutcome of a reconcile, which has found or added an entry.  *)
RecordFound(j) ==
  /\ entry[j]
  /\ Recordable(j, "QUEUED")
  /\ job' = [job EXCEPT ![j].outcome = "QUEUED"]
  /\ UNCHANGED <<entry, request, answer, minute, count, faults>>

MinutePasses ==
  /\ minute < MaxMinute
  /\ minute' = minute + 1
  /\ UNCHANGED <<job, entry, request, answer, count, faults>>

-----------------------------------------------------------------------------

Init ==
  /\ job = [r \in Requests |-> NoJob]
  /\ entry = [r \in Requests |-> FALSE]
  /\ request = [r \in Requests |-> NewRequest]
  /\ answer = [r \in Requests |-> NoAnswer]
  /\ minute = 0
  /\ count = [m \in 0..MaxMinute |-> 0]
  /\ faults = 0

Send(r) == Refuse(r) \/ \E k \in Keys, hash \in Payloads : Find(r, k, hash)

Handle(r) ==
  \/ DenyTarget(r) \/ EnforceRate(r) \/ Create(r) \/ Refind(r) \/ Add(r)
  \/ RecordQueued(r) \/ RecordFailed(r) \/ Fail(r)

Fault(r) == RateFails(r) \/ AddFails(r) \/ Crash(r)

Others(j) ==
  \/ Proceed(j, "queued", "running") \/ Proceed(j, "running", "completed")
  \/ GiveUp(j) \/ Cancel(j) \/ Reset(j) \/ Enqueue(j) \/ RecordFound(j)

Next == MinutePasses \/ \E r \in Requests : Send(r) \/ Handle(r) \/ Fault(r) \/ Others(r)

Spec == Init /\ [][Next]_vars

-----------------------------------------------------------------------------

JobStatuses == {"absent", "queued", "running", "completed", "failed", "cancelled"}
RequestPcs == {"new", "rate", "create", "refind", "add", "record", "recordFailed", "fail", "done", "gone"}
AnswerKinds == {"none", "invalid", "conflict", "denied", "limited", "pending", "duplicate", "failed", "accepted"}
Minutes == 0..MaxMinute
JobRows == [key : Keys \cup {None}, hash : Payloads \cup {None}, status : JobStatuses,
            outcome : {"PENDING", "QUEUED", "FAILED", None}, minute : Minutes \cup {None}]
RequestStates == [pc : RequestPcs, key : Keys \cup {None}, hash : Payloads \cup {None},
                  minute : Minutes \cup {None}]
Answers == [kind : AnswerKinds, job : Requests \cup {None}]

(* Every variable has its type. *)
TypeOK ==
  /\ job \in [Requests -> JobRows]
  /\ entry \in [Requests -> BOOLEAN]
  /\ request \in [Requests -> RequestStates]
  /\ answer \in [Requests -> Answers]
  /\ minute \in Minutes
  /\ count \in [Minutes -> Nat]
  /\ faults \in Nat

(* However often and however concurrently a submission is sent, its key has    *)
(* one job (findIdempotentJob before, the unique index under createJob).       *)
OneJobPerKey ==
  \A i, j \in Requests : job[i].key # None /\ job[i].key = job[j].key => i = j

(* Who is told of a job is told of the one its key and its payload name.       *)
AnswerNamesTheJob ==
  \A r \in Requests : answer[r].job # None =>
    LET j == answer[r].job IN
    /\ job[j].key = request[r].key
    /\ job[j].hash = request[r].hash

(* Who is told "queued" or "duplicate" need not do anything: the job has been  *)
(* in its queue, whatever became of the request that submitted it, or has been *)
(* cancelled.  Otherwise he is told that reconciliation is required.           *)
AcceptedIsEnqueued ==
  [][\A r \in Requests :
       answer'[r] # answer[r] /\ answer'[r].kind \in {"accepted", "duplicate"} =>
         LET j == answer'[r].job IN entry'[j] \/ job'[j].status = "cancelled"]_vars

(* No more jobs are created than the limit of the minute they were counted in. *)
RateLimited ==
  \A m \in Minutes : Cardinality({j \in Requests : job[j].minute = m}) <= Limit

=============================================================================

--------------------------- MODULE CrawlSubmission ---------------------------
(* CrawlJobs and SubmitJob together: what SubmitJob knows of the rest of the   *)
(* system is what CrawlJobs does.  The module only adds to CrawlJobs what      *)
(* SubmitJob keeps and CrawlJobs forgets, as history, and says which state of  *)
(* SubmitJob a state of CrawlJobs is.                                          *)
EXTENDS CrawlJobs

VARIABLES
  had,     \* per job, whether it has had an entry in its crawl queue
  reply,   \* per job, what its create was answered
  struck   \* how many creates have died or found Redis failing

history == <<had, reply, struck>>

(* Handler c is the create of job j, and is not done.                          *)
Creates(c, j) == cmd[c].pc \notin {"new", "done"} /\ cmd[c].kind = "create" /\ cmd[c].job = j

NoReply == [kind |-> "none", job |-> None]
Accepted(j) == [kind |-> "accepted", job |-> j]
Denied(j) == [kind |-> "failed", job |-> j]

(* What a step of CrawlJobs means for a create: `queued` is answered when the  *)
(* outcome is on record, 503 when the job has been failed.                     *)
Remember ==
  /\ had' = [j \in Jobs |-> had[j] \/ entry'[j].state # "none"]
  /\ reply' = [j \in Jobs |->
       IF \E c \in Commands : Creates(c, j) /\ RecordQueued(c) /\ Recordable(j, "QUEUED") THEN Accepted(j)
       ELSE IF \E c \in Commands : Creates(c, j) /\ FailJob(c) THEN Denied(j)
       ELSE reply[j]]
  /\ struck' = IF \E c \in Commands, j \in Jobs : Creates(c, j) /\ (AddFails(c) \/ ApiCrash(c))
               THEN struck + 1 ELSE struck

RememberedInit ==
  /\ Init
  /\ had = [j \in Jobs |-> FALSE]
  /\ reply = [j \in Jobs |-> NoReply]
  /\ struck = 0

Remembered == RememberedInit /\ [][Next /\ Remember]_<<vars, history>>

-----------------------------------------------------------------------------
(* The mapping.  A job's submission has a key of its own and has passed the    *)
(* lookup and the rate limit, both of which CrawlJobs leaves out: it is about  *)
(* to create the job.                                                          *)

Exists(j) == status[j] # "absent"

RowOf(j) ==
  [key |-> IF Exists(j) THEN j ELSE None, hash |-> IF Exists(j) THEN j ELSE None,
   status |-> status[j], outcome |-> outcome[j], minute |-> IF Exists(j) THEN 0 ELSE None]

Stage(j) ==
  IF ~Exists(j) THEN "create"
  ELSE IF \E c \in Commands : Creates(c, j)
       THEN LET pc == cmd[CHOOSE c \in Commands : Creates(c, j)].pc
            IN  IF pc = "createAdd" THEN "add" ELSE pc
  ELSE IF reply[j] = NoReply THEN "gone" ELSE "done"

SubmittedJobs == [j \in Jobs |-> RowOf(j)]
Submitters == [j \in Jobs |-> [pc |-> Stage(j), key |-> j, hash |-> j, minute |-> 0]]

Submission == INSTANCE SubmitJob WITH
  Requests <- Jobs, Keys <- Jobs, Payloads <- Jobs, Limit <- 1, MaxMinute <- 0,
  MaxFaults <- Budget["redis"] + Budget["apiCrash"],
  job <- SubmittedJobs,
  entry <- had,
  request <- Submitters,
  answer <- reply,
  minute <- 0,
  count <- [m \in {0} |-> 0],
  faults <- struck

(* Every step of CrawlJobs is one of SubmitJob, a create's own or one that     *)
(* SubmitJob allows the rest of the system, or nothing a submission can see.   *)
SubmitsAsSubmitJob == [][Submission!Next]_Submission!vars

(* What SubmitJob tells of a job rests on this: one that is on record as       *)
(* queued, or whose create was answered so, or that runs or is completed, has  *)
(* had an entry.                                                               *)
OnRecordHadEntry ==
  \A j \in Jobs :
    \/ /\ Exists(j) /\ outcome[j] = "QUEUED"
    \/ reply[j].kind = "accepted"
    \/ status[j] \in {"running", "completed"}
    => had[j]

=============================================================================

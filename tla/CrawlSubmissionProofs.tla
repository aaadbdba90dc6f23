------------------------ MODULE CrawlSubmissionProofs ------------------------
(* CrawlJobs does to a submitted job what SubmitJob expects of it, for every   *)
(* set of jobs, pages, slots and requests and every budget of faults.          *)
EXTENDS CrawlSubmission, CrawlJobsCalmProofs

-----------------------------------------------------------------------------
(* The strengthening.  An entry, an attempt and a handler about to record one  *)
(* are traces of an entry there has been; a job has one create, which is not   *)
(* answered while it is at work; what a create may suffer is budgeted.         *)

FaultsLeft == budget["redis"] + budget["apiCrash"]

HistoryTypes ==
  /\ had \in [Jobs -> BOOLEAN]
  /\ reply = [j \in Jobs |-> reply[j]]
  /\ struck \in Nat /\ struck + FaultsLeft <= Budget["redis"] + Budget["apiCrash"]

Traces ==
  /\ \A j \in Jobs : /\ entry[j].state # "none" => had[j]
                     /\ entry[j].owner # None => entry[j].state # "none"
  /\ \A s \in Slots : attempt[s].pc # "idle" => had[Job(s)]
  /\ \A c \in Commands : cmd[c].pc = "record" => had[Target(c)]

OneCreate ==
  /\ \A c \in Commands, j \in Jobs : Creates(c, j) =>
       /\ cmd[c].pc \in {"createAdd", "record", "recordFailed", "fail"}
       /\ Exists(j) /\ reply[j] = NoReply
  /\ \A c \in Commands : cmd[c].pc \in {"createAdd", "recordFailed"} => cmd[c].kind = "create"
  /\ \A c, d \in Commands, j \in Jobs : Creates(c, j) /\ Creates(d, j) => c = d
  /\ \A j \in Jobs : ~Exists(j) => reply[j] = NoReply

HistoryInv == HistoryTypes /\ Traces /\ OneCreate /\ OnRecordHadEntry

-----------------------------------------------------------------------------
(* What a step leaves to be remembered.                                        *)

(* A create whose record stays is answered nothing and struck by nothing.      *)
LEMMA Unanswered ==
  ASSUME TypeOK, HistoryTypes, Remember,
         \A c \in Commands, j \in Jobs : Creates(c, j) => cmd'[c] = cmd[c]
  PROVE  reply' = reply /\ struck' = struck
<1>1. ASSUME NEW c \in Commands, NEW j \in Jobs, Creates(c, j)
      PROVE  ~RecordQueued(c) /\ ~FailJob(c) /\ ~AddFails(c) /\ ~ApiCrash(c)
  <2>1. cmd'[c] = cmd[c] /\ cmd[c].pc \notin {"new", "done"}
    BY <1>1 DEF Creates
  <2>2. ~Finish(c)
    BY <2>1, Finished
  <2>3. ~AddFails(c)
    <3>1. SUFFICES ASSUME AddFails(c) PROVE FALSE
      OBVIOUS
    <3>2. cmd[c].pc \in {"createAdd", "retryAdd", "reconcileAdd"} /\ cmd'[c].pc \in {"recordFailed", "fail"}
      BY <3>1, SteppedFields DEF AddFails, Adding, TypeOK
    <3> QED
      BY <2>1, <3>2
  <2> QED
    BY <2>2, <2>3 DEF RecordQueued, FailJob, ApiCrash
<1>2. \A j \in Jobs : reply'[j] = reply[j]
  BY <1>1 DEF Remember
<1>3. reply' = [j \in Jobs |-> reply'[j]] /\ reply = [j \in Jobs |-> reply[j]]
  BY DEF Remember, HistoryTypes
<1>4. reply' = reply
  BY <1>2, <1>3
<1>5. struck' = struck
  BY <1>1 DEF Remember
<1> QED
  BY <1>4, <1>5

(* The step of a create is answered for its own job only.                      *)
LEMMA Answered ==
  ASSUME TypeOK, HistoryTypes, OneCreate, Remember, NEW c \in Commands, NEW j \in Jobs, Creates(c, j),
         \A d \in Commands \ {c} : cmd'[d] = cmd[d]
  PROVE  /\ reply' = IF RecordQueued(c) /\ Recordable(j, "QUEUED") THEN [reply EXCEPT ![j] = Accepted(j)]
                     ELSE IF FailJob(c) THEN [reply EXCEPT ![j] = Denied(j)] ELSE reply
         /\ struck' = IF AddFails(c) \/ ApiCrash(c) THEN struck + 1 ELSE struck
<1>1. ASSUME NEW d \in Commands, NEW k \in Jobs, Creates(d, k), d # c
      PROVE  ~RecordQueued(d) /\ ~FailJob(d) /\ ~AddFails(d) /\ ~ApiCrash(d)
  <2>1. cmd'[d] = cmd[d] /\ cmd[d].pc \notin {"new", "done"}
    BY <1>1 DEF Creates
  <2>2. ~Finish(d)
    BY <2>1, Finished
  <2>3. ~AddFails(d)
    <3>1. SUFFICES ASSUME AddFails(d) PROVE FALSE
      OBVIOUS
    <3>2. cmd[d].pc \in {"createAdd", "retryAdd", "reconcileAdd"} /\ cmd'[d].pc \in {"recordFailed", "fail"}
      BY <3>1, SteppedFields DEF AddFails, Adding, TypeOK
    <3> QED
      BY <2>1, <3>2
  <2> QED
    BY <2>2, <2>3 DEF RecordQueued, FailJob, ApiCrash
<1>2. \A k \in Jobs : Creates(c, k) => k = j
  BY DEF Creates
<1>3. struck' = IF AddFails(c) \/ ApiCrash(c) THEN struck + 1 ELSE struck
  BY <1>1, <1>2 DEF Remember
<1>4. \A k \in Jobs \ {j} : reply'[k] = reply[k]
  BY <1>1, <1>2 DEF Remember
<1>5. reply'[j] = IF RecordQueued(c) /\ Recordable(j, "QUEUED") THEN Accepted(j)
                  ELSE IF FailJob(c) THEN Denied(j) ELSE reply[j]
  BY <1>1, <1>2 DEF Remember
<1>6. reply' = [k \in Jobs |-> reply'[k]] /\ DOMAIN reply = Jobs
  BY DEF Remember, HistoryTypes
<1>7. ASSUME NEW v, reply'[j] = v PROVE reply' = [reply EXCEPT ![j] = v]
  BY <1>4, <1>6, <1>7
<1>8. reply = [k \in Jobs |-> reply[k]]
  BY DEF HistoryTypes
<1>9. reply'[j] = reply[j] => reply' = reply
  BY <1>4, <1>6, <1>8
<1> QED
  BY <1>3, <1>5, <1>7, <1>9

(* An entry there has been is not forgotten.                                   *)
LEMMA HadStays ==
  ASSUME HistoryTypes, Remember
  PROVE  /\ had' \in [Jobs -> BOOLEAN]
         /\ \A j \in Jobs : /\ had[j] => had'[j]
                            /\ entry'[j].state # "none" => had'[j]
                            /\ entry'[j].state = "none" => had'[j] = had[j]
BY DEF HistoryTypes, Remember

-----------------------------------------------------------------------------
(* Workers and queues.                                                         *)

(* What an attempt may do to the status of its job.                            *)
Proceeds(j) ==
  \/ status' = status
  \/ status[j] \in {"queued", "running"} /\ status' = [status EXCEPT ![j] = "running"]
  \/ status[j] = "running" /\ status' = [status EXCEPT ![j] = "completed"]
  \/ status[j] \in {"queued", "running"} /\ status' = [status EXCEPT ![j] = "failed"]

(* The entry stays or goes as it was, perhaps without its owner.               *)
SameEntry(e, r) == (r.state = "none" <=> e.state = "none") /\ r.owner \in {e.owner, None}
SameEntries == \A j \in Jobs : SameEntry(entry[j], entry'[j])

LEMMA EntryChanges ==
  ASSUME entry \in [Jobs -> EntryType], NEW j \in Jobs, NEW r, SameEntry(entry[j], r),
         entry' = [entry EXCEPT ![j] = r]
  PROVE  SameEntries
BY DEF SameEntries, SameEntry

LEMMA Updated ==
  ASSUME TypeOK, NEW s \in Slots, Job(s) \in Jobs, NEW n, UpdateProgress(s, n)
  PROVE  SameEntries
<1>1. entry' = [entry EXCEPT ![Job(s)] = [entry[Job(s)] EXCEPT !.failed = n]] \/ entry' = entry
  BY DEF UpdateProgress
<1>2. SameEntry(entry[Job(s)], [entry[Job(s)] EXCEPT !.failed = n])
  BY DEF SameEntry, TypeOK, QueueTypes, EntryType
<1> QED
  BY <1>1, <1>2, EntryChanges DEF SameEntries, SameEntry, TypeOK, QueueTypes

(* A slot that goes on goes on with its job.                                   *)
SameJob(s) ==
  /\ \A t \in Slots \ {s} : attempt'[t] = attempt[t]
  /\ attempt'[s].pc # "idle" => attempt'[s].job = Job(s)

LEMMA SlotChanges ==
  ASSUME TypeOK, NEW s \in Slots,
         \/ UNCHANGED attempt
         \/ \E pc : Go(s, pc)
         \/ \E pc : Abandon(s, pc)
         \/ Leave(s)
  PROVE  SameJob(s)
<1> USE DEF TypeOK, WorkerTypes, AttemptType, SameJob, Job
<1>1. CASE UNCHANGED attempt
  BY <1>1
<1>2. CASE \E pc : Go(s, pc)
  BY <1>2 DEF Go
<1>3. CASE \E pc : Abandon(s, pc)
  <2>1. PICK pc : Abandon(s, pc)
    BY <1>3
  <2> QED
    BY <2>1 DEF Abandon
<1>4. CASE Leave(s)
  BY <1>4 DEF Leave, NoAttempt
<1> QED
  BY <1>1, <1>2, <1>3, <1>4

(* An attempt neither makes nor takes away an entry.                           *)
LEMMA AttemptMoves ==
  ASSUME TypeOK, Traces, NEW s \in Slots, Work(s) \/ WorkerFault(s)
  PROVE  /\ attempt[s].pc # "idle" /\ Job(s) \in Jobs /\ Proceeds(Job(s))
         /\ UNCHANGED <<outcome, cmd>> /\ SameEntries /\ SameJob(s)
<1> USE DEF TypeOK, QueueTypes, WorkerTypes, AttemptType, EntryType
<1>1. attempt[s].pc # "idle" /\ Job(s) \in Jobs
  <2>1. attempt[s].pc # "idle"
    BY DEF Work, ReadState, Claim, RunEnds, CountResults, MarkCompleted, VerifyCompleted, ListCallbacks,
           Announce, Succeed, Catch, MoveToFailed, CheckPage, PersistPage,
           WorkerFault, SetupFails, WorkerDbError, ClaimReplyLost, WorkerRedisError, WorkerCrash, LoseLock,
           PageError, PageTimeout
  <2> QED
    BY <2>1, JobType
<1>2. UNCHANGED <<outcome, cmd>>
  BY DEF Work, ReadState, Claim, RunEnds, CountResults, MarkCompleted, VerifyCompleted, ListCallbacks,
         Announce, Succeed, Catch, MoveToFailed, CheckPage, PersistPage,
         WorkerFault, SetupFails, WorkerDbError, ClaimReplyLost, WorkerRedisError, WorkerCrash, LoseLock,
         PageError, PageTimeout, rows
<1>3. Proceeds(Job(s))
  BY DEF Proceeds, Runnable, SetJobStatus, SourcesOf,
         Work, ReadState, Claim, RunEnds, CountResults, MarkCompleted, VerifyCompleted, ListCallbacks,
         Announce, Succeed, Catch, MoveToFailed, CheckPage, PersistPage,
         WorkerFault, SetupFails, WorkerDbError, ClaimReplyLost, WorkerRedisError, WorkerCrash, LoseLock,
         PageError, PageTimeout, rows
<1>4. SameEntries
  <2>1. CASE UNCHANGED entry
    BY <2>1 DEF SameEntries, SameEntry
  <2>2. CASE CountResults(s) \/ \E p \in Pages : CheckPage(s, p) \/ PersistPage(s, p) \/ PageError(s, p)
    BY <1>1, <2>1, <2>2, Updated DEF CountResults, CheckPage, PersistPage, PageError, FailPage
  <2>3. ASSUME NEW r, entry' = [entry EXCEPT ![Job(s)] = r], r.owner = None, Holds(s), r.state # "none"
        PROVE  SameEntries
    <3>1. entry[Job(s)].state # "none"
      BY <1>1, <2>3, CrawlAssumption DEF Traces, Holds, CrawlAssumption
    <3> QED
      BY <1>1, <2>3, <3>1, EntryChanges DEF SameEntry
  <2>4. CASE Succeed(s) \/ MoveToFailed(s) \/ WorkerCrash(s) \/ LoseLock(s)
    <3>1. UNCHANGED entry \/ \E r : /\ entry' = [entry EXCEPT ![Job(s)] = r]
                                   /\ r.owner = None /\ Holds(s) /\ r.state # "none"
      <4>1. CASE Succeed(s)
        <5> DEFINE r == [entry[Job(s)] EXCEPT !.state = "completed", !.owner = None]
        <5>1. UNCHANGED entry \/ (Holds(s) /\ entry' = [entry EXCEPT ![Job(s)] = r])
          BY <4>1 DEF Succeed
        <5>2. r.owner = None /\ r.state # "none"
          BY <1>1
        <5> QED
          BY <5>1, <5>2
      <4>2. CASE MoveToFailed(s)
        <5> DEFINE r == [entry[Job(s)] EXCEPT !.state = IF Retries(s) THEN "delayed" ELSE "failed",
                                              !.made = @ + 1, !.owner = None]
        <5>1. UNCHANGED entry \/ (Holds(s) /\ entry' = [entry EXCEPT ![Job(s)] = r])
          BY <4>2 DEF MoveToFailed
        <5>2. r.owner = None /\ r.state # "none"
          BY <1>1
        <5> QED
          BY <5>1, <5>2
      <4>3. CASE WorkerCrash(s) \/ LoseLock(s)
        <5>1. UNCHANGED entry \/ (Holds(s) /\ entry' = [entry EXCEPT ![Job(s)] =
                                                          [entry[Job(s)] EXCEPT !.owner = None]])
          BY <4>3 DEF WorkerCrash, LoseLock
        <5>2. Holds(s) => entry[Job(s)].state # "none"
          BY <1>1, CrawlAssumption DEF Traces, Holds, CrawlAssumption
        <5> QED
          BY <1>1, <5>1, <5>2
      <4> QED
        BY <2>4, <4>1, <4>2, <4>3
    <3> QED
      BY <2>1, <2>3, <3>1
  <2>5. \/ UNCHANGED entry
        \/ CountResults(s) \/ \E p \in Pages : CheckPage(s, p) \/ PersistPage(s, p) \/ PageError(s, p)
        \/ Succeed(s) \/ MoveToFailed(s) \/ WorkerCrash(s) \/ LoseLock(s)
    BY DEF Work, ReadState, Claim, RunEnds, MarkCompleted, VerifyCompleted, ListCallbacks, Announce, Catch,
           WorkerFault, SetupFails, WorkerDbError, ClaimReplyLost, WorkerRedisError, PageTimeout
  <2> QED
    BY <2>1, <2>2, <2>4, <2>5
<1>5. SameJob(s)
  <2>1. ASSUME \/ MarkCompleted(s) \/ VerifyCompleted(s) \/ Succeed(s) \/ Catch(s) \/ MoveToFailed(s)
               \/ RunEnds(s)
               \/ \E p \in Pages : PersistPage(s, p)
               \/ SetupFails(s) \/ WorkerDbError(s) \/ ClaimReplyLost(s) \/ WorkerRedisError(s)
               \/ WorkerCrash(s) \/ LoseLock(s)
               \/ \E p \in Pages : PageTimeout(s, p)
        PROVE  SameJob(s)
    BY <2>1, SlotChanges
    DEF MarkCompleted, VerifyCompleted, Succeed, Catch, MoveToFailed, RunEnds, PersistPage,
        SetupFails, WorkerDbError, ClaimReplyLost, WorkerRedisError, WorkerCrash, LoseLock, PageTimeout
  <2>2. ASSUME NEW r, attempt' = [attempt EXCEPT ![s] = r], r.job = Job(s)
        PROVE  SameJob(s)
    BY <2>2 DEF SameJob
  <2>3. ASSUME ReadState(s) \/ Claim(s) \/ ListCallbacks(s) \/ Announce(s) \/ CountResults(s)
        PROVE  SameJob(s)
    BY <2>3 DEF SameJob, ReadState, Claim, ListCallbacks, Announce, CountResults, Abandon, Job
  <2>4. ASSUME NEW p \in Pages, CheckPage(s, p) \/ PageError(s, p) PROVE SameJob(s)
    BY <2>4 DEF SameJob, CheckPage, PageError, Job
  <2> QED
    BY <2>1, <2>3, <2>4 DEF Work, WorkerFault
<1> QED
  BY <1>1, <1>2, <1>3, <1>4, <1>5

(* What becomes of a handler's record, when it has not just begun a create: it *)
(* ends, or goes on with its job; to record the entry it has added or found.   *)
HandlerGoes(c) ==
  \/ cmd'[c].pc = "done"
  \/ cmd[c].pc = "new" /\ cmd'[c].pc = "effect" /\ cmd'[c].kind # "create"
  \/ /\ cmd[c].pc \notin {"new", "done"} /\ cmd'[c].kind = cmd[c].kind /\ cmd'[c].job = cmd[c].job
     /\ cmd'[c].pc \notin {"new", "done", "createAdd"}
     /\ cmd[c].kind = "create" => cmd'[c].pc \in {"record", "recordFailed", "fail"}
     /\ cmd'[c].pc = "recordFailed" => cmd[c].kind = "create"
     /\ cmd'[c].pc = "record" => entry'[cmd[c].job].state # "none"

(* A handler removes the entry of its job or adds one.                         *)
HandlerTouches(c) ==
  \A j \in Jobs : \/ entry'[j] = entry[j]
                  \/ /\ cmd[c].pc \notin {"new", "done"} /\ j = Target(c)
                     /\ entry'[j] \in {NoEntry, FreshEntry}

LEMMA HandlerMoves ==
  ASSUME TypeOK, RecordInv, OneCreate, NEW c \in Commands,
         \/ \E j \in Jobs, kind \in Kinds : ReadJob(c, j, kind)
         \/ Handle(c)
         \/ ApiFault(c)
  PROVE  /\ UNCHANGED attempt /\ HandlerTouches(c) /\ HandlerGoes(c)
         /\ \A d \in Commands \ {c} : cmd'[d] = cmd[d]
<1> USE DEF TypeOK
<1>1. UNCHANGED attempt
  BY DEF ReadJob, Handle, Cancel, CancelRemoves, ResetJob, Refuse, RemoveForRetry, InspectEntry, PurgeEntry,
         AddEntry, RecordQueued, RecordFailed, FailJob, ReconcileCallbacks, ReconcileAnnounces,
         ApiFault, RemoveFails, AddFails, ApiCrash
<1>2. cmd[c].pc \notin {"new", "done"} => Target(c) \in Jobs
  BY TargetType
<1>3. CASE \E j \in Jobs, kind \in Kinds : ReadJob(c, j, kind)
  <2>1. PICK j \in Jobs, kind \in Kinds : ReadJob(c, j, kind)
    BY <1>3
  <2>2. entry' = entry /\ cmd[c].pc = "new"
    BY <2>1 DEF ReadJob
  <2>3. cmd'[c].pc = "effect" /\ cmd'[c].kind # "create" /\ \A d \in Commands \ {c} : cmd'[d] = cmd[d]
    BY <2>1 DEF ReadJob, CommandTypes, CommandType
  <2> QED
    BY <1>1, <2>2, <2>3 DEF HandlerTouches, HandlerGoes
<1>4. ASSUME Finish(c), HandlerTouches(c)
      PROVE  HandlerGoes(c) /\ \A d \in Commands \ {c} : cmd'[d] = cmd[d]
  BY <1>4, Finished DEF HandlerGoes
<1>5. ASSUME NEW pc, Step(c, pc), cmd[c].pc \notin {"new", "done"}, pc \notin {"new", "done", "createAdd"},
             \A j \in Jobs : Creates(c, j) => pc \in {"record", "recordFailed", "fail"},
             pc = "recordFailed" => cmd[c].kind = "create",
             pc = "record" => entry'[Target(c)].state # "none"
      PROVE  HandlerGoes(c) /\ \A d \in Commands \ {c} : cmd'[d] = cmd[d]
  BY <1>2, <1>5, SteppedFields DEF HandlerGoes, Creates, Target
<1>6. ASSUME cmd[c].pc \in {"effect", "cancelRemove", "remove", "purge", "announce"}
      PROVE  \A j \in Jobs : ~Creates(c, j)
  BY <1>6 DEF OneCreate
<1>7. ASSUME cmd[c].pc \notin {"new", "done"}, \/ UNCHANGED entry
                                             \/ Delete(Target(c))
                                             \/ Add(Target(c))
      PROVE  HandlerTouches(c)
  BY <1>2, <1>7 DEF HandlerTouches, Delete, Add, QueueTypes
<1>8. CASE \/ Cancel(c) \/ CancelRemoves(c) \/ ResetJob(c) \/ Refuse(c) \/ RemoveForRetry(c)
           \/ InspectEntry(c) \/ PurgeEntry(c)
  <2>1. cmd[c].pc \in {"effect", "cancelRemove", "remove", "purge"}
    BY <1>8 DEF Cancel, CancelRemoves, ResetJob, Refuse, RemoveForRetry, InspectEntry, PurgeEntry, Effect, Resets
  <2>2. UNCHANGED entry \/ Delete(Target(c))
    BY <1>8 DEF Cancel, CancelRemoves, ResetJob, Refuse, RemoveForRetry, InspectEntry, PurgeEntry
  <2>3. \/ Finish(c)
        \/ \E pc \in {"cancelRemove", "remove", "fail", "retryAdd", "reconcileAdd", "purge"} : Step(c, pc)
        \/ Step(c, "record") /\ UNCHANGED entry /\ entry[Target(c)].state \in LiveStates
    BY <1>8 DEF Cancel, CancelRemoves, ResetJob, Refuse, RemoveForRetry, InspectEntry, PurgeEntry
  <2> QED
    BY <1>1, <1>4, <1>5, <1>6, <1>7, <2>1, <2>2, <2>3 DEF LiveStates
<1>9. CASE AddEntry(c) \/ AddFails(c)
  <2>1. cmd[c].pc \in {"createAdd", "retryAdd", "reconcileAdd"} /\ (UNCHANGED entry \/ Add(Target(c)))
    BY <1>9 DEF AddEntry, AddFails, Adding
  <2>2. Add(Target(c)) => entry'[Target(c)].state # "none"
    BY <1>2, <2>1 DEF Add, FreshEntry, NoEntry, QueueTypes
  <2>3. \/ Finish(c)
        \/ Step(c, "fail")
        \/ Step(c, "recordFailed") /\ cmd[c].pc = "createAdd"
        \/ Step(c, "record") /\ Add(Target(c))
    BY <1>9 DEF AddEntry, AddFails
  <2> QED
    BY <1>1, <1>4, <1>5, <1>7, <2>1, <2>2, <2>3 DEF OneCreate
<1>10. CASE RecordQueued(c) \/ RecordFailed(c) \/ FailJob(c) \/ ApiCrash(c)
  <2>1. cmd[c].pc \notin {"new", "done"} /\ UNCHANGED entry /\ (Finish(c) \/ Step(c, "fail"))
    BY <1>10 DEF RecordQueued, RecordFailed, FailJob, ApiCrash
  <2> QED
    BY <1>1, <1>4, <1>5, <1>7, <2>1
<1>11. CASE RemoveFails(c)
  <2>1. /\ cmd[c].pc \in {"cancelRemove", "remove", "purge"} /\ (UNCHANGED entry \/ Delete(Target(c)))
        /\ Finish(c) \/ Step(c, "fail")
    BY <1>11 DEF RemoveFails
  <2> QED
    BY <1>1, <1>4, <1>5, <1>7, <2>1
<1>12. CASE ReconcileCallbacks(c) \/ ReconcileAnnounces(c)
  <2>1. cmd[c].pc \in {"effect", "announce"} /\ UNCHANGED entry
    BY <1>12 DEF ReconcileCallbacks, ReconcileAnnounces, Effect
  <2>2. \/ Finish(c)
        \/ /\ cmd'[c].pc = "announce" /\ cmd'[c].kind = cmd[c].kind /\ cmd'[c].job = cmd[c].job
           /\ \A d \in Commands \ {c} : cmd'[d] = cmd[d]
    BY <1>12, <2>1 DEF ReconcileCallbacks, ReconcileAnnounces, CommandTypes, CommandType
  <2>3. cmd[c].kind # "create"
    BY <1>2, <1>6, <2>1 DEF Creates, Target
  <2> QED
    BY <1>1, <1>4, <1>7, <2>1, <2>2, <2>3 DEF HandlerGoes
<1> QED
  BY <1>3, <1>8, <1>9, <1>10, <1>11, <1>12 DEF Handle, ApiFault

(* What a handler's step leaves on record.                                     *)
HandlerWrites(c) ==
  \A j \in Jobs :
    /\ Exists(j)' <=> Exists(j)
    /\ status'[j] \in {"running", "completed"} => status[j] = status'[j]
    /\ \/ outcome'[j] = outcome[j]
       \/ outcome'[j] = "FAILED"
       \/ cmd[c].pc = "record" /\ j = Target(c)

LEMMA HandlerRecords ==
  ASSUME TypeOK, NEW c \in Commands,
         \/ \E j \in Jobs, kind \in Kinds : ReadJob(c, j, kind)
         \/ Handle(c)
         \/ ApiFault(c)
  PROVE  HandlerWrites(c)
<1> USE DEF TypeOK, RowTypes, HandlerWrites, Exists
<1>1. \/ UNCHANGED <<status, outcome>>
      \/ Cancel(c) \/ ResetJob(c) \/ RecordQueued(c) \/ RecordFailed(c) \/ FailJob(c)
  BY DEF ReadJob, Handle, CancelRemoves, Refuse, RemoveForRetry, InspectEntry, PurgeEntry,
         AddEntry, ReconcileCallbacks, ReconcileAnnounces, ApiFault, RemoveFails, AddFails, ApiCrash, rows
<1>2. CASE Cancel(c) \/ ResetJob(c)
  BY <1>2 DEF Cancel, ResetJob, Resettable
<1>3. CASE RecordQueued(c) \/ RecordFailed(c)
  BY <1>3 DEF RecordQueued, RecordFailed
<1>4. CASE FailJob(c)
  BY <1>4 DEF FailJob, SetJobStatus, SourcesOf
<1> QED
  BY <1>1, <1>2, <1>3, <1>4

(* Who is answered had its record about to be written, or its job to be failed. *)
LEMMA ReplyMoves ==
  ASSUME TypeOK, Remember, NEW j \in Jobs
  PROVE  \/ reply'[j] = reply[j]
         \/ \E c \in Commands :
              /\ Creates(c, j) /\ cmd'[c].pc = "done"
              /\ \/ reply'[j] = Denied(j)
                 \/ reply'[j] = Accepted(j) /\ cmd[c].pc = "record"
<1>1. reply'[j] = IF \E c \in Commands : Creates(c, j) /\ RecordQueued(c) /\ Recordable(j, "QUEUED")
                  THEN Accepted(j)
                  ELSE IF \E c \in Commands : Creates(c, j) /\ FailJob(c) THEN Denied(j)
                  ELSE reply[j]
  BY DEF Remember
<1>2. ASSUME NEW c \in Commands, RecordQueued(c) PROVE cmd'[c].pc = "done" /\ cmd[c].pc = "record"
  BY <1>2, Finished DEF RecordQueued
<1>3. ASSUME NEW c \in Commands, FailJob(c) PROVE cmd'[c].pc = "done"
  BY <1>3, Finished DEF FailJob
<1> QED
  BY <1>1, <1>2, <1>3

-----------------------------------------------------------------------------
(* The strengthening is inductive.                                             *)

LEMMA StruckIsSpent ==
  ASSUME TypeOK, HistoryTypes, Next, Remember
  PROVE  HistoryTypes'
<1> USE DEF TypeOK, FaultKinds
<1>1. had' \in [Jobs -> BOOLEAN] /\ reply' = [j \in Jobs |-> reply'[j]]
  BY HadStays DEF Remember
<1>2. /\ Budget["redis"] \in Nat /\ Budget["apiCrash"] \in Nat
      /\ budget["redis"] \in Nat /\ budget["apiCrash"] \in Nat /\ struck \in Nat
  BY CrawlAssumption DEF CrawlAssumption, HistoryTypes
<1>3. ASSUME NEW c \in Commands, AddFails(c) \/ ApiCrash(c)
      PROVE  \E f \in {"redis", "apiCrash"} : Spend(f)
  BY <1>3 DEF AddFails, ApiCrash
<1>4. ASSUME NEW f \in FaultKinds, Spend(f)
      PROVE  budget[f] > 0 /\ budget' = [budget EXCEPT ![f] = budget[f] - 1]
  BY <1>4 DEF Spend
<1>5. CASE \E f \in {"redis", "apiCrash"} : Spend(f)
  <2>1. FaultsLeft' \in Nat /\ FaultsLeft' + 1 = FaultsLeft
    BY <1>2, <1>4, <1>5 DEF FaultsLeft
  <2>2. struck' \in {struck, struck + 1}
    BY DEF Remember
  <2> QED
    BY <1>1, <1>2, <2>1, <2>2 DEF HistoryTypes, FaultsLeft
<1>6. CASE ~\E f \in {"redis", "apiCrash"} : Spend(f)
  <2>1. struck' = struck
    BY <1>3, <1>6 DEF Remember
  <2>2. budget' = budget \/ \E f \in FaultKinds \ {"redis", "apiCrash"} : Spend(f)
    BY <1>6, StepSpends
  <2>3. FaultsLeft' = FaultsLeft
    BY <1>4, <2>2 DEF FaultsLeft
  <2> QED
    BY <1>1, <2>1, <2>3 DEF HistoryTypes
<1> QED
  BY <1>5, <1>6

(* A step is an attempt's, a queue's, a late page handler's, the beginning of  *)
(* a create, or another step of a handler.                                     *)
LEMMA Steps ==
  ASSUME Next
  PROVE  \/ \E s \in Slots : Work(s) \/ WorkerFault(s)
         \/ \E j \in Jobs : RecoverStalled(j) \/ Promote(j) \/ \E s \in Slots : Take(s, j)
         \/ \E o \in orphans : OrphanPersists(o)
         \/ \E c \in Commands, j \in Jobs : CreateJob(c, j)
         \/ \E c \in Commands : \/ \E j \in Jobs, kind \in Kinds : ReadJob(c, j, kind)
                                \/ Handle(c)
                                \/ ApiFault(c)
BY DEF Next, Send

(* A queue moves an entry that is there. *)
LEMMA QueueMoves ==
  ASSUME TypeOK, HistoryTypes, Traces, Remember, NEW j \in Jobs,
         RecoverStalled(j) \/ Promote(j) \/ \E s \in Slots : Take(s, j)
  PROVE  UNCHANGED <<rows, cmd, budget>> /\ Traces'
<1> USE DEF TypeOK, QueueTypes, WorkerTypes, EntryType, AttemptType
<1>1. UNCHANGED <<rows, cmd, budget>>
  BY DEF RecoverStalled, Promote, Take
<1>2. entry[j].state # "none" /\ entry'[j].state # "none" /\ \A k \in Jobs \ {j} : entry'[k] = entry[k]
  BY DEF RecoverStalled, Promote, Take
<1>3. had[j]
  BY <1>2 DEF Traces
<1>4. \A s \in Slots : attempt'[s].pc # "idle" => attempt'[s] = attempt[s] \/ attempt'[s].job = j
  <2>1. ASSUME NEW s \in Slots, Take(s, j)
        PROVE  attempt'[s].job = j /\ \A t \in Slots \ {s} : attempt'[t] = attempt[t]
    BY <2>1 DEF Take, NoAttempt
  <2>2. RecoverStalled(j) \/ Promote(j) => attempt' = attempt
    BY DEF RecoverStalled, Promote
  <2> QED
    BY <2>1, <2>2
<1>5. \A k \in Jobs : entry'[k].owner # None => entry'[k].state # "none"
  BY <1>2 DEF Traces
<1>6. ASSUME NEW s \in Slots, attempt'[s].pc # "idle" PROVE had'[Job(s)']
  <2>1. CASE attempt'[s] = attempt[s]
    <3>1. Job(s) \in Jobs /\ had[Job(s)]
      BY <1>6, <2>1, JobType DEF Traces
    <3>2. Job(s)' = Job(s)
      BY <2>1 DEF Job
    <3>3. had'[Job(s)]
      BY <3>1, HadStays
    <3> QED
      BY <3>2, <3>3
  <2>2. CASE attempt'[s].job = j
    BY <1>3, <2>2, HadStays DEF Job
  <2> QED
    BY <1>4, <1>6, <2>1, <2>2
<1>7. ASSUME NEW c \in Commands, cmd'[c].pc = "record" PROVE had'[Target(c)']
  BY <1>1, <1>7, TargetType, HadStays DEF Traces, Target
<1> QED
  BY <1>1, <1>5, <1>6, <1>7, HadStays DEF Traces

LEMMA TracesStay ==
  ASSUME IInv, RecordInv, HistoryInv, Next, Remember
  PROVE  Traces'
<1> USE DEF IInv, TypeOK, HistoryInv, QueueTypes, WorkerTypes, CommandTypes
<1>1. \A j \in Jobs : /\ had[j] => had'[j]
                      /\ entry'[j].state # "none" => had'[j]
  BY HadStays
<1>2. CASE \E s \in Slots : Work(s) \/ WorkerFault(s)
  <2>1. PICK s \in Slots : Work(s) \/ WorkerFault(s)
    BY <1>2
  <2>2. attempt[s].pc # "idle" /\ Job(s) \in Jobs /\ UNCHANGED cmd /\ SameEntries /\ SameJob(s)
    BY <2>1, AttemptMoves
  <2>3. \A j \in Jobs : entry'[j].owner # None => entry'[j].state # "none"
    BY <2>2 DEF SameEntries, SameEntry, Traces
  <2>4. \A t \in Slots : attempt'[t].pc # "idle" => attempt[t].pc # "idle" /\ Job(t)' = Job(t)
    BY <2>2 DEF SameJob, Job
  <2>5. \A t \in Slots : attempt[t].pc # "idle" => Job(t) \in Jobs
    BY JobType
  <2>6. \A c \in Commands : cmd[c].pc = "record" => Target(c) \in Jobs /\ had[Target(c)] /\ Target(c)' = Target(c)
    BY <2>2, TargetType DEF Traces, Target
  <2> QED
    BY <1>1, <2>2, <2>3, <2>4, <2>5, <2>6 DEF Traces
<1>3. CASE \E j \in Jobs : RecoverStalled(j) \/ Promote(j) \/ \E s \in Slots : Take(s, j)
  BY <1>3, QueueMoves
<1>4. \A c \in Commands : cmd[c].pc = "record" => Target(c) \in Jobs /\ had[Target(c)]
  BY TargetType DEF Traces
<1>5. ASSUME UNCHANGED attempt, \A j \in Jobs : entry'[j].owner # None => entry'[j].state # "none",
             \A c \in Commands : cmd'[c].pc = "record" =>
               \/ cmd'[c] = cmd[c]
               \/ cmd'[c].job \in Jobs /\ entry'[cmd'[c].job].state # "none"
               \/ cmd[c].pc = "record" /\ cmd'[c].job = cmd[c].job
      PROVE  Traces'
  <2>1. \A s \in Slots : attempt'[s].pc # "idle" => had'[Job(s)']
    BY <1>1, <1>5, JobType DEF Traces, Job
  <2>2. \A c \in Commands : cmd'[c].pc = "record" => had'[Target(c)']
    BY <1>1, <1>4, <1>5 DEF Target
  <2> QED
    BY <1>1, <1>5, <2>1, <2>2 DEF Traces
<1>6. CASE \E o \in orphans : OrphanPersists(o)
  BY <1>5, <1>6 DEF OrphanPersists, Traces
<1>7. CASE \E c \in Commands, j \in Jobs : CreateJob(c, j)
  <2>1. PICK c \in Commands, j \in Jobs : CreateJob(c, j)
    BY <1>7
  <2>2. UNCHANGED <<attempt, entry>> /\ cmd'[c].pc = "createAdd" /\ \A d \in Commands \ {c} : cmd'[d] = cmd[d]
    BY <2>1 DEF CreateJob, CommandType
  <2> QED
    BY <1>5, <2>2 DEF Traces
<1>8. CASE \E c \in Commands : \/ \E j \in Jobs, kind \in Kinds : ReadJob(c, j, kind)
                               \/ Handle(c)
                               \/ ApiFault(c)
  <2>1. PICK c \in Commands : \/ \E j \in Jobs, kind \in Kinds : ReadJob(c, j, kind)
                              \/ Handle(c)
                              \/ ApiFault(c)
    BY <1>8
  <2>2. /\ UNCHANGED attempt /\ HandlerTouches(c) /\ HandlerGoes(c)
        /\ \A d \in Commands \ {c} : cmd'[d] = cmd[d]
    BY <2>1, HandlerMoves
  <2>3. \A j \in Jobs : entry'[j].owner # None => entry'[j].state # "none"
    BY <2>2 DEF HandlerTouches, Traces, NoEntry, FreshEntry
  <2>4. cmd'[c].pc = "record" => cmd'[c].job \in Jobs /\ entry'[cmd'[c].job].state # "none"
    BY <2>2 DEF HandlerGoes
  <2> QED
    BY <1>5, <2>2, <2>3, <2>4
<1> QED
  BY <1>2, <1>3, <1>6, <1>7, <1>8, Steps

(* Whichever create is at work after a step was before, or has just begun.     *)
CreatesBefore ==
  \A c \in Commands :
    /\ \A j \in Jobs : Creates(c, j)' =>
         /\ cmd'[c].pc \in {"createAdd", "record", "recordFailed", "fail"}
         /\ Creates(c, j) \/ (CreateJob(c, j) /\ cmd'[c].pc = "createAdd")
    /\ cmd'[c].pc \in {"createAdd", "recordFailed"} => cmd'[c].kind = "create"

LEMMA CreatesGo ==
  ASSUME IInv, RecordInv, HistoryInv, Next
  PROVE  CreatesBefore
<1> USE DEF IInv, TypeOK, HistoryInv, CreatesBefore, Creates
<1>1. CASE UNCHANGED cmd
  BY <1>1 DEF OneCreate
<1>2. CASE \E c \in Commands, j \in Jobs : CreateJob(c, j)
  <2>1. PICK c \in Commands, j \in Jobs : CreateJob(c, j)
    BY <1>2
  <2>2. /\ cmd'[c].pc = "createAdd" /\ cmd'[c].kind = "create" /\ cmd'[c].job = j
        /\ \A d \in Commands \ {c} : cmd'[d] = cmd[d]
    BY <2>1 DEF CreateJob, CommandTypes, CommandType
  <2> QED
    BY <2>1, <2>2 DEF OneCreate
<1>3. CASE \E c \in Commands : \/ \E j \in Jobs, kind \in Kinds : ReadJob(c, j, kind)
                               \/ Handle(c)
                               \/ ApiFault(c)
  <2>1. PICK c \in Commands : \/ \E j \in Jobs, kind \in Kinds : ReadJob(c, j, kind)
                              \/ Handle(c)
                              \/ ApiFault(c)
    BY <1>3
  <2>2. HandlerGoes(c) /\ \A d \in Commands \ {c} : cmd'[d] = cmd[d]
    BY <2>1, HandlerMoves
  <2> QED
    BY <2>2 DEF HandlerGoes, OneCreate
<1> QED
  BY <1>1, <1>2, <1>3, WorkersOnly DEF Send

LEMMA OneCreateStays ==
  ASSUME IInv, RecordInv, HistoryInv, Next, Remember
  PROVE  OneCreate'
<1> USE DEF HistoryInv
<1>1. TypeOK /\ CreatesBefore
  BY CreatesGo DEF IInv
<1>2. \A j \in Jobs : Exists(j) => Exists(j)'
  BY JobsStay DEF IInv, Exists
<1>3. ASSUME NEW c \in Commands, NEW j \in Jobs, CreateJob(c, j)
      PROVE  ~Exists(j) /\ Exists(j)'
  BY <1>1, <1>3 DEF CreateJob, Exists, TypeOK, RowTypes
<1>4. ASSUME NEW j \in Jobs, reply'[j] # reply[j]
      PROVE  \E c \in Commands : Creates(c, j) /\ cmd'[c].pc = "done"
  BY <1>1, <1>4, ReplyMoves
<1>5. ASSUME NEW c \in Commands, NEW j \in Jobs, Creates(c, j)'
      PROVE  /\ cmd'[c].pc \in {"createAdd", "record", "recordFailed", "fail"}
             /\ Exists(j)' /\ reply'[j] = NoReply
             /\ \A d \in Commands : Creates(d, j)' => c = d
  <2>1. cmd'[c].pc \in {"createAdd", "record", "recordFailed", "fail"}
    BY <1>1, <1>5 DEF CreatesBefore
  <2>2. CASE Creates(c, j)
    <3>1. Exists(j) /\ reply[j] = NoReply /\ \A d \in Commands : Creates(d, j) => c = d
      BY <2>2 DEF OneCreate
    <3>2. \A d \in Commands : Creates(d, j)' => c = d
      BY <1>1, <1>3, <3>1 DEF CreatesBefore
    <3> QED
      BY <1>2, <1>4, <2>1, <3>1, <3>2
  <2>3. CASE CreateJob(c, j)
    <3>1. ~Exists(j) /\ Exists(j)'
      BY <1>3, <2>3
    <3>2. reply[j] = NoReply /\ \A d \in Commands : ~Creates(d, j)
      BY <3>1 DEF OneCreate
    <3>3. \A d \in Commands : CreateJob(d, j) => c = d
      <4>1. \A d \in Commands \ {c} : cmd'[d] = cmd[d]
        BY <1>1, <2>3 DEF CreateJob, TypeOK, CommandTypes
      <4>2. ASSUME NEW d \in Commands, CreateJob(d, j) PROVE cmd[d].pc = "new" /\ cmd'[d].pc = "createAdd"
        BY <1>1, <4>2 DEF CreateJob, TypeOK, CommandTypes, CommandType
      <4> QED
        BY <4>1, <4>2
    <3> QED
      BY <1>1, <1>4, <2>1, <3>1, <3>2, <3>3 DEF CreatesBefore
  <2> QED
    BY <1>1, <1>5, <2>2, <2>3 DEF CreatesBefore
<1>6. ASSUME NEW j \in Jobs, ~Exists(j)' PROVE reply'[j] = NoReply
  <2>1. reply[j] = NoReply /\ \A d \in Commands : ~Creates(d, j)
    BY <1>2, <1>6 DEF OneCreate
  <2> QED
    BY <1>4, <2>1
<1>7. \A c \in Commands : cmd'[c].pc \in {"createAdd", "recordFailed"} => cmd'[c].kind = "create"
  BY <1>1 DEF CreatesBefore
<1> QED
  BY <1>5, <1>6, <1>7 DEF OneCreate

LEMMA OnRecordStays ==
  ASSUME IInv, RecordInv, HistoryInv, Next, Remember
  PROVE  OnRecordHadEntry'
<1> USE DEF HistoryInv
<1>1. TypeOK /\ \A j \in Jobs : had[j] => had'[j]
  BY HadStays DEF IInv
<1>2. SUFFICES ASSUME NEW j \in Jobs,
                      \/ Exists(j)' /\ outcome'[j] = "QUEUED"
                      \/ reply'[j].kind = "accepted"
                      \/ status'[j] \in {"running", "completed"}
               PROVE  had[j]
  BY <1>1 DEF OnRecordHadEntry
<1>3. CASE reply'[j].kind = "accepted"
  <2>1. CASE reply'[j] = reply[j]
    BY <1>3, <2>1 DEF OnRecordHadEntry
  <2>2. CASE reply'[j] # reply[j]
    <3>1. PICK c \in Commands : Creates(c, j) /\ (cmd[c].pc = "record" \/ reply'[j] = Denied(j))
      BY <1>1, <2>2, ReplyMoves
    <3> QED
      BY <1>3, <3>1 DEF Denied, Traces, Creates, Target
  <2> QED
    BY <2>1, <2>2
<1>4. ASSUME Exists(j)' => Exists(j),
             outcome'[j] = "QUEUED" => outcome[j] = "QUEUED" \/ had[j],
             status'[j] \in {"running", "completed"} => status[j] = status'[j] \/ had[j]
      PROVE  had[j]
  BY <1>2, <1>3, <1>4 DEF OnRecordHadEntry
<1>5. CASE \E s \in Slots : Work(s) \/ WorkerFault(s)
  <2>1. PICK s \in Slots : Work(s) \/ WorkerFault(s)
    BY <1>5
  <2>2. had[Job(s)] /\ Job(s) \in Jobs /\ Proceeds(Job(s)) /\ UNCHANGED outcome
    BY <1>1, <2>1, AttemptMoves DEF Traces
  <2> QED
    BY <1>1, <1>4, <2>2 DEF Proceeds, Exists, TypeOK, RowTypes
<1>6. CASE UNCHANGED <<status, outcome>>
  BY <1>4, <1>6 DEF Exists
<1>7. CASE \E c \in Commands, k \in Jobs : CreateJob(c, k)
  <2>1. PICK c \in Commands, k \in Jobs : CreateJob(c, k)
    BY <1>7
  <2>2. /\ status'[k] = "queued" /\ outcome'[k] = "PENDING"
        /\ \A q \in Jobs \ {k} : status'[q] = status[q] /\ outcome'[q] = outcome[q]
    BY <1>1, <2>1 DEF CreateJob, TypeOK, RowTypes
  <2>3. CASE j = k
    BY <1>2, <1>3, <2>2, <2>3
  <2>4. CASE j # k
    BY <1>4, <2>2, <2>4 DEF Exists
  <2> QED
    BY <2>3, <2>4
<1>8. CASE \E c \in Commands : \/ \E k \in Jobs, kind \in Kinds : ReadJob(c, k, kind)
                               \/ Handle(c)
                               \/ ApiFault(c)
  <2>1. PICK c \in Commands : HandlerWrites(c)
    BY <1>1, <1>8, HandlerRecords
  <2>2. cmd[c].pc = "record" => had[Target(c)]
    BY DEF Traces
  <2> QED
    BY <1>4, <2>1, <2>2 DEF HandlerWrites
<1>9. ASSUME \/ \E k \in Jobs : RecoverStalled(k) \/ Promote(k) \/ \E s \in Slots : Take(s, k)
             \/ \E o \in orphans : OrphanPersists(o)
      PROVE  UNCHANGED <<status, outcome>>
  BY <1>9 DEF RecoverStalled, Promote, Take, OrphanPersists, rows
<1> QED
  BY <1>5, <1>6, <1>7, <1>8, <1>9, Steps

LEMMA HistoryStep ==
  ASSUME IInv, RecordInv, HistoryInv, [Next /\ Remember]_<<vars, history>>
  PROVE  HistoryInv'
<1>1. CASE Next /\ Remember
  <2>1. HistoryTypes'
    BY <1>1, StruckIsSpent DEF IInv, HistoryInv
  <2> QED
    BY <1>1, <2>1, TracesStay, OneCreateStays, OnRecordStays DEF HistoryInv
<1>2. CASE UNCHANGED <<vars, history>>
  <2>1. UNCHANGED <<had, reply, struck, budget, entry, attempt, cmd, status, outcome>>
    BY <1>2 DEF vars, history, rows
  <2>2. HistoryTypes' /\ OnRecordHadEntry'
    BY <2>1 DEF HistoryInv, HistoryTypes, FaultsLeft, OnRecordHadEntry, Exists
  <2>3. Traces' /\ OneCreate'
    BY <2>1 DEF HistoryInv, Traces, Job, Target, OneCreate, Creates, Exists
  <2> QED
    BY <2>2, <2>3 DEF HistoryInv
<1> QED
  BY <1>1, <1>2

LEMMA RememberedIsSpec == Remembered => Spec
<1>1. RememberedInit => Init
  BY DEF RememberedInit
<1>2. [Next /\ Remember]_<<vars, history>> => [Next]_vars
  BY DEF vars, history
<1> QED
  BY <1>1, <1>2, PTL DEF Remembered, Spec

LEMMA HistoryHolds == Remembered => []HistoryInv
<1>1. RememberedInit => HistoryInv
  <2> SUFFICES ASSUME RememberedInit PROVE HistoryInv
    OBVIOUS
  <2>1. Init /\ FaultsLeft = Budget["redis"] + Budget["apiCrash"]
    BY DEF RememberedInit, Init, FaultsLeft
  <2>2. FaultsLeft \in Nat
    BY <2>1, CrawlAssumption DEF CrawlAssumption, FaultKinds
  <2>3. HistoryTypes
    BY <2>1, <2>2 DEF RememberedInit, HistoryTypes
  <2>4. Traces /\ OneCreate /\ OnRecordHadEntry
    BY DEF RememberedInit, Init, Traces, OneCreate, OnRecordHadEntry, Creates, Exists,
           NoEntry, NoAttempt, IdleCommand, NoReply
  <2> QED
    BY <2>3, <2>4 DEF HistoryInv
<1>2. IInv /\ RecordInv /\ HistoryInv /\ [Next /\ Remember]_<<vars, history>> => HistoryInv'
  BY HistoryStep
<1> QED
  BY <1>1, <1>2, RememberedIsSpec, IInvHolds, RecordHolds, PTL DEF Remembered

(* A job that is on record as queued, whose create was answered so, or that a  *)
(* worker has claimed, has had an entry in its queue: no handler records, and  *)
(* no worker claims, what was never added (api/app.ts, api/canonical.ts).      *)
THEOREM OnRecordEnqueued == Remembered => []OnRecordHadEntry
<1>1. HistoryInv => OnRecordHadEntry
  BY DEF HistoryInv
<1> QED
  BY <1>1, HistoryHolds, PTL

-----------------------------------------------------------------------------
(* What SubmitJob sees of a state: where a create has come to ...              *)

LEMMA StageIs ==
  ASSUME OneCreate, NEW j \in Jobs, NEW c \in Commands, Creates(c, j)
  PROVE  Stage(j) = IF cmd[c].pc = "createAdd" THEN "add" ELSE cmd[c].pc
<1> DEFINE d == CHOOSE e \in Commands : Creates(e, j)
<1>1. d \in Commands /\ Creates(d, j)
  OBVIOUS
<1>2. d = c /\ Exists(j)
  BY <1>1 DEF OneCreate
<1> QED
  BY <1>2 DEF Stage

LEMMA StageIsNext ==
  ASSUME OneCreate', NEW j \in Jobs, NEW c \in Commands, Creates(c, j)'
  PROVE  Stage(j)' = IF cmd'[c].pc = "createAdd" THEN "add" ELSE cmd'[c].pc
<1>1. Exists(j)' /\ \A e \in Commands : Creates(e, j)' <=> e = c
  BY DEF OneCreate
<1> QED
  BY <1>1 DEF Stage, Creates

LEMMA StageSame ==
  ASSUME OneCreate, OneCreate', NEW j \in Jobs, Exists(j)' <=> Exists(j), reply'[j] = reply[j],
         \A c \in Commands : /\ Creates(c, j)' <=> Creates(c, j)
                             /\ Creates(c, j) => cmd'[c].pc = cmd[c].pc
  PROVE  Stage(j)' = Stage(j)
<1>1. ASSUME NEW c \in Commands, Creates(c, j) PROVE Stage(j)' = Stage(j)
  BY <1>1, StageIs, StageIsNext
<1>2. CASE ~\E c \in Commands : Creates(c, j)
  BY <1>2 DEF Stage
<1> QED
  BY <1>1, <1>2

LEMMA StageOver ==
  ASSUME NEW j \in Jobs, Exists(j)', \A c \in Commands : ~Creates(c, j)'
  PROVE  Stage(j)' = IF reply'[j] = NoReply THEN "gone" ELSE "done"
BY DEF Stage

(* ... the handlers ...                                                        *)
LEMMA SubmittersSame ==
  ASSUME \A j \in Jobs : Stage(j)' = Stage(j)
  PROVE  Submitters' = Submitters
BY DEF Submitters

LEMMA SubmitterGoes ==
  ASSUME NEW j \in Jobs, \A k \in Jobs \ {j} : Stage(k)' = Stage(k), NEW pc, Stage(j)' = pc
  PROVE  Submitters' = [Submitters EXCEPT ![j].pc = pc]
BY DEF Submitters

(* ... and the rows.                                                           *)
LEMMA JobsSame ==
  ASSUME UNCHANGED <<status, outcome>>
  PROVE  SubmittedJobs' = SubmittedJobs
BY DEF SubmittedJobs, RowOf, Exists

LEMMA StatusSet ==
  ASSUME TypeOK, NEW j \in Jobs, Exists(j), NEW v, v # "absent", status' = [status EXCEPT ![j] = v],
         UNCHANGED outcome
  PROVE  /\ SubmittedJobs' = [SubmittedJobs EXCEPT ![j].status = v]
         /\ \A k \in Jobs : Exists(k)' <=> Exists(k)
<1>1. \A k \in Jobs : Exists(k)' <=> Exists(k)
  BY DEF Exists, TypeOK, RowTypes
<1>2. \A k \in Jobs \ {j} : RowOf(k)' = RowOf(k)
  BY <1>1 DEF RowOf, TypeOK, RowTypes
<1>3. RowOf(j)' = [RowOf(j) EXCEPT !.status = v]
  <2>1. status'[j] = v /\ Exists(j)' = TRUE /\ Exists(j) = TRUE
    BY <1>1 DEF Exists, TypeOK, RowTypes
  <2>2. RowOf(j) = [key |-> j, hash |-> j, status |-> status[j], outcome |-> outcome[j], minute |-> 0]
    BY <2>1 DEF RowOf
  <2>3. RowOf(j)' = [key |-> j, hash |-> j, status |-> v, outcome |-> outcome[j], minute |-> 0]
    BY <2>1 DEF RowOf
  <2> QED
    BY <2>2, <2>3
<1> QED
  BY <1>1, <1>2, <1>3 DEF SubmittedJobs

LEMMA OutcomeSet ==
  ASSUME TypeOK, NEW j \in Jobs, NEW v, outcome' = [outcome EXCEPT ![j] = v], UNCHANGED status
  PROVE  SubmittedJobs' = [SubmittedJobs EXCEPT ![j].outcome = v]
<1>1. \A k \in Jobs \ {j} : RowOf(k)' = RowOf(k)
  BY DEF RowOf, Exists, TypeOK, RowTypes
<1>2. RowOf(j)' = [RowOf(j) EXCEPT !.outcome = v]
  <2>1. outcome'[j] = v
    BY DEF TypeOK, RowTypes
  <2> DEFINE k == IF Exists(j) THEN j ELSE None
             m == IF Exists(j) THEN 0 ELSE None
  <2>2. RowOf(j) = [key |-> k, hash |-> k, status |-> status[j], outcome |-> outcome[j], minute |-> m]
    BY DEF RowOf
  <2>3. RowOf(j)' = [key |-> k, hash |-> k, status |-> status[j], outcome |-> v, minute |-> m]
    BY <2>1 DEF RowOf, Exists
  <2> HIDE DEF k, m
  <2> QED
    BY <2>2, <2>3
<1> QED
  BY <1>1, <1>2 DEF SubmittedJobs

(* No entry is new, or the one of job j.                                       *)
LEMMA HadSame ==
  ASSUME HistoryTypes, Traces, Remember, \A j \in Jobs : entry'[j].state # "none" => entry[j].state # "none"
  PROVE  had' = had
<1>1. \A j \in Jobs : had'[j] = had[j]
  BY DEF Remember, HistoryTypes, Traces
<1> QED
  BY <1>1, HadStays DEF HistoryTypes

LEMMA HadAdded ==
  ASSUME TypeOK, HistoryTypes, Traces, Remember, NEW j \in Jobs, Add(j)
  PROVE  had' = [had EXCEPT ![j] = TRUE]
<1>1. entry'[j].state # "none" /\ \A k \in Jobs \ {j} : entry'[k] = entry[k]
  BY DEF Add, FreshEntry, NoEntry, TypeOK, QueueTypes
<1>2. had'[j] = TRUE /\ \A k \in Jobs \ {j} : had'[k] = had[k]
  BY <1>1 DEF Remember, HistoryTypes, Traces
<1> QED
  BY <1>2, HadStays DEF HistoryTypes

-----------------------------------------------------------------------------
(* Each step of CrawlJobs is one of SubmitJob, or none.                        *)

Submits == [Submission!Next]_(Submission!vars)

(* What the rest of the system does to a job ...                               *)
NotByCreates == Submitters' = Submitters /\ reply' = reply /\ struck' = struck

LEMMA NothingSubmitted ==
  ASSUME NotByCreates, SubmittedJobs' = SubmittedJobs, had' = had
  PROVE  Submits
BY DEF Submits, NotByCreates, Submission!vars

LEMMA StatusSubmits ==
  ASSUME TypeOK, NotByCreates, had' = had, NEW j \in Jobs, NEW v,
         UNCHANGED outcome, status' = [status EXCEPT ![j] = v],
         \/ v = "running" /\ status[j] \in {"queued", "running"} /\ had[j]
         \/ v = "completed" /\ status[j] = "running" /\ had[j]
         \/ v \in {"failed", "cancelled"} /\ status[j] \in {"queued", "running"}
         \/ v = "queued" /\ status[j] \in {"failed", "cancelled"}
  PROVE  Submits
<1>1. Exists(j) /\ v # "absent" /\ SubmittedJobs[j].status = status[j]
  BY DEF Exists, SubmittedJobs, RowOf
<1>2. SubmittedJobs' = [SubmittedJobs EXCEPT ![j].status = v]
  BY <1>1, StatusSet
<1>3. CASE v = "running" /\ status[j] = "running"
  <2>1. status' = status
    BY <1>3 DEF TypeOK, RowTypes
  <2> QED
    BY <2>1, JobsSame, NothingSubmitted
<1>4. CASE v = "running" /\ status[j] = "queued" /\ had[j]
  <2>1. Submission!Proceed(j, "queued", "running")
    BY <1>1, <1>2, <1>4 DEF Submission!Proceed, NotByCreates
  <2> QED
    BY <2>1 DEF Submits, Submission!Next, Submission!Others
<1>5. CASE v = "completed" /\ status[j] = "running" /\ had[j]
  <2>1. Submission!Proceed(j, "running", "completed")
    BY <1>1, <1>2, <1>5 DEF Submission!Proceed, NotByCreates
  <2> QED
    BY <2>1 DEF Submits, Submission!Next, Submission!Others
<1>6. CASE v = "failed" /\ status[j] \in {"queued", "running"}
  <2>1. Submission!GiveUp(j)
    BY <1>1, <1>2, <1>6 DEF Submission!GiveUp, Submission!Failed, NotByCreates
  <2> QED
    BY <2>1 DEF Submits, Submission!Next, Submission!Others
<1>7. CASE v = "cancelled" /\ status[j] \in {"queued", "running"}
  <2>1. Submission!Cancel(j)
    BY <1>1, <1>2, <1>7 DEF Submission!Cancel, NotByCreates
  <2> QED
    BY <2>1 DEF Submits, Submission!Next, Submission!Others
<1>8. CASE v = "queued" /\ status[j] \in {"failed", "cancelled"}
  <2>1. Submission!Reset(j)
    BY <1>1, <1>2, <1>8 DEF Submission!Reset, NotByCreates
  <2> QED
    BY <2>1 DEF Submits, Submission!Next, Submission!Others
<1> QED
  BY <1>3, <1>4, <1>5, <1>6, <1>7, <1>8

(* ... to its entry ...                                                        *)
LEMMA AddSubmits ==
  ASSUME NotByCreates, NEW j \in Jobs, Exists(j), UNCHANGED <<status, outcome>>, had' = [had EXCEPT ![j] = TRUE]
  PROVE  Submits
<1>1. SubmittedJobs' = SubmittedJobs /\ SubmittedJobs[j].status # "absent"
  BY JobsSame DEF Exists, SubmittedJobs, RowOf
<1>2. Submission!Enqueue(j)
  BY <1>1 DEF Submission!Enqueue, NotByCreates
<1> QED
  BY <1>2 DEF Submits, Submission!Next, Submission!Others

(* ... and to its outcome.                                                     *)
LEMMA RecordSubmits ==
  ASSUME TypeOK, NotByCreates, NEW j \in Jobs, UNCHANGED status, had' = had, had[j], Recordable(j, "QUEUED"),
         outcome' = [outcome EXCEPT ![j] = "QUEUED"]
  PROVE  Submits
<1>1. SubmittedJobs[j].outcome = outcome[j] /\ SubmittedJobs' = [SubmittedJobs EXCEPT ![j].outcome = "QUEUED"]
  BY OutcomeSet DEF SubmittedJobs, RowOf
<1>2. Submission!RecordFound(j)
  BY <1>1 DEF Submission!RecordFound, Submission!Recordable, Recordable, NotByCreates
<1> QED
  BY <1>2 DEF Submits, Submission!Next, Submission!Others

(* The steps of workers, queues and late page handlers. *)
LEMMA WorkerSubmits ==
  ASSUME IInv, RecordInv, HistoryInv, Next, Remember,
         \/ \E s \in Slots : Work(s) \/ WorkerFault(s)
         \/ \E j \in Jobs : RecoverStalled(j) \/ Promote(j) \/ \E s \in Slots : Take(s, j)
         \/ \E o \in orphans : OrphanPersists(o)
  PROVE  Submits
<1> USE DEF IInv, HistoryInv
<1>1. CASE \E s \in Slots : Work(s) \/ WorkerFault(s)
  <2>1. PICK s \in Slots : Work(s) \/ WorkerFault(s)
    BY <1>1
  <2>2. /\ had[Job(s)] /\ Job(s) \in Jobs /\ Proceeds(Job(s)) /\ UNCHANGED <<outcome, cmd>>
        /\ SameEntries
    BY <2>1, AttemptMoves DEF Traces
  <2>3. reply' = reply /\ struck' = struck
    BY <2>2, Unanswered
  <2>4. had' = had
    BY <2>2, HadSame DEF SameEntries, SameEntry
  <2>5. \A j \in Jobs : Exists(j)' <=> Exists(j)
    BY <2>2 DEF Proceeds, Exists, TypeOK, RowTypes
  <2>6. OneCreate'
    BY OneCreateStays
  <2>7. \A j \in Jobs : Stage(j)' = Stage(j)
    BY <2>2, <2>3, <2>5, <2>6, StageSame DEF Creates
  <2>8. NotByCreates
    BY <2>3, <2>7, SubmittersSame DEF NotByCreates
  <2>9. CASE status' = status
    BY <2>2, <2>4, <2>8, <2>9, JobsSame, NothingSubmitted
  <2>10. CASE \E v \in {"running", "completed", "failed"} :
                /\ status' = [status EXCEPT ![Job(s)] = v]
                /\ \/ v \in {"running", "failed"} /\ status[Job(s)] \in {"queued", "running"}
                   \/ v = "completed" /\ status[Job(s)] = "running"
    BY <2>2, <2>4, <2>8, <2>10, StatusSubmits
  <2> QED
    BY <2>2, <2>9, <2>10 DEF Proceeds
<1>2. CASE \/ \E j \in Jobs : RecoverStalled(j) \/ Promote(j) \/ \E s \in Slots : Take(s, j)
           \/ \E o \in orphans : OrphanPersists(o)
  <2>1. /\ UNCHANGED <<status, outcome, cmd>>
        /\ \A j \in Jobs : entry'[j].state # "none" => entry[j].state # "none"
    BY <1>2 DEF RecoverStalled, Promote, Take, OrphanPersists, rows, TypeOK, QueueTypes, EntryType
  <2>2. reply' = reply /\ struck' = struck
    BY <2>1, Unanswered
  <2>3. Submitters' = Submitters
    BY <2>1, <2>2 DEF Submitters, Stage, Creates, Exists
  <2> QED
    BY <2>1, <2>2, <2>3, HadSame, JobsSame, NothingSubmitted DEF NotByCreates
<1> QED
  BY <1>1, <1>2

(* A handler that is no create leaves creates alone. *)
LEMMA OthersLeave ==
  ASSUME IInv, RecordInv, HistoryInv, Next, Remember, NEW c \in Commands, \A j \in Jobs : ~Creates(c, j),
         \/ \E j \in Jobs, kind \in Kinds : ReadJob(c, j, kind)
         \/ Handle(c)
         \/ ApiFault(c)
  PROVE  NotByCreates
<1> USE DEF IInv, HistoryInv
<1>1. /\ HandlerTouches(c) /\ HandlerGoes(c) /\ HandlerWrites(c)
      /\ \A d \in Commands \ {c} : cmd'[d] = cmd[d]
  BY HandlerMoves, HandlerRecords
<1>2. reply' = reply /\ struck' = struck
  BY <1>1, Unanswered
<1>3. \A j \in Jobs : ~Creates(c, j)'
  BY <1>1 DEF HandlerGoes, Creates
<1>4. \A d \in Commands \ {c}, j \in Jobs : Creates(d, j)' <=> Creates(d, j)
  BY <1>1 DEF Creates
<1>5. OneCreate' /\ \A j \in Jobs : Exists(j)' <=> Exists(j)
  BY <1>1, OneCreateStays DEF HandlerWrites
<1>6. \A j \in Jobs : Stage(j)' = Stage(j)
  BY <1>1, <1>2, <1>3, <1>4, <1>5, StageSame
<1> QED
  BY <1>2, <1>6, SubmittersSame DEF NotByCreates

(* Cancels, retries and reconciles. *)
LEMMA OthersSubmit ==
  ASSUME IInv, RecordInv, HistoryInv, Next, Remember, NEW c \in Commands, \A j \in Jobs : ~Creates(c, j),
         \/ \E j \in Jobs, kind \in Kinds : ReadJob(c, j, kind)
         \/ Handle(c)
         \/ ApiFault(c)
  PROVE  Submits
<1> USE DEF IInv, HistoryInv, TypeOK
<1>1. NotByCreates
  BY OthersLeave
<1>2. cmd[c].pc \notin {"new", "done"} => Target(c) \in Jobs /\ Exists(Target(c)) /\ cmd[c].kind # "create"
  BY TargetType DEF RecordInv, Exists, Creates, Target
<1>3. ASSUME UNCHANGED <<status, outcome>>,
             \/ UNCHANGED entry
             \/ cmd[c].pc \notin {"new", "done"} /\ Delete(Target(c))
      PROVE  Submits
  <2>1. \A j \in Jobs : entry'[j].state # "none" => entry[j].state # "none"
    BY <1>2, <1>3 DEF Delete, NoEntry, QueueTypes
  <2>2. had' = had
    BY <2>1, HadSame
  <2> QED
    BY <1>1, <1>3, <2>2, JobsSame, NothingSubmitted
<1>4. ASSUME UNCHANGED <<status, outcome>>, cmd[c].pc \notin {"new", "done"}, UNCHANGED entry \/ Add(Target(c))
      PROVE  Submits
  <2>1. Add(Target(c)) => had' = [had EXCEPT ![Target(c)] = TRUE]
    BY <1>2, <1>4, HadAdded
  <2> QED
    BY <1>1, <1>2, <1>3, <1>4, <2>1, AddSubmits
<1>5. UNCHANGED entry => had' = had
  BY HadSame
<1>6. CASE Cancel(c) \/ ResetJob(c) \/ FailJob(c)
  <2>1. /\ cmd[c].pc \notin {"new", "done"} /\ UNCHANGED <<outcome, entry>>
        /\ \/ status' = status
           \/ \E v : /\ status' = [status EXCEPT ![Target(c)] = v]
                     /\ \/ v \in {"failed", "cancelled"} /\ status[Target(c)] \in {"queued", "running"}
                        \/ v = "queued" /\ status[Target(c)] \in {"failed", "cancelled"}
    BY <1>6 DEF Cancel, ResetJob, Resettable, FailJob, SetJobStatus, SourcesOf, Effect, Resets
  <2>2. CASE status' = status
    BY <1>3, <2>1, <2>2
  <2>3. PICK v : \/ status' = status
                 \/ /\ status' = [status EXCEPT ![Target(c)] = v]
                    /\ \/ v \in {"failed", "cancelled"} /\ status[Target(c)] \in {"queued", "running"}
                       \/ v = "queued" /\ status[Target(c)] \in {"failed", "cancelled"}
    BY <2>1
  <2> QED
    BY <1>1, <1>2, <1>5, <2>1, <2>2, <2>3, StatusSubmits
<1>7. CASE RecordQueued(c)
  <2>1. cmd[c].pc = "record" /\ UNCHANGED <<status, entry>> /\ had[Target(c)]
    BY <1>7 DEF RecordQueued, Traces
  <2>2. CASE Recordable(Target(c), "QUEUED")
    <3>1. outcome' = [outcome EXCEPT ![Target(c)] = "QUEUED"]
      BY <1>7, <2>2 DEF RecordQueued
    <3> QED
      BY <1>1, <1>2, <1>5, <2>1, <2>2, <3>1, RecordSubmits
  <2>3. CASE ~Recordable(Target(c), "QUEUED")
    BY <1>3, <1>7, <2>1, <2>3 DEF RecordQueued
  <2> QED
    BY <2>2, <2>3
<1>8. ~RecordFailed(c)
  BY <1>2 DEF RecordFailed, OneCreate
<1>9. CASE AddEntry(c) \/ AddFails(c)
  BY <1>4, <1>9 DEF AddEntry, AddFails, Adding, rows
<1>10. CASE RemoveForRetry(c) \/ PurgeEntry(c) \/ CancelRemoves(c) \/ RemoveFails(c)
  BY <1>3, <1>10 DEF RemoveForRetry, PurgeEntry, CancelRemoves, RemoveFails, rows
<1>11. CASE \/ Refuse(c) \/ InspectEntry(c) \/ ReconcileCallbacks(c) \/ ReconcileAnnounces(c) \/ ApiCrash(c)
            \/ \E j \in Jobs, kind \in Kinds : ReadJob(c, j, kind)
  BY <1>3, <1>11 DEF Refuse, InspectEntry, ReconcileCallbacks, ReconcileAnnounces, ApiCrash, ReadJob, rows
<1> QED
  BY <1>6, <1>7, <1>8, <1>9, <1>10, <1>11 DEF Handle, ApiFault

(* The transaction that creates the job. *)
LEMMA CreateSubmits ==
  ASSUME IInv, RecordInv, HistoryInv, Next, Remember, NEW c \in Commands, NEW j \in Jobs, CreateJob(c, j)
  PROVE  Submits
<1> USE DEF IInv, HistoryInv, TypeOK
<1>1. /\ ~Exists(j) /\ status'[j] = "queued" /\ outcome'[j] = "PENDING" /\ UNCHANGED entry
      /\ \A k \in Jobs \ {j} : status'[k] = status[k] /\ outcome'[k] = outcome[k]
  BY DEF CreateJob, Exists, RowTypes
<1>2. /\ cmd[c].pc = "new" /\ Creates(c, j)' /\ cmd'[c].pc = "createAdd" /\ \A k \in Jobs : Creates(c, k)' => k = j
      /\ \A d \in Commands \ {c} : cmd'[d] = cmd[d]
  BY DEF CreateJob, CommandTypes, CommandType, Creates
<1>3. reply' = reply /\ struck' = struck /\ had' = had
  BY <1>1, <1>2, Unanswered, HadSame DEF Creates
<1>4. OneCreate'
  BY OneCreateStays
<1>5. Stage(j) = "create" /\ Stage(j)' = "add"
  BY <1>1, <1>2, <1>4, StageIsNext DEF Stage
<1>6. ASSUME NEW k \in Jobs \ {j} PROVE Stage(k)' = Stage(k)
  <2>1. Exists(k)' <=> Exists(k)
    BY <1>1 DEF Exists
  <2>2. \A d \in Commands : /\ Creates(d, k)' <=> Creates(d, k)
                            /\ Creates(d, k) => cmd'[d].pc = cmd[d].pc
    BY <1>2 DEF Creates
  <2> QED
    BY <1>3, <1>4, <2>1, <2>2, StageSame
<1>7. Submitters[j].pc = "create" /\ Submitters' = [Submitters EXCEPT ![j].pc = "add"]
  BY <1>5, <1>6, SubmitterGoes DEF Submitters
<1>8. Submission!Holders(Submitters[j].key) = {}
  <2>1. Submitters[j].key = j
    BY DEF Submitters
  <2>2. \A k \in Jobs : SubmittedJobs[k].key # j
    BY <1>1, DataAssumption DEF DataAssumption, SubmittedJobs, RowOf
  <2> QED
    BY <2>1, <2>2 DEF Submission!Holders
<1>9. SubmittedJobs' = [SubmittedJobs EXCEPT ![j] = Submission!NewJob(j)]
  <2>1. \A k \in Jobs \ {j} : RowOf(k)' = RowOf(k)
    BY <1>1 DEF RowOf, Exists
  <2>2. RowOf(j)' = [key |-> j, hash |-> j, status |-> "queued", outcome |-> "PENDING", minute |-> 0]
    BY <1>1 DEF RowOf, Exists
  <2>3. Submission!NewJob(j) = [key |-> j, hash |-> j, status |-> "queued", outcome |-> "PENDING", minute |-> 0]
    BY DEF Submission!NewJob, Submitters
  <2> QED
    BY <2>1, <2>2, <2>3 DEF SubmittedJobs
<1>10. Submission!Create(j)
  BY <1>3, <1>7, <1>8, <1>9 DEF Submission!Create, Submission!Go
<1> QED
  BY <1>10 DEF Submits, Submission!Next, Submission!Handle

(* Where a create's own step leaves it. *)
LEMMA CreatorMoves ==
  ASSUME IInv, RecordInv, HistoryInv, Next, Remember, NEW c \in Commands, NEW j \in Jobs, Creates(c, j),
         Handle(c) \/ ApiFault(c)
  PROVE  /\ Submitters[j].pc = IF cmd[c].pc = "createAdd" THEN "add" ELSE cmd[c].pc
         /\ Exists(j) /\ \A d \in Commands \ {c} : cmd'[d] = cmd[d]
         /\ \A pc \in {"record", "recordFailed", "fail"} :
              cmd'[c].pc = pc => Submitters' = [Submitters EXCEPT ![j].pc = pc]
         /\ cmd'[c].pc = "done" =>
              Submitters' = [Submitters EXCEPT ![j].pc = IF reply'[j] = NoReply THEN "gone" ELSE "done"]
<1> USE DEF IInv, HistoryInv
<1>1. /\ HandlerGoes(c) /\ HandlerWrites(c)
      /\ \A d \in Commands \ {c} : cmd'[d] = cmd[d]
  BY HandlerMoves, HandlerRecords
<1>2. OneCreate' /\ \A k \in Jobs : Exists(k)' <=> Exists(k)
  BY <1>1, OneCreateStays DEF HandlerWrites
<1>3. Exists(j) /\ \A d \in Commands \ {c} : ~Creates(d, j)
  BY DEF OneCreate
<1>4. Submitters[j].pc = IF cmd[c].pc = "createAdd" THEN "add" ELSE cmd[c].pc
  BY StageIs DEF Submitters
<1>5. \A d \in Commands \ {c}, k \in Jobs : Creates(d, k)' <=> Creates(d, k)
  BY <1>1 DEF Creates
<1>6. \A k \in Jobs \ {j} : ~Creates(c, k) /\ ~Creates(c, k)'
  BY <1>1 DEF HandlerGoes, Creates
<1>7. \A k \in Jobs \ {j} : reply'[k] = reply[k]
  BY <1>1, Answered DEF HistoryTypes
<1>8. ASSUME NEW k \in Jobs \ {j} PROVE Stage(k)' = Stage(k)
  BY <1>1, <1>2, <1>5, <1>6, <1>7, StageSame
<1>9. ASSUME NEW pc \in {"record", "recordFailed", "fail"}, cmd'[c].pc = pc
      PROVE  Submitters' = [Submitters EXCEPT ![j].pc = pc]
  <2>1. Creates(c, j)'
    BY <1>1, <1>9 DEF HandlerGoes, Creates
  <2>2. Stage(j)' = pc
    BY <1>2, <1>9, <2>1, StageIsNext
  <2> QED
    BY <1>8, <2>2, SubmitterGoes
<1>10. ASSUME cmd'[c].pc = "done"
       PROVE  Submitters' = [Submitters EXCEPT ![j].pc = IF reply'[j] = NoReply THEN "gone" ELSE "done"]
  <2>1. \A d \in Commands : ~Creates(d, j)'
    BY <1>3, <1>5, <1>10 DEF Creates
  <2>2. Stage(j)' = IF reply'[j] = NoReply THEN "gone" ELSE "done"
    BY <1>2, <1>3, <2>1, StageOver
  <2> QED
    BY <1>8, <2>2, SubmitterGoes
<1> QED
  BY <1>1, <1>3, <1>4, <1>9, <1>10

(* A create's own steps. *)
LEMMA CreatorSubmits ==
  ASSUME IInv, RecordInv, HistoryInv, Next, Remember, NEW c \in Commands, NEW j \in Jobs, Creates(c, j),
         Handle(c) \/ ApiFault(c)
  PROVE  Submits
<1> USE DEF IInv, HistoryInv
<1>1. /\ Submitters[j].pc = IF cmd[c].pc = "createAdd" THEN "add" ELSE cmd[c].pc
      /\ Exists(j) /\ \A d \in Commands \ {c} : cmd'[d] = cmd[d]
      /\ \A pc \in {"record", "recordFailed", "fail"} :
           cmd'[c].pc = pc => Submitters' = [Submitters EXCEPT ![j].pc = pc]
      /\ cmd'[c].pc = "done" =>
           Submitters' = [Submitters EXCEPT ![j].pc = IF reply'[j] = NoReply THEN "gone" ELSE "done"]
  BY CreatorMoves
<1>2. /\ reply' = IF RecordQueued(c) /\ Recordable(j, "QUEUED") THEN [reply EXCEPT ![j] = Accepted(j)]
                  ELSE IF FailJob(c) THEN [reply EXCEPT ![j] = Denied(j)] ELSE reply
      /\ struck' = IF AddFails(c) \/ ApiCrash(c) THEN struck + 1 ELSE struck
  BY <1>1, Answered
<1>3. /\ TypeOK /\ Target(c) = j /\ reply[j] = NoReply
      /\ cmd[c].pc \in {"createAdd", "record", "recordFailed", "fail"}
  BY DEF OneCreate, Creates, Target
<1>4. SubmittedJobs[j].status = status[j] /\ SubmittedJobs[j].outcome = outcome[j]
  BY DEF SubmittedJobs, RowOf
<1>5. UNCHANGED entry => had' = had
  BY <1>3, HadSame
<1>6. ASSUME AddFails(c) \/ ApiCrash(c)
      PROVE  struck < Budget["redis"] + Budget["apiCrash"] /\ budget' # budget
  <2>1. budget["redis"] \in Nat /\ budget["apiCrash"] \in Nat /\ struck \in Nat
    BY <1>3 DEF TypeOK, FaultKinds, HistoryTypes
  <2>2. Budget["redis"] \in Nat /\ Budget["apiCrash"] \in Nat
    BY CrawlAssumption DEF CrawlAssumption, FaultKinds
  <2>3. PICK f \in {"redis", "apiCrash"} : budget[f] > 0 /\ budget' = [budget EXCEPT ![f] = budget[f] - 1]
    BY <1>6 DEF AddFails, ApiCrash, Spend
  <2>4. budget'[f] # budget[f]
    BY <1>3, <2>1, <2>3 DEF TypeOK, FaultKinds
  <2> QED
    BY <2>1, <2>2, <2>3, <2>4 DEF HistoryTypes, FaultsLeft
<1>7. CASE AddEntry(c)
  <2>1. cmd[c].pc = "createAdd" /\ Add(j) /\ Step(c, "record") /\ UNCHANGED <<status, outcome>>
    BY <1>3, <1>7 DEF AddEntry, Adding, rows
  <2>2. cmd'[c].pc = "record" /\ had' = [had EXCEPT ![j] = TRUE] /\ SubmittedJobs' = SubmittedJobs
    BY <1>3, <2>1, SteppedFields, HadAdded, JobsSame DEF TypeOK
  <2>3. reply' = reply /\ struck' = struck
    BY <1>2, <1>6, <1>7, <2>1 DEF AddEntry, RecordQueued, FailJob
  <2>4. Submission!Add(j)
    BY <1>1, <2>1, <2>2, <2>3 DEF Submission!Add, Submission!Go
  <2> QED
    BY <2>4 DEF Submits, Submission!Next, Submission!Handle
<1>8. CASE AddFails(c)
  <2>1. /\ cmd[c].pc = "createAdd" /\ (UNCHANGED entry \/ Add(j)) /\ Step(c, "recordFailed")
        /\ UNCHANGED <<status, outcome>>
    BY <1>3, <1>8 DEF AddFails, Adding, rows
  <2>2. cmd'[c].pc = "recordFailed" /\ SubmittedJobs' = SubmittedJobs
    BY <1>3, <2>1, SteppedFields, JobsSame DEF TypeOK
  <2>3. had' = had \/ had' = [had EXCEPT ![j] = TRUE]
    BY <1>3, <1>5, <2>1, HadAdded
  <2>4. reply' = reply /\ struck' = struck + 1
    BY <1>2, <1>8, <2>1 DEF RecordQueued, FailJob
  <2>5. Submission!AddFails(j)
    BY <1>1, <1>6, <1>8, <2>1, <2>2, <2>3, <2>4 DEF Submission!AddFails, Submission!Go
  <2> QED
    BY <2>5 DEF Submits, Submission!Next, Submission!Fault
<1>9. CASE RecordQueued(c)
  <2>1. cmd[c].pc = "record" /\ cmd'[c].pc = "done" /\ UNCHANGED <<status, entry>>
    BY <1>3, <1>9, Finished DEF RecordQueued
  <2>2. struck' = struck
    BY <1>2, <1>6, <1>9 DEF RecordQueued
  <2>3. CASE Recordable(j, "QUEUED")
    <3>1. reply' = [reply EXCEPT ![j] = Accepted(j)]
      BY <1>2, <1>9, <2>3
    <3>2. reply'[j] # NoReply
      BY <3>1 DEF Accepted, NoReply, HistoryTypes
    <3>3. SubmittedJobs' = [SubmittedJobs EXCEPT ![j].outcome = "QUEUED"]
      BY <1>3, <1>9, <2>1, <2>3, OutcomeSet DEF RecordQueued
    <3>4. Submission!RecordQueued(j)
      BY <1>1, <1>4, <1>5, <2>1, <2>2, <2>3, <3>1, <3>2, <3>3
      DEF Submission!RecordQueued, Submission!Recordable, Submission!Go, Submission!Tell, Recordable, Accepted
    <3> QED
      BY <3>4 DEF Submits, Submission!Next, Submission!Handle
  <2>4. CASE ~Recordable(j, "QUEUED")
    <3>1. reply' = reply /\ UNCHANGED outcome
      BY <1>2, <1>3, <1>9, <2>1, <2>4 DEF RecordQueued, FailJob
    <3>2. SubmittedJobs' = SubmittedJobs
      BY <2>1, <3>1, JobsSame
    <3>3. Submission!RecordQueued(j)
      BY <1>1, <1>3, <1>4, <1>5, <2>1, <2>2, <2>4, <3>1, <3>2
      DEF Submission!RecordQueued, Submission!Recordable, Submission!Go, Recordable
    <3> QED
      BY <3>3 DEF Submits, Submission!Next, Submission!Handle
  <2> QED
    BY <2>3, <2>4
<1>10. CASE RecordFailed(c)
  <2>1. cmd[c].pc = "recordFailed" /\ UNCHANGED <<status, entry>> /\ reply' = reply /\ struck' = struck
    BY <1>2, <1>6, <1>10 DEF RecordFailed, RecordQueued, FailJob
  <2>2. CASE Recordable(j, "FAILED")
    <3>1. outcome' = [outcome EXCEPT ![j] = "FAILED"] /\ Step(c, "fail")
      BY <1>3, <1>10, <2>2 DEF RecordFailed
    <3>2. SubmittedJobs' = [SubmittedJobs EXCEPT ![j].outcome = "FAILED"] /\ cmd'[c].pc = "fail"
      BY <1>3, <2>1, <3>1, OutcomeSet, SteppedFields DEF TypeOK
    <3>3. Submission!RecordFailed(j)
      BY <1>1, <1>4, <1>5, <2>1, <2>2, <3>2
      DEF Submission!RecordFailed, Submission!Recordable, Submission!Go, Recordable
    <3> QED
      BY <3>3 DEF Submits, Submission!Next, Submission!Handle
  <2>3. CASE ~Recordable(j, "FAILED")
    <3>1. UNCHANGED outcome /\ Finish(c)
      BY <1>3, <1>10, <2>3 DEF RecordFailed
    <3>2. SubmittedJobs' = SubmittedJobs /\ cmd'[c].pc = "done"
      BY <1>3, <2>1, <3>1, JobsSame, Finished
    <3>3. Submission!RecordFailed(j)
      BY <1>1, <1>3, <1>4, <1>5, <2>1, <2>3, <3>2
      DEF Submission!RecordFailed, Submission!Recordable, Submission!Go, Recordable
    <3> QED
      BY <3>3 DEF Submits, Submission!Next, Submission!Handle
  <2> QED
    BY <2>2, <2>3
<1>11. CASE FailJob(c)
  <2>1. cmd[c].pc = "fail" /\ cmd'[c].pc = "done" /\ UNCHANGED <<outcome, entry>>
    BY <1>3, <1>11, Finished DEF FailJob
  <2>2. reply' = [reply EXCEPT ![j] = Denied(j)] /\ struck' = struck
    BY <1>2, <1>6, <1>11, <2>1 DEF RecordQueued, FailJob
  <2>3. reply'[j] # NoReply
    BY <2>2 DEF Denied, NoReply, HistoryTypes
  <2>4. SubmittedJobs' = Submission!Failed(j)
    <3>1. CASE status[j] \in {"queued", "running"}
      <4>1. status' = [status EXCEPT ![j] = "failed"]
        BY <1>3, <1>11, <3>1 DEF FailJob, SetJobStatus, SourcesOf
      <4>2. SubmittedJobs' = [SubmittedJobs EXCEPT ![j].status = "failed"]
        <5>1. TypeOK /\ Exists(j) /\ outcome' = outcome /\ "failed" # "absent"
          BY <1>1, <1>3, <2>1
        <5> QED
          BY <4>1, <5>1, StatusSet
      <4> QED
        BY <1>4, <3>1, <4>2 DEF Submission!Failed
    <3>2. CASE status[j] \notin {"queued", "running"}
      <4>1. status' = status
        BY <1>3, <1>11, <3>2 DEF FailJob, SetJobStatus, SourcesOf
      <4> QED
        BY <1>4, <2>1, <3>2, <4>1, JobsSame DEF Submission!Failed
    <3> QED
      BY <3>1, <3>2
  <2>5. Submission!Fail(j)
    BY <1>1, <1>5, <2>1, <2>2, <2>3, <2>4 DEF Submission!Fail, Submission!Go, Submission!Tell, Denied
  <2> QED
    BY <2>5 DEF Submits, Submission!Next, Submission!Handle
<1>12. CASE ApiCrash(c)
  <2>1. cmd'[c].pc = "done" /\ UNCHANGED <<status, outcome, entry>>
    BY <1>3, <1>12, Finished DEF ApiCrash, rows
  <2>2. reply' = reply /\ struck' = struck + 1 /\ SubmittedJobs' = SubmittedJobs
    BY <1>2, <1>6, <1>12, <2>1, JobsSame DEF RecordQueued, FailJob
  <2>3. Submission!Crash(j)
    BY <1>1, <1>3, <1>5, <1>6, <1>12, <2>1, <2>2 DEF Submission!Crash, Submission!Go
  <2> QED
    BY <2>3 DEF Submits, Submission!Next, Submission!Fault
<1> QED
  BY <1>3, <1>7, <1>8, <1>9, <1>10, <1>11, <1>12
  DEF Handle, ApiFault, Cancel, CancelRemoves, ResetJob, Refuse, RemoveForRetry, InspectEntry, PurgeEntry,
      ReconcileCallbacks, ReconcileAnnounces, RemoveFails, Effect, Resets

LEMMA SubmitStep ==
  ASSUME IInv, RecordInv, HistoryInv, Next, Remember
  PROVE  Submits
<1>1. CASE \E c \in Commands, j \in Jobs : Creates(c, j) /\ (Handle(c) \/ ApiFault(c))
  BY <1>1, CreatorSubmits
<1>2. ASSUME NEW c \in Commands, NEW j \in Jobs, Creates(c, j), NEW k \in Jobs, NEW kind \in Kinds
      PROVE  ~ReadJob(c, k, kind)
  BY <1>2 DEF Creates, ReadJob
<1>3. CASE \E c \in Commands : \/ \E j \in Jobs, kind \in Kinds : ReadJob(c, j, kind)
                               \/ Handle(c)
                               \/ ApiFault(c)
  BY <1>1, <1>2, <1>3, OthersSubmit
<1>4. CASE \E c \in Commands, j \in Jobs : CreateJob(c, j)
  BY <1>4, CreateSubmits
<1> QED
  BY <1>3, <1>4, WorkerSubmits, Steps

(* CrawlJobs does nothing to a submitted job, and no create does anything,     *)
(* that SubmitJob does not allow: what SubmitJob shows of the answers to       *)
(* POST /jobs, it shows with the workers, the other handlers and their faults  *)
(* in place of its sketch of them.                                             *)
THEOREM CrawlSubmits == Remembered => SubmitsAsSubmitJob
<1>1. IInv /\ RecordInv /\ HistoryInv /\ [Next /\ Remember]_<<vars, history>> => Submits
  <2>1. UNCHANGED <<vars, history>> => Submits
    <3>1. SUFFICES ASSUME UNCHANGED <<vars, history>> PROVE Submits
      OBVIOUS
    <3>2. UNCHANGED <<status, outcome, cmd, had, reply, struck>>
      BY <3>1 DEF vars, history, rows
    <3>3. Submitters' = Submitters
      BY <3>2 DEF Submitters, Stage, Creates, Exists
    <3> QED
      BY <3>2, <3>3, JobsSame, NothingSubmitted DEF NotByCreates
  <2> QED
    BY <2>1, SubmitStep
<1> QED
  BY <1>1, RememberedIsSpec, IInvHolds, RecordHolds, HistoryHolds, PTL
  DEF Remembered, SubmitsAsSubmitJob, Submits

=============================================================================

---------------------------- MODULE SubmitJobProofs ----------------------------
(* Proofs about SubmitJob: types, one job per key, that an answer names the    *)
(* job of the request's own key and payload, the rate limit, and what an       *)
(* accepted submission is promised.                                            *)
EXTENDS SubmitJob, FiniteSetTheorems, TLAPS

(* A request has no job before createJob; its job carries its key and payload. *)
JobIsOfItsRequest ==
  \A r \in Requests : job[r].key # None =>
    /\ request[r].pc \notin {"new", "rate", "create"}
    /\ job[r].key = request[r].key
    /\ job[r].hash = request[r].hash

(* From queue.add on, a request has its job.                                   *)
HandlesItsJob ==
  \A r \in Requests : request[r].pc \in {"add", "record", "recordFailed", "fail"} =>
    /\ job[r].key = request[r].key
    /\ job[r].hash = request[r].hash

(* A request that is under way has its key.                                    *)
KeyIsKnown ==
  \A r \in Requests : request[r].pc \notin {"new", "done", "gone"} => request[r].key # None

(* Only a request that is over, and had a key, has been told of a job.         *)
AnsweredIsDone ==
  \A r \in Requests : answer[r].job # None => request[r].pc = "done" /\ request[r].key # None

SubmitIInv ==
  /\ TypeOK
  /\ OneJobPerKey
  /\ JobIsOfItsRequest
  /\ HandlesItsJob
  /\ KeyIsKnown
  /\ AnsweredIsDone
  /\ AnswerNamesTheJob

-----------------------------------------------------------------------------
(* What the handlers' assignments do.                                          *)

(* Moving a request on leaves its key and payload.                             *)
LEMMA GoMoves ==
  ASSUME TypeOK, NEW r \in Requests, NEW pc \in RequestPcs, Go(r, pc)
  PROVE  /\ request' \in [Requests -> RequestStates]
         /\ \A q \in Requests : /\ request'[q].key = request[q].key
                                /\ request'[q].hash = request[q].hash
                                /\ request'[q].pc = IF q = r THEN pc ELSE request[q].pc
  <1>1. [request[r] EXCEPT !.pc = pc] \in RequestStates
    BY DEF TypeOK, RequestStates
  <1>2. request' = [request EXCEPT ![r] = [request[r] EXCEPT !.pc = pc]]
    BY DEF Go
  <1>3. /\ [request[r] EXCEPT !.pc = pc].key = request[r].key
        /\ [request[r] EXCEPT !.pc = pc].hash = request[r].hash
        /\ [request[r] EXCEPT !.pc = pc].pc = pc
    BY DEF TypeOK, RequestStates
  <1> QED BY <1>1, <1>2, <1>3 DEF TypeOK

(* Telling one request leaves the answers of the others.                       *)
LEMMA TellMoves ==
  ASSUME TypeOK, NEW r \in Requests, NEW reply \in Answers, Tell(r, reply)
  PROVE  /\ answer' \in [Requests -> Answers]
         /\ \A q \in Requests : answer'[q] = IF q = r THEN reply ELSE answer[q]
  BY DEF Tell, TypeOK

(* A new status or enqueue outcome leaves the row's key and payload.           *)
LEMMA RowMoves ==
  ASSUME TypeOK, NEW j \in Requests,
         \/ \E s \in JobStatuses : job' = [job EXCEPT ![j].status = s]
         \/ \E o \in {"PENDING", "QUEUED", "FAILED"} : job' = [job EXCEPT ![j].outcome = o]
         \/ job' = job
  PROVE  /\ job' \in [Requests -> JobRows]
         /\ \A q \in Requests : job'[q].key = job[q].key /\ job'[q].hash = job[q].hash
  <1>1. CASE job' = job
    BY <1>1 DEF TypeOK
  <1>2. ASSUME NEW s \in JobStatuses, job' = [job EXCEPT ![j].status = s]
        PROVE  /\ job' \in [Requests -> JobRows]
               /\ \A q \in Requests : job'[q].key = job[q].key /\ job'[q].hash = job[q].hash
    <2>1. [job[j] EXCEPT !.status = s] \in JobRows
      BY DEF TypeOK, JobRows
    <2>2. /\ [job[j] EXCEPT !.status = s].key = job[j].key
          /\ [job[j] EXCEPT !.status = s].hash = job[j].hash
      BY DEF TypeOK, JobRows
    <2> QED BY <1>2, <2>1, <2>2 DEF TypeOK
  <1>3. ASSUME NEW o \in {"PENDING", "QUEUED", "FAILED"}, job' = [job EXCEPT ![j].outcome = o]
        PROVE  /\ job' \in [Requests -> JobRows]
               /\ \A q \in Requests : job'[q].key = job[q].key /\ job'[q].hash = job[q].hash
    <2>1. [job[j] EXCEPT !.outcome = o] \in JobRows
      BY DEF TypeOK, JobRows
    <2>2. /\ [job[j] EXCEPT !.outcome = o].key = job[j].key
          /\ [job[j] EXCEPT !.outcome = o].hash = job[j].hash
      BY DEF TypeOK, JobRows
    <2> QED BY <1>3, <2>1, <2>2 DEF TypeOK
  <1> QED BY <1>1, <1>2, <1>3

(* A refusal tells of no job. *)
LEMMA RefusalNames ==
  ASSUME NEW kind \in AnswerKinds
  PROVE  Refusal(kind) \in Answers /\ Refusal(kind).job = None
  BY DEF Refusal, Answers

(* sendIdempotentJob answers with one of three kinds and names the job.        *)
LEMMA ReplyNames ==
  ASSUME NEW j \in Requests
  PROVE  IdempotentReply(j) \in Answers /\ IdempotentReply(j).job = j
  <1> DEFINE kind == CASE job[j].outcome = "FAILED" \/ (job[j].outcome = "PENDING" /\ job[j].status = "failed") -> "failed"
                       [] job[j].outcome = "PENDING" /\ job[j].status = "queued" -> "pending"
                       [] OTHER -> "duplicate"
  <1>1. kind \in AnswerKinds
    BY DEF AnswerKinds
  <1>2. IdempotentReply(j) = [kind |-> kind, job |-> j]
    BY DEF IdempotentReply
  <1> HIDE DEF kind
  <1> QED BY <1>1, <1>2 DEF Answers

(* What a request is told of a prior job names it only when the payload is     *)
(* its own.                                                                    *)
LEMMA PriorNames ==
  ASSUME NEW j \in Requests, NEW r, NEW hash
  PROVE  /\ PriorReply(r, j, hash) \in Answers
         /\ PriorReply(r, j, hash).job # None => PriorReply(r, j, hash).job = j /\ job[j].hash = hash
  BY ReplyNames, RefusalNames DEF PriorReply, AnswerKinds

-----------------------------------------------------------------------------

(* The invariant holds before the first request.                               *)
LEMMA SubmitInit == Init => SubmitIInv
  <1> SUFFICES ASSUME Init PROVE SubmitIInv
    OBVIOUS
  <1> USE SubmitAssumption DEF Init, NoJob, NewRequest, NoAnswer
  <1>1. TypeOK
    BY DEF TypeOK, JobStatuses, RequestPcs, AnswerKinds, Minutes, JobRows, RequestStates, Answers
  <1>2. OneJobPerKey /\ JobIsOfItsRequest /\ HandlesItsJob /\ KeyIsKnown /\ AnsweredIsDone /\ AnswerNamesTheJob
    BY DEF OneJobPerKey, JobIsOfItsRequest, HandlesItsJob, KeyIsKnown, AnsweredIsDone, AnswerNamesTheJob
  <1> QED BY <1>1, <1>2 DEF SubmitIInv

Handling == {"add", "record", "recordFailed", "fail"}
Before == {"new", "rate", "create"}
Over == {"new", "done", "gone"}

(* A step that keeps the keys and payloads of rows and requests, moves at most *)
(* one request, never back and never into Handling, and tells it of no job but *)
(* its own, keeps the invariant.  All but the finds and createJob are such.    *)
LEMMA QuietStep ==
  ASSUME SubmitIInv, TypeOK', NEW r \in Requests,
         \A q \in Requests : /\ job'[q].key = job[q].key
                             /\ job'[q].hash = job[q].hash
                             /\ request'[q].key = request[q].key
                             /\ request'[q].hash = request[q].hash,
         \A q \in Requests \ {r} : answer'[q] = answer[q] /\ request'[q].pc = request[q].pc,
         request'[r].pc = request[r].pc \/ request[r].pc # "done",
         request'[r].pc \in Handling => request[r].pc \in Handling,
         request'[r].pc \in Before => request[r].pc \in Before,
         request[r].pc \in Over => request'[r].pc \in Over,
         \/ answer'[r] = answer[r]
         \/ answer'[r].job = None
         \/ answer'[r].job = r /\ request[r].pc \in Handling /\ request'[r].pc = "done"
  PROVE  SubmitIInv'
  <1> USE DEF SubmitIInv, Handling, Before, Over
  <1>1. OneJobPerKey'
    BY DEF OneJobPerKey
  <1>2. JobIsOfItsRequest'
    BY DEF JobIsOfItsRequest
  <1>3. HandlesItsJob'
    BY DEF HandlesItsJob
  <1>4. KeyIsKnown' /\ AnsweredIsDone'
    BY DEF KeyIsKnown, AnsweredIsDone
  <1>5. ASSUME NEW q \in Requests, answer'[q].job # None
        PROVE  /\ job'[answer'[q].job].key = request'[q].key
               /\ job'[answer'[q].job].hash = request'[q].hash
    <2>1. CASE answer'[q] = answer[q]
      <3>1. answer[q].job \in Requests
        BY <1>5, <2>1 DEF TypeOK, Answers
      <3> QED BY <1>5, <2>1, <3>1 DEF AnswerNamesTheJob
    <2>2. CASE q = r /\ answer'[r].job = r /\ request[r].pc \in Handling
      BY <2>2 DEF HandlesItsJob
    <2> QED BY <1>5, <2>1, <2>2
  <1>6. AnswerNamesTheJob'
    BY <1>5 DEF AnswerNamesTheJob
  <1> QED BY <1>1, <1>2, <1>3, <1>4, <1>6

(* An invalid request is told of no job.                                        *)
LEMMA RefuseKeeps ==
  ASSUME SubmitIInv, NEW r \in Requests, Refuse(r)
  PROVE  SubmitIInv'
  <1> USE DEF SubmitIInv
  <1>1. Go(r, "done")
    BY DEF Refuse
  <1>2. /\ request' \in [Requests -> RequestStates]
        /\ \A q \in Requests : /\ request'[q].key = request[q].key
                               /\ request'[q].hash = request[q].hash
                               /\ request'[q].pc = IF q = r THEN "done" ELSE request[q].pc
    BY <1>1, GoMoves DEF RequestPcs
  <1>3. /\ answer' \in [Requests -> Answers]
        /\ \A q \in Requests \ {r} : answer'[q] = answer[q]
        /\ answer'[r].job = None
    BY TellMoves, RefusalNames DEF Refuse, AnswerKinds
  <1>4. /\ job' \in [Requests -> JobRows]
        /\ \A q \in Requests : job'[q].key = job[q].key /\ job'[q].hash = job[q].hash
    BY RowMoves DEF Refuse, JobStatuses
  <1>5. entry' \in [Requests -> BOOLEAN] /\ faults' \in Nat /\ count' \in [Minutes -> Nat]
    BY SubmitAssumption DEF Refuse, TypeOK, Minutes
  <1>6. minute' = minute /\ request[r].pc \in {"new"}
    BY DEF Refuse
  <1>7. TypeOK'
    BY <1>2, <1>3, <1>4, <1>5, <1>6 DEF TypeOK
  <1> QED BY <1>2, <1>3, <1>4, <1>6, <1>7, QuietStep DEF Handling, Before, Over

(* Nor is one with a denied target ...                                          *)
LEMMA DenyTargetKeeps ==
  ASSUME SubmitIInv, NEW r \in Requests, DenyTarget(r)
  PROVE  SubmitIInv'
  <1> USE DEF SubmitIInv
  <1>1. Go(r, "done")
    BY DEF DenyTarget
  <1>2. /\ request' \in [Requests -> RequestStates]
        /\ \A q \in Requests : /\ request'[q].key = request[q].key
                               /\ request'[q].hash = request[q].hash
                               /\ request'[q].pc = IF q = r THEN "done" ELSE request[q].pc
    BY <1>1, GoMoves DEF RequestPcs
  <1>3. /\ answer' \in [Requests -> Answers]
        /\ \A q \in Requests \ {r} : answer'[q] = answer[q]
        /\ answer'[r].job = None
    BY TellMoves, RefusalNames DEF DenyTarget, AnswerKinds
  <1>4. /\ job' \in [Requests -> JobRows]
        /\ \A q \in Requests : job'[q].key = job[q].key /\ job'[q].hash = job[q].hash
    BY RowMoves DEF DenyTarget, JobStatuses
  <1>5. entry' \in [Requests -> BOOLEAN] /\ faults' \in Nat /\ count' \in [Minutes -> Nat]
    BY SubmitAssumption DEF DenyTarget, TypeOK, Minutes
  <1>6. minute' = minute /\ request[r].pc \in {"rate"}
    BY DEF DenyTarget
  <1>7. TypeOK'
    BY <1>2, <1>3, <1>4, <1>5, <1>6 DEF TypeOK
  <1> QED BY <1>2, <1>3, <1>4, <1>6, <1>7, QuietStep DEF Handling, Before, Over

(* ... or one whose rate could not be counted.                                  *)
LEMMA RateFailsKeeps ==
  ASSUME SubmitIInv, NEW r \in Requests, RateFails(r)
  PROVE  SubmitIInv'
  <1> USE DEF SubmitIInv
  <1>1. Go(r, "done")
    BY DEF RateFails
  <1>2. /\ request' \in [Requests -> RequestStates]
        /\ \A q \in Requests : /\ request'[q].key = request[q].key
                               /\ request'[q].hash = request[q].hash
                               /\ request'[q].pc = IF q = r THEN "done" ELSE request[q].pc
    BY <1>1, GoMoves DEF RequestPcs
  <1>3. /\ answer' \in [Requests -> Answers]
        /\ \A q \in Requests \ {r} : answer'[q] = answer[q]
        /\ answer'[r].job = None
    BY TellMoves, RefusalNames DEF RateFails, AnswerKinds
  <1>4. /\ job' \in [Requests -> JobRows]
        /\ \A q \in Requests : job'[q].key = job[q].key /\ job'[q].hash = job[q].hash
    BY RowMoves DEF RateFails, JobStatuses
  <1>5. entry' \in [Requests -> BOOLEAN] /\ faults' \in Nat /\ count' \in [Minutes -> Nat]
    BY SubmitAssumption DEF RateFails, TypeOK, Minutes
  <1>6. minute' = minute /\ request[r].pc \in {"rate"}
    BY DEF RateFails
  <1>7. TypeOK'
    BY <1>2, <1>3, <1>4, <1>5, <1>6 DEF TypeOK
  <1> QED BY <1>2, <1>3, <1>4, <1>6, <1>7, QuietStep DEF Handling, Before, Over

(* queue.add touches no row and tells nobody ...                                *)
LEMMA AddKeeps ==
  ASSUME SubmitIInv, NEW r \in Requests, Add(r)
  PROVE  SubmitIInv'
  <1> USE DEF SubmitIInv
  <1>1. Go(r, "record")
    BY DEF Add
  <1>2. /\ request' \in [Requests -> RequestStates]
        /\ \A q \in Requests : /\ request'[q].key = request[q].key
                               /\ request'[q].hash = request[q].hash
                               /\ request'[q].pc = IF q = r THEN "record" ELSE request[q].pc
    BY <1>1, GoMoves DEF RequestPcs
  <1>3. answer' = answer
    BY DEF Add
  <1>4. /\ job' \in [Requests -> JobRows]
        /\ \A q \in Requests : job'[q].key = job[q].key /\ job'[q].hash = job[q].hash
    BY RowMoves DEF Add, JobStatuses
  <1>5. entry' \in [Requests -> BOOLEAN] /\ faults' \in Nat /\ count' \in [Minutes -> Nat]
    BY SubmitAssumption DEF Add, TypeOK, Minutes
  <1>6. minute' = minute /\ request[r].pc \in {"add"}
    BY DEF Add
  <1>7. TypeOK'
    BY <1>2, <1>3, <1>4, <1>5, <1>6 DEF TypeOK
  <1> QED BY <1>2, <1>3, <1>4, <1>6, <1>7, QuietStep DEF Handling, Before, Over

(* ... whether or not its reply arrives.                                        *)
LEMMA AddFailsKeeps ==
  ASSUME SubmitIInv, NEW r \in Requests, AddFails(r)
  PROVE  SubmitIInv'
  <1> USE DEF SubmitIInv
  <1>1. Go(r, "recordFailed")
    BY DEF AddFails
  <1>2. /\ request' \in [Requests -> RequestStates]
        /\ \A q \in Requests : /\ request'[q].key = request[q].key
                               /\ request'[q].hash = request[q].hash
                               /\ request'[q].pc = IF q = r THEN "recordFailed" ELSE request[q].pc
    BY <1>1, GoMoves DEF RequestPcs
  <1>3. answer' = answer
    BY DEF AddFails
  <1>4. /\ job' \in [Requests -> JobRows]
        /\ \A q \in Requests : job'[q].key = job[q].key /\ job'[q].hash = job[q].hash
    BY RowMoves DEF AddFails, JobStatuses
  <1>5. entry' \in [Requests -> BOOLEAN] /\ faults' \in Nat /\ count' \in [Minutes -> Nat]
    <2>1. entry' \in [Requests -> BOOLEAN]
      <3>1. CASE entry' = entry
        BY <3>1 DEF TypeOK
      <3>2. CASE entry' = [entry EXCEPT ![r] = TRUE]
        BY <3>2 DEF TypeOK
      <3> QED BY <3>1, <3>2 DEF AddFails
    <2>2. faults' \in Nat /\ count' \in [Minutes -> Nat]
      BY DEF AddFails, TypeOK
    <2> QED BY <2>1, <2>2
  <1>6. minute' = minute /\ request[r].pc \in {"add"}
    BY DEF AddFails
  <1>7. TypeOK'
    BY <1>2, <1>3, <1>4, <1>5, <1>6 DEF TypeOK
  <1> QED BY <1>2, <1>3, <1>4, <1>6, <1>7, QuietStep DEF Handling, Before, Over

(* The accepted request is told of the job it has made.                         *)
LEMMA RecordQueuedKeeps ==
  ASSUME SubmitIInv, NEW r \in Requests, RecordQueued(r)
  PROVE  SubmitIInv'
  <1> USE DEF SubmitIInv
  <1>1. PICK pc \in {"done", "gone"} : /\ Go(r, pc)
                                 /\ \/ pc = "done" /\ Tell(r, [kind |-> "accepted", job |-> r])
                                    \/ answer' = answer
    BY DEF RecordQueued
  <1>2. /\ request' \in [Requests -> RequestStates]
        /\ \A q \in Requests : /\ request'[q].key = request[q].key
                               /\ request'[q].hash = request[q].hash
                               /\ request'[q].pc = IF q = r THEN pc ELSE request[q].pc
    BY <1>1, GoMoves DEF RequestPcs
  <1> DEFINE reply == [kind |-> "accepted", job |-> r]
  <1>2a. reply \in Answers /\ reply.job = r
    BY DEF Answers, AnswerKinds
  <1>2b. (Tell(r, reply) /\ pc = "done") \/ answer' = answer
    BY <1>1 DEF RecordQueued
  <1> HIDE DEF reply
  <1>3. /\ answer' \in [Requests -> Answers]
        /\ \A q \in Requests \ {r} : answer'[q] = answer[q]
        /\ answer'[r] = answer[r] \/ (answer'[r].job = r /\ pc = "done")
    <2>1. CASE answer' = answer
      BY <2>1 DEF TypeOK
    <2>2. CASE Tell(r, reply) /\ pc = "done"
      BY <1>2a, <2>2, TellMoves
    <2> QED BY <1>2b, <2>1, <2>2
  <1>4. /\ job' \in [Requests -> JobRows]
        /\ \A q \in Requests : job'[q].key = job[q].key /\ job'[q].hash = job[q].hash
    BY RowMoves DEF RecordQueued, Recordable, JobStatuses
  <1>5. entry' \in [Requests -> BOOLEAN] /\ faults' \in Nat /\ count' \in [Minutes -> Nat]
    BY SubmitAssumption DEF RecordQueued, TypeOK, Minutes
  <1>6. minute' = minute /\ request[r].pc \in {"record"}
    BY DEF RecordQueued
  <1>7. TypeOK'
    BY <1>2, <1>3, <1>4, <1>5, <1>6 DEF TypeOK
  <1> QED BY <1>2, <1>3, <1>4, <1>6, <1>7, QuietStep DEF Handling, Before, Over

(* Recording FAILED keeps the row's key and payload.                            *)
LEMMA RecordFailedKeeps ==
  ASSUME SubmitIInv, NEW r \in Requests, RecordFailed(r)
  PROVE  SubmitIInv'
  <1> USE DEF SubmitIInv
  <1>1. PICK pc \in {"fail", "gone"} : Go(r, pc)
    BY DEF RecordFailed
  <1>2. /\ request' \in [Requests -> RequestStates]
        /\ \A q \in Requests : /\ request'[q].key = request[q].key
                               /\ request'[q].hash = request[q].hash
                               /\ request'[q].pc = IF q = r THEN pc ELSE request[q].pc
    BY <1>1, GoMoves DEF RequestPcs
  <1>3. answer' = answer
    BY DEF RecordFailed
  <1>4. /\ job' \in [Requests -> JobRows]
        /\ \A q \in Requests : job'[q].key = job[q].key /\ job'[q].hash = job[q].hash
    BY RowMoves DEF RecordFailed, Recordable, JobStatuses
  <1>5. entry' \in [Requests -> BOOLEAN] /\ faults' \in Nat /\ count' \in [Minutes -> Nat]
    BY SubmitAssumption DEF RecordFailed, TypeOK, Minutes
  <1>6. minute' = minute /\ request[r].pc \in {"recordFailed"}
    BY DEF RecordFailed
  <1>7. TypeOK'
    BY <1>2, <1>3, <1>4, <1>5, <1>6 DEF TypeOK
  <1> QED BY <1>2, <1>3, <1>4, <1>6, <1>7, QuietStep DEF Handling, Before, Over

(* The failed request is told of the job it has made.                           *)
LEMMA FailKeeps ==
  ASSUME SubmitIInv, NEW r \in Requests, Fail(r)
  PROVE  SubmitIInv'
  <1> USE DEF SubmitIInv
  <1>1. Go(r, "done")
    BY DEF Fail
  <1>2. /\ request' \in [Requests -> RequestStates]
        /\ \A q \in Requests : /\ request'[q].key = request[q].key
                               /\ request'[q].hash = request[q].hash
                               /\ request'[q].pc = IF q = r THEN "done" ELSE request[q].pc
    BY <1>1, GoMoves DEF RequestPcs
  <1> DEFINE reply == [kind |-> "failed", job |-> r]
  <1>2a. reply \in Answers /\ reply.job = r
    BY DEF Answers, AnswerKinds
  <1>2b. Tell(r, reply)
    BY <1>1 DEF Fail
  <1> HIDE DEF reply
  <1>3. /\ answer' \in [Requests -> Answers]
        /\ \A q \in Requests \ {r} : answer'[q] = answer[q]
        /\ answer'[r] = answer[r] \/ (answer'[r].job = r)
    BY <1>2a, <1>2b, TellMoves DEF TypeOK
  <1>4. /\ job' \in [Requests -> JobRows]
        /\ \A q \in Requests : job'[q].key = job[q].key /\ job'[q].hash = job[q].hash
    BY RowMoves DEF Fail, Failed, JobStatuses
  <1>5. entry' \in [Requests -> BOOLEAN] /\ faults' \in Nat /\ count' \in [Minutes -> Nat]
    BY SubmitAssumption DEF Fail, TypeOK, Minutes
  <1>6. minute' = minute /\ request[r].pc \in {"fail"}
    BY DEF Fail
  <1>7. TypeOK'
    BY <1>2, <1>3, <1>4, <1>5, <1>6 DEF TypeOK
  <1> QED BY <1>2, <1>3, <1>4, <1>6, <1>7, QuietStep DEF Handling, Before, Over

(* A request that dies is told nothing.                                         *)
LEMMA CrashKeeps ==
  ASSUME SubmitIInv, NEW r \in Requests, Crash(r)
  PROVE  SubmitIInv'
  <1> USE DEF SubmitIInv
  <1>1. Go(r, "gone")
    BY DEF Crash
  <1>2. /\ request' \in [Requests -> RequestStates]
        /\ \A q \in Requests : /\ request'[q].key = request[q].key
                               /\ request'[q].hash = request[q].hash
                               /\ request'[q].pc = IF q = r THEN "gone" ELSE request[q].pc
    BY <1>1, GoMoves DEF RequestPcs
  <1>3. answer' = answer
    BY DEF Crash
  <1>4. /\ job' \in [Requests -> JobRows]
        /\ \A q \in Requests : job'[q].key = job[q].key /\ job'[q].hash = job[q].hash
    BY RowMoves DEF Crash, JobStatuses
  <1>5. entry' \in [Requests -> BOOLEAN] /\ faults' \in Nat /\ count' \in [Minutes -> Nat]
    BY SubmitAssumption DEF Crash, TypeOK, Minutes
  <1>6. minute' = minute /\ request[r].pc \in RequestPcs \ {"done"}
    BY DEF Crash, TypeOK, RequestStates
  <1>7. TypeOK'
    BY <1>2, <1>3, <1>4, <1>5, <1>6 DEF TypeOK
  <1> QED BY <1>2, <1>3, <1>4, <1>6, <1>7, QuietStep DEF Handling, Before, Over

(* The rate limit refuses the request or lets it on to createJob.              *)
LEMMA EnforceRateKeeps ==
  ASSUME SubmitIInv, NEW r \in Requests, EnforceRate(r)
  PROVE  SubmitIInv'
  <1> USE DEF SubmitIInv
  <1>1. count' \in [Minutes -> Nat]
    BY DEF EnforceRate, TypeOK
  <1>2. request[r].pc = "rate" /\ job' = job /\ entry' = entry /\ minute' = minute /\ faults' = faults
    BY DEF EnforceRate
  <1>3. CASE Exceeds(count[minute] + 1)
    <2>1. Go(r, "done") /\ Tell(r, Refusal("limited"))
      BY <1>3 DEF EnforceRate
    <2>2. /\ request' \in [Requests -> RequestStates]
          /\ \A q \in Requests : /\ request'[q].key = request[q].key
                                 /\ request'[q].hash = request[q].hash
                                 /\ request'[q].pc = IF q = r THEN "done" ELSE request[q].pc
      BY <2>1, GoMoves DEF RequestPcs
    <2>3. /\ answer' \in [Requests -> Answers]
          /\ \A q \in Requests \ {r} : answer'[q] = answer[q]
          /\ answer'[r].job = None
      BY <2>1, TellMoves, RefusalNames DEF AnswerKinds
    <2>4. TypeOK'
      BY <1>1, <1>2, <2>2, <2>3 DEF TypeOK
    <2> QED BY <1>2, <2>2, <2>3, <2>4, QuietStep DEF Handling, Before, Over
  <1>4. CASE ~Exceeds(count[minute] + 1)
    <2> DEFINE next == [request[r] EXCEPT !.pc = "create", !.minute = minute]
    <2>1. request' = [request EXCEPT ![r] = next] /\ answer' = answer
      BY <1>4 DEF EnforceRate
    <2>2. /\ next \in RequestStates
          /\ next.key = request[r].key /\ next.hash = request[r].hash /\ next.pc = "create"
      BY DEF TypeOK, RequestStates, RequestPcs
    <2> HIDE DEF next
    <2>3. /\ request' \in [Requests -> RequestStates]
          /\ \A q \in Requests : /\ request'[q].key = request[q].key
                                 /\ request'[q].hash = request[q].hash
                                 /\ request'[q].pc = IF q = r THEN "create" ELSE request[q].pc
      BY <2>1, <2>2 DEF TypeOK
    <2>4. TypeOK'
      BY <1>1, <1>2, <2>1, <2>3 DEF TypeOK
    <2> QED BY <1>2, <2>1, <2>3, <2>4, QuietStep DEF Handling, Before, Over
  <1> QED BY <1>3, <1>4

(* The first findIdempotentJob answers of the job it finds under the key, or   *)
(* gives the request its key and payload.                                      *)
LEMMA FindKeeps ==
  ASSUME SubmitIInv, NEW r \in Requests, NEW k \in Keys, NEW hash \in Payloads, Find(r, k, hash)
  PROVE  SubmitIInv'
  <1> USE DEF SubmitIInv
  <1>1. PICK pc \in {"rate", "done"} :
          /\ request' = [request EXCEPT ![r] = [pc |-> pc, key |-> k, hash |-> hash, minute |-> None]]
          /\ \/ answer' = answer
             \/ pc = "done" /\ \E j \in Holders(k) : Tell(r, PriorReply(r, j, hash))
    BY DEF Find
  <1>2. request[r].pc = "new" /\ job' = job /\ entry' = entry /\ minute' = minute
        /\ count' = count /\ faults' = faults
    BY DEF Find
  <1>3. /\ request' \in [Requests -> RequestStates]
        /\ \A q \in Requests \ {r} : request'[q] = request[q]
        /\ request'[r].pc = pc /\ request'[r].key = k /\ request'[r].hash = hash
    BY <1>1 DEF TypeOK, RequestStates, RequestPcs
  <1>4. answer[r].job = None /\ job[r].key = None
    BY <1>2 DEF AnsweredIsDone, JobIsOfItsRequest
  <1>5. /\ answer' \in [Requests -> Answers]
        /\ \A q \in Requests \ {r} : answer'[q] = answer[q]
        /\ answer'[r].job # None =>
             pc = "done" /\ job[answer'[r].job].key = k /\ job[answer'[r].job].hash = hash
    <2>1. CASE answer' = answer
      BY <2>1, <1>4 DEF TypeOK
    <2>2. ASSUME NEW j \in Holders(k), Tell(r, PriorReply(r, j, hash)), pc = "done"
          PROVE  /\ answer' \in [Requests -> Answers]
                 /\ \A q \in Requests \ {r} : answer'[q] = answer[q]
                 /\ answer'[r].job # None =>
                      pc = "done" /\ job[answer'[r].job].key = k /\ job[answer'[r].job].hash = hash
      <3>1. j \in Requests /\ job[j].key = k
        BY DEF Holders
      <3> QED BY <2>2, <3>1, PriorNames, TellMoves
    <2> QED BY <1>1, <2>1, <2>2
  <1>6. TypeOK'
    BY <1>2, <1>3, <1>5 DEF TypeOK
  <1>7. OneJobPerKey' /\ JobIsOfItsRequest' /\ HandlesItsJob' /\ KeyIsKnown' /\ AnsweredIsDone'
    BY <1>2, <1>3, <1>4, <1>5, SubmitAssumption DEF OneJobPerKey, JobIsOfItsRequest, HandlesItsJob, KeyIsKnown, AnsweredIsDone
  <1>8. AnswerNamesTheJob'
    BY <1>2, <1>3, <1>5 DEF AnswerNamesTheJob
  <1> QED BY <1>6, <1>7, <1>8

(* The second one answers like the first.                                      *)
LEMMA RefindKeeps ==
  ASSUME SubmitIInv, NEW r \in Requests, Refind(r)
  PROVE  SubmitIInv'
  <1> USE DEF SubmitIInv
  <1> DEFINE k == request[r].key
             hash == request[r].hash
  <1>1. PICK j \in Holders(k) : Tell(r, PriorReply(r, j, hash))
    BY DEF Refind
  <1>2. Go(r, "done") /\ request[r].pc = "refind" /\ job' = job /\ entry' = entry
        /\ minute' = minute /\ count' = count /\ faults' = faults
    BY DEF Refind
  <1>3. /\ request' \in [Requests -> RequestStates]
        /\ \A q \in Requests : /\ request'[q].key = request[q].key
                               /\ request'[q].hash = request[q].hash
                               /\ request'[q].pc = IF q = r THEN "done" ELSE request[q].pc
    BY <1>2, GoMoves DEF RequestPcs
  <1>4. j \in Requests /\ job[j].key = k
    BY DEF Holders
  <1>5. /\ answer' \in [Requests -> Answers]
        /\ \A q \in Requests \ {r} : answer'[q] = answer[q]
        /\ answer'[r].job # None =>
             job[answer'[r].job].key = k /\ job[answer'[r].job].hash = hash
    BY <1>1, <1>4, PriorNames, TellMoves
  <1>6. TypeOK'
    BY <1>2, <1>3, <1>5 DEF TypeOK
  <1>7. OneJobPerKey' /\ JobIsOfItsRequest' /\ HandlesItsJob' /\ KeyIsKnown' /\ AnsweredIsDone'
    BY <1>2, <1>3, <1>5 DEF OneJobPerKey, JobIsOfItsRequest, HandlesItsJob, KeyIsKnown, AnsweredIsDone
  <1>8. AnswerNamesTheJob'
    BY <1>2, <1>3, <1>5 DEF AnswerNamesTheJob
  <1> QED BY <1>6, <1>7, <1>8

(* createJob makes the first job of its key, or leaves everything to the       *)
(* second find.                                                                *)
LEMMA CreateKeeps ==
  ASSUME SubmitIInv, NEW r \in Requests, Create(r)
  PROVE  SubmitIInv'
  <1> USE DEF SubmitIInv
  <1>1. request[r].pc = "create" /\ entry' = entry /\ answer' = answer /\ minute' = minute
        /\ count' = count /\ faults' = faults
    BY DEF Create
  <1>2. CASE Holders(request[r].key) # {}
    <2>1. job' = job /\ Go(r, "refind")
      BY <1>2 DEF Create
    <2>2. /\ request' \in [Requests -> RequestStates]
          /\ \A q \in Requests : /\ request'[q].key = request[q].key
                                 /\ request'[q].hash = request[q].hash
                                 /\ request'[q].pc = IF q = r THEN "refind" ELSE request[q].pc
      BY <2>1, GoMoves DEF RequestPcs
    <2>3. TypeOK'
      BY <1>1, <2>1, <2>2 DEF TypeOK
    <2> QED BY <1>1, <2>1, <2>2, <2>3, QuietStep DEF Handling, Before, Over
  <1>3. CASE Holders(request[r].key) = {}
    <2>1. job' = [job EXCEPT ![r] = NewJob(r)] /\ Go(r, "add")
      BY <1>3 DEF Create
    <2>2. /\ request' \in [Requests -> RequestStates]
          /\ \A q \in Requests : /\ request'[q].key = request[q].key
                                 /\ request'[q].hash = request[q].hash
                                 /\ request'[q].pc = IF q = r THEN "add" ELSE request[q].pc
      BY <2>1, GoMoves DEF RequestPcs
    <2>3. NewJob(r) \in JobRows /\ NewJob(r).key = request[r].key /\ NewJob(r).hash = request[r].hash
      BY DEF TypeOK, NewJob, JobRows, JobStatuses, RequestStates
    <2>4. /\ job' \in [Requests -> JobRows]
          /\ \A q \in Requests \ {r} : job'[q] = job[q]
          /\ job'[r].key = request[r].key /\ job'[r].hash = request[r].hash
      BY <2>1, <2>3 DEF TypeOK
    <2>5. TypeOK'
      BY <1>1, <2>2, <2>4 DEF TypeOK
    <2>6. \A q \in Requests : job[q].key # request[r].key
      BY <1>3 DEF Holders
    <2>7. OneJobPerKey'
      BY <2>4, <2>6 DEF OneJobPerKey
    <2>8. JobIsOfItsRequest' /\ HandlesItsJob' /\ KeyIsKnown'
      BY <1>1, <2>2, <2>4 DEF JobIsOfItsRequest, HandlesItsJob, KeyIsKnown
    <2>9. AnsweredIsDone'
      BY <1>1, <2>2 DEF AnsweredIsDone
    <2>10. job[r].key = None
      BY <1>1 DEF JobIsOfItsRequest
    <2>11. ASSUME NEW q \in Requests, answer'[q].job # None
           PROVE  /\ job'[answer'[q].job].key = request'[q].key
                  /\ job'[answer'[q].job].hash = request'[q].hash
      <3>1. answer[q].job \in Requests /\ request[q].pc = "done" /\ request[q].key # None
        BY <1>1, <2>11 DEF TypeOK, Answers, AnsweredIsDone
      <3>2. job[answer[q].job].key = request[q].key /\ job[answer[q].job].hash = request[q].hash
        BY <1>1, <2>11 DEF AnswerNamesTheJob
      <3>3. CASE answer[q].job # r
        BY <1>1, <2>2, <2>4, <3>1, <3>2, <3>3
      <3>4. CASE answer[q].job = r
        <4>1. request[q].key = None
          BY <2>10, <3>2, <3>4
        <4> QED BY <4>1, <3>1
      <3> QED BY <3>3, <3>4
    <2>12. AnswerNamesTheJob'
      BY <2>11 DEF AnswerNamesTheJob
    <2> QED BY <2>5, <2>7, <2>8, <2>9, <2>12
  <1> QED BY <1>2, <1>3

(* The rest of the system changes a status, an outcome or an entry at a time.   *)
LEMMA OthersKeeps ==
  ASSUME SubmitIInv, NEW j \in Requests, Others(j)
  PROVE  SubmitIInv'
  <1> USE DEF SubmitIInv
  <1>1. /\ job' \in [Requests -> JobRows]
        /\ \A q \in Requests : job'[q].key = job[q].key /\ job'[q].hash = job[q].hash
    <2>1. CASE job' = job
      BY <2>1 DEF TypeOK
    <2>2. CASE \E s \in {"queued", "running", "completed", "failed", "cancelled"} :
                 job' = [job EXCEPT ![j].status = s]
      BY <2>2, RowMoves DEF JobStatuses
    <2>3. CASE job' = [job EXCEPT ![j].outcome = "QUEUED"]
      BY <2>3, RowMoves
    <2> QED
      BY <2>1, <2>2, <2>3 DEF Others, Proceed, GiveUp, Cancel, Reset, Enqueue, RecordFound, Failed
  <1>2. request' = request /\ answer' = answer /\ minute' = minute /\ count' = count
    BY DEF Others, Proceed, GiveUp, Cancel, Reset, Enqueue, RecordFound
  <1>3. faults' \in Nat
    BY DEF Others, Proceed, GiveUp, Cancel, Reset, Enqueue, RecordFound, TypeOK
  <1>4. entry' \in [Requests -> BOOLEAN]
    BY DEF Others, Proceed, GiveUp, Cancel, Reset, Enqueue, RecordFound, TypeOK
  <1>5. TypeOK'
    BY <1>1, <1>2, <1>3, <1>4 DEF TypeOK
  <1> QED BY <1>1, <1>2, <1>5, QuietStep DEF Handling, Before, Over

(* Only the clock's minute passes. *)
LEMMA MinutePassesKeeps ==
  ASSUME SubmitIInv, MinutePasses
  PROVE  SubmitIInv'
  <1> USE DEF SubmitIInv, MinutePasses
  <1>1. TypeOK'
    BY SubmitAssumption DEF TypeOK, Minutes
  <1>2. OneJobPerKey' /\ JobIsOfItsRequest' /\ HandlesItsJob' /\ KeyIsKnown'
        /\ AnsweredIsDone' /\ AnswerNamesTheJob'
    BY DEF OneJobPerKey, JobIsOfItsRequest, HandlesItsJob, KeyIsKnown, AnsweredIsDone, AnswerNamesTheJob
  <1> QED BY <1>1, <1>2

-----------------------------------------------------------------------------

(* The strengthened invariant holds in every reachable state.                  *)
THEOREM SubmitIInvHolds == Spec => []SubmitIInv
  <1>1. SubmitIInv /\ [Next]_vars => SubmitIInv'
    <2> SUFFICES ASSUME SubmitIInv, [Next]_vars PROVE SubmitIInv'
      OBVIOUS
    <2>1. CASE UNCHANGED vars
      BY <2>1 DEF vars, SubmitIInv, TypeOK, OneJobPerKey, JobIsOfItsRequest, HandlesItsJob,
                  KeyIsKnown, AnsweredIsDone, AnswerNamesTheJob
    <2>2. CASE MinutePasses
      BY <2>2, MinutePassesKeeps
    <2>3. ASSUME NEW r \in Requests, Send(r) PROVE SubmitIInv'
      BY <2>3, RefuseKeeps, FindKeeps DEF Send
    <2>4. ASSUME NEW r \in Requests, Handle(r) PROVE SubmitIInv'
      BY <2>4, DenyTargetKeeps, EnforceRateKeeps, CreateKeeps, RefindKeeps, AddKeeps,
         RecordQueuedKeeps, RecordFailedKeeps, FailKeeps DEF Handle
    <2>5. ASSUME NEW r \in Requests, Fault(r) PROVE SubmitIInv'
      BY <2>5, RateFailsKeeps, AddFailsKeeps, CrashKeeps DEF Fault
    <2>6. ASSUME NEW j \in Requests, Others(j) PROVE SubmitIInv'
      BY <2>6, OthersKeeps
    <2> QED BY <2>1, <2>2, <2>3, <2>4, <2>5, <2>6 DEF Next
  <1> QED BY SubmitInit, <1>1, PTL DEF Spec

(* However many requests, keys and payloads there are, every variable keeps    *)
(* its type.                                                                   *)
THEOREM SubmitTypes == Spec => []TypeOK
  BY SubmitIInvHolds, PTL DEF SubmitIInv

(* A key never gets two jobs, however many requests carry it at once and       *)
(* whichever of them die (findIdempotentJob and the unique index).             *)
THEOREM KeyHasOneJob == Spec => []OneJobPerKey
  BY SubmitIInvHolds, PTL DEF SubmitIInv

(* Whoever is told of a job is told of the one his key and payload name.       *)
THEOREM NamesItsJob == Spec => []AnswerNamesTheJob
  BY SubmitIInvHolds, PTL DEF SubmitIInv

-----------------------------------------------------------------------------
(* The rate limit.                                                             *)

(* Moving on, a new status and a new outcome change nothing else.              *)
LEMMA GoKeeps ==
  ASSUME TypeOK, NEW r \in Requests, NEW pc, Go(r, pc)
  PROVE  \A q \in Requests : /\ request'[q].minute = request[q].minute
                             /\ request'[q].pc = IF q = r THEN pc ELSE request[q].pc
BY DEF Go, TypeOK, RequestStates

LEMMA StatusMoves ==
  ASSUME TypeOK, NEW j \in Requests, NEW s, job' = [job EXCEPT ![j].status = s]
  PROVE  \A q \in Requests :
           /\ job'[q].key = job[q].key /\ job'[q].minute = job[q].minute
           /\ job'[q].outcome = job[q].outcome
           /\ job'[q].status = IF q = j THEN s ELSE job[q].status
BY DEF TypeOK, JobRows

LEMMA OutcomeMoves ==
  ASSUME TypeOK, NEW j \in Requests, NEW o, job' = [job EXCEPT ![j].outcome = o]
  PROVE  \A q \in Requests :
           /\ job'[q].key = job[q].key /\ job'[q].minute = job[q].minute
           /\ job'[q].outcome = IF q = j THEN o ELSE job[q].outcome
           /\ job'[q].status = job[q].status
BY DEF TypeOK, JobRows

(* The requests a minute's counter has let pass. *)
Passed(m) == {r \in Requests : request[r].minute = m}

(* A counter is at least the number of requests it has let pass, who are no    *)
(* more than the limit; a job was counted when its request was.                *)
RateInv ==
  /\ \A m \in Minutes :
       /\ IsFiniteSet(Passed(m))
       /\ Cardinality(Passed(m)) <= count[m]
       /\ Cardinality(Passed(m)) <= Limit
  /\ \A r \in Requests :
       /\ job[r].minute \in {None, request[r].minute}
       /\ request[r].pc \in {"new", "rate"} => request[r].minute = None

LEMMA RateInitially ==
  ASSUME Init
  PROVE  RateInv
<1>1. \A r \in Requests : request[r].minute = None /\ job[r].minute = None
  BY DEF Init, NewRequest, NoJob
<1>2. \A m \in Minutes : count[m] = 0
  BY DEF Init, Minutes
<1>3. \A m \in Minutes : Passed(m) = {}
  BY <1>1, SubmitAssumption DEF Passed, Minutes
<1> QED
  BY <1>1, <1>2, <1>3, FS_EmptySet, SubmitAssumption DEF RateInv

(* Steps that count nobody in: a job may take over its request's minute.       *)
LEMMA NobodyCounted ==
  ASSUME TypeOK, TypeOK', RateInv,
         \A r \in Requests : /\ request'[r].minute = request[r].minute
                             /\ job'[r].minute \in {job[r].minute, request[r].minute}
                             /\ request'[r].pc \in {"new", "rate"} =>
                                  request[r].pc \in {"new", "rate"},
         \A m \in Minutes : count[m] <= count'[m]
  PROVE  RateInv'
<1>1. \A m \in Minutes : Passed(m)' = Passed(m)
  BY DEF Passed
<1>2. ASSUME NEW m \in Minutes
      PROVE  /\ IsFiniteSet(Passed(m)') /\ Cardinality(Passed(m)') <= count'[m]
             /\ Cardinality(Passed(m)') <= Limit
  <2>1. Cardinality(Passed(m)) \in Nat /\ count[m] \in Nat /\ count'[m] \in Nat
    BY FS_CardinalityType DEF RateInv, TypeOK
  <2> QED
    BY <1>1, <2>1 DEF RateInv
<1> QED
  BY <1>2 DEF RateInv

LEMMA EnforceRateCounts ==
  ASSUME TypeOK, RateInv, NEW r \in Requests, EnforceRate(r)
  PROVE  RateInv'
<1>1. minute \in Minutes /\ count \in [Minutes -> Nat] /\ Limit \in Nat
  BY SubmitAssumption DEF TypeOK
<1>2. /\ job' = job /\ count' = [count EXCEPT ![minute] = @ + 1]
      /\ request[r].pc = "rate" /\ request[r].minute = None /\ job[r].minute = None
  BY DEF EnforceRate, RateInv
<1>3. CASE Exceeds(count[minute] + 1)
  <2>1. Go(r, "done")
    BY <1>3 DEF EnforceRate
  <2>2. \A q \in Requests : /\ request'[q].minute = request[q].minute
                            /\ request'[q].pc \in {"new", "rate"} => request[q].pc \in {"new", "rate"}
    BY <2>1 DEF Go, TypeOK, RequestStates
  <2>3. \A m \in Minutes : Passed(m)' = Passed(m)
    BY <2>2 DEF Passed
  <2>4. ASSUME NEW m \in Minutes
        PROVE  /\ IsFiniteSet(Passed(m)') /\ Cardinality(Passed(m)') <= count'[m]
               /\ Cardinality(Passed(m)') <= Limit
    <3>1. Cardinality(Passed(m)) \in Nat /\ count[m] \in Nat /\ count'[m] \in {count[m], count[m] + 1}
      BY <1>1, <1>2, FS_CardinalityType DEF RateInv
    <3> QED
      BY <2>3, <3>1 DEF RateInv
  <2> QED
    BY <1>2, <2>2, <2>4 DEF RateInv
<1>4. CASE ~Exceeds(count[minute] + 1)
  <2>1. request' = [request EXCEPT ![r].pc = "create", ![r].minute = minute]
    BY <1>4 DEF EnforceRate
  <2>2. /\ \A q \in Requests \ {r} : request'[q] = request[q]
        /\ request'[r].pc = "create" /\ request'[r].minute = minute
    BY <2>1 DEF TypeOK, RequestStates
  <2>3. ASSUME NEW m \in Minutes
        PROVE  /\ IsFiniteSet(Passed(m)') /\ Cardinality(Passed(m)') <= count'[m]
               /\ Cardinality(Passed(m)') <= Limit
    <3>1. /\ IsFiniteSet(Passed(m)) /\ Cardinality(Passed(m)) \in Nat /\ count[m] \in Nat
          /\ Cardinality(Passed(m)) <= count[m] /\ Cardinality(Passed(m)) <= Limit
      BY <1>1, FS_CardinalityType DEF RateInv
    <3>2. CASE m # minute
      <4>1. Passed(m)' = Passed(m)
        BY <1>2, <2>2, <3>2, SubmitAssumption DEF Passed, Minutes
      <4>2. count'[m] = count[m]
        BY <1>1, <1>2, <3>2
      <4> QED
        BY <3>1, <4>1, <4>2
    <3>3. CASE m = minute
      <4>1. Passed(m)' = Passed(m) \cup {r} /\ r \notin Passed(m)
        BY <1>1, <1>2, <2>2, <3>3, SubmitAssumption DEF Passed, Minutes
      <4>2. IsFiniteSet(Passed(m)') /\ Cardinality(Passed(m)') = Cardinality(Passed(m)) + 1
        BY <3>1, <4>1, FS_AddElement
      <4>3. count'[m] = count[m] + 1 /\ count[m] + 1 <= Limit
        BY <1>1, <1>2, <1>4, <3>3 DEF Exceeds
      <4> QED
        BY <1>1, <3>1, <4>2, <4>3
    <3> QED
      BY <3>2, <3>3
  <2> QED
    BY <1>2, <2>2, <2>3 DEF RateInv
<1> QED
  BY <1>3, <1>4

LEMMA RateNext ==
  ASSUME TypeOK, TypeOK', RateInv, [Next]_vars
  PROVE  RateInv'
<1>1. ASSUME NEW r \in Requests, EnforceRate(r) PROVE RateInv'
  BY <1>1, EnforceRateCounts
<1>2. ASSUME NEW r \in Requests, NEW k \in Keys, NEW hash \in Payloads, Find(r, k, hash) PROVE RateInv'
  <2>1. request[r].pc = "new" /\ request[r].minute = None /\ job' = job /\ count' = count
    BY <1>2 DEF Find, RateInv
  <2>2. \A q \in Requests : /\ request'[q].minute = request[q].minute
                            /\ request'[q].pc \in {"new", "rate"} => request[q].pc \in {"new", "rate"}
    BY <1>2, <2>1 DEF Find, TypeOK, RequestStates
  <2> QED
    BY <2>1, <2>2, NobodyCounted DEF TypeOK
<1>3. ASSUME NEW r \in Requests, Create(r) PROVE RateInv'
  <2>1. \A q \in Requests : /\ request'[q].minute = request[q].minute
                            /\ request'[q].pc \in {"new", "rate"} => request[q].pc \in {"new", "rate"}
    BY <1>3, GoKeeps DEF Create
  <2>2. \A q \in Requests : job'[q].minute \in {job[q].minute, request[q].minute}
    BY <1>3 DEF Create, NewJob, TypeOK
  <2> QED
    BY <1>3, <2>1, <2>2, NobodyCounted DEF Create, TypeOK
<1>4. ASSUME NEW r \in Requests,
             Refuse(r) \/ DenyTarget(r) \/ RateFails(r) \/ Refind(r) \/ Add(r) \/ AddFails(r) \/ Crash(r)
      PROVE  RateInv'
  <2>1. PICK pc \in RequestPcs \ {"new", "rate"} : Go(r, pc)
    BY <1>4 DEF Refuse, DenyTarget, RateFails, Refind, Add, AddFails, Crash, RequestPcs
  <2>2. \A q \in Requests : /\ request'[q].minute = request[q].minute
                            /\ request'[q].pc \in {"new", "rate"} => request[q].pc \in {"new", "rate"}
    BY <2>1, GoKeeps
  <2>3. job' = job /\ \A m \in Minutes : count[m] <= count'[m]
    BY <1>4 DEF Refuse, DenyTarget, RateFails, Refind, Add, AddFails, Crash, TypeOK
  <2> QED
    BY <2>2, <2>3, NobodyCounted
<1>5. ASSUME NEW r \in Requests, RecordQueued(r) \/ RecordFailed(r) \/ Fail(r)
      PROVE  RateInv'
  <2>1. PICK pc \in RequestPcs \ {"new", "rate"} : Go(r, pc)
    BY <1>5 DEF RecordQueued, RecordFailed, Fail, RequestPcs
  <2>2. \A q \in Requests : /\ request'[q].minute = request[q].minute
                            /\ request'[q].pc \in {"new", "rate"} => request[q].pc \in {"new", "rate"}
    BY <2>1, GoKeeps
  <2>3. count' = count /\ \A q \in Requests : job'[q].minute = job[q].minute
    BY <1>5, StatusMoves, OutcomeMoves DEF RecordQueued, RecordFailed, Fail, Failed
  <2> QED
    BY <2>2, <2>3, NobodyCounted DEF TypeOK
<1>6. ASSUME NEW j \in Requests, Others(j)
      PROVE  RateInv'
  <2>1. request' = request /\ count' = count
    BY <1>6 DEF Others, Proceed, GiveUp, Cancel, Reset, Enqueue, RecordFound
  <2>2. \A q \in Requests : job'[q].minute = job[q].minute
    BY <1>6, StatusMoves, OutcomeMoves DEF Others, Proceed, GiveUp, Cancel, Reset, Enqueue, RecordFound, Failed
  <2> QED
    BY <2>1, <2>2, NobodyCounted DEF TypeOK
<1>7. CASE MinutePasses \/ UNCHANGED vars
  BY <1>7, NobodyCounted DEF MinutePasses, vars, TypeOK
<1> QED
  BY <1>1, <1>2, <1>3, <1>4, <1>5, <1>6, <1>7 DEF Next, Send, Handle, Fault

(* For any limit and any number of requests at once: no minute's counter lets  *)
(* more jobs be created than the limit, whenever they are created and whatever *)
(* dies or fails in between.                                                   *)
THEOREM RateHolds == Spec => []RateLimited
<1>1. Init => RateInv
  BY RateInitially
<1>2. TypeOK /\ TypeOK' /\ RateInv /\ [Next]_vars => RateInv'
  BY RateNext
<1>3. RateInv => RateLimited
  <2> SUFFICES ASSUME RateInv, NEW m \in Minutes
               PROVE  Cardinality({j \in Requests : job[j].minute = m}) <= Limit
    BY DEF RateLimited
  <2> DEFINE created == {j \in Requests : job[j].minute = m}
  <2>1. created \subseteq Passed(m)
    BY SubmitAssumption DEF RateInv, Passed, Minutes
  <2>2. IsFiniteSet(Passed(m)) /\ Cardinality(Passed(m)) <= Limit
    BY DEF RateInv
  <2>3. /\ Cardinality(created) <= Cardinality(Passed(m))
        /\ Cardinality(created) \in Nat /\ Cardinality(Passed(m)) \in Nat
    BY <2>1, <2>2, FS_Subset, FS_CardinalityType
  <2> QED
    BY <2>2, <2>3, SubmitAssumption
<1> QED
  BY <1>1, <1>2, <1>3, SubmitTypes, PTL DEF Spec

-----------------------------------------------------------------------------
(* What an accepted submission is promised.                                    *)

(* A job that is on record as queued, has run, or is about to be recorded has  *)
(* had an entry; a job that has a key exists.                                  *)
EnqueuedInv ==
  \A j \in Requests :
    /\ job[j].status \in {"running", "completed"} \/ request[j].pc = "record" => entry[j]
    /\ job[j].key # None =>
         /\ job[j].status # "absent"
         /\ job[j].outcome \in {"PENDING", "QUEUED", "FAILED"}
         /\ job[j].outcome = "QUEUED" => entry[j]

(* Steps that change no row, or only so far.                                   *)
LEMMA RowsEnqueued ==
  ASSUME EnqueuedInv,
         \A j \in Requests :
           /\ entry[j] => entry'[j]
           /\ request'[j].pc = "record" => request[j].pc = "record" \/ entry'[j]
           /\ job'[j].key = job[j].key
           /\ \/ job'[j].outcome = job[j].outcome
              \/ job'[j].outcome = "FAILED"
              \/ job'[j].outcome = "QUEUED" /\ entry'[j]
           /\ \/ job'[j].status = job[j].status
              \/ job'[j].status # "absent" /\ (job'[j].status \in {"running", "completed"} => entry'[j])
  PROVE  EnqueuedInv'
<1> SUFFICES ASSUME NEW j \in Requests
             PROVE  /\ job'[j].status \in {"running", "completed"} \/ request'[j].pc = "record" => entry'[j]
                    /\ job'[j].key # None =>
                         /\ job'[j].status # "absent"
                         /\ job'[j].outcome \in {"PENDING", "QUEUED", "FAILED"}
                         /\ job'[j].outcome = "QUEUED" => entry'[j]
  BY DEF EnqueuedInv
<1>1. job'[j].status \in {"running", "completed"} \/ request'[j].pc = "record" => entry'[j]
  BY DEF EnqueuedInv
<1>2. ASSUME job'[j].key # None
      PROVE  /\ job'[j].status # "absent"
             /\ job'[j].outcome \in {"PENDING", "QUEUED", "FAILED"}
             /\ job'[j].outcome = "QUEUED" => entry'[j]
  BY <1>2 DEF EnqueuedInv
<1> QED
  BY <1>1, <1>2

LEMMA EnqueuedNext ==
  ASSUME TypeOK, EnqueuedInv, [Next]_vars
  PROVE  EnqueuedInv' /\ \A j \in Requests : entry[j] => entry'[j]
<1>1. ASSUME NEW r \in Requests, Refuse(r) \/ DenyTarget(r) \/ EnforceRate(r) \/ RateFails(r)
                                 \/ Refind(r) \/ Crash(r)
                                 \/ \E k \in Keys, hash \in Payloads : Find(r, k, hash)
      PROVE  EnqueuedInv' /\ \A j \in Requests : entry[j] => entry'[j]
  <2>1. job' = job /\ entry' = entry
    BY <1>1 DEF Refuse, DenyTarget, EnforceRate, RateFails, Refind, Crash, Find
  <2>2. \/ \E pc \in {"done", "gone"} : Go(r, pc)
        \/ \E pc \in {"rate", "create", "done"} : \E k, hash, m :
             request' = [request EXCEPT ![r] = [pc |-> pc, key |-> k, hash |-> hash, minute |-> m]]
        \/ request' = [request EXCEPT ![r].pc = "create", ![r].minute = minute]
    BY <1>1 DEF Refuse, DenyTarget, EnforceRate, RateFails, Refind, Crash, Find
  <2>3. \A j \in Requests : request'[j].pc = "record" => request[j].pc = "record"
    BY <2>2, GoKeeps DEF TypeOK, RequestStates
  <2> QED
    BY <2>1, <2>3, RowsEnqueued
<1>2. ASSUME NEW r \in Requests, Create(r)
      PROVE  EnqueuedInv' /\ \A j \in Requests : entry[j] => entry'[j]
  <2>1. entry' = entry /\ \A j \in Requests : request'[j].pc = "record" => request[j].pc = "record"
    BY <1>2, GoKeeps DEF Create
  <2>2. \A j \in Requests :
          job'[j] = job[j] \/ (job'[j].status = "queued" /\ job'[j].outcome = "PENDING")
    BY <1>2 DEF Create, NewJob, TypeOK
  <2> QED
    BY <2>1, <2>2 DEF EnqueuedInv
<1>3. ASSUME NEW r \in Requests, Add(r) \/ AddFails(r)
      PROVE  EnqueuedInv' /\ \A j \in Requests : entry[j] => entry'[j]
  <2>1. job' = job /\ \A j \in Requests : entry[j] => entry'[j]
    BY <1>3 DEF Add, AddFails, TypeOK
  <2>2. \A j \in Requests : request'[j].pc = "record" => request[j].pc = "record" \/ entry'[j]
    BY <1>3, GoKeeps DEF Add, AddFails, TypeOK
  <2> QED
    BY <2>1, <2>2, RowsEnqueued
<1>4. ASSUME NEW r \in Requests, RecordQueued(r) \/ RecordFailed(r) \/ Fail(r)
      PROVE  EnqueuedInv' /\ \A j \in Requests : entry[j] => entry'[j]
  <2>1. entry' = entry /\ \A j \in Requests : request'[j].pc = "record" => request[j].pc = "record"
    BY <1>4, GoKeeps DEF RecordQueued, RecordFailed, Fail
  <2>2. CASE job' = job
    BY <2>1, <2>2, RowsEnqueued
  <2>3. CASE job' = [job EXCEPT ![r].outcome = "QUEUED"] /\ entry[r]
    BY <2>1, <2>3, OutcomeMoves, RowsEnqueued
  <2>4. CASE job' = [job EXCEPT ![r].outcome = "FAILED"]
    <3>1. \A j \in Requests :
            /\ job'[j].key = job[j].key /\ job'[j].status = job[j].status
            /\ job'[j].outcome = job[j].outcome \/ job'[j].outcome = "FAILED"
      BY <2>4, OutcomeMoves
    <3> QED
      BY <2>1, <3>1, RowsEnqueued
  <2>5. CASE job' = [job EXCEPT ![r].status = "failed"]
    BY <2>1, <2>5, StatusMoves, RowsEnqueued
  <2> QED
    BY <1>4, <2>1, <2>2, <2>3, <2>4, <2>5 DEF RecordQueued, RecordFailed, Fail, Failed, EnqueuedInv
<1>5. ASSUME NEW j \in Requests, Others(j)
      PROVE  EnqueuedInv' /\ \A q \in Requests : entry[q] => entry'[q]
  <2>1. request' = request /\ \A q \in Requests : entry[q] => entry'[q]
    BY <1>5 DEF Others, Proceed, GiveUp, Cancel, Reset, Enqueue, RecordFound, TypeOK
  <2>2. CASE job' = job
    BY <2>1, <2>2, RowsEnqueued
  <2>3. CASE job' = [job EXCEPT ![j].outcome = "QUEUED"] /\ entry'[j]
    BY <2>1, <2>3, OutcomeMoves, RowsEnqueued
  <2>4. CASE \E s \in {"queued", "failed", "cancelled"} : job' = [job EXCEPT ![j].status = s]
    BY <2>1, <2>4, StatusMoves, RowsEnqueued
  <2>5. CASE \E s \in {"running", "completed"} : job' = [job EXCEPT ![j].status = s] /\ entry'[j]
    BY <2>1, <2>5, StatusMoves, RowsEnqueued
  <2> QED
    BY <1>5, <2>1, <2>2, <2>3, <2>4, <2>5
    DEF Others, Proceed, GiveUp, Cancel, Reset, Enqueue, RecordFound, Failed, TypeOK
<1>6. CASE MinutePasses \/ UNCHANGED vars
  BY <1>6, RowsEnqueued DEF MinutePasses, vars
<1> QED
  BY <1>1, <1>2, <1>3, <1>4, <1>5, <1>6 DEF Next, Send, Handle, Fault

(* "duplicate" is said of a job that has had an entry, or was cancelled.       *)
LEMMA DuplicateIsEnqueued ==
  ASSUME TypeOK, EnqueuedInv, NEW j \in Requests, job[j].key # None,
         IdempotentReply(j).kind \in {"accepted", "duplicate"}
  PROVE  entry[j] \/ job[j].status = "cancelled"
<1>1. /\ job[j].status \in JobStatuses \ {"absent"}
      /\ job[j].outcome \in {"PENDING", "QUEUED", "FAILED"}
      /\ job[j].outcome = "QUEUED" \/ job[j].status \in {"running", "completed"} => entry[j]
  <2>1. job[j].status \in JobStatuses
    BY DEF TypeOK, JobRows
  <2> QED
    BY <2>1 DEF EnqueuedInv
<1>2. /\ job[j].outcome # "FAILED"
      /\ ~(job[j].outcome = "PENDING" /\ job[j].status \in {"queued", "failed"})
  BY DEF IdempotentReply
<1> QED
  BY <1>1, <1>2 DEF JobStatuses

LEMMA PriorIsEnqueued ==
  ASSUME TypeOK, EnqueuedInv, NEW r \in Requests, NEW k, k # None, NEW j \in Holders(k), NEW hash,
         PriorReply(r, j, hash).kind \in {"accepted", "duplicate"}
  PROVE  /\ PriorReply(r, j, hash).job = j
         /\ entry[j] \/ job[j].status = "cancelled"
<1>1. j \in Requests /\ job[j].key # None
  BY DEF Holders
<1>2. PriorReply(r, j, hash) = IdempotentReply(j)
  BY DEF PriorReply, Refusal
<1> QED
  BY <1>1, <1>2, ReplyNames, DuplicateIsEnqueued

LEMMA TellsOfEnqueued ==
  ASSUME SubmitIInv, EnqueuedInv, [Next]_vars, NEW r \in Requests, answer'[r] # answer[r],
         answer'[r].kind \in {"accepted", "duplicate"}
  PROVE  entry'[answer'[r].job] \/ job'[answer'[r].job].status = "cancelled"
<1> USE DEF SubmitIInv
<1>1. CASE \E q \in Requests, k \in Keys, hash \in Payloads : Find(q, k, hash)
  <2>1. PICK q \in Requests, k \in Keys, hash \in Payloads : Find(q, k, hash)
    BY <1>1
  <2>2. job' = job /\ entry' = entry /\ answer' # answer /\ k # None
    BY <2>1, SubmitAssumption DEF Find
  <2>3. PICK j \in Holders(k) : Tell(q, PriorReply(q, j, hash))
    BY <2>1, <2>2 DEF Find
  <2>4. q = r /\ answer'[r] = PriorReply(r, j, hash)
    BY <2>3 DEF Tell, TypeOK
  <2> QED
    BY <2>2, <2>4, PriorIsEnqueued
<1>2. CASE \E q \in Requests : Refind(q)
  <2>1. PICK q \in Requests : Refind(q)
    BY <1>2
  <2>2. job' = job /\ entry' = entry /\ request[q].key # None
    BY <2>1 DEF Refind, KeyIsKnown
  <2>3. PICK j \in Holders(request[q].key) : Tell(q, PriorReply(q, j, request[q].hash))
    BY <2>1 DEF Refind
  <2>4. q = r /\ answer'[r] = PriorReply(r, j, request[q].hash)
    BY <2>3 DEF Tell, TypeOK
  <2> QED
    BY <2>2, <2>4, PriorIsEnqueued
<1>3. CASE \E q \in Requests : RecordQueued(q)
  <2>1. PICK q \in Requests : RecordQueued(q)
    BY <1>3
  <2>2. Tell(q, [kind |-> "accepted", job |-> q]) /\ entry' = entry /\ entry[q]
    BY <2>1 DEF RecordQueued, EnqueuedInv
  <2>3. q = r /\ answer'[r].job = q
    BY <2>2 DEF Tell, TypeOK
  <2> QED
    BY <2>2, <2>3
<1>4. CASE \E q \in Requests : Refuse(q) \/ DenyTarget(q) \/ EnforceRate(q) \/ RateFails(q) \/ Fail(q)
  <2>1. PICK q \in Requests, kind \in {"invalid", "denied", "limited", "failed"}, j \in Requests \cup {None} :
          Tell(q, [kind |-> kind, job |-> j])
    BY <1>4 DEF Refuse, DenyTarget, EnforceRate, RateFails, Fail, Refusal
  <2>2. q = r /\ answer'[r].kind = kind
    BY <2>1 DEF Tell, TypeOK
  <2> QED
    BY <2>2
<1> QED
  BY <1>1, <1>2, <1>3, <1>4 DEF Next, Send, Handle, Fault, Others, MinutePasses, vars, Create, Add,
    RecordFailed, AddFails, Crash, Proceed, GiveUp, Cancel, Reset, Enqueue, RecordFound

(* Whoever is told "queued" or "duplicate" is told so of a job that has been   *)
(* in its queue, or was cancelled, whichever of its requests died.             *)
THEOREM AcceptedStays == Spec => AcceptedIsEnqueued
<1>1. Init => EnqueuedInv
  BY DEF Init, EnqueuedInv, NoJob, NewRequest
<1>2. TypeOK /\ EnqueuedInv /\ [Next]_vars => EnqueuedInv'
  BY EnqueuedNext
<1>3. SubmitIInv /\ EnqueuedInv /\ [Next]_vars =>
        [\A r \in Requests :
           answer'[r] # answer[r] /\ answer'[r].kind \in {"accepted", "duplicate"} =>
             LET j == answer'[r].job IN entry'[j] \/ job'[j].status = "cancelled"]_vars
  BY TellsOfEnqueued
<1> QED
  BY <1>1, <1>2, <1>3, SubmitTypes, SubmitIInvHolds, PTL DEF Spec, AcceptedIsEnqueued

================================================================================

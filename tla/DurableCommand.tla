--------------------------- MODULE DurableCommand ---------------------------
(* The durable commands of the API: executeDurableCommand (api/idempotency.ts) *)
(* over the rows of command_requests (beginCommand, completeCommand).  A       *)
(* request reserves the row of its identity, has its effect, records the       *)
(* outcome and answers; a repetition is answered from the row.  The effects    *)
(* themselves (cancel, retry, reconcile) are CrawlJobs's business.             *)
EXTENDS Naturals

CONSTANTS
  Requests,  \* HTTP requests
  Keys,      \* identities: tenant, caller, action, version, resource and key
  Payloads,  \* request_hash
  Codes,     \* the response codes effects return
  None,      \* SQL null
  MaxFaults  \* how many requests may lose their process or an uncaught error

ASSUME CommandAssumption ==
  /\ None \notin Requests \cup Keys \cup Payloads \cup Codes
  /\ MaxFaults \in Nat

VARIABLES
  command,  \* per identity, its row of command_requests
  request,  \* per request, the handler's state
  answer,   \* what the client has been told
  ran,      \* history: per identity, the requests whose effect began
  faults

vars == <<command, request, answer, ran, faults>>

NoCommand == [id |-> None, hash |-> None, done |-> FALSE, code |-> None]
NewRequest == [pc |-> "new", key |-> None, payload |-> None, code |-> None]

NoAnswer == [kind |-> "none", by |-> None, code |-> None]
Refusal(kind) == [NoAnswer EXCEPT !.kind = kind]

(* The response column: the body names the request that had the effect.        *)
Response(k) == [kind |-> "response", by |-> command[k].id, code |-> command[k].code]

Row(r) == command[request[r].key]
Go(r, pc) == request' = [request EXCEPT ![r].pc = pc]
Tell(r, reply) == answer' = [answer EXCEPT ![r] = reply]

-----------------------------------------------------------------------------
(* A request's pc names the await it is about to make.                         *)

(* requireCommandHeaders refuses before anything is reserved.                  *)
RefuseHeaders(r) ==
  /\ request[r].pc = "new"
  /\ Go(r, "done")
  /\ Tell(r, Refusal("headers"))
  /\ UNCHANGED <<command, ran, faults>>

(* A bug: a row without an outcome is taken over as if it were abandoned.      *)
ReserveAgain(r, k, p) ==
  /\ request[r].pc = "new"
  /\ IF ~command[k].done
     THEN /\ command' = [command EXCEPT ![k] = [NoCommand EXCEPT !.id = r, !.hash = p]]
          /\ request' = [request EXCEPT ![r] = [pc |-> "effect", key |-> k, payload |-> p, code |-> None]]
     ELSE /\ command' = command
          /\ request' = [request EXCEPT ![r] = [pc |-> "readback", key |-> k, payload |-> p, code |-> None]]
  /\ UNCHANGED <<answer, ran, faults>>

(* beginCommand's insert ... on conflict do nothing. *)
Reserve(r, k, p) ==
  /\ request[r].pc = "new"
  /\ IF command[k].id = None
     THEN /\ command' = [command EXCEPT ![k] = [NoCommand EXCEPT !.id = r, !.hash = p]]
          /\ request' = [request EXCEPT ![r] = [pc |-> "effect", key |-> k, payload |-> p, code |-> None]]
     ELSE /\ command' = command
          /\ request' = [request EXCEPT ![r] = [pc |-> "readback", key |-> k, payload |-> p, code |-> None]]
  /\ UNCHANGED <<answer, ran, faults>>

(* Bugs: the payload is not compared; a repetition waits for the outcome.      *)
ReadBackUnchecked(r) ==
  /\ request[r].pc = "readback"
  /\ Go(r, "done")
  /\ Tell(r, IF Row(r).done THEN Response(request[r].key) ELSE Refusal("ambiguous"))
  /\ UNCHANGED <<command, ran, faults>>
ReadBackWaits(r) ==
  /\ request[r].pc = "readback"
  /\ Row(r).done
  /\ Go(r, "done")
  /\ Tell(r, IF Row(r).hash # request[r].payload THEN Refusal("conflict")
             ELSE Response(request[r].key))
  /\ UNCHANGED <<command, ran, faults>>

(* beginCommand's select, and the answer to a repetition.                      *)
ReadBack(r) ==
  /\ request[r].pc = "readback"
  /\ Go(r, "done")
  /\ Tell(r, IF Row(r).hash # request[r].payload THEN Refusal("conflict")
             ELSE IF Row(r).done THEN Response(request[r].key)
             ELSE Refusal("ambiguous"))
  /\ UNCHANGED <<command, ran, faults>>

(* A bug: the client is answered before the outcome is recorded.               *)
AnswerFirst(r, code) ==
  /\ request[r].pc = "effect"
  /\ ran' = [ran EXCEPT ![request[r].key] = @ \cup {r}]
  /\ request' = [request EXCEPT ![r].pc = "complete", ![r].code = code]
  /\ Tell(r, [kind |-> "response", by |-> r, code |-> code])
  /\ UNCHANGED <<command, faults>>

RunEffect(r, code) ==
  /\ request[r].pc = "effect"
  /\ ran' = [ran EXCEPT ![request[r].key] = @ \cup {r}]
  /\ request' = [request EXCEPT ![r].pc = "complete", ![r].code = code]
  /\ UNCHANGED <<command, answer, faults>>

(* A bug: the outcome is recorded without its code.                            *)
CompleteBare(r) ==
  /\ request[r].pc = "complete"
  /\ command' = [command EXCEPT ![request[r].key].done = TRUE]
  /\ Go(r, "reply")
  /\ UNCHANGED <<answer, ran, faults>>

(* completeCommand; it throws when the row is not PROCESSING.                  *)
Complete(r) ==
  /\ request[r].pc = "complete"
  /\ IF ~Row(r).done
     THEN /\ command' = [command EXCEPT ![request[r].key].done = TRUE,
                                        ![request[r].key].code = request[r].code]
          /\ Go(r, "reply")
     ELSE command' = command /\ Go(r, "gone")
  /\ UNCHANGED <<answer, ran, faults>>

(* The owner answers with what its effect returned.                            *)
Reply(r) ==
  /\ request[r].pc = "reply"
  /\ Go(r, "done")
  /\ Tell(r, [kind |-> "response", by |-> r, code |-> request[r].code])
  /\ UNCHANGED <<command, ran, faults>>

(* The API process dies or something uncaught is thrown, possibly in the       *)
(* middle of the effect: the row stays as it is.                               *)
Crash(r) ==
  /\ request[r].pc \in {"readback", "effect", "complete", "reply"}
  /\ faults < MaxFaults
  /\ faults' = faults + 1
  /\ Go(r, "gone")
  /\ \/ ran' = ran
     \/ request[r].pc = "effect" /\ ran' = [ran EXCEPT ![request[r].key] = @ \cup {r}]
  /\ UNCHANGED <<command, answer>>

-----------------------------------------------------------------------------

Init ==
  /\ command = [k \in Keys |-> NoCommand]
  /\ request = [r \in Requests |-> NewRequest]
  /\ answer = [r \in Requests |-> NoAnswer]
  /\ ran = [k \in Keys |-> {}]
  /\ faults = 0

Send(r) == RefuseHeaders(r) \/ \E k \in Keys, p \in Payloads : Reserve(r, k, p)

Handle(r) == ReadBack(r) \/ (\E code \in Codes : RunEffect(r, code)) \/ Complete(r) \/ Reply(r)

Next == \E r \in Requests : Send(r) \/ Handle(r) \/ Crash(r)

Spec == Init /\ [][Next]_vars

(* The event loop goes on with every request it has begun.                     *)
FairSpec == Spec /\ \A r \in Requests : WF_vars(Handle(r))

-----------------------------------------------------------------------------

RequestPcs == {"new", "readback", "effect", "complete", "reply", "done", "gone"}
AnswerKinds == {"none", "headers", "conflict", "ambiguous", "response"}

(* Every variable has its type; a row that has an outcome has its code.        *)
TypeOK ==
  /\ command \in [Keys -> [id : Requests \cup {None}, hash : Payloads \cup {None}, done : BOOLEAN,
                           code : Codes \cup {None}]]
  /\ request \in [Requests -> [pc : RequestPcs, key : Keys \cup {None}, payload : Payloads \cup {None},
                               code : Codes \cup {None}]]
  /\ answer \in [Requests -> [kind : AnswerKinds, by : Requests \cup {None}, code : Codes \cup {None}]]
  /\ ran \in [Keys -> SUBSET Requests]
  /\ faults \in Nat
  /\ \A r \in Requests :
       request[r].pc \in {"readback", "effect", "complete", "reply"} =>
         request[r].key \in Keys /\ request[r].payload \in Payloads
  /\ \A k \in Keys : command[k].done => command[k].code \in Codes

(* However often a command is repeated, concurrently or after a crash, its     *)
(* effect begins at most once (the unique key of command_requests).            *)
EffectAtMostOnce == \A k \in Keys : \A r, q \in ran[k] : r = q

(* Who is answered with a response asked for exactly what was done: the        *)
(* response is the one of a request with the same identity and payload that    *)
(* had its effect.                                                             *)
ResponseMatches ==
  \A r \in Requests : answer[r].kind = "response" =>
    LET q == answer[r].by IN
    /\ q \in ran[request[r].key]
    /\ request[q].key = request[r].key
    /\ request[q].payload = request[r].payload
    /\ request[q].code = answer[r].code

(* Once somebody has been told the outcome, whoever repeats the command is     *)
(* told the same: never "ambiguous", never anything else (README.md, "Same     *)
(* identity and semantics returns the original durable response").             *)
AnswerIsDurable ==
  [][\A r, q \in Requests :
       (/\ answer[q].kind = "response"
        /\ request'[r].key = request[q].key
        /\ request'[r].payload = request[q].payload
        /\ answer[r] = NoAnswer
        /\ answer'[r] # NoAnswer)
         => answer'[r] = answer[q]]_vars

(* What durable commands promise: the row of an identity is its claim, which   *)
(* is settled once its outcome is recorded.                                    *)
Asked == [r \in Requests |-> [key |-> request[r].key, payload |-> request[r].payload]]
Claim ==
  [k \in Keys |-> [owner |-> command[k].id, payload |-> command[k].hash,
                   outcome |-> IF command[k].done THEN command[k].code ELSE None]]

Ledger == INSTANCE CommandLedger WITH asked <- Asked, claim <- Claim, begun <- ran, told <- answer

(* The handlers keep that promise, whoever repeats what and whichever of them  *)
(* die between their awaits: an identity stays with the request that reserved  *)
(* it, its effect begins once, its outcome is recorded once and after that, an *)
(* outcome is told for the payload it was had for, and only who cannot be told *)
(* one is refused.                                                             *)
ImplementsLedger == Ledger!Spec

(* Every request that was begun is answered or dies with its process: a        *)
(* repetition does not wait for a request that will never finish.              *)
Answered == \A r \in Requests : request[r].pc # "new" ~> request[r].pc \in {"done", "gone"}

=============================================================================

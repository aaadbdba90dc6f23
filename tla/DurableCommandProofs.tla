------------------------ MODULE DurableCommandProofs ------------------------
(* Proofs about DurableCommand, for every set of requests, identities and      *)
(* payloads: an effect begins at most once, and every response is its answer.  *)
EXTENDS DurableCommand, TLAPS

(* The request that reserved the row of its identity is the only one that gets *)
(* to the effect; the row says what it asked for and, once done, what it got.  *)
Owned(k) ==
  LET q == command[k].id IN
  /\ q = None => ~command[k].done /\ ran[k] = {}
  /\ q # None =>
       /\ request[q].key = k
       /\ request[q].payload = command[k].hash
       /\ ran[k] \subseteq {q}
  /\ command[k].done => q \in ran[k] /\ request[q].code = command[k].code

Working(r) ==
  /\ request[r].pc = "new" => request[r].key = None /\ request[r].payload = None
  /\ request[r].pc \in {"effect", "complete", "reply"} => Row(r).id = r
  /\ request[r].pc = "effect" => ran[request[r].key] = {}
  /\ request[r].pc \in {"complete", "reply"} => r \in ran[request[r].key] /\ request[r].code \in Codes
  /\ request[r].pc = "reply" => Row(r).done
  /\ request[r].pc = "readback" => Row(r).id # None
  /\ request[r].pc \in {"effect", "complete"} => ~Row(r).done

(* Who was answered with a response has what the row says. *)
Told(r) ==
  answer[r].kind = "response" =>
    /\ request[r].key \in Keys
    /\ Row(r).done
    /\ Row(r).hash = request[r].payload
    /\ answer[r] = Response(request[r].key)

IInv ==
  /\ TypeOK
  /\ \A k \in Keys : Owned(k)
  /\ \A r \in Requests : Working(r) /\ Told(r)

-----------------------------------------------------------------------------

(* The invariant holds before the first request.                               *)
LEMMA InitIInv == Init => IInv
<1> SUFFICES ASSUME Init PROVE IInv
  OBVIOUS
<1>1. TypeOK
  BY CommandAssumption
  DEF Init, TypeOK, NoCommand, NewRequest, NoAnswer, RequestPcs, AnswerKinds
<1>2. \A k \in Keys : Owned(k)
  BY DEF Init, Owned, NoCommand
<1>3. \A r \in Requests : Working(r) /\ Told(r)
  BY DEF Init, Working, Told, NewRequest, NoAnswer
<1> QED
  BY <1>1, <1>2, <1>3 DEF IInv

(* Only the row and the request of one identity move.                          *)
LEMMA ReserveStep ==
  ASSUME IInv, NEW r \in Requests, NEW k \in Keys, NEW p \in Payloads, Reserve(r, k, p)
  PROVE  IInv'
<1> USE DEF IInv
<1>0. r # None /\ k # None /\ p # None
  BY CommandAssumption
<1>a. /\ request[r].pc = "new"
      /\ request[r].key = None
      /\ \A h \in Keys : command[h].id # r /\ r \notin ran[h]
  BY <1>0, CommandAssumption DEF Reserve, Owned, Working
<1>b. UNCHANGED <<answer, ran, faults>>
  BY DEF Reserve
<1> DEFINE row == [id |-> r, hash |-> p, done |-> FALSE, code |-> None]
           new(pc) == [pc |-> pc, key |-> k, payload |-> p, code |-> None]
<1>1. CASE command[k].id = None
  <2>1. command' = [command EXCEPT ![k] = row] /\ request' = [request EXCEPT ![r] = new("effect")]
    BY <1>1 DEF Reserve, NoCommand
  <2>2. /\ command'[k] = row /\ \A h \in Keys \ {k} : command'[h] = command[h]
        /\ request'[r] = new("effect") /\ \A q \in Requests \ {r} : request'[q] = request[q]
    BY <2>1 DEF TypeOK
  <2>3. ~command[k].done /\ ran[k] = {}
    BY <1>1 DEF Owned
  <2>4. TypeOK'
    BY <1>b, <2>1, <2>2 DEF TypeOK, RequestPcs
  <2>5. \A h \in Keys : Owned(h)'
    BY <1>0, <1>a, <1>b, <2>2, <2>3 DEF Owned, TypeOK
  <2>6. \A q \in Requests : Working(q)'
    <3>1. Working(r)'
      BY <1>0, <1>b, <2>2, <2>3 DEF Working, Row
    <3>2. ASSUME NEW q \in Requests \ {r} PROVE Working(q)'
      <4>1. Working(q) /\ request'[q] = request[q]
        BY <2>2
      <4>2. CASE request[q].key = k
        <5>1. request[q].pc \notin {"readback", "effect", "complete", "reply"}
          BY <1>1, <4>1, <4>2, CommandAssumption DEF Working, Row
        <5> QED
          BY <4>1, <5>1 DEF Working
      <4>3. CASE request[q].key # k
        BY <1>b, <2>2, <4>1, <4>3 DEF Working, Row, TypeOK
      <4> QED
        BY <4>2, <4>3
    <3> QED
      BY <3>1, <3>2
  <2>7. \A q \in Requests : Told(q)'
    <3>1. Told(r)'
      BY <1>a, <1>b, CommandAssumption DEF Told
    <3>2. ASSUME NEW q \in Requests \ {r}, answer[q].kind = "response" PROVE Told(q)'
      <4>1. request'[q] = request[q] /\ request[q].key \in Keys \ {k}
        BY <2>2, <2>3, <3>2 DEF Told, Row
      <4> QED
        BY <1>b, <2>2, <3>2, <4>1 DEF Told, Row, Response
    <3> QED
      BY <1>b, <3>1, <3>2 DEF Told
  <2> QED
    BY <2>4, <2>5, <2>6, <2>7
<1>2. CASE command[k].id # None
  <2>1. command' = command /\ request' = [request EXCEPT ![r] = new("readback")]
    BY <1>2 DEF Reserve
  <2>2. request'[r] = new("readback") /\ \A q \in Requests \ {r} : request'[q] = request[q]
    BY <2>1 DEF TypeOK
  <2>3. TypeOK'
    BY <1>b, <2>1, <2>2 DEF TypeOK, RequestPcs
  <2>4. \A h \in Keys : Owned(h)'
    BY <1>0, <1>a, <1>b, <2>1, <2>2 DEF Owned, TypeOK
  <2>5. \A q \in Requests : Working(q)'
    BY <1>0, <1>a, <1>b, <1>2, <2>1, <2>2 DEF Working, Row
  <2>6. \A q \in Requests : Told(q)'
    <3>1. Told(r)'
      BY <1>a, <1>b, CommandAssumption DEF Told
    <3>2. ASSUME NEW q \in Requests \ {r} PROVE Told(q)'
      BY <1>b, <2>1, <2>2 DEF Told, Row, Response
    <3> QED
      BY <3>1, <3>2
  <2> QED
    BY <2>3, <2>4, <2>5, <2>6
<1> QED
  BY <1>1, <1>2

(* A request without headers reserves nothing and is told of nothing.          *)
LEMMA RefuseStep ==
  ASSUME IInv, NEW r \in Requests, RefuseHeaders(r)
  PROVE  IInv'
<1> USE DEF IInv
<1>1. TypeOK'
  BY DEF RefuseHeaders, TypeOK, Go, Tell, Refusal, NoAnswer, RequestPcs, AnswerKinds
<1>2. \A h \in Keys : Owned(h)'
  BY DEF RefuseHeaders, Owned, TypeOK, Go
<1>3. \A q \in Requests : Working(q)' /\ Told(q)'
  BY DEF RefuseHeaders, Working, Told, Row, Response, TypeOK, Go, Tell, Refusal, NoAnswer
<1> QED
  BY <1>1, <1>2, <1>3

(* Reading the row back tells only what is recorded in it.                     *)
LEMMA ReadBackStep ==
  ASSUME IInv, NEW r \in Requests, ReadBack(r)
  PROVE  IInv'
<1> USE DEF IInv
<1>1. TypeOK'
  BY DEF ReadBack, TypeOK, Go, Tell, Row, Response, Refusal, NoAnswer, RequestPcs, AnswerKinds
<1>2. \A h \in Keys : Owned(h)'
  BY DEF ReadBack, Owned, TypeOK, Go
<1>3. \A q \in Requests : Working(q)' /\ Told(q)'
  BY DEF ReadBack, Working, Told, Row, Response, TypeOK, Go, Tell, Refusal, NoAnswer
<1> QED
  BY <1>1, <1>2, <1>3

(* Only the request that reserved the row runs the effect, once.               *)
LEMMA RunEffectStep ==
  ASSUME IInv, NEW r \in Requests, NEW code \in Codes, RunEffect(r, code)
  PROVE  IInv'
<1> USE DEF IInv
<1> DEFINE k == request[r].key
<1>a. k \in Keys /\ request[r].pc = "effect" /\ command[k].id = r /\ ~command[k].done
  BY DEF RunEffect, TypeOK, Working, Owned, Row
<1>b. UNCHANGED <<command, answer, faults>>
  BY DEF RunEffect
<1>c. /\ request' = [request EXCEPT ![r] = [@ EXCEPT !.pc = "complete", !.code = code]]
      /\ ran' = [ran EXCEPT ![k] = @ \cup {r}]
  BY DEF RunEffect, TypeOK
<1>d. /\ request'[r].pc = "complete" /\ request'[r].code = code
      /\ request'[r].key = k /\ request'[r].payload = request[r].payload
      /\ \A q \in Requests \ {r} : request'[q] = request[q]
      /\ ran'[k] = ran[k] \cup {r} /\ \A h \in Keys \ {k} : ran'[h] = ran[h]
  BY <1>a, <1>c DEF TypeOK
<1> HIDE DEF k
<1>1. TypeOK'
  BY <1>a, <1>b, <1>c, <1>d DEF TypeOK, RequestPcs, k
<1>2. ASSUME NEW h \in Keys PROVE Owned(h)'
  <2>1. CASE h = k
    BY <1>a, <1>b, <1>d, <2>1, CommandAssumption DEF Owned, k
  <2>2. CASE h # k
    <3>1. command[h].id # r
      BY <2>2, CommandAssumption DEF Owned, k
    <3>2. Owned(h) /\ command[h].id \in Requests \cup {None}
      BY DEF TypeOK
    <3> QED
      BY <1>b, <1>d, <2>2, <3>1, <3>2 DEF Owned
  <2> QED
    BY <2>1, <2>2
<1>3. ASSUME NEW q \in Requests PROVE Working(q)'
  <2>1. CASE q = r
    BY <1>a, <1>b, <1>d, <2>1 DEF Working, Row
  <2>2. CASE q # r
    <3>1. Working(q) /\ request'[q] = request[q]
      BY <1>d, <2>2
    <3>2. ran[request[q].key] \subseteq ran'[request[q].key] \/ request[q].key \notin Keys
      BY <1>d
    <3>3. request[q].pc \in {"readback", "effect", "complete", "reply"} => request[q].key \in Keys
      BY DEF TypeOK
    <3>4. request[q].pc = "effect" => ran'[request[q].key] = {}
      BY <1>a, <1>d, <2>2, <3>1, <3>3 DEF Working, Row, k
    <3> QED
      BY <1>b, <3>1, <3>2, <3>3, <3>4 DEF Working, Row
  <2> QED
    BY <2>1, <2>2
<1>4. \A q \in Requests : Told(q)'
  BY <1>a, <1>b, <1>d DEF Told, Row, Response, k
<1> QED
  BY <1>1, <1>2, <1>3, <1>4

(* Completing records the outcome of the request's own effect.                 *)
LEMMA CompleteStep ==
  ASSUME IInv, NEW r \in Requests, Complete(r)
  PROVE  IInv'
<1> USE DEF IInv
<1> DEFINE k == request[r].key
<1>a. /\ k \in Keys /\ request[r].pc = "complete" /\ request[r].code \in Codes
      /\ command[k].id = r /\ ~command[k].done /\ r \in ran[k]
  BY DEF Complete, TypeOK, Working, Row
<1>b. UNCHANGED <<answer, ran, faults>>
  BY DEF Complete
<1>c. /\ command' = [command EXCEPT ![k] = [@ EXCEPT !.done = TRUE, !.code = request[r].code]]
      /\ request' = [request EXCEPT ![r] = [@ EXCEPT !.pc = "reply"]]
  BY <1>a DEF Complete, Row, Go, TypeOK
<1>d. /\ request'[r].pc = "reply" /\ request'[r].code = request[r].code
      /\ request'[r].key = k /\ request'[r].payload = request[r].payload
      /\ \A q \in Requests \ {r} : request'[q] = request[q]
      /\ command'[k].id = r /\ command'[k].hash = command[k].hash
      /\ command'[k].done /\ command'[k].code = request[r].code
      /\ \A h \in Keys \ {k} : command'[h] = command[h]
  BY <1>a, <1>c DEF TypeOK
<1>e. \A q \in Requests \ {r} : request[q].pc \in {"effect", "complete", "reply"} => request[q].key # k
  BY <1>a DEF Working, Row, k
<1> HIDE DEF k
<1>1. TypeOK'
  <2>1. command'[k] \in [id : Requests \cup {None}, hash : Payloads \cup {None}, done : BOOLEAN,
                         code : Codes \cup {None}]
    <3>1. command[k] \in [id : Requests \cup {None}, hash : Payloads \cup {None}, done : BOOLEAN,
                           code : Codes \cup {None}]
      BY <1>a DEF TypeOK
    <3>2. command'[k] = [command[k] EXCEPT !.done = TRUE, !.code = request[r].code]
      BY <1>a, <1>c DEF TypeOK
    <3> QED
      BY <1>a, <3>1, <3>2
  <2>2. request'[r] \in [pc : RequestPcs, key : Keys \cup {None}, payload : Payloads \cup {None},
                          code : Codes \cup {None}]
    BY <1>a, <1>c DEF TypeOK, RequestPcs, k
  <2> QED
    BY <1>a, <1>b, <1>c, <1>d, <2>1, <2>2 DEF TypeOK, k
<1>2. \A h \in Keys : Owned(h)'
  BY <1>a, <1>b, <1>d DEF Owned, TypeOK, k
<1>3. \A q \in Requests : Working(q)'
  BY <1>a, <1>b, <1>d, <1>e, CommandAssumption DEF Working, Row, TypeOK, k
<1>4. ASSUME NEW q \in Requests, answer[q].kind = "response" PROVE Told(q)'
  <2>1. request[q].key \in Keys \ {k} /\ q # r
    BY <1>4, <1>a DEF Told, Row, k
  <2>2. request'[q] = request[q] /\ command'[request[q].key] = command[request[q].key]
    BY <1>d, <2>1
  <2> QED
    BY <1>4, <1>b, <2>1, <2>2 DEF Told, Row, Response
<1> QED
  BY <1>1, <1>2, <1>3, <1>4, <1>b DEF Told

(* The reply is the outcome just recorded.                                     *)
LEMMA ReplyStep ==
  ASSUME IInv, NEW r \in Requests, Reply(r)
  PROVE  IInv'
<1> USE DEF IInv
<1>1. TypeOK'
  BY DEF Reply, TypeOK, Working, Go, Tell, RequestPcs, AnswerKinds
<1>2. \A h \in Keys : Owned(h)'
  BY DEF Reply, Owned, TypeOK, Go
<1>3. \A q \in Requests : Working(q)' /\ Told(q)'
  BY DEF Reply, Owned, Working, Told, Row, Response, TypeOK, Go, Tell
<1> QED
  BY <1>1, <1>2, <1>3

(* A request that dies is told nothing and leaves its row as it is.            *)
LEMMA CrashStep ==
  ASSUME IInv, NEW r \in Requests, Crash(r)
  PROVE  IInv'
<1> USE DEF IInv
<1> DEFINE k == request[r].key
<1>a. k \in Keys /\ request[r].pc \in {"readback", "effect", "complete", "reply"}
  BY DEF Crash, TypeOK
<1>b. UNCHANGED <<command, answer>> /\ request' = [request EXCEPT ![r] = [@ EXCEPT !.pc = "gone"]]
  BY DEF Crash, Go, TypeOK
<1>c. faults' \in Nat
  BY DEF Crash, TypeOK
<1>d. /\ request'[r].pc = "gone" /\ request'[r].code = request[r].code
      /\ request'[r].key = k /\ request'[r].payload = request[r].payload
      /\ \A q \in Requests \ {r} : request'[q] = request[q]
  BY <1>b DEF TypeOK
<1>e. request'[r] \in [pc : RequestPcs, key : Keys \cup {None}, payload : Payloads \cup {None},
                       code : Codes \cup {None}]
  BY <1>a, <1>b DEF TypeOK, RequestPcs
<1>f. TypeOK' /\ \A q \in Requests : Working(q)' /\ Told(q)'
  <2>1. ran' \in [Keys -> SUBSET Requests] /\ \A h \in Keys : ran[h] \subseteq ran'[h]
    <3>1. CASE ran' = ran
      BY <3>1 DEF TypeOK
    <3>2. CASE ran' = [ran EXCEPT ![k] = @ \cup {r}]
      BY <1>a, <3>2 DEF TypeOK
    <3> QED
      BY <3>1, <3>2 DEF Crash
  <2>2. TypeOK'
    BY <1>b, <1>c, <1>d, <1>e, <1>a, <2>1 DEF TypeOK
  <2>a. ASSUME NEW q \in Requests \ {r}, request[q].pc = "effect" PROVE ran'[request[q].key] = {}
    <3>1. request[q].key \in Keys /\ ran[request[q].key] = {} /\ command[request[q].key].id = q
      BY <2>a DEF TypeOK, Working, Row
    <3>2. CASE ran' = ran
      BY <3>1, <3>2
    <3>3. CASE request[r].pc = "effect" /\ ran' = [ran EXCEPT ![k] = @ \cup {r}]
      <4>1. command[k].id = r
        BY <3>3 DEF Working, Row
      <4> QED
        BY <1>a, <3>1, <3>3, <4>1 DEF TypeOK
    <3> QED
      BY <3>2, <3>3 DEF Crash
  <2>3. \A q \in Requests : Working(q)'
    BY <1>a, <1>b, <1>d, <2>1, <2>a DEF Working, Row, TypeOK
  <2>4. \A q \in Requests : Told(q)'
    BY <1>a, <1>b, <1>d DEF Told, Row, Response
  <2> QED
    BY <2>2, <2>3, <2>4
<1>g. \A h \in Keys : Owned(h)'
  <2>1. CASE ran' = ran
    BY <1>a, <1>b, <1>d, <2>1 DEF Owned, TypeOK
  <2>2. CASE request[r].pc = "effect" /\ ran' = [ran EXCEPT ![k] = @ \cup {r}]
    <3>1. command[k].id = r
      BY <1>a, <2>2 DEF Working, Row
    <3>2. ran'[k] = ran[k] \cup {r} /\ \A h \in Keys \ {k} : ran'[h] = ran[h]
      BY <1>a, <2>2 DEF TypeOK
    <3> QED
      BY <1>a, <1>b, <1>d, <3>1, <3>2, CommandAssumption DEF Owned, TypeOK
  <2> QED
    BY <2>1, <2>2 DEF Crash
<1> QED
  BY <1>f, <1>g

(* The inductive invariant holds. *)
THEOREM CommandIInv == Spec => []IInv
<1>1. IInv /\ [Next]_vars => IInv'
  <2> SUFFICES ASSUME IInv, [Next]_vars PROVE IInv'
    OBVIOUS
  <2>1. CASE UNCHANGED vars
    BY <2>1 DEF vars, IInv, TypeOK, Owned, Working, Told, Row, Response
  <2>2. ASSUME NEW r \in Requests, Send(r) \/ Handle(r) \/ Crash(r) PROVE IInv'
    BY <2>2, ReserveStep, RefuseStep, ReadBackStep, RunEffectStep, CompleteStep, ReplyStep, CrashStep
    DEF Send, Handle
  <2> QED
    BY <2>1, <2>2 DEF Next
<1> QED
  BY <1>1, InitIInv, PTL DEF Spec

(* Type correctness, for every number of requests and identities.              *)
THEOREM CommandTypes == Spec => []TypeOK
BY CommandIInv, PTL DEF IInv

(* However often a command is repeated, its effect begins at most once.        *)
THEOREM AtMostOnce == Spec => []EffectAtMostOnce
<1>1. IInv => EffectAtMostOnce
  BY DEF IInv, Owned, EffectAtMostOnce
<1> QED
  BY <1>1, CommandIInv, PTL

(* Every response answers the request that was made.                           *)
THEOREM Matches == Spec => []ResponseMatches
<1>1. IInv => ResponseMatches
  <2> SUFFICES ASSUME IInv, NEW r \in Requests, answer[r].kind = "response"
               PROVE  LET q == answer[r].by IN
                        /\ q \in ran[request[r].key]
                        /\ request[q].key = request[r].key
                        /\ request[q].payload = request[r].payload
                        /\ request[q].code = answer[r].code
    BY DEF ResponseMatches
  <2> DEFINE k == request[r].key
  <2>1. /\ k \in Keys /\ command[k].done /\ command[k].hash = request[r].payload
        /\ answer[r].by = command[k].id /\ answer[r].code = command[k].code
    <3>1. Told(r)
      BY DEF IInv
    <3> QED
      BY <3>1 DEF Told, Row, Response
  <2>2. Owned(k)
    BY <2>1 DEF IInv
  <2> QED
    BY <2>1, <2>2 DEF Owned
<1> QED
  BY <1>1, CommandIInv, PTL

(* Who repeats a command whose outcome somebody knows is told the same.        *)
THEOREM Durable == Spec => AnswerIsDurable
<1> DEFINE Same == \A r, q \in Requests :
                     (/\ answer[q].kind = "response"
                      /\ request'[r].key = request[q].key
                      /\ request'[r].payload = request[q].payload
                      /\ answer[r] = NoAnswer
                      /\ answer'[r] # NoAnswer)
                       => answer'[r] = answer[q]
<1>1. IInv /\ IInv' /\ [Next]_vars => Same
  <2> SUFFICES ASSUME IInv, [Next]_vars, NEW r \in Requests, NEW q \in Requests,
                      answer[q].kind = "response",
                      request'[r].key = request[q].key, request'[r].payload = request[q].payload,
                      answer[r] = NoAnswer, answer'[r] # NoAnswer
               PROVE  answer'[r] = answer[q]
    OBVIOUS
  <2>1. /\ request[q].key \in Keys
        /\ Row(q).done /\ Row(q).hash = request[q].payload
        /\ answer[q] = Response(request[q].key)
    BY DEF IInv, Told
  <2>2. CASE RefuseHeaders(r)
    <3>1. request[r].key = None /\ request'[r].key = request[r].key
      BY <2>2 DEF RefuseHeaders, Go, IInv, TypeOK, Working
    <3> QED
      BY <2>1, <3>1, CommandAssumption
  <2>3. CASE ReadBack(r)
    BY <2>1, <2>3 DEF ReadBack, Go, Tell, Row, IInv, TypeOK
  <2>4. CASE Reply(r)
    BY <2>1, <2>4 DEF Reply, Go, Tell, Row, Response, IInv, TypeOK, Owned, Working
  <2> QED
    BY <2>2, <2>3, <2>4
    DEF Next, Send, Handle, Reserve, RefuseHeaders, ReadBack, RunEffect, Complete, Reply, Crash, Tell,
        IInv, TypeOK, vars
<1> QED
  BY <1>1, CommandIInv, PTL DEF Spec, AnswerIsDurable

-----------------------------------------------------------------------------
(* The refinement, step by step.                                               *)

LEMMA Mapped ==
  /\ \A r \in Requests : /\ Asked[r] = [key |-> request[r].key, payload |-> request[r].payload]
                         /\ Asked[r].key = request[r].key
                         /\ Asked[r].payload = request[r].payload
  /\ \A k \in Keys : /\ Claim[k].owner = command[k].id
                     /\ Claim[k].payload = command[k].hash
                     /\ Claim[k].outcome = IF command[k].done THEN command[k].code ELSE None
BY DEF Asked, Claim

(* A step that moves pcs only is not seen.                                     *)
LEMMA SameAsked ==
  ASSUME \A r \in Requests : /\ request'[r].key = request[r].key
                             /\ request'[r].payload = request[r].payload
  PROVE  Asked' = Asked
BY DEF Asked

LEMMA GoAsks ==
  ASSUME TypeOK, NEW r \in Requests, NEW pc, Go(r, pc)
  PROVE  Asked' = Asked
<1>1. \A q \in Requests : /\ request'[q].key = request[q].key
                          /\ request'[q].payload = request[q].payload
  BY DEF Go, TypeOK
<1> QED
  BY <1>1, SameAsked

LEMMA SameClaim == ASSUME command' = command PROVE Claim' = Claim
BY DEF Claim

(* An outcome is told or refused as the row has it.                            *)
LEMMA SettledIs ==
  ASSUME TypeOK, NEW k \in Keys
  PROVE  Ledger!Settled(k) <=> command[k].done
<1>1. command[k].done => command[k].code \in Codes
  BY DEF TypeOK
<1>2. Claim[k].outcome = IF command[k].done THEN command[k].code ELSE None
  BY Mapped
<1> QED
  BY <1>1, <1>2, CommandAssumption DEF Ledger!Settled

LEMMA ReserveAsks ==
  ASSUME IInv, NEW r \in Requests, NEW k \in Keys, NEW p \in Payloads, Reserve(r, k, p)
  PROVE  Ledger!Ask(r, k, p)
<1> DEFINE row == [id |-> r, hash |-> p, done |-> FALSE, code |-> None]
<1>1. Asked[r] = Ledger!Nothing
  <2>1. request[r].key = None /\ request[r].payload = None
    BY DEF IInv, Working, Reserve
  <2> QED
    BY <2>1, Mapped DEF Ledger!Nothing
<1>2. Asked' = [Asked EXCEPT ![r] = [key |-> k, payload |-> p]]
  <2>1. request'[r].key = k /\ request'[r].payload = p
        /\ \A q \in Requests \ {r} : request'[q] = request[q]
    BY DEF Reserve, IInv, TypeOK
  <2> QED
    BY <2>1 DEF Asked
<1>3. CASE command[k].id = None
  <2>1. command' = [command EXCEPT ![k] = row]
    BY <1>3 DEF Reserve, NoCommand
  <2>2. command'[k] = row /\ \A h \in Keys \ {k} : command'[h] = command[h]
    BY <2>1 DEF IInv, TypeOK
  <2>3. Claim' = [Claim EXCEPT ![k] = [owner |-> r, payload |-> p, outcome |-> None]]
    <3>1. \A h \in Keys : Claim'[h] = [Claim EXCEPT ![k] = [owner |-> r, payload |-> p, outcome |-> None]][h]
      BY <2>2 DEF Claim
    <3> QED
      BY <3>1 DEF Claim
  <2> QED
    BY <1>1, <1>2, <1>3, <2>3, Mapped DEF Ledger!Ask, Ledger!Unclaimed, Reserve
<1>4. CASE command[k].id # None
  BY <1>1, <1>2, <1>4, Mapped, SameClaim DEF Ledger!Ask, Reserve
<1> QED
  BY <1>3, <1>4

(* The effect of the owner, whole or cut short.                                *)
LEMMA EffectBegins ==
  ASSUME IInv, NEW r \in Requests, request[r].pc = "effect", command' = command, answer' = answer,
         Asked' = Asked, ran' = [ran EXCEPT ![request[r].key] = @ \cup {r}]
  PROVE  Ledger!Begin(request[r].key) /\ request[r].key \in Keys
<1>1. /\ request[r].key \in Keys
      /\ command[request[r].key].id = r /\ r # None
      /\ ran[request[r].key] = {}
  BY CommandAssumption DEF IInv, TypeOK, Working, Row
<1>2. ran' = [ran EXCEPT ![request[r].key] = {r}]
  BY <1>1
<1> QED
  BY <1>1, <1>2, Mapped, SameClaim DEF Ledger!Begin

LEMMA CompleteSettles ==
  ASSUME IInv, NEW r \in Requests, Complete(r)
  PROVE  \E k \in Keys, code \in Codes : Ledger!Settle(k, code)
<1> DEFINE k == request[r].key
<1>1. /\ k \in Keys /\ request[r].code \in Codes /\ ~command[k].done /\ ran[k] # {}
  BY DEF Complete, IInv, TypeOK, Working, Row
<1>2. Asked' = Asked
  BY <1>1, GoAsks DEF Complete, IInv, Row
<1>3. Claim' = [Claim EXCEPT ![k].outcome = request[r].code]
  <2>1. command' = [command EXCEPT ![k].done = TRUE, ![k].code = request[r].code]
    BY <1>1 DEF Complete, Row
  <2>2. /\ command'[k].id = command[k].id /\ command'[k].hash = command[k].hash
        /\ command'[k].done /\ command'[k].code = request[r].code
        /\ \A h \in Keys \ {k} : command'[h] = command[h]
    BY <1>1, <2>1 DEF IInv, TypeOK
  <2>3. \A h \in Keys : Claim'[h] = [Claim EXCEPT ![k].outcome = request[r].code][h]
    BY <1>1, <2>2 DEF Claim
  <2> QED
    BY <2>3 DEF Claim
<1>4. ~Ledger!Settled(k)
  BY <1>1, SettledIs DEF IInv
<1> QED
  BY <1>1, <1>2, <1>3, <1>4 DEF Ledger!Settle, Complete

(* The two that tell an outcome: the owner and a repetition.                   *)
LEMMA Tells ==
  ASSUME IInv, NEW r \in Requests, answer[r] = NoAnswer, UNCHANGED <<command, ran>>, Asked' = Asked,
         request[r].key \in Keys, Row(r).done, Row(r).hash = request[r].payload,
         answer' = [answer EXCEPT ![r] = Response(request[r].key)]
  PROVE  Ledger!Tell(r)
<1> DEFINE k == request[r].key
<1>1. k \in Keys /\ Ledger!Settled(k)
  BY SettledIs DEF IInv, Row
<1>2. Asked[r] = [key |-> k, payload |-> Claim[k].payload]
  BY Mapped DEF Row
<1>3. Response(k) = [kind |-> "response", by |-> Claim[k].owner, code |-> Claim[k].outcome]
  BY Mapped DEF Response, Row
<1> QED
  BY <1>1, <1>2, <1>3, SameClaim DEF Ledger!Tell, Ledger!Untold, NoAnswer

(* Who is refused has asked for nothing that is settled.                       *)
LEMMA Refuses ==
  ASSUME IInv, NEW r \in Requests, answer[r] = NoAnswer, UNCHANGED <<command, ran>>, Asked' = Asked,
         request[r].key \in Keys => ~Row(r).done \/ Row(r).hash # request[r].payload,
         NEW reason \in {"headers", "conflict", "ambiguous"},
         answer' = [answer EXCEPT ![r] = Refusal(reason)]
  PROVE  Ledger!Refuse(r)
<1>1. ~Ledger!Answerable(r)
  <2> SUFFICES ASSUME NEW k \in Keys, Asked[r] = [key |-> k, payload |-> Claim[k].payload],
                      Ledger!Settled(k)
               PROVE  FALSE
    BY DEF Ledger!Answerable
  <2>1. request[r].key = k /\ request[r].payload = command[k].hash
    <3>1. Asked[r].key = k /\ Asked[r].payload = Claim[k].payload
      OBVIOUS
    <3> QED
      BY <3>1, Mapped
  <2> QED
    BY <2>1, SettledIs DEF IInv, Row
<1> QED
  BY <1>1, SameClaim DEF Ledger!Refuse, Ledger!Untold, Refusal, NoAnswer

(* Nobody is told twice: a request with an answer is over.                     *)
Untold(r) == request[r].pc \notin {"done", "gone"} => answer[r] = NoAnswer

LEMMA UntoldHolds == Spec => [](\A r \in Requests : Untold(r))
<1>1. Init => \A r \in Requests : Untold(r)
  BY DEF Init, Untold
<1>2. TypeOK /\ (\A r \in Requests : Untold(r)) /\ [Next]_vars => (\A r \in Requests : Untold(r))'
  <2> SUFFICES ASSUME TypeOK, \A r \in Requests : Untold(r), [Next]_vars, NEW q \in Requests
               PROVE  Untold(q)'
    OBVIOUS
  <2>1. CASE UNCHANGED vars
    BY <2>1 DEF vars, Untold
  <2>2. ASSUME NEW r \in Requests, Send(r) \/ Handle(r) \/ Crash(r) PROVE Untold(q)'
    BY <2>2
    DEF Untold, Send, Handle, Reserve, RefuseHeaders, ReadBack, RunEffect, Complete, Reply, Crash,
        Go, Tell, TypeOK
  <2> QED
    BY <2>1, <2>2 DEF Next
<1> QED
  BY <1>1, <1>2, CommandTypes, PTL DEF Spec

LEMMA LedgerStep ==
  ASSUME IInv, \A r \in Requests : Untold(r), [Next]_vars
  PROVE  [Ledger!Next]_Ledger!vars
<1>1. CASE UNCHANGED vars
  BY <1>1 DEF vars, Ledger!vars, Asked, Claim
<1>2. ASSUME NEW r \in Requests, Send(r) \/ Handle(r) \/ Crash(r)
      PROVE  [Ledger!Next]_Ledger!vars
  <2>1. CASE RefuseHeaders(r)
    <3>1. request[r].key \notin Keys /\ answer[r] = NoAnswer /\ Asked' = Asked
      BY <2>1, CommandAssumption, GoAsks DEF RefuseHeaders, IInv, Working, Untold
    <3> QED
      BY <2>1, <3>1, Refuses DEF RefuseHeaders, Tell, Ledger!Next
  <2>2. ASSUME NEW k \in Keys, NEW p \in Payloads, Reserve(r, k, p)
        PROVE  [Ledger!Next]_Ledger!vars
    BY <2>2, ReserveAsks DEF Ledger!Next
  <2>3. CASE ReadBack(r)
    <3>1. request[r].key \in Keys /\ answer[r] = NoAnswer /\ Asked' = Asked
      BY <2>3, GoAsks DEF ReadBack, IInv, TypeOK, Untold
    <3>2. Ledger!Tell(r) \/ Ledger!Refuse(r)
      BY <2>3, <3>1, Tells, Refuses DEF ReadBack, Tell
    <3> QED
      BY <3>2 DEF Ledger!Next
  <2>4. ASSUME NEW code \in Codes, RunEffect(r, code)
        PROVE  [Ledger!Next]_Ledger!vars
    <3>1. \A q \in Requests : /\ request'[q].key = request[q].key
                              /\ request'[q].payload = request[q].payload
      BY <2>4 DEF RunEffect, IInv, TypeOK
    <3> QED
      BY <2>4, <3>1, SameAsked, EffectBegins DEF RunEffect, Ledger!Next
  <2>5. CASE Complete(r)
    BY <2>5, CompleteSettles DEF Ledger!Next
  <2>6. CASE Reply(r)
    <3>1. /\ request[r].key \in Keys /\ answer[r] = NoAnswer /\ Asked' = Asked
          /\ Row(r).done /\ Row(r).id = r
      BY <2>6, GoAsks DEF Reply, IInv, TypeOK, Untold, Working
    <3>2. Row(r).hash = request[r].payload /\ Row(r).code = request[r].code
      BY <3>1, CommandAssumption DEF IInv, Owned, Row
    <3> QED
      BY <2>6, <3>1, <3>2, Tells DEF Reply, Tell, Response, Row, Ledger!Next
  <2>7. CASE Crash(r)
    <3>1. Asked' = Asked /\ Claim' = Claim
      BY <2>7, GoAsks, SameClaim DEF Crash, IInv
    <3>2. CASE ran' = ran
      BY <2>7, <3>1, <3>2 DEF Crash, Ledger!vars
    <3>3. CASE request[r].pc = "effect" /\ ran' = [ran EXCEPT ![request[r].key] = @ \cup {r}]
      BY <2>7, <3>1, <3>3, EffectBegins DEF Crash, Ledger!Next
    <3> QED
      BY <2>7, <3>2, <3>3 DEF Crash
  <2> QED
    BY <1>2, <2>1, <2>2, <2>3, <2>4, <2>5, <2>6, <2>7 DEF Send, Handle
<1> QED
  BY <1>1, <1>2 DEF Next

(* The handlers implement what durable commands promise, for every number of   *)
(* requests and identities, and whichever requests die.                        *)
THEOREM CommandsImplementLedger == Spec => ImplementsLedger
<1>1. Init => Ledger!Init
  BY DEF Init, Ledger!Init, Ledger!Nothing, Ledger!Unclaimed, Ledger!Untold, Asked, Claim,
         NoCommand, NewRequest, NoAnswer
<1> QED
  BY <1>1, LedgerStep, CommandIInv, UntoldHolds, PTL DEF Spec, ImplementsLedger, Ledger!Spec

=============================================================================

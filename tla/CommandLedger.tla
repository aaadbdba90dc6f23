----------------------------- MODULE CommandLedger -----------------------------
(* What durable commands promise their callers, whatever becomes of the        *)
(* processes that serve them: an identity belongs to the request that claimed  *)
(* it first, its effect begins once and settles at most once, and who asks for *)
(* the same is told nothing but what was settled.                              *)
EXTENDS Naturals

CONSTANTS Requests, Keys, Payloads, Codes, None

VARIABLES
  asked,   \* per request, the identity and payload it came with
  claim,   \* per identity, who has it, for which payload, and how it was settled
  begun,   \* per identity, the requests whose effect began
  told     \* per request, what it was told: nothing, a refusal or an outcome

vars == <<asked, claim, begun, told>>

Nothing == [key |-> None, payload |-> None]
Unclaimed == [owner |-> None, payload |-> None, outcome |-> None]
Untold == [kind |-> "none", by |-> None, code |-> None]

Init ==
  /\ asked = [r \in Requests |-> Nothing]
  /\ claim = [k \in Keys |-> Unclaimed]
  /\ begun = [k \in Keys |-> {}]
  /\ told = [r \in Requests |-> Untold]

Settled(k) == claim[k].outcome # None

(* There is an outcome for what r asked.                                       *)
Answerable(r) ==
  \E k \in Keys : asked[r] = [key |-> k, payload |-> claim[k].payload] /\ Settled(k)

(* The first to ask gets the identity.                                         *)
Ask(r, k, p) ==
  /\ asked[r] = Nothing
  /\ asked' = [asked EXCEPT ![r] = [key |-> k, payload |-> p]]
  /\ claim' = IF claim[k].owner = None
              THEN [claim EXCEPT ![k] = [Unclaimed EXCEPT !.owner = r, !.payload = p]]
              ELSE claim
  /\ UNCHANGED <<begun, told>>

Begin(k) ==
  /\ claim[k].owner # None
  /\ begun[k] = {}
  /\ begun' = [begun EXCEPT ![k] = {claim[k].owner}]
  /\ UNCHANGED <<asked, claim, told>>

Settle(k, code) ==
  /\ begun[k] # {}
  /\ ~Settled(k)
  /\ claim' = [claim EXCEPT ![k].outcome = code]
  /\ UNCHANGED <<asked, begun, told>>

Tell(r) ==
  /\ told[r] = Untold
  /\ \E k \in Keys :
       /\ asked[r] = [key |-> k, payload |-> claim[k].payload]
       /\ Settled(k)
       /\ told' = [told EXCEPT ![r] = [kind |-> "response", by |-> claim[k].owner,
                                       code |-> claim[k].outcome]]
  /\ UNCHANGED <<asked, claim, begun>>

(* Only who cannot be answered is refused.                                     *)
Refuse(r) ==
  /\ told[r] = Untold
  /\ ~Answerable(r)
  /\ \E reason \in {"headers", "conflict", "ambiguous"} :
       told' = [told EXCEPT ![r] = [Untold EXCEPT !.kind = reason]]
  /\ UNCHANGED <<asked, claim, begun>>

Next ==
  \/ \E r \in Requests : Tell(r) \/ Refuse(r) \/ \E k \in Keys, p \in Payloads : Ask(r, k, p)
  \/ \E k \in Keys : Begin(k) \/ \E code \in Codes : Settle(k, code)

Spec == Init /\ [][Next]_vars

=============================================================================

-------------------------- MODULE CrawlAttemptProofs --------------------------
(* Proofs about CrawlAttempt, for every set of hosts, addresses, pages and     *)
(* handlers, every depth, limit and number of faults: the addresses connected  *)
(* to, the rows a handled page has, and what the record counters come to.      *)
EXTENDS CrawlAttempt, FiniteSetTheorems, TLAPS

-----------------------------------------------------------------------------
(* The target guard.                                                           *)

(* A fingerprint is a checked answer, and connections keep to it, but for one  *)
(* to a literal, which has only the address it is.                             *)
GuardInv ==
  \A h \in Hosts :
    /\ fingerprint[h] # {} =>
         h \notin Denied /\ fingerprint[h] \cap Prohibited = {} /\ fingerprint[h] \in dns[h]
    /\ h \in Literals => \E a \in Addresses : dns[h] = {{a}}
    /\ \/ dialled[h] \subseteq fingerprint[h]
       \/ FollowedToLiteral(h) /\ dialled[h] \subseteq UNION dns[h]

(* A connection is to a host a redirect or a request may name, and a page that *)
(* is about to be inserted came from a host with a fingerprint.                *)
PlacesKnown ==
  \A w \in Handlers :
    /\ handler[w].pc = "connect" => mode = "http" /\ handler[w].at \notin Denied
    /\ handler[w].pc = "insert" => fingerprint[handler[w].at] # {}

(* What a navigation has pinned is the fingerprint. *)
PinsAgree ==
  \A w \in Handlers, h \in Hosts :
    handler[w].pinned[h] # {} => handler[w].pinned[h] = fingerprint[h]

(* What a step may do to the targets. *)
Resolved(h, S) ==
  /\ dns' = dns
  /\ \E answer \in Answers(h) :
       /\ Approve(h, answer)
       /\ S \subseteq ToSet(answer)
Unlooked(h, S) ==
  /\ mode = "http" /\ h \in Literals \ Denied
  /\ S = UNION dns[h]
  /\ UNCHANGED <<dns, fingerprint>>
TargetStep ==
  \/ UNCHANGED targets
  \/ \E h \in Hosts : \E S \in SUBSET Addresses :
       /\ Dial(h, S)
       /\ \/ Resolved(h, S)
          \/ S \subseteq fingerprint[h] /\ UNCHANGED <<dns, fingerprint>>
          \/ Unlooked(h, S)

(* An answer is a set of addresses the servers give. *)
LEMMA AnswerSet ==
  ASSUME NEW h \in Hosts, NEW answer \in Answers(h)
  PROVE  ToSet(answer) \in dns[h] /\ ToSet(answer) \in SUBSET Addresses /\ ToSet(answer) # {}
<1>1. PICK n \in 1..Cardinality(Addresses) : answer \in [1..n -> Addresses]
  BY DEF Answers
<1>2. Cardinality(Addresses) \in Nat
  BY FS_CardinalityType, TargetAssumption DEF TargetAssumption
<1>3. 1 \in 1..n
  BY <1>2
<1>4. ToSet(answer) = {answer[i] : i \in 1..n}
  BY <1>1 DEF ToSet
<1>5. answer[1] \in ToSet(answer)
  BY <1>3, <1>4
<1>6. ToSet(answer) \in SUBSET Addresses
  BY <1>1, <1>4
<1>7. ToSet(answer) \in dns[h]
  BY DEF Answers
<1> QED
  BY <1>5, <1>6, <1>7

LEMMA ApproveStep ==
  ASSUME TargetTypes, NEW h \in Hosts, NEW answer \in Answers(h), Approve(h, answer),
         NEW S \in SUBSET ToSet(answer), Dial(h, S)
  PROVE  TargetStep
<1>1. S \in SUBSET Addresses
  BY AnswerSet
<1>2. Resolved(h, S)
  BY DEF Resolved, Approve
<1> QED
  BY <1>1, <1>2 DEF TargetStep

LEMMA UndialledStep ==
  ASSUME TargetTypes, NEW h \in Hosts, NEW answer \in Answers(h), Approve(h, answer), NoDial
  PROVE  TargetStep
<1>1. Dial(h, {})
  BY DEF TargetTypes, NoDial, Dial
<1> QED
  BY <1>1, ApproveStep

LEMMA TargetStepKeeps ==
  ASSUME TargetTypes, GuardInv, TargetStep, mode' = mode
  PROVE  /\ TargetTypes' /\ GuardInv'
         /\ \A h \in Hosts : fingerprint[h] # {} => fingerprint'[h] = fingerprint[h]
<1>1. CASE UNCHANGED targets
  BY <1>1 DEF targets, TargetTypes, GuardInv, FollowedToLiteral
<1>2. ASSUME NEW h \in Hosts, NEW S \in SUBSET Addresses, Dial(h, S), Resolved(h, S)
      PROVE  /\ TargetTypes' /\ GuardInv'
             /\ \A g \in Hosts : fingerprint[g] # {} => fingerprint'[g] = fingerprint[g]
  <2>1. PICK answer \in Answers(h) : Approve(h, answer) /\ S \subseteq ToSet(answer)
    BY <1>2 DEF Resolved
  <2>2. ToSet(answer) \in dns[h] /\ ToSet(answer) \in SUBSET Addresses
    BY AnswerSet
  <2>3. /\ dns' = dns
        /\ fingerprint' = [fingerprint EXCEPT ![h] = ToSet(answer)]
        /\ fingerprint[h] \in {{}, ToSet(answer)}
        /\ h \notin Denied /\ ToSet(answer) \cap Prohibited = {}
    BY <2>1 DEF Approve, Refuses, Matches, Fingerprint
  <2>4. TargetTypes'
    BY <1>2, <2>2, <2>3 DEF TargetTypes, Dial
  <2>5. GuardInv'
    <3>1. ASSUME NEW g \in Hosts, g # h
          PROVE  dialled'[g] = dialled[g] /\ fingerprint'[g] = fingerprint[g]
      BY <1>2, <2>3, <3>1 DEF TargetTypes, Dial
    <3>2. fingerprint'[h] = ToSet(answer) /\ dialled'[h] = dialled[h] \cup S
      BY <1>2, <2>3 DEF TargetTypes, Dial
    <3>3. dialled[h] \subseteq ToSet(answer)
      <4>1. CASE dialled[h] \subseteq fingerprint[h]
        BY <2>3, <4>1
      <4>2. CASE FollowedToLiteral(h) /\ dialled[h] \subseteq UNION dns[h]
        <5>1. PICK a \in Addresses : dns[h] = {{a}}
          BY <4>2 DEF FollowedToLiteral, GuardInv
        <5> QED
          BY <2>2, <4>2, <5>1
      <4> QED
        BY <4>1, <4>2 DEF GuardInv
    <3> QED
      BY <2>1, <2>2, <2>3, <3>1, <3>2, <3>3 DEF GuardInv, FollowedToLiteral
  <2> QED
    BY <2>3, <2>4, <2>5 DEF TargetTypes
<1>3. ASSUME NEW h \in Hosts, NEW S \in SUBSET Addresses, Dial(h, S), S \subseteq fingerprint[h],
             UNCHANGED <<dns, fingerprint>>
      PROVE  /\ TargetTypes' /\ GuardInv'
             /\ \A g \in Hosts : fingerprint[g] # {} => fingerprint'[g] = fingerprint[g]
  BY <1>3 DEF TargetTypes, Dial, GuardInv, FollowedToLiteral
<1>4. ASSUME NEW h \in Hosts, NEW S \in SUBSET Addresses, Dial(h, S), Unlooked(h, S)
      PROVE  /\ TargetTypes' /\ GuardInv'
             /\ \A g \in Hosts : fingerprint[g] # {} => fingerprint'[g] = fingerprint[g]
  <2>1. \A g \in Hosts : dialled'[g] = IF g = h THEN dialled[h] \cup S ELSE dialled[g]
    BY <1>4 DEF TargetTypes, Dial
  <2>2. PICK a \in Addresses : dns[h] = {{a}}
    BY <1>4 DEF Unlooked, GuardInv
  <2>3. UNION dns[h] = {a} /\ S = {a}
    BY <1>4, <2>2 DEF Unlooked
  <2>4. dialled[h] \subseteq {a}
    BY <2>2, <2>3 DEF GuardInv
  <2>5. fingerprint[h] \in {{}, {a}}
    BY <2>2 DEF GuardInv
  <2>6. fingerprint'[h] = fingerprint[h] /\ dns'[h] = dns[h] /\ dialled'[h] = {a}
    BY <1>4, <2>1, <2>3, <2>4 DEF Unlooked
  <2>7. dialled'[h] \subseteq fingerprint'[h] \/ (FollowedToLiteral(h)' /\ dialled'[h] \subseteq UNION dns'[h])
    BY <1>4, <2>3, <2>5, <2>6 DEF Unlooked, FollowedToLiteral
  <2>8. GuardInv'
    BY <1>4, <2>1, <2>7 DEF Unlooked, GuardInv, FollowedToLiteral
  <2> QED
    BY <1>4, <2>8 DEF Unlooked, TargetTypes, Dial
<1> QED
  BY <1>1, <1>2, <1>3, <1>4 DEF TargetStep

-----------------------------------------------------------------------------
(* The frontier: what every step leaves of a request.                          *)

(* A request's URL has the request's key. *)
OwnKey(r, k) == r.state # "absent" => r.url \in Urls /\ UniqueKey(r.url) = k

FrontierInv ==
  /\ request \in [Urls -> RequestType]
  /\ \A k \in Urls : OwnKey(request[k], k)

Moved(next) ==
  /\ next \in [Urls -> RequestType]
  /\ \A k \in Urls :
       /\ OwnKey(next[k], k)
       /\ request[k].state # "absent" =>
            next[k].state # "absent" /\ next[k].url = request[k].url /\ next[k].depth = request[k].depth

LEMMA StripUrls ==
  ASSUME NEW u \in Urls
  PROVE  Strip(u) \in Urls /\ Strip(u).page = u.page
<1>1. u.slashes \in Nat /\ u \in [page : Pages, slashes : Nat]
  BY AttemptAssumption DEF AttemptAssumption
<1>2. CASE u.slashes > 0
  <2>1. u.slashes - 1 \in 0..u.slashes
    BY <1>1, <1>2
  <2>2. [u EXCEPT !.slashes = u.slashes - 1] \in Urls
    BY <2>1, AttemptAssumption DEF AttemptAssumption
  <2> QED
    BY <1>1, <1>2, <2>2 DEF Strip
<1> QED
  BY <1>1, <1>2 DEF Strip

LEMMA DiscoveredUrls ==
  ASSUME NEW u \in Urls
  PROVE  Discovered(u.page) \subseteq Urls
<1>1. Links[u.page] \subseteq Urls
  BY AttemptAssumption DEF AttemptAssumption
<1> QED
  BY <1>1, StripUrls DEF Discovered, Canonical

LEMMA SameMoved ==
  ASSUME FrontierInv
  PROVE  Moved(request)
BY DEF FrontierInv, Moved

LEMMA AddedMoved ==
  ASSUME FrontierInv, NEW urls \in SUBSET Urls, NEW depth \in Nat, NEW next \in Added(urls, depth)
  PROVE  /\ Moved(next)
         /\ \A k \in Urls : next[k] # request[k] => next[k].state = "queued"
         /\ \A u \in urls : next[UniqueKey(u)].state # "absent"
<1> DEFINE keys == {UniqueKey(u) : u \in urls}
<1>1. PICK f \in [keys -> urls] :
        /\ \A k \in keys : UniqueKey(f[k]) = k
        /\ next = [k \in Urls |-> IF k \in keys /\ request[k].state = "absent"
                                  THEN NewRequest(f[k], depth) ELSE request[k]]
  BY Zenon DEF Added
<1>2. \A k \in keys : /\ NewRequest(f[k], depth) \in RequestType
                      /\ OwnKey(NewRequest(f[k], depth), k)
                      /\ NewRequest(f[k], depth).state = "queued"
  BY <1>1 DEF NewRequest, RequestType, RequestStates, OwnKey
<1>3. \A k \in Urls : next[k] = IF k \in keys /\ request[k].state = "absent"
                                THEN NewRequest(f[k], depth) ELSE request[k]
  BY <1>1
<1>4. Moved(next)
  <2>1. next \in [Urls -> RequestType]
    BY <1>1, <1>2 DEF FrontierInv
  <2>2. \A k \in Urls : OwnKey(next[k], k)
    BY <1>2, <1>3 DEF FrontierInv
  <2> QED
    BY <1>3, <2>1, <2>2 DEF Moved
<1>5. \A k \in Urls : next[k] # request[k] => next[k].state = "queued"
  BY <1>2, <1>3
<1>6. ASSUME NEW u \in urls PROVE next[UniqueKey(u)].state # "absent"
  <2>1. UniqueKey(u) \in Urls /\ UniqueKey(u) \in keys
    BY StripUrls DEF UniqueKey
  <2> QED
    BY <1>2, <1>3, <2>1
<1> QED
  BY <1>4, <1>5, <1>6

(* The crawler takes a request up again, or is done with it. *)
LEMMA MarkedMoved ==
  ASSUME NEW next, Moved(next), NEW k \in Urls, next[k].state # "absent",
         NEW s \in RequestStates \ {"absent"}, NEW n \in Nat
  PROVE  Moved([next EXCEPT ![k] = [next[k] EXCEPT !.state = s, !.retries = n]])
<1> DEFINE r == [next[k] EXCEPT !.state = s, !.retries = n]
<1>1. next[k] \in RequestType
  BY DEF Moved
<1>2. r \in RequestType /\ r.url = next[k].url /\ r.depth = next[k].depth /\ r.state = s
  BY <1>1 DEF RequestType
<1>3. OwnKey(r, k)
  BY <1>2 DEF OwnKey, Moved
<1> QED
  BY <1>2, <1>3 DEF Moved

(* ... by its state only, or giving it up. *)
LEMMA StateMoved ==
  ASSUME NEW next, Moved(next), NEW k \in Urls, next[k].state # "absent",
         NEW s \in RequestStates \ {"absent"}
  PROVE  Moved([next EXCEPT ![k].state = s])
<1>1. next[k] \in RequestType
  BY DEF Moved
<1>2. next[k].retries \in Nat
  BY <1>1 DEF RequestType
<1>3. [next[k] EXCEPT !.state = s, !.retries = next[k].retries] = [next[k] EXCEPT !.state = s]
  BY <1>1 DEF RequestType
<1>4. [next EXCEPT ![k].state = s] = [next EXCEPT ![k] = [next[k] EXCEPT !.state = s]]
  OBVIOUS
<1>5. Moved([next EXCEPT ![k] = [next[k] EXCEPT !.state = s, !.retries = next[k].retries]])
  BY <1>2, MarkedMoved
<1> QED
  BY <1>3, <1>4, <1>5

LEMMA GivenUpMoved ==
  ASSUME NEW next, Moved(next), NEW k \in Urls, next[k].state # "absent"
  PROVE  /\ Moved([next EXCEPT ![k] = GivenUp(next[k])])
         /\ GivenUp(next[k]).state \in {"queued", "failed"}
<1>1. next[k] \in RequestType /\ next[k].retries + 1 \in Nat
  BY DEF Moved, RequestType
<1>2. CASE next[k].retries < MaxRetries
  <2>1. GivenUp(next[k]) = [next[k] EXCEPT !.state = "queued", !.retries = next[k].retries + 1]
    BY <1>2 DEF GivenUp
  <2>2. Moved([next EXCEPT ![k] = [next[k] EXCEPT !.state = "queued", !.retries = next[k].retries + 1]])
    BY <1>1, MarkedMoved DEF RequestStates
  <2> QED
    BY <1>1, <2>1, <2>2 DEF RequestType
<1>3. CASE ~(next[k].retries < MaxRetries)
  <2>1. GivenUp(next[k]) = [next[k] EXCEPT !.state = "failed"]
    BY <1>3 DEF GivenUp
  <2>2. Moved([next EXCEPT ![k].state = "failed"])
    BY StateMoved DEF RequestStates
  <2>3. [next EXCEPT ![k].state = "failed"] = [next EXCEPT ![k] = [next[k] EXCEPT !.state = "failed"]]
    OBVIOUS
  <2> QED
    BY <1>1, <2>1, <2>2, <2>3 DEF RequestType
<1> QED
  BY <1>2, <1>3

(* A handler at work adds what it finds, or a part of it. *)
LEMMA FollowsMoved ==
  ASSUME FrontierInv, NEW w \in Handlers, mode \in Modes, Key(w) \in Urls,
         request[Key(w)].state # "absent", NEW next \in Follows(w)
  PROVE  /\ Moved(next)
         /\ \A k \in Urls : next[k] # request[k] => next[k].state = "queued"
<1> DEFINE r == request[Key(w)]
           found == IF r.depth < MaxDepth[mode] THEN Discovered(r.url.page) ELSE {}
<1>1. r.url \in Urls /\ r.depth + 1 \in Nat
  BY DEF FrontierInv, OwnKey, RequestType
<1>2. found \subseteq Urls
  BY <1>1, DiscoveredUrls
<1>3. PICK urls \in SUBSET Urls : next \in Added(urls, r.depth + 1)
  BY <1>2 DEF Follows
<1> QED
  BY <1>1, <1>3, AddedMoved

-----------------------------------------------------------------------------
(* Types.                                                                      *)

Typed == TypeOK /\ FrontierInv

(* A handler that has a request, and a host when it connects. *)
Holds(r, requests) ==
  /\ r.pc # "idle" => r.key \in Urls /\ requests[r.key].state # "absent"
  /\ r.pc \in {"connect", "verify", "insert"} => r.at \in Hosts

LEMMA HandlerWithRequest ==
  ASSUME Typed, NEW w \in Handlers, handler[w].pc # "idle"
  PROVE  /\ handler[w] \in HandlerType
         /\ Key(w) \in Urls
         /\ request[Key(w)].state # "absent"
         /\ request[Key(w)].url \in Urls
         /\ Host(w) \in Hosts
         /\ handler[w].pc \in {"connect", "verify", "insert"} => handler[w].at \in Hosts
<1>1. request[Key(w)].url \in Urls
  BY DEF Typed, TypeOK, HandlerTypes, FrontierTypes, Key
<1>2. request[Key(w)].url.page \in Pages
  BY <1>1, AttemptAssumption DEF AttemptAssumption
<1> QED
  BY <1>1, <1>2, AttemptAssumption
  DEF Typed, TypeOK, HandlerTypes, FrontierTypes, Key, Host, Page, Pages, AttemptAssumption

(* One handler's record is replaced, and the frontier moves on.                *)
LEMMA FrontierKept ==
  ASSUME Typed, Moved(request'), NEW w \in Handlers, NEW r \in HandlerType, Holds(r, request'),
         handler' = [handler EXCEPT ![w] = r]
  PROVE  FrontierInv' /\ FrontierTypes' /\ HandlerTypes'
<1>1. FrontierInv' /\ FrontierTypes'
  BY DEF Moved, FrontierInv, FrontierTypes, OwnKey
<1>2. handler' \in [Handlers -> HandlerType]
  BY DEF Typed, TypeOK, HandlerTypes
<1>3. ASSUME NEW x \in Handlers PROVE Holds(handler'[x], request')
  <2>1. CASE x = w
    BY <2>1 DEF Typed, TypeOK, HandlerTypes
  <2>2. CASE x # w
    <3>1. handler'[x] = handler[x]
      BY <2>2 DEF Typed, TypeOK, HandlerTypes
    <3>2. handler[x].pc # "idle" => handler[x].key \in Urls /\ request[handler[x].key].state # "absent"
      BY DEF Typed, TypeOK, HandlerTypes, Key
    <3>3. handler[x].pc \in {"connect", "verify", "insert"} => handler[x].at \in Hosts
      BY DEF Typed, TypeOK, HandlerTypes
    <3> QED
      BY <3>1, <3>2, <3>3 DEF Moved, Holds
  <2> QED
    BY <2>1, <2>2
<1> QED
  BY <1>1, <1>2, <1>3 DEF HandlerTypes, Holds, Key

(* Only the phase, the job's row and the proxy change. *)
LEMMA FrontierSame ==
  ASSUME Typed, UNCHANGED <<request, handler>>
  PROVE  FrontierInv' /\ FrontierTypes' /\ HandlerTypes'
BY DEF Typed, TypeOK, FrontierInv, OwnKey, FrontierTypes, HandlerTypes, Key

-----------------------------------------------------------------------------
(* The page handlers: what a handler's step does to its own record ...         *)

(* A handler that is about to connect has a host it may name, and one about to *)
(* insert a page from a host the guard knows.                                  *)
Placed(r) ==
  /\ r.pc = "connect" => mode = "http" /\ r.at \notin Denied
  /\ r.pc = "insert" => fingerprint'[r.at] # {}

Goes(w, r) ==
  /\ handler' = [handler EXCEPT ![w] = r]
  /\ r \in HandlerType
  /\ r.pc # "idle" => r.key = Key(w) /\ r.zombie = handler[w].zombie
  /\ r.pc = "idle" => ~r.zombie
  /\ r.pc \in {"connect", "verify", "insert"} => r.at \in Hosts
  /\ Placed(r)
  /\ r.pc = "links" => Insert(w)
  /\ r.read \in {0, records, handler[w].read}
  /\ \A h \in Hosts : r.pinned[h] \in {{}, handler[w].pinned[h], fingerprint'[h]}

LEMMA IdleType ==
  /\ NoHandler \in HandlerType
  /\ NoHandler.pc = "idle" /\ ~NoHandler.zombie /\ NoHandler.read = 0
  /\ \A h \in Hosts : NoHandler.pinned[h] = {}
BY DEF NoHandler, HandlerType

LEMMA GuardPageGoes ==
  ASSUME Typed, NEW w \in Handlers, GuardPage(w)
  PROVE  \E r : Goes(w, r)
<1>1. Host(w) \in Hosts /\ handler[w] \in HandlerType /\ Key(w) = handler[w].key
  BY HandlerWithRequest DEF GuardPage, Key
<1>2. PICK answer \in Answers(Host(w)) :
        /\ Approve(Host(w), answer)
        /\ handler' = IF mode = "browser" THEN [handler EXCEPT ![w].pc = "load"]
             ELSE [handler EXCEPT ![w].pc = "connect", ![w].at = Host(w),
                                  ![w].pinned[Host(w)] = ToSet(answer)]
  BY DEF GuardPage
<1>3. CASE mode = "browser"
  <2> DEFINE r == [handler[w] EXCEPT !.pc = "load"]
  <2>1. handler' = [handler EXCEPT ![w] = r]
    BY <1>2, <1>3
  <2>2. r \in HandlerType /\ r.key = Key(w) /\ r.pc = "load" /\ r.zombie = handler[w].zombie
        /\ r.read = handler[w].read /\ r.pinned = handler[w].pinned
    BY <1>1 DEF HandlerType
  <2> QED
    BY <2>1, <2>2 DEF Goes, Placed
<1>4. CASE mode # "browser"
  <2> DEFINE p == [handler[w].pinned EXCEPT ![Host(w)] = ToSet(answer)]
             r == [handler[w] EXCEPT !.pc = "connect", !.at = Host(w), !.pinned = p]
  <2>1. handler' = [handler EXCEPT ![w] = r]
    BY <1>1, <1>2, <1>4 DEF Typed, TypeOK, HandlerTypes, HandlerType
  <2>2. p \in [Hosts -> SUBSET Addresses]
    BY <1>1, AnswerSet DEF HandlerType
  <2>3. r \in HandlerType /\ r.key = Key(w) /\ r.pc = "connect" /\ r.zombie = handler[w].zombie
        /\ r.at = Host(w) /\ r.read = handler[w].read /\ r.pinned = p
    BY <1>1, <2>2 DEF HandlerType
  <2>4. \A h \in Hosts : p[h] \in {handler[w].pinned[h], fingerprint'[h]}
    <3>1. fingerprint'[Host(w)] = ToSet(answer)
      BY <1>1, <1>2 DEF Approve, Fingerprint, Typed, TypeOK, TargetTypes
    <3> QED
      BY <1>1, <3>1 DEF HandlerType
  <2>5. mode = "http" /\ Host(w) \notin Denied
    BY <1>2, <1>4, AttemptAssumption
    DEF Approve, Refuses, Typed, TypeOK, AttemptTypes, AttemptAssumption
  <2> HIDE DEF p, r
  <2> QED
    BY <1>1, <2>1, <2>3, <2>4, <2>5 DEF Goes, Placed
<1> QED
  BY <1>3, <1>4

LEMMA ArriveGoes ==
  ASSUME Typed, NEW w \in Handlers, handler[w].pc # "idle", NEW h \in Hosts, Arrive(w, "verify", h)
  PROVE  \E r : Goes(w, r)
<1> DEFINE r == [NoHandler EXCEPT !.pc = "verify", !.key = Key(w), !.at = h, !.zombie = handler[w].zombie]
<1>1. /\ r \in HandlerType /\ r.key = Key(w) /\ r.pc = "verify" /\ r.zombie = handler[w].zombie
      /\ r.at = h /\ r.read = 0 /\ r.pinned = NoHandler.pinned
  BY HandlerWithRequest DEF HandlerType, NoHandler
<1>2. handler' = [handler EXCEPT ![w] = r]
  BY DEF Arrive
<1> HIDE DEF r
<1> QED
  BY <1>1, <1>2, IdleType DEF Goes, Placed

(* A connection goes to what is pinned, what is resolved for it, or a literal. *)
LEMMA LookupStep ==
  ASSUME Typed, GuardInv, PinsAgree, NEW w \in Handlers, NEW h \in Hosts, Lookup(w, h),
         mode = "http", h \notin Denied
  PROVE  TargetStep /\ fingerprint' \in [Hosts -> SUBSET Addresses]
<1>1. CASE handler[w].pinned[h] # {} /\ Dial(h, handler[w].pinned[h]) /\ UNCHANGED <<dns, fingerprint>>
  BY <1>1 DEF PinsAgree, TargetStep, Typed, TypeOK, TargetTypes
<1>2. ASSUME NEW answer \in Answers(h), Approve(h, answer), Dial(h, ToSet(answer))
      PROVE  TargetStep /\ fingerprint' \in [Hosts -> SUBSET Addresses]
  <2>1. TargetStep
    BY <1>2, ApproveStep DEF Typed, TypeOK
  <2>2. fingerprint' = [fingerprint EXCEPT ![h] = ToSet(answer)]
    BY <1>2 DEF Approve, Fingerprint
  <2> QED
    BY <2>1, <2>2, AnswerSet DEF Typed, TypeOK, TargetTypes
<1>3. CASE h \in Literals /\ Dial(h, UNION dns[h]) /\ UNCHANGED <<dns, fingerprint>>
  <2>1. Unlooked(h, UNION dns[h]) /\ UNION dns[h] \in SUBSET Addresses
    BY <1>3 DEF Unlooked, Typed, TypeOK, TargetTypes
  <2> QED
    BY <1>3, <2>1 DEF TargetStep, Typed, TypeOK, TargetTypes
<1> QED
  BY <1>1, <1>2, <1>3 DEF Lookup

LEMMA ConnectGoes ==
  ASSUME Typed, GuardInv, PinsAgree, PlacesKnown, NEW w \in Handlers, Connect(w)
  PROVE  \E r : Goes(w, r)
<1> DEFINE h == handler[w].at
           pins == IF handler[w].pinned[h] # {} \/ h \in Literals THEN handler[w].pinned[h]
                   ELSE fingerprint'[h]
           here == [handler[w] EXCEPT !.pinned[h] = pins]
<1>1. handler[w] \in HandlerType /\ Key(w) = handler[w].key /\ h \in Hosts
  BY HandlerWithRequest DEF Connect, Key
<1>2. mode = "http" /\ fingerprint' \in [Hosts -> SUBSET Addresses]
  BY <1>1, LookupStep DEF Connect, PlacesKnown
<1>3. CASE Arrive(w, "verify", h)
  BY <1>1, <1>3, ArriveGoes DEF Connect
<1>4. ASSUME NEW g \in Redirectable,
             handler' = [handler EXCEPT ![w] = [here EXCEPT !.at = g, !.hops = @ + 1]]
      PROVE  \E r : Goes(w, r)
  <2> DEFINE p == [handler[w].pinned EXCEPT ![h] = pins]
             r == [handler[w] EXCEPT !.pinned = p, !.at = g, !.hops = @ + 1]
  <2>1. p \in [Hosts -> SUBSET Addresses]
    BY <1>1, <1>2 DEF HandlerType
  <2>2. [here EXCEPT !.at = g, !.hops = @ + 1] = r
    BY <1>1 DEF HandlerType
  <2>3. g \in Hosts \ Denied /\ handler[w].hops + 1 \in Nat
    BY <1>1 DEF Redirectable, HandlerType
  <2> HIDE DEF p
  <2>4. r \in HandlerType
    BY <1>1, <2>1, <2>3 DEF HandlerType
  <2>5. /\ r.key = Key(w) /\ r.pc = handler[w].pc /\ r.zombie = handler[w].zombie
        /\ r.at = g /\ r.read = handler[w].read /\ r.pinned = p
    BY <1>1 DEF HandlerType
  <2>6. handler' = [handler EXCEPT ![w] = r] /\ handler[w].pc = "connect"
    BY <1>4, <2>2 DEF Connect
  <2>7. \A i \in Hosts : p[i] \in {handler[w].pinned[i], fingerprint'[i]}
    BY <1>1 DEF HandlerType, p
  <2> HIDE DEF r
  <2> QED
    BY <1>2, <2>3, <2>4, <2>5, <2>6, <2>7 DEF Goes, Placed
<1> QED
  BY <1>3, <1>4 DEF Connect

LEMMA VerifyGoes ==
  ASSUME Typed, NEW w \in Handlers, Verify(w)
  PROVE  \E r : Goes(w, r)
<1> DEFINE r == [handler[w] EXCEPT !.pc = "insert", !.read = records]
<1>1. handler[w] \in HandlerType /\ Key(w) = handler[w].key /\ handler[w].at \in Hosts
  BY HandlerWithRequest DEF Verify, Key
<1>2. r \in HandlerType /\ r.key = Key(w) /\ r.pc = "insert" /\ r.zombie = handler[w].zombie
      /\ r.at = handler[w].at /\ r.read = records /\ r.pinned = handler[w].pinned
  BY <1>1 DEF HandlerType, Typed, TypeOK, AttemptTypes
<1>3. handler' = [handler EXCEPT ![w] = r]
  BY DEF Verify, Typed, TypeOK, HandlerTypes, HandlerType
<1>4. fingerprint'[handler[w].at] # {}
  <2>1. PICK answer \in Answers(handler[w].at) : Approve(handler[w].at, answer)
    BY DEF Verify
  <2> QED
    BY <1>1, <2>1, AnswerSet DEF Approve, Fingerprint, Typed, TypeOK, TargetTypes
<1> HIDE DEF r
<1> QED
  BY <1>1, <1>2, <1>3, <1>4 DEF Goes, Placed

LEMMA InsertGoes ==
  ASSUME Typed, NEW w \in Handlers, Insert(w)
  PROVE  \E r : Goes(w, r)
<1> DEFINE r == [handler[w] EXCEPT !.pc = "links", !.at = None, !.read = 0]
<1>1. handler[w] \in HandlerType /\ Key(w) = handler[w].key
  BY HandlerWithRequest DEF Insert, Key
<1>2. r \in HandlerType /\ r.key = Key(w) /\ r.pc = "links" /\ r.zombie = handler[w].zombie /\ r.read = 0
      /\ r.pinned = handler[w].pinned
  BY <1>1 DEF HandlerType
<1>3. handler' = [handler EXCEPT ![w] = r]
  BY DEF Insert, Typed, TypeOK, HandlerTypes, HandlerType
<1> HIDE DEF r
<1> QED
  BY <1>2, <1>3 DEF Goes, Placed

LEMMA DropGoes ==
  ASSUME Typed, NEW w \in Handlers, Drop(w)
  PROVE  \E r : Goes(w, r)
BY IdleType DEF Drop, Goes, Placed

LEMMA HandlerGoes ==
  ASSUME Typed, GuardInv, PinsAgree, PlacesKnown, NEW w \in Handlers, HandlerStep(w)
  PROVE  \E r : Goes(w, r)
<1>1. CASE Load(w)
  BY <1>1, ArriveGoes DEF Load
<1>2. CASE FollowLinks(w) \/ HandlerFails(w) \/ HandlerStops(w)
  BY <1>2, DropGoes DEF FollowLinks, HandlerFails, HandlerStops
<1> QED
  BY <1>1, <1>2, GuardPageGoes, ConnectGoes, VerifyGoes, InsertGoes DEF HandlerStep

-----------------------------------------------------------------------------
(* ... and to the frontier: a request is handled only by a handler that the    *)
(* crawler still hears of.                                                     *)

LEMMA HandlerLeaves ==
  ASSUME Typed, NEW w \in Handlers, HandlerStep(w)
  PROVE  /\ UNCHANGED <<mode, phase, running, stored, timeouts>>
         /\ handler[w].pc # "idle"
         /\ Insert(w) \/ UNCHANGED <<rows, records>>
BY DEF HandlerStep, GuardPage, Connect, Load, Verify, Insert, FollowLinks, HandlerFails,
       HandlerStops, jobRow

LEMMA FollowLinksMoves ==
  ASSUME Typed, NEW w \in Handlers, FollowLinks(w)
  PROVE  /\ Moved(request')
         /\ \E next \in Follows(w) :
              /\ Moved(next)
              /\ \A k \in Urls : next[k] # request[k] => next[k].state = "queued"
              /\ request' = IF handler[w].zombie THEN next
                            ELSE [next EXCEPT ![Key(w)].state = "handled"]
<1>1. Key(w) \in Urls /\ request[Key(w)].state # "absent" /\ mode \in Modes
  BY HandlerWithRequest DEF FollowLinks, Typed, TypeOK, AttemptTypes
<1>2. PICK next \in Follows(w) :
        request' = IF handler[w].zombie THEN next ELSE [next EXCEPT ![Key(w)].state = "handled"]
  BY DEF FollowLinks
<1>3. Moved(next) /\ \A k \in Urls : next[k] # request[k] => next[k].state = "queued"
  BY <1>1, FollowsMoved DEF Typed
<1>4. Moved([next EXCEPT ![Key(w)].state = "handled"])
  <2>1. next[Key(w)].state # "absent"
    BY <1>1, <1>3 DEF Moved
  <2> QED
    BY <1>1, <1>3, <2>1, StateMoved DEF RequestStates
<1>5. Moved(request')
  BY <1>2, <1>3, <1>4
<1> QED
  BY <1>2, <1>3, <1>5, Zenon

LEMMA HandlerFailsMoves ==
  ASSUME Typed, NEW w \in Handlers, HandlerFails(w)
  PROVE  /\ Moved(request')
         /\ \A k \in Urls : request'[k] # request[k] => request'[k].state \in {"queued", "failed"}
<1>1. Key(w) \in Urls /\ request[Key(w)].state # "absent" /\ mode \in Modes
  BY HandlerWithRequest DEF HandlerFails, Typed, TypeOK, AttemptTypes
<1>2. PICK next \in Follows(w) \cup {request} :
        request' = IF handler[w].zombie THEN next ELSE [next EXCEPT ![Key(w)] = GivenUp(@)]
  BY DEF HandlerFails
<1>3. Moved(next) /\ \A k \in Urls : next[k] # request[k] => next[k].state = "queued"
  BY <1>1, FollowsMoved, SameMoved DEF Typed
<1>4. /\ Moved([next EXCEPT ![Key(w)] = GivenUp(next[Key(w)])])
      /\ GivenUp(next[Key(w)]).state \in {"queued", "failed"}
  <2>1. next[Key(w)].state # "absent"
    BY <1>1, <1>3 DEF Moved
  <2> QED
    BY <1>1, <1>3, <2>1, GivenUpMoved
<1> QED
  BY <1>2, <1>3, <1>4 DEF Moved

LEMMA HandlerStopsMoves ==
  ASSUME Typed, NEW w \in Handlers, HandlerStops(w)
  PROVE  /\ Moved(request')
         /\ \A k \in Urls : request'[k] # request[k] => request'[k].state = "failed"
<1>1. Key(w) \in Urls /\ request[Key(w)].state # "absent" /\ Moved(request)
  BY HandlerWithRequest, SameMoved DEF HandlerStops, Typed
<1>2. Moved([request EXCEPT ![Key(w)].state = "failed"])
  BY <1>1, StateMoved DEF RequestStates
<1> QED
  BY <1>1, <1>2 DEF HandlerStops, Moved, RequestType

LEMMA HandlerFinishes ==
  ASSUME Typed, NEW w \in Handlers, HandlerStep(w)
  PROVE  /\ Moved(request')
         /\ \A k \in Urls : request'[k].state = "handled" =>
              \/ request[k].state = "handled"
              \/ FollowLinks(w) /\ k = Key(w) /\ ~handler[w].zombie
<1>1. CASE UNCHANGED request
  BY <1>1, SameMoved DEF Typed
<1>2. CASE FollowLinks(w)
  <2>1. PICK next \in Follows(w) :
          /\ Moved(next)
          /\ \A k \in Urls : next[k] # request[k] => next[k].state = "queued"
          /\ request' = IF handler[w].zombie THEN next ELSE [next EXCEPT ![Key(w)].state = "handled"]
    BY <1>2, FollowLinksMoves
  <2>2. ASSUME NEW k \in Urls, request'[k].state = "handled"
        PROVE  request[k].state = "handled" \/ (k = Key(w) /\ ~handler[w].zombie)
    BY <2>1, <2>2 DEF Moved
  <2> QED
    BY <1>2, <2>2, FollowLinksMoves
<1>3. CASE HandlerFails(w)
  BY <1>3, HandlerFailsMoves
<1>4. CASE HandlerStops(w)
  BY <1>4, HandlerStopsMoves
<1> QED
  BY <1>1, <1>2, <1>3, <1>4 DEF HandlerStep, GuardPage, Connect, Load, Verify, Insert

(* ... and with the rest: types, and hosts resolved as the target guard does.  *)
StepKept == FrontierInv' /\ FrontierTypes' /\ HandlerTypes' /\ TargetStep
AllKept == StepKept /\ AttemptTypes' /\ ProxyTypes'

LEMMA HandlerResolves ==
  ASSUME Typed, GuardInv, PinsAgree, PlacesKnown, NEW w \in Handlers, HandlerStep(w)
  PROVE  TargetStep
<1>1. handler[w].pc # "idle" => Host(w) \in Hosts
  BY HandlerWithRequest
<1>2. handler[w].pc \in {"connect", "verify"} => handler[w].at \in Hosts
  BY HandlerWithRequest
<1>3. CASE GuardPage(w)
  BY <1>1, <1>3, UndialledStep DEF GuardPage, Typed, TypeOK
<1>4. CASE Connect(w)
  BY <1>2, <1>4, LookupStep DEF Connect, PlacesKnown
<1>5. CASE Verify(w)
  BY <1>2, <1>5, UndialledStep DEF Verify, Typed, TypeOK
<1>6. CASE UNCHANGED targets
  BY <1>6 DEF TargetStep
<1> QED
  BY <1>3, <1>4, <1>5, <1>6 DEF HandlerStep, Load, Insert, FollowLinks, HandlerFails, HandlerStops

LEMMA HandlerStepKept ==
  ASSUME Typed, GuardInv, PinsAgree, PlacesKnown, NEW w \in Handlers, HandlerStep(w)
  PROVE  AllKept
<1>1. FrontierInv' /\ FrontierTypes' /\ HandlerTypes'
  <2>1. PICK r : Goes(w, r)
    BY HandlerGoes
  <2>2. Holds(r, request')
    BY <2>1, HandlerWithRequest, HandlerLeaves, HandlerFinishes DEF Goes, Holds, Moved
  <2> QED
    BY <2>1, <2>2, HandlerFinishes, FrontierKept DEF Goes
<1>2. AttemptTypes'
  <2>1. UNCHANGED <<mode, phase, unguarded, running, stored, timeouts>>
    BY DEF HandlerStep, GuardPage, Connect, Load, Verify, Insert, FollowLinks, HandlerFails,
           HandlerStops, jobRow
  <2>2. rows' \subseteq Urls /\ records' \in Nat
    <3>1. CASE Insert(w)
      <4>1. Hash(w) \in Urls
        BY <3>1, HandlerWithRequest, StripUrls DEF Insert, Hash, UrlHash, Canonical, Key
      <4>2. handler[w].read \in Nat
        BY DEF Typed, TypeOK, HandlerTypes, HandlerType
      <4> QED
        BY <3>1, <4>1, <4>2 DEF Insert, Typed, TypeOK, AttemptTypes
    <3>2. CASE UNCHANGED <<rows, records>>
      BY <3>2 DEF Typed, TypeOK, AttemptTypes
    <3> QED
      BY <3>1, <3>2, HandlerLeaves
  <2> QED
    BY <2>1, <2>2 DEF Typed, TypeOK, AttemptTypes
<1>3. ProxyTypes'
  BY DEF HandlerStep, GuardPage, Connect, Load, Verify, Insert, FollowLinks, HandlerFails,
         HandlerStops, proxyVars, Typed, TypeOK, ProxyTypes
<1> QED
  BY <1>1, <1>2, <1>3, HandlerResolves DEF AllKept, StepKept

-----------------------------------------------------------------------------
(* The crawler.                                                                *)

LEMMA HandlerTimeoutMoves ==
  ASSUME Typed, NEW w \in Handlers, HandlerTimeout(w)
  PROVE  /\ Moved(request')
         /\ \A k \in Urls : request'[k] # request[k] => request'[k].state \in {"queued", "failed"}
         /\ FrontierInv' /\ FrontierTypes' /\ HandlerTypes'
<1> DEFINE r == [handler[w] EXCEPT !.zombie = TRUE]
<1>1. /\ Key(w) \in Urls /\ request[Key(w)].state # "absent" /\ Moved(request)
      /\ handler[w] \in HandlerType /\ Key(w) = handler[w].key
      /\ handler[w].pc \in {"connect", "verify", "insert"} => handler[w].at \in Hosts
  BY HandlerWithRequest, SameMoved DEF HandlerTimeout, Live, Typed, Key
<1>2. /\ Moved([request EXCEPT ![Key(w)] = GivenUp(request[Key(w)])])
      /\ GivenUp(request[Key(w)]).state \in {"queued", "failed"}
  BY <1>1, GivenUpMoved
<1>3. r \in HandlerType /\ r.key = Key(w) /\ r.pc = handler[w].pc /\ r.at = handler[w].at
  BY <1>1 DEF HandlerType
<1>4. Moved(request')
  BY <1>2 DEF HandlerTimeout
<1>5. Holds(r, request')
  BY <1>1, <1>3, <1>4 DEF Holds, Moved
<1>6. handler' = [handler EXCEPT ![w] = r]
  BY DEF HandlerTimeout
<1> QED
  BY <1>1, <1>2, <1>3, <1>4, <1>5, <1>6, FrontierKept DEF HandlerTimeout, Moved

LEMMA TakeMoves ==
  ASSUME Typed, NEW w \in Handlers, NEW k \in Urls, Take(w, k)
  PROVE  /\ Moved(request')
         /\ \A u \in Urls : request'[u] # request[u] => request'[u].state \in {"busy", "failed"}
         /\ FrontierInv' /\ FrontierTypes' /\ HandlerTypes'
<1>1. request[k].state # "absent" /\ Moved(request)
  BY SameMoved DEF Take, Typed
<1>2. /\ Moved([request EXCEPT ![k].state = "busy"])
      /\ Moved([request EXCEPT ![k].state = "failed"])
  BY <1>1, StateMoved DEF RequestStates
<1>3. Moved(request')
  BY <1>2 DEF Take
<1>4. \A u \in Urls : request'[u] # request[u] => request'[u].state \in {"busy", "failed"}
  BY <1>1 DEF Take, Moved, RequestType
<1>5. CASE running
  <2> DEFINE r == [NoHandler EXCEPT !.pc = "guard", !.key = k]
  <2>1. r \in HandlerType /\ r.pc = "guard" /\ r.key = k
    BY DEF NoHandler, HandlerType
  <2>2. Holds(r, request')
    BY <1>1, <1>3, <2>1 DEF Holds, Moved
  <2>3. handler' = [handler EXCEPT ![w] = r]
    BY <1>5 DEF Take
  <2> QED
    BY <1>3, <1>4, <2>1, <2>2, <2>3, FrontierKept
<1>6. CASE ~running
  <2>1. Holds(handler[w], request')
    BY <1>1, <1>3 DEF Take, Holds
  <2>2. handler' = [handler EXCEPT ![w] = handler[w]] /\ handler[w] \in HandlerType
    BY <1>6 DEF Take, Typed, TypeOK, HandlerTypes
  <2> QED
    BY <1>3, <1>4, <2>1, <2>2, FrontierKept
<1> QED
  BY <1>5, <1>6

-----------------------------------------------------------------------------
(* The steps of the proxy, of the browser and of the attempt.                  *)

LEMMA OpenUpstreamStep ==
  ASSUME Typed, NEW c \in Conns, OpenUpstream(c)
  PROVE  TargetStep
<1>1. conn[c].host \in Hosts
  BY DEF Typed, TypeOK, ProxyTypes, OpenUpstream
<1>2. PICK answer \in Answers(conn[c].host) :
        Approve(conn[c].host, answer) /\ Dial(conn[c].host, Selected(ToSet(answer)))
  BY DEF OpenUpstream
<1>3. Selected(ToSet(answer)) \in SUBSET ToSet(answer)
  BY DEF Selected
<1> QED
  BY <1>1, <1>2, <1>3, ApproveStep DEF Typed, TypeOK

LEMMA ProxyStepsKept ==
  ASSUME Typed, ProxySteps
  PROVE  StepKept /\ ProxyTypes'
<1>1. FrontierInv' /\ FrontierTypes' /\ HandlerTypes'
  BY FrontierSame DEF ProxySteps, frontier
<1>2. CASE ProxyClosed
  BY <1>1, <1>2 DEF ProxyClosed, StepKept, TargetStep, Typed, TypeOK, ProxyTypes
<1>3. ASSUME NEW c \in Conns, ProxyStep(c) \/ UpstreamEnds(c) \/ UpstreamTimeout(c) \/ ClientLeaves(c)
      PROVE  TargetStep /\ ProxyTypes'
  <2> USE DEF Typed, TypeOK, ProxyTypes, ConnType, NoConn
  <2>1. CASE OpenUpstream(c)
    BY <2>1, OpenUpstreamStep DEF OpenUpstream
  <2>2. CASE RefuseUpstream(c)
    BY <2>2 DEF RefuseUpstream, TargetStep
  <2>3. CASE UpstreamEnds(c)
    <3> DEFINE kept == [NoConn EXCEPT !.client = conn[c].client]
    <3>1. kept \in ConnType /\ NoConn \in ConnType /\ kept.step = "idle" /\ NoConn.step = "idle"
      OBVIOUS
    <3>2. conn' = [conn EXCEPT ![c] = kept] \/ conn' = [conn EXCEPT ![c] = NoConn]
      BY <2>3 DEF UpstreamEnds
    <3> HIDE DEF kept, NoConn, ConnType
    <3> QED
      BY <2>3, <3>1, <3>2 DEF UpstreamEnds, TargetStep
  <2>4. CASE UpstreamTimeout(c)
    BY <2>4 DEF UpstreamTimeout, TargetStep
  <2>5. CASE ClientLeaves(c)
    BY <2>5 DEF ClientLeaves, TargetStep
  <2> QED
    BY <1>3, <2>1, <2>2, <2>3, <2>4, <2>5 DEF ProxyStep
<1> QED
  BY <1>1, <1>2, <1>3 DEF ProxySteps, ProxyNext, StepKept

LEMMA BrowserAsksKept ==
  ASSUME Typed, NEW c \in Conns, BrowserAsks(c), UNCHANGED frontier
  PROVE  StepKept /\ ProxyTypes'
<1>1. FrontierInv' /\ FrontierTypes' /\ HandlerTypes'
  BY FrontierSame DEF frontier
<1>2. PICK h \in Hosts, kind \in {"request", "tunnel"} : Ask(c, h, kind)
  BY DEF BrowserAsks
<1>3. ProxyTypes'
  BY <1>2 DEF Ask, Typed, TypeOK, ProxyTypes, ConnType
<1> QED
  BY <1>1, <1>2, <1>3 DEF Ask, StepKept, TargetStep

LEMMA CloseKept ==
  ASSUME Typed, Close
  PROVE  StepKept /\ ProxyTypes' /\ AttemptTypes'
<1>1. FrontierInv' /\ FrontierTypes' /\ HandlerTypes'
  BY FrontierSame DEF Close, frontier
<1>2. ProxyTypes'
  <2>1. CASE CloseProxy
    <3>1. \A c \in Conns : /\ NoConn \in ConnType /\ NoConn.step = "idle"
                          /\ [conn[c] EXCEPT !.client = FALSE] \in ConnType
                          /\ [conn[c] EXCEPT !.client = FALSE].step = conn[c].step
                          /\ [conn[c] EXCEPT !.client = FALSE].host = conn[c].host
      BY DEF Typed, TypeOK, ProxyTypes, ConnType, NoConn
    <3> QED
      BY <2>1, <3>1 DEF CloseProxy, Typed, TypeOK, ProxyTypes
  <2>2. CASE UNCHANGED proxyVars
    BY <2>2 DEF proxyVars, Typed, TypeOK, ProxyTypes
  <2> QED
    BY <2>1, <2>2 DEF Close
<1> QED
  BY <1>1, <1>2 DEF Close, StepKept, TargetStep, jobRow, frontier, Typed, TypeOK, AttemptTypes

LEMMA StartRunKept ==
  ASSUME Typed, StartRun
  PROVE  StepKept /\ ProxyTypes' /\ Moved(request')
         /\ \A k \in Urls : request'[k] # request[k] => request'[k].state = "queued"
<1> DEFINE urls == {Canonical(u) : u \in StartUrls}
<1>1. urls \in SUBSET Urls
  BY AttemptAssumption, StripUrls DEF AttemptAssumption, Canonical
<1>2. /\ Moved(request')
      /\ \A k \in Urls : request'[k] # request[k] => request'[k].state = "queued"
  BY <1>1, AddedMoved DEF StartRun, Typed
<1>3. FrontierInv' /\ FrontierTypes' /\ HandlerTypes'
  <2>1. FrontierInv' /\ FrontierTypes'
    BY <1>2 DEF Moved, FrontierInv, FrontierTypes, OwnKey
  <2>2. HandlerTypes'
    BY <1>2 DEF StartRun, Typed, TypeOK, HandlerTypes, Moved, Key
  <2> QED
    BY <2>1, <2>2
<1>4. ProxyTypes'
  BY DEF StartRun, StartProxy, proxyVars, Typed, TypeOK, ProxyTypes
<1> QED
  BY <1>2, <1>3, <1>4 DEF StartRun, StepKept, TargetStep

LEMMA AttemptThrowsKept ==
  ASSUME Typed, AttemptThrows
  PROVE  StepKept
<1>1. FrontierInv' /\ FrontierTypes'
  BY DEF AttemptThrows, Typed, TypeOK, FrontierInv, OwnKey, FrontierTypes
<1>2. \A w \in Handlers : [handler[w] EXCEPT !.zombie = TRUE] \in HandlerType
  BY DEF Typed, TypeOK, HandlerTypes, HandlerType
<1>3. HandlerTypes'
  <2>1. handler' \in [Handlers -> HandlerType]
    <3>1. \A w \in Handlers : handler[w] \in HandlerType
      BY DEF Typed, TypeOK, HandlerTypes
    <3> QED
      BY <1>2, <3>1 DEF AttemptThrows
  <2>2. \A w \in Handlers : /\ handler'[w].pc = handler[w].pc
                            /\ handler'[w].key = handler[w].key
                            /\ handler'[w].at = handler[w].at
    BY DEF AttemptThrows, Typed, TypeOK, HandlerTypes, HandlerType
  <2>3. request' = request
    BY DEF AttemptThrows
  <2> QED
    BY <2>1, <2>2, <2>3 DEF Typed, TypeOK, HandlerTypes, Key
<1> QED
  BY <1>1, <1>3 DEF AttemptThrows, StepKept, TargetStep

(* A start URL or a route handler of the browser has a host guarded.           *)
LEMMA GuardingKept ==
  ASSUME Typed, NEW h \in Hosts, UNCHANGED frontier, NoDial,
         \E answer \in Answers(h) : Approve(h, answer)
  PROVE  StepKept
BY UndialledStep, FrontierSame DEF StepKept, frontier, Typed, TypeOK

LEMMA CountType ==
  ASSUME rows \subseteq Urls
  PROVE  IsFiniteSet(rows) /\ Cardinality(rows) \in Nat
<1>1. IsFiniteSet(rows)
  BY FS_Subset, AttemptAssumption DEF AttemptAssumption
<1> QED
  BY <1>1, FS_CardinalityType

-----------------------------------------------------------------------------
(* Every step keeps the types and the guard.                                   *)

LEMMA ProxySame ==
  ASSUME Typed, UNCHANGED proxyVars
  PROVE  ProxyTypes'
BY DEF Typed, TypeOK, ProxyTypes, proxyVars

LEMMA AttemptSame ==
  ASSUME Typed, UNCHANGED <<mode, phase, unguarded, jobRow, records, timeouts>>
  PROVE  AttemptTypes'
BY DEF Typed, TypeOK, AttemptTypes, jobRow

LEMMA CrawlerStepKept ==
  ASSUME Typed, NEW w \in Handlers,
         HandlerTimeout(w) \/ \E k \in Urls : Take(w, k)
  PROVE  AllKept
<1>1. CASE HandlerTimeout(w)
  <2>1. UNCHANGED <<mode, phase, unguarded, jobRow, records, targets, proxyVars>> /\ timeouts' = timeouts + 1
    BY <1>1 DEF HandlerTimeout
  <2>2. AttemptTypes'
    BY <2>1 DEF Typed, TypeOK, AttemptTypes, jobRow
  <2> QED
    BY <1>1, <2>1, <2>2, HandlerTimeoutMoves, ProxySame DEF AllKept, StepKept, TargetStep
<1>2. ASSUME NEW k \in Urls, Take(w, k) PROVE AllKept
  <2>1. UNCHANGED <<mode, phase, unguarded, jobRow, records, timeouts, targets, proxyVars>>
    BY <1>2 DEF Take
  <2> QED
    BY <1>2, <2>1, TakeMoves, ProxySame, AttemptSame DEF AllKept, StepKept, TargetStep
<1> QED
  BY <1>1, <1>2

LEMMA AttemptStepKept ==
  ASSUME Typed, AttemptStep
  PROVE  AllKept
<1>1. CASE StartRun
  <2>1. AttemptTypes'
    BY <1>1 DEF StartRun, jobRow, Typed, TypeOK, AttemptTypes
  <2> QED
    BY <1>1, <2>1, StartRunKept DEF AllKept
<1>2. CASE RunEnds
  BY <1>2, FrontierSame, ProxySame
  DEF RunEnds, AllKept, StepKept, TargetStep, frontier, jobRow, Typed, TypeOK, AttemptTypes
<1>3. CASE CountResults
  <2>1. AttemptTypes'
    BY <1>3, CountType DEF CountResults, frontier, jobRow, Typed, TypeOK, AttemptTypes
  <2> QED
    BY <1>3, <2>1, FrontierSame, ProxySame DEF CountResults, AllKept, StepKept, TargetStep, frontier
<1>4. CASE Complete
  <2>1. AttemptTypes'
    BY <1>4 DEF Complete, frontier, Typed, TypeOK, AttemptTypes
  <2> QED
    BY <1>4, <2>1, FrontierSame, ProxySame DEF Complete, AllKept, StepKept, TargetStep, frontier
<1>5. CASE Close
  BY <1>5, CloseKept DEF AllKept
<1>6. ASSUME NEW u \in StartUrls, GuardStart(u) PROVE AllKept
  <2>1. HostOf[u.page] \in Hosts
    BY AttemptAssumption DEF AttemptAssumption, Pages
  <2>2. UNCHANGED <<mode, phase, jobRow, records, frontier, proxyVars>> /\ unguarded' = unguarded \ {u}
    BY <1>6 DEF GuardStart
  <2>3. StepKept
    BY <1>6, <2>1, <2>2, GuardingKept DEF GuardStart
  <2>4. AttemptTypes'
    BY <2>2 DEF frontier, jobRow, Typed, TypeOK, AttemptTypes
  <2> QED
    BY <2>2, <2>3, <2>4, ProxySame DEF AllKept
<1>7. ASSUME NEW u \in StartUrls, RefuseStart(u) PROVE AllKept
  BY <1>7, FrontierSame, ProxySame
  DEF RefuseStart, AllKept, StepKept, TargetStep, frontier, jobRow, Typed, TypeOK, AttemptTypes
<1> QED
  BY <1>1, <1>2, <1>3, <1>4, <1>5, <1>6, <1>7 DEF AttemptStep

LEMMA NextKept ==
  ASSUME Typed, GuardInv, PinsAgree, PlacesKnown, Next
  PROVE  AllKept
<1>1. CASE AttemptThrows
  <2>1. AttemptTypes' /\ UNCHANGED proxyVars
    BY <1>1 DEF AttemptThrows, jobRow, Typed, TypeOK, AttemptTypes
  <2> QED
    BY <1>1, <2>1, AttemptThrowsKept, ProxySame DEF AllKept
<1>2. CASE Cancel
  BY <1>2, FrontierSame, ProxySame
  DEF Cancel, AllKept, StepKept, TargetStep, frontier, Typed, TypeOK, AttemptTypes
<1>3. CASE ProxySteps
  BY <1>3, ProxyStepsKept, AttemptSame DEF ProxySteps, frontier, AllKept
<1>4. ASSUME NEW h \in Hosts, RouteGuard(h) PROVE AllKept
  BY <1>4, GuardingKept, AttemptSame, ProxySame DEF RouteGuard, frontier, AllKept
<1>5. ASSUME NEW c \in Conns, BrowserAsks(c), UNCHANGED <<mode, phase, unguarded, jobRow, records, frontier>>
      PROVE  AllKept
  BY <1>5, BrowserAsksKept, AttemptSame DEF frontier, AllKept
<1> QED
  BY <1>1, <1>2, <1>3, <1>4, <1>5, AttemptStepKept, HandlerStepKept, CrawlerStepKept DEF Next, Work

(* A navigation pins what the guard has on record, and nothing else. *)
PinsMove ==
  \A w \in Handlers, h \in Hosts :
    handler'[w].pinned[h] \in {{}, handler[w].pinned[h], fingerprint'[h]}

(* A handler stays where it is, or its step has it placed. *)
PlacesMove ==
  \A w \in Handlers :
    \/ handler'[w].pc = handler[w].pc /\ handler'[w].at = handler[w].at
    \/ Placed(handler'[w])

LEMMA NextPins ==
  ASSUME Typed, GuardInv, PinsAgree, PlacesKnown, Next
  PROVE  PinsMove /\ PlacesMove
<1> USE DEF PinsMove, PlacesMove
<1>1. handler \in [Handlers -> HandlerType]
  BY DEF Typed, TypeOK, HandlerTypes
<1>2. ASSUME NEW w \in Handlers, HandlerTimeout(w) PROVE PinsMove /\ PlacesMove
  BY <1>1, <1>2 DEF HandlerTimeout, HandlerType
<1>3. ASSUME NEW w \in Handlers, NEW k \in Urls, Take(w, k) PROVE PinsMove /\ PlacesMove
  <2>1. /\ [NoHandler EXCEPT !.pc = "guard", !.key = k].pinned = NoHandler.pinned
        /\ Placed([NoHandler EXCEPT !.pc = "guard", !.key = k])
    BY DEF NoHandler, Placed
  <2> QED
    BY <1>1, <1>3, <2>1, IdleType DEF Take
<1>4. CASE AttemptThrows
  <2>1. \A w \in Handlers : /\ handler'[w].pinned = handler[w].pinned
                            /\ handler'[w].pc = handler[w].pc /\ handler'[w].at = handler[w].at
    BY <1>1, <1>4 DEF AttemptThrows, HandlerType
  <2> QED
    BY <2>1
<1>5. CASE AttemptStep \/ Cancel \/ ProxySteps
  BY <1>5 DEF AttemptStep, StartRun, RunEnds, CountResults, Complete, Close, GuardStart, RefuseStart,
              Cancel, ProxySteps, frontier
<1>6. CASE (\E h \in Hosts : RouteGuard(h)) \/ UNCHANGED frontier
  BY <1>6 DEF RouteGuard, frontier
<1>7. ASSUME NEW w \in Handlers, HandlerStep(w) PROVE PinsMove /\ PlacesMove
  <2>1. PICK r : Goes(w, r)
    BY <1>7, HandlerGoes
  <2> QED
    BY <1>1, <2>1 DEF Goes
<1> QED
  BY <1>2, <1>3, <1>4, <1>5, <1>6, <1>7 DEF Next, Work

-----------------------------------------------------------------------------

(* An attempt's mode is its job's. *)
LEMMA ModeStays ==
  ASSUME Next
  PROVE  mode' = mode
BY DEF Next, Work, AttemptStep, StartRun, RunEnds, CountResults, Complete, Close, GuardStart,
       RefuseStart, HandlerStep, GuardPage, Connect, Load, Verify, Insert, FollowLinks,
       HandlerFails, HandlerStops, Take, AttemptThrows, Cancel, ProxySteps, HandlerTimeout, RouteGuard

(* What is proved of every reachable state so far.                             *)
GuardIInv == Typed /\ GuardInv /\ PinsAgree /\ PlacesKnown

LEMMA GuardStepKeeps ==
  ASSUME GuardIInv, [Next]_vars
  PROVE  /\ GuardIInv'
         /\ \A h \in Hosts : fingerprint[h] # {} => fingerprint'[h] = fingerprint[h]
<1>1. CASE Next
  <2>1. AllKept /\ PinsMove /\ PlacesMove /\ mode' = mode
    BY ModeStays, <1>1, NextKept, NextPins DEF GuardIInv
  <2>2. /\ TargetTypes' /\ GuardInv'
        /\ \A h \in Hosts : fingerprint[h] # {} => fingerprint'[h] = fingerprint[h]
    BY <2>1, TargetStepKeeps DEF AllKept, StepKept, GuardIInv, Typed, TypeOK
  <2>3. PinsAgree'
    BY <2>1, <2>2 DEF PinsMove, PinsAgree, GuardIInv
  <2>4. PlacesKnown'
    <3>1. \A w \in Handlers : handler[w].pc = "insert" => handler[w].at \in Hosts
      BY DEF GuardIInv, Typed, TypeOK, HandlerTypes
    <3> QED
      BY <2>1, <2>2, <3>1 DEF PlacesMove, Placed, PlacesKnown, GuardIInv
  <2> QED
    BY <2>1, <2>2, <2>3, <2>4 DEF AllKept, StepKept, GuardIInv, Typed, TypeOK
<1>2. CASE UNCHANGED vars
  <2>1. TypeOK' /\ FrontierInv'
    BY <1>2, FrontierSame, ProxySame, AttemptSame
    DEF vars, jobRow, frontier, GuardIInv, Typed, TypeOK, targets, TargetTypes
  <2>2. GuardInv' /\ PinsAgree' /\ PlacesKnown' /\ fingerprint' = fingerprint
    BY <1>2 DEF vars, frontier, GuardIInv, GuardInv, FollowedToLiteral, PinsAgree, PlacesKnown, targets
  <2> QED
    BY <2>1, <2>2 DEF GuardIInv, Typed
<1> QED
  BY <1>1, <1>2

LEMMA GuardInitially ==
  ASSUME Init
  PROVE  GuardIInv
<1>1. AttemptTypes
  <2>1. rows \subseteq Urls
    BY AttemptAssumption, StripUrls DEF Init, UrlHash, Canonical, AttemptAssumption
  <2> QED
    BY <2>1, CountType DEF Init, AttemptTypes
<1>2. FrontierInv /\ FrontierTypes
  BY DEF Init, FrontierInv, FrontierTypes, OwnKey, NoRequest, RequestType, RequestStates
<1>3. HandlerTypes /\ PinsAgree /\ PlacesKnown
  BY DEF Init, HandlerTypes, HandlerType, NoHandler, PinsAgree, PlacesKnown
<1>4. TargetTypes /\ GuardInv
  BY AttemptAssumption DEF Init, TargetInit, TargetTypes, GuardInv, AttemptAssumption
<1>5. ProxyTypes
  BY DEF Init, ProxyInit, ProxyTypes, ConnType, NoConn
<1> QED
  BY <1>1, <1>2, <1>3, <1>4, <1>5 DEF GuardIInv, Typed, TypeOK

(* The targets, the pins and the frontier keep the inductive invariant: every  *)
(* fingerprint is a checked answer of the host's servers, and pins agree.      *)
THEOREM GuardHolds == Spec => []GuardIInv
<1>1. GuardIInv /\ [Next]_vars => GuardIInv'
  BY GuardStepKeeps
<1> QED
  BY GuardInitially, <1>1, PTL DEF Spec

(* Every variable of an attempt keeps its type. *)
THEOREM AttemptTypesHold == Spec => []TypeOK
BY GuardHolds, PTL DEF GuardIInv, Typed

(* Whatever a server answers, in whatever order the lookups return, every      *)
(* connection of an attempt goes to one checked set of addresses per host, but *)
(* for that of an http redirect to a literal, for which no lookup is called;   *)
(* and no page is inserted that did not come from such a set.                  *)
THEOREM ConnectsToOneAddressSet == Spec => []OneAddressSet
<1>1. GuardIInv => OneAddressSet
  <2> SUFFICES ASSUME GuardIInv PROVE OneAddressSet
    OBVIOUS
  <2>1. \A h \in Hosts : dialled[h] # {} => ConnectedAsChecked(h) \/ FollowedToLiteral(h)
    BY DEF GuardIInv, GuardInv, ConnectedAsChecked
  <2>2. ASSUME NEW h \in Hosts, fingerprint[h] # {} PROVE ConnectedAsChecked(h)
    BY <2>2 DEF GuardIInv, GuardInv, ConnectedAsChecked, FollowedToLiteral
  <2>3. \A w \in Handlers : handler[w].pc = "insert" =>
           handler[w].at \in Hosts /\ fingerprint[handler[w].at] # {}
    BY DEF GuardIInv, PlacesKnown, Typed, TypeOK, HandlerTypes
  <2> QED
    BY <2>1, <2>2, <2>3 DEF OneAddressSet
<1> QED
  BY <1>1, GuardHolds, PTL

(* The first fingerprint of a host is the one of the whole attempt.            *)
THEOREM FirstFingerprintStands == Spec => FingerprintStands
<1>1. GuardIInv /\ [Next]_vars =>
        [\A h \in Hosts : fingerprint[h] # {} => fingerprint'[h] = fingerprint[h]]_vars
  BY GuardStepKeeps
<1> QED
  BY <1>1, GuardHolds, PTL DEF Spec, FingerprintStands

(* A host whose servers know one set of addresses is never taken for one that  *)
(* rebinds, whatever the order of its records.                                 *)
THEOREM SteadyHostIsServed == Spec => []NoFalseAlarm
<1>1. GuardIInv => NoFalseAlarm
  <2> SUFFICES ASSUME GuardIInv, NEW h \in Hosts, Cardinality(dns[h]) = 1, NEW answer \in Answers(h)
               PROVE  Matches(h, answer)
    BY DEF NoFalseAlarm
  <2>1. IsFiniteSet(dns[h])
    <3>1. IsFiniteSet(SUBSET Addresses)
      BY FS_SUBSET, TargetAssumption DEF TargetAssumption
    <3>2. dns[h] \in SUBSET (SUBSET Addresses)
      BY DEF GuardIInv, Typed, TypeOK, TargetTypes
    <3> QED
      BY <3>1, <3>2, FS_Subset
  <2>2. PICK S : dns[h] = {S}
    BY <2>1, FS_Singleton
  <2> QED
    BY <2>2, AnswerSet DEF GuardIInv, GuardInv, Matches, Fingerprint
<1> QED
  BY <1>1, GuardHolds, PTL

-----------------------------------------------------------------------------
(* The counters.  What a handler has read before its insert is behind the rows *)
(* as records is.                                                              *)

CountInv ==
  /\ records <= Cardinality(rows)
  /\ \A w \in Handlers : handler[w].read <= Cardinality(rows)

(* The rows only grow, by the one row of an insert.                            *)
LEMMA InsertCounts ==
  ASSUME Typed, CountInv, NEW w \in Handlers, Insert(w)
  PROVE  /\ Cardinality(rows) <= Cardinality(rows')
         /\ records' <= Cardinality(rows')
<1>1. IsFiniteSet(rows) /\ Cardinality(rows) \in Nat
  BY CountType DEF Typed, TypeOK, AttemptTypes
<1>2. handler[w].read \in Nat /\ handler[w].read <= Cardinality(rows)
  BY DEF Typed, TypeOK, HandlerTypes, HandlerType, CountInv
<1>3. CASE Inserts(w)
  <2>1. rows' = rows \cup {Hash(w)} /\ Hash(w) \notin rows /\ records' = handler[w].read + 1
    BY <1>3 DEF Insert, Inserts
  <2>2. Cardinality(rows') = Cardinality(rows) + 1
    BY <1>1, <2>1, FS_AddElement
  <2> QED
    BY <1>1, <1>2, <2>1, <2>2
<1>4. CASE ~Inserts(w)
  <2>1. rows' = rows /\ records' = handler[w].read
    BY <1>2, <1>4 DEF Insert
  <2> QED
    BY <1>1, <1>2, <2>1
<1> QED
  BY <1>3, <1>4

LEMMA CountStepKeeps ==
  ASSUME GuardIInv, CountInv, [Next]_vars
  PROVE  CountInv'
<1>1. /\ Cardinality(rows) \in Nat /\ records \in Nat
      /\ \A w \in Handlers : handler[w] \in HandlerType /\ handler[w].read \in Nat
      /\ handler \in [Handlers -> HandlerType]
  BY CountType DEF GuardIInv, Typed, TypeOK, AttemptTypes, HandlerTypes, HandlerType
<1>2. ASSUME NEW w \in Handlers, HandlerStep(w) PROVE CountInv'
  <2>1. PICK r : Goes(w, r)
    BY <1>2, HandlerGoes DEF GuardIInv
  <2>2. /\ Cardinality(rows) <= Cardinality(rows') /\ records' <= Cardinality(rows')
        /\ Cardinality(rows') \in Nat
    <3>1. CASE Insert(w)
      <4>1. rows' \subseteq Urls
        BY <1>2, HandlerStepKept DEF GuardIInv, AllKept, AttemptTypes
      <4>2. Cardinality(rows') \in Nat
        <5>1. IsFiniteSet(rows')
          BY <4>1, FS_Subset, AttemptAssumption DEF AttemptAssumption
        <5> QED
          BY <5>1, FS_CardinalityType
      <4> QED
        BY <3>1, <4>2, InsertCounts DEF GuardIInv
    <3>2. CASE UNCHANGED <<rows, records>>
      BY <1>1, <3>2 DEF CountInv
    <3> QED
      BY <1>2, <3>1, <3>2, HandlerLeaves DEF GuardIInv
  <2>3. \A x \in Handlers : handler'[x].read \in {0, records, handler[w].read, handler[x].read}
    BY <1>1, <2>1 DEF Goes
  <2> QED
    BY <1>1, <2>2, <2>3 DEF CountInv
<1>3. ASSUME UNCHANGED rows, records' = records \/ records' = Cardinality(rows),
             \A w \in Handlers : handler'[w].read \in {0, handler[w].read}
      PROVE  CountInv'
  BY <1>1, <1>3 DEF CountInv
<1>4. ASSUME NEW w \in Handlers, HandlerTimeout(w) PROVE CountInv'
  <2>1. \A x \in Handlers : handler'[x].read = handler[x].read
    BY <1>1, <1>4 DEF HandlerTimeout, HandlerType
  <2> QED
    BY <1>3, <1>4, <2>1 DEF HandlerTimeout, jobRow
<1>5. ASSUME NEW w \in Handlers, NEW k \in Urls, Take(w, k) PROVE CountInv'
  <2>1. [NoHandler EXCEPT !.pc = "guard", !.key = k].read = 0
    BY DEF NoHandler
  <2>2. \A x \in Handlers : handler'[x].read \in {0, handler[x].read}
    BY <1>1, <1>5, <2>1 DEF Take
  <2> QED
    BY <1>3, <1>5, <2>2 DEF Take, jobRow
<1>6. CASE AttemptThrows
  <2>1. \A x \in Handlers : handler'[x].read = handler[x].read
    BY <1>1, <1>6 DEF AttemptThrows, HandlerType
  <2> QED
    BY <1>3, <1>6, <2>1 DEF AttemptThrows, jobRow
<1>7. CASE AttemptStep
  <2>1. UNCHANGED <<rows, handler>> /\ (records' = records \/ records' = Cardinality(rows))
    BY <1>7 DEF AttemptStep, StartRun, RunEnds, CountResults, Complete, Close, GuardStart,
                RefuseStart, frontier, jobRow
  <2> QED
    BY <1>3, <2>1
<1>8. CASE UNCHANGED <<rows, records, handler>>
  BY <1>3, <1>8
<1>9. CASE Cancel \/ ProxySteps \/ (\E h \in Hosts : RouteGuard(h))
  BY <1>8, <1>9 DEF Cancel, ProxySteps, RouteGuard, frontier, jobRow
<1> QED
  BY <1>2, <1>4, <1>5, <1>6, <1>7, <1>8, <1>9 DEF Next, Work, vars, frontier, jobRow

(* Handlers that run at the same time may lose each other's records, but the   *)
(* counter never exceeds the rows, for any number of handlers and retries.     *)
THEOREM RecordsAreBehindRows == Spec => []RecordsNeverAhead
<1>1. Init => CountInv
  <2>1. Init => Cardinality(rows) \in Nat
    BY GuardInitially, CountType DEF GuardIInv, Typed, TypeOK, AttemptTypes
  <2> QED
    BY <2>1 DEF Init, CountInv, NoHandler
<1>2. CountInv /\ GuardIInv /\ GuardIInv' /\ [Next]_vars => CountInv'
  BY CountStepKeeps
<1>3. CountInv => RecordsNeverAhead
  BY DEF CountInv, RecordsNeverAhead
<1> QED
  BY <1>1, <1>2, <1>3, GuardHolds, PTL DEF Spec

-----------------------------------------------------------------------------
(* The end of an attempt: who is still at work when the records are counted    *)
(* and stored.                                                                 *)

Quiet == \A w \in Handlers : handler[w].pc = "idle"

Settled ==
  /\ phase # "run" => \A w \in Handlers : handler[w].pc # "idle" => handler[w].zombie
  /\ \A w \in Handlers : handler[w].zombie => handler[w].pc # "idle"
  /\ stored # None => ~running /\ phase \in {"close", "over"}
  /\ timeouts = 0 /\ phase \in {"guard", "run", "count", "complete"} =>
       \A w \in Handlers : ~handler[w].zombie
  /\ timeouts = 0 /\ phase = "complete" => records = Cardinality(rows)
  /\ timeouts = 0 /\ stored # None => stored = Cardinality(rows) /\ Quiet

LEMMA HandlerSettles ==
  ASSUME GuardIInv, Settled, NEW w \in Handlers, HandlerStep(w)
  PROVE  Settled'
<1>1. /\ UNCHANGED <<mode, phase, running, stored, timeouts>>
      /\ handler[w].pc # "idle"
      /\ handler \in [Handlers -> HandlerType]
  BY HandlerLeaves DEF GuardIInv, Typed, TypeOK, HandlerTypes
<1>2. PICK r : Goes(w, r)
  BY HandlerGoes DEF GuardIInv
<1>3. /\ handler'[w] = r
      /\ \A x \in Handlers : x # w => handler'[x] = handler[x]
      /\ r.pc # "idle" => r.zombie = handler[w].zombie
      /\ r.pc = "idle" => ~r.zombie
  BY <1>1, <1>2 DEF Goes
<1>4. ~(timeouts = 0 /\ (phase = "complete" \/ stored # None))
  BY <1>1 DEF Settled, Quiet
<1> QED
  BY <1>1, <1>3, <1>4 DEF Settled

(* Steps of the crawler while it runs. *)
LEMMA CrawlerSettles ==
  ASSUME GuardIInv, Settled, NEW w \in Handlers,
         HandlerTimeout(w) \/ \E k \in Urls : Take(w, k)
  PROVE  Settled'
<1>1. /\ phase = "run" /\ UNCHANGED <<phase, running, stored, rows, records>>
      /\ handler \in [Handlers -> HandlerType] /\ timeouts \in Nat
  BY DEF HandlerTimeout, Take, jobRow, GuardIInv, Typed, TypeOK, HandlerTypes, AttemptTypes
<1>2. stored = None
  BY <1>1 DEF Settled
<1>3. CASE HandlerTimeout(w)
  <2>1. timeouts' = timeouts + 1 /\ handler' = [handler EXCEPT ![w].zombie = TRUE]
        /\ handler[w].pc # "idle"
    BY <1>3 DEF HandlerTimeout, Live
  <2>2. \A x \in Handlers : handler'[x].pc = handler[x].pc
                         /\ (handler'[x].zombie => handler[x].zombie \/ x = w)
    BY <1>1, <2>1 DEF HandlerType
  <2> QED
    BY <1>1, <1>2, <2>1, <2>2 DEF Settled
<1>4. ASSUME NEW k \in Urls, Take(w, k) PROVE Settled'
  <2> DEFINE r == [NoHandler EXCEPT !.pc = "guard", !.key = k]
  <2>1. r.pc = "guard" /\ ~r.zombie
    BY DEF NoHandler
  <2>2. timeouts' = timeouts /\ (handler' = handler \/ handler' = [handler EXCEPT ![w] = r])
    BY <1>4 DEF Take
  <2> HIDE DEF r
  <2>3. \A x \in Handlers : handler'[x] \in {handler[x], r}
    BY <1>1, <2>2
  <2> QED
    BY <1>1, <1>2, <2>1, <2>2, <2>3 DEF Settled
<1> QED
  BY <1>3, <1>4

LEMMA AttemptSettles ==
  ASSUME GuardIInv, Settled, AttemptStep
  PROVE  Settled'
<1>1. CASE StartRun
  <2>1. UNCHANGED <<running, stored, rows, records, handler, timeouts>> /\ phase = "guard" /\ phase' = "run"
    BY <1>1 DEF StartRun, jobRow
  <2> QED
    BY <2>1 DEF Settled
<1>2. CASE RunEnds
  <2>1. UNCHANGED <<running, stored, rows, records, handler, timeouts>> /\ phase = "run" /\ phase' = "count"
    BY <1>2 DEF RunEnds, jobRow, frontier
  <2>2. \A w \in Handlers : handler[w].pc # "idle" => handler[w].zombie
    BY <1>2 DEF RunEnds, Live
  <2> QED
    BY <2>1, <2>2 DEF Settled
<1>3. CASE CountResults
  <2>1. UNCHANGED <<running, stored, rows, handler, timeouts>> /\ phase = "count" /\ phase' = "complete"
        /\ records' = Cardinality(rows)
    BY <1>3 DEF CountResults, jobRow, frontier
  <2> QED
    BY <2>1 DEF Settled
<1>4. CASE Complete
  <2>1. /\ UNCHANGED <<rows, records, handler, timeouts>> /\ phase = "complete" /\ phase' = "close"
        /\ running' = FALSE /\ stored' = IF running THEN records ELSE stored
    BY <1>4 DEF Complete, frontier
  <2>2. timeouts = 0 => Quiet /\ records = Cardinality(rows)
    BY <2>1 DEF Settled, Quiet
  <2>3. stored = None
    BY <2>1 DEF Settled
  <2> QED
    BY <2>1, <2>2, <2>3 DEF Settled, Quiet
<1>5. CASE Close
  <2>1. UNCHANGED <<running, stored, rows, records, handler, timeouts>>
        /\ phase = "close" /\ phase' \in {"close", "over"}
    BY <1>5 DEF Close, jobRow, frontier
  <2> QED
    BY <2>1 DEF Settled, Quiet
<1>6. ASSUME NEW u \in StartUrls, GuardStart(u) \/ RefuseStart(u) PROVE Settled'
  <2>1. UNCHANGED <<running, stored, rows, records, handler, timeouts>>
        /\ phase = "guard" /\ phase' \in {"guard", "close"}
    BY <1>6 DEF GuardStart, RefuseStart, jobRow, frontier
  <2> QED
    BY <2>1 DEF Settled, Quiet
<1> QED
  BY <1>1, <1>2, <1>3, <1>4, <1>5, <1>6 DEF AttemptStep

LEMMA SettledStepKeeps ==
  ASSUME GuardIInv, Settled, [Next]_vars
  PROVE  Settled'
<1>1. CASE AttemptThrows
  <2>1. UNCHANGED <<running, stored, rows, records, timeouts>> /\ phase' = "close" /\ phase # "close"
        /\ phase # "over"
    BY <1>1 DEF AttemptThrows, jobRow
  <2>2. \A w \in Handlers : /\ handler'[w].pc = handler[w].pc
                            /\ handler'[w].zombie <=> handler[w].pc # "idle"
    BY <1>1 DEF AttemptThrows, Live, Settled, GuardIInv, Typed, TypeOK, HandlerTypes, HandlerType
  <2> QED
    BY <2>1, <2>2 DEF Settled, Quiet
<1>2. CASE Cancel
  <2>1. UNCHANGED <<phase, stored, rows, records, handler, timeouts>> /\ ~running'
    BY <1>2 DEF Cancel, frontier
  <2> QED
    BY <2>1 DEF Settled, Quiet
<1>3. CASE UNCHANGED <<phase, running, stored, rows, records, handler, timeouts>>
  BY <1>3 DEF Settled, Quiet
<1>4. CASE ProxySteps \/ \E h \in Hosts : RouteGuard(h)
  BY <1>3, <1>4 DEF ProxySteps, RouteGuard, frontier, jobRow
<1> QED
  BY <1>1, <1>2, <1>3, <1>4, HandlerSettles, CrawlerSettles, AttemptSettles
  DEF Next, Work, vars, frontier, jobRow

(* However the handlers interleave, fail and retry, a job completes with the   *)
(* number of its rows if no handler has timed out.                             *)
THEOREM StoredRecordsAreRows == Spec => []LossIsRepaired
<1>1. Init => Settled
  BY DEF Init, Settled, NoHandler
<1>2. Settled /\ GuardIInv /\ [Next]_vars => Settled'
  BY SettledStepKeeps
<1>3. Settled => LossIsRepaired
  BY DEF Settled, LossIsRepaired
<1> QED
  BY <1>1, <1>2, <1>3, GuardHolds, PTL DEF Spec

-----------------------------------------------------------------------------
(* Handled pages have their rows, and their links are in the frontier.         *)

(* A handler that is past its insert has the row of its request. *)
RowsInv ==
  /\ HandledHasRow
  /\ running => \A w \in Handlers : handler[w].pc = "links" => Key(w) \in rows

(* The hash of a page is the key of its request: both take one slash off.      *)
LEMMA HashIsKey ==
  ASSUME Typed, NEW w \in Handlers, handler[w].pc # "idle"
  PROVE  Hash(w) = Key(w)
BY HandlerWithRequest DEF Hash, UrlHash, Canonical, UniqueKey, Typed, FrontierInv, OwnKey

(* Other steps take no request for handled and leave the rows. *)
LEMMA OthersKeepRows ==
  ASSUME RowsInv, UNCHANGED rows, running' => running, stored' # None => running \/ stored # None,
         \A k \in Urls : request'[k].state = "handled" => request[k].state = "handled",
         \A w \in Handlers : handler'[w].pc = "links" => handler[w].pc = "links" /\ handler'[w].key = Key(w)
  PROVE  RowsInv'
BY DEF RowsInv, HandledHasRow, Key

LEMMA HandlerKeepsRows ==
  ASSUME GuardIInv, Settled, RowsInv, NEW w \in Handlers, HandlerStep(w)
  PROVE  RowsInv'
<1>1. /\ UNCHANGED <<phase, running, stored>> /\ handler[w].pc # "idle"
      /\ handler \in [Handlers -> HandlerType]
  BY HandlerLeaves DEF GuardIInv, Typed, TypeOK, HandlerTypes
<1>2. PICK r : Goes(w, r)
  BY HandlerGoes DEF GuardIInv
<1>3. handler'[w] = r /\ \A x \in Handlers : x # w => handler'[x] = handler[x]
  BY <1>1, <1>2 DEF Goes
<1>4. rows \subseteq rows' /\ (Insert(w) /\ running => Key(w) \in rows')
  <2>1. CASE Insert(w)
    BY <1>1, <2>1, HashIsKey DEF Insert, Inserts, GuardIInv
  <2> QED
    BY <2>1, HandlerLeaves DEF GuardIInv
<1>5. ASSUME NEW k \in Urls, request'[k].state = "handled", running \/ stored # None
      PROVE  k \in rows'
  <2>1. CASE request[k].state = "handled"
    BY <1>4, <1>5, <2>1 DEF RowsInv, HandledHasRow
  <2>2. CASE FollowLinks(w) /\ k = Key(w) /\ ~handler[w].zombie
    <3>1. stored = None
      BY <1>1, <2>2 DEF Settled
    <3>2. handler[w].pc = "links"
      BY <2>2 DEF FollowLinks
    <3> QED
      BY <1>4, <1>5, <2>2, <3>1, <3>2 DEF RowsInv
  <2> QED
    BY <1>5, <2>1, <2>2, HandlerFinishes DEF GuardIInv
<1>6. ASSUME running, NEW x \in Handlers, handler'[x].pc = "links"
      PROVE  handler'[x].key \in rows'
  <2>1. CASE x = w
    BY <1>2, <1>3, <1>4, <1>6, <2>1 DEF Goes
  <2>2. CASE x # w
    BY <1>3, <1>4, <1>6, <2>2 DEF RowsInv, Key
  <2> QED
    BY <2>1, <2>2
<1> QED
  BY <1>1, <1>5, <1>6 DEF RowsInv, HandledHasRow, Key

LEMMA RowsStepKeeps ==
  ASSUME GuardIInv, Settled, RowsInv, [Next]_vars
  PROVE  RowsInv'
<1>1. handler \in [Handlers -> HandlerType] /\ request \in [Urls -> RequestType]
  BY DEF GuardIInv, Typed, TypeOK, HandlerTypes, FrontierTypes
<1>2. ASSUME NEW w \in Handlers, HandlerTimeout(w) PROVE RowsInv'
  <2>1. \A k \in Urls : request'[k].state = "handled" => request[k].state = "handled"
    BY <1>2, HandlerTimeoutMoves DEF GuardIInv
  <2>2. \A x \in Handlers : handler'[x].pc = handler[x].pc /\ handler'[x].key = Key(x)
    BY <1>1, <1>2 DEF HandlerTimeout, HandlerType, Key
  <2> QED
    BY <1>2, <2>1, <2>2, OthersKeepRows DEF HandlerTimeout, jobRow
<1>3. ASSUME NEW w \in Handlers, NEW k \in Urls, Take(w, k) PROVE RowsInv'
  <2> DEFINE r == [NoHandler EXCEPT !.pc = "guard", !.key = k]
  <2>1. \A u \in Urls : request'[u].state = "handled" => request[u].state = "handled"
    BY <1>3, TakeMoves DEF GuardIInv
  <2>2. r.pc = "guard"
    BY DEF NoHandler
  <2>3. handler' = handler \/ handler' = [handler EXCEPT ![w] = r]
    BY <1>3 DEF Take
  <2> HIDE DEF r
  <2>4. \A x \in Handlers : handler'[x] \in {handler[x], r}
    BY <1>1, <2>3
  <2>5. \A x \in Handlers : handler'[x].pc = "links" => handler[x].pc = "links" /\ handler'[x].key = Key(x)
    BY <2>2, <2>4 DEF Key
  <2> QED
    BY <1>3, <2>1, <2>5, OthersKeepRows DEF Take, jobRow
<1>4. CASE AttemptThrows
  <2>1. \A x \in Handlers : handler'[x].pc = handler[x].pc /\ handler'[x].key = Key(x)
    BY <1>1, <1>4 DEF AttemptThrows, HandlerType, Key
  <2> QED
    BY <1>4, <2>1, OthersKeepRows DEF AttemptThrows, jobRow
<1>5. CASE StartRun
  <2>1. \A k \in Urls : request'[k].state = "handled" => request[k].state = "handled"
    BY <1>5, StartRunKept DEF GuardIInv
  <2>2. UNCHANGED <<rows, running, stored, handler>>
    BY <1>5 DEF StartRun, jobRow
  <2> QED
    BY <2>1, <2>2, OthersKeepRows DEF Key
<1>6. ASSUME UNCHANGED <<rows, request, handler>>, running' => running,
             stored' # None => running \/ stored # None
      PROVE  RowsInv'
  BY <1>6, OthersKeepRows DEF Key
<1>7. ASSUME RunEnds \/ CountResults \/ Complete \/ Close \/ Cancel \/ ProxySteps
               \/ (\E u \in StartUrls : GuardStart(u) \/ RefuseStart(u))
               \/ (\E h \in Hosts : RouteGuard(h))
      PROVE  RowsInv'
  <2>1. UNCHANGED <<rows, request, handler>> /\ (running' => running)
        /\ (stored' # None => running \/ stored # None)
    BY <1>7 DEF RunEnds, CountResults, Complete, Close, Cancel, ProxySteps, GuardStart, RefuseStart,
                RouteGuard, frontier, jobRow
  <2> QED
    BY <1>6, <2>1
<1>8. CASE UNCHANGED <<jobRow, frontier>>
  BY <1>6, <1>8 DEF jobRow, frontier
<1> QED
  BY <1>2, <1>3, <1>4, <1>5, <1>7, <1>8, HandlerKeepsRows
  DEF Next, Work, AttemptStep, vars, frontier, jobRow

(* A page the crawler counts as handled has its row, whatever was lost, timed  *)
(* out or tried again before.                                                  *)
THEOREM HandledPagesHaveRows == Spec => []HandledHasRow
<1>1. Init => Settled /\ RowsInv
  BY DEF Init, Settled, RowsInv, HandledHasRow, NoHandler, NoRequest
<1>2. Settled /\ RowsInv /\ GuardIInv /\ [Next]_vars => Settled' /\ RowsInv'
  BY SettledStepKeeps, RowsStepKeeps
<1>3. RowsInv => HandledHasRow
  BY DEF RowsInv
<1> QED
  BY <1>1, <1>2, <1>3, GuardHolds, PTL DEF Spec

(* What a page links to, and the frontier without a request for it. *)
Linked(u) == {UniqueKey(v) : v \in Discovered(u.page)}
Covers(k) ==
  Linked(request[k].url) \subseteq Known \/ Cardinality(Known \cup Linked(request[k].url)) > MaxPages[mode]

LEMMA LinkedUrls ==
  ASSUME NEW u \in Urls
  PROVE  Linked(u) \subseteq Urls
BY DiscoveredUrls, StripUrls DEF Linked, UniqueKey

(* The frontier only grows, and what it covers it goes on covering.            *)
LEMMA CoverStays ==
  ASSUME Typed, Moved(request'), mode' = mode, NEW k \in Urls, request[k].state # "absent", Covers(k)
  PROVE  Covers(k)'
<1> DEFINE linked == Linked(request[k].url)
<1>1. request[k].url \in Urls /\ request'[k].url = request[k].url
  BY DEF Typed, FrontierInv, OwnKey, Moved
<1>2. Known \subseteq Known' /\ Known' \subseteq Urls
  BY DEF Known, Moved
<1>3. Linked(request'[k].url) = linked /\ linked \subseteq Urls
  BY <1>1, LinkedUrls
<1>4. CASE linked \subseteq Known
  BY <1>2, <1>3, <1>4 DEF Covers
<1>5. CASE Cardinality(Known \cup linked) > MaxPages[mode]
  <2>1. IsFiniteSet(Known' \cup linked) /\ IsFiniteSet(Known \cup linked)
    BY <1>2, <1>3, FS_Subset, AttemptAssumption DEF AttemptAssumption
  <2>2. Cardinality(Known \cup linked) <= Cardinality(Known' \cup linked)
    <3>1. (Known \cup linked) \in SUBSET (Known' \cup linked)
      BY <1>2
    <3> QED
      BY <2>1, <3>1, FS_Subset
  <2>3. Cardinality(Known \cup linked) \in Nat /\ Cardinality(Known' \cup linked) \in Nat
    BY <2>1, FS_CardinalityType
  <2>4. MaxPages[mode] \in Nat
    BY AttemptAssumption DEF AttemptAssumption, Typed, TypeOK, AttemptTypes
  <2> QED
    BY <1>3, <1>5, <2>2, <2>3, <2>4 DEF Covers
<1> QED
  BY <1>4, <1>5 DEF Covers

(* A handler that returns has covered what its page links to.                  *)
LEMMA ReturnCovers ==
  ASSUME Typed, NEW w \in Handlers, FollowLinks(w), NEW k \in Urls, k = Key(w),
         request[k].depth < MaxDepth[mode]
  PROVE  Covers(k)'
<1> DEFINE u == request[k].url
           found == Discovered(u.page)
<1>1. request[k].state # "absent" /\ u \in Urls /\ mode' = mode
      /\ request[k].depth + 1 \in Nat /\ MaxPages[mode] \in Nat
  BY HandlerWithRequest, AttemptAssumption
  DEF FollowLinks, Typed, TypeOK, FrontierTypes, RequestType, AttemptTypes, AttemptAssumption
<1>2. PICK next \in Follows(w) :
        /\ Moved(next)
        /\ request' = IF handler[w].zombie THEN next ELSE [next EXCEPT ![k].state = "handled"]
  BY FollowLinksMoves
<1>3. CASE Cardinality(Known \cup Linked(u)) <= MaxPages[mode]
  <2>1. next \in Added(found, request[k].depth + 1)
    BY <1>2, <1>3, Zenon DEF Follows, Linked, Page
  <2>2. \A v \in found : next[UniqueKey(v)].state # "absent" /\ UniqueKey(v) \in Urls
    BY <1>1, <2>1, AddedMoved, DiscoveredUrls, StripUrls DEF Typed, UniqueKey
  <2>3. \A x \in Urls : next[x].state # "absent" => request'[x].state # "absent"
    BY <1>2 DEF Moved, RequestType
  <2>4. Linked(u) \subseteq Known'
    BY <2>2, <2>3 DEF Linked, Known
  <2>5. request'[k].url = u
    BY <1>1, FollowLinksMoves DEF Moved
  <2> QED
    BY <2>4, <2>5 DEF Covers
<1>4. CASE ~(Cardinality(Known \cup Linked(u)) <= MaxPages[mode])
  <2>1. Cardinality(Known \cup Linked(u)) \in Nat
    <3>1. Known \cup Linked(u) \subseteq Urls
      BY <1>1, LinkedUrls DEF Known
    <3>2. IsFiniteSet(Known \cup Linked(u))
      BY <3>1, FS_Subset, AttemptAssumption DEF AttemptAssumption
    <3> QED
      BY <3>2, FS_CardinalityType
  <2>2. Covers(k)
    BY <1>1, <1>4, <2>1 DEF Covers
  <2> QED
    BY <1>1, <2>2, CoverStays, FollowLinksMoves
<1> QED
  BY <1>3, <1>4

(* Every step moves the frontier on; only a handler that returns makes a       *)
(* request handled.                                                            *)
LEMMA FrontierMoves ==
  ASSUME GuardIInv, [Next]_vars
  PROVE  /\ Moved(request') /\ mode' = mode
         /\ \A k \in Urls : request'[k].state = "handled" /\ request[k].state # "handled" =>
              \E w \in Handlers : FollowLinks(w) /\ k = Key(w)
<1> DEFINE Ends == /\ Moved(request') /\ mode' = mode
                   /\ \A k \in Urls : request'[k].state = "handled" /\ request[k].state # "handled" =>
                        \E w \in Handlers : FollowLinks(w) /\ k = Key(w)
<1>1. ASSUME NEW w \in Handlers, HandlerStep(w) PROVE Ends
  BY <1>1, HandlerFinishes, HandlerLeaves DEF GuardIInv
<1>2. ASSUME NEW w \in Handlers, HandlerTimeout(w) PROVE Ends
  BY <1>2, HandlerTimeoutMoves DEF GuardIInv, HandlerTimeout
<1>3. ASSUME NEW w \in Handlers, NEW k \in Urls, Take(w, k) PROVE Ends
  BY <1>3, TakeMoves DEF GuardIInv, Take
<1>4. CASE StartRun
  <2>1. mode' = mode
    BY <1>4 DEF StartRun
  <2> QED
    BY <1>4, <2>1, StartRunKept DEF GuardIInv
<1>5. CASE UNCHANGED <<mode, request>>
  BY <1>5, SameMoved DEF GuardIInv, Typed
<1>6. CASE RunEnds \/ CountResults \/ Complete \/ Close \/ Cancel \/ ProxySteps \/ AttemptThrows
             \/ (\E u \in StartUrls : GuardStart(u) \/ RefuseStart(u))
             \/ (\E h \in Hosts : RouteGuard(h))
  BY <1>5, <1>6 DEF RunEnds, CountResults, Complete, Close, Cancel, ProxySteps, AttemptThrows,
                    GuardStart, RefuseStart, RouteGuard, frontier
<1> QED
  BY <1>1, <1>2, <1>3, <1>4, <1>5, <1>6 DEF Next, Work, AttemptStep, vars, frontier

(* No link of a handled page is lost, however often the page was tried and     *)
(* whatever failed between its insert and its links.                           *)
THEOREM NoLinkIsLost == Spec => []CrawlIsClosed
<1> DEFINE Closed == \A k \in Urls : request[k].state = "handled" /\ request[k].depth < MaxDepth[mode] => Covers(k)
<1>1. Init => Closed
  BY DEF Init, NoRequest
<1>2. Closed /\ GuardIInv /\ [Next]_vars => Closed'
  <2> SUFFICES ASSUME Closed, GuardIInv, [Next]_vars, NEW k \in Urls,
                      request'[k].state = "handled", request'[k].depth < MaxDepth[mode']
               PROVE  Covers(k)'
    OBVIOUS
  <2>1. CASE request[k].state = "handled"
    <3>1. /\ Moved(request') /\ mode' = mode
          /\ request[k].state # "absent" /\ request'[k].depth = request[k].depth
      BY <2>1, FrontierMoves DEF Moved
    <3>2. Covers(k)
      BY <2>1, <3>1
    <3> HIDE DEF Closed
    <3> QED
      BY <3>1, <3>2, CoverStays DEF GuardIInv
  <2>2. CASE request[k].state # "handled"
    <3>1. PICK w \in Handlers : FollowLinks(w) /\ k = Key(w)
      BY <2>2, FrontierMoves
    <3>2. request[k].depth < MaxDepth[mode]
      <4>1. request[k].state # "absent" /\ Moved(request') /\ mode' = mode
        BY <3>1, FrontierMoves, HandlerWithRequest DEF FollowLinks, GuardIInv
      <4> QED
        BY <4>1 DEF Moved
    <3> HIDE DEF Closed
    <3> QED
      BY <3>1, <3>2, ReturnCovers DEF GuardIInv
  <2> QED
    BY <2>1, <2>2
<1>3. Closed => CrawlIsClosed
  BY Zenon DEF CrawlIsClosed, Covers, Linked
<1> QED
  BY <1>1, <1>2, <1>3, GuardHolds, PTL DEF Spec

=============================================================================

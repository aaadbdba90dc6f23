---------------------------- MODULE PinnedTargets ----------------------------
(* The target guard of one crawl attempt (delivery/security.ts): the first     *)
(* answer for a host is its fingerprint, every later one must be the same set  *)
(* of addresses, and a navigation connects to what its lookups have pinned.    *)
(* Names, ports and families are data: a host is a model value.                *)
EXTENDS FiniteSets, Sequences, SequencesExt

CONSTANTS
  Hosts,
  Literals,    \* hosts that are an address themselves (net.isIP)
  Denied,      \* hosts validateCrawlHostname refuses
  Addresses,
  Prohibited,  \* isProhibitedAddress
  IPv4         \* the addresses of family 4

ASSUME TargetAssumption ==
  /\ Denied \subseteq Hosts
  /\ Literals \subseteq Hosts
  /\ Prohibited \subseteq Addresses
  /\ IPv4 \subseteq Addresses
  /\ IsFiniteSet(Addresses)

VARIABLES
  dns,          \* per host, the address sets its servers may answer; fixed, a
                \* literal's is its address
  fingerprint,  \* the map of createCrawlTargetResolver, {} where it has nothing
  dialled       \* history: the addresses a connection may have gone to, per host

targets == <<dns, fingerprint, dialled>>

(* What dns.lookup may return: the records of a set in any order; for a        *)
(* literal, the address itself.                                                *)
Answers(h) == {answer \in UNION {[1..n -> Addresses] : n \in 1..Cardinality(Addresses)} :
                 \E S \in dns[h] : ToSet(answer) = S /\ Len(answer) = Cardinality(S)}

(* A bug: the records are not sorted before they are joined. *)
InAnswerOrder(answer) == {<<i, answer[i]>> : i \in DOMAIN answer}

(* Unique addresses, sorted and joined: two answers have the same fingerprint  *)
(* exactly when they name the same set.                                        *)
Fingerprint(answer) == ToSet(answer)

Refuses(h, answer) == h \in Denied \/ ToSet(answer) \cap Prohibited # {}

(* validateCrawlRedirectTarget: a redirect is followed by its name, that of a  *)
(* literal included; the addresses are left to the lookup.                     *)
Redirectable == Hosts \ Denied

(* A bug: an answer that differs replaces the fingerprint. *)
MatchesAnything(h, answer) == TRUE
Matches(h, answer) == fingerprint[h] \in {{}, Fingerprint(answer)}

(* One call of the resolver, from the answer on; nothing is awaited between    *)
(* the look at the fingerprint and its setting.  A call that throws (any other *)
(* answer, an empty one, a failed lookup) changes nothing.                     *)
Approve(h, answer) ==
  /\ ~Refuses(h, answer)
  /\ Matches(h, answer)
  /\ fingerprint' = [fingerprint EXCEPT ![h] = Fingerprint(answer)]
  /\ dns' = dns

(* selectedAddress of the proxy: one of family 4 if there is any; a lookup     *)
(* hands out all it has pinned, or one that the caller's family decides on.    *)
Selected(S) == IF S \cap IPv4 # {} THEN S \cap IPv4 ELSE S

(* A connection is made to one of these addresses. *)
Dial(h, S) == dialled' = [dialled EXCEPT ![h] = @ \cup S]
NoDial == dialled' = dialled

TargetInit(zones) ==
  /\ dns \in zones
  /\ fingerprint = [h \in Hosts |-> {}]
  /\ dialled = [h \in Hosts |-> {}]

TargetTypes ==
  /\ dns \in [Hosts -> SUBSET (SUBSET Addresses)]
  /\ fingerprint \in [Hosts -> SUBSET Addresses]
  /\ dialled \in [Hosts -> SUBSET Addresses]

-----------------------------------------------------------------------------

(* A host that always answers the same records, in whatever order, is never    *)
(* taken for one that rebinds.                                                 *)
NoFalseAlarm ==
  \A h \in Hosts : Cardinality(dns[h]) = 1 => \A answer \in Answers(h) : Matches(h, answer)

=============================================================================

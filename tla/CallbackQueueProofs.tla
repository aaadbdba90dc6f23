-------------------------- MODULE CallbackQueueProofs --------------------------
(* Proofs about CallbackQueue: types, what a successful announcer leaves,      *)
(* that the queue implements CallbackDelivery, and how often a receiver sees a *)
(* callback.                                                                   *)
EXTENDS CallbackQueue, TLAPS, FiniteSetTheorems

(* What an announcer has passed is in the queue and, if it was dead when the   *)
(* announcer began, has been revived.                                          *)
PassedOver ==
  \A a \in Announcers : \A k \in DOMAIN Plan : k < announcer[a].next =>
    entry[Plan[k]].state # "none" /\ Plan[k] \notin dead[a]

(* An announcer that has not begun has passed nothing, one that has finished   *)
(* has passed all, and what it is about to add was not dead.                   *)
Positions ==
  \A a \in Announcers :
    /\ announcer[a].pc = "idle" => announcer[a].next = 1
    /\ announcer[a].pc = "finished" => announcer[a].next \notin DOMAIN Plan
    /\ announcer[a].pc = "add" => Id(a) \notin dead[a]

(* What is dead stays dead until it is revived. *)
DeadStays == \A a \in Announcers : dead[a] \subseteq Dead

(* A slot that was told of an acceptance was told the truth. *)
VerdictsHold ==
  \A s \in Slots : delivery[s].verdict = "accepts" => delivery[s].id \in accepted

QueueIInv ==
  /\ TypeOK
  /\ PassedOver
  /\ Positions
  /\ DeadStays
  /\ VerdictsHold

(* The plan is a sequence of distinct callbacks and holds all of them. *)
LEMMA PlanFacts ==
  /\ DOMAIN Plan = 1..Len(Plan) /\ Len(Plan) \in Nat
  /\ \A k \in DOMAIN Plan : Plan[k] \in Callbacks
  /\ \A id \in Callbacks : \E k \in DOMAIN Plan : Plan[k] = id
  BY CallbackAssumption DEF CallbackAssumption, Callbacks, ToSet

-----------------------------------------------------------------------------
(* What the steps do to the entries.                                           *)

(* Replacing one entry by one that is in the queue, and free unless active.    *)
EntryTo(id, e) ==
  /\ e \in EntryType
  /\ e.state # "none"
  /\ e.owner # None => e.state = "active"
  /\ entry' = [entry EXCEPT ![id] = e]

(* Nothing leaves the queue, and what is there keeps its type. *)
QueueKept ==
  /\ entry' \in [Callbacks -> EntryType]
  /\ \A id \in Callbacks : entry'[id].owner # None => entry'[id].state = "active"
  /\ \A id \in Callbacks : entry[id].state # "none" => entry'[id].state # "none"

(* One entry replaced keeps the queue and leaves every other entry. *)
LEMMA OneEntry ==
  ASSUME TypeOK, NEW id \in Callbacks, NEW e, EntryTo(id, e)
  PROVE  QueueKept /\ \A x \in Callbacks : entry'[x] = IF x = id THEN e ELSE entry[x]
  BY DEF EntryTo, QueueKept, TypeOK

(* No entry replaced keeps the queue. *)
LEMMA NoEntryMoves ==
  ASSUME TypeOK, entry' = entry PROVE QueueKept
  BY DEF QueueKept, TypeOK

(* A delivery that ended: the slot is idle, and its entry, if the slot held it, *)
(* has moved on from "active".                                                  *)
Ended(s, states) ==
  /\ Leave(s)
  /\ \/ entry' = entry
     \/ \E e : /\ entry[delivery[s].id].state = "active"
               /\ e.state \in states
               /\ EntryTo(delivery[s].id, e)

(* deliverCallback returned. *)
LEMMA CompletesEnds ==
  ASSUME TypeOK, NEW s \in Slots, delivery[s].pc # "idle", Completes(s)
  PROVE  Ended(s, {"completed"})
  <1> DEFINE id == delivery[s].id
             e == [entry[id] EXCEPT !.state = "completed", !.owner = None]
  <1>1. id \in Callbacks /\ entry[id] \in EntryType
    BY DEF TypeOK
  <1>2. CASE ~Holds(s)
    BY <1>2 DEF Completes, Ended
  <1>3. CASE Holds(s)
    <2>1. entry[id].state = "active"
      BY <1>1, <1>3, CallbackAssumption DEF Holds, TypeOK, CallbackAssumption
    <2>2. e \in EntryType /\ e.state = "completed" /\ e.owner = None
      BY <1>1 DEF EntryType, EntryStates
    <2>3. entry' = [entry EXCEPT ![id] = e]
      BY <1>1, <1>3 DEF Completes, TypeOK
    <2> QED BY <2>1, <2>2, <2>3 DEF Ended, EntryTo, Completes
  <1> QED BY <1>2, <1>3

(* deliverCallback threw. *)
LEMMA ThrowsEnds ==
  ASSUME TypeOK, NEW s \in Slots, delivery[s].pc # "idle", Throws(s)
  PROVE  Ended(s, {"waiting", "failed"})
  <1> DEFINE id == delivery[s].id
             n == entry[id].made + 1
             To(state) == [entry[id] EXCEPT !.state = state, !.made = n, !.owner = None]
  <1>1. id \in Callbacks /\ entry[id] \in EntryType /\ n \in Nat
    BY DEF TypeOK, EntryType
  <1>2. CASE ~Holds(s)
    BY <1>2 DEF Throws, Ended
  <1>3. CASE Holds(s)
    <2>1. entry[id].state = "active"
      BY <1>1, <1>3, CallbackAssumption DEF Holds, TypeOK, CallbackAssumption
    <2>2. \/ entry' = [entry EXCEPT ![id] = To("waiting")]
          \/ entry' = [entry EXCEPT ![id] = To("failed")]
      BY <1>1, <1>3 DEF Throws, TypeOK
    <2>3. ASSUME NEW state \in {"waiting", "failed"}
          PROVE  To(state) \in EntryType /\ To(state).state = state /\ To(state).owner = None
      <3>1. PICK old \in EntryType, made \in Nat : old = entry[id] /\ made = n
        BY <1>1
      <3>2. To(state) = [old EXCEPT !.state = state, !.made = made, !.owner = None]
        BY <3>1
      <3>3. /\ [old EXCEPT !.state = state, !.made = made, !.owner = None] \in EntryType
            /\ [old EXCEPT !.state = state, !.made = made, !.owner = None].state = state
            /\ [old EXCEPT !.state = state, !.made = made, !.owner = None].owner = None
        BY DEF EntryType, EntryStates
      <3> HIDE DEF To
      <3> QED BY <3>2, <3>3
    <2> HIDE DEF To
    <2> QED BY <2>1, <2>2, <2>3 DEF Ended, EntryTo, Throws
  <1> QED BY <1>2, <1>3

(* The worker died. *)
LEMMA CrashEnds ==
  ASSUME TypeOK, NEW s \in Slots, WorkerCrash(s)
  PROVE  Ended(s, {"active"})
  <1> DEFINE id == delivery[s].id
             e == [entry[id] EXCEPT !.owner = None]
  <1>1. id \in Callbacks /\ entry[id] \in EntryType
    BY DEF TypeOK, WorkerCrash
  <1>2. CASE ~Holds(s)
    BY <1>2 DEF WorkerCrash, Ended
  <1>3. CASE Holds(s)
    <2>1. entry[id].state = "active"
      BY <1>1, <1>3, CallbackAssumption DEF Holds, TypeOK, CallbackAssumption
    <2>2. e \in EntryType /\ e.state = "active" /\ e.owner = None
      BY <1>1, <2>1 DEF EntryType, EntryStates
    <2>3. entry' = [entry EXCEPT ![id] = e]
      BY <1>1, <1>3 DEF WorkerCrash, TypeOK
    <2> QED BY <2>1, <2>2, <2>3 DEF Ended, EntryTo, WorkerCrash
  <1> QED BY <1>2, <1>3

(* A slot takes a waiting entry. *)
LEMMA TakeMoves ==
  ASSUME TypeOK, NEW s \in Slots, NEW id \in Callbacks, Take(s, id)
  PROVE  EntryTo(id, [entry[id] EXCEPT !.state = "active", !.owner = s])
  <1>1. entry[id] \in EntryType
    BY DEF TypeOK
  <1>2. entry' = [entry EXCEPT ![id] = [entry[id] EXCEPT !.state = "active", !.owner = s]]
    BY <1>1 DEF Take, TypeOK
  <1> QED BY <1>1, <1>2 DEF EntryTo, EntryType, EntryStates

(* A slot lost the lock of its active entry. *)
LEMMA LoseLockMoves ==
  ASSUME TypeOK, NEW s \in Slots, LoseLock(s)
  PROVE  \E e : /\ e.state = "active" /\ entry[delivery[s].id].state = "active"
                /\ EntryTo(delivery[s].id, e)
  <1> DEFINE id == delivery[s].id
             e == [entry[id] EXCEPT !.owner = None]
  <1>1. id \in Callbacks /\ entry[id] \in EntryType
    BY DEF TypeOK, LoseLock
  <1>2. entry[id].state = "active"
    BY <1>1, CallbackAssumption DEF LoseLock, Holds, TypeOK, CallbackAssumption
  <1>3. e \in EntryType /\ e.state = "active" /\ e.owner = None
    BY <1>1, <1>2 DEF EntryType, EntryStates
  <1>4. entry' = [entry EXCEPT ![id] = e]
    BY <1>1 DEF LoseLock, TypeOK
  <1> QED BY <1>2, <1>3, <1>4 DEF EntryTo

(* The stalled check moved an active entry on. *)
LEMMA RecoverMoves ==
  ASSUME TypeOK, NEW id \in Callbacks, RecoverStalled(id)
  PROVE  \E e : e.state \in {"waiting", "failed"} /\ EntryTo(id, e)
  <1>1. entry[id] \in EntryType /\ entry[id].owner = None
    BY DEF TypeOK, RecoverStalled
  <1>2. CASE entry[id].stalls = 0
    <2> DEFINE e == [entry[id] EXCEPT !.state = "waiting", !.stalls = 1]
    <2>1. e \in EntryType /\ e.state = "waiting" /\ e.owner = None
      BY <1>1 DEF EntryType, EntryStates
    <2>2. entry' = [entry EXCEPT ![id] = e]
      BY <1>1, <1>2 DEF RecoverStalled, TypeOK
    <2>3. EntryTo(id, e)
      BY <2>1, <2>2 DEF EntryTo
    <2> HIDE DEF e
    <2> QED BY <2>1, <2>3
  <1>3. CASE entry[id].stalls # 0
    <2> DEFINE e == [entry[id] EXCEPT !.state = "failed"]
    <2>1. e \in EntryType /\ e.state = "failed" /\ e.owner = None
      BY <1>1 DEF EntryType, EntryStates
    <2>2. entry' = [entry EXCEPT ![id] = e]
      BY <1>1, <1>3 DEF RecoverStalled, TypeOK
    <2>3. EntryTo(id, e)
      BY <2>1, <2>2 DEF EntryTo
    <2> HIDE DEF e
    <2> QED BY <2>1, <2>3
  <1> QED BY <1>2, <1>3

(* An announcer added an entry that was not there, or nothing. *)
LEMMA AddMoves ==
  ASSUME TypeOK, NEW id \in Callbacks, Adds(id)
  PROVE  /\ entry[id].state = "none" => EntryTo(id, FreshEntry)
         /\ entry[id].state # "none" => entry' = entry
  <1>1. FreshEntry \in EntryType /\ FreshEntry.state = "waiting" /\ FreshEntry.owner = None
    BY DEF FreshEntry, NoEntry, EntryType, EntryStates
  <1> QED BY <1>1 DEF Adds, EntryTo

(* An announcer revived a dead entry. *)
LEMMA ReviveMoves ==
  ASSUME TypeOK, NEW id \in Dead, Revives(id)
  PROVE  EntryTo(id, [entry[id] EXCEPT !.state = "waiting"])
  <1>1. id \in Callbacks /\ entry[id] \in EntryType /\ entry[id].state = "failed"
    BY DEF TypeOK, Dead
  <1>2. entry[id].owner = None
    BY <1>1 DEF TypeOK
  <1>3. entry' = [entry EXCEPT ![id] = [entry[id] EXCEPT !.state = "waiting"]]
    BY <1>1 DEF Revives, TypeOK
  <1> QED BY <1>1, <1>2, <1>3 DEF EntryTo, EntryType, EntryStates

-----------------------------------------------------------------------------
(* Invariance.                                                                 *)

(* Initially. *)
LEMMA QueueInit == Init => QueueIInv
  <1> SUFFICES ASSUME Init PROVE QueueIInv
    OBVIOUS
  <1>1. TypeOK
    BY CallbackAssumption DEF Init, TypeOK, CallbackAssumption, EntryType, EntryStates, AnnouncerType,
       DeliveryType, NoEntry, NoDelivery, Verdicts
  <1>2. PassedOver
    BY PlanFacts DEF Init, PassedOver
  <1>3. Positions /\ DeadStays /\ VerdictsHold
    BY DEF Init, Positions, DeadStays, VerdictsHold, NoDelivery
  <1> QED BY <1>1, <1>2, <1>3 DEF QueueIInv

(* Steps of deliveries and of the stalled check: announcers stay where they    *)
(* are, and nothing dead is touched.                                           *)
LEMMA DeliveryStep ==
  ASSUME QueueIInv, QueueKept, Dead \subseteq Dead', UNCHANGED <<announcer, dead>>,
         delivery' \in [Slots -> DeliveryType],
         \A s \in Slots : delivery'[s].pc # "idle" =>
           delivery'[s].id \in Callbacks /\ entry'[delivery'[s].id].state # "none",
         accepted' \subseteq Callbacks, VerdictsHold',
         allowance' \in [Callbacks -> Int], faults' \in 0..MaxFaults
  PROVE  QueueIInv'
  <1>1. TypeOK'
    BY DEF QueueIInv, TypeOK, QueueKept
  <1>2. PassedOver'
    BY PlanFacts DEF QueueIInv, PassedOver, QueueKept
  <1>3. Positions' /\ DeadStays'
    BY DEF QueueIInv, Positions, DeadStays, Id
  <1> QED BY <1>1, <1>2, <1>3 DEF QueueIInv

(* An entry that was not dead is replaced: what is dead stays dead. *)
LEMMA DeadKept ==
  ASSUME TypeOK, NEW id \in Callbacks, NEW e, EntryTo(id, e), entry[id].state # "failed"
  PROVE  Dead \subseteq Dead'
  BY OneEntry DEF Dead

(* A delivery that ended. *)
LEMMA EndedStep ==
  ASSUME QueueIInv, NEW s \in Slots, delivery[s].pc # "idle", NEW states, Ended(s, states),
         UNCHANGED <<announcer, accepted, allowance, dead>>, faults' \in 0..MaxFaults
  PROVE  QueueIInv'
  <1> USE DEF QueueIInv
  <1>1. delivery[s].id \in Callbacks
    BY DEF TypeOK
  <1>2. QueueKept /\ Dead \subseteq Dead'
    <2>1. CASE entry' = entry
      BY <2>1, NoEntryMoves DEF Dead
    <2>2. ASSUME NEW e, entry[delivery[s].id].state = "active", EntryTo(delivery[s].id, e)
          PROVE  QueueKept /\ Dead \subseteq Dead'
      BY <1>1, <2>2, OneEntry, DeadKept
    <2> QED BY <2>1, <2>2 DEF Ended
  <1>3. NoDelivery \in DeliveryType /\ NoDelivery.pc = "idle" /\ NoDelivery.verdict = "rejects"
    BY DEF NoDelivery, DeliveryType, Verdicts
  <1>4. /\ delivery' \in [Slots -> DeliveryType]
        /\ \A q \in Slots : delivery'[q] = IF q = s THEN NoDelivery ELSE delivery[q]
    BY <1>3 DEF Ended, Leave, TypeOK
  <1>5. VerdictsHold'
    BY <1>3, <1>4 DEF VerdictsHold
  <1>6. \A q \in Slots : delivery'[q].pc # "idle" =>
           delivery'[q].id \in Callbacks /\ entry'[delivery'[q].id].state # "none"
    BY <1>2, <1>3, <1>4 DEF TypeOK, QueueKept
  <1>7. accepted' \subseteq Callbacks /\ allowance' \in [Callbacks -> Int]
    BY DEF TypeOK
  <1> HIDE DEF QueueIInv
  <1> QED BY <1>2, <1>4, <1>5, <1>6, <1>7, DeliveryStep

(* A slot takes an entry. *)
LEMMA TakeStep ==
  ASSUME QueueIInv, NEW s \in Slots, NEW id \in Callbacks, Take(s, id)
  PROVE  QueueIInv'
  <1> USE DEF QueueIInv
  <1> DEFINE d == [NoDelivery EXCEPT !.pc = "connect", !.id = id]
  <1>1. QueueKept /\ Dead \subseteq Dead' /\ entry'[id].state # "none"
    <2>1. PICK e : EntryTo(id, e)
      BY TakeMoves
    <2>2. entry[id].state # "failed"
      BY DEF Take
    <2>3. e.state # "none"
      BY <2>1 DEF EntryTo
    <2> QED BY <2>1, <2>2, <2>3, OneEntry, DeadKept
  <1>2. d \in DeliveryType /\ d.id = id /\ d.verdict = "rejects"
    BY DEF NoDelivery, DeliveryType, Verdicts
  <1>3. /\ delivery' \in [Slots -> DeliveryType]
        /\ \A q \in Slots : delivery'[q] = IF q = s THEN d ELSE delivery[q]
    BY <1>2 DEF Take, TypeOK
  <1>4. VerdictsHold'
    <2> HIDE DEF d
    <2> QED BY <1>2, <1>3 DEF VerdictsHold, Take
  <1> HIDE DEF d
  <1>5. \A q \in Slots : delivery'[q].pc # "idle" =>
           delivery'[q].id \in Callbacks /\ entry'[delivery'[q].id].state # "none"
    BY <1>1, <1>2, <1>3 DEF TypeOK, QueueKept
  <1>6. /\ accepted' \subseteq Callbacks /\ allowance' \in [Callbacks -> Int]
        /\ UNCHANGED <<announcer, dead>> /\ faults' \in 0..MaxFaults
    BY DEF TypeOK, Take, history
  <1> HIDE DEF QueueIInv
  <1> QED BY <1>1, <1>3, <1>4, <1>5, <1>6, DeliveryStep

(* The request leaves. *)
LEMMA PostStep ==
  ASSUME QueueIInv, NEW s \in Slots, NEW verdict \in Verdicts, Post(s, verdict)
  PROVE  QueueIInv'
  <1> USE DEF QueueIInv
  <1> DEFINE d == [delivery[s] EXCEPT !.pc = "answer", !.verdict = verdict]
  <1>1. QueueKept /\ Dead \subseteq Dead' /\ entry' = entry
    BY NoEntryMoves DEF Post, Dead
  <1>2. d \in DeliveryType /\ d.id = delivery[s].id /\ d.verdict = verdict
    BY DEF TypeOK, DeliveryType
  <1>3. /\ delivery' \in [Slots -> DeliveryType]
        /\ \A q \in Slots : delivery'[q] = IF q = s THEN d ELSE delivery[q]
    BY <1>2 DEF Post, TypeOK
  <1>4. delivery[s].id \in Callbacks /\ entry[delivery[s].id].state # "none"
    BY DEF TypeOK, Post
  <1> HIDE DEF d
  <1>5. VerdictsHold'
    BY <1>2, <1>3 DEF VerdictsHold, Post
  <1>6. \A q \in Slots : delivery'[q].pc # "idle" =>
           delivery'[q].id \in Callbacks /\ entry'[delivery'[q].id].state # "none"
    BY <1>1, <1>2, <1>3, <1>4 DEF TypeOK
  <1>7. accepted' \subseteq Callbacks /\ allowance' \in [Callbacks -> Int]
    BY <1>4 DEF TypeOK, Post
  <1>8. UNCHANGED <<announcer, dead>> /\ faults' \in 0..MaxFaults
    BY DEF TypeOK, Post
  <1> HIDE DEF QueueIInv
  <1> QED BY <1>1, <1>3, <1>5, <1>6, <1>7, <1>8, DeliveryStep

(* A slot loses its lock, or an entry is found stalled. *)
LEMMA LockStep ==
  ASSUME QueueIInv, NEW id \in Callbacks, NEW e, EntryTo(id, e), entry[id].state = "active",
         UNCHANGED <<announcer, delivery, accepted, allowance, dead>>, faults' \in 0..MaxFaults
  PROVE  QueueIInv'
  <1> USE DEF QueueIInv
  <1>1. QueueKept /\ Dead \subseteq Dead'
    BY OneEntry, DeadKept
  <1>2. \A q \in Slots : delivery'[q].pc # "idle" =>
           delivery'[q].id \in Callbacks /\ entry'[delivery'[q].id].state # "none"
    BY <1>1 DEF TypeOK, QueueKept
  <1>3. /\ accepted' \subseteq Callbacks /\ allowance' \in [Callbacks -> Int] /\ VerdictsHold'
        /\ delivery' \in [Slots -> DeliveryType]
    BY DEF TypeOK, VerdictsHold
  <1> HIDE DEF QueueIInv
  <1> QED BY <1>1, <1>2, <1>3, DeliveryStep

-----------------------------------------------------------------------------
(* Steps of announcers.                                                        *)

(* An announcer moves on; the others stay where they are, the queue only gains. *)
LEMMA AnnouncerStep ==
  ASSUME QueueIInv, NEW a \in Announcers, NEW pc, NEW next \in Nat \ {0},
         announcer' = [announcer EXCEPT ![a] = [pc |-> pc, next |-> next]],
         [pc |-> pc, next |-> next] \in AnnouncerType,
         QueueKept, UNCHANGED <<delivery, accepted, faults>>, allowance' \in [Callbacks -> Int],
         dead' \in [Announcers -> SUBSET Callbacks], DeadStays',
         \A b \in Announcers \ {a} : dead'[b] \subseteq dead[b],
         pc \in {"add", "revive"} => next \in DOMAIN Plan,
         pc = "idle" => next = 1, pc = "finished" => next \notin DOMAIN Plan,
         pc = "add" => Plan[next] \notin dead'[a],
         \A k \in DOMAIN Plan : k < next => entry'[Plan[k]].state # "none" /\ Plan[k] \notin dead'[a]
  PROVE  QueueIInv'
  <1> USE DEF QueueIInv
  <1>1. \A b \in Announcers : announcer'[b] = IF b = a THEN [pc |-> pc, next |-> next] ELSE announcer[b]
    BY DEF TypeOK
  <1>2. TypeOK'
    <2>1. announcer' \in [Announcers -> AnnouncerType]
      BY DEF TypeOK
    <2>2. \A b \in Announcers : announcer'[b].pc \in {"add", "revive"} => announcer'[b].next \in DOMAIN Plan
      BY <1>1 DEF TypeOK
    <2>3. \A s \in Slots : delivery'[s].pc # "idle" =>
            delivery'[s].id \in Callbacks /\ entry'[delivery'[s].id].state # "none"
      BY DEF TypeOK, QueueKept
    <2> QED BY <2>1, <2>2, <2>3 DEF TypeOK, QueueKept
  <1>3. PassedOver'
    <2>1. ASSUME NEW b \in Announcers, b # a, NEW k \in DOMAIN Plan, k < announcer'[b].next
          PROVE  entry'[Plan[k]].state # "none" /\ Plan[k] \notin dead'[b]
      BY <1>1, <2>1, PlanFacts DEF PassedOver, QueueKept
    <2> QED BY <1>1, <2>1 DEF PassedOver
  <1>4. Positions'
    BY <1>1 DEF Positions, Id
  <1>5. VerdictsHold'
    BY DEF VerdictsHold
  <1> QED BY <1>2, <1>3, <1>4, <1>5

(* Going to another await keeps the position. *)
LEMMA GotoMoves ==
  ASSUME TypeOK, NEW a \in Announcers, NEW pc, Goto(a, pc)
  PROVE  /\ announcer[a].next \in Nat \ {0}
         /\ announcer' = [announcer EXCEPT ![a] = [pc |-> pc, next |-> announcer[a].next]]
  <1>1. announcer[a].next \in Nat \ {0}
    BY DEF TypeOK, AnnouncerType
  <1>2. announcer' = [announcer EXCEPT ![a] = [announcer[a] EXCEPT !.pc = pc]]
    BY DEF Goto
  <1>3. [announcer[a] EXCEPT !.pc = pc] = [pc |-> pc, next |-> announcer[a].next]
    BY DEF TypeOK, AnnouncerType
  <1> QED BY <1>1, <1>2, <1>3

(* Passing on goes to the next callback of the plan. *)
LEMMA PassOnMoves ==
  ASSUME TypeOK, NEW a \in Announcers, PassOn(a)
  PROVE  /\ announcer[a].next \in Nat \ {0} /\ announcer[a].next + 1 \in Nat \ {0}
         /\ announcer' = [announcer EXCEPT ![a] = [pc |-> "look", next |-> announcer[a].next + 1]]
  BY DEF TypeOK, PassOn, AnnouncerType

(* An announcer passes on from a callback that is in the queue and not, or no  *)
(* longer, one of those it found dead.                                         *)
LEMMA PassOnStep ==
  ASSUME QueueIInv, NEW a \in Announcers, announcer[a].next \in DOMAIN Plan, PassOn(a),
         QueueKept, UNCHANGED <<delivery, accepted, faults>>, allowance' \in [Callbacks -> Int],
         dead' \in [Announcers -> SUBSET Callbacks], DeadStays',
         \A b \in Announcers : dead'[b] \subseteq dead[b],
         entry'[Id(a)].state # "none", Id(a) \notin dead'[a]
  PROVE  QueueIInv'
  <1> DEFINE n == announcer[a].next
  <1>1. /\ n \in Nat \ {0} /\ n + 1 \in Nat \ {0}
        /\ announcer' = [announcer EXCEPT ![a] = [pc |-> "look", next |-> n + 1]]
    BY PassOnMoves DEF QueueIInv
  <1>2. [pc |-> "look", next |-> n + 1] \in AnnouncerType
    BY <1>1 DEF AnnouncerType
  <1>3. ASSUME NEW k \in DOMAIN Plan, k < n + 1
        PROVE  entry'[Plan[k]].state # "none" /\ Plan[k] \notin dead'[a]
    <2>1. CASE k = n
      BY <2>1 DEF Id
    <2>2. CASE k < n
      BY <2>2, PlanFacts DEF QueueIInv, PassedOver, QueueKept
    <2> QED BY <1>1, <1>3, <2>1, <2>2, PlanFacts
  <1> HIDE DEF n
  <1> QED BY <1>1, <1>2, <1>3, AnnouncerStep

(* queueCompletionCallbacks begins. *)
LEMMA BeginStep ==
  ASSUME QueueIInv, NEW a \in Announcers, Begin(a)
  PROVE  QueueIInv'
  <1>1. /\ announcer' = [announcer EXCEPT ![a] = [pc |-> "look", next |-> announcer[a].next]]
        /\ announcer[a].next = 1
    BY GotoMoves DEF QueueIInv, Positions, Begin
  <1>2. announcer' = [announcer EXCEPT ![a] = [pc |-> "look", next |-> 1]]
    BY <1>1
  <1>3. QueueKept /\ UNCHANGED <<delivery, accepted, faults>> /\ allowance' \in [Callbacks -> Int]
    BY NoEntryMoves DEF QueueIInv, Begin, TypeOK
  <1>4. /\ dead' \in [Announcers -> SUBSET Callbacks]
        /\ \A b \in Announcers : dead'[b] = IF b = a THEN Dead ELSE dead[b]
    BY DEF QueueIInv, Begin, TypeOK, Dead
  <1>5. DeadStays'
    BY <1>4 DEF QueueIInv, DeadStays, Dead, Begin
  <1>6. [pc |-> "look", next |-> 1] \in AnnouncerType
    BY DEF AnnouncerType
  <1>7. \A k \in DOMAIN Plan : ~(k < 1)
    BY PlanFacts
  <1>8. 1 \in Nat \ {0} /\ \A b \in Announcers \ {a} : dead'[b] \subseteq dead[b]
    BY <1>4
  <1>9. "look" \notin {"add", "revive", "idle", "finished"}
    OBVIOUS
  <1> QED BY <1>2, <1>3, <1>4, <1>5, <1>6, <1>7, <1>8, <1>9, AnnouncerStep

(* An announcer goes to another await and nothing else changes. *)
LEMMA GotoStep ==
  ASSUME QueueIInv, NEW a \in Announcers, NEW pc \in {"add", "revive", "finished", "threw"}, Goto(a, pc),
         pc \in {"add", "revive"} => announcer[a].next \in DOMAIN Plan,
         pc = "finished" => announcer[a].next \notin DOMAIN Plan,
         pc = "add" => Id(a) \notin dead[a],
         UNCHANGED <<entry, delivery, accepted, allowance, dead, faults>>
  PROVE  QueueIInv'
  <1> DEFINE n == announcer[a].next
  <1>1. n \in Nat \ {0} /\ announcer' = [announcer EXCEPT ![a] = [pc |-> pc, next |-> n]]
    BY GotoMoves DEF QueueIInv
  <1>2. [pc |-> pc, next |-> n] \in AnnouncerType
    BY <1>1 DEF AnnouncerType
  <1>3. /\ QueueKept /\ UNCHANGED <<delivery, accepted, faults>> /\ allowance' \in [Callbacks -> Int]
        /\ dead' \in [Announcers -> SUBSET Callbacks] /\ DeadStays'
    BY NoEntryMoves DEF QueueIInv, TypeOK, DeadStays, Dead
  <1>4. \A k \in DOMAIN Plan : k < n => entry'[Plan[k]].state # "none" /\ Plan[k] \notin dead'[a]
    BY DEF QueueIInv, PassedOver
  <1>5. pc = "add" => Plan[n] \notin dead'[a]
    BY DEF Id
  <1> HIDE DEF n
  <1>6. (pc \in {"add", "revive"} => n \in DOMAIN Plan) /\ (pc = "finished" => n \notin DOMAIN Plan)
    BY DEF n
  <1> QED BY <1>1, <1>2, <1>3, <1>4, <1>5, <1>6, AnnouncerStep

(* The announcer looks at the next callback. *)
LEMMA LookStep ==
  ASSUME QueueIInv, NEW a \in Announcers, Look(a)
  PROVE  QueueIInv'
  <1>1. Id(a) \in Callbacks /\ announcer[a].next \in DOMAIN Plan
    BY PlanFacts DEF Look, Id
  <1>2. UNCHANGED <<entry, delivery, accepted, allowance, dead, faults>>
    BY DEF Look, history
  <1>3. entry[Id(a)].state # "failed" => Id(a) \notin dead[a]
    BY DEF QueueIInv, DeadStays, Dead
  <1>4. CASE entry[Id(a)].state = "none"
    <2>1. Goto(a, "add")
      BY <1>4 DEF Look
    <2> QED BY <1>1, <1>2, <1>3, <1>4, <2>1, GotoStep
  <1>5. CASE entry[Id(a)].state = "failed"
    <2>1. Goto(a, "revive")
      BY <1>5 DEF Look
    <2> QED BY <1>1, <1>2, <2>1, GotoStep
  <1>6. CASE entry[Id(a)].state \notin {"none", "failed"}
    <2>1. PassOn(a)
      BY <1>6 DEF Look
    <2>2. /\ QueueKept /\ allowance' \in [Callbacks -> Int]
          /\ dead' \in [Announcers -> SUBSET Callbacks] /\ DeadStays'
      BY <1>2, NoEntryMoves DEF QueueIInv, TypeOK, DeadStays, Dead
    <2>3. entry'[Id(a)].state # "none" /\ Id(a) \notin dead'[a]
      BY <1>2, <1>3, <1>6
    <2> QED BY <1>1, <1>2, <2>1, <2>2, <2>3, PassOnStep
  <1> QED BY <1>4, <1>5, <1>6

(* The announcer adds an entry. *)
LEMMA AddStep ==
  ASSUME QueueIInv, NEW a \in Announcers, Add(a)
  PROVE  QueueIInv'
  <1>1. Id(a) \in Callbacks /\ announcer[a].next \in DOMAIN Plan /\ Id(a) \notin dead[a]
    BY PlanFacts DEF Add, Id, QueueIInv, TypeOK, Positions
  <1>2. UNCHANGED <<delivery, accepted, allowance, dead, faults>>
    BY DEF Add, history
  <1>3. QueueKept /\ Dead \subseteq Dead' /\ entry'[Id(a)].state # "none"
    <2>1. CASE entry[Id(a)].state = "none"
      <3>1. EntryTo(Id(a), FreshEntry)
        BY <1>1, <2>1, AddMoves DEF QueueIInv, Add
      <3>2. FreshEntry.state # "none"
        BY DEF FreshEntry, NoEntry
      <3> QED BY <1>1, <2>1, <3>1, <3>2, OneEntry, DeadKept DEF QueueIInv
    <2>2. CASE entry[Id(a)].state # "none"
      <3>1. entry' = entry
        BY <1>1, <2>2, AddMoves DEF QueueIInv, Add
      <3> QED BY <2>2, <3>1, NoEntryMoves DEF QueueIInv, Dead
    <2> QED BY <2>1, <2>2
  <1>4. /\ allowance' \in [Callbacks -> Int] /\ dead' \in [Announcers -> SUBSET Callbacks] /\ DeadStays'
    BY <1>2, <1>3 DEF QueueIInv, TypeOK, DeadStays
  <1>5. PassOn(a)
    BY DEF Add
  <1> QED BY <1>1, <1>2, <1>3, <1>4, <1>5, PassOnStep

(* The announcer revives a dead entry. *)
LEMMA ReviveStep ==
  ASSUME QueueIInv, NEW a \in Announcers, Revive(a)
  PROVE  QueueIInv'
  <1> DEFINE id == Id(a)
  <1>1. id \in Callbacks /\ id \in Dead /\ announcer[a].next \in DOMAIN Plan
    BY PlanFacts DEF Revive, Id, QueueIInv, TypeOK
  <1>2. UNCHANGED <<delivery, accepted, faults>> /\ PassOn(a)
    BY DEF Revive
  <1>3. /\ QueueKept /\ entry'[id].state # "none"
        /\ \A x \in Callbacks : x # id => entry'[x] = entry[x]
    <2>1. PICK e : EntryTo(id, e)
      BY <1>1, ReviveMoves DEF QueueIInv, Revive
    <2>2. e.state # "none"
      BY <2>1 DEF EntryTo
    <2> QED BY <1>1, <2>1, <2>2, OneEntry DEF QueueIInv
  <1>4. allowance' \in [Callbacks -> Int]
    BY <1>1 DEF QueueIInv, TypeOK, Revive, Revives
  <1>5. /\ dead' \in [Announcers -> SUBSET Callbacks]
        /\ \A b \in Announcers : dead'[b] = dead[b] \ {id}
    BY DEF QueueIInv, TypeOK, Revive, Revives
  <1>6. DeadStays'
    BY <1>3, <1>5 DEF QueueIInv, DeadStays, Dead
  <1> QED BY <1>1, <1>2, <1>3, <1>4, <1>5, <1>6, PassOnStep

-----------------------------------------------------------------------------
(* The invariant, and what it says to a reader.                                *)

(* Every step keeps the invariant. *)
LEMMA QueueNext == QueueIInv /\ [Next]_vars => QueueIInv'
  <1> SUFFICES ASSUME QueueIInv, [Next]_vars PROVE QueueIInv'
    OBVIOUS
  <1>1. ASSUME NEW a \in Announcers, Announce(a) PROVE QueueIInv'
    <2>1. CASE Begin(a)
      BY <2>1, BeginStep
    <2>2. CASE Look(a)
      BY <2>2, LookStep
    <2>3. CASE Add(a)
      BY <2>3, AddStep
    <2>4. CASE Revive(a)
      BY <2>4, ReviveStep
    <2>5. CASE ReviveRefused(a)
      BY <2>5, GotoStep DEF ReviveRefused, QueueIInv, TypeOK, history
    <2>6. CASE Finish(a)
      BY <2>6, GotoStep DEF Finish, history
    <2> QED BY <1>1, <2>1, <2>2, <2>3, <2>4, <2>5, <2>6 DEF Announce
  <1>2. ASSUME NEW s \in Slots, ConnectFails(s) \/ TimesOut(s) \/ Answer(s) PROVE QueueIInv'
    <2>1. delivery[s].pc # "idle" /\ (Throws(s) \/ Completes(s))
      BY <1>2 DEF ConnectFails, TimesOut, Answer
    <2>2. UNCHANGED <<announcer, accepted, allowance, dead>> /\ faults' \in 0..MaxFaults
      BY <1>2 DEF ConnectFails, TimesOut, Answer, history, QueueIInv, TypeOK
    <2>3. TypeOK
      BY DEF QueueIInv
    <2> QED BY <2>1, <2>2, <2>3, ThrowsEnds, CompletesEnds, EndedStep
  <1>3. ASSUME NEW s \in Slots, WorkerCrash(s) PROVE QueueIInv'
    <2>1. faults' \in 0..MaxFaults
      BY <1>3, CallbackAssumption DEF WorkerCrash, Fault, QueueIInv, TypeOK, CallbackAssumption
    <2> QED BY <1>3, <2>1, CrashEnds, EndedStep DEF WorkerCrash, history, QueueIInv
  <1>4. ASSUME NEW s \in Slots, LoseLock(s) PROVE QueueIInv'
    <2>1. /\ faults' \in 0..MaxFaults /\ delivery[s].id \in Callbacks
          /\ UNCHANGED <<announcer, delivery, accepted, allowance, dead>>
      BY <1>4, CallbackAssumption DEF LoseLock, Fault, QueueIInv, TypeOK, CallbackAssumption, history
    <2>2. PICK e : entry[delivery[s].id].state = "active" /\ EntryTo(delivery[s].id, e)
      BY <1>4, LoseLockMoves DEF QueueIInv
    <2> QED BY <2>1, <2>2, LockStep
  <1>5. ASSUME NEW id \in Callbacks, RecoverStalled(id) PROVE QueueIInv'
    <2>1. /\ faults' \in 0..MaxFaults /\ entry[id].state = "active"
          /\ UNCHANGED <<announcer, delivery, accepted, allowance, dead>>
      BY <1>5 DEF RecoverStalled, QueueIInv, TypeOK, history
    <2>2. PICK e : EntryTo(id, e)
      BY <1>5, RecoverMoves DEF QueueIInv
    <2> QED BY <2>1, <2>2, LockStep
  <1>6. CASE UNCHANGED vars
    BY <1>6 DEF vars, history, QueueIInv, TypeOK, PassedOver, Positions, DeadStays, VerdictsHold, Dead, Id
  <1> QED BY <1>1, <1>2, <1>3, <1>4, <1>5, <1>6, PostStep, TakeStep DEF Next, Work

(* Every behaviour keeps the invariant. *)
LEMMA QueueInvariant == Spec => []QueueIInv
  BY QueueInit, QueueNext, PTL DEF Spec

(* Every variable of CallbackQueue keeps its type, for any plan and any        *)
(* numbers of announcers, slots, attempts and faults.                          *)
THEOREM CallbackTypes == Spec => []TypeOK
  <1>1. QueueIInv => TypeOK
    BY DEF QueueIInv
  <1> QED BY <1>1, QueueInvariant, PTL

(* queueCompletionCallbacks returns only when every callback of the plan is    *)
(* queued and whatever was dead when it began has been revived.                *)
THEOREM RevivesAll == Spec => []SuccessRevivesAll
  <1>1. QueueIInv => SuccessRevivesAll
    <2> SUFFICES ASSUME QueueIInv, NEW a \in Announcers, announcer[a].pc = "finished"
                 PROVE  (\A id \in Callbacks : entry[id].state # "none") /\ dead[a] = {}
      BY DEF SuccessRevivesAll
    <2>1. announcer[a].next \in Nat \ {0} /\ announcer[a].next \notin DOMAIN Plan
      BY DEF QueueIInv, TypeOK, AnnouncerType, Positions
    <2>2. \A k \in DOMAIN Plan : k < announcer[a].next
      BY <2>1, PlanFacts
    <2>3. \A k \in DOMAIN Plan : entry[Plan[k]].state # "none" /\ Plan[k] \notin dead[a]
      BY <2>2 DEF QueueIInv, PassedOver
    <2>4. dead[a] \subseteq Callbacks
      BY DEF QueueIInv, TypeOK
    <2> QED BY <2>3, <2>4, PlanFacts
  <1> QED BY <1>1, QueueInvariant, PTL

-----------------------------------------------------------------------------
(* CallbackQueue implements CallbackDelivery.                                  *)

Phases == [id \in Callbacks |-> PhaseOf(id)]

(* Both modules speak of the same callbacks. *)
LEMMA SameCallbacks == Delivery!Callbacks = Callbacks
  BY DEF Delivery!Callbacks, Callbacks, Delivery!ToSet, ToSet

(* A replaced entry changes its own phase only. *)
LEMMA PhaseMoves ==
  ASSUME TypeOK, NEW id \in Callbacks, NEW e, EntryTo(id, e), NEW to,
         e.state = "completed" => to = "delivered",
         e.state = "failed" => to = "dead",
         e.state \in {"waiting", "active"} => to = "pending"
  PROVE  Phases' = [Phases EXCEPT ![id] = to]
  <1>1. \A x \in Callbacks : entry'[x] = IF x = id THEN e ELSE entry[x]
    BY OneEntry
  <1>2. e.state \in {"waiting", "active", "failed", "completed"}
    BY DEF EntryTo, EntryType, EntryStates
  <1>3. PhaseOf(id)' = to
    BY <1>1, <1>2 DEF PhaseOf
  <1>4. \A x \in Callbacks : x # id => PhaseOf(x)' = PhaseOf(x)
    BY <1>1 DEF PhaseOf
  <1> QED BY <1>3, <1>4 DEF Phases

(* The phase of an entry says its state. *)
LEMMA PhaseIs ==
  ASSUME TypeOK, NEW id \in Callbacks
  PROVE  /\ Phases[id] = "absent" <=> entry[id].state = "none"
         /\ Phases[id] = "dead" <=> entry[id].state = "failed"
         /\ Phases[id] = "delivered" <=> entry[id].state = "completed"
         /\ Phases[id] = "pending" <=> entry[id].state \in {"waiting", "active"}
  BY DEF Phases, PhaseOf, TypeOK, EntryType, EntryStates

(* A delivery that ended without a success: its entry stays pending or is dead. *)
LEMMA EndedRefines ==
  ASSUME TypeOK, NEW s \in Slots, delivery[s].pc # "idle", UNCHANGED accepted,
         NEW states \in SUBSET {"waiting", "active", "failed"}, Ended(s, states)
  PROVE  Delivery!Next \/ UNCHANGED Delivery!vars
  <1> DEFINE id == delivery[s].id
  <1>1. id \in Callbacks
    BY DEF TypeOK
  <1>2. CASE entry' = entry
    BY <1>2 DEF Delivery!vars, PhaseOf
  <1>3. ASSUME NEW e, entry[id].state = "active", e.state \in states, EntryTo(id, e)
        PROVE  Delivery!Next \/ UNCHANGED Delivery!vars
    <2>1. Phases[id] = "pending" /\ Phases = [Phases EXCEPT ![id] = "pending"]
      BY <1>1, <1>3, PhaseIs DEF Phases
    <2>2. CASE e.state = "failed"
      <3>1. Phases' = [Phases EXCEPT ![id] = "dead"]
        BY <1>1, <1>3, <2>2, PhaseMoves
      <3>2. Delivery!GiveUp(id)
        BY <2>1, <3>1 DEF Delivery!GiveUp, Delivery!Move, Phases
      <3> QED BY <1>1, <3>2, SameCallbacks DEF Delivery!Next
    <2>3. CASE e.state # "failed"
      <3>1. Phases' = [Phases EXCEPT ![id] = "pending"]
        BY <1>1, <1>3, <2>3, PhaseMoves
      <3> QED BY <2>1, <3>1 DEF Delivery!vars, Phases
    <2> QED BY <2>2, <2>3
  <1> QED BY <1>2, <1>3 DEF Ended

(* Steps that change neither an entry nor what was accepted do nothing. *)
LEMMA QuietRefines ==
  ASSUME entry' = entry, accepted' = accepted PROVE UNCHANGED Delivery!vars
  BY DEF Delivery!vars, PhaseOf

(* An active entry changed, and is pending or dead.  *)
LEMMA LockRefines ==
  ASSUME TypeOK, NEW id \in Callbacks, NEW e, entry[id].state = "active",
         e.state \in {"waiting", "active", "failed"}, EntryTo(id, e), UNCHANGED accepted
  PROVE  Delivery!Next \/ UNCHANGED Delivery!vars
  <1>1. Phases[id] = "pending" /\ Phases = [Phases EXCEPT ![id] = "pending"]
    BY PhaseIs DEF Phases
  <1>2. CASE e.state = "failed"
    <2>1. Phases' = [Phases EXCEPT ![id] = "dead"]
      BY <1>2, PhaseMoves
    <2>2. Delivery!GiveUp(id)
      BY <1>1, <2>1 DEF Delivery!GiveUp, Delivery!Move, Phases
    <2> QED BY <2>2, SameCallbacks DEF Delivery!Next
  <1>3. CASE e.state # "failed"
    <2>1. Phases' = [Phases EXCEPT ![id] = "pending"]
      BY <1>3, PhaseMoves
    <2> QED BY <1>1, <2>1 DEF Delivery!vars, Phases
  <1> QED BY <1>2, <1>3

(* An announcer's add queues a callback after all that come before it. *)
LEMMA AddRefines ==
  ASSUME QueueIInv, NEW a \in Announcers, Add(a)
  PROVE  Delivery!Next \/ UNCHANGED Delivery!vars
  <1> DEFINE i == announcer[a].next
  <1>1. Id(a) \in Callbacks /\ i \in DOMAIN Plan /\ Id(a) = Plan[i]
    BY PlanFacts DEF QueueIInv, TypeOK, Add, Id
  <1>2. CASE entry[Id(a)].state # "none"
    BY <1>1, <1>2, AddMoves, QuietRefines DEF Add, QueueIInv
  <1>3. CASE entry[Id(a)].state = "none"
    <2>1. EntryTo(Id(a), FreshEntry) /\ FreshEntry.state = "waiting"
      BY <1>1, <1>3, AddMoves DEF Add, QueueIInv, FreshEntry, NoEntry
    <2>2. Phases' = [Phases EXCEPT ![Plan[i]] = "pending"]
      BY <1>1, <2>1, PhaseMoves DEF QueueIInv
    <2>3. Phases[Plan[i]] = "absent"
      BY <1>1, <1>3, PhaseIs DEF QueueIInv
    <2>4. \A k \in 1..(i - 1) : Phases[Plan[k]] # "absent"
      <3> SUFFICES ASSUME NEW k \in 1..(i - 1) PROVE Phases[Plan[k]] # "absent"
        OBVIOUS
      <3>1. k \in DOMAIN Plan /\ k < i
        BY <1>1, PlanFacts
      <3>2. Plan[k] \in Callbacks /\ entry[Plan[k]].state # "none"
        BY <3>1, PlanFacts DEF QueueIInv, PassedOver
      <3> QED BY <3>2, PhaseIs DEF QueueIInv
    <2>5. Delivery!Queue(i)
      BY <2>2, <2>3, <2>4 DEF Delivery!Queue, Delivery!Move, Phases, Add
    <2> QED BY <1>1, <2>5 DEF Delivery!Next
  <1> QED BY <1>2, <1>3

(* An announcer's revival revives a dead callback. *)
LEMMA ReviveRefines ==
  ASSUME QueueIInv, NEW a \in Announcers, Revive(a)
  PROVE  Delivery!Next \/ UNCHANGED Delivery!vars
  <1> DEFINE id == Id(a)
             e == [entry[id] EXCEPT !.state = "waiting"]
  <1>1. id \in Callbacks /\ id \in Dead
    BY DEF Revive, Dead
  <1>2. EntryTo(id, e) /\ e.state = "waiting"
    BY <1>1, ReviveMoves DEF QueueIInv, Revive, TypeOK, EntryType
  <1>3. Phases' = [Phases EXCEPT ![id] = "pending"]
    <2> HIDE DEF e
    <2> QED BY <1>1, <1>2, PhaseMoves DEF QueueIInv
  <1>4. Phases[id] = "dead"
    BY <1>1, PhaseIs DEF QueueIInv, Dead
  <1>5. Delivery!Revive(id)
    BY <1>3, <1>4 DEF Delivery!Revive, Delivery!Move, Phases, Revive
  <1> QED BY <1>1, <1>5, SameCallbacks DEF Delivery!Next

(* A slot that takes an entry leaves it pending. *)
LEMMA TakeRefines ==
  ASSUME TypeOK, NEW s \in Slots, NEW id \in Callbacks, Take(s, id)
  PROVE  UNCHANGED Delivery!vars
  <1> DEFINE e == [entry[id] EXCEPT !.state = "active", !.owner = s]
  <1>1. EntryTo(id, e) /\ e.state = "active"
    BY TakeMoves DEF TypeOK, EntryType
  <1>2. Phases' = [Phases EXCEPT ![id] = "pending"]
    <2> HIDE DEF e
    <2> QED BY <1>1, PhaseMoves
  <1>3. Phases = [Phases EXCEPT ![id] = "pending"]
    BY PhaseIs DEF Phases, Take
  <1> QED BY <1>2, <1>3 DEF Delivery!vars, Phases, Take

(* The receiver's verdict reaches accepted, never the phases. *)
LEMMA PostRefines ==
  ASSUME TypeOK, NEW s \in Slots, NEW verdict \in Verdicts, Post(s, verdict)
  PROVE  Delivery!Next \/ UNCHANGED Delivery!vars
  <1>1. delivery[s].id \in Callbacks /\ entry[delivery[s].id].state # "none" /\ entry' = entry
    BY DEF TypeOK, Post
  <1>2. CASE verdict = "rejects"
    BY <1>1, <1>2, QuietRefines DEF Post
  <1>3. CASE verdict = "accepts"
    <2>1. Phases' = Phases /\ Phases[delivery[s].id] # "absent"
      BY <1>1, PhaseIs DEF Phases, PhaseOf
    <2>2. Delivery!Accept(delivery[s].id)
      BY <1>3, <2>1 DEF Delivery!Accept, Phases, Post
    <2> QED BY <1>1, <2>2, SameCallbacks DEF Delivery!Next
  <1> QED BY <1>2, <1>3 DEF Verdicts

(* An answer counts as a delivery only when the receiver accepted. *)
LEMMA AnswerRefines ==
  ASSUME QueueIInv, NEW s \in Slots, Answer(s)
  PROVE  Delivery!Next \/ UNCHANGED Delivery!vars
  <1> DEFINE id == delivery[s].id
  <1>1. id \in Callbacks /\ delivery[s].pc # "idle" /\ UNCHANGED accepted /\ TypeOK
    BY DEF QueueIInv, TypeOK, Answer
  <1>2. CASE Throws(s)
    BY <1>1, <1>2, ThrowsEnds, EndedRefines
  <1>3. CASE delivery[s].verdict = "accepts" /\ Completes(s)
    <2>1. Ended(s, {"completed"}) /\ id \in accepted
      BY <1>1, <1>3, CompletesEnds DEF QueueIInv, VerdictsHold
    <2>2. CASE entry' = entry
      BY <1>1, <2>2, QuietRefines
    <2>3. ASSUME NEW e, entry[id].state = "active", e.state = "completed", EntryTo(id, e)
          PROVE  Delivery!Next
      <3>1. Phases' = [Phases EXCEPT ![id] = "delivered"] /\ Phases[id] = "pending"
        BY <1>1, <2>3, PhaseMoves, PhaseIs
      <3>2. Delivery!Deliver(id)
        BY <1>1, <2>1, <3>1 DEF Delivery!Deliver, Delivery!Move, Phases
      <3> QED BY <1>1, <3>2, SameCallbacks DEF Delivery!Next
    <2> QED BY <2>1, <2>2, <2>3 DEF Ended
  <1> QED BY <1>2, <1>3 DEF Answer

(* Every step is one of CallbackDelivery, or changes nothing it sees. *)
LEMMA DeliverySteps == QueueIInv /\ [Next]_vars => [Delivery!Next]_(Delivery!vars)
  <1> SUFFICES ASSUME QueueIInv, [Next]_vars PROVE Delivery!Next \/ UNCHANGED Delivery!vars
    OBVIOUS
  <1> USE DEF history
  <1>0. TypeOK
    BY DEF QueueIInv
  <1>1. ASSUME NEW a \in Announcers, Announce(a) PROVE Delivery!Next \/ UNCHANGED Delivery!vars
    <2>1. CASE Begin(a) \/ Look(a) \/ ReviveRefused(a) \/ Finish(a)
      BY <2>1, QuietRefines DEF Begin, Look, ReviveRefused, Finish
    <2> QED BY <1>1, <2>1, AddRefines, ReviveRefines DEF Announce
  <1>2. ASSUME NEW s \in Slots, ConnectFails(s) \/ TimesOut(s)
        PROVE  Delivery!Next \/ UNCHANGED Delivery!vars
    <2>1. delivery[s].pc # "idle" /\ Throws(s) /\ UNCHANGED accepted
      BY <1>2 DEF ConnectFails, TimesOut
    <2> QED BY <1>0, <2>1, ThrowsEnds, EndedRefines
  <1>3. ASSUME NEW s \in Slots, WorkerCrash(s) PROVE Delivery!Next \/ UNCHANGED Delivery!vars
    <2>1. delivery[s].pc # "idle" /\ UNCHANGED accepted
      BY <1>3 DEF WorkerCrash
    <2> QED BY <1>0, <1>3, <2>1, CrashEnds, EndedRefines
  <1>4. ASSUME NEW s \in Slots, LoseLock(s) PROVE Delivery!Next \/ UNCHANGED Delivery!vars
    <2>1. delivery[s].id \in Callbacks /\ UNCHANGED accepted
      BY <1>0, <1>4 DEF LoseLock, TypeOK
    <2>2. PICK e : e.state = "active" /\ entry[delivery[s].id].state = "active" /\ EntryTo(delivery[s].id, e)
      BY <1>0, <1>4, LoseLockMoves
    <2> QED BY <1>0, <2>1, <2>2, LockRefines
  <1>5. ASSUME NEW id \in Callbacks, RecoverStalled(id) PROVE Delivery!Next \/ UNCHANGED Delivery!vars
    <2>1. PICK e : e.state \in {"waiting", "failed"} /\ EntryTo(id, e)
      BY <1>0, <1>5, RecoverMoves
    <2> QED BY <1>0, <1>5, <2>1, LockRefines DEF RecoverStalled
  <1>6. CASE UNCHANGED vars
    BY <1>6, QuietRefines DEF vars
  <1> QED BY <1>0, <1>1, <1>2, <1>3, <1>4, <1>5, <1>6, TakeRefines, PostRefines, AnswerRefines DEF Next, Work

(* The callbacks queue, its workers and any number of announcers implement     *)
(* CallbackDelivery: callbacks enter in plan order, count as delivered only    *)
(* when the receiver accepted them, and then stay delivered.                   *)
THEOREM DeliveryImplemented == Spec => ImplementsDelivery
  <1>1. Init => Delivery!Init
    BY SameCallbacks DEF Init, Delivery!Init, PhaseOf, NoEntry
  <1> QED BY <1>1, DeliverySteps, QueueInvariant, PTL DEF Spec, ImplementsDelivery, Delivery!Spec

-----------------------------------------------------------------------------
(* How often a receiver sees a callback.                                       *)

(* The deliveries that have yet to send their request. *)
Connecting(id) == {s \in Slots : delivery[s].pc = "connect" /\ delivery[s].id = id}

(* The deliveries an entry may still bring about by itself: one if it waits,   *)
(* the attempts after this one, and a repetition if it stalls.                 *)
Later(made) == IF made + 1 < MaxAttempts THEN MaxAttempts - made - 1 ELSE 0
Spare(e) == Later(e.made) + 1 - e.stalls
Owed(e) ==
  CASE e.state = "none"      -> MaxAttempts + 1
    [] e.state = "waiting"   -> 1 + Spare(e)
    [] e.state = "completed" -> 0
    [] OTHER                 -> Spare(e)

(* What is allowed covers what is on its way and what may still come. *)
PostsInv ==
  \A id \in Callbacks :
    /\ IsFiniteSet(Connecting(id))
    /\ Cardinality(Connecting(id)) + Owed(entry[id]) <= allowance[id]

(* The attempts left are a number, fewer after each. *)
LEMMA LaterFacts ==
  /\ \A n \in Nat : Later(n) \in Nat
  /\ \A n \in Nat : n + 1 < MaxAttempts => Later(n) = 1 + Later(n + 1)
  /\ Later(0) + 1 = MaxAttempts
  BY CallbackAssumption DEF Later, CallbackAssumption

(* So is what is owed. *)
LEMMA OwedFacts ==
  ASSUME NEW e \in EntryType
  PROVE  /\ Spare(e) \in Nat /\ Owed(e) \in Nat
         /\ e.state \in {"active", "failed"} => Owed(e) = Spare(e)
         /\ e.state = "waiting" => Owed(e) = 1 + Spare(e)
         /\ e.state = "completed" => Owed(e) = 0
         /\ e.state = "none" => Owed(e) = MaxAttempts + 1
  <1>1. e.made \in Nat /\ e.stalls \in {0, 1} /\ e.state \in EntryStates
    BY DEF EntryType
  <1>2. Spare(e) \in Nat
    BY <1>1, LaterFacts DEF Spare
  <1> QED BY <1>1, <1>2, CallbackAssumption DEF Owed, EntryStates, CallbackAssumption

(* With each step that makes no delivery begin and sends nothing, the sum only *)
(* falls, or rises with the allowance.                                         *)
LEMMA PostsKept ==
  ASSUME TypeOK, TypeOK', PostsInv,
         \A id \in Callbacks : Connecting(id)' \subseteq Connecting(id),
         \A id \in Callbacks : Owed(entry'[id]) - Owed(entry[id]) <= allowance'[id] - allowance[id]
  PROVE  PostsInv'
  <1> SUFFICES ASSUME NEW id \in Callbacks
               PROVE  /\ IsFiniteSet(Connecting(id)')
                      /\ Cardinality(Connecting(id)') + Owed(entry'[id]) <= allowance'[id]
    BY DEF PostsInv
  <1>1. /\ IsFiniteSet(Connecting(id)') /\ Cardinality(Connecting(id)') <= Cardinality(Connecting(id))
        /\ Cardinality(Connecting(id)') \in Nat /\ Cardinality(Connecting(id)) \in Nat
    BY FS_Subset, FS_CardinalityType DEF PostsInv
  <1>2. entry[id] \in EntryType /\ entry'[id] \in EntryType /\ allowance[id] \in Int /\ allowance'[id] \in Int
    BY DEF TypeOK
  <1>3. Owed(entry[id]) \in Nat /\ Owed(entry'[id]) \in Nat
    BY <1>2, OwedFacts
  <1> QED BY <1>1, <1>2, <1>3 DEF PostsInv

(* Deliveries that stay as they are, or end, connect nowhere new. *)
LEMMA NoNewConnection ==
  ASSUME TypeOK, delivery' = delivery \/ \E s \in Slots : Leave(s)
  PROVE  \A id \in Callbacks : Connecting(id)' \subseteq Connecting(id)
  BY DEF Connecting, Leave, NoDelivery, TypeOK

(* What an entry owes never grows. *)
OwesNoMore == \A id \in Callbacks : Owed(entry'[id]) <= Owed(entry[id])

(* It suffices to look at the entry that is replaced. *)
LEMMA OneOwes ==
  ASSUME TypeOK, NEW id \in Callbacks, NEW e \in EntryType, entry' = [entry EXCEPT ![id] = e],
         Owed(e) <= Owed(entry[id])
  PROVE  OwesNoMore
  <1>1. \A x \in Callbacks : entry'[x] = (IF x = id THEN e ELSE entry[x]) /\ entry[x] \in EntryType
    BY DEF TypeOK
  <1>2. \A x \in Callbacks : Owed(entry[x]) \in Nat
    BY <1>1, OwedFacts
  <1> QED BY <1>1, <1>2 DEF OwesNoMore

(* Or at none. *)
LEMMA NoneOwes ==
  ASSUME TypeOK, entry' = entry PROVE OwesNoMore
  <1>1. \A x \in Callbacks : Owed(entry[x]) \in Nat
    BY OwedFacts DEF TypeOK
  <1> QED BY <1>1 DEF OwesNoMore

-----------------------------------------------------------------------------
(* What the steps do to what is owed.                                          *)

(* deliverCallback threw: the attempt it made counts among those it leaves.    *)
LEMMA ThrowsOwes ==
  ASSUME TypeOK, NEW s \in Slots, delivery[s].pc # "idle", Throws(s)
  PROVE  OwesNoMore
  <1> DEFINE id == delivery[s].id
             n == entry[id].made
             To(state) == [entry[id] EXCEPT !.state = state, !.made = n + 1, !.owner = None]
  <1>1. id \in Callbacks /\ entry[id] \in EntryType /\ n \in Nat /\ entry[id].stalls \in {0, 1}
    BY DEF TypeOK, EntryType
  <1>2. CASE ~Holds(s)
    BY <1>2, NoneOwes DEF Throws
  <1>3. CASE Holds(s)
    <2>1. Owed(entry[id]) = Later(n) + 1 - entry[id].stalls
      <3>1. entry[id].state = "active"
        BY <1>1, <1>3, CallbackAssumption DEF Holds, TypeOK, CallbackAssumption
      <3> QED BY <1>1, <3>1, OwedFacts DEF Spare
    <2>2. /\ n + 1 < MaxAttempts => entry' = [entry EXCEPT ![id] = To("waiting")]
          /\ ~(n + 1 < MaxAttempts) => entry' = [entry EXCEPT ![id] = To("failed")]
      BY <1>1, <1>3 DEF Throws, TypeOK
    <2>3. ASSUME NEW state \in {"waiting", "failed"}
          PROVE  /\ To(state) \in EntryType /\ To(state).state = state
                 /\ Spare(To(state)) = Later(n + 1) + 1 - entry[id].stalls
      <3>1. PICK old \in EntryType, made \in Nat : old = entry[id] /\ made = n + 1
        BY <1>1
      <3>2. To(state) = [old EXCEPT !.state = state, !.made = made, !.owner = None]
        BY <3>1
      <3> DEFINE new == [old EXCEPT !.state = state, !.made = made, !.owner = None]
      <3>3. new \in EntryType /\ new.state = state /\ new.made = made /\ new.stalls = old.stalls
        BY DEF EntryType, EntryStates
      <3> HIDE DEF To, new
      <3> QED BY <3>1, <3>2, <3>3 DEF new, Spare
    <2> HIDE DEF To, n, id
    <2>4. CASE n + 1 < MaxAttempts
      <3>1. Later(n) = 1 + Later(n + 1) /\ Later(n + 1) \in Nat
        BY <1>1, <2>4, LaterFacts
      <3>2. Owed(To("waiting")) <= Owed(entry[id])
        BY <1>1, <2>1, <2>3, <3>1, OwedFacts
      <3> QED BY <1>1, <2>2, <2>3, <2>4, <3>2, OneOwes
    <2>5. CASE ~(n + 1 < MaxAttempts)
      <3>1. Later(n) = 0 /\ Later(n + 1) = 0
        BY <1>1, <2>5, CallbackAssumption DEF Later, CallbackAssumption
      <3>2. Owed(To("failed")) <= Owed(entry[id])
        BY <1>1, <2>1, <2>3, <3>1, OwedFacts
      <3> QED BY <1>1, <2>2, <2>3, <2>5, <3>2, OneOwes
    <2> QED BY <2>4, <2>5
  <1> QED BY <1>2, <1>3

(* deliverCallback returned: no delivery of the callback is to come. *)
LEMMA CompletesOwes ==
  ASSUME TypeOK, NEW s \in Slots, delivery[s].pc # "idle", Completes(s)
  PROVE  OwesNoMore
  <1>1. ASSUME NEW e, e.state = "completed", EntryTo(delivery[s].id, e)
        PROVE  OwesNoMore
    <2>1. /\ delivery[s].id \in Callbacks /\ entry[delivery[s].id] \in EntryType
          /\ e \in EntryType /\ entry' = [entry EXCEPT ![delivery[s].id] = e]
      BY <1>1 DEF TypeOK, EntryTo
    <2>2. Owed(e) <= Owed(entry[delivery[s].id])
      BY <1>1, <2>1, OwedFacts
    <2> QED BY <2>1, <2>2, OneOwes
  <1> QED BY <1>1, NoneOwes, CompletesEnds DEF Ended

(* A lock that goes leaves the entry active. *)
LEMMA UnlockOwes ==
  ASSUME TypeOK, NEW id \in Callbacks, entry[id].state = "active",
         entry' = [entry EXCEPT ![id].owner = None]
  PROVE  OwesNoMore
  <1> DEFINE e == [entry[id] EXCEPT !.owner = None]
  <1>1. entry[id] \in EntryType
    BY DEF TypeOK
  <1>2. /\ e \in EntryType /\ e.state = "active"
        /\ e.made = entry[id].made /\ e.stalls = entry[id].stalls
    BY <1>1 DEF EntryType
  <1>3. entry' = [entry EXCEPT ![id] = e]
    BY DEF TypeOK
  <1> HIDE DEF e
  <1>4. Owed(e) <= Owed(entry[id])
    BY <1>1, <1>2, OwedFacts DEF Spare
  <1> QED BY <1>2, <1>3, <1>4, OneOwes

(* The stalled check spends the repetition, or gives up. *)
LEMMA RecoverOwes ==
  ASSUME TypeOK, NEW id \in Callbacks, RecoverStalled(id)
  PROVE  OwesNoMore
  <1>1. /\ entry[id] \in EntryType /\ entry[id].made \in Nat
        /\ entry[id].stalls \in {0, 1} /\ entry[id].state = "active"
    BY DEF TypeOK, EntryType, RecoverStalled
  <1>2. CASE entry[id].stalls = 0
    <2> DEFINE e == [entry[id] EXCEPT !.state = "waiting", !.stalls = 1]
    <2>1. e \in EntryType /\ e.state = "waiting" /\ e.stalls = 1 /\ e.made = entry[id].made
      BY <1>1 DEF EntryType, EntryStates
    <2>2. entry' = [entry EXCEPT ![id] = e]
      BY <1>1, <1>2 DEF RecoverStalled, TypeOK
    <2> HIDE DEF e
    <2>3. Owed(e) <= Owed(entry[id])
      BY <1>1, <1>2, <2>1, OwedFacts, LaterFacts DEF Spare
    <2> QED BY <2>1, <2>2, <2>3, OneOwes
  <1>3. CASE entry[id].stalls # 0
    <2> DEFINE e == [entry[id] EXCEPT !.state = "failed"]
    <2>1. e \in EntryType /\ e.state = "failed" /\ e.stalls = entry[id].stalls /\ e.made = entry[id].made
      BY <1>1 DEF EntryType, EntryStates
    <2>2. entry' = [entry EXCEPT ![id] = e]
      BY <1>1, <1>3 DEF RecoverStalled, TypeOK
    <2> HIDE DEF e
    <2>3. Owed(e) <= Owed(entry[id])
      BY <1>1, <2>1, OwedFacts DEF Spare
    <2> QED BY <2>1, <2>2, <2>3, OneOwes
  <1> QED BY <1>2, <1>3

(* An announcer's add gives a callback all it is owed from the beginning. *)
LEMMA AddOwes ==
  ASSUME TypeOK, NEW id \in Callbacks, Adds(id)
  PROVE  OwesNoMore
  <1>1. CASE entry[id].state # "none"
    BY <1>1, AddMoves, NoneOwes
  <1>2. CASE entry[id].state = "none"
    <2>1. FreshEntry \in EntryType /\ entry' = [entry EXCEPT ![id] = FreshEntry] /\ entry[id] \in EntryType
      BY <1>2, AddMoves DEF EntryTo, TypeOK
    <2>2. FreshEntry.state = "waiting" /\ Spare(FreshEntry) = MaxAttempts
      BY LaterFacts DEF FreshEntry, NoEntry, Spare
    <2>3. Owed(FreshEntry) <= Owed(entry[id])
      BY <1>2, <2>1, <2>2, OwedFacts
    <2> QED BY <2>1, <2>3, OneOwes
  <1> QED BY <1>1, <1>2

(* A revival is owed one delivery, which the allowance grows by. *)
LEMMA ReviveOwes ==
  ASSUME TypeOK, NEW id \in Dead, Revives(id)
  PROVE  \A x \in Callbacks : Owed(entry'[x]) - Owed(entry[x]) <= allowance'[x] - allowance[x]
  <1> DEFINE e == [entry[id] EXCEPT !.state = "waiting"]
  <1>1. id \in Callbacks /\ entry[id] \in EntryType /\ entry[id].state = "failed"
    BY DEF TypeOK, Dead
  <1>2. e \in EntryType /\ e.state = "waiting" /\ e.stalls = entry[id].stalls /\ e.made = entry[id].made
    BY <1>1 DEF EntryType, EntryStates
  <1>3. \A x \in Callbacks : entry'[x] = (IF x = id THEN e ELSE entry[x]) /\ entry[x] \in EntryType
    BY <1>1 DEF Revives, TypeOK
  <1>4. \A x \in Callbacks : allowance'[x] = (IF x = id THEN allowance[x] + 1 ELSE allowance[x])
                               /\ allowance[x] \in Int
    BY <1>1 DEF Revives, TypeOK
  <1> HIDE DEF e
  <1>5. Owed(e) = Owed(entry[id]) + 1
    BY <1>1, <1>2, OwedFacts DEF Spare
  <1>6. \A x \in Callbacks : Owed(entry[x]) \in Nat
    BY <1>3, OwedFacts
  <1> QED BY <1>3, <1>4, <1>5, <1>6

-----------------------------------------------------------------------------
(* Invariance.                                                                 *)

(* Initially all is owed and nothing is on its way. *)
LEMMA PostsInit == Init => PostsInv
  <1> SUFFICES ASSUME Init, NEW id \in Callbacks
               PROVE  /\ IsFiniteSet(Connecting(id))
                      /\ Cardinality(Connecting(id)) + Owed(entry[id]) <= allowance[id]
    BY DEF PostsInv
  <1>1. Connecting(id) = {}
    BY DEF Init, Connecting, NoDelivery
  <1>2. Owed(entry[id]) = MaxAttempts + 1 /\ allowance[id] = MaxAttempts + 1
    BY DEF Init, NoEntry, Owed
  <1> QED BY <1>1, <1>2, FS_EmptySet, CallbackAssumption DEF CallbackAssumption

(* A step that adds no delivery and owes no more, with the allowance as it was. *)
LEMMA QuietPosts ==
  ASSUME TypeOK, TypeOK', PostsInv, OwesNoMore, allowance' = allowance,
         delivery' = delivery \/ \E s \in Slots : Leave(s)
  PROVE  PostsInv'
  <1>1. \A id \in Callbacks : Owed(entry[id]) \in Nat /\ Owed(entry'[id]) \in Nat
    BY OwedFacts DEF TypeOK
  <1>2. \A id \in Callbacks : Owed(entry'[id]) - Owed(entry[id]) <= allowance'[id] - allowance[id]
    BY <1>1 DEF OwesNoMore, TypeOK
  <1> QED BY <1>2, NoNewConnection, PostsKept

(* A slot that takes an entry turns what the entry owed into a delivery. *)
LEMMA TakePosts ==
  ASSUME TypeOK, PostsInv, NEW s \in Slots, NEW id \in Callbacks, Take(s, id)
  PROVE  PostsInv'
  <1> DEFINE e == [entry[id] EXCEPT !.state = "active", !.owner = s]
  <1>1. entry[id] \in EntryType /\ entry[id].state = "waiting" /\ delivery[s].pc = "idle"
    BY DEF TypeOK, Take
  <1>2. /\ e \in EntryType /\ e.state = "active"
        /\ e.made = entry[id].made /\ e.stalls = entry[id].stalls
    BY <1>1, TakeMoves DEF EntryType, EntryTo
  <1>3. \A x \in Callbacks : entry'[x] = (IF x = id THEN e ELSE entry[x])
    BY <1>1 DEF Take, TypeOK
  <1>4. \A x \in Callbacks : Connecting(x)' = IF x = id THEN Connecting(x) \cup {s} ELSE Connecting(x)
    BY <1>1 DEF Take, TypeOK, Connecting, NoDelivery
  <1> HIDE DEF e
  <1>5. Owed(e) + 1 = Owed(entry[id]) /\ Owed(e) \in Nat
    BY <1>1, <1>2, OwedFacts DEF Spare
  <1>6. s \notin Connecting(id)
    BY <1>1 DEF Connecting
  <1>7. /\ IsFiniteSet(Connecting(id) \cup {s})
        /\ Cardinality(Connecting(id) \cup {s}) = Cardinality(Connecting(id)) + 1
        /\ Cardinality(Connecting(id)) \in Nat
    BY <1>6, FS_AddElement, FS_CardinalityType DEF PostsInv
  <1>8. allowance' = allowance /\ allowance[id] \in Int
    BY DEF Take, history, TypeOK
  <1> QED BY <1>3, <1>4, <1>5, <1>7, <1>8 DEF PostsInv

(* A request that leaves was on its way. *)
LEMMA PostPosts ==
  ASSUME TypeOK, PostsInv, NEW s \in Slots, NEW verdict \in Verdicts, Post(s, verdict)
  PROVE  PostsInv'
  <1>0. PICK id \in Callbacks : delivery[s].id = id
    BY DEF TypeOK, Post
  <1>1. entry[id] \in EntryType /\ allowance[id] \in Int /\ entry' = entry
    BY <1>0 DEF TypeOK, Post
  <1>2. \A x \in Callbacks : Connecting(x)' = IF x = id THEN Connecting(x) \ {s} ELSE Connecting(x)
    BY <1>0 DEF Post, TypeOK, Connecting
  <1>3. s \in Connecting(id)
    BY <1>0 DEF Post, Connecting
  <1>4. \A x \in Callbacks : allowance'[x] = IF x = id THEN allowance[x] - 1 ELSE allowance[x]
    BY <1>0 DEF Post, TypeOK
  <1>5. /\ IsFiniteSet(Connecting(id) \ {s})
        /\ Cardinality(Connecting(id) \ {s}) = Cardinality(Connecting(id)) - 1
        /\ Cardinality(Connecting(id)) \in Nat
    BY <1>1, <1>3, FS_RemoveElement, FS_CardinalityType DEF PostsInv
  <1>6. Owed(entry[id]) \in Nat
    BY <1>1, OwedFacts
  <1>7. /\ IsFiniteSet(Connecting(id)')
        /\ Cardinality(Connecting(id)') + Owed(entry'[id]) <= allowance'[id]
    <2>1. Cardinality(Connecting(id)) + Owed(entry[id]) <= allowance[id]
      BY DEF PostsInv
    <2>2. Cardinality(Connecting(id)') = Cardinality(Connecting(id)) - 1
      BY <1>2, <1>5
    <2>3. allowance'[id] = allowance[id] - 1 /\ entry'[id] = entry[id] /\ IsFiniteSet(Connecting(id)')
      BY <1>1, <1>2, <1>4, <1>5
    <2> QED BY <1>1, <1>5, <1>6, <2>1, <2>2, <2>3
  <1>8. ASSUME NEW x \in Callbacks, x # id
        PROVE  /\ IsFiniteSet(Connecting(x)')
               /\ Cardinality(Connecting(x)') + Owed(entry'[x]) <= allowance'[x]
    BY <1>1, <1>2, <1>4, <1>8 DEF PostsInv
  <1> QED BY <1>7, <1>8 DEF PostsInv

(* Every step keeps the balance. *)
LEMMA PostsNext == QueueIInv /\ QueueIInv' /\ PostsInv /\ [Next]_vars => PostsInv'
  <1> SUFFICES ASSUME QueueIInv, QueueIInv', PostsInv, [Next]_vars PROVE PostsInv'
    OBVIOUS
  <1> USE DEF history
  <1>0. TypeOK /\ TypeOK'
    BY DEF QueueIInv
  <1>1. ASSUME NEW a \in Announcers, Announce(a) PROVE PostsInv'
    <2>1. CASE Begin(a) \/ Look(a) \/ ReviveRefused(a) \/ Finish(a)
      BY <1>0, <2>1, NoneOwes, QuietPosts DEF Begin, Look, ReviveRefused, Finish
    <2>2. CASE Add(a)
      <3>1. Id(a) \in Callbacks
        BY <1>0, <2>2, PlanFacts DEF TypeOK, Add, Id
      <3> QED BY <1>0, <2>2, <3>1, AddOwes, QuietPosts DEF Add
    <2>3. CASE Revive(a)
      BY <1>0, <2>3, ReviveOwes, NoNewConnection, PostsKept DEF Revive
    <2> QED BY <1>1, <2>1, <2>2, <2>3 DEF Announce
  <1>2. ASSUME NEW s \in Slots, ConnectFails(s) \/ TimesOut(s) \/ Answer(s) PROVE PostsInv'
    <2>1. delivery[s].pc # "idle" /\ (Throws(s) \/ Completes(s)) /\ allowance' = allowance
      BY <1>2 DEF ConnectFails, TimesOut, Answer
    <2>2. OwesNoMore /\ Leave(s)
      BY <1>0, <2>1, ThrowsOwes, CompletesOwes DEF Throws, Completes
    <2> QED BY <1>0, <2>1, <2>2, QuietPosts
  <1>3. ASSUME NEW s \in Slots, WorkerCrash(s) \/ LoseLock(s) PROVE PostsInv'
    <2>1. /\ delivery[s].pc # "idle" /\ allowance' = allowance
          /\ Leave(s) \/ delivery' = delivery
          /\ entry' = entry \/ (Holds(s) /\ entry' = [entry EXCEPT ![delivery[s].id].owner = None])
      BY <1>3 DEF WorkerCrash, LoseLock
    <2>2. Holds(s) => delivery[s].id \in Callbacks /\ entry[delivery[s].id].state = "active"
      BY <1>0, <2>1, CallbackAssumption DEF Holds, TypeOK, CallbackAssumption
    <2> QED BY <1>0, <2>1, <2>2, UnlockOwes, NoneOwes, QuietPosts
  <1>4. ASSUME NEW id \in Callbacks, RecoverStalled(id) PROVE PostsInv'
    BY <1>0, <1>4, RecoverOwes, QuietPosts DEF RecoverStalled
  <1>5. CASE UNCHANGED vars
    BY <1>0, <1>5, NoneOwes, QuietPosts DEF vars
  <1> QED BY <1>0, <1>1, <1>2, <1>3, <1>4, <1>5, PostPosts, TakePosts DEF Next, Work

(* A receiver sees an event id at most the configured attempts, one repetition *)
(* of a stalled delivery and one per revival, however often locks are lost,    *)
(* workers die and announcers meet: deliverCallback never sends what the       *)
(* entry's attemptsMade and stalled count do not leave to it.                  *)
THEOREM PostsAreBounded == Spec => []PostsBounded
  <1>1. QueueIInv /\ PostsInv => PostsBounded
    <2> SUFFICES ASSUME QueueIInv, PostsInv, NEW id \in Callbacks PROVE allowance[id] >= 0
      BY DEF PostsBounded
    <2>1. Cardinality(Connecting(id)) \in Nat
      BY FS_CardinalityType DEF PostsInv
    <2>2. Owed(entry[id]) \in Nat /\ allowance[id] \in Int
      BY OwedFacts DEF QueueIInv, TypeOK
    <2> QED BY <2>1, <2>2 DEF PostsInv
  <1>2. Spec => []PostsInv
    BY PostsInit, PostsNext, QueueInvariant, PTL DEF Spec
  <1> QED BY <1>1, <1>2, QueueInvariant, PTL

=============================================================================

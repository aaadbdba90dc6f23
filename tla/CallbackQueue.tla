----------------------------- MODULE CallbackQueue -----------------------------
(* The callbacks of one completed job from queueCompletionCallbacks            *)
(* (queues/completion-callbacks.ts) to the receiver (workers/callback.ts): any *)
(* number of announcers of the same plan, the BullMQ entries with their        *)
(* attempts, concurrent deliveries, and a receiver that accepts, rejects or    *)
(* does not answer.  That all announcers have one plan is shown of CrawlJobs, whose     *)
(* completed jobs keep their rows.                                             *)
EXTENDS Integers, Sequences, SequencesExt

CONSTANTS
  Plan,         \* the job's callbacks, in the order they are enqueued
  Announcers,   \* calls of queueCompletionCallbacks
  Slots,        \* deliveries at a time: the callback worker's concurrency
  None,
  MaxAttempts,  \* defaultJobOptions.attempts
  MaxFaults     \* how often a worker may die or lose a lock

Callbacks == ToSet(Plan)

ASSUME CallbackAssumption ==
  /\ Plan \in Seq(Callbacks)
  /\ \A i, k \in DOMAIN Plan : Plan[i] = Plan[k] => i = k
  /\ None \notin Slots \cup Callbacks
  /\ MaxAttempts \in Nat \ {0}
  /\ MaxFaults \in Nat

VARIABLES
  entry,      \* the callbacks' entries in the queue
  announcer,  \* per call of queueCompletionCallbacks: pc and position in the plan
  delivery,   \* per slot, the run of deliverCallback it is in
  accepted,   \* the callbacks the receiver has answered with 2xx, heard or not
  \* history and bounds
  allowance,  \* how often the receiver may still see each callback
  dead,       \* per announcer, what was dead when it began and is not revived yet
  faults      \* the faults so far

history == <<allowance, dead>>
vars == <<entry, announcer, delivery, accepted, history, faults>>

Fault == faults < MaxFaults /\ faults' = faults + 1

NoEntry == [state |-> "none", made |-> 0, stalls |-> 0, owner |-> None]
FreshEntry == [NoEntry EXCEPT !.state = "waiting"]
Dead == {id \in Callbacks : entry[id].state = "failed"}

-----------------------------------------------------------------------------
(* Announcers: enqueueOrReviveCallback for each callback of the plan.  Entries *)
(* are never removed, so getJob and getState are one step.  An announcer may   *)
(* stop anywhere: its process dies, or a call fails, before its effect or      *)
(* after; to the rest of the system that is one.                               *)

Id(a) == Plan[announcer[a].next]
Goto(a, pc) == announcer' = [announcer EXCEPT ![a].pc = pc]
PassOn(a) == announcer' = [announcer EXCEPT ![a] = [pc |-> "look", next |-> @.next + 1]]

Begin(a) ==
  /\ announcer[a].pc = "idle"
  /\ Goto(a, "look")
  /\ dead' = [dead EXCEPT ![a] = Dead]
  /\ UNCHANGED <<entry, delivery, accepted, allowance, faults>>

(* A bug: whatever exists is left alone. *)
LookForPresence(a) ==
  /\ announcer[a].pc = "look"
  /\ announcer[a].next \in DOMAIN Plan
  /\ IF entry[Id(a)].state = "none" THEN Goto(a, "add") ELSE PassOn(a)
  /\ UNCHANGED <<entry, delivery, accepted, history, faults>>

Look(a) ==
  /\ announcer[a].pc = "look"
  /\ announcer[a].next \in DOMAIN Plan
  /\ CASE entry[Id(a)].state = "none"   -> Goto(a, "add")
       [] entry[Id(a)].state = "failed" -> Goto(a, "revive")
       [] OTHER                         -> PassOn(a)
  /\ UNCHANGED <<entry, delivery, accepted, history, faults>>

(* add with a fixed jobId keeps an entry that exists. *)
Adds(id) == entry' = IF entry[id].state = "none" THEN [entry EXCEPT ![id] = FreshEntry] ELSE entry

Add(a) ==
  /\ announcer[a].pc = "add"
  /\ Adds(Id(a))
  /\ PassOn(a)
  /\ UNCHANGED <<delivery, accepted, history, faults>>

(* A bug: a dead callback is replaced and gets all its attempts again. *)
ReviveAfresh(id) ==
  /\ entry' = [entry EXCEPT ![id] = FreshEntry]
  /\ allowance' = [allowance EXCEPT ![id] = @ + 1]
  /\ dead' = [a \in Announcers |-> dead[a] \ {id}]

(* retry('failed') puts a failed entry back to wait.  It leaves attemptsMade as *)
(* it is: an entry that used up its attempts gets one more.                     *)
Revives(id) ==
  /\ entry' = [entry EXCEPT ![id].state = "waiting"]
  /\ allowance' = [allowance EXCEPT ![id] = @ + 1]
  /\ dead' = [a \in Announcers |-> dead[a] \ {id}]

(* A bug: the state that was read is taken for the state that is. *)
ReviveUnchecked(a) ==
  /\ announcer[a].pc = "revive"
  /\ Revives(Id(a))
  /\ PassOn(a)
  /\ UNCHANGED <<delivery, accepted, faults>>

Revive(a) ==
  /\ announcer[a].pc = "revive"
  /\ Id(a) \in Dead
  /\ Revives(Id(a))
  /\ PassOn(a)
  /\ UNCHANGED <<delivery, accepted, faults>>

(* Somebody else has revived it since: retry throws, and so does the announcer. *)
ReviveRefused(a) ==
  /\ announcer[a].pc = "revive"
  /\ Id(a) \notin Dead
  /\ Goto(a, "threw")
  /\ UNCHANGED <<entry, delivery, accepted, history, faults>>

Finish(a) ==
  /\ announcer[a].pc = "look"
  /\ announcer[a].next \notin DOMAIN Plan
  /\ Goto(a, "finished")
  /\ UNCHANGED <<entry, delivery, accepted, history, faults>>

-----------------------------------------------------------------------------
(* Deliveries: one run of deliverCallback per slot.  Its pc is the await it is  *)
(* at: the dispatcher ("connect") or the request with its body ("answer"); what *)
(* BullMQ makes of its result is part of the step that ends it, since a lock    *)
(* lost or a worker dead in between is one lost or dead just before.            *)

Verdicts == {"accepts", "rejects"}
NoDelivery == [pc |-> "idle", id |-> None, verdict |-> "rejects"]

Holds(s) == entry[delivery[s].id].owner = s
Leave(s) == delivery' = [delivery EXCEPT ![s] = NoDelivery]

(* deliverCallback returned, or threw; either tells only with the entry's lock. *)
(* A retry's backoff is a wait like any other.                                 *)
Completes(s) ==
  /\ entry' = IF Holds(s)
              THEN [entry EXCEPT ![delivery[s].id].state = "completed", ![delivery[s].id].owner = None]
              ELSE entry
  /\ Leave(s)

Throws(s) ==
  LET id == delivery[s].id IN
  /\ entry' = IF Holds(s)
              THEN [entry EXCEPT ![id].state = IF entry[id].made + 1 < MaxAttempts THEN "waiting" ELSE "failed",
                                 ![id].made = @ + 1, ![id].owner = None]
              ELSE entry
  /\ Leave(s)

Take(s, id) ==
  /\ delivery[s].pc = "idle"
  /\ entry[id].state = "waiting"
  /\ entry' = [entry EXCEPT ![id].state = "active", ![id].owner = s]
  /\ delivery' = [delivery EXCEPT ![s] = [NoDelivery EXCEPT !.pc = "connect", !.id = id]]
  /\ UNCHANGED <<announcer, accepted, history, faults>>

(* The target is refused, does not resolve or cannot be reached. *)
ConnectFails(s) ==
  /\ delivery[s].pc = "connect"
  /\ Throws(s)
  /\ UNCHANGED <<announcer, accepted, history, faults>>

Post(s, verdict) ==
  LET id == delivery[s].id IN
  /\ delivery[s].pc = "connect"
  /\ allowance' = [allowance EXCEPT ![id] = @ - 1]
  /\ accepted' = IF verdict = "accepts" THEN accepted \cup {id} ELSE accepted
  /\ delivery' = [delivery EXCEPT ![s].pc = "answer", ![s].verdict = verdict]
  /\ UNCHANGED <<entry, announcer, dead, faults>>

(* A bug: any answer is taken for a success. *)
AnyAnswer(s) ==
  /\ delivery[s].pc = "answer"
  /\ Completes(s)
  /\ UNCHANGED <<announcer, accepted, history, faults>>

Answer(s) ==
  /\ delivery[s].pc = "answer"
  /\ \/ delivery[s].verdict = "accepts" /\ Completes(s)
     \/ delivery[s].verdict = "rejects" /\ Throws(s)
  /\ UNCHANGED <<announcer, accepted, history, faults>>

(* A bug: only an answer ends the wait. *)
NeverTimesOut(s) == FALSE /\ UNCHANGED vars

(* No answer within the timeouts, or one that breaks off: headersTimeout,      *)
(* bodyTimeout and the abort signal end every request.                         *)
TimesOut(s) ==
  /\ delivery[s].pc = "answer"
  /\ Throws(s)
  /\ UNCHANGED <<announcer, accepted, history, faults>>

WorkerCrash(s) ==
  /\ delivery[s].pc # "idle"
  /\ Fault
  /\ entry' = IF Holds(s) THEN [entry EXCEPT ![delivery[s].id].owner = None] ELSE entry
  /\ Leave(s)
  /\ UNCHANGED <<announcer, accepted, history>>

(* The slot stops renewing its lock; it runs on. *)
LoseLock(s) ==
  /\ delivery[s].pc # "idle"
  /\ Holds(s)
  /\ Fault
  /\ entry' = [entry EXCEPT ![delivery[s].id].owner = None]
  /\ UNCHANGED <<announcer, delivery, accepted, history>>

(* BullMQ's stalled check (maxStalledCount 1). *)
RecoverStalled(id) ==
  /\ entry[id].state = "active"
  /\ entry[id].owner = None
  /\ entry' = IF entry[id].stalls = 0
              THEN [entry EXCEPT ![id].state = "waiting", ![id].stalls = 1]
              ELSE [entry EXCEPT ![id].state = "failed"]
  /\ UNCHANGED <<announcer, delivery, accepted, history, faults>>

-----------------------------------------------------------------------------

Init ==
  /\ entry = [id \in Callbacks |-> NoEntry]
  /\ announcer = [a \in Announcers |-> [pc |-> "idle", next |-> 1]]
  /\ delivery = [s \in Slots |-> NoDelivery]
  /\ accepted = {}
  /\ allowance = [id \in Callbacks |-> MaxAttempts + 1]
  /\ dead = [a \in Announcers |-> {}]
  /\ faults = 0

(* What a delivery does without its receiver. *)
Work(s) == ConnectFails(s) \/ (\E verdict \in Verdicts : Post(s, verdict)) \/ TimesOut(s)

Announce(a) ==
  Begin(a) \/ Look(a) \/ Add(a) \/ Revive(a) \/ ReviveRefused(a) \/ Finish(a)

Next ==
  \/ \E a \in Announcers : Announce(a)
  \/ \E s \in Slots : Work(s) \/ Answer(s) \/ WorkerCrash(s) \/ LoseLock(s) \/ \E id \in Callbacks : Take(s, id)
  \/ \E id \in Callbacks : RecoverStalled(id)

Spec == Init /\ [][Next]_vars

(* A delivery connects or times out by itself, an idle slot takes waiting      *)
(* entries, BullMQ's timers fire.  The receiver owes no answer, and announcers *)
(* may stop anywhere.                                                          *)
Fairness ==
  /\ \A s \in Slots : WF_vars(Work(s)) /\ \A id \in Callbacks : WF_vars(Take(s, id))
  /\ \A id \in Callbacks : WF_vars(RecoverStalled(id))

FairSpec == Spec /\ Fairness

-----------------------------------------------------------------------------
(* Properties.                                                                 *)

EntryStates == {"none", "waiting", "active", "failed", "completed"}
EntryType == [state : EntryStates, made : Nat, stalls : {0, 1}, owner : Slots \cup {None}]
AnnouncerType == [pc : {"idle", "look", "add", "revive", "finished", "threw"}, next : Nat \ {0}]
DeliveryType == [pc : {"idle", "connect", "answer"},
                 id : Callbacks \cup {None}, verdict : Verdicts]

(* Every variable has its type.  A slot at work has a callback and that        *)
(* callback an entry; whoever adds or revives is not past the plan; only an    *)
(* active entry has an owner.                                                  *)
TypeOK ==
  /\ entry \in [Callbacks -> EntryType]
  /\ announcer \in [Announcers -> AnnouncerType]
  /\ delivery \in [Slots -> DeliveryType]
  /\ accepted \subseteq Callbacks
  /\ allowance \in [Callbacks -> Int]
  /\ dead \in [Announcers -> SUBSET Callbacks]
  /\ faults \in 0..MaxFaults
  /\ \A a \in Announcers : announcer[a].pc \in {"add", "revive"} => announcer[a].next \in DOMAIN Plan
  /\ \A s \in Slots : delivery[s].pc # "idle" =>
       delivery[s].id \in Callbacks /\ entry[delivery[s].id].state # "none"
  /\ \A id \in Callbacks : entry[id].owner # None => entry[id].state = "active"

(* An announcer that reports success leaves nothing out: every callback of the *)
(* plan has an entry, and what was dead when it began has been revived since,  *)
(* by it or by another announcer of the same job.                              *)
SuccessRevivesAll ==
  \A a \in Announcers : announcer[a].pc = "finished" =>
    /\ \A id \in Callbacks : entry[id].state # "none"
    /\ dead[a] = {}

(* How often a receiver may see one event id: the configured attempts, one     *)
(* repetition of a stalled delivery, and one per revival.  A revived callback  *)
(* does not start over.                                                        *)
PostsBounded == \A id \in Callbacks : allowance[id] >= 0

(* The queue, its workers and all announcers keep what CallbackDelivery        *)
(* promises: above all, a callback counts as delivered only after the receiver *)
(* accepted it, and then stays so while late deliveries and announcers go on.  *)
PhaseOf(id) ==
  CASE entry[id].state = "none"      -> "absent"
    [] entry[id].state = "completed" -> "delivered"
    [] entry[id].state = "failed"    -> "dead"
    [] OTHER                         -> "pending"

Delivery == INSTANCE CallbackDelivery WITH phase <- [id \in Callbacks |-> PhaseOf(id)]
ImplementsDelivery == Delivery!Spec

(* Every callback in the queue is in the end delivered or given up, also with  *)
(* a receiver that never answers.                                              *)
Settles ==
  \A id \in Callbacks :
    entry[id].state \in {"waiting", "active"} ~> entry[id].state \in {"completed", "failed"}

=============================================================================

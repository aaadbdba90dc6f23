----------------------------- MODULE JobLifecycle -----------------------------
(* What the crawler promises about one job, whatever its workers, queues and   *)
(* API handlers go through: results are only persisted while it runs, each     *)
(* page once; completion is final and freezes results and progress; nothing is *)
(* announced before completion; and callbacks are announced in plan order.     *)
EXTENDS JobData

VARIABLES
  status,    \* jobs.status
  results,   \* the job's rows of `results`, in id order
  stored,    \* jobs.progress
  sent       \* ids of the callbacks that entered the callbacks queue

vars == <<status, results, stored, sent>>

Init ==
  /\ status = [j \in Jobs |-> "absent"]
  /\ results = [j \in Jobs |-> <<>>]
  /\ stored = [j \in Jobs |-> None]
  /\ sent = [j \in Jobs |-> {}]

Move(j, from, to) ==
  /\ status[j] \in from
  /\ status' = [status EXCEPT ![j] = to]

Submit(j) == Move(j, {"absent"}, "queued") /\ UNCHANGED <<results, stored, sent>>

Claim(j) == Move(j, {"queued"}, "running") /\ UNCHANGED <<results, stored, sent>>

Fail(j) == Move(j, {"queued", "running"}, "failed") /\ UNCHANGED <<results, stored, sent>>

Cancel(j) == Move(j, {"queued", "running"}, "cancelled") /\ UNCHANGED <<results, stored, sent>>

Requeue(j) == Move(j, {"failed", "cancelled"}, "queued") /\ UNCHANGED <<results, stored, sent>>

Persist(j, p) ==
  /\ status[j] = "running"
  /\ p \notin ToSet(results[j])
  /\ results' = [results EXCEPT ![j] = Append(@, p)]
  /\ UNCHANGED <<status, stored, sent>>

(* Any progress may be stored: which one is right is CrawlJobs's business.     *)
Complete(j) ==
  /\ Move(j, {"running"}, "completed")
  /\ stored'[j] \in Progress
  /\ stored' = [stored EXCEPT ![j] = stored'[j]]
  /\ UNCHANGED <<results, sent>>

Announce(j, i) ==
  LET plan == CompletionPlan(j, results[j]) IN
  /\ status[j] = "completed"
  /\ \A k \in 1..(i - 1) : plan[k] \in sent[j]
  /\ sent' = [sent EXCEPT ![j] = @ \cup {plan[i]}]
  /\ UNCHANGED <<status, results, stored>>

Next ==
  \E j \in Jobs :
    \/ Submit(j) \/ Claim(j) \/ Fail(j) \/ Cancel(j) \/ Requeue(j)
    \/ \E p \in Pages : Persist(j, p)
    \/ Complete(j)
    \/ \E i \in DOMAIN CompletionPlan(j, results[j]) : Announce(j, i)

Spec == Init /\ [][Next]_vars

=============================================================================

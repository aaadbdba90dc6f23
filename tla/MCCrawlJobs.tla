----------------------------- MODULE MCCrawlJobs -----------------------------
(* Instances of CrawlJobs for TLC: the budgets of faults the runs use.         *)
EXTENDS CrawlJobs

NoFault == [f \in FaultKinds |-> 0]
Budgets(fs) == [f \in FaultKinds |-> IF f \in fs THEN 1 ELSE 0]

(* Calls fail and processes die; whoever lives keeps its locks and deadlines.  *)
WorkerTrouble == Budgets({"fetch", "db", "redis", "workerCrash"})

(* As many page errors as attempts, and one call, worker and handler cut off.  *)
LastAttempt == [Budgets({"redis", "workerCrash", "apiCrash"}) EXCEPT !["fetch"] = MaxAttempts]

(* A slot loses its lock and runs on; a page handler outlives its request.     *)
Zombies == Budgets({"stall", "timeout"})
OneTimeout == Budgets({"timeout"})

(* Slots, pages and requests are interchangeable. *)
Symmetry == Permutations(Slots) \cup Permutations(Pages) \cup Permutations(Commands)

=============================================================================

------------------------------- MODULE JobData -------------------------------
(* What the lifecycle of a crawl job is made of: the statuses of a row of      *)
(* `jobs`, the rows of `results`, the progress stored at completion and the    *)
(* callbacks that announce a completed job.  Constants and operators only.     *)
EXTENDS Naturals, Sequences, SequencesExt

CONSTANTS
  Jobs,          \* job ids
  Pages,         \* the pages (url_hash) one crawl visits
  None,          \* SQL null / undefined
  Middleware,    \* TRUE iff MIDDLEWARE_BASE_URL is configured
  CallbackJobs   \* the jobs whose spec carries an allowed callbackUrl

Statuses == {"absent", "queued", "running", "completed", "failed", "cancelled"}

(* CrawlProgress without `processed`, which equals `records` when it is stored. *)
Progress == [records : Nat, failed : Nat]

(* What storedCompletionProgress makes of a null progress. *)
NoProgress == [records |-> 0, failed |-> 0]

(* A result row's callback is named by its page, the other two by their name;  *)
(* each stands for the fixed BullMQ id the code derives from the job (and row). *)
Summaries == {"progress", "complete"}
CallbackIds == Pages \cup Summaries

ASSUME DataAssumption ==
  /\ Summaries \cap Pages = {}
  /\ None \notin Jobs \cup Pages \cup Progress
  /\ Middleware \in BOOLEAN
  /\ CallbackJobs \subseteq Jobs

(* A bug: the progress callback goes out before the results. *)
ProgressFirst(j, rows) ==
  (IF Middleware THEN <<"progress">> \o rows ELSE <<>>)
    \o (IF j \in CallbackJobs THEN <<"complete">> ELSE <<>>)

(* The callbacks of a completed job, in the order they are enqueued: one per   *)
(* result row in id order, then the progress, then the caller's own callback.  *)
CompletionPlan(j, rows) ==
  (IF Middleware THEN rows \o <<"progress">> ELSE <<>>)
    \o (IF j \in CallbackJobs THEN <<"complete">> ELSE <<>>)

=============================================================================

----------------------------- MODULE MCSubmitJob -----------------------------
(* Instances of SubmitJob for TLC. *)
EXTENDS SubmitJob, TLC

Symmetry == Permutations(Requests) \cup Permutations(Keys) \cup Permutations(Payloads)

=============================================================================

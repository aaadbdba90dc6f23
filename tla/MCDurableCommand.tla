-------------------------- MODULE MCDurableCommand --------------------------
(* An instance of DurableCommand for TLC. Its run has a liveness property, so  *)
(* it does without symmetry.                                                   *)
EXTENDS DurableCommand

(* A cancel or a retry that is accepted, and one that the job's status refuses. *)
AcceptedOrConflict == {202, 409}

=============================================================================

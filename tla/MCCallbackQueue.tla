---------------------------- MODULE MCCallbackQueue ----------------------------
(* An instance of CallbackQueue for TLC: the plan of a job with a callback of  *)
(* its own only.  Its run has a liveness property, so it does without symmetry. *)
EXTENDS CallbackQueue

OwnCallback == <<"complete">>

=============================================================================

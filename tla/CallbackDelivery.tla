--------------------------- MODULE CallbackDelivery ---------------------------
(* What the callbacks of one completed job are promised, whatever their queue,  *)
(* its workers and the receiver go through: they enter in plan order, are       *)
(* delivered only when the receiver has accepted them, never a second time, and *)
(* one that was given up may be revived.                                        *)
EXTENDS Naturals, Sequences, SequencesExt

CONSTANT Plan   \* the job's callbacks, in the order they are enqueued, each once

Callbacks == ToSet(Plan)

VARIABLES
  phase,     \* per callback
  accepted   \* the callbacks the receiver has answered with 2xx, heard or not

vars == <<phase, accepted>>

Init ==
  /\ phase = [id \in Callbacks |-> "absent"]
  /\ accepted = {}

Move(id, from, to) ==
  /\ phase[id] = from
  /\ phase' = [phase EXCEPT ![id] = to]
  /\ UNCHANGED accepted

Queue(i) ==
  /\ \A k \in 1..(i - 1) : phase[Plan[k]] # "absent"
  /\ Move(Plan[i], "absent", "pending")

(* Whoever posts may be an attempt that has been replaced, or given up.         *)
Accept(id) ==
  /\ phase[id] # "absent"
  /\ accepted' = accepted \cup {id}
  /\ UNCHANGED phase

Deliver(id) == id \in accepted /\ Move(id, "pending", "delivered")

GiveUp(id) == Move(id, "pending", "dead")

Revive(id) == Move(id, "dead", "pending")

Next ==
  \/ \E i \in DOMAIN Plan : Queue(i)
  \/ \E id \in Callbacks : Accept(id) \/ Deliver(id) \/ GiveUp(id) \/ Revive(id)

Spec == Init /\ [][Next]_vars

=============================================================================

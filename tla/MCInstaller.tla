----------------------------- MODULE MCInstaller -----------------------------
(* Instances of Installer for TLC: one fault per invocation, and two, of which *)
(* the second may strike the rollback the first one has caused.                *)
EXTENDS Installer

OneFault == [o \in {"install", "rollback"} |-> 1]
TwoFaults == [o \in {"install", "rollback"} |-> 2]

=============================================================================

----------------------------- MODULE MCMigrations -----------------------------
(* Instances of Migrations for TLC: the scripts of the plugin and of the    *)
(* provider are given to Script in the configurations.                      *)
EXTENDS Migrations

CONSTANTS s1, s2

(* Every kind of failure, and a second crash. *)
AllFaults == [kind \in FaultKinds |-> IF kind = "crash" THEN 2 ELSE 1]

(* One query that fails. *)
OneReadFault == [kind \in FaultKinds |-> IF kind = "read" THEN 1 ELSE 0]
=============================================================================

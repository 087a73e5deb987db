---------------------------- MODULE MCMigration ----------------------------
(* Three targets: one full, one with room for one guest, one for all. *)
EXTENDS Migration
CONSTANTS p2, p3, p4
MCTargets == <<p2, p3, p4>>
MCRoom == [t \in {p2, p3, p4} |-> IF t = p2 THEN 0 ELSE IF t = p3 THEN 1 ELSE 3]
=============================================================================

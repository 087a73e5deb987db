------------------------------ MODULE Sightings ------------------------------
(***************************************************************************)
(* Watchdog with history variables for what the loop and nut-dog have seen *)
(* of p1 against what became of p1: since when it has been up, and for how *)
(* long nobody has seen it up.  They restrict no step.                     *)
(***************************************************************************)
EXTENDS Watchdog

VARIABLES
    upFor,    \* how long p1 has been up, as far back as a probe may reach
    doubts,   \* readings of p1 offline that nothing spoke to, in a row
    met       \* the last to see p1 up was the wait of a wake, not a tick

sights == <<upFor, doubts, met>>

(* A tick sees p1 up, in Proxmox or by nut-dog's probe. *)
SeenByTick == ReadUp \/ (ReadUnconfirmed /\ streak' = 0)

Watch ==
    /\ upFor' = IF host' # "up" THEN 0
                ELSE IF Tick /\ upFor <= ProbeMaxAge THEN upFor + 1
                ELSE upFor
    /\ doubts' = IF SeenByTick \/ Awake \/ Crash THEN 0
                 ELSE IF streak' > streak /\ doubts < NodeDownConfirm THEN doubts + 1
                 ELSE doubts
    /\ met' = (Awake \/ (met /\ ~SeenByTick /\ ~Crash))

SightingsInit ==
    /\ Init /\ doubts = 0 /\ met = FALSE
    /\ upFor = IF host = "up" THEN ProbeMaxAge + 1 ELSE 0
SightingsSpec == SightingsInit /\ [][Next /\ Watch]_<<vars, sights>>

-----------------------------------------------------------------------------
(* A tick believes p1 down although it is up. *)
Believed == pc = "observe" /\ pc' = "apply" /\ host = "up" /\ ~snap'.up

(* What may speak for it: the loop means p1 to be down, p1 came up after    *)
(* the last probe that still counts, or the reading is no longer the first. *)
Corroborated == Expected \/ upFor <= ProbeMaxAge \/ doubts' >= NodeDownConfirm

(* A p1 that only dropped out of the cluster is not taken for switched off  *)
(* on one reading: the loop must mean it to be down, or nut-dog's probe be  *)
(* older than p1's boot, or two readings in a row have been left without    *)
(* an answer (confirmDown, controller.go:551-614).  The exception is the    *)
(* first tick after a wake: nothing on the way has reset the streak of the  *)
(* outage before it (controller.go:607), so one reading may be enough.      *)
PartitionTolerated == [][Believed => Corroborated \/ met]_<<vars, sights>>
=============================================================================

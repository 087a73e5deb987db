----------------------------- MODULE PowerOwner -----------------------------
(***************************************************************************)
(* What the loop promises of p1's power switch when nut-dog holds it, and  *)
(* all anyone outside needs to know of the loop: p1 is moved by the wish,  *)
(* and a wish for off, once committed to, is taken back by nothing but a   *)
(* planned wake until p1 has been off (internal/powerapi and the comments  *)
(* of requestPower, powerWish and holdPower).  Module Watchdog implements  *)
(* it; nobody else touches the switch here.                                *)
(***************************************************************************)
VARIABLES
    wish,        \* what nut-dog holds: "none", "on", "off" or "hold"
    committed,   \* an off was decided, and p1 has not been off since
    power        \* "off", "booting", "up" or "goingDown"

vars == <<wish, committed, power>>

Init == wish = "none" /\ committed = FALSE /\ power \in {"off", "up"}

(* A shed is decided; the wish may be lost on the way. *)
Commit ==
    /\ power \in {"up", "goingDown"}
    /\ committed' = TRUE /\ wish' \in {wish, "off"}
    /\ UNCHANGED power

(* Whatever is said otherwise, it is nothing but off while one is due. *)
Say ==
    /\ wish' \in {"on", "off", "hold"} /\ (committed => wish' = "off")
    /\ UNCHANGED <<committed, power>>

(* A planned wake ends the commitment, and never silently. *)
Recall == committed' = FALSE /\ wish' = "on" /\ UNCHANGED power

(* nut-dog restarts: its memory is empty.  The watchdog does: so is its. *)
Forget == wish' = "none" /\ UNCHANGED <<committed, power>>
Restart == committed' = FALSE /\ UNCHANGED <<wish, power>>

(* p1 does what is wished, and nothing else. *)
Obey ==
    /\ \/ wish = "off" /\ power = "up" /\ power' = "goingDown"
       \/ wish = "on" /\ power = "off" /\ power' = "booting"
    /\ UNCHANGED <<wish, committed>>

Boot == power = "booting" /\ power' = "up" /\ UNCHANGED <<wish, committed>>
Land == power = "goingDown" /\ power' = "off" /\ committed' = FALSE /\ UNCHANGED wish

Next == Commit \/ Say \/ Recall \/ Forget \/ Restart \/ Obey \/ Boot \/ Land

Spec == Init /\ [][Next]_vars
=============================================================================

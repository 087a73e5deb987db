------------------------------ MODULE MCFaults ------------------------------
(* The small host of MCWatchdog, with its landings and what was seen of it. *)
EXTENDS MCWatchdog, Landings, Sightings

FaultsInit ==
    /\ Init /\ unread = FALSE /\ doubts = 0 /\ met = FALSE
    /\ upFor = IF host = "up" THEN ProbeMaxAge + 1 ELSE 0
FaultsSpec == FaultsInit /\ [][Next /\ Log /\ Watch]_<<vars, unread, sights>>
=============================================================================

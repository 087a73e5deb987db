----------------------------- MODULE MCDecision -----------------------------
(***************************************************************************)
(* Decision over the snapshots reconcile() can be in: two desktop VMs, one *)
(* of which may be asked for, one guest of each other class; a host that   *)
(* reads down has no uptime and lists no running guest; the grace clock    *)
(* only runs in gaming; the readings sit on both sides of every threshold. *)
(***************************************************************************)
EXTENDS Decision
CONSTANTS vm, vm2, crit, load

MCGaming == {vm, vm2}
MCAsked == {vm}
MCMigrate == {crit}
MCStop == {load}
MCWatts == 0 .. 2
MCCharges == 0 .. 1

MCInputs ==
    {s \in [surplus : MCWatts, soc : MCCharges, up : BOOLEAN, uptime : 0 .. 2,
            running : SUBSET {vm, vm2, crit, load}, mode : Modes, grace : Clocks,
            shed : BOOLEAN, on : BOOLEAN, inFlight : BOOLEAN,
            wake : [Asked -> Ages], done : [Asked -> Ages]] :
        /\ s.up \/ (s.uptime = 0 /\ s.running = {} /\ ~s.inFlight)
        /\ s.mode = "gaming" \/ s.grace = Stopped
        /\ ~(s.shed /\ s.on)}
=============================================================================

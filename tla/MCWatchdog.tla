----------------------------- MODULE MCWatchdog -----------------------------
(* Watchdog on a small host: one desktop VM, one guest of each other class. *)
EXTENDS Watchdog
CONSTANTS vm, vm2, crit, load

MCGaming == {vm}
MCTwoGaming == {vm, vm2}
MCMigrate == {crit}
MCStop == {load}
Sun == [surplus |-> 3, soc |-> 1]
Night == [surplus |-> 0, soc |-> 0]
MCSunNight == {Sun, Night}
MCSun == {Sun}
MCNight == {Night}
=============================================================================

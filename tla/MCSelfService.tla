--------------------------- MODULE MCSelfService ---------------------------
(* Two users and two desktop VMs with one GPU: alice may control one of    *)
(* them, bob both; bob is an admin.                                        *)
EXTENDS SelfService
CONSTANTS alice, bob, vm, vm2, card, none

MCGaming == {vm, vm2}
MCNoGuests == {}
MCUsers == {alice, bob}
MCAllowed == [u \in MCUsers |-> IF u = alice THEN {vm} ELSE {vm, vm2}]
MCAdmins == {bob}
MCPassthrough == [v \in MCGaming |-> card]
=============================================================================

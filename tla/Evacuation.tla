----------------------------- MODULE Evacuation -----------------------------
(***************************************************************************)
(* What execute() relies on when it migrates the criticals off p1, and     *)
(* what module Watchdog has of it in one step: guests leave p1 one by one, *)
(* before, during or after a call, only for nodes that have room, and what *)
(* the call reports in the end is true.  Module Migration implements it.   *)
(***************************************************************************)
EXTENDS Integers, FiniteSets

CONSTANTS Criticals, Nodes, Room

VARIABLES
    where,     \* the node each guest is on
    outcome,   \* of the last call, or "running"
    byHand     \* guests moved back onto p1 by hand since it began

vars == <<where, outcome, byHand>>

Here == {g \in Criticals : where[g] = "p1"}

Init == where = [g \in Criticals |-> "p1"] /\ outcome = "done" /\ byHand = {}

Call ==
    /\ outcome # "running" /\ Here # {}
    /\ outcome' = "running" /\ byHand' = {}
    /\ UNCHANGED where

Leaves ==
    /\ \E g \in Here : \E t \in Nodes :
          /\ Cardinality({h \in Criticals : where[h] = t}) < Room[t]
          /\ where' = [where EXCEPT ![g] = t]
    /\ UNCHANGED <<outcome, byHand>>

Returns ==
    /\ \E g \in Criticals \ Here : where' = [where EXCEPT ![g] = "p1"] /\ byHand' = byHand \cup {g}
    /\ UNCHANGED outcome

(* Success: only those are on p1 that somebody has brought back. *)
Succeeds == outcome = "running" /\ Here \subseteq byHand /\ outcome' = "done" /\ UNCHANGED <<where, byHand>>

(* Failure: somebody is still there, or nobody could look. *)
Fails ==
    /\ outcome = "running"
    /\ outcome' = "unlisted" \/ (outcome' = "failed" /\ Here # {})
    /\ UNCHANGED <<where, byHand>>

Next == Call \/ Leaves \/ Returns \/ Succeeds \/ Fails

Spec == Init /\ [][Next]_vars
=============================================================================

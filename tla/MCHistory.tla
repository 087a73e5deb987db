----------------------------- MODULE MCHistory -----------------------------
(* The small host of MCWatchdog, with the history variables. *)
EXTENDS MCWatchdog, WatchdogHistory
LOCAL INSTANCE TLC

(* The two users and their desktop VMs are alike: no definition picks one.  *)
MCUsers == Permutations(MCTwoGaming)
=============================================================================

------------------------------ MODULE Landings ------------------------------
(***************************************************************************)
(* Watchdog with a history variable for a shed that landed where the loop  *)
(* did not see it.  It restricts no step.                                  *)
(***************************************************************************)
EXTENDS Watchdog

VARIABLE unread   \* p1 went off with our off out, and no tick has looked since

Lands == host # "off" /\ host' = "off" /\ inFlight
Looks == pc = "observe" /\ pc' # pc /\ host \notin Online
Wakes == pc = "wake" /\ pc' # pc

Log ==
    unread' = \/ Lands
              \/ PowerOff /\ host \notin Online
              \/ unread /\ ~Looks /\ ~Wakes /\ ~Crash

LandingsInit == Init /\ unread = FALSE
LandingsSpec == LandingsInit /\ [][Next /\ Log]_<<vars, unread>>

-----------------------------------------------------------------------------
(* off is never inferred: nut-dog is told off only for a shed that is being *)
(* decided, or was and has not landed yet, or has landed where no tick      *)
(* could see it - every tick since was blind, or somebody started p1 again  *)
(* before one looked (README, "Nothing here ever infers a power-off").  The *)
(* last case is the exception to "the shed landed; a later hand-start must  *)
(* not be shut back down" (controller.go:265-268, 965-986): the loop knows  *)
(* that a shed has landed only from a tick that has read p1 down.           *)
OffNeverInferred ==
    [][req' = "off" /\ req # "off" =>
          pc = "poweroff" \/ inFlight \/ unread]_<<vars, unread>>
=============================================================================

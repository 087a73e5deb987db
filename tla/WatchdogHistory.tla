--------------------------- MODULE WatchdogHistory ---------------------------
(***************************************************************************)
(* Watchdog with history variables: they record what happened and restrict *)
(* no step, so that a property can relate a step of the loop to what users *)
(* and guests did before it.                                               *)
(***************************************************************************)
EXTENDS Watchdog

VARIABLES
    late,      \* VMs asked for since the look before the off that stands
    seenUp,    \* VMs a tick has seen running under the request they have
    lastSeen   \* how long ago a tick saw a gaming guest running

history == <<late, seenUp, lastSeen>>

Pressed == {v \in Asked : wake'[v] = 0 /\ wake[v] # 0}
ReadsCluster == pc = "observe" /\ pc' = "apply" /\ snap'.up

Record ==
    /\ late' = IF pc = "recheck" /\ pc' = "poweroff" THEN {}
               ELSE IF pc' = "poweroff" \/ askedOff' THEN late \cup Pressed
               ELSE {}
    /\ seenUp' = IF ReadsCluster
                 THEN seenUp \cup {v \in running \cap Asked : Live(wake[v]) /\ snap.wake[v] = wake[v]}
                 ELSE seenUp \ Pressed
    /\ lastSeen' = IF ReadsCluster /\ running \cap GamingGuard # {} THEN 0
                   ELSE IF wake' = OlderAges(wake) /\ pc' = pc /\ Tick THEN Older(lastSeen)
                   ELSE lastSeen

HistoryInit == Init /\ late = {} /\ seenUp = {} /\ lastSeen = Never
HistorySpec == HistoryInit /\ [][Next /\ Record]_<<vars, history>>

(* A request to act on that the loop could have seen: no marker, in the     *)
(* plan of the running tick or else in state.json, has it as served.        *)
Marker(v) == IF pc \in {"idle", "observe"} THEN done[v] ELSE plan.done[v]
Outstanding(v) == v \in GamingGuard /\ ~retired(v) /\ Live(wake[v]) /\ wake[v] < Marker(v)

(* Until the power-off is sent a shed is only a plan: no off is handed      *)
(* over, or said again in any later tick, against a request that was made   *)
(* before the last look that ordered it (README, "until the power-off is    *)
(* actually sent a shed is still only a plan"; controller.go:500-509).  An  *)
(* off that was ordered once stands against those who press later, even if  *)
(* its request failed and a later look of the retry finds them: what the    *)
(* tests want of that case is RescueLeavesNoOff, and it does not hold.      *)
RescueWindow ==
    [][OffSaid =>
          \A v \in Asked : Outstanding(v) => v \in late]_<<vars, history>>

(* A request stops acting once its VM has been seen up: the loop never      *)
(* starts that VM again before somebody asks again, even when its user      *)
(* shuts it down inside the request's lifetime (resolveWake,                *)
(* decide.go:107-134, and isNoop, controller.go:429-437).                   *)
SeenStaysServed ==
    [][pc = "start" /\ pc' # pc =>
          \A v \in running' \ running : v \notin seenUp]_<<vars, history>>

(* A session has its whole grace window: p1 is not told off from gaming, by *)
(* order or by restate, within GamingGrace of a tick that saw a gaming      *)
(* guest running (README, "The clock resets every time a gaming guest is    *)
(* seen running").                                                          *)
GraceHonoured ==
    [][OffSaid /\ mode = "gaming" =>
          lastSeen >= GamingGrace]_<<vars, history>>
=============================================================================

--------------------------- MODULE WatchdogProofs ---------------------------
(***************************************************************************)
(* Theorems about the reconcile loop, for every configuration, every set   *)
(* of guests, and every combination of faults and outside moves that a     *)
(* theorem does not exclude by name.                                       *)
(***************************************************************************)
EXTENDS Landings, Sightings, DecideProofs

(* The constants and the ages the model is built from have their types. *)
LEMMA Basics ==
    /\ 0 \in Ages /\ Never \in Ages /\ Stopped \in Clocks /\ Ages \subseteq Clocks
    /\ NoAges \in [Asked -> Ages]
    /\ NoFail \in [tries : 0 .. StartFailLimit, of : Ages, last : 0 .. Interval]
    /\ UptimeCap \in Nat \ {0}
    /\ NoSnap \in [up : BOOLEAN, hold : {"none", "off", "on"}, wake : [Asked -> Ages]]
    /\ NoPlan \in Plans
    /\ NoProbe \in [actual : {"up", "down", "unknown"}, age : 0 .. ProbeMaxAge + 1]
<1>1. /\ 0 \in Ages /\ Never \in Ages /\ Stopped \in Clocks /\ Ages \subseteq Clocks
      /\ UptimeCap \in Nat \ {0}
  BY DurationsAssumption DEF Ages, Never, Stopped, Clocks, UptimeCap
<1>2. NoAges \in [Asked -> Ages]
  BY <1>1 DEF NoAges
<1>3. NoFail \in [tries : 0 .. StartFailLimit, of : Ages, last : 0 .. Interval]
  BY <1>1 DEF NoFail, StartFailLimit, Interval
<1>4. NoSnap \in [up : BOOLEAN, hold : {"none", "off", "on"}, wake : [Asked -> Ages]]
  BY <1>2 DEF NoSnap
<1>5. NoPlan \in Plans
  BY <1>1, <1>2 DEF NoPlan, Plans, Modes
<1>6. NoProbe \in [actual : {"up", "down", "unknown"}, age : 0 .. ProbeMaxAge + 1]
  BY InstanceAssumption DEF NoProbe
<1> QED
  BY <1>1, <1>2, <1>3, <1>4, <1>5, <1>6

(* An age that grows stays an age. *)
LEMMA OlderType == ASSUME NEW a \in Ages PROVE Older(a) \in Ages
BY DurationsAssumption DEF Older, Ages, Never

(* A failure record stays a failure record, and never counts past the limit. *)
LEMMA CountFailureType ==
    ASSUME TypeOK, NEW v \in Asked
    PROVE  CountFailure(v) \in [tries : 0 .. StartFailLimit, of : Ages, last : 0 .. Interval]
<1> DEFINE R == [tries : 0 .. StartFailLimit, of : Ages, last : 0 .. Interval]
           f == IF fails[v].of # snap.wake[v] THEN [NoFail EXCEPT !.of = snap.wake[v]] ELSE fails[v]
<1>1. fails[v] \in R /\ snap.wake[v] \in Ages
  BY DEF TypeOK
<1>2. [NoFail EXCEPT !.of = snap.wake[v]] \in R
  BY <1>1 DEF NoFail, StartFailLimit, Interval
<1>3. f \in R
  BY <1>1, <1>2
<1>4. ASSUME NEW h \in R, h.tries # StartFailLimit
      PROVE  [h EXCEPT !.tries = h.tries + 1, !.last = 0] \in R
  <2>1. h.tries + 1 \in 0 .. StartFailLimit /\ 0 \in 0 .. Interval
    BY <1>4 DEF StartFailLimit, Interval
  <2> QED
    BY <2>1
<1> QED
  BY <1>3, <1>4 DEF CountFailure

(* The order of execute() only names steps there are. *)
LEMMA StepTypes ==
    ASSUME NEW p \in Plans
    PROVE  /\ FirstStep(p) \in Steps /\ AfterMigrate(p) \in Steps /\ AfterStop(p) \in Steps
           /\ AfterWake(p) \in Steps /\ AfterStart(p) \in Steps /\ AfterRestore(p) \in Steps
BY DEF FirstStep, AfterMigrate, AfterStop, AfterWake, AfterStart, AfterRestore, Steps

(* What a tick observes is a snapshot Decide is defined for. *)
LEMMA ObservedType ==
    ASSUME TypeOK, NEW r \in Readings, NEW up \in BOOLEAN
    PROVE  Observed(r, up) \in Snapshots
<1>1. r.surplus \in Int /\ r.soc \in Int
  BY InstanceAssumption
<1>2. uptime \in Nat
  BY Basics DEF TypeOK
<1>3. running \subseteq Guests
  BY DEF TypeOK
<1> QED
  BY <1>1, <1>2, <1>3 DEF TypeOK, Observed, Snapshots

-----------------------------------------------------------------------------
(* Every step keeps the types. *)
LEMMA TypeStep == ASSUME TypeOK, [Next]_vars PROVE TypeOK'
<1> USE DEF persisted, memory, tick, p1, remote
<1> USE DEF TypeOK
<1> DEFINE Ticking == /\ pc' \in Steps /\ plan' \in Plans
                      /\ snap' \in [up : BOOLEAN, hold : {"none", "off", "on"}, wake : [Asked -> Ages]]
<1>a. EndTick => Ticking
  BY Basics DEF EndTick, Steps
<1>b. ASSUME NEW step \in Steps, Continue(step) PROVE Ticking
  BY <1>b DEF Continue
<1>c. plan \in Plans /\ {"save", "stopping", "waking", "poweroff"} \subseteq Steps
  BY DEF Steps
<1>e. ASSUME Ticking, UNCHANGED <<persisted, wake, pendingStop, p1, probe, inFlight>>,
             UNCHANGED <<askedOff, streak, fails>>,
             req' \in {"none", "on", "off", "hold"}, silenced' \in BOOLEAN, replOff' \in BOOLEAN
      PROVE  TypeOK'
  BY <1>e
<1>f. ASSUME UNCHANGED <<persisted, wake, remote, stopTask, onNode, uptime, fails, streak>>,
             Ticking, req' \in {"none", "on", "off", "hold"},
             host' \in {"off", "booting", "up", "goingDown"}, running' = running,
             askedOff' \in BOOLEAN, pendingStop' \in BOOLEAN, inFlight' \in BOOLEAN
      PROVE  TypeOK'
  BY <1>f
<1> HIDE DEF Ticking
<1>1. CASE ObserveFails
  BY <1>1 DEF ObserveFails, HoldPower, Wish
<1>2. CASE ReadIntent
  <2>1. requestedWake \in [Asked -> Ages]
    BY Basics DEF requestedWake
  <2>2. snap' \in [up : BOOLEAN, hold : {"none", "off", "on"}, wake : [Asked -> Ages]]
    BY Basics, InstanceAssumption, <1>2, <2>1 DEF ReadIntent, NoSnap
  <2>3. Ticking
    BY <1>2, <1>c, <2>2 DEF ReadIntent, Steps, Ticking
  <2>4. UNCHANGED <<persisted, wake, memory, p1, req, remote, inFlight>>
    BY <1>2 DEF ReadIntent
  <2> QED
    BY <1>e, <2>3, <2>4
<1>3. CASE ReadUp
  <2>1. PICK r \in Readings : plan' = Decide(Observed(r, TRUE))
    BY <1>3 DEF ReadUp, Decided
  <2>2. plan' \in Plans
    BY ObservedType, DecideType, <2>1
  <2>3. streak' \in 0 .. NodeDownConfirm
    BY <1>3 DEF ReadUp, NodeDownConfirm
  <2>4. snap' \in [up : BOOLEAN, hold : {"none", "off", "on"}, wake : [Asked -> Ages]]
        /\ pc' \in Steps
    BY <1>3 DEF ReadUp, Decided, Steps
  <2> QED
    BY <1>3, <2>2, <2>3, <2>4 DEF ReadUp
<1>4. CASE ReadDown
  <2>1. plan' \in Plans
    BY ObservedType, DecideType, <1>4 DEF ReadDown, Decided
  <2>2. streak' \in 0 .. NodeDownConfirm
    BY <1>4 DEF ReadDown, NextStreak, NodeDownConfirm
  <2>3. snap' \in [up : BOOLEAN, hold : {"none", "off", "on"}, wake : [Asked -> Ages]]
        /\ pc' \in Steps
    BY <1>4 DEF ReadDown, Decided, Steps
  <2>4. UNCHANGED <<persisted, wake, fails, p1, req, remote, inFlight>>
        /\ askedOff' = FALSE /\ pendingStop' = FALSE
    BY <1>4 DEF ReadDown
  <2> QED
    BY <2>1, <2>2, <2>3, <2>4
<1>5. CASE ReadUnconfirmed
  BY Basics, <1>5 DEF ReadUnconfirmed, HoldPower, Wish, EndTick, NextStreak, NodeDownConfirm, Steps
<1>6. CASE Apply
  <2>1. Ticking
    BY StepTypes, <1>a, <1>b, <1>c, <1>6 DEF Apply
  <2>2. req' \in {"none", "on", "off", "hold"}
    BY <1>6 DEF Apply, Restate, Wish, powerWish
  <2>3. silenced' \in BOOLEAN
    BY <1>6 DEF Apply, Silence
  <2>4. replOff' \in BOOLEAN
    BY <1>6 DEF Apply, Replicate
  <2>5. UNCHANGED <<persisted, wake, memory, p1, probe, inFlight>>
    BY <1>6 DEF Apply
  <2> QED
    BY <1>e, <2>1, <2>2, <2>3, <2>4, <2>5
<1>7. CASE ApplyFails
  <2>1. Ticking
    BY StepTypes, <1>a, <1>b, <1>c, <1>7 DEF ApplyFails
  <2>2. req' \in {"none", "on", "off", "hold"}
    BY <1>7 DEF ApplyFails, Restate, Wish, powerWish
  <2>3. silenced' \in BOOLEAN
    BY <1>7 DEF ApplyFails, Silence
  <2>4. replOff' \in BOOLEAN
    BY <1>7 DEF ApplyFails, Replicate
  <2>5. UNCHANGED <<persisted, wake, memory, p1, probe, inFlight>>
    BY <1>7 DEF ApplyFails
  <2> QED
    BY <1>e, <2>1, <2>2, <2>3, <2>4, <2>5
<1>8. CASE Migrated
  BY StepTypes, <1>8 DEF Migrated, Continue
<1>9. CASE MigrateFails
  BY Basics, <1>9 DEF MigrateFails, EndTick, Steps
<1>10. CASE StopAll
  BY StepTypes, <1>10 DEF StopAll, Continue, Steps, Plans
<1>11. CASE StopFinished
  BY StepTypes, <1>11 DEF StopFinished, Continue
<1>12. CASE StopInterrupted
  BY StepTypes, <1>12 DEF StopInterrupted, Continue, Steps
<1>13. CASE StopFails
  BY Basics, <1>13 DEF StopFails, EndTick, Steps
<1>14. CASE Wake
  <2>1. Ticking
    BY <1>a, <1>b, <1>c, <1>14 DEF Wake
  <2>2. req' \in {"none", "on", "off", "hold"} /\ host' \in {"off", "booting", "up", "goingDown"}
    BY <1>14 DEF Wake
  <2>3. askedOff' \in BOOLEAN /\ inFlight' \in BOOLEAN
    BY <1>14 DEF Wake
  <2>4. UNCHANGED <<persisted, wake, streak, pendingStop, fails, uptime, onNode, running, stopTask, remote>>
    BY <1>14 DEF Wake
  <2> QED
    BY <1>f, <2>1, <2>2, <2>3, <2>4
<1>15. CASE WakeFails
  <2>1. Ticking
    BY <1>a, <1>b, <1>c, <1>15 DEF WakeFails
  <2>2. req' \in {"none", "on", "off", "hold"} /\ host' \in {"off", "booting", "up", "goingDown"}
    BY <1>15 DEF WakeFails
  <2>3. askedOff' \in BOOLEAN /\ inFlight' \in BOOLEAN
    BY <1>15 DEF WakeFails
  <2>4. UNCHANGED <<persisted, wake, streak, pendingStop, fails, uptime, onNode, running, stopTask, remote>>
    BY <1>15 DEF WakeFails
  <2> QED
    BY <1>f, <2>1, <2>2, <2>3, <2>4
<1>16. CASE Awake
  BY StepTypes, <1>16 DEF Awake, Continue
<1>17. CASE WakeTimesOut
  BY Basics, <1>17 DEF WakeTimesOut, EndTick, Steps
<1>18. CASE StartRequested
  BY StepTypes, CountFailureType, Basics, <1>18 DEF StartRequested, Continue
<1>19. CASE StartUnlisted
  BY StepTypes, <1>19 DEF StartUnlisted, Continue
<1>20. CASE RestoreStopped
  <2>1. Ticking
    BY StepTypes, <1>b, <1>c, <1>20 DEF RestoreStopped
  <2>2. running' \subseteq onNode /\ onNode' = onNode
    BY <1>20 DEF RestoreStopped
  <2>3. UNCHANGED <<persisted, wake, askedOff, streak, fails, host, uptime, stopTask, req, remote, inFlight>>
        /\ pendingStop' = FALSE
    BY <1>20 DEF RestoreStopped
  <2> QED
    BY <2>1, <2>2, <2>3 DEF Ticking
<1>21. CASE RestoreFails
  <2>1. Ticking
    BY <1>a, <1>21 DEF RestoreFails
  <2>2. UNCHANGED <<persisted, wake, askedOff, streak, fails, p1, req, remote, inFlight>>
        /\ pendingStop' = FALSE
    BY <1>21 DEF RestoreFails
  <2> QED
    BY <2>1, <2>2 DEF Ticking
<1>22. CASE Recheck
  BY StepTypes, <1>22 DEF Recheck, Continue, Steps
<1>23. CASE PowerOff
  <2>1. inFlight' \in BOOLEAN /\ askedOff' \in BOOLEAN
    BY <1>23 DEF PowerOff
  <2>2. replOff' \in BOOLEAN
    BY <1>23 DEF PowerOff, Replicate
  <2>3. pc' \in Steps /\ snap' \in [up : BOOLEAN, hold : {"none", "off", "on"}, wake : [Asked -> Ages]]
        /\ plan' \in Plans /\ req' \in {"none", "on", "off", "hold"}
    BY Basics, <1>23 DEF PowerOff, EndTick, Continue, Steps
  <2> QED
    BY <1>23, <2>1, <2>2, <2>3 DEF PowerOff
<1>24. CASE ShutdownNode
  <2>1. Ticking
    BY <1>a, <1>b, <1>c, <1>24 DEF ShutdownNode
  <2>2. replOff' \in BOOLEAN /\ host' \in {"off", "booting", "up", "goingDown"}
    BY <1>24 DEF ShutdownNode, Replicate
  <2>3. UNCHANGED <<persisted, wake, memory, uptime, onNode, running, stopTask, req, silenced, probe, inFlight>>
    BY <1>24 DEF ShutdownNode
  <2> QED
    BY <2>1, <2>2, <2>3 DEF Ticking
<1>25. CASE Save
  BY Basics, <1>25 DEF Save, EndTick, Steps, Plans
<1>26. ASSUME NEW v \in Asked, Press(v) PROVE TypeOK'
  BY Basics, <1>26 DEF Press
<1>27. ASSUME NEW v \in Asked, PowerAction(v) PROVE TypeOK'
  BY Basics, <1>27 DEF PowerAction
<1>28. ASSUME NEW g \in Guests, GuestStops(g) PROVE TypeOK'
  BY Basics, <1>28 DEF GuestStops
<1>29. ASSUME NEW g \in Guests, GuestStarts(g) PROVE TypeOK'
  BY Basics, <1>29 DEF GuestStarts
<1>30. ASSUME NEW g \in Guests, MovedBack(g) PROVE TypeOK'
  BY Basics, <1>30 DEF MovedBack
<1>31. CASE StopTaskStep
  BY <1>31 DEF StopTaskStep
<1>32. CASE Booted
  BY Basics, <1>32 DEF Booted
<1>33. CASE ShutDown
  <2>1. 0 \in 0 .. UptimeCap
    BY Basics
  <2> QED
    BY <1>33, <2>1 DEF ShutDown, GoneDown
<1>34. CASE HostLost
  <2>1. 0 \in 0 .. UptimeCap
    BY Basics
  <2> QED
    BY <1>34, <2>1 DEF HostLost, GoneDown
<1>35. CASE HandOn
  BY <1>35 DEF HandOn
<1>36. CASE NutDogPoll
  BY <1>36 DEF NutDogPoll
<1>37. CASE NutDogRestart
  BY Basics, <1>37 DEF NutDogRestart
<1>d. CASE NutDogProbes
  <2>1. 0 \in 0 .. ProbeMaxAge + 1
    BY InstanceAssumption
  <2> QED
    BY <1>d, <2>1 DEF NutDogProbes
<1>38. CASE Crash
  <2>1. streak' \in 0 .. NodeDownConfirm
    BY <1>38 DEF Crash, NodeDownConfirm
  <2>2. pc' \in Steps
    BY <1>38 DEF Crash, EndTick, Steps
  <2> QED
    BY Basics, <1>38, <2>1, <2>2 DEF Crash, EndTick
<1>39. CASE Tick
  <2>1. \A f \in [Asked -> Ages] : OlderAges(f) \in [Asked -> Ages]
    BY OlderType DEF OlderAges
  <2>2. \A c \in Clocks : OlderClock(c) \in Clocks
    BY OlderType DEF OlderClock, Clocks
  <2>3. wake' \in [Asked -> Ages] /\ done' \in [Asked -> Ages] /\ grace' \in Clocks
    BY <1>39, <2>1, <2>2 DEF Tick
  <2>4. snap' \in [up : BOOLEAN, hold : {"none", "off", "on"}, wake : [Asked -> Ages]]
    BY <1>39, <2>1 DEF Tick
  <2>5. plan' \in Plans
    BY <1>39, <2>1, <2>2 DEF Tick, Plans
  <2>6. fails' \in [Asked -> [tries : 0 .. StartFailLimit, of : Ages, last : 0 .. Interval]]
    <3> DEFINE R == [tries : 0 .. StartFailLimit, of : Ages, last : 0 .. Interval]
    <3>1. ASSUME NEW f \in R
          PROVE  [f EXCEPT !.of = Older(@), !.last = IF @ < Interval THEN @ + 1 ELSE @] \in R
      <4>1. Older(f.of) \in Ages
        BY OlderType
      <4>2. (IF f.last < Interval THEN f.last + 1 ELSE f.last) \in 0 .. Interval
        BY DEF Interval
      <4> QED
        BY <4>1, <4>2
    <3>2. \A v \in Asked : fails[v] \in R
      OBVIOUS
    <3>3. fails' = [v \in Asked |->
              IF Older(fails[v].of) = Never THEN NoFail
              ELSE [fails[v] EXCEPT !.of = Older(@), !.last = IF @ < Interval THEN @ + 1 ELSE @]]
      BY <1>39 DEF Tick
    <3> QED
      BY Basics, <3>1, <3>2, <3>3
  <2>7. uptime' \in 0 .. UptimeCap
    <3>1. UptimeCap \in Nat /\ uptime \in 0 .. UptimeCap
      BY Basics
    <3>2. uptime' = uptime \/ (uptime < UptimeCap /\ uptime' = uptime + 1)
      BY <1>39 DEF Tick
    <3> QED
      BY <3>1, <3>2
  <2>8. probe' \in [actual : {"up", "down", "unknown"}, age : 0 .. ProbeMaxAge + 1]
    <3>1. probe.age + 1 \in 0 .. ProbeMaxAge + 1 \/ probe.age > ProbeMaxAge
      BY InstanceAssumption
    <3> QED
      BY <1>39, <3>1 DEF Tick
  <2> QED
    BY <1>39, <2>3, <2>4, <2>5, <2>6, <2>7, <2>8 DEF Tick
<1>40. CASE UNCHANGED vars
  BY <1>40 DEF vars
<1> QED
  BY <1>1, <1>2, <1>3, <1>4, <1>5, <1>6, <1>7, <1>8, <1>9, <1>10, <1>11, <1>12, <1>13, <1>14, <1>15, <1>16, <1>17, <1>18, <1>19, <1>20, <1>21, <1>22, <1>23, <1>24, <1>25, <1>26, <1>27, <1>28, <1>29, <1>30, <1>31, <1>32, <1>33, <1>34, <1>35, <1>36, <1>37, <1>38, <1>39, <1>40, <1>d
     DEF Next, Loop, World

(* The first state has the types. *)
LEMMA TypeStart == ASSUME Init PROVE TypeOK
<1>1. uptime \in 0 .. UptimeCap /\ streak \in 0 .. NodeDownConfirm
  BY Basics DEF Init, NodeDownConfirm
<1>2. fails \in [Asked -> [tries : 0 .. StartFailLimit, of : Ages, last : 0 .. Interval]]
  BY Basics DEF Init
<1>3. mode \in Modes /\ grace \in Clocks /\ pc \in Steps
  BY Basics DEF Init, Modes, Steps
<1>4. onNode \subseteq Guests /\ running \subseteq onNode
  BY DEF Init
<1> QED
  BY Basics, <1>1, <1>2, <1>3, <1>4 DEF Init, TypeOK

(* The variables always hold what the code's can hold: whatever fails and   *)
(* whoever interferes, no step leaves state.json, the controller's memory,  *)
(* the plan being carried out or the guest sets of p1 ill-formed.           *)
THEOREM TypeCorrect == Spec => []TypeOK
<1>1. Init => TypeOK
  BY TypeStart
<1>2. TypeOK /\ [Next]_vars => TypeOK'
  BY TypeStep
<1> QED
  BY <1>1, <1>2, PTL DEF Spec

-----------------------------------------------------------------------------
(* The inductive strengthening of ShedRemembered: what is in flight is in  *)
(* flight on a host that is still online, so believing that p1 is down     *)
(* (the only place a tick forgets the off) ends it in reality, too.        *)
ShedInv ==
    /\ inFlight => host \in Online
    /\ ShedRemembered

(* Every step keeps ShedInv, as long as Proxmox reads an online p1 as       *)
(* online and the wake request gets through.                                *)
LEMMA ShedInvStep ==
    ASSUME "offline" \notin Faults, "on" \notin Faults, ShedInv, [Next]_vars
    PROVE  ShedInv'
<1> USE DEF persisted, memory, tick, p1, remote, ShedInv, ShedRemembered, Online
<1>1. CASE ObserveFails
  BY <1>1 DEF ObserveFails
<1>2. CASE ReadIntent
  BY <1>2 DEF ReadIntent
<1>3. CASE ReadUp
  BY <1>3 DEF ReadUp
<1>4. CASE ReadDown
  BY <1>4 DEF ReadDown, ReadsOnline
<1>5. CASE ReadUnconfirmed
  BY <1>5 DEF ReadUnconfirmed
<1>6. CASE Apply
  BY <1>6 DEF Apply
<1>7. CASE ApplyFails
  BY <1>7 DEF ApplyFails
<1>8. CASE Migrated
  BY <1>8 DEF Migrated
<1>9. CASE MigrateFails
  BY <1>9 DEF MigrateFails
<1>10. CASE StopAll
  BY <1>10 DEF StopAll
<1>11. CASE StopFinished
  BY <1>11 DEF StopFinished
<1>12. CASE StopInterrupted
  BY <1>12 DEF StopInterrupted
<1>13. CASE StopFails
  BY <1>13 DEF StopFails
<1>14. CASE Wake
  BY <1>14 DEF Wake
<1>15. CASE WakeFails
  BY <1>15 DEF WakeFails
<1>16. CASE Awake
  BY <1>16 DEF Awake
<1>17. CASE WakeTimesOut
  BY <1>17 DEF WakeTimesOut
<1>18. CASE StartRequested
  BY <1>18 DEF StartRequested
<1>19. CASE StartUnlisted
  BY <1>19 DEF StartUnlisted
<1>20. CASE RestoreStopped
  BY <1>20 DEF RestoreStopped
<1>21. CASE RestoreFails
  BY <1>21 DEF RestoreFails
<1>22. CASE Recheck
  BY <1>22 DEF Recheck
<1>23. CASE PowerOff
  BY <1>23 DEF PowerOff
<1>24. CASE ShutdownNode
  BY <1>24 DEF ShutdownNode
<1>25. CASE Save
  BY <1>25 DEF Save
<1>26. ASSUME NEW v \in Asked, Press(v) PROVE ShedInv'
  BY <1>26 DEF Press
<1>27. ASSUME NEW v \in Asked, PowerAction(v) PROVE ShedInv'
  BY <1>27 DEF PowerAction
<1>28. ASSUME NEW g \in Guests, GuestStops(g) PROVE ShedInv'
  BY <1>28 DEF GuestStops
<1>29. ASSUME NEW g \in Guests, GuestStarts(g) PROVE ShedInv'
  BY <1>29 DEF GuestStarts
<1>30. ASSUME NEW g \in Guests, MovedBack(g) PROVE ShedInv'
  BY <1>30 DEF MovedBack
<1>31. CASE StopTaskStep
  BY <1>31 DEF StopTaskStep
<1>32. CASE Booted
  BY <1>32 DEF Booted
<1>33. CASE ShutDown
  BY <1>33 DEF ShutDown, GoneDown
<1>34. CASE HostLost
  BY <1>34 DEF HostLost, GoneDown
<1>35. CASE HandOn
  BY <1>35 DEF HandOn
<1>36. CASE NutDogPoll
  BY <1>36 DEF NutDogPoll
<1>37. CASE NutDogRestart
  BY <1>37 DEF NutDogRestart
<1>d. CASE NutDogProbes
  BY <1>d DEF NutDogProbes
<1>38. CASE Crash
  BY <1>38 DEF Crash
<1>39. CASE Tick
  BY <1>39 DEF Tick
<1>40. CASE UNCHANGED vars
  BY <1>40 DEF vars
<1> QED
  BY <1>1, <1>2, <1>3, <1>4, <1>5, <1>6, <1>7, <1>8, <1>9, <1>10, <1>11, <1>12, <1>13, <1>14, <1>15, <1>16, <1>17, <1>18, <1>19, <1>20, <1>21, <1>22, <1>23, <1>24, <1>25, <1>26, <1>27, <1>28, <1>29, <1>30, <1>31, <1>32, <1>33, <1>34, <1>35, <1>36, <1>37, <1>38, <1>39, <1>40, <1>d
     DEF Next, Loop, World

(* The loop never forgets an off it ordered while p1 has not been off: not  *)
(* through a blind tick, a lost request, a failed save, a stop that timed   *)
(* out or a restart of nut-dog, for any set of guests and any timing.       *)
THEOREM ShedIsRemembered ==
    ASSUME "offline" \notin Faults, "on" \notin Faults
    PROVE  Spec => []ShedRemembered
<1>1. Init => ShedInv
  BY DEF Init, ShedInv, ShedRemembered
<1>2. ShedInv /\ [Next]_vars => ShedInv'
  BY ShedInvStep
<1>3. ShedInv => ShedRemembered
  BY DEF ShedInv
<1> QED
  BY <1>1, <1>2, <1>3, PTL DEF Spec

-----------------------------------------------------------------------------
(* While a shed is remembered, whatever the loop tells nut-dog is the off   *)
(* again.                                                                   *)
LEMMA OffStandsStep ==
    ASSUME ShedInv, [Next]_vars, inFlight, inFlight', req = "off"
    PROVE  req' \in {"off", "none"}
<1> USE DEF persisted, memory, tick, p1, remote
<1>1. Delegated => askedOff
  BY DEF ShedInv, ShedRemembered
<1>2. host # "off"
  BY DEF ShedInv, Online
<1>3. CASE ObserveFails
  BY <1>1, <1>3 DEF ObserveFails, HoldPower, Wish
<1>4. CASE ReadIntent
  BY <1>4 DEF ReadIntent
<1>5. CASE ReadUp
  BY <1>5 DEF ReadUp
<1>6. CASE ReadDown
  BY <1>6 DEF ReadDown
<1>7. CASE ReadUnconfirmed
  BY <1>1, <1>7 DEF ReadUnconfirmed, HoldPower, Wish
<1>8. CASE Apply
  BY <1>1, <1>8 DEF Apply, Restate, Wish, powerWish
<1>9. CASE ApplyFails
  BY <1>1, <1>9 DEF ApplyFails, Restate, Wish, powerWish
<1>10. CASE Migrated
  BY <1>10 DEF Migrated
<1>11. CASE MigrateFails
  BY <1>11 DEF MigrateFails
<1>12. CASE StopAll
  BY <1>12 DEF StopAll
<1>13. CASE StopFinished
  BY <1>13 DEF StopFinished
<1>14. CASE StopInterrupted
  BY <1>14 DEF StopInterrupted
<1>15. CASE StopFails
  BY <1>15 DEF StopFails
<1>16. CASE Wake
  BY <1>16 DEF Wake
<1>17. CASE WakeFails
  BY <1>17 DEF WakeFails
<1>18. CASE Awake
  BY <1>18 DEF Awake
<1>19. CASE WakeTimesOut
  BY <1>19 DEF WakeTimesOut
<1>20. CASE StartRequested
  BY <1>20 DEF StartRequested
<1>21. CASE StartUnlisted
  BY <1>21 DEF StartUnlisted
<1>22. CASE RestoreStopped
  BY <1>22 DEF RestoreStopped
<1>23. CASE RestoreFails
  BY <1>23 DEF RestoreFails
<1>24. CASE Recheck
  BY <1>24 DEF Recheck
<1>25. CASE PowerOff
  BY <1>25 DEF PowerOff
<1>26. CASE ShutdownNode
  BY <1>26 DEF ShutdownNode
<1>27. CASE Save
  BY <1>27 DEF Save
<1>28. ASSUME NEW v \in Asked, Press(v) PROVE req' = req
  BY <1>28 DEF Press
<1>29. ASSUME NEW v \in Asked, PowerAction(v) PROVE req' = req
  BY <1>29 DEF PowerAction
<1>30. ASSUME NEW g \in Guests, GuestStops(g) PROVE req' = req
  BY <1>30 DEF GuestStops
<1>31. ASSUME NEW g \in Guests, GuestStarts(g) PROVE req' = req
  BY <1>31 DEF GuestStarts
<1>32. ASSUME NEW g \in Guests, MovedBack(g) PROVE req' = req
  BY <1>32 DEF MovedBack
<1>33. CASE StopTaskStep
  BY <1>33 DEF StopTaskStep
<1>34. CASE Booted
  BY <1>34 DEF Booted
<1>35. CASE ShutDown
  BY <1>35 DEF ShutDown, GoneDown
<1>36. CASE HostLost
  BY <1>36 DEF HostLost, GoneDown
<1>37. CASE HandOn
  BY <1>37 DEF HandOn
<1>38. CASE NutDogPoll
  BY <1>38 DEF NutDogPoll
<1>39. CASE NutDogRestart
  BY <1>39 DEF NutDogRestart
<1>d. CASE NutDogProbes
  BY <1>d DEF NutDogProbes
<1>40. CASE Crash
  BY <1>40 DEF Crash
<1>41. CASE Tick
  BY <1>41 DEF Tick
<1>42. CASE UNCHANGED vars
  BY <1>42 DEF vars
<1> QED
  BY <1>3, <1>4, <1>5, <1>6, <1>7, <1>8, <1>9, <1>10, <1>11, <1>12, <1>13, <1>14, <1>15, <1>16, <1>17, <1>18, <1>19, <1>20, <1>21, <1>22, <1>23, <1>24, <1>25, <1>26, <1>27, <1>28, <1>29, <1>30, <1>31, <1>32, <1>33, <1>34, <1>35, <1>36, <1>37, <1>38, <1>39, <1>40, <1>41, <1>42, <1>d
     DEF Next, Loop, World

(* No blind tick, no restate and no hold of the loop takes back an off that *)
(* nut-dog holds for a p1 that has not been off since.                      *)
THEOREM OffIsNeverTakenBack ==
    ASSUME "offline" \notin Faults, "on" \notin Faults
    PROVE  Spec => OffStands
<1>1. Init => ShedInv
  BY DEF Init, ShedInv, ShedRemembered
<1>2. ShedInv /\ [Next]_vars => ShedInv'
  BY ShedInvStep
<1>3. ShedInv /\ [Next]_vars
        => [inFlight /\ inFlight' /\ req = "off" => req' \in {"off", "none"}]_vars
  BY OffStandsStep
<1> QED
  BY <1>1, <1>2, <1>3, PTL DEF Spec, OffStands
-----------------------------------------------------------------------------
(* What module PowerOwner sees of the loop saying w, which is off whenever  *)
(* an off is remembered: the wish is off while a shed is in flight.         *)
LEMMA WishIsSaid ==
    ASSUME Delegated, ShedInv, NEW w \in {"on", "off", "hold"}, Wish(w),
           askedOff => w = "off", inFlight' = inFlight, host' = host
    PROVE  Owner!Next \/ (UNCHANGED Owner!vars)
<1>1. CASE req' = w
  BY <1>1 DEF ShedInv, ShedRemembered, Owner!Next, Owner!Say
<1>2. CASE req' = req
  BY <1>2 DEF Owner!vars
<1> QED
  BY <1>1, <1>2 DEF Wish

(* Every step of the loop, of nut-dog and of p1 is, for whoever sees only   *)
(* the wish, the commitment and p1's power, a step of module PowerOwner or  *)
(* none at all.                                                             *)
LEMMA OwnerStep ==
    ASSUME Delegated, "handOn" \notin Env, "hostLoss" \notin Env,
           TypeOK, ShedInv, [Next]_vars
    PROVE  Owner!Next \/ (UNCHANGED Owner!vars)
<1> USE DEF persisted, memory, tick, p1, remote
<1>1. inFlight => host \in {"up", "goingDown"}
  BY DEF ShedInv, Online
<1>3. CASE ObserveFails
  <2>1. UNCHANGED req \/ Wish(IF askedOff THEN "off" ELSE "hold")
    BY <1>3 DEF ObserveFails, HoldPower
  <2>2. inFlight' = inFlight /\ host' = host
    BY <1>3 DEF ObserveFails
  <2> QED
    BY <2>1, <2>2, WishIsSaid DEF Owner!vars
<1>4. CASE ReadIntent
  BY <1>4 DEF ReadIntent, Owner!vars
<1>5. CASE ReadUp
  BY <1>5 DEF ReadUp, Owner!vars
<1>6. CASE ReadDown
  BY <1>6 DEF ReadDown, Owner!vars
<1>7. CASE ReadUnconfirmed
  <2>1. UNCHANGED req \/ Wish(IF askedOff THEN "off" ELSE "hold")
    BY <1>7 DEF ReadUnconfirmed, HoldPower
  <2>2. inFlight' = inFlight /\ host' = host
    BY <1>7 DEF ReadUnconfirmed
  <2> QED
    BY <2>1, <2>2, WishIsSaid DEF Owner!vars
<1>8. CASE Apply
  <2>1. UNCHANGED req \/ Wish(powerWish)
    BY <1>8 DEF Apply, Restate
  <2>2. inFlight' = inFlight /\ host' = host
    BY <1>8 DEF Apply
  <2>3. powerWish \in {"on", "off", "hold"} /\ (askedOff => powerWish = "off")
    BY DEF powerWish
  <2> QED
    BY <2>1, <2>2, <2>3, WishIsSaid DEF Owner!vars
<1>9. CASE ApplyFails
  <2>1. UNCHANGED req \/ Wish(powerWish)
    BY <1>9 DEF ApplyFails, Restate
  <2>2. inFlight' = inFlight /\ host' = host
    BY <1>9 DEF ApplyFails
  <2>3. powerWish \in {"on", "off", "hold"} /\ (askedOff => powerWish = "off")
    BY DEF powerWish
  <2> QED
    BY <2>1, <2>2, <2>3, WishIsSaid DEF Owner!vars
<1>10. CASE Migrated
  BY <1>10 DEF Migrated, Owner!vars
<1>11. CASE MigrateFails
  BY <1>11 DEF MigrateFails, Owner!vars
<1>12. CASE StopAll
  BY <1>12 DEF StopAll, Owner!vars
<1>13. CASE StopFinished
  BY <1>13 DEF StopFinished, Owner!vars
<1>14. CASE StopInterrupted
  BY <1>14 DEF StopInterrupted, Owner!vars
<1>15. CASE StopFails
  BY <1>15 DEF StopFails, Owner!vars
<1>16. CASE Wake
  BY <1>16 DEF Wake, Owner!Next, Owner!Recall
<1>17. CASE WakeFails
  BY <1>17 DEF WakeFails, Owner!vars, Owner!Next, Owner!Recall
<1>18. CASE Awake
  BY <1>18 DEF Awake, Owner!vars
<1>19. CASE WakeTimesOut
  BY <1>19 DEF WakeTimesOut, Owner!vars
<1>20. CASE StartRequested
  BY <1>20 DEF StartRequested, Owner!vars
<1>21. CASE StartUnlisted
  BY <1>21 DEF StartUnlisted, Owner!vars
<1>22. CASE RestoreStopped
  BY <1>22 DEF RestoreStopped, Owner!vars
<1>23. CASE RestoreFails
  BY <1>23 DEF RestoreFails, Owner!vars
<1>24. CASE Recheck
  BY <1>24 DEF Recheck, Owner!vars
<1>25. CASE PowerOff
  <2>1. host' = host /\ req' \in {req, "off"} /\ inFlight' = (host \in Online)
    BY <1>25 DEF PowerOff
  <2>2. CASE host \in Online
    BY <2>1, <2>2 DEF Online, Owner!Next, Owner!Commit
  <2>3. CASE host \notin Online /\ req' = "off"
    BY <1>1, <2>1, <2>3 DEF Online, TypeOK, Owner!Next, Owner!Say
  <2>4. CASE host \notin Online /\ req' = req
    BY <1>1, <2>1, <2>4 DEF Online, TypeOK, Owner!vars
  <2> QED
    BY <2>1, <2>2, <2>3, <2>4
<1>26. CASE ShutdownNode
  BY <1>26 DEF ShutdownNode
<1>27. CASE Save
  BY <1>27 DEF Save, Owner!vars
<1>28. ASSUME NEW v \in Asked, Press(v) PROVE UNCHANGED Owner!vars
  BY <1>28 DEF Press, Owner!vars
<1>29. ASSUME NEW v \in Asked, PowerAction(v) PROVE UNCHANGED Owner!vars
  BY <1>29 DEF PowerAction, Owner!vars
<1>30. ASSUME NEW g \in Guests, GuestStops(g) PROVE UNCHANGED Owner!vars
  BY <1>30 DEF GuestStops, Owner!vars
<1>31. ASSUME NEW g \in Guests, GuestStarts(g) PROVE UNCHANGED Owner!vars
  BY <1>31 DEF GuestStarts, Owner!vars
<1>32. ASSUME NEW g \in Guests, MovedBack(g) PROVE UNCHANGED Owner!vars
  BY <1>32 DEF MovedBack, Owner!vars
<1>33. CASE StopTaskStep
  BY <1>33 DEF StopTaskStep, Owner!vars
<1>34. CASE Booted
  BY <1>34 DEF Booted, Owner!Next, Owner!Boot
<1>35. CASE ShutDown
  BY <1>35 DEF ShutDown, GoneDown, Owner!Next, Owner!Land
<1>36. CASE HostLost
  BY <1>36 DEF HostLost
<1>37. CASE HandOn
  BY <1>37 DEF HandOn
<1>38. CASE NutDogPoll
  BY <1>38 DEF NutDogPoll, Owner!Next, Owner!Obey
<1>39. CASE NutDogRestart
  BY <1>39 DEF NutDogRestart, Owner!Next, Owner!Forget
<1>d. CASE NutDogProbes
  BY <1>d DEF NutDogProbes, Owner!vars
<1>40. CASE Crash
  BY <1>40 DEF Crash, Owner!Next, Owner!Restart
<1>41. CASE Tick
  BY <1>41 DEF Tick, Owner!vars
<1>42. CASE UNCHANGED vars
  BY <1>42 DEF vars, Owner!vars
<1> QED
  BY <1>3, <1>4, <1>5, <1>6, <1>7, <1>8, <1>9, <1>10, <1>11, <1>12, <1>13, <1>14, <1>15, <1>16, <1>17, <1>18, <1>19, <1>20, <1>21, <1>22, <1>23, <1>24, <1>25, <1>26, <1>27, <1>28, <1>29, <1>30, <1>31, <1>32, <1>33, <1>34, <1>35, <1>36, <1>37, <1>38, <1>39, <1>40, <1>41, <1>42, <1>d
     DEF Next, Loop, World

(* With nut-dog on the switch and nobody else at it, the loop implements    *)
(* PowerOwner for every configuration, every timing and every other fault:  *)
(* nothing but a wish moves p1, and an off that was decided stays the wish  *)
(* until p1 has been off, a planned wake recalls it or a restart of the     *)
(* watchdog loses it.                                                       *)
THEOREM PowerIsOwned ==
    ASSUME Delegated, "offline" \notin Faults, "on" \notin Faults,
           "handOn" \notin Env, "hostLoss" \notin Env
    PROVE  Spec => OwnsPower
<1>1. Init => Owner!Init
  BY DEF Init, Owner!Init
<1>2. Init => ShedInv
  BY DEF Init, ShedInv, ShedRemembered
<1>3. ShedInv /\ [Next]_vars => ShedInv'
  BY ShedInvStep
<1>4. TypeOK /\ ShedInv /\ [Next]_vars => [Owner!Next]_(Owner!vars)
  BY OwnerStep
<1> QED
  BY <1>1, <1>2, <1>3, <1>4, TypeCorrect, PTL DEF Spec, OwnsPower, Owner!Spec

-----------------------------------------------------------------------------
(* The inductive strengthening of BudgetLasts: a request whose record is    *)
(* not expired is at least as old as the intervals its tries are apart.     *)
Spaced(f) == f.tries > 0 /\ f.of # Never => f.of >= f.tries - 1 + f.last
BudgetInv == \A v \in Asked : Spaced(fails[v])

(* A failure that is counted keeps the tries an interval apart. *)
LEMMA CountFailureSpaced ==
    ASSUME TypeOK, NEW v \in Asked, Spaced(fails[v])
    PROVE  Spaced(CountFailure(v))
<1> DEFINE R == [tries : 0 .. StartFailLimit, of : Ages, last : 0 .. Interval]
           f == IF fails[v].of # snap.wake[v] THEN [NoFail EXCEPT !.of = snap.wake[v]] ELSE fails[v]
           counts == ~((f.tries > 0 /\ f.last < Interval) \/ f.tries = StartFailLimit)
<1>1. /\ fails[v] \in R /\ snap.wake[v] \in Ages
      /\ Never \in Nat /\ Ages \subseteq Nat
  BY DurationsAssumption DEF TypeOK, Ages, Never
<1>2. f \in R /\ Spaced(f)
  <2>1. CASE fails[v].of # snap.wake[v]
    BY <1>1, <2>1 DEF NoFail, StartFailLimit, Interval, Spaced
  <2>2. CASE fails[v].of = snap.wake[v]
    BY <1>1, <2>2
  <2> QED
    BY <2>1, <2>2
<1>3. CASE counts
  <2>1. CountFailure(v) = [f EXCEPT !.tries = f.tries + 1, !.last = 0]
    BY <1>3 DEF CountFailure
  <2>2. f.tries = 0 \/ f.last = 1
    BY <1>2, <1>3 DEF StartFailLimit, Interval
  <2>3. f.tries \in Nat /\ f.of \in Nat /\ f.last \in Nat
    BY <1>1, <1>2
  <2> HIDE DEF f
  <2>4. CountFailure(v).tries = f.tries + 1 /\ CountFailure(v).of = f.of /\ CountFailure(v).last = 0
    BY <1>2, <2>1
  <2> QED
    BY <1>2, <2>2, <2>3, <2>4 DEF Spaced
<1>4. CASE ~counts
  BY <1>2, <1>4 DEF CountFailure
<1> QED
  BY <1>3, <1>4

(* Every step keeps the tries an interval apart. *)
LEMMA BudgetInvStep == ASSUME TypeOK, BudgetInv, [Next]_vars PROVE BudgetInv'
<1> USE DEF persisted, memory, tick, p1, remote
<1>1. Spaced(NoFail)
  BY DEF Spaced, NoFail
<1>2. CASE ObserveFails
  BY <1>2 DEF ObserveFails, BudgetInv
<1>3. CASE ReadIntent
  BY <1>3 DEF ReadIntent, BudgetInv
<1>4. CASE ReadUp
  BY <1>4 DEF ReadUp, BudgetInv
<1>5. CASE ReadDown
  BY <1>5 DEF ReadDown, BudgetInv
<1>6. CASE ReadUnconfirmed
  BY <1>6 DEF ReadUnconfirmed, BudgetInv
<1>7. CASE Apply
  BY <1>7 DEF Apply, BudgetInv
<1>8. CASE ApplyFails
  BY <1>8 DEF ApplyFails, BudgetInv
<1>9. CASE Migrated
  BY <1>9 DEF Migrated, BudgetInv
<1>10. CASE MigrateFails
  BY <1>10 DEF MigrateFails, BudgetInv
<1>11. CASE StopAll
  BY <1>11 DEF StopAll, BudgetInv
<1>12. CASE StopFinished
  BY <1>12 DEF StopFinished, BudgetInv
<1>13. CASE StopInterrupted
  BY <1>13 DEF StopInterrupted, BudgetInv
<1>14. CASE StopFails
  BY <1>14 DEF StopFails, BudgetInv
<1>15. CASE Wake
  BY <1>15 DEF Wake, BudgetInv
<1>16. CASE WakeFails
  BY <1>16 DEF WakeFails, BudgetInv
<1>17. CASE Awake
  BY <1>17 DEF Awake, BudgetInv
<1>18. CASE WakeTimesOut
  BY <1>18 DEF WakeTimesOut, BudgetInv
<1>19. CASE StartRequested
  <2>1. \A v \in Asked : fails'[v] \in {CountFailure(v), NoFail, fails[v]}
    BY <1>19 DEF StartRequested
  <2> QED
    BY <1>1, <2>1, CountFailureSpaced DEF BudgetInv
<1>20. CASE StartUnlisted
  BY <1>20 DEF StartUnlisted, BudgetInv
<1>21. CASE RestoreStopped
  BY <1>21 DEF RestoreStopped, BudgetInv
<1>22. CASE RestoreFails
  BY <1>22 DEF RestoreFails, BudgetInv
<1>23. CASE Recheck
  BY <1>23 DEF Recheck, BudgetInv
<1>24. CASE PowerOff
  BY <1>24 DEF PowerOff, BudgetInv
<1>25. CASE ShutdownNode
  BY <1>25 DEF ShutdownNode, BudgetInv
<1>26. CASE Save
  BY <1>26 DEF Save, BudgetInv
<1>27. ASSUME NEW v \in Asked, Press(v) PROVE BudgetInv'
  BY <1>27 DEF Press, BudgetInv
<1>28. ASSUME NEW v \in Asked, PowerAction(v) PROVE BudgetInv'
  BY <1>28 DEF PowerAction, BudgetInv
<1>29. ASSUME NEW g \in Guests, GuestStops(g) PROVE BudgetInv'
  BY <1>29 DEF GuestStops, BudgetInv
<1>30. ASSUME NEW g \in Guests, GuestStarts(g) PROVE BudgetInv'
  BY <1>30 DEF GuestStarts, BudgetInv
<1>31. ASSUME NEW g \in Guests, MovedBack(g) PROVE BudgetInv'
  BY <1>31 DEF MovedBack, BudgetInv
<1>32. CASE StopTaskStep
  BY <1>32 DEF StopTaskStep, BudgetInv
<1>33. CASE Booted
  BY <1>33 DEF Booted, BudgetInv
<1>34. CASE ShutDown
  BY <1>34 DEF ShutDown, GoneDown, BudgetInv
<1>35. CASE HostLost
  BY <1>35 DEF HostLost, GoneDown, BudgetInv
<1>36. CASE HandOn
  BY <1>36 DEF HandOn, BudgetInv
<1>37. CASE NutDogPoll
  BY <1>37 DEF NutDogPoll, BudgetInv
<1>38. CASE NutDogRestart
  BY <1>38 DEF NutDogRestart, BudgetInv
<1>d. CASE NutDogProbes
  BY <1>d DEF NutDogProbes, BudgetInv
<1>39. CASE Crash
  BY <1>1, <1>39 DEF Crash, BudgetInv
<1>40. CASE Tick
  <2> SUFFICES ASSUME NEW v \in Asked PROVE Spaced(fails'[v])
    BY DEF BudgetInv
  <2> DEFINE f == fails[v]
             last == IF f.last < Interval THEN f.last + 1 ELSE f.last
  <2>1. f \in [tries : 0 .. StartFailLimit, of : Ages, last : 0 .. Interval]
    BY DEF TypeOK
  <2>2. fails'[v] = IF Older(f.of) = Never THEN NoFail
                    ELSE [f EXCEPT !.of = Older(f.of), !.last = last]
    BY <1>40 DEF Tick
  <2>3. f.tries \in Nat /\ f.of \in Nat /\ f.of <= Never /\ Never \in Nat
    BY <2>1, DurationsAssumption DEF StartFailLimit, Ages, Never
  <2>4. f.last \in Nat /\ last \in Nat /\ last <= f.last + 1
    BY <2>1 DEF Interval
  <2>5. CASE Older(f.of) = Never
    BY <1>1, <2>2, <2>5
  <2>6. CASE Older(f.of) # Never
    <3> HIDE DEF last
    <3>1. Older(f.of) = f.of + 1 /\ f.of # Never
      BY <2>3, <2>6 DEF Older
    <3>2. fails'[v].tries = f.tries /\ fails'[v].of = f.of + 1 /\ fails'[v].last = last
      BY <2>1, <2>2, <2>6, <3>1
    <3>3. f.tries > 0 => f.of >= f.tries - 1 + f.last
      BY <3>1 DEF BudgetInv, Spaced
    <3> HIDE DEF f
    <3>4. f.tries > 0 => f.of + 1 >= f.tries - 1 + last
      BY <2>3, <2>4, <3>3
    <3> QED
      BY <3>2, <3>4 DEF Spaced
  <2> QED
    BY <2>5, <2>6
<1>41. CASE UNCHANGED vars
  BY <1>41 DEF vars, BudgetInv
<1> QED
  BY <1>2, <1>3, <1>4, <1>5, <1>6, <1>7, <1>8, <1>9, <1>10, <1>11, <1>12, <1>13, <1>14, <1>15, <1>16, <1>17, <1>18, <1>19, <1>20, <1>21, <1>22, <1>23, <1>24, <1>25, <1>26, <1>27, <1>28, <1>29, <1>30, <1>31, <1>32, <1>33, <1>34, <1>35, <1>36, <1>37, <1>38, <1>39, <1>40, <1>41, <1>d
     DEF Next, Loop, World

(* No request is given up on before it has had its tries, an interval       *)
(* apart: not by nudges, not by what an older request for the VM failed     *)
(* at, with any number of VMs, any faults and any restarts.                 *)
THEOREM BudgetIsKept == Spec => []BudgetLasts
<1>1. Init => BudgetInv
  BY DEF Init, BudgetInv, Spaced, NoFail
<1>2. TypeOK /\ BudgetInv /\ [Next]_vars => BudgetInv'
  BY BudgetInvStep
<1>3. TypeOK /\ BudgetInv => BudgetLasts
  <2> SUFFICES ASSUME TypeOK, BudgetInv, NEW v \in Asked, retired(v), Live(wake[v])
               PROVE  wake[v] >= (StartFailLimit - 1) * Interval
    BY DEF BudgetLasts
  <2>1. /\ fails[v] \in [tries : 0 .. StartFailLimit, of : Ages, last : 0 .. Interval]
        /\ Never \in Nat /\ Ages \subseteq Nat
    BY DurationsAssumption DEF TypeOK, Ages, Never
  <2>2. fails[v].of = wake[v] /\ fails[v].tries >= 3
    BY DEF retired, StartFailLimit
  <2>3. fails[v].of \in Nat /\ fails[v].last \in Nat
    BY <2>1, DurationsAssumption DEF Ages, Interval, StartFailLimit
  <2>4. fails[v].of # Never
    BY <2>1, <2>2, <2>3 DEF Live, Never
  <2>5. Spaced(fails[v])
    BY DEF BudgetInv
  <2>6. fails[v].of >= fails[v].tries - 1 + fails[v].last /\ fails[v].tries \in Nat
    BY <2>1, <2>2, <2>3, <2>5, <2>4 DEF Spaced, StartFailLimit
  <2> QED
    BY <2>2, <2>3, <2>6 DEF StartFailLimit, Interval
<1> QED
  BY <1>1, <1>2, <1>3, TypeCorrect, PTL DEF Spec

-----------------------------------------------------------------------------
(* What users, guests, Proxmox and nut-dog do leaves everything alone that  *)
(* the loop keeps, but for a restart of the watchdog and the passing time.  *)
LEMMA OthersStep ==
    ASSUME World
    PROVE  Crash \/ Tick \/ (UNCHANGED <<persisted, memory, tick, silenced, replOff>>)
<1> USE DEF persisted, memory, tick, p1, remote
<1>1. ASSUME NEW v \in Asked, Press(v) \/ PowerAction(v)
      PROVE  UNCHANGED <<persisted, memory, tick, silenced, replOff>>
  BY <1>1 DEF Press, PowerAction
<1>2. ASSUME NEW g \in Guests, GuestStops(g) \/ GuestStarts(g) \/ MovedBack(g)
      PROVE  UNCHANGED <<persisted, memory, tick, silenced, replOff>>
  BY <1>2 DEF GuestStops, GuestStarts, MovedBack
<1>3. CASE StopTaskStep \/ Booted
  BY <1>3 DEF StopTaskStep, Booted
<1>4. CASE ShutDown \/ HostLost
  BY <1>4 DEF ShutDown, HostLost, GoneDown
<1>5. CASE HandOn \/ NutDogPoll \/ NutDogRestart \/ NutDogProbes
  BY <1>5 DEF HandOn, NutDogPoll, NutDogRestart, NutDogProbes
<1> QED
  BY <1>1, <1>2, <1>3, <1>4, <1>5 DEF World

-----------------------------------------------------------------------------
(* A reconcile that has decided and not ended: there is a plan. *)
InTick == pc \notin {"idle", "observe"}

(* The requests a reconcile read are of guests it may start. *)
ReadsGuard == \A v \in Asked : Live(snap.wake[v]) => v \in GamingGuard

(* What a plan being carried out looks like next to the mode it was made in. *)
PlanFits ==
    /\ plan.next = "running" => plan.restore \/ mode = "running"
    /\ plan.restore => mode # "running" /\ plan.next = "running" /\ ~plan.poweroff
    /\ plan.poweroff =>
          /\ plan.next = "shed" /\ snap.up /\ mode # "shed"
          /\ ~plan.wake /\ plan.start = {}
    /\ plan.migrate # {} \/ plan.stop # {} =>
          mode = "running" /\ plan.next # "running" /\ snap.up
    /\ plan.wake => mode = "shed"
    /\ plan.start \subseteq GamingGuard

(* execute() is only ever at a step the plan asks for. *)
Asks(p, step) ==
    /\ step = "migrate" => p.migrate # {}
    /\ step \in {"stop", "stopping"} => p.stop # {}
    /\ step \in {"wake", "waking"} => p.wake
    /\ step = "start" => p.start # {}
    /\ step = "restore" => p.restore
    /\ step \in {"recheck", "poweroff"} => p.poweroff
    /\ step \notin {"idle", "observe", "apply", "save"} => Full

PlanInv == ReadsGuard /\ (InTick => PlanFits) /\ Asks(plan, pc)

(* The order of execute() names no step its plan does not ask for. *)
LEMMA StepsAreAsked ==
    ASSUME Full, NEW p \in Plans
    PROVE  /\ Asks(p, FirstStep(p)) /\ Asks(p, AfterMigrate(p)) /\ Asks(p, AfterStop(p))
           /\ Asks(p, AfterWake(p)) /\ Asks(p, AfterStart(p)) /\ Asks(p, AfterRestore(p))
<1>1. Asks(p, AfterRestore(p))
  BY DEF AfterRestore, Asks
<1>2. Asks(p, AfterStart(p))
  BY <1>1 DEF AfterStart, Asks
<1>3. Asks(p, AfterWake(p))
  BY <1>2 DEF AfterWake, Asks
<1>4. Asks(p, AfterStop(p))
  BY <1>3 DEF AfterStop, Asks
<1>5. Asks(p, AfterMigrate(p))
  BY <1>4 DEF AfterMigrate, Asks
<1>6. Asks(p, FirstStep(p))
  BY <1>5 DEF FirstStep, Asks
<1> QED
  BY <1>1, <1>2, <1>3, <1>4, <1>5, <1>6

(* A tick that ends leaves nothing to say of its plan. *)
LEMMA EndedTick == ASSUME EndTick PROVE PlanInv'
<1>1. \A v \in Asked : ~Live(NoSnap.wake[v])
  BY DurationsAssumption DEF NoSnap, NoAges, Live, Never
<1> QED
  BY <1>1 DEF EndTick, PlanInv, ReadsGuard, InTick, Asks

(* What was decided fits the mode it was decided in. *)
LEMMA DecidedFits ==
    ASSUME TypeOK, ReadsGuard, NEW up \in BOOLEAN, Decided(up), mode' = mode
    PROVE  PlanInv'
<1>1. PICK r \in Readings : plan' = Decide(Observed(r, up))
  BY DEF Decided
<1> DEFINE o == Observed(r, up)
<1>2. plan' = Decide(o) /\ o \in Snapshots
  BY <1>1, ObservedType
<1>3. o.mode = mode /\ o.up = up /\ o.wake = snap.wake
  BY DEF Observed
<1>4. Pending(o) \subseteq GamingGuard
  BY <1>3 DEF Pending, ReadsGuard
<1>5. snap'.up = up /\ snap'.wake = snap.wake /\ pc' = "apply"
  BY DEF Decided, TypeOK
<1> HIDE DEF o
<1>6. /\ plan'.next = "running" => mode = "running" \/ plan'.restore
      /\ plan'.restore => mode # "running" /\ plan'.next = "running"
      /\ plan'.migrate # {} \/ plan'.stop # {} => mode = "running" /\ plan'.next # "running" /\ up
      /\ plan'.wake => mode = "shed"
      /\ plan'.poweroff => mode # "shed"
  BY <1>2, <1>3, PlanShape
<1>7. plan'.poweroff => plan'.next = "shed" /\ up /\ ~plan'.wake /\ ~plan'.restore
  BY <1>2, <1>3, PowerOffCause
<1>8. plan'.poweroff => plan'.start = {}
  BY <1>2, StartShape
<1>9. plan'.start \subseteq GamingGuard
  BY <1>2, <1>4, PlanMarkers
<1>10. PlanFits'
  BY <1>5, <1>6, <1>7, <1>8, <1>9 DEF PlanFits
<1> QED
  BY <1>5, <1>10 DEF PlanInv, ReadsGuard, Asks

(* Carrying on with a step that is asked for keeps PlanInv. *)
LEMMA ContinuedFits ==
    ASSUME PlanInv, InTick, NEW step, Asks(plan, step), Continue(step), mode' = mode
    PROVE  PlanInv'
BY DEF PlanInv, ReadsGuard, InTick, PlanFits, Continue

(* Every step keeps the plan in line with the mode, with what was read and  *)
(* with where execute() is, under all faults and all outside moves.         *)
LEMMA PlanInvStep == ASSUME TypeOK, PlanInv, [Next]_vars PROVE PlanInv'
<1> USE DEF persisted, memory, tick, p1, remote
<1>1. plan \in Plans
  BY DEF TypeOK
<1>3. CASE ObserveFails
  BY <1>3 DEF ObserveFails, PlanInv, ReadsGuard, InTick, PlanFits
<1>4. CASE ReadIntent
  <2>1. \A v \in Asked : Live(requestedWake[v]) => v \in GamingGuard
    BY DurationsAssumption DEF requestedWake, Live, Never
  <2>2. snap'.wake = requestedWake /\ pc' = "observe"
    BY <1>4 DEF ReadIntent, NoSnap
  <2> QED
    BY <2>1, <2>2 DEF PlanInv, ReadsGuard, InTick, Asks
<1>5. CASE ReadUp
  BY <1>5, DecidedFits DEF ReadUp, PlanInv
<1>6. CASE ReadDown
  BY <1>6, DecidedFits DEF ReadDown, PlanInv
<1>7. CASE ReadUnconfirmed
  BY <1>7, EndedTick DEF ReadUnconfirmed
<1>8. CASE Apply
  <2>1. Asks(plan, IF Full THEN FirstStep(plan) ELSE "save")
    BY <1>1, StepsAreAsked DEF Asks
  <2> QED
    BY <1>8, <2>1, EndedTick, ContinuedFits DEF Apply, InTick
<1>9. CASE ApplyFails
  <2>1. Asks(plan, "save")
    BY DEF Asks
  <2> QED
    BY <1>9, <2>1, EndedTick, ContinuedFits DEF ApplyFails, InTick
<1>10. CASE Migrated
  <2>1. Full
    BY <1>10 DEF Migrated, PlanInv, Asks
  <2> QED
    BY <1>1, <1>10, <2>1, StepsAreAsked, ContinuedFits DEF Migrated, InTick
<1>11. CASE MigrateFails
  BY <1>11, EndedTick DEF MigrateFails
<1>12. CASE StopAll
  <2>1. Asks(plan, "stopping")
    BY <1>12 DEF StopAll, PlanInv, Asks
  <2> QED
    BY <1>12, <2>1, ContinuedFits DEF StopAll, InTick
<1>13. CASE StopFinished
  <2>1. Full
    BY <1>13 DEF StopFinished, PlanInv, Asks
  <2> QED
    BY <1>1, <1>13, <2>1, StepsAreAsked, ContinuedFits DEF StopFinished, InTick
<1>14. CASE StopInterrupted
  <2>1. Asks(plan, "save")
    BY DEF Asks
  <2> QED
    BY <1>14, <2>1, ContinuedFits DEF StopInterrupted, InTick
<1>15. CASE StopFails
  BY <1>15, EndedTick DEF StopFails
<1>16. CASE Wake
  <2>1. Asks(plan, "waking")
    BY <1>16 DEF Wake, PlanInv, Asks
  <2> QED
    BY <1>16, <2>1, ContinuedFits DEF Wake, InTick
<1>17. CASE WakeFails
  BY <1>17, EndedTick DEF WakeFails
<1>18. CASE Awake
  <2>1. Full
    BY <1>18 DEF Awake, PlanInv, Asks
  <2> QED
    BY <1>1, <1>18, <2>1, StepsAreAsked, ContinuedFits DEF Awake, InTick
<1>19. CASE WakeTimesOut
  BY <1>19, EndedTick DEF WakeTimesOut
<1>20. CASE StartRequested
  <2>1. Full /\ pc = "start" /\ Continue(AfterStart(plan)) /\ mode' = mode
    BY <1>20 DEF StartRequested, PlanInv, Asks
  <2> QED
    BY <1>1, <2>1, StepsAreAsked, ContinuedFits DEF InTick
<1>21. CASE StartUnlisted
  <2>1. Full
    BY <1>21 DEF StartUnlisted, PlanInv, Asks
  <2> QED
    BY <1>1, <1>21, <2>1, StepsAreAsked, ContinuedFits DEF StartUnlisted, InTick
<1>22. CASE RestoreStopped
  <2>1. Full /\ pc = "restore" /\ Continue(AfterRestore(plan)) /\ mode' = mode
    BY <1>22 DEF RestoreStopped, PlanInv, Asks
  <2> QED
    BY <1>1, <2>1, StepsAreAsked, ContinuedFits DEF InTick
<1>23. CASE RestoreFails
  BY <1>23, EndedTick DEF RestoreFails
<1>24. CASE Recheck
  <2>1. Asks(plan, "save") /\ Asks(plan, "poweroff")
    BY <1>24 DEF Recheck, PlanInv, Asks
  <2> QED
    BY <1>24, <2>1, ContinuedFits DEF Recheck, InTick
<1>25. CASE PowerOff
  <2>1. Asks(plan, "save")
    BY DEF Asks
  <2>2. pc = "poweroff" /\ mode' = mode /\ (EndTick \/ Continue("save"))
    BY <1>25 DEF PowerOff
  <2> QED
    BY <2>1, <2>2, EndedTick, ContinuedFits DEF InTick
<1>26. CASE ShutdownNode
  <2>1. Asks(plan, "save")
    BY DEF Asks
  <2>2. pc = "poweroff" /\ mode' = mode /\ (EndTick \/ Continue("save"))
    BY <1>26 DEF ShutdownNode
  <2> QED
    BY <2>1, <2>2, EndedTick, ContinuedFits DEF InTick
<1>27. CASE Save
  BY <1>27, EndedTick DEF Save
<1>28. CASE World
  <2>1. CASE Crash
    BY <2>1, EndedTick DEF Crash
  <2>2. CASE Tick
    <3>1. \A v \in Asked : Live(snap'.wake[v]) => Live(snap.wake[v])
      BY <2>2, DurationsAssumption DEF Tick, TypeOK, OlderAges, Older, Live, Ages, Never
    <3>2. /\ pc' = pc /\ mode' = mode /\ snap'.up = snap.up
          /\ plan'.migrate = plan.migrate /\ plan'.stop = plan.stop /\ plan'.restore = plan.restore
          /\ plan'.start = plan.start /\ plan'.poweroff = plan.poweroff /\ plan'.wake = plan.wake
          /\ plan'.next = plan.next
      BY <2>2 DEF Tick, TypeOK, Plans
    <3> QED
      BY <3>1, <3>2 DEF PlanInv, ReadsGuard, InTick, PlanFits, Asks
  <2>3. CASE UNCHANGED <<persisted, memory, tick, silenced, replOff>>
    BY <2>3 DEF PlanInv, ReadsGuard, InTick, PlanFits
  <2> QED
    BY <1>28, <2>1, <2>2, <2>3, OthersStep
<1>29. CASE UNCHANGED vars
  BY <1>29 DEF vars, PlanInv, ReadsGuard, InTick, PlanFits
<1> QED
  BY <1>3, <1>4, <1>5, <1>6, <1>7, <1>8, <1>9, <1>10, <1>11, <1>12, <1>13, <1>14, <1>15, <1>16, <1>17, <1>18, <1>19, <1>20, <1>21, <1>22, <1>23, <1>24, <1>25, <1>26, <1>27, <1>28, <1>29
     DEF Next, Loop

(* The plan in execution always fits the mode, the reading it was made from *)
(* and the step execute() is at.                                            *)
LEMMA PlanAlwaysFits == Spec => []PlanInv
<1>1. Init => PlanInv
  <2>1. \A v \in Asked : ~Live(NoSnap.wake[v])
    BY DurationsAssumption DEF NoSnap, NoAges, Live, Never
  <2> QED
    BY <2>1 DEF Init, PlanInv, ReadsGuard, InTick, Asks
<1>2. TypeOK /\ PlanInv /\ [Next]_vars => PlanInv'
  BY PlanInvStep
<1> QED
  BY <1>1, <1>2, TypeCorrect, PTL DEF Spec

-----------------------------------------------------------------------------
(* The steps of the loop that read, decide, wait, ask nut-dog or save leave *)
(* p1 itself alone.                                                         *)
LEMMA QuietStep ==
    ASSUME \/ ObserveFails \/ ReadIntent \/ ReadUp \/ ReadDown \/ ReadUnconfirmed
           \/ Apply \/ ApplyFails \/ StopFinished \/ StopInterrupted
           \/ Awake \/ WakeTimesOut \/ StartUnlisted \/ RestoreFails
           \/ Recheck \/ PowerOff \/ Save
    PROVE  UNCHANGED p1
<1>1. CASE ObserveFails \/ ReadIntent \/ ReadUp \/ ReadDown \/ ReadUnconfirmed
  BY <1>1 DEF ObserveFails, ReadIntent, ReadUp, ReadDown, ReadUnconfirmed, p1
<1>2. CASE Apply \/ ApplyFails \/ StopFinished \/ StopInterrupted
  BY <1>2 DEF Apply, ApplyFails, StopFinished, StopInterrupted, p1
<1>3. CASE Awake \/ WakeTimesOut \/ StartUnlisted \/ RestoreFails
  BY <1>3 DEF Awake, WakeTimesOut, StartUnlisted, RestoreFails, p1
<1>4. CASE Recheck \/ PowerOff \/ Save
  BY <1>4 DEF Recheck, PowerOff, Save, p1
<1> QED
  BY <1>1, <1>2, <1>3, <1>4

(* Nothing runs, and no stop task works, on a host that is off or booting. *)
NothingRunsDark == host \notin Online => running = {} /\ stopTask = {}

(* Every step keeps a dark host empty. *)
LEMMA DarkStep == ASSUME TypeOK, NothingRunsDark, [Next]_vars PROVE NothingRunsDark'
<1> USE DEF NothingRunsDark, Online, p1
<1>1. CASE UNCHANGED p1
  BY <1>1
<1>2. CASE Migrated
  BY <1>2 DEF Migrated
<1>3. CASE MigrateFails
  BY <1>3 DEF MigrateFails
<1>4. CASE StopAll
  BY <1>4 DEF StopAll
<1>5. CASE StopFails
  BY <1>5 DEF StopFails
<1>6. CASE Wake \/ WakeFails
  BY <1>6 DEF Wake, WakeFails
<1>7. CASE StartRequested
  BY <1>7 DEF StartRequested
<1>8. CASE RestoreStopped
  BY <1>8 DEF RestoreStopped
<1>9. CASE ShutdownNode
  BY <1>9 DEF ShutdownNode
<1>10. ASSUME NEW v \in Asked, Press(v) \/ PowerAction(v) PROVE NothingRunsDark'
  BY <1>10 DEF Press, PowerAction
<1>11. ASSUME NEW g \in Guests, GuestStops(g) \/ GuestStarts(g) \/ MovedBack(g)
       PROVE  NothingRunsDark'
  BY <1>11 DEF GuestStops, GuestStarts, MovedBack
<1>12. CASE StopTaskStep
  BY <1>12 DEF StopTaskStep
<1>13. CASE Booted
  BY <1>13 DEF Booted
<1>14. CASE ShutDown \/ HostLost
  BY <1>14 DEF ShutDown, HostLost, GoneDown
<1>15. CASE HandOn \/ NutDogPoll
  BY <1>15 DEF HandOn, NutDogPoll
<1>16. CASE NutDogRestart \/ NutDogProbes \/ Crash \/ Tick
  BY <1>16 DEF NutDogRestart, NutDogProbes, Crash, Tick
<1>17. CASE UNCHANGED vars
  BY <1>17 DEF vars
<1> QED
  BY <1>1, <1>2, <1>3, <1>4, <1>5, <1>6, <1>7, <1>8, <1>9, <1>10, <1>11, <1>12, <1>13, <1>14, <1>15, <1>16, <1>17, QuietStep
     DEF Next, Loop, World

(* Whatever fails and whoever interferes, a host that is not online runs no *)
(* guest and no stop task.                                                  *)
LEMMA NothingEverRunsDark == Spec => []NothingRunsDark
<1>1. Init => NothingRunsDark
  BY DEF Init, NothingRunsDark, Online
<1>2. TypeOK /\ NothingRunsDark /\ [Next]_vars => NothingRunsDark'
  BY DarkStep
<1> QED
  BY <1>1, <1>2, TypeCorrect, PTL DEF Spec

-----------------------------------------------------------------------------
(* There is no sun in this instance: no reading and no hold of it make a    *)
(* surplus.                                                                 *)
NoSun == "on" \notin Holds /\ \A r \in Readings : classify(r.surplus, r.soc) # "surplus"

(* There is nothing but deficit in this instance, whatever the hold and the *)
(* uptime of p1.                                                            *)
AlwaysDeficit ==
    /\ MinRuntime = 0 /\ "on" \notin Holds
    /\ \A r \in Readings : classify(r.surplus, r.soc) = "deficit"

(* Without sun no plan restores, and p1 is only woken from off; in an       *)
(* unbroken deficit no plan leaves the mode running.                        *)
NightInv == /\ snap.hold # "on"
            /\ InTick => ~plan.restore /\ (plan.wake => ~snap.up)
            /\ AlwaysDeficit /\ InTick => plan.next # "running"

(* A deficit is never answered with the mode running. *)
LEMMA DeficitLeaves ==
    ASSUME NEW s \in Snapshots, Signal(s) = "deficit"
    PROVE  Decide(s).next # "running"
<1>1. CASE s.mode = "running"
  BY <1>1 DEF Decide, DecideRunning, Stay
<1>2. CASE s.mode = "shed"
  BY <1>2 DEF Decide, DecideShed, Stay
<1>3. CASE s.mode = "gaming"
  BY <1>3 DEF Decide, DecideGaming, Stay
<1> QED
  BY <1>1, <1>2, <1>3 DEF Snapshots, Modes

(* What a tick decides without sun. *)
LEMMA DecidedAtNight ==
    ASSUME NoSun, TypeOK, NightInv, NEW up \in BOOLEAN, Decided(up)
    PROVE  NightInv'
<1>1. PICK r \in Readings : plan' = Decide(Observed(r, up))
  BY DEF Decided
<1> DEFINE o == Observed(r, up)
<1>2. plan' = Decide(o) /\ o \in Snapshots
  BY <1>1, ObservedType
<1>3. o.up = up /\ Signal(o) # "surplus"
  BY DEF Observed, Signal, NoSun, NightInv
<1>4. snap'.up = up /\ snap'.hold = snap.hold
  BY DEF Decided, TypeOK
<1> HIDE DEF o
<1>5. ~plan'.restore /\ (plan'.wake => ~up)
  BY <1>2, <1>3, PlanShape
<1>6. ASSUME AlwaysDeficit PROVE plan'.next # "running"
  <2>1. Signal(o) = "deficit"
    BY <1>6, DurationsAssumption DEF o, Observed, Signal, AlwaysDeficit, NightInv, minRuntimeHold
  <2> QED
    BY <1>2, <2>1, DeficitLeaves
<1> QED
  BY <1>4, <1>5, <1>6 DEF NightInv

(* The plans of an instance without sun. *)
LEMMA NightStep == ASSUME NoSun, TypeOK, NightInv, [Next]_vars PROVE NightInv'
<1> USE DEF tick
<1>1. ASSUME EndTick PROVE NightInv'
  BY <1>1 DEF EndTick, NightInv, NoSnap, InTick
<1>2. ASSUME InTick, NEW step, Continue(step) PROVE NightInv'
  BY <1>2 DEF Continue, NightInv
<1>3. CASE UNCHANGED tick
  BY <1>3 DEF NightInv, InTick
<1>4. CASE ReadIntent
  BY <1>4 DEF ReadIntent, NoSun, NightInv, InTick, NoSnap
<1>5. CASE ReadUp \/ ReadDown
  BY <1>5, DecidedAtNight DEF ReadUp, ReadDown
<1>6. CASE Tick
  BY <1>6 DEF Tick, NightInv, InTick, TypeOK, Plans
<1>7. CASE ObserveFails \/ ReadUnconfirmed
  BY <1>1, <1>3, <1>7 DEF ObserveFails, ReadUnconfirmed
<1>8. CASE Apply \/ ApplyFails
  BY <1>1, <1>2, <1>8 DEF Apply, ApplyFails, InTick
<1>9. CASE Migrated \/ MigrateFails \/ StopAll \/ StopFinished \/ StopInterrupted \/ StopFails
  BY <1>1, <1>2, <1>9 DEF Migrated, MigrateFails, StopAll, StopFinished, StopInterrupted, StopFails, InTick
<1>10. CASE Wake \/ WakeFails \/ Awake \/ WakeTimesOut
  BY <1>1, <1>2, <1>10 DEF Wake, WakeFails, Awake, WakeTimesOut, InTick
<1>11. CASE StartRequested
  <2>1. pc = "start" /\ Continue(AfterStart(plan))
    BY <1>11 DEF StartRequested
  <2> QED
    BY <1>2, <2>1 DEF InTick
<1>12. CASE RestoreStopped
  <2>1. pc = "restore" /\ Continue(AfterRestore(plan))
    BY <1>12 DEF RestoreStopped
  <2> QED
    BY <1>2, <2>1 DEF InTick
<1>13. CASE StartUnlisted \/ RestoreFails
  BY <1>1, <1>2, <1>13 DEF StartUnlisted, RestoreFails, InTick
<1>14. CASE Recheck
  BY <1>2, <1>14 DEF Recheck, InTick
<1>15. CASE PowerOff \/ ShutdownNode
  <2>1. pc = "poweroff" /\ (EndTick \/ Continue("save"))
    BY <1>15 DEF PowerOff, ShutdownNode
  <2> QED
    BY <1>1, <1>2, <2>1 DEF InTick
<1>16. CASE Save \/ Crash
  BY <1>1, <1>16 DEF Save, Crash
<1>17. CASE UNCHANGED vars
  BY <1>3, <1>17 DEF vars
<1> QED
  BY <1>3, <1>4, <1>5, <1>6, <1>7, <1>8, <1>9, <1>10, <1>11, <1>12, <1>13, <1>14, <1>15, <1>16, <1>17, OthersStep
     DEF Next, Loop

(* Without sun no plan ever restores. *)
LEMMA NightAlways == ASSUME NoSun PROVE Spec => []NightInv
<1>1. Init => NightInv
  BY DEF Init, NightInv, NoSnap, InTick
<1>2. TypeOK /\ NightInv /\ [Next]_vars => NightInv'
  BY NightStep
<1> QED
  BY <1>1, <1>2, TypeCorrect, PTL DEF Spec

-----------------------------------------------------------------------------
(* The shed posture of p1: the critical guests are gone, and the stop class *)
(* is down or going down.                                                   *)
Cleared == running \cap Migrate = {} /\ running \cap Stop \subseteq stopTask

(* The inductive strengthening of OffComesLast: in the modes shed and       *)
(* gaming p1 is in the shed posture, but for a restore about to be saved;   *)
(* and a tick that leaves the mode running still has to move and stop only  *)
(* what its plan names, with the alerts silenced once it has begun.         *)
ShedPosture ==
    /\ running \cap Migrate \subseteq (IF pc \in {"apply", "migrate"} THEN plan.migrate ELSE {})
    /\ running \cap Stop \subseteq
          stopTask \cup (IF pc \in {"apply", "migrate", "stop"} THEN plan.stop ELSE {})
    /\ pc # "apply" => silenced
Posture ==
    /\ mode # "running" /\ ~(pc = "save" /\ plan.restore) => Cleared
    /\ InTick /\ plan.next # "running" => ShedPosture

(* Nobody but the loop puts guests of the two classes on p1. *)
ClassesAreOurs ==
    /\ "autostart" \notin Env /\ "moveBack" \notin Env
    /\ Touched \cap (Migrate \cup Stop) = {}

(* A restore is saved, or there is none. *)
RestoresSaved == NightInv \/ ("save" \notin Faults /\ "crash" \notin Env)

(* A tick that ends keeps the posture, unless it restored and did not save. *)
LEMMA EndedPosture ==
    ASSUME Posture, EndTick, mode' = mode, running' \subseteq running,
           mode = "running" \/ stopTask' = stopTask,
           ~(pc = "save" /\ plan.restore)
    PROVE  Posture'
BY DEF EndTick, Posture, Cleared, InTick

(* A decision keeps the posture: in running it names every guest to clear,  *)
(* and the other modes find p1 cleared.                                     *)
LEMMA DecidedPosture ==
    ASSUME TypeOK, NothingRunsDark, Posture, pc = "observe",
           NEW up \in BOOLEAN, Decided(up), up \/ host \notin Online,
           mode' = mode, UNCHANGED p1
    PROVE  Posture'
<1>1. PICK r \in Readings : plan' = Decide(Observed(r, up))
  BY DEF Decided
<1> DEFINE o == Observed(r, up)
<1>2. plan' = Decide(o) /\ o \in Snapshots
  BY <1>1, ObservedType
<1>3. o.mode = mode /\ o.up = up /\ o.running = (IF up THEN running ELSE {}) /\ pc' = "apply"
  BY DEF Decided, Observed
<1> HIDE DEF o
<1>4. running' = running /\ stopTask' = stopTask
  BY DEF p1
<1>5. mode # "running" => Cleared
  BY DEF Posture
<1>6. CASE up
  <2>1. mode = "running" /\ plan'.next # "running" =>
           plan'.migrate = running \cap Migrate /\ plan'.stop = running \cap Stop
    BY <1>2, <1>3, <1>6, PlanShape
  <2> QED
    BY <1>3, <1>4, <1>5, <2>1 DEF Posture, ShedPosture, Cleared
<1>7. CASE ~up
  BY <1>3, <1>4, <1>5, <1>7 DEF Posture, ShedPosture, Cleared, NothingRunsDark
<1> QED
  BY <1>6, <1>7

(* Every step of execute() keeps the posture. *)
LEMMA PostureStep ==
    ASSUME ClassesAreOurs, "offline" \notin Faults, RestoresSaved, Full,
           TypeOK, PlanInv, NothingRunsDark, Posture, [Next]_vars
    PROVE  Posture'
<1> USE DEF p1
<1>1. plan \in Plans
  BY DEF TypeOK
<1>2. CASE ObserveFails
  BY <1>2 DEF ObserveFails, Posture, ShedPosture, Cleared, InTick, persisted, tick, remote
<1>3. CASE ReadIntent
  BY <1>3 DEF ReadIntent, Posture, Cleared, InTick, persisted
<1>4. CASE ReadUp
  BY <1>4, DecidedPosture DEF ReadUp, persisted
<1>5. CASE ReadDown
  BY <1>5, DecidedPosture DEF ReadDown, ReadsOnline, persisted
<1>6. CASE ReadUnconfirmed
  BY <1>6, EndedPosture DEF ReadUnconfirmed, persisted
<1>7. CASE Apply
  <2>1. mode' = mode /\ running' = running /\ stopTask' = stopTask /\ pc = "apply"
    BY <1>7 DEF Apply, persisted
  <2>2. CASE EndTick
    BY <2>1, <2>2, EndedPosture
  <2>3. CASE Continue(FirstStep(plan))
    <3>1. plan.next # "running" => silenced'
      <4>1. Silence
        BY <1>7 DEF Apply
      <4>2. silenced' = (plan.next # "running")
        BY <4>1 DEF Silence, Full
      <4> QED
        BY <4>2
    <3>2. pc' \in {"apply", "migrate"} \/ plan.migrate = {}
      BY <2>3 DEF Continue, FirstStep
    <3>3. pc' \in {"apply", "migrate", "stop"} \/ plan.stop = {}
      BY <2>3 DEF Continue, FirstStep, AfterMigrate
    <3>4. plan' = plan
      BY <2>3 DEF Continue
    <3>5. mode # "running" => Cleared
      BY <2>1 DEF Posture
    <3> QED
      BY <2>1, <3>1, <3>2, <3>3, <3>4, <3>5 DEF Posture, ShedPosture, Cleared, InTick
  <2> QED
    BY <1>7, <2>2, <2>3 DEF Apply
<1>8. CASE ApplyFails
  BY <1>8, EndedPosture DEF ApplyFails, persisted
<1>9. CASE Migrated
  <2>1. pc' \in {"apply", "migrate", "stop"} \/ plan.stop = {}
    BY <1>9 DEF Migrated, Continue, AfterMigrate
  <2> QED
    BY <1>9, <2>1 DEF Migrated, Continue, Posture, ShedPosture, Cleared, InTick, persisted, remote
<1>10. CASE MigrateFails
  BY <1>10, EndedPosture DEF MigrateFails, persisted
<1>11. CASE StopAll
  <2>1. /\ pc = "stop" /\ pc' = "stopping" /\ mode' = mode /\ running' = running
        /\ stopTask' = stopTask \cup (plan.stop \cap running)
        /\ plan' = plan /\ silenced' = silenced
    BY <1>11 DEF StopAll, Continue, persisted, remote
  <2> QED
    BY <2>1 DEF Posture, ShedPosture, Cleared, InTick
<1>12. CASE StopFinished \/ Awake \/ StartUnlisted
  <2>1. /\ pc \in {"stopping", "waking", "start"} /\ plan' = plan /\ mode' = mode
        /\ running' = running /\ stopTask' = stopTask /\ silenced' = silenced
    BY <1>12 DEF StopFinished, Awake, StartUnlisted, Continue, persisted, remote
  <2> QED
    BY <2>1 DEF Posture, ShedPosture, Cleared, InTick
<1>13. CASE StopInterrupted
  BY <1>13 DEF StopInterrupted, Continue, Posture, ShedPosture, Cleared, InTick, persisted, remote
<1>14. CASE StopFails
  <2>1. mode = "running"
    BY <1>14 DEF StopFails, PlanInv, Asks, PlanFits, InTick
  <2> QED
    BY <1>14, <2>1, EndedPosture DEF StopFails, persisted
<1>15. CASE Wake
  BY <1>15 DEF Wake, Continue, Posture, ShedPosture, Cleared, InTick, persisted, remote
<1>16. CASE WakeFails \/ WakeTimesOut
  BY <1>16, EndedPosture DEF WakeFails, WakeTimesOut, persisted
<1>17. CASE StartRequested
  <2>1. /\ pc = "start" /\ plan' = plan /\ mode' = mode
        /\ stopTask' = stopTask /\ silenced' = silenced
        /\ running' \subseteq running \cup plan.start
    BY <1>17 DEF StartRequested, Continue, persisted, remote
  <2>2. plan.start \cap (Migrate \cup Stop) = {}
    BY <2>1, ClassesAssumption DEF PlanInv, PlanFits, InTick
  <2>3. running' \cap Migrate \subseteq running /\ running' \cap Stop \subseteq running
    BY <2>1, <2>2
  <2> QED
    BY <2>1, <2>3 DEF Posture, ShedPosture, Cleared, InTick
<1>18. CASE RestoreStopped
  <2>1. pc = "restore" /\ plan' = plan /\ mode' = mode /\ Continue(AfterRestore(plan))
    BY <1>18 DEF RestoreStopped, Continue, persisted
  <2>2. plan.restore /\ plan.next = "running" /\ ~plan.poweroff
    BY <2>1 DEF PlanInv, Asks, PlanFits, InTick
  <2>3. pc' = "save"
    BY <2>1, <2>2 DEF Continue, AfterRestore
  <2> QED
    BY <2>1, <2>2, <2>3 DEF Posture
<1>19. CASE RestoreFails
  BY <1>19, EndedPosture DEF RestoreFails, persisted
<1>20. CASE Recheck
  BY <1>20 DEF Recheck, Continue, Posture, ShedPosture, Cleared, InTick, persisted, remote
<1>21. CASE PowerOff \/ ShutdownNode
  <2>1. /\ pc = "poweroff" /\ (EndTick \/ Continue("save")) /\ mode' = mode
        /\ running' = running /\ stopTask' = stopTask /\ silenced' = silenced
    BY <1>21 DEF PowerOff, ShutdownNode, persisted
  <2>2. CASE EndTick
    BY <2>1, <2>2, EndedPosture
  <2>3. CASE Continue("save")
    BY <2>1, <2>3 DEF Continue, Posture, ShedPosture, Cleared, InTick
  <2> QED
    BY <2>1, <2>2, <2>3
<1>22. CASE Save
  <2>1. /\ pc = "save" /\ EndTick /\ running' = running /\ stopTask' = stopTask
        /\ mode' = plan.next \/ ("save" \in Faults /\ mode' = mode)
    BY <1>22 DEF Save, persisted
  <2>2. CASE mode' = plan.next
    BY <2>1, <2>2 DEF Posture, ShedPosture, Cleared, InTick, EndTick
  <2>3. CASE "save" \in Faults /\ mode' = mode
    <3>1. ~plan.restore
      BY <2>1, <2>3 DEF RestoresSaved, NightInv, InTick
    <3> QED
      BY <2>1, <2>3, <3>1, EndedPosture
  <2> QED
    BY <2>1, <2>2, <2>3
<1>23. ASSUME UNCHANGED <<persisted, memory, tick, silenced, replOff>>,
              stopTask' = stopTask, running' \cap (Migrate \cup Stop) \subseteq running
       PROVE  Posture'
  BY <1>23 DEF Posture, ShedPosture, Cleared, InTick, persisted, tick, remote
<1>24. ASSUME NEW v \in Asked, Press(v) \/ PowerAction(v) PROVE Posture'
  BY <1>23, <1>24 DEF Press, PowerAction, persisted, memory, tick, remote
<1>25. ASSUME NEW g \in Guests, GuestStops(g) \/ GuestStarts(g) PROVE Posture'
  <2>1. UNCHANGED <<persisted, memory, tick, silenced, replOff>> /\ stopTask' = stopTask
        /\ running' \subseteq running \cup {g} /\ g \in Touched
    BY <1>25 DEF GuestStops, GuestStarts, persisted, memory, tick, remote
  <2> QED
    BY <1>23, <2>1 DEF ClassesAreOurs
<1>26. ASSUME NEW g \in Guests, MovedBack(g) PROVE Posture'
  BY <1>26 DEF MovedBack, ClassesAreOurs
<1>27. CASE StopTaskStep
  BY <1>27 DEF StopTaskStep, Posture, ShedPosture, Cleared, InTick, persisted, tick, remote
<1>28. CASE Booted
  BY <1>23, <1>28 DEF Booted, ClassesAreOurs, persisted, memory, tick, remote
<1>29. CASE ShutDown \/ HostLost
  <2>1. UNCHANGED <<persisted, memory, tick, silenced, replOff>>
        /\ (running' = {} \/ (running' = running /\ stopTask' = stopTask))
    BY <1>29 DEF ShutDown, HostLost, GoneDown, persisted, memory, tick, remote
  <2> QED
    BY <1>23, <2>1 DEF Posture, ShedPosture, Cleared, InTick, persisted, tick, remote
<1>30. CASE HandOn \/ NutDogPoll \/ NutDogRestart \/ NutDogProbes
  BY <1>23, <1>30 DEF HandOn, NutDogPoll, NutDogRestart, NutDogProbes, persisted, memory, tick, remote
<1>31. CASE Crash
  <2>1. "crash" \in Env /\ EndTick /\ mode' = mode /\ running' = running /\ stopTask' = stopTask
    BY <1>31 DEF Crash, persisted
  <2>2. ~(pc = "save" /\ plan.restore)
    BY <2>1 DEF RestoresSaved, NightInv, InTick
  <2> QED
    BY <2>1, <2>2, EndedPosture
<1>32. CASE Tick
  <2>1. /\ pc' = pc /\ mode' = mode /\ running' = running /\ stopTask' = stopTask
        /\ silenced' = silenced
        /\ plan'.migrate = plan.migrate /\ plan'.stop = plan.stop
        /\ plan'.restore = plan.restore /\ plan'.next = plan.next
    BY <1>1, <1>32 DEF Tick, Plans, remote
  <2> QED
    BY <2>1 DEF Posture, ShedPosture, Cleared, InTick
<1>33. CASE UNCHANGED vars
  BY <1>23, <1>33 DEF vars, persisted, memory, tick, remote
<1> QED
  BY <1>2, <1>3, <1>4, <1>5, <1>6, <1>7, <1>8, <1>9, <1>10, <1>11, <1>12, <1>13, <1>14, <1>15, <1>16, <1>17, <1>18, <1>19, <1>20, <1>21, <1>22, <1>24, <1>25, <1>26, <1>27, <1>28, <1>29, <1>30, <1>31, <1>32, <1>33
     DEF Next, Loop, World

-----------------------------------------------------------------------------
(* Only the save that ends a tick changes the mode. *)
LEMMA ModeIsSaved ==
    ASSUME [Next]_vars
    PROVE  mode' = mode \/ (pc = "save" /\ mode' = plan.next)
<1> USE DEF persisted
<1>1. CASE ObserveFails \/ ReadIntent \/ ReadUp \/ ReadDown \/ ReadUnconfirmed \/ Apply \/ ApplyFails
  BY <1>1 DEF ObserveFails, ReadIntent, ReadUp, ReadDown, ReadUnconfirmed, Apply, ApplyFails
<1>2. CASE Migrated \/ MigrateFails \/ StopAll \/ StopFinished \/ StopInterrupted \/ StopFails
  BY <1>2 DEF Migrated, MigrateFails, StopAll, StopFinished, StopInterrupted, StopFails
<1>3. CASE Wake \/ WakeFails \/ Awake \/ WakeTimesOut \/ StartRequested \/ StartUnlisted
  BY <1>3 DEF Wake, WakeFails, Awake, WakeTimesOut, StartRequested, StartUnlisted
<1>4. CASE RestoreStopped \/ RestoreFails \/ Recheck \/ PowerOff \/ ShutdownNode
  BY <1>4 DEF RestoreStopped, RestoreFails, Recheck, PowerOff, ShutdownNode
<1>5. CASE Save
  BY <1>5 DEF Save
<1>6. CASE World
  BY <1>6, OthersStep DEF Crash, Tick
<1>7. CASE UNCHANGED vars
  BY <1>7 DEF vars
<1> QED
  BY <1>1, <1>2, <1>3, <1>4, <1>5, <1>6, <1>7 DEF Next, Loop

-----------------------------------------------------------------------------
(* The only steps that say off are the power-off and a tick that remembers  *)
(* one.                                                                     *)
LEMMA OffIsSaid ==
    ASSUME TypeOK, [Next]_vars, req' = "off", req # "off"
    PROVE  PowerOff \/ (Full /\ askedOff)
<1> USE DEF p1
<1>1. CASE ObserveFails \/ ReadUnconfirmed
  BY <1>1 DEF ObserveFails, ReadUnconfirmed, HoldPower, Wish
<1>2. CASE ReadIntent \/ ReadUp \/ ReadDown
  BY <1>2 DEF ReadIntent, ReadUp, ReadDown
<1>3. CASE Apply \/ ApplyFails
  BY <1>3 DEF Apply, ApplyFails, Restate, Wish, powerWish
<1>4. CASE Migrated \/ MigrateFails \/ StopAll \/ StopFinished \/ StopInterrupted \/ StopFails
  BY <1>4 DEF Migrated, MigrateFails, StopAll, StopFinished, StopInterrupted, StopFails
<1>5. CASE Wake \/ WakeFails \/ Awake \/ WakeTimesOut \/ StartRequested \/ StartUnlisted
  BY <1>5 DEF Wake, WakeFails, Awake, WakeTimesOut, StartRequested, StartUnlisted
<1>6. CASE RestoreStopped \/ RestoreFails \/ Recheck \/ Save
  BY <1>6 DEF RestoreStopped, RestoreFails, Recheck, Save
<1>7. CASE PowerOff \/ ShutdownNode
  BY <1>7 DEF PowerOff, ShutdownNode
<1>8. ASSUME NEW v \in Asked, Press(v) \/ PowerAction(v) PROVE req' = req
  BY <1>8 DEF Press, PowerAction
<1>9. ASSUME NEW g \in Guests, GuestStops(g) \/ GuestStarts(g) \/ MovedBack(g) PROVE req' = req
  BY <1>9 DEF GuestStops, GuestStarts, MovedBack
<1>10. CASE StopTaskStep \/ Booted \/ ShutDown \/ HostLost \/ HandOn
  BY <1>10 DEF StopTaskStep, Booted, ShutDown, HostLost, GoneDown, HandOn
<1>11. CASE NutDogPoll \/ NutDogRestart \/ NutDogProbes \/ Crash \/ Tick
  BY <1>11 DEF NutDogPoll, NutDogRestart, NutDogProbes, Crash, Tick
<1>12. CASE UNCHANGED vars
  BY <1>12 DEF vars
<1> QED
  BY <1>1, <1>2, <1>3, <1>4, <1>5, <1>6, <1>7, <1>8, <1>9, <1>10, <1>11, <1>12 DEF Next, Loop, World

(* While nut-dog keeps what it is told, a remembered off is the wish. *)
OffKept == askedOff => req = "off"

(* Every step keeps it: what the loop says next is the off again, and a     *)
(* wake forgets the off before it is taken back.                            *)
LEMMA OffKeptStep ==
    ASSUME "request" \notin Faults, "dogRestart" \notin Env, TypeOK, OffKept, [Next]_vars
    PROVE  OffKept'
<1> USE DEF p1, memory, OffKept
<1>1. CASE ObserveFails \/ ReadUnconfirmed
  BY <1>1 DEF ObserveFails, ReadUnconfirmed, HoldPower, Wish
<1>2. CASE ReadIntent \/ ReadUp \/ ReadDown
  BY <1>2 DEF ReadIntent, ReadUp, ReadDown
<1>3. CASE Apply \/ ApplyFails
  BY <1>3 DEF Apply, ApplyFails, Restate, Wish, powerWish
<1>4. CASE Migrated \/ MigrateFails \/ StopAll \/ StopFinished \/ StopInterrupted \/ StopFails
  BY <1>4 DEF Migrated, MigrateFails, StopAll, StopFinished, StopInterrupted, StopFails
<1>5. CASE Wake \/ WakeFails \/ Awake \/ WakeTimesOut \/ StartRequested \/ StartUnlisted
  BY <1>5 DEF Wake, WakeFails, Awake, WakeTimesOut, StartRequested, StartUnlisted
<1>6. CASE RestoreStopped \/ RestoreFails \/ Recheck \/ Save
  BY <1>6 DEF RestoreStopped, RestoreFails, Recheck, Save
<1>7. CASE PowerOff \/ ShutdownNode
  BY <1>7 DEF PowerOff, ShutdownNode
<1>8. ASSUME NEW v \in Asked, Press(v) \/ PowerAction(v) PROVE OffKept'
  BY <1>8 DEF Press, PowerAction
<1>9. ASSUME NEW g \in Guests, GuestStops(g) \/ GuestStarts(g) \/ MovedBack(g) PROVE OffKept'
  BY <1>9 DEF GuestStops, GuestStarts, MovedBack
<1>10. CASE StopTaskStep \/ Booted \/ ShutDown \/ HostLost \/ HandOn
  BY <1>10 DEF StopTaskStep, Booted, ShutDown, HostLost, GoneDown, HandOn
<1>11. CASE NutDogPoll \/ NutDogRestart \/ NutDogProbes \/ Crash \/ Tick
  BY <1>11 DEF NutDogPoll, NutDogRestart, NutDogProbes, Crash, Tick
<1>12. CASE UNCHANGED vars
  BY <1>12 DEF vars
<1> QED
  BY <1>1, <1>2, <1>3, <1>4, <1>5, <1>6, <1>7, <1>8, <1>9, <1>10, <1>11, <1>12 DEF Next, Loop, World

-----------------------------------------------------------------------------
(* Where nobody restores, the classes only empty, and what runs of a stop   *)
(* task keeps being stopped unless the task is given up.                    *)
LEMMA ClassesEmpty ==
    ASSUME ClassesAreOurs, TypeOK, PlanInv, InTick => ~plan.restore, [Next]_vars
    PROVE  /\ running' \cap (Migrate \cup Stop) \subseteq running
           /\ running' \cap stopTask \subseteq stopTask' \/ (StopFails /\ pc = "stopping")
<1> USE DEF p1
<1>1. CASE UNCHANGED p1
  BY <1>1
<1>2. CASE Migrated \/ MigrateFails
  BY <1>2 DEF Migrated, MigrateFails
<1>3. CASE StopAll
  BY <1>3 DEF StopAll
<1>4. CASE StopFails
  BY <1>4 DEF StopFails
<1>5. CASE Wake \/ WakeFails
  BY <1>5 DEF Wake, WakeFails
<1>6. CASE StartRequested
  <2>1. /\ pc = "start" /\ stopTask' = stopTask
        /\ running' \subseteq running \cup plan.start
    BY <1>6 DEF StartRequested
  <2>2. plan.start \cap (Migrate \cup Stop) = {}
    BY <2>1, ClassesAssumption DEF PlanInv, PlanFits, InTick
  <2> QED
    BY <2>1, <2>2
<1>7. CASE RestoreStopped
  BY <1>7 DEF RestoreStopped, PlanInv, Asks, InTick
<1>8. CASE ShutdownNode
  BY <1>8 DEF ShutdownNode
<1>9. ASSUME NEW v \in Asked, Press(v) \/ PowerAction(v)
      PROVE  running' \subseteq running /\ stopTask' = stopTask
  BY <1>9 DEF Press, PowerAction
<1>10. ASSUME NEW g \in Guests, GuestStops(g) \/ GuestStarts(g) \/ MovedBack(g)
       PROVE  /\ running' \cap (Migrate \cup Stop) \subseteq running
              /\ stopTask' = stopTask
  BY <1>10 DEF GuestStops, GuestStarts, MovedBack, ClassesAreOurs
<1>11. CASE StopTaskStep
  BY <1>11 DEF StopTaskStep
<1>12. CASE Booted
  BY <1>12 DEF Booted, ClassesAreOurs
<1>13. CASE ShutDown \/ HostLost
  BY <1>13 DEF ShutDown, HostLost, GoneDown
<1>14. CASE HandOn \/ NutDogPoll
  BY <1>14 DEF HandOn, NutDogPoll
<1>15. CASE NutDogRestart \/ NutDogProbes \/ Crash \/ Tick
  BY <1>15 DEF NutDogRestart, NutDogProbes, Crash, Tick
<1>16. CASE UNCHANGED vars
  BY <1>16 DEF vars
<1> QED
  BY <1>1, <1>2, <1>3, <1>4, <1>5, <1>6, <1>7, <1>8, <1>9, <1>10, <1>11, <1>12, <1>13, <1>14, <1>15, <1>16, QuietStep
     DEF Next, Loop, World

(* Only the power-off makes the loop remember an off, and only a tick that  *)
(* has decided touches the silences.                                        *)
LEMMA RememberedStep ==
    ASSUME [Next]_vars
    PROVE  /\ askedOff' => askedOff \/ PowerOff
           /\ silenced' = silenced \/ Apply
<1> USE DEF memory, remote
<1>1. CASE ObserveFails \/ ReadIntent \/ ReadUp \/ ReadUnconfirmed
  <2>1. askedOff' = askedOff /\ silenced' = silenced
    BY <1>1 DEF ObserveFails, ReadIntent, ReadUp, ReadUnconfirmed
  <2> QED
    BY <2>1
<1>2. CASE ReadDown
  <2>1. ~askedOff'
    BY <1>2 DEF ReadDown
  <2>2. silenced' = silenced
    BY <1>2 DEF ReadDown
  <2> QED
    BY <2>1, <2>2
<1>3. CASE Apply \/ ApplyFails
  <2>1. askedOff' = askedOff /\ (silenced' = silenced \/ Apply)
    BY <1>3 DEF Apply, ApplyFails
  <2> QED
    BY <2>1
<1>4. CASE Migrated \/ MigrateFails \/ StopAll \/ StopFinished \/ StopInterrupted \/ StopFails
  <2>1. askedOff' = askedOff /\ silenced' = silenced
    BY <1>4 DEF Migrated, MigrateFails, StopAll, StopFinished, StopInterrupted, StopFails
  <2> QED
    BY <2>1
<1>5. CASE Wake \/ WakeFails
  <2>1. ~askedOff'
    BY <1>5 DEF Wake, WakeFails
  <2>2. silenced' = silenced
    BY <1>5 DEF Wake, WakeFails
  <2> QED
    BY <2>1, <2>2
<1>6. CASE Awake \/ WakeTimesOut \/ StartRequested \/ StartUnlisted
  <2>1. askedOff' = askedOff /\ silenced' = silenced
    BY <1>6 DEF Awake, WakeTimesOut, StartRequested, StartUnlisted
  <2> QED
    BY <2>1
<1>7. CASE RestoreStopped \/ RestoreFails \/ Recheck \/ Save
  <2>1. askedOff' = askedOff /\ silenced' = silenced
    BY <1>7 DEF RestoreStopped, RestoreFails, Recheck, Save
  <2> QED
    BY <2>1
<1>8. CASE PowerOff
  <2>1. silenced' = silenced
    BY <1>8 DEF PowerOff
  <2> QED
    BY <1>8, <2>1
<1>9. CASE ShutdownNode
  <2>1. askedOff' = askedOff /\ silenced' = silenced
    BY <1>9 DEF ShutdownNode
  <2> QED
    BY <2>1
<1>10. CASE World
  <2>1. UNCHANGED <<persisted, memory, tick, silenced, replOff>> \/ Crash \/ Tick
    BY <1>10, OthersStep
  <2>2. CASE Crash
    <3>1. ~askedOff'
      BY <2>2 DEF Crash
    <3>2. silenced' = silenced
      BY <2>2 DEF Crash
    <3> QED
      BY <3>1, <3>2
  <2>3. CASE Tick
    <3>1. askedOff' = askedOff /\ silenced' = silenced
      BY <2>3 DEF Tick
    <3> QED
      BY <3>1
  <2> QED
    BY <2>1, <2>2, <2>3
<1>11. CASE UNCHANGED vars
  <2>1. askedOff' = askedOff /\ silenced' = silenced
    BY <1>11 DEF vars
  <2> QED
    BY <2>1
<1> QED
  BY <1>1, <1>2, <1>3, <1>4, <1>5, <1>6, <1>7, <1>8, <1>9, <1>10, <1>11 DEF Next, Loop

(* A tick that leaves the mode running still has to stop what its plan      *)
(* names, then what its task names, and then nothing.                       *)
Emptied ==
    mode = "running" /\ InTick /\ plan.next # "running" =>
        running \cap Stop \subseteq
            (IF pc \in {"apply", "migrate", "stop"} THEN plan.stop
             ELSE IF pc \in {"stopping", "save"} THEN stopTask ELSE {})

(* Every step keeps it where no plan restores or leaves the mode running.   *)
LEMMA EmptiedStep ==
    ASSUME ClassesAreOurs, "offline" \notin Faults, AlwaysDeficit, Full,
           TypeOK, PlanInv, NothingRunsDark, NightInv, Emptied, [Next]_vars
    PROVE  Emptied'
<1> USE DEF p1
<1>1. /\ running' \cap (Migrate \cup Stop) \subseteq running
      /\ running' \cap stopTask \subseteq stopTask' \/ (StopFails /\ pc = "stopping")
  BY ClassesEmpty DEF NightInv
<1>2. mode' = "running" => mode = "running"
  BY ModeIsSaved DEF NightInv, InTick
<1>3. ASSUME pc' \in {"idle", "observe"} PROVE Emptied'
  BY <1>3 DEF Emptied, InTick
<1>4. ASSUME pc' = pc, plan'.next = plan.next, plan'.stop = plan.stop,
             running' \cap stopTask \subseteq stopTask'
      PROVE  Emptied'
  BY <1>1, <1>2, <1>4 DEF Emptied, InTick
<1>5. ASSUME NEW up \in BOOLEAN, Decided(up), up \/ host \notin Online, UNCHANGED p1, mode' = mode
      PROVE  Emptied'
  <2>1. PICK r \in Readings : plan' = Decide(Observed(r, up))
    BY <1>5 DEF Decided
  <2> DEFINE o == Observed(r, up)
  <2>2. plan' = Decide(o) /\ o \in Snapshots
    BY <2>1, ObservedType
  <2>3. o.mode = mode /\ o.up = up /\ o.running = (IF up THEN running ELSE {}) /\ pc' = "apply"
    BY <1>5 DEF Decided, Observed
  <2> HIDE DEF o
  <2>4. up /\ mode = "running" /\ plan'.next # "running" => plan'.stop = running \cap Stop
    BY <2>2, <2>3, PlanShape
  <2> QED
    BY <1>5, <2>3, <2>4 DEF Emptied, NothingRunsDark
<1>6. CASE ObserveFails \/ ReadIntent \/ ReadUnconfirmed
  BY <1>3, <1>4, <1>6 DEF ObserveFails, ReadIntent, ReadUnconfirmed, EndTick, tick
<1>7. CASE ReadUp
  BY <1>5, <1>7 DEF ReadUp, persisted
<1>8. CASE ReadDown
  BY <1>5, <1>8 DEF ReadDown, ReadsOnline, persisted
<1>9. CASE ApplyFails \/ MigrateFails \/ StopFails \/ WakeFails \/ WakeTimesOut \/ RestoreFails \/ Save \/ Crash
  BY <1>3, <1>9 DEF ApplyFails, MigrateFails, StopFails, WakeFails, WakeTimesOut, RestoreFails, Save, Crash, EndTick
<1>10. CASE Apply
  <2>1. CASE EndTick
    BY <1>3, <2>1 DEF EndTick
  <2>2. CASE Continue(FirstStep(plan))
    <3>1. pc = "apply" /\ plan' = plan /\ running' = running
      BY <1>10, <2>2 DEF Apply, Continue
    <3>2. pc' \in {"migrate", "stop"} \/ plan.stop = {}
      BY <2>2 DEF Continue, FirstStep, AfterMigrate
    <3> QED
      BY <1>2, <3>1, <3>2 DEF Emptied, InTick
  <2> QED
    BY <1>10, <2>1, <2>2 DEF Apply
<1>11. CASE Migrated
  <2>1. pc = "migrate" /\ plan' = plan
    BY <1>11 DEF Migrated, Continue
  <2>2. pc' = "stop" \/ plan.stop = {}
    BY <1>11 DEF Migrated, Continue, AfterMigrate
  <2> QED
    BY <1>1, <1>2, <2>1, <2>2 DEF Emptied, InTick
<1>12. CASE StopAll
  BY <1>2, <1>12 DEF StopAll, Continue, Emptied, InTick
<1>13. CASE StopFinished
  BY <1>2, <1>13 DEF StopFinished, Continue, Emptied, InTick
<1>14. CASE StopInterrupted
  BY <1>2, <1>14 DEF StopInterrupted, Continue, Emptied, InTick
<1>15. CASE Wake \/ Awake
  <2>1. plan.wake /\ InTick /\ mode' = mode
    BY <1>15 DEF Wake, Awake, PlanInv, Asks, InTick, persisted
  <2>2. mode' # "running"
    BY <2>1 DEF PlanInv, PlanFits
  <2> QED
    BY <2>2 DEF Emptied
<1>16. CASE StartRequested \/ StartUnlisted \/ RestoreStopped \/ Recheck \/ PowerOff \/ ShutdownNode
  <2>1. pc \in {"start", "restore", "recheck", "poweroff"}
    BY <1>16 DEF StartRequested, StartUnlisted, RestoreStopped, Recheck, PowerOff, ShutdownNode
  <2>2. plan' = plan \/ pc' = "idle"
    BY <1>16 DEF StartRequested, StartUnlisted, RestoreStopped, Recheck, PowerOff, ShutdownNode,
                 Continue, EndTick
  <2> QED
    BY <1>1, <1>2, <1>3, <2>1, <2>2 DEF Emptied, InTick
<1>17. CASE World
  <2>1. pc' = "idle" \/ (pc' = pc /\ plan'.next = plan.next /\ plan'.stop = plan.stop)
    BY <1>17, OthersStep DEF Crash, Tick, EndTick, tick, TypeOK, Plans
  <2>2. ~StopFails \/ pc' = "idle"
    BY DEF StopFails, EndTick
  <2> QED
    BY <1>1, <1>3, <1>4, <2>1, <2>2
<1>18. CASE UNCHANGED vars
  BY <1>4, <1>18 DEF vars, tick
<1> QED
  BY <1>6, <1>7, <1>8, <1>9, <1>10, <1>11, <1>12, <1>13, <1>14, <1>15, <1>16, <1>17, <1>18 DEF Next, Loop

(* For as long as an off is remembered p1 stays in the shed posture: what   *)
(* is said again in a later tick is as good as what was ordered.            *)
OffPosture ==
    askedOff => silenced /\ Cleared /\ (mode = "running" => running \cap Stop = {})

(* Every step keeps it where no plan restores or leaves the mode running.   *)
LEMMA OffPostureStep ==
    ASSUME ClassesAreOurs, AlwaysDeficit, Full,
           TypeOK, PlanInv, NightInv, Posture, Emptied, OffPosture, [Next]_vars
    PROVE  OffPosture'
<1> SUFFICES ASSUME askedOff'
             PROVE  silenced' /\ Cleared' /\ (mode' = "running" => running' \cap Stop = {})
  BY DEF OffPosture
<1>1. mode' = "running" => mode = "running"
  BY ModeIsSaved DEF NightInv, InTick
<1>2. CASE PowerOff
  <2>1. /\ pc = "poweroff" /\ mode' = mode
        /\ running' = running /\ stopTask' = stopTask /\ silenced' = silenced
    BY <1>2 DEF PowerOff, persisted, p1
  <2>2. plan.next = "shed" /\ InTick
    BY <2>1 DEF PlanInv, Asks, PlanFits, InTick
  <2>3. silenced /\ Cleared
    BY <2>1, <2>2 DEF Posture, ShedPosture, Cleared
  <2>4. mode = "running" => running \cap Stop = {}
    BY <2>1, <2>2 DEF Emptied
  <2> QED
    BY <2>1, <2>3, <2>4 DEF Cleared
<1>3. CASE ~PowerOff
  <2>1. silenced /\ Cleared /\ (mode = "running" => running \cap Stop = {})
    BY <1>3, RememberedStep DEF OffPosture
  <2>2. /\ running' \cap (Migrate \cup Stop) \subseteq running
        /\ running' \cap stopTask \subseteq stopTask' \/ (StopFails /\ pc = "stopping")
    BY ClassesEmpty DEF NightInv
  <2>3. StopFails /\ pc = "stopping" => running' \cap Stop = {}
    <3>1. pc = "stopping" => mode = "running"
      BY DEF PlanInv, Asks, PlanFits, InTick
    <3> QED
      BY <2>1, <2>2, <3>1
  <2>4. Cleared'
    BY <2>1, <2>2, <2>3 DEF Cleared
  <2>5. silenced'
    <3>1. CASE Apply
      <4>1. Silence /\ plan.next # "running"
        BY <3>1 DEF Apply, NightInv, InTick
      <4>2. silenced' = (plan.next # "running")
        BY <4>1 DEF Silence, Full
      <4> QED
        BY <4>1, <4>2
    <3>2. CASE ~Apply
      BY <2>1, <3>2, RememberedStep
    <3> QED
      BY <3>1, <3>2
  <2> QED
    BY <1>1, <2>1, <2>2, <2>4, <2>5
<1> QED
  BY <1>2, <1>3

(* The power-off comes last, for every set of guests, every timing and all  *)
(* faults but a p1 that reads offline while it runs: guests that cannot be  *)
(* moved or stopped, a shed cut short, a host that dies or is switched on   *)
(* by hand in between.  An unbroken deficit does it, whatever offs are lost *)
(* and said again in later ticks: a loop that changes its mind meanwhile    *)
(* takes the silences down and restores, and still says off.  Or nut-dog    *)
(* keeps every off from the start; then only a restore must be saved, or    *)
(* the next shed powers off over the restored guests.  Nobody but the loop  *)
(* may start guests of the two classes.                                     *)
THEOREM OffIsLast ==
    ASSUME ClassesAreOurs, "offline" \notin Faults,
           \/ AlwaysDeficit
           \/ /\ "request" \notin Faults /\ "dogRestart" \notin Env
              /\ NoSun \/ ("save" \notin Faults /\ "crash" \notin Env)
    PROVE  Spec => OffComesLast
<1> DEFINE Last == silenced /\ running \cap Migrate = {} /\ running \cap Stop \subseteq stopTask
<1>1. Init => Posture /\ Emptied /\ OffPosture
  BY DEF Init, Posture, Emptied, OffPosture, InTick
<1>2. ASSUME TypeOK, PlanInv, NothingRunsDark, RestoresSaved, Full => Posture, [Next]_vars
      PROVE  (Full => Posture)'
  BY <1>2, PostureStep DEF Full
<1>3. ASSUME PlanInv, Full => Posture, OffOrdered PROVE Last
  <2>1. pc = "poweroff"
    BY <1>3 DEF OffOrdered, PowerOff, ShutdownNode
  <2>2. plan.next = "shed" /\ Full /\ InTick
    BY <1>3, <2>1 DEF PlanInv, Asks, PlanFits, InTick
  <2> QED
    BY <1>3, <2>1, <2>2 DEF Posture, ShedPosture
<1>4. AlwaysDeficit => NoSun
  BY DEF AlwaysDeficit, NoSun
<1>5. CASE AlwaysDeficit
  <2> DEFINE Night == Full => Posture /\ Emptied /\ OffPosture
  <2>1. Init => Night
    BY <1>1
  <2>2. TypeOK /\ PlanInv /\ NothingRunsDark /\ NightInv /\ Night /\ [Next]_vars => Night'
    <3> SUFFICES ASSUME TypeOK, PlanInv, NothingRunsDark, NightInv, Night, [Next]_vars, Full
                 PROVE  Posture' /\ Emptied' /\ OffPosture'
      BY DEF Full
    <3>1. Posture'
      BY <1>2 DEF RestoresSaved, Full
    <3> QED
      BY <1>5, <3>1, EmptiedStep, OffPostureStep
  <2>3. TypeOK /\ PlanInv /\ Night /\ [Next]_vars => [OffSaid => Last]_vars
    <3> SUFFICES ASSUME TypeOK, PlanInv, Night, [Next]_vars, OffSaid PROVE Last
      OBVIOUS
    <3>1. OffOrdered \/ (Full /\ askedOff)
      BY OffIsSaid DEF OffSaid, OffOrdered
    <3> QED
      BY <1>3, <3>1 DEF OffPosture, Cleared
  <2>4. Spec => []NightInv
    BY <1>4, <1>5, NightAlways
  <2> QED
    BY <2>1, <2>2, <2>3, <2>4, TypeCorrect, PlanAlwaysFits, NothingEverRunsDark, PTL DEF Spec, OffComesLast
<1>6. CASE "request" \notin Faults /\ "dogRestart" \notin Env
  <2> DEFINE Kept == OffKept /\ (Full => Posture)
  <2>1. Init => Kept
    BY <1>1 DEF Init, OffKept
  <2>2. TypeOK /\ PlanInv /\ NothingRunsDark /\ RestoresSaved /\ Kept /\ [Next]_vars => Kept'
    BY <1>2, <1>6, OffKeptStep
  <2>3. TypeOK /\ PlanInv /\ Kept /\ [Next]_vars => [OffSaid => Last]_vars
    <3> SUFFICES ASSUME TypeOK, PlanInv, Kept, [Next]_vars, OffSaid PROVE Last
      OBVIOUS
    <3>1. OffOrdered
      BY OffIsSaid DEF OffSaid, OffOrdered, OffKept
    <3> QED
      BY <1>3, <3>1
  <2>4. CASE NoSun
    <3>1. NightInv => RestoresSaved
      BY DEF RestoresSaved
    <3>2. Spec => []NightInv
      BY <2>4, NightAlways
    <3> QED
      BY <2>1, <2>2, <2>3, <3>1, <3>2, TypeCorrect, PlanAlwaysFits, NothingEverRunsDark, PTL
         DEF Spec, OffComesLast
  <2>5. CASE "save" \notin Faults /\ "crash" \notin Env
    <3>1. RestoresSaved
      BY <2>5 DEF RestoresSaved
    <3>2. TypeOK /\ PlanInv /\ NothingRunsDark /\ Kept /\ [Next]_vars => Kept'
      BY <2>2, <3>1
    <3> QED
      BY <2>1, <2>3, <3>2, TypeCorrect, PlanAlwaysFits, NothingEverRunsDark, PTL DEF Spec, OffComesLast
  <2>6. NoSun \/ ("save" \notin Faults /\ "crash" \notin Env)
    BY <1>4
  <2> QED
    BY <2>4, <2>5, <2>6
<1> QED
  BY <1>5, <1>6

-----------------------------------------------------------------------------
(* A plan that restores is not saved before it has restored. *)
LEMMA NoSaveUnrestored ==
    ASSUME NEW p \in Plans, p.restore
    PROVE  /\ FirstStep(p) # "save" /\ AfterMigrate(p) # "save" /\ AfterStop(p) # "save"
           /\ AfterWake(p) # "save" /\ AfterStart(p) # "save"
BY DEF FirstStep, AfterMigrate, AfterStop, AfterWake, AfterStart

(* Every guest of the stop class that may start runs, and none is about to  *)
(* be stopped.                                                              *)
Complete == (Stop \cap onNode) \ NoAutostart \subseteq running /\ stopTask = {}

(* The inductive strengthening of RestoreComplete: a stop task is waited    *)
(* for or remembered, and a restore about to be saved is complete on a host *)
(* that has not been away since.                                            *)
Morning ==
    /\ req = "none"
    /\ stopTask # {} => pendingStop \/ pc = "stopping"
    /\ pc = "save" /\ plan.restore => host # "booting" /\ (host = "up" => Complete)

(* Every step keeps it, where the loop itself holds the power switch, its   *)
(* calls to Proxmox get through and nobody else handles the stop class.     *)
LEMMA MorningStep ==
    ASSUME Full, ~Delegated, {"offline", "stop", "wedge", "start"} \cap Faults = {},
           "handOn" \notin Env, "crash" \notin Env, Touched \cap Stop = {},
           TypeOK, PlanInv, NothingRunsDark, Morning, [Next]_vars
    PROVE  Morning'
<1> USE DEF p1
<1>1. plan \in Plans
  BY DEF TypeOK
<1>2. "offline" \notin Faults /\ "stop" \notin Faults /\ "wedge" \notin Faults /\ "start" \notin Faults
  OBVIOUS
<1>3. CASE ObserveFails \/ ReadIntent
  BY <1>3 DEF ObserveFails, ReadIntent, HoldPower, Morning, Complete, memory, tick
<1>4. CASE ReadUp
  BY <1>4 DEF ReadUp, Decided, Morning
<1>5. CASE ReadDown
  BY <1>2, <1>5 DEF ReadDown, ReadsOnline, Decided, NothingRunsDark, Morning
<1>6. ASSUME EndTick, req' = req, stopTask' = stopTask, pendingStop' = pendingStop, pc # "stopping"
      PROVE  Morning'
  BY <1>6 DEF EndTick, Morning
<1>7. CASE ReadUnconfirmed
  BY <1>6, <1>7 DEF ReadUnconfirmed, HoldPower
<1>8. CASE Apply
  <2>1. /\ pc = "apply" /\ req' = req /\ stopTask' = stopTask /\ pendingStop' = pendingStop
        /\ EndTick \/ Continue(FirstStep(plan))
    BY <1>8 DEF Apply, Restate, memory
  <2> QED
    BY <1>1, <1>6, <2>1, NoSaveUnrestored DEF Continue, Morning
<1>9. CASE ApplyFails
  BY <1>6, <1>9 DEF ApplyFails, memory
<1>10. CASE Migrated
  BY <1>1, <1>10, NoSaveUnrestored DEF Migrated, Continue, Morning, memory
<1>11. CASE MigrateFails
  BY <1>6, <1>11 DEF MigrateFails, memory
<1>12. CASE StopAll
  BY <1>12 DEF StopAll, Continue, Morning, memory
<1>13. CASE StopFinished
  BY <1>1, <1>13, NoSaveUnrestored DEF StopFinished, Continue, Morning, memory
<1>14. CASE StopInterrupted
  <2>1. ~plan.restore
    BY <1>14 DEF StopInterrupted, PlanInv, PlanFits, InTick
  <2> QED
    BY <1>14, <2>1 DEF StopInterrupted, Continue, Morning
<1>15. CASE StopFails
  BY <1>2, <1>15 DEF StopFails, NothingRunsDark, EndTick, Morning, memory
<1>16. CASE Wake
  BY <1>16 DEF Wake, Continue, Morning
<1>17. CASE WakeFails \/ WakeTimesOut
  BY <1>6, <1>17 DEF WakeFails, WakeTimesOut, memory
<1>18. CASE Awake \/ StartUnlisted
  BY <1>1, <1>18, NoSaveUnrestored DEF Awake, StartUnlisted, Continue, Morning, memory
<1>19. CASE StartRequested
  <2>1. /\ Continue(AfterStart(plan)) /\ pc = "start" /\ req' = req
        /\ stopTask' = stopTask /\ pendingStop' = pendingStop
    BY <1>19 DEF StartRequested
  <2> QED
    BY <1>1, <2>1, NoSaveUnrestored DEF Continue, Morning
<1>20. CASE RestoreStopped
  <2>1. stopTask = {} /\ stopTask' = stopTask /\ req' = req
    BY <1>2, <1>20 DEF RestoreStopped, Settled, Morning
  <2>2. host \in Online /\ host' = host /\ onNode' = onNode
    BY <1>20 DEF RestoreStopped
  <2>3. running' = running \cup ((Stop \cap onNode) \ (running \cup NoAutostart))
    BY <1>2, <1>20 DEF RestoreStopped
  <2>4. Complete'
    BY <2>1, <2>2, <2>3 DEF Complete
  <2> QED
    BY <2>1, <2>2, <2>4 DEF Morning, Online
<1>21. CASE RestoreFails
  BY <1>2, <1>21 DEF RestoreFails, NothingRunsDark, EndTick, Morning
<1>22. CASE Recheck
  <2>1. ~plan.restore
    BY <1>22 DEF Recheck, PlanInv, Asks, PlanFits, InTick
  <2> QED
    BY <1>22, <2>1 DEF Recheck, Continue, Morning, memory
<1>23. CASE PowerOff
  BY <1>23 DEF PowerOff
<1>24. CASE ShutdownNode
  <2>1. ~plan.restore
    BY <1>24 DEF ShutdownNode, PlanInv, Asks, PlanFits, InTick
  <2> QED
    BY <1>24, <2>1 DEF ShutdownNode, Continue, EndTick, Morning, memory
<1>25. CASE Save
  BY <1>6, <1>25 DEF Save, memory
<1>26. ASSUME UNCHANGED <<pendingStop, tick, req>>, host' = host \/ host' \in {"goingDown", "off"},
              stopTask' \subseteq stopTask,
              host' = "up" => /\ onNode' \cap Stop \subseteq onNode
                              /\ running \cap Stop \subseteq running'
       PROVE  Morning'
  BY <1>26 DEF Morning, Complete, tick
<1>27. ASSUME NEW v \in Asked, Press(v) \/ PowerAction(v) PROVE Morning'
  BY <1>26, <1>27, ClassesAssumption DEF Press, PowerAction, memory
<1>28. ASSUME NEW g \in Guests, GuestStops(g) \/ GuestStarts(g) \/ MovedBack(g) PROVE Morning'
  BY <1>26, <1>28, ClassesAssumption DEF GuestStops, GuestStarts, MovedBack, memory
<1>29. CASE StopTaskStep
  BY <1>29 DEF StopTaskStep, Morning, Complete, memory, tick
<1>30. CASE Booted
  BY <1>30 DEF Booted, Morning, memory, tick
<1>31. CASE ShutDown \/ HostLost
  BY <1>26, <1>31 DEF ShutDown, HostLost, GoneDown, memory
<1>32. CASE HandOn \/ Crash
  BY <1>32 DEF HandOn, Crash
<1>33. CASE NutDogPoll \/ NutDogRestart \/ NutDogProbes
  BY <1>33 DEF NutDogPoll, NutDogRestart, NutDogProbes, Morning, Complete, memory, tick, p1
<1>34. CASE Tick
  <2>1. /\ UNCHANGED <<pc, req, pendingStop, host, onNode, running, stopTask>>
        /\ plan'.restore = plan.restore
    BY <1>1, <1>34 DEF Tick, Plans
  <2> QED
    BY <2>1 DEF Morning, Complete
<1>35. CASE UNCHANGED vars
  BY <1>26, <1>35 DEF vars, memory
<1> QED
  BY <1>3, <1>4, <1>5, <1>7, <1>8, <1>9, <1>10, <1>11, <1>12, <1>13, <1>14, <1>15, <1>16, <1>17, <1>18, <1>19, <1>20, <1>21, <1>22, <1>23, <1>24, <1>25, <1>27, <1>28, <1>29, <1>30, <1>31, <1>32, <1>33, <1>34, <1>35
     DEF Next, Loop, World

(* Good morning is complete, for every set of guests and every timing, with *)
(* a shed cut short before it, a UPS that takes p1 away during it, and any  *)
(* failure of what it does not rest on.  Where nut-dog holds the switch it  *)
(* need not be: p1 may go down and come back between the restore and the    *)
(* save.                                                                    *)
THEOREM MorningIsComplete ==
    ASSUME Full, ~Delegated, {"offline", "stop", "wedge", "start"} \cap Faults = {},
           "handOn" \notin Env, "crash" \notin Env, Touched \cap Stop = {}
    PROVE  Spec => RestoreComplete
<1>1. Init => Morning
  BY DEF Init, Morning
<1>2. TypeOK /\ PlanInv /\ NothingRunsDark /\ Morning /\ [Next]_vars => Morning'
  BY MorningStep
<1>3. PlanInv /\ Morning /\ [Next]_vars =>
        [mode # "running" /\ mode' = "running" /\ host = "up" =>
          /\ (Stop \cap onNode) \ NoAutostart \subseteq running
          /\ stopTask = {}]_vars
  <2> SUFFICES ASSUME PlanInv, Morning, [Next]_vars, mode # "running", mode' = "running", host = "up"
               PROVE  Complete
    BY DEF Complete
  <2>1. pc = "save" /\ plan.next = "running"
    BY ModeIsSaved
  <2>2. plan.restore
    BY <2>1 DEF PlanInv, PlanFits, InTick
  <2> QED
    BY <2>1, <2>2 DEF Morning
<1> QED
  BY <1>1, <1>2, <1>3, TypeCorrect, PlanAlwaysFits, NothingEverRunsDark, PTL DEF Spec, RestoreComplete

-----------------------------------------------------------------------------
(* A night in which nut-dog holds the switch, nobody else is at it and the  *)
(* loop is not restarted: what the loop remembers of its off is what p1     *)
(* does.                                                                    *)
QuietNight ==
    /\ Delegated /\ NoSun /\ "offline" \notin Faults /\ "on" \notin Faults
    /\ "handOn" \notin Env /\ "hostLoss" \notin Env /\ "crash" \notin Env

(* The inductive strengthening of NoStartOnDyingHost: p1 goes down only by  *)
(* an off the loop remembers, a remembered off is not contradicted while p1 *)
(* is down, and whoever is about to start or wake remembers none.           *)
Dying ==
    /\ host = "goingDown" => askedOff
    /\ host \in {"booting", "up"} /\ req = "off" => askedOff
    /\ host = "booting" => ~askedOff
    /\ askedOff /\ host # "up" => req \in {"off", "none"}
    /\ askedOff /\ host # "off" => inFlight
    /\ InTick /\ plan.poweroff => host = "up" \/ askedOff
    /\ InTick /\ pc \notin {"restore", "recheck", "poweroff", "save"} /\ (plan.wake \/ plan.start # {})
          => ~askedOff

(* What a tick decides knows of the off in flight. *)
LEMMA DecidedKnowing ==
    ASSUME NoSun, TypeOK, NightInv, NEW up \in BOOLEAN, Decided(up)
    PROVE  /\ pc' = "apply"
           /\ plan'.poweroff => up
           /\ plan'.wake \/ plan'.start # {} => ~askedOff
<1>1. PICK r \in Readings : plan' = Decide(Observed(r, up))
  BY DEF Decided
<1> DEFINE o == Observed(r, up)
<1>2. plan' = Decide(o) /\ o \in Snapshots
  BY <1>1, ObservedType
<1>3. o.up = up /\ o.inFlight = askedOff /\ Signal(o) # "surplus"
  BY DEF Observed, Signal, NoSun, NightInv
<1>4. pc' = "apply"
  BY DEF Decided
<1> HIDE DEF o
<1>5. plan'.poweroff => up
  BY <1>2, <1>3, PowerOffCause
<1>6. plan'.wake => ~askedOff
  BY <1>2, <1>3, PlanShape
<1>7. plan'.start # {} => ~askedOff
  BY <1>2, <1>3, StartShape
<1> QED
  BY <1>4, <1>5, <1>6, <1>7

(* Every step of such a night keeps it. *)
LEMMA DyingStep ==
    ASSUME QuietNight, TypeOK, PlanInv, NightInv, Dying, [Next]_vars
    PROVE  Dying'
<1> USE DEF memory, p1, Online
<1>1. plan \in Plans /\ req \in {"none", "on", "off", "hold"} /\ askedOff \in BOOLEAN
  BY DEF TypeOK
<1>2. /\ Delegated /\ "offline" \notin Faults /\ "on" \notin Faults /\ NoSun
      /\ "handOn" \notin Env /\ "hostLoss" \notin Env /\ "crash" \notin Env
  BY DEF QuietNight
<1>3. ASSUME UNCHANGED <<host, askedOff, inFlight>>,
             req' \in {req, IF askedOff THEN "off" ELSE "hold", powerWish},
             EndTick \/ (UNCHANGED tick) \/ (\E step : Continue(step) /\ InTick /\
                 (pc \in {"restore", "recheck", "poweroff", "save"}
                    => step \in {"restore", "recheck", "poweroff", "save"}))
      PROVE  Dying'
  <2>1. req' = req \/ (IF askedOff THEN req' = "off" ELSE req' \in {"on", "hold"})
    BY <1>3 DEF powerWish
  <2>2. \/ pc' = "idle"
        \/ pc' = pc /\ plan' = plan
        \/ /\ InTick /\ plan' = plan
           /\ pc \in {"restore", "recheck", "poweroff", "save"}
                => pc' \in {"restore", "recheck", "poweroff", "save"}
    BY <1>3 DEF EndTick, Continue, tick
  <2> QED
    BY <1>3, <2>1, <2>2 DEF Dying, InTick
<1>4. CASE ObserveFails \/ ReadUnconfirmed
  BY <1>3, <1>4 DEF ObserveFails, ReadUnconfirmed, HoldPower, Wish
<1>5. CASE ReadIntent
  BY <1>5 DEF ReadIntent, Dying, InTick
<1>6. CASE ReadUp
  BY <1>2, <1>6, DecidedKnowing DEF ReadUp, ReadsOnline, Dying, InTick
<1>7. CASE ReadDown
  <2>1. host \in {"off", "booting"} /\ UNCHANGED <<host, req, inFlight>> /\ askedOff' = FALSE
    BY <1>2, <1>7 DEF ReadDown, ReadsOnline, TypeOK
  <2>2. pc' = "apply" /\ ~plan'.poweroff
    BY <1>2, <1>7, DecidedKnowing DEF ReadDown
  <2> QED
    BY <2>1, <2>2 DEF Dying
<1>8. CASE Apply
  <2>1. pc = "apply" /\ UNCHANGED <<host, askedOff, inFlight>> /\ req' \in {req, powerWish}
    BY <1>8 DEF Apply, Restate, Wish
  <2>2. EndTick \/ (\E step : Continue(step))
    BY <1>8 DEF Apply
  <2> QED
    BY <1>3, <2>1, <2>2 DEF InTick
<1>9. CASE ApplyFails
  <2>1. pc = "apply" /\ UNCHANGED <<host, askedOff, inFlight>> /\ req' \in {req, powerWish}
    BY <1>9 DEF ApplyFails, Restate, Wish
  <2>2. EndTick \/ (\E step : Continue(step))
    BY <1>9 DEF ApplyFails
  <2> QED
    BY <1>3, <2>1, <2>2 DEF InTick
<1>10. CASE Migrated \/ StopAll \/ StopFinished \/ StopInterrupted
  <2>1. /\ pc \in {"migrate", "stop", "stopping"} /\ UNCHANGED <<host, askedOff, req, inFlight>>
        /\ \E step : Continue(step)
    BY <1>10 DEF Migrated, StopAll, StopFinished, StopInterrupted
  <2> QED
    BY <1>3, <2>1 DEF InTick
<1>11. CASE MigrateFails \/ StopFails \/ WakeTimesOut \/ RestoreFails \/ Save
  <2>1. UNCHANGED <<host, askedOff, req, inFlight>> /\ EndTick
    BY <1>11 DEF MigrateFails, StopFails, WakeTimesOut, RestoreFails, Save
  <2> QED
    BY <1>3, <2>1
<1>12. CASE Wake
  <2>1. plan.wake /\ ~plan.poweroff /\ host # "goingDown"
    BY <1>12 DEF Wake, PlanInv, Asks, PlanFits, Dying, InTick
  <2>2. host' = host /\ askedOff' = FALSE /\ req' = "on" /\ plan' = plan
    BY <1>2, <1>12 DEF Wake, Continue
  <2> QED
    BY <2>1, <2>2 DEF Dying
<1>13. CASE WakeFails
  BY <1>2, <1>13 DEF WakeFails
<1>14. CASE Awake \/ StartUnlisted
  <2>1. /\ pc \in {"waking", "start"} /\ UNCHANGED <<host, askedOff, req, inFlight>>
        /\ \E step : Continue(step)
    BY <1>14 DEF Awake, StartUnlisted
  <2> QED
    BY <1>3, <2>1 DEF InTick
<1>15. CASE StartRequested
  <2>1. pc = "start" /\ UNCHANGED <<host, askedOff, req, inFlight>> /\ Continue(AfterStart(plan))
    BY <1>15 DEF StartRequested
  <2> QED
    BY <1>3, <2>1 DEF InTick
<1>16. CASE RestoreStopped \/ Recheck
  <2>1. /\ pc \in {"restore", "recheck"} /\ UNCHANGED <<host, askedOff, req, inFlight>>
        /\ Continue(AfterRestore(plan)) \/ Continue("save") \/ Continue("poweroff")
    BY <1>16 DEF RestoreStopped, Recheck
  <2> QED
    BY <1>3, <2>1 DEF InTick, AfterRestore
<1>17. CASE PowerOff
  <2>1. plan.poweroff
    BY <1>17 DEF PowerOff, PlanInv, Asks
  <2>2. host = "up" \/ askedOff
    BY <1>17, <2>1 DEF PowerOff, Dying, InTick
  <2>3. host' = host /\ askedOff' = TRUE /\ inFlight' = (host \in Online)
    BY <1>17 DEF PowerOff
  <2>4. (req' = "off" /\ Continue("save")) \/ (req' \in {req, "off"} /\ EndTick)
    BY <1>17 DEF PowerOff
  <2>5. pc' \in {"save", "idle"} /\ host # "booting"
    BY <2>2, <2>4 DEF Dying, Continue, EndTick
  <2>6. host # "off" => inFlight'
    BY <1>1, <2>3, <2>5 DEF TypeOK
  <2> QED
    BY <2>2, <2>3, <2>4, <2>5, <2>6 DEF Dying, InTick
<1>18. CASE ShutdownNode
  BY <1>2, <1>18 DEF ShutdownNode
<1>19. ASSUME NEW v \in Asked, Press(v) \/ PowerAction(v) PROVE Dying'
  BY <1>3, <1>19 DEF Press, PowerAction
<1>20. ASSUME NEW g \in Guests, GuestStops(g) \/ GuestStarts(g) \/ MovedBack(g) PROVE Dying'
  BY <1>3, <1>20 DEF GuestStops, GuestStarts, MovedBack
<1>21. CASE StopTaskStep
  BY <1>3, <1>21 DEF StopTaskStep
<1>22. CASE Booted
  BY <1>22 DEF Booted, Dying, InTick, tick
<1>23. CASE ShutDown
  BY <1>23 DEF ShutDown, GoneDown, Dying, InTick, tick
<1>24. CASE HostLost \/ HandOn \/ Crash
  BY <1>2, <1>24 DEF HostLost, HandOn, Crash
<1>25. CASE NutDogPoll
  BY <1>25 DEF NutDogPoll, Dying, InTick, tick
<1>26. CASE NutDogRestart
  BY <1>26 DEF NutDogRestart, Dying, InTick, tick
<1>d. CASE NutDogProbes
  BY <1>d DEF NutDogProbes, Dying, InTick, tick
<1>27. CASE Tick
  <2>1. /\ UNCHANGED <<pc, host, req, askedOff, inFlight>>
        /\ plan'.poweroff = plan.poweroff /\ plan'.wake = plan.wake /\ plan'.start = plan.start
    BY <1>1, <1>27 DEF Tick, Plans
  <2> QED
    BY <2>1 DEF Dying, InTick
<1>28. CASE UNCHANGED vars
  BY <1>3, <1>28 DEF vars
<1> QED
  BY <1>4, <1>5, <1>6, <1>7, <1>8, <1>9, <1>10, <1>11, <1>12, <1>13, <1>14, <1>15, <1>16, <1>17, <1>18, <1>19, <1>20, <1>21, <1>22, <1>23, <1>24, <1>25, <1>26, <1>27, <1>28, <1>d
     DEF Next, Loop, World

(* Dying holds throughout a quiet night. *)
LEMMA DyingAlways == ASSUME QuietNight PROVE Spec => []Dying
<1>1. Init => Dying
  BY DEF Init, Dying, InTick
<1>2. TypeOK /\ PlanInv /\ NightInv /\ Dying /\ [Next]_vars => Dying'
  BY DyingStep
<1>3. Spec => []NightInv
  BY NightAlways DEF QuietNight
<1> QED
  BY <1>1, <1>2, <1>3, TypeCorrect, PlanAlwaysFits, PTL DEF Spec

(* No requested VM is started on a host that is on its way down, whatever   *)
(* requests come and go, are lost or restated, and however long a tick      *)
(* takes to get from its decision to the start.  The sun is the exception:  *)
(* a surplus wakes a p1 whose shutdown is under way.                        *)
THEOREM NobodyStartsOnADyingHost ==
    ASSUME QuietNight
    PROVE  Spec => []NoStartOnDyingHost
<1>1. PlanInv /\ Dying => NoStartOnDyingHost
  BY DEF PlanInv, Asks, Dying, InTick, NoStartOnDyingHost
<1> QED
  BY <1>1, PlanAlwaysFits, DyingAlways, PTL

-----------------------------------------------------------------------------
(* An off that is remembered has not landed, or has where no tick looked.   *)
OffAccounted == askedOff => inFlight \/ unread

(* Every step keeps the account, under all faults and all outside moves:    *)
(* p1 going off with an off in flight is what starts a landing unread, and  *)
(* the tick that looks, or the wake, forgets the off.                       *)
LEMMA OffAccountedStep ==
    ASSUME TypeOK, OffAccounted, [Next]_vars, Log
    PROVE  OffAccounted'
<1> USE DEF memory, OffAccounted
<1>1. CASE PowerOff
  BY <1>1 DEF PowerOff, Log
<1>2. CASE ReadDown \/ Wake \/ WakeFails \/ Crash
  BY <1>2 DEF ReadDown, Wake, WakeFails, Crash
<1>3. CASE ShutDown \/ HostLost
  <2>1. CASE GoneDown
    <3>1. host # "off" /\ host' = "off" /\ askedOff' = askedOff /\ pc' = pc
      BY <1>3, <2>1 DEF ShutDown, HostLost, GoneDown, tick
    <3>2. ~Looks /\ ~Wakes
      BY <3>1 DEF Looks, Wakes
    <3>3. ~Crash \/ ~askedOff'
      BY DEF Crash
    <3> QED
      BY <3>1, <3>2, <3>3 DEF Log, Lands
  <2>2. CASE UNCHANGED <<askedOff, inFlight, pc>>
    BY <2>2 DEF Log, Looks, Wakes, Crash
  <2> QED
    BY <1>3, <2>1, <2>2 DEF ShutDown, HostLost, tick
<1>4. ASSUME UNCHANGED <<askedOff, inFlight>>, ~Looks, ~Wakes PROVE OffAccounted'
  BY <1>4 DEF Log, Crash
<1>5. CASE ReadUp
  BY <1>4, <1>5 DEF ReadUp, ReadsOnline, Looks, Wakes
<1>6. CASE ReadUnconfirmed
  <2>1. ~askedOff
    BY <1>6 DEF ReadUnconfirmed, confirmDown, Expected
  <2> QED
    BY <1>6, <2>1 DEF ReadUnconfirmed
<1>7. ASSUME UNCHANGED <<askedOff, inFlight>>, pc' = pc \/ pc \notin {"observe", "wake"}
      PROVE  OffAccounted'
  BY <1>4, <1>7 DEF Looks, Wakes
<1>8. CASE ObserveFails \/ ReadIntent \/ Apply \/ ApplyFails \/ Migrated \/ MigrateFails
  BY <1>7, <1>8 DEF ObserveFails, ReadIntent, Apply, ApplyFails, Migrated, MigrateFails, tick
<1>9. CASE StopAll \/ StopFinished \/ StopInterrupted \/ StopFails \/ Awake \/ WakeTimesOut
  BY <1>7, <1>9 DEF StopAll, StopFinished, StopInterrupted, StopFails, Awake, WakeTimesOut
<1>10. CASE \/ StartRequested \/ StartUnlisted \/ RestoreStopped \/ RestoreFails
            \/ Recheck \/ ShutdownNode \/ Save
  BY <1>7, <1>10 DEF StartRequested, StartUnlisted, RestoreStopped, RestoreFails,
                     Recheck, ShutdownNode, Save
<1>11. ASSUME NEW v \in Asked, Press(v) \/ PowerAction(v) PROVE OffAccounted'
  BY <1>7, <1>11 DEF Press, PowerAction, tick
<1>12. ASSUME NEW g \in Guests, GuestStops(g) \/ GuestStarts(g) \/ MovedBack(g) PROVE OffAccounted'
  BY <1>7, <1>12 DEF GuestStops, GuestStarts, MovedBack, tick
<1>13. CASE StopTaskStep \/ Booted \/ HandOn
  BY <1>7, <1>13 DEF StopTaskStep, Booted, HandOn, tick
<1>14. CASE NutDogPoll \/ NutDogRestart \/ NutDogProbes \/ Tick
  BY <1>7, <1>14 DEF NutDogPoll, NutDogRestart, NutDogProbes, Tick, tick
<1>15. CASE UNCHANGED vars
  BY <1>7, <1>15 DEF vars, tick
<1> QED
  BY <1>1, <1>2, <1>3, <1>5, <1>6, <1>8, <1>9, <1>10, <1>11, <1>12, <1>13, <1>14, <1>15
     DEF Next, Loop, World

(* The loop never infers a power-off: off is new to nut-dog only where a    *)
(* shed was just decided, or one that was has not landed, or landed where   *)
(* no tick has looked since.  For every configuration, whatever fails,      *)
(* whatever nut-dog loses, whoever moves p1 and whenever the loop restarts. *)
THEOREM OffIsDecided == LandingsSpec => OffNeverInferred
<1>1. LandingsInit => TypeOK /\ OffAccounted
  BY TypeStart DEF LandingsInit, Init, OffAccounted
<1>2. TypeOK /\ OffAccounted /\ [Next /\ Log]_<<vars, unread>> => (TypeOK /\ OffAccounted)'
  <2> SUFFICES ASSUME TypeOK, OffAccounted, [Next /\ Log]_<<vars, unread>>
               PROVE  TypeOK' /\ OffAccounted'
    OBVIOUS
  <2>1. CASE Next /\ Log
    BY <2>1, TypeStep, OffAccountedStep
  <2>2. CASE UNCHANGED <<vars, unread>>
    BY <2>2, TypeStep DEF vars, memory, OffAccounted
  <2> QED
    BY <2>1, <2>2
<1>3. TypeOK /\ OffAccounted /\ [Next /\ Log]_<<vars, unread>> =>
        [req' = "off" /\ req # "off" =>
            pc = "poweroff" \/ inFlight \/ unread]_<<vars, unread>>
  BY OffIsSaid DEF OffAccounted, PowerOff
<1> QED
  BY <1>1, <1>2, <1>3, PTL DEF LandingsSpec, OffNeverInferred

-----------------------------------------------------------------------------
(* What the loop and nut-dog keep of their sightings against what there was *)
(* to see: a probe that says down is as old as p1 has been up, and a streak *)
(* counts nothing but doubts, unless the last to see p1 was a wake.         *)
SightingsInv ==
    /\ upFor \in 0 .. ProbeMaxAge + 1 /\ doubts \in 0 .. NodeDownConfirm
    /\ host # "up" => upFor = 0
    /\ probe.actual = "down" => upFor <= probe.age
    /\ met \/ streak <= doubts

(* What a step does to the streak and to what the loop has of the probe.    *)
LEMMA SightStep ==
    ASSUME TypeOK, [Next]_vars
    PROVE  /\ \/ streak' = 0 \/ streak' = streak
              \/ streak < NodeDownConfirm /\ streak' = streak + 1
           /\ probe' = probe \/ probe' = NoProbe \/ NutDogProbes \/ Tick
<1> USE DEF memory, remote
<1>1. CASE ObserveFails \/ ReadIntent \/ Apply \/ ApplyFails \/ Migrated \/ MigrateFails
  BY <1>1 DEF ObserveFails, ReadIntent, Apply, ApplyFails, Migrated, MigrateFails
<1>2. CASE ReadUp
  BY <1>2 DEF ReadUp
<1>3. CASE ReadDown
  BY <1>3 DEF ReadDown, NextStreak
<1>4. CASE ReadUnconfirmed
  BY <1>4 DEF ReadUnconfirmed, NextStreak
<1>5. CASE StopAll \/ StopFinished \/ StopInterrupted \/ StopFails \/ Wake \/ WakeFails \/ Awake
  BY <1>5 DEF StopAll, StopFinished, StopInterrupted, StopFails, Wake, WakeFails, Awake
<1>6. CASE \/ WakeTimesOut \/ StartRequested \/ StartUnlisted \/ RestoreStopped \/ RestoreFails
           \/ Recheck \/ PowerOff \/ ShutdownNode \/ Save
  BY <1>6 DEF WakeTimesOut, StartRequested, StartUnlisted, RestoreStopped, RestoreFails,
              Recheck, PowerOff, ShutdownNode, Save
<1>7. ASSUME NEW v \in Asked, Press(v) \/ PowerAction(v) PROVE UNCHANGED <<streak, probe>>
  BY <1>7 DEF Press, PowerAction
<1>8. ASSUME NEW g \in Guests, GuestStops(g) \/ GuestStarts(g) \/ MovedBack(g)
      PROVE  UNCHANGED <<streak, probe>>
  BY <1>8 DEF GuestStops, GuestStarts, MovedBack
<1>9. CASE StopTaskStep \/ Booted \/ ShutDown \/ HostLost \/ HandOn \/ NutDogPoll
  BY <1>9 DEF StopTaskStep, Booted, ShutDown, HostLost, GoneDown, HandOn, NutDogPoll
<1>10. CASE NutDogRestart \/ NutDogProbes \/ Crash \/ Tick
  BY <1>10 DEF NutDogRestart, NutDogProbes, Crash, Tick
<1>11. CASE UNCHANGED vars
  BY <1>11 DEF vars
<1> QED
  BY <1>1, <1>2, <1>3, <1>4, <1>5, <1>6, <1>7, <1>8, <1>9, <1>10, <1>11 DEF Next, Loop, World

(* Every step keeps it. *)
LEMMA SightingsStep ==
    ASSUME TypeOK, SightingsInv, [Next]_vars, Watch
    PROVE  SightingsInv'
<1>1. /\ ProbeMaxAge \in Nat /\ NodeDownConfirm = 2 /\ streak \in 0 .. 2
      /\ probe.age \in 0 .. ProbeMaxAge + 1
      /\ upFor \in 0 .. ProbeMaxAge + 1 /\ doubts \in 0 .. 2
  BY InstanceAssumption DEF TypeOK, NodeDownConfirm, SightingsInv
<1>2. /\ upFor' \in 0 .. ProbeMaxAge + 1
      /\ host' # "up" => upFor' = 0
  BY <1>1 DEF Watch
<1>3. doubts' \in 0 .. 2
  BY <1>1 DEF Watch
<1>4. probe'.actual = "down" => upFor' <= probe'.age
  <2>1. CASE Tick
    <3>1. probe' = IF probe.age > ProbeMaxAge THEN probe ELSE [probe EXCEPT !.age = @ + 1]
      BY <2>1 DEF Tick
    <3>2. CASE probe.age > ProbeMaxAge
      BY <1>1, <1>2, <3>1, <3>2
    <3>3. CASE ~(probe.age > ProbeMaxAge)
      <4>1. probe'.actual = probe.actual /\ probe'.age = probe.age + 1
        BY <3>1, <3>3 DEF TypeOK
      <4>2. upFor' <= upFor + 1
        BY <1>1 DEF Watch
      <4> QED
        BY <1>1, <1>2, <4>1, <4>2 DEF SightingsInv
    <3> QED
      BY <3>2, <3>3
  <2>2. CASE ~Tick
    <3>1. upFor' = 0 \/ upFor' = upFor
      BY <2>2 DEF Watch
    <3>2. CASE probe' = probe
      BY <1>1, <3>1, <3>2 DEF SightingsInv
    <3>3. CASE probe' = NoProbe
      BY <3>3 DEF NoProbe
    <3>4. CASE NutDogProbes
      <4>1. PICK actual : Probed(actual) /\ probe' = [actual |-> actual, age |-> 0] /\ host' = host
        BY <3>4 DEF NutDogProbes, p1
      <4>2. actual = "down" => host' # "up"
        BY <4>1 DEF Probed
      <4> QED
        BY <1>2, <4>1, <4>2
    <3> QED
      BY <2>2, <3>2, <3>3, <3>4, SightStep
  <2> QED
    BY <2>1, <2>2
<1>5. met' \/ streak' <= doubts'
  <2>1. CASE Awake
    BY <2>1 DEF Watch
  <2>2. CASE SeenByTick \/ Crash
    <3>1. streak' = 0
      BY <2>2 DEF SeenByTick, ReadUp, Crash
    <3>2. 0 <= doubts'
      BY <1>3
    <3> QED
      BY <3>1, <3>2
  <2>3. CASE ~Awake /\ ~SeenByTick /\ ~Crash
    <3>1. met => met'
      BY <2>3 DEF Watch
    <3>2. doubts' = IF streak' > streak /\ doubts < 2 THEN doubts + 1 ELSE doubts
      BY <1>1, <2>3 DEF Watch
    <3>3. \/ streak' = 0 \/ streak' = streak
          \/ streak < 2 /\ streak' = streak + 1
      BY <1>1, SightStep
    <3> QED
      BY <1>1, <1>3, <3>1, <3>2, <3>3 DEF SightingsInv
  <2> QED
    BY <2>1, <2>2, <2>3
<1> QED
  BY <1>1, <1>2, <1>3, <1>4, <1>5 DEF SightingsInv

(* Only a tick that believes p1 down goes on from its reading as one.       *)
LEMMA BelieverReads ==
    ASSUME TypeOK, [Next]_vars, Believed
    PROVE  ReadDown
<1> USE DEF persisted, memory, tick, p1, remote, Believed
<1>1. CASE ReadUp
  BY <1>1 DEF ReadUp, Decided, TypeOK
<1>2. CASE ReadUnconfirmed
  BY <1>2 DEF ReadUnconfirmed, EndTick
<1>3. CASE World
  BY <1>3, OthersStep DEF Crash, Tick, EndTick
<1>4. CASE UNCHANGED vars
  BY <1>4 DEF vars
<1>5. CASE ObserveFails \/ ReadIntent \/ Apply \/ ApplyFails \/ Migrated \/ MigrateFails
  BY <1>5 DEF ObserveFails, ReadIntent, Apply, ApplyFails, Migrated, MigrateFails
<1>6. CASE StopAll \/ StopFinished \/ StopInterrupted \/ StopFails \/ Wake \/ WakeFails \/ Awake
  BY <1>6 DEF StopAll, StopFinished, StopInterrupted, StopFails, Wake, WakeFails, Awake
<1>7. CASE \/ WakeTimesOut \/ StartRequested \/ StartUnlisted \/ RestoreStopped \/ RestoreFails
           \/ Recheck \/ PowerOff \/ ShutdownNode \/ Save
  BY <1>7 DEF WakeTimesOut, StartRequested, StartUnlisted, RestoreStopped, RestoreFails,
              Recheck, PowerOff, ShutdownNode, Save
<1> QED
  BY <1>1, <1>2, <1>3, <1>4, <1>5, <1>6, <1>7 DEF Next, Loop

(* A tick that believes a p1 down that is up has something to go by.        *)
LEMMA BelieverHasCause ==
    ASSUME TypeOK, SightingsInv, [Next]_vars, Watch, Believed
    PROVE  Corroborated \/ met
<1>1. PICK actual \in {"up", "down", "unknown"} :
         Probe(actual) /\ confirmDown(actual) /\ streak' = NextStreak(actual)
  BY BelieverReads DEF ReadDown
<1>2. host = "up" /\ pc = "observe" /\ pc' = "apply" /\ ~snap'.up
  BY DEF Believed
<1>3. /\ ProbeMaxAge \in Nat /\ NodeDownConfirm = 2 /\ streak \in 0 .. 2
      /\ probe.age \in 0 .. ProbeMaxAge + 1
      /\ upFor \in 0 .. ProbeMaxAge + 1 /\ doubts \in 0 .. 2
  BY InstanceAssumption DEF TypeOK, NodeDownConfirm, SightingsInv
<1>4. CASE Expected
  BY <1>4 DEF Corroborated
<1>5. CASE actual = "down"
  <2>1. probe.actual = "down" /\ probe.age <= ProbeMaxAge
    BY <1>1, <1>2, <1>5 DEF Probe, Probed
  <2> QED
    BY <1>3, <2>1 DEF SightingsInv, Corroborated
<1>6. CASE ~Expected /\ actual = "unknown" /\ streak + 1 >= NodeDownConfirm
  <2>1. streak' = IF streak < 2 THEN streak + 1 ELSE streak
    BY <1>1, <1>3, <1>6 DEF NextStreak
  <2>2. ~SeenByTick /\ ~Awake /\ ~Crash
    BY <1>2 DEF SeenByTick, ReadUp, Decided, ReadUnconfirmed, Awake, Crash, EndTick, TypeOK
  <2>3. doubts' = IF streak' > streak /\ doubts < 2 THEN doubts + 1 ELSE doubts
    BY <1>3, <2>2 DEF Watch
  <2> QED
    BY <1>3, <1>6, <2>1, <2>3 DEF SightingsInv, Corroborated
<1> QED
  BY <1>1, <1>4, <1>5, <1>6 DEF confirmDown

(* A p1 that only dropped out of the cluster is not taken for switched off  *)
(* on one reading nobody speaks for: for every configuration, however old a *)
(* probe may be to count, with nut-dog answering or not, under every fault  *)
(* and for any timing.  Only the tick after a wake may go by fewer.         *)
THEOREM PartitionIsTolerated == SightingsSpec => PartitionTolerated
<1>1. SightingsInit => TypeOK /\ SightingsInv
  <2>1. SightingsInit => TypeOK
    BY TypeStart DEF SightingsInit
  <2>2. SightingsInit => SightingsInv
    BY InstanceAssumption DEF SightingsInit, Init, SightingsInv, NoProbe, NodeDownConfirm
  <2> QED
    BY <2>1, <2>2
<1>2. TypeOK /\ SightingsInv /\ [Next /\ Watch]_<<vars, sights>> => (TypeOK /\ SightingsInv)'
  <2> SUFFICES ASSUME TypeOK, SightingsInv, [Next /\ Watch]_<<vars, sights>>
               PROVE  TypeOK' /\ SightingsInv'
    OBVIOUS
  <2>1. CASE Next /\ Watch
    BY <2>1, TypeStep, SightingsStep
  <2>2. CASE UNCHANGED <<vars, sights>>
    BY <2>2, TypeStep DEF vars, memory, remote, p1, sights, SightingsInv
  <2> QED
    BY <2>1, <2>2
<1>3. TypeOK /\ SightingsInv /\ [Next /\ Watch]_<<vars, sights>> =>
        [Believed => Corroborated \/ met]_<<vars, sights>>
  BY BelieverHasCause
<1> QED
  BY <1>1, <1>2, <1>3, PTL DEF SightingsSpec, PartitionTolerated
=============================================================================

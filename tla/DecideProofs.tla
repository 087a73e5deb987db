---------------------------- MODULE DecideProofs ----------------------------
(* Lemmas about Decide that the proofs of Decision and Watchdog rest on. *)
EXTENDS Decide, TLAPS

(* Every clock the decision hands on is a clock. *)
LEMMA ClockTypes ==
    ASSUME NEW s \in Snapshots
    PROVE  /\ graceStart(s) \in Clocks
           /\ WakeDone(s) \in [Asked -> Ages]
           /\ 0 \in Clocks /\ Stopped \in Clocks
<1>1. 0 \in Ages /\ Never \in Ages
  BY DurationsAssumption DEF Ages, Never
<1>2. s.wake \in [Asked -> Ages] /\ s.done \in [Asked -> Ages]
  BY DEF Snapshots
<1>3. WakeDone(s) \in [Asked -> Ages]
  BY <1>1, <1>2 DEF WakeDone
<1> QED
  BY <1>1, <1>3 DEF graceStart, Clocks, Stopped

(* The plan that stays put has the type of a plan. *)
LEMMA StayType == ASSUME NEW s \in Snapshots PROVE Stay(s) \in Plans
<1>1. s.mode \in Modes /\ s.grace \in Clocks
  BY DEF Snapshots
<1> QED
  BY <1>1, ClockTypes DEF Stay, Plans

(* Each mode's plan has the type of a plan, before the starts are added. *)
LEMMA BranchTypes ==
    ASSUME NEW s \in Snapshots
    PROVE  DecideRunning(s) \in Plans /\ DecideShed(s) \in Plans /\ DecideGaming(s) \in Plans
<1>1. Stay(s) \in Plans
  BY StayType
<1>2. DecideRunning(s) \in Plans
  BY <1>1, ClockTypes DEF DecideRunning, Plans, Modes, matchRunning, Snapshots
<1>3. DecideShed(s) \in Plans
  BY <1>1, ClockTypes DEF DecideShed, Plans, Modes, Snapshots
<1>4. DecideGaming(s) \in Plans
  BY <1>1, ClockTypes DEF DecideGaming, Plans, Modes
<1> QED
  BY <1>2, <1>3, <1>4

(* Decide returns a plan execute() can carry out: guests of the right      *)
(* class, and a mode, a clock and markers that state.json can hold.        *)
LEMMA DecideType == ASSUME NEW s \in Snapshots PROVE Decide(s) \in Plans
<1>1. Pending(s) \subseteq Asked
  BY DEF Pending
<1> QED
  BY <1>1, BranchTypes DEF Decide, Plans

(* The markers of a plan are those of resolveWake, whatever the mode does. *)
LEMMA PlanMarkers ==
    ASSUME NEW s \in Snapshots
    PROVE  Decide(s).done = WakeDone(s) /\ Decide(s).start \subseteq Pending(s)
<1>1. CASE s.mode = "running"
  BY <1>1 DEF Decide, DecideRunning, Stay
<1>2. CASE s.mode = "shed"
  BY <1>2 DEF Decide, DecideShed, Stay
<1>3. CASE s.mode = "gaming"
  BY <1>3 DEF Decide, DecideGaming, Stay
<1> QED
  BY <1>1, <1>2, <1>3 DEF Snapshots, Modes

(* What a power-off in a plan says of the snapshot, mode by mode. *)
LEMMA PowerOffCause ==
    ASSUME NEW s \in Snapshots, Decide(s).poweroff
    PROVE  /\ s.up /\ ~gamingActive(s) /\ Pending(s) = {} /\ Signal(s) # "surplus"
           /\ Decide(s).next = "shed" /\ ~Decide(s).wake /\ ~Decide(s).restore
<1>1. s.mode \in Modes /\ s.up \in BOOLEAN
  BY DEF Snapshots
<1>2. CASE s.mode = "running"
  BY <1>2 DEF Decide, DecideRunning, Stay, gamingActive
<1>3. CASE s.mode = "shed"
  BY <1>3 DEF Decide, DecideShed, Stay
<1>4. CASE s.mode = "gaming"
  BY <1>4 DEF Decide, DecideGaming, Stay
<1> QED
  BY <1>1, <1>2, <1>3, <1>4 DEF Modes

(* Which mode plans what: only running sheds guests, and it sheds all of    *)
(* them; only shed wakes p1; a power-off and a restore exclude one another, *)
(* and mode running is only ever re-entered with a restore.                 *)
LEMMA PlanShape ==
    ASSUME NEW s \in Snapshots
    PROVE  /\ Decide(s).next = "running" => s.mode = "running" \/ Decide(s).restore
           /\ Decide(s).restore =>
                 s.mode # "running" /\ Decide(s).next = "running" /\ Signal(s) = "surplus"
           /\ Decide(s).poweroff => s.mode # "shed"
           /\ Decide(s).migrate # {} \/ Decide(s).stop # {} =>
                 s.mode = "running" /\ Decide(s).next # "running" /\ s.up
           /\ s.mode = "running" /\ Decide(s).next # "running" /\ s.up =>
                 Decide(s).migrate = s.running \cap Migrate /\ Decide(s).stop = s.running \cap Stop
           /\ Decide(s).wake =>
                 s.mode = "shed" /\ (Signal(s) = "surplus" \/ (~s.up /\ ~s.inFlight))
<1>1. CASE s.mode = "running"
  BY <1>1 DEF Decide, DecideRunning, Stay, matchRunning
<1>2. CASE s.mode = "shed"
  BY <1>2 DEF Decide, DecideShed, Stay
<1>3. CASE s.mode = "gaming"
  BY <1>3 DEF Decide, DecideGaming, Stay
<1> QED
  BY <1>1, <1>2, <1>3 DEF Snapshots, Modes

(* Starts are only planned for a p1 that is not on its way down. *)
LEMMA StartShape ==
    ASSUME NEW s \in Snapshots, Decide(s).start # {}
    PROVE  ~Decide(s).poweroff /\ ~s.inFlight
<1> DEFINE p == IF s.mode = "running" THEN DecideRunning(s)
                ELSE IF s.mode = "shed" THEN DecideShed(s)
                ELSE DecideGaming(s)
<1>1. p \in Plans
  BY BranchTypes
<1>2. Decide(s) = [p EXCEPT !.start = IF mayStart(s, p) THEN Pending(s) ELSE {}]
  BY DEF Decide
<1> HIDE DEF p
<1>3. Decide(s).start = (IF mayStart(s, p) THEN Pending(s) ELSE {}) /\ Decide(s).poweroff = p.poweroff
  BY <1>1, <1>2 DEF Plans
<1> QED
  BY <1>3 DEF mayStart

(* The grace clock a plan hands on never runs over a session, and it is as  *)
(* old as the one before it or has just been started; only a clock that has *)
(* run out powers p1 off from gaming.                                       *)
LEMMA ClockShape ==
    ASSUME NEW s \in Snapshots
    PROVE  /\ Decide(s).next = "gaming" /\ Decide(s).grace # Stopped =>
                 /\ ~gamingActive(s)
                 /\ Decide(s).grace = 0 \/ (s.mode = "gaming" /\ Decide(s).grace = s.grace)
           /\ Decide(s).poweroff /\ s.mode = "gaming" =>
                 s.grace # Stopped /\ s.grace >= GamingGrace
<1>1. CASE s.mode = "running"
  BY <1>1 DEF Decide, DecideRunning, Stay, graceStart
<1>2. CASE s.mode = "shed"
  BY <1>2 DEF Decide, DecideShed, Stay, graceStart
<1>3. CASE s.mode = "gaming"
  BY <1>3 DEF Decide, DecideGaming, Stay, graceOver
<1> QED
  BY <1>1, <1>2, <1>3 DEF Snapshots, Modes
=============================================================================

--------------------------- MODULE DecisionProofs ---------------------------
(***************************************************************************)
(* What module Decision promises, proved for every snapshot, every band,   *)
(* every set of guests and every duration the configuration may give.      *)
(***************************************************************************)
EXTENDS Decision, DecideProofs

-----------------------------------------------------------------------------
(* The decision taken is the decision of the snapshot. *)
IInv == in \in Snapshots /\ (decided => out = Decide(in))

(* IInv holds in every reachable state, for any set of input snapshots. *)
LEMMA Decided == Spec => []IInv
<1>1. Init => IInv
  BY InputsAssumption DEF Init, IInv
<1>2. IInv /\ [Next]_vars => IInv'
  BY DEF IInv, Next, Step, vars
<1> QED
  BY <1>1, <1>2, PTL DEF Spec

(* The plan is always one that execute() can carry out. *)
THEOREM DecisionTyped == Spec => []TypeOK
<1>1. Init => TypeOK
  BY InputsAssumption, StayType DEF Init, TypeOK
<1>2. TypeOK /\ [Next]_vars => TypeOK'
  BY DecideType DEF TypeOK, Next, Step, vars
<1> QED
  BY <1>1, <1>2, PTL DEF Spec

-----------------------------------------------------------------------------
(* A power-off is never decided for a p1 that a desktop VM runs on, or that *)
(* an unserved live request waits for, whatever sun, battery, hold, mode or *)
(* clock say.                                                               *)
THEOREM UsersSpared == Spec => []PowerOffSparesUsers
<1>1. IInv => PowerOffSparesUsers
  <2> SUFFICES ASSUME IInv, decided, out.poweroff
               PROVE  /\ in.up /\ in.running \cap GamingGuard = {}
                      /\ \A v \in Asked : in.wake[v] < GamingGrace /\ in.wake[v] < in.done[v]
                                             => v \in in.running
    BY DEF PowerOffSparesUsers
  <2>1. in.up /\ ~gamingActive(in) /\ Pending(in) = {}
    BY PowerOffCause DEF IInv
  <2>2. in.wake \in [Asked -> Ages] /\ in.done \in [Asked -> Ages]
    BY DEF IInv, Snapshots
  <2> QED
    BY <2>1, <2>2, DurationsAssumption DEF gamingActive, Pending, Live, Spent, Ages
<1> QED
  BY <1>1, Decided, PTL

(* Whoever asks is served: for every configuration, the tick that reads a   *)
(* request it may act on starts the VM, on a p1 that is up or being woken.  *)
THEOREM RequestsAnswered == Spec => []RequestAnswered
<1>1. IInv => RequestAnswered
  <2> SUFFICES ASSUME IInv, decided, NEW v \in Asked \ in.running,
                      in.wake[v] < GamingGrace, in.wake[v] < in.done[v],
                      ~in.inFlight, in.up \/ in.mode = "shed"
               PROVE  v \in out.start /\ (in.up \/ out.wake) /\ ~out.poweroff
    BY DEF RequestAnswered
  <2>1. in \in Snapshots /\ out = Decide(in)
    BY DEF IInv
  <2>2. v \in Pending(in)
    <3>1. in.wake[v] \in Ages /\ in.done[v] \in Ages
      BY <2>1 DEF Snapshots
    <3> QED
      BY <3>1, DurationsAssumption DEF Pending, Live, Spent, Ages
  <2>3. ~out.poweroff
    BY <2>1, <2>2, PowerOffCause
  <2>4. in.up \/ out.wake
    BY <2>1, <2>2 DEF Decide, DecideShed, Stay, Snapshots
  <2>5. v \in out.start
    <3> DEFINE p == IF in.mode = "running" THEN DecideRunning(in)
                    ELSE IF in.mode = "shed" THEN DecideShed(in)
                    ELSE DecideGaming(in)
    <3>1. p \in Plans
      BY <2>1, BranchTypes
    <3>2. out = [p EXCEPT !.start = IF mayStart(in, p) THEN Pending(in) ELSE {}]
      BY <2>1 DEF Decide
    <3>3. p.poweroff = out.poweroff /\ p.wake = out.wake
      BY <3>1, <3>2 DEF Plans
    <3>4. mayStart(in, p)
      BY <2>3, <2>4, <3>3 DEF mayStart
    <3> QED
      BY <2>2, <3>1, <3>2, <3>4 DEF Plans
  <2> QED
    BY <2>3, <2>4, <2>5
<1> QED
  BY <1>1, Decided, PTL

-----------------------------------------------------------------------------
(* A request whose VM one decision saw running is not acted on by the next, *)
(* whatever mode the first led to.                                          *)
THEOREM RequestsSpent == Spec => []ServedOnce
<1>1. IInv => ServedOnce
  <2> SUFFICES ASSUME IInv, decided, NEW v \in Asked \cap in.running
               PROVE  v \notin Decide([After EXCEPT !.running = @ \ {v}]).start
    BY DEF ServedOnce
  <2> DEFINE t == [After EXCEPT !.running = @ \ {v}]
  <2>1. in \in Snapshots /\ out = Decide(in) /\ out \in Plans
    BY DecideType DEF IInv
  <2>2. t \in Snapshots /\ t.wake = in.wake /\ t.done = out.done
    BY <2>1 DEF After, Snapshots, Plans
  <2>3. t.done[v] = WakeDone(in)[v]
    BY <2>1, <2>2, PlanMarkers
  <2>4. in.wake[v] \in Ages /\ in.done[v] \in Ages
    BY <2>1 DEF Snapshots
  <2>5. v \notin Pending(t)
    BY <2>2, <2>3, <2>4, DurationsAssumption DEF Pending, Live, Spent, WakeDone, Ages
  <2> QED
    BY <2>2, <2>5, PlanMarkers
<1> QED
  BY <1>1, Decided, PTL

(* With a hold in force no reading of the sun or of the battery changes     *)
(* anything about the plan.                                                 *)
THEOREM HoldsPin == Spec => []HoldsPinTheSignal
<1>1. IInv => HoldsPinTheSignal
  <2> SUFFICES ASSUME IInv, decided, in.shed \/ in.on, NEW w \in Watts, NEW c \in Charges
               PROVE  Decide([in EXCEPT !.surplus = w, !.soc = c]) = out
    BY DEF HoldsPinTheSignal
  <2> DEFINE t == [in EXCEPT !.surplus = w, !.soc = c]
  <2>1. in \in Snapshots /\ out = Decide(in)
    BY DEF IInv
  <2>2. /\ t.up = in.up /\ t.uptime = in.uptime /\ t.running = in.running
        /\ t.mode = in.mode /\ t.grace = in.grace /\ t.shed = in.shed /\ t.on = in.on
        /\ t.inFlight = in.inFlight /\ t.wake = in.wake /\ t.done = in.done
    BY <2>1 DEF Snapshots
  <2>3. Signal(t) = Signal(in)
    BY <2>2 DEF Signal
  <2>4. /\ Pending(t) = Pending(in) /\ Stay(t) = Stay(in)
        /\ gamingActive(t) = gamingActive(in) /\ graceStart(t) = graceStart(in)
    BY <2>2 DEF Pending, Spent, Stay, WakeDone, gamingActive, graceStart
  <2>5. /\ DecideRunning(t) = DecideRunning(in) /\ DecideShed(t) = DecideShed(in)
        /\ DecideGaming(t) = DecideGaming(in)
    BY <2>2, <2>3, <2>4 DEF DecideRunning, DecideShed, DecideGaming, matchRunning, graceOver
  <2> QED
    BY <2>1, <2>2, <2>4, <2>5 DEF Decide, mayStart
<1> QED
  BY <1>1, Decided, PTL

(* minRuntime, of whatever length, never does more than defer the shed of a *)
(* running p1, and it defers that whole.                                    *)
THEOREM MinRuntimeDefers == Spec => []MinRuntimeOnlyDefers
<1>1. IInv => MinRuntimeOnlyDefers
  <2> DEFINE t == [in EXCEPT !.uptime = MinRuntime]
             free == Decide(t)
  <2> SUFFICES ASSUME IInv, decided, minRuntimeHold(in), in.mode # "shed"
               PROVE  \/ out = free
                      \/ /\ in.mode = "running" /\ ~in.shed /\ free.next \in {"shed", "gaming"}
                         /\ out.next = "running" /\ out.migrate = {} /\ out.stop = {} /\ ~out.poweroff
    BY DEF MinRuntimeOnlyDefers
  <2>1. in \in Snapshots /\ out = Decide(in) /\ in.up
    BY DEF IInv, minRuntimeHold
  <2>2. /\ t.up = in.up /\ t.uptime = MinRuntime /\ t.running = in.running
        /\ t.surplus = in.surplus /\ t.soc = in.soc
        /\ t.mode = in.mode /\ t.grace = in.grace /\ t.shed = in.shed /\ t.on = in.on
        /\ t.inFlight = in.inFlight /\ t.wake = in.wake /\ t.done = in.done
    BY <2>1 DEF Snapshots
  <2>3. ~minRuntimeHold(t)
    BY <2>2, DurationsAssumption DEF minRuntimeHold
  <2>4. /\ Pending(t) = Pending(in) /\ Stay(t) = Stay(in)
        /\ gamingActive(t) = gamingActive(in) /\ graceStart(t) = graceStart(in)
    BY <2>2 DEF Pending, Spent, Stay, WakeDone, gamingActive, graceStart
  <2>5. CASE Signal(t) = Signal(in)
    <3>1. DecideRunning(t) = DecideRunning(in) /\ DecideGaming(t) = DecideGaming(in)
      BY <2>2, <2>4, <2>5 DEF DecideRunning, DecideGaming, matchRunning, graceOver
    <3> QED
      BY <2>1, <2>2, <2>4, <3>1 DEF Decide, mayStart
  <2>6. CASE Signal(t) # Signal(in)
    <3>1. ~in.shed /\ Signal(t) = "deficit" /\ Signal(in) = "neutral"
      BY <2>2, <2>3, <2>6 DEF Signal
    <3>2. CASE in.mode = "running"
      <4>1. /\ out.next = "running" /\ out.migrate = {} /\ out.stop = {} /\ ~out.poweroff
        BY <2>1, <3>1, <3>2 DEF Decide, DecideRunning, Stay
      <4>2. free.next \in {"shed", "gaming"}
        BY <2>1, <2>2, <3>1, <3>2 DEF Decide, DecideRunning, Stay
      <4> QED
        BY <3>1, <3>2, <4>1, <4>2
    <3>3. CASE in.mode = "gaming"
      <4>1. DecideGaming(t) = DecideGaming(in)
        BY <2>2, <2>4, <3>1 DEF DecideGaming, graceOver
      <4> QED
        BY <2>1, <2>2, <2>4, <3>3, <4>1 DEF Decide, mayStart
    <3> QED
      BY <2>1, <3>2, <3>3 DEF Snapshots, Modes
  <2> QED
    BY <2>5, <2>6
<1> QED
  BY <1>1, Decided, PTL

(* No power-off is taken back by the next decision, and no wake is followed *)
(* by a power-off, for every band and every set of guests.                  *)
THEOREM PowerDoesNotFlap == Spec => []NoThrash
<1>1. ASSUME IInv, decided, out.poweroff, NEW v \in Asked
      PROVE  LET next == Decide(GoingDown(v))
             IN  ~next.wake /\ ~next.restore /\ next.start = {}
  <2>1. in \in Snapshots /\ out = Decide(in) /\ out \in Plans
    BY <1>1, DecideType DEF IInv
  <2>2. Signal(in) # "surplus" /\ out.next = "shed" /\ in.up
    BY <1>1, <2>1, PowerOffCause
  <2> DEFINE t == GoingDown(v)
  <2>3. /\ t.mode = "shed" /\ t.inFlight /\ t.up = in.up /\ t.surplus = in.surplus
        /\ t.soc = in.soc /\ t.uptime = in.uptime /\ t.shed = in.shed /\ t.on = in.on
    BY <2>1, <2>2 DEF GoingDown, After, Snapshots, Plans
  <2>4. Signal(t) = Signal(in)
    BY <2>3 DEF Signal, minRuntimeHold
  <2> QED
    BY <2>2, <2>3, <2>4 DEF Decide, DecideShed, Stay, mayStart
<1>2. ASSUME IInv, decided, out.poweroff
      PROVE  ~Decide(Landed).wake
  <2>1. in \in Snapshots /\ out = Decide(in) /\ out \in Plans
    BY <1>2, DecideType DEF IInv
  <2>2. Signal(in) # "surplus" /\ out.next = "shed" /\ in.up /\ Pending(in) = {}
    BY <1>2, <2>1, PowerOffCause
  <2>3. /\ Landed.mode = "shed" /\ Landed.up = FALSE /\ Landed.surplus = in.surplus
        /\ Landed.soc = in.soc /\ Landed.shed = in.shed /\ Landed.on = in.on
        /\ Landed.wake = in.wake /\ Landed.done = WakeDone(in)
    BY <2>1, <2>2, PlanMarkers DEF Landed, After, Snapshots, Plans
  <2>4. Signal(Landed) # "surplus"
    BY <2>2, <2>3 DEF Signal
  <2>5. Pending(Landed) = {}
    <3> SUFFICES ASSUME NEW v \in Asked, Live(in.wake[v]), ~(in.wake[v] >= WakeDone(in)[v])
                 PROVE  FALSE
      BY <2>3 DEF Pending, Spent
    <3>1. in.wake[v] \in Ages /\ in.done[v] \in Ages
      BY <2>1 DEF Snapshots
    <3>2. Spent(in, v) \/ v \in in.running
      BY <2>2 DEF Pending
    <3> QED
      BY <3>1, <3>2, DurationsAssumption DEF WakeDone, Spent, Ages
  <2> QED
    BY <2>3, <2>4, <2>5 DEF Decide, DecideShed, Stay
<1>3. ASSUME IInv, decided, out.wake, NEW w \in [Asked -> Ages]
      PROVE  ~Decide(Woken(w)).poweroff
  <2>1. in \in Snapshots /\ out = Decide(in) /\ out \in Plans
    BY <1>3, DecideType DEF IInv
  <2> DEFINE t == Woken(w)
  <2>2. t.up /\ t.uptime = 0 /\ t.mode = out.next /\ t.grace = out.grace /\ t.surplus = in.surplus
        /\ t.soc = in.soc /\ t.shed = in.shed /\ t.on = in.on
    BY <2>1 DEF Woken, After, Snapshots, Plans
  <2>3. in.mode = "shed"
    <3>1. CASE in.mode = "running"
      BY <1>3, <2>1, <3>1 DEF Decide, DecideRunning, Stay
    <3>2. CASE in.mode = "gaming"
      BY <1>3, <2>1, <3>2 DEF Decide, DecideGaming, Stay
    <3> QED
      BY <2>1, <3>1, <3>2 DEF Snapshots, Modes
  <2>4. CASE Signal(in) = "surplus"
    <3>1. t.mode = "running"
      BY <2>1, <2>2, <2>3, <2>4 DEF Decide, DecideShed, Stay
    <3>2. Signal(t) # "deficit"
      BY <2>2, <2>4 DEF Signal, minRuntimeHold
    <3> QED
      BY <2>2, <3>1, <3>2 DEF Decide, DecideRunning, Stay
  <2>5. CASE Signal(in) # "surplus"
    <3>1. t.mode = "gaming" /\ t.grace \in {Stopped, 0}
      BY <1>3, <2>1, <2>2, <2>3, <2>5 DEF Decide, DecideShed, Stay, graceStart
    <3>2. ~graceOver(t)
      BY <3>1, DurationsAssumption DEF graceOver, Stopped
    <3> QED
      BY <2>2, <3>1, <3>2 DEF Decide, DecideGaming, Stay
  <2> QED
    BY <2>4, <2>5
<1>4. IInv => NoThrash
  <2> SUFFICES ASSUME IInv, decided PROVE NoThrash
    BY DEF NoThrash
  <2>1. in.wake \in [Asked -> Ages] /\ NobodyAsks \in [Asked -> Ages]
    BY DurationsAssumption DEF IInv, Snapshots, NobodyAsks, Never, Ages
  <2> QED
    BY <1>1, <1>2, <1>3, <2>1 DEF NoThrash
<1> QED
  BY <1>4, Decided, PTL
=============================================================================
